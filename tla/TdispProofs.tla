----------------------------- MODULE TdispProofs ----------------------------
(***************************************************************************)
(* Invariance proofs for Tdisp, for every selection of test classes, every *)
(* number of groups and cases, every portion and buffer size and every     *)
(* length a device may put into a portion.                                 *)
(***************************************************************************)
EXTENDS Tdisp, TLAPS

\* The type invariant in parts, each with the facts its proof needs.
ControlType ==
    /\ pc \in {"group", "case", "setup", "run", "check", "teardown", "hung"}
    /\ class \in Classes \cup {"none"}
    /\ case \in Cases \cup {"none"}
    /\ setup_success \subseteq Cases \ NoTeardown
    /\ verdict \in {"NOT_TESTED", "PASS", "FAILED"}
StepType ==
    /\ step \in Nat
    /\ pc = "setup" => step < Len(Script[case].setup)
    /\ pc = "run" => Script[case].request # "none"
    /\ pc = "check" => Script[case].after # "any"
CountType == ran \in 0..MaxCases /\ groups \in 0..MaxGroups
DeviceType ==
    /\ tdi \in TdiStates
    /\ keys \in {"none", "earlier", "session"}
    /\ secure \in BOOLEAN
    /\ lost \in BOOLEAN
    /\ dirty \in BOOLEAN
    /\ before \in TdiStates \cup {"none"}
ReportType ==
    report \in [offset : 0..ReportMax, remainder : 0..MaxLength,
                total : 0..ReportMax, odd : BOOLEAN]
FieldsType == fields \in {"demanded", "optional", "other"}

LEMMA TypeParts ==
    TypeOK <=> /\ ControlType /\ StepType /\ CountType /\ DeviceType
               /\ ReportType /\ FieldsType
  BY DEF TypeOK, ControlType, StepType, CountType, DeviceType, ReportType,
     FieldsType

LEMMA InitInv == Init => Inv
  <1> SUFFICES ASSUME Init PROVE Inv
    OBVIOUS
  <1> USE TdispAssumption DEF Init, NoReport
  <1>1. ControlType /\ StepType /\ CountType /\ ReportType
    BY DEF ControlType, StepType, CountType, ReportType
  <1>2. DeviceType /\ FieldsType
    BY DEF DeviceType, TdiStates, FieldsType
  <1>3. Control /\ TdiKnown /\ StreamKnown /\ NothingToRelease
    BY DEF Control, TdiKnown, StreamKnown, NothingToRelease, InCase,
       BeforeRequest
  <1>4. VerdictKnown /\ BeforeKnown /\ ReportKnown
    BY DEF VerdictKnown, BeforeKnown, ReportKnown
  <1>5. Released /\ NoFalseAlarm /\ PassMeansPrecondition
    BY DEF Released, NoFalseAlarm, PassMeansPrecondition
  <1> QED
    BY <1>1, <1>2, <1>3, <1>4, <1>5, TypeParts DEF Inv

-----------------------------------------------------------------------------
(* The case files and the device.                                          *)

\* The exchanges of the setups.
Exchanges == {"version", "capabilities", "state", "ide"} \cup Changing

\* What every setup respects: the stream is brought up once and before the
\* TDI is locked, the TDI is started right after it is locked, and the state
\* is asked for when nothing moves it any more.
Ordered(s) ==
    /\ Len(s) \in Nat
    /\ s = <<>> <=> Len(s) = 0
    /\ \A i \in 1..Len(s) :
          /\ s[i] \in Exchanges
          /\ s[i] = "ide" => \A j \in 1..(i - 1) : s[j] \notin Changing
          /\ s[i] = "lock" => /\ \E j \in 1..(i - 1) : s[j] = "ide"
                              /\ \A j \in 1..(i - 1) : s[j] \notin Changing
          /\ s[i] = "start" => i > 1 /\ s[i - 1] = "lock"
          /\ s[i] \in Changing => \A j \in 1..(i - 1) : s[j] # "state"

\* The setups of the case files respect that order.
LEMMA SetupsOrdered ==
    /\ Ordered(<<>>)
    /\ Ordered(<<"version">>)
    /\ Ordered(Hello)
    /\ Ordered(HelloState)
    /\ Ordered(HelloStateIde)
    /\ Ordered(HelloIdeState)
    /\ Ordered(HelloLock)
    /\ Ordered(HelloLockState)
    /\ Ordered(HelloLockStopState)
    /\ Ordered(HelloStart)
    /\ Ordered(HelloStartState)
    /\ Ordered(HelloStartStop)
  <1>1. Ordered(<<>>)
    BY DEF Ordered, Exchanges, Changing
  <1>2. Ordered(<<"version">>)
    BY DEF Ordered, Exchanges, Changing
  <1>3. Ordered(Hello)
    BY DEF Ordered, Exchanges, Changing, Hello
  <1>4. Ordered(HelloState)
    BY DEF Ordered, Exchanges, Changing, HelloState
  <1>5. Ordered(HelloStateIde)
    BY DEF Ordered, Exchanges, Changing, HelloStateIde
  <1>6. Ordered(HelloIdeState)
    BY DEF Ordered, Exchanges, Changing, HelloIdeState
  <1>7. Ordered(HelloLock)
    BY DEF Ordered, Exchanges, Changing, HelloLock
  <1>8. Ordered(HelloLockState)
    BY DEF Ordered, Exchanges, Changing, HelloLockState
  <1>9. Ordered(HelloLockStopState)
    BY DEF Ordered, Exchanges, Changing, HelloLockStopState
  <1>10. Ordered(HelloStart)
    BY DEF Ordered, Exchanges, Changing, HelloStart
  <1>11. Ordered(HelloStartState)
    BY DEF Ordered, Exchanges, Changing, HelloStartState
  <1>12. Ordered(HelloStartStop)
    BY DEF Ordered, Exchanges, Changing, HelloStartStop
  <1> QED
    BY <1>1, <1>2, <1>3, <1>4, <1>5, <1>6, <1>7, <1>8, <1>9, <1>10, <1>11,
       <1>12

\* The case files.
LEMMA CaseNames ==
    Cases = {"version_1", "capabilities_1", "lock_interface_1",
             "lock_interface_2", "lock_interface_3", "lock_interface_4",
             "interface_report_1", "interface_report_2", "interface_report_3",
             "interface_report_4", "interface_report_5", "interface_state_1",
             "interface_state_2", "interface_state_3", "interface_state_4",
             "start_interface_1", "start_interface_2", "start_interface_3",
             "start_interface_4", "stop_interface_1", "stop_interface_2",
             "stop_interface_3"}
  BY DEF Cases, Script

\* The table of the cases names case files only.
LEMMA FuncsAreCases ==
    \A c \in DOMAIN m_tdisp_test_case_funcs :
        m_tdisp_test_case_funcs[c] \subseteq Cases
  BY CaseNames DEF m_tdisp_test_case_funcs

LEMMA SetupOfCase == \A c \in Cases : Ordered(Script[c].setup)
  <1>1. \A c \in Cases : Script[c].setup \in {<<>>, <<"version">>, Hello,
                                              HelloState, HelloStateIde,
                                              HelloIdeState, HelloLock,
                                              HelloLockState,
                                              HelloLockStopState, HelloStart,
                                              HelloStartState, HelloStartStop}
    BY CaseNames DEF Script, Case, version_1, capabilities_1,
       lock_interface_1, lock_interface_2, lock_interface_3, lock_interface_4,
       interface_report_1, interface_report_2, interface_report_3,
       interface_report_4, interface_report_5, interface_state_1,
       interface_state_2, interface_state_3, interface_state_4,
       start_interface_1, start_interface_2, start_interface_3,
       start_interface_4, stop_interface_1, stop_interface_2, stop_interface_3
  <1> QED
    BY <1>1, SetupsOrdered

\* What a case file asks for and expects is what TDISP prescribes in the
\* state that its setup prepares.
Is(r, q, s, a, f) ==
    r.request = q /\ r.state = s /\ r.answer = a /\ r.after = f
Has(r, x) == \E i \in 1..Len(r.setup) : r.setup[i] = x
Still(r) == \A i \in 1..Len(r.setup) : r.setup[i] \notin Changing
StateLast(s) ==
    \A i, j \in 1..Len(s) : s[i] = "state" /\ i < j => s[j] # "ide"
WrongIn(r, q, s) == Is(r, q, s, "INVALID_INTERFACE_STATE", s)

Expects(c, r) ==
    \/ Is(r, "version", "any", "VERSION", "any")
    \/ Is(r, "capabilities", "any", "CAPABILITIES", "any")
    \/ Is(r, "lock", "UNLOCKED", "LOCK_RSP", "LOCKED") /\ Has(r, "ide")
    \/ /\ Is(r, "lock", "UNLOCKED", "INVALID_REQUEST", "UNLOCKED")
       /\ ~Has(r, "ide") /\ c = "lock_interface_2"
    \/ WrongIn(r, "lock", "LOCKED") \/ WrongIn(r, "lock", "RUN")
    \/ Is(r, "report", "LOCKED", "REPORT", "LOCKED")
    \/ Is(r, "report", "LOCKED", "REPORT", "any")
    \/ Is(r, "report", "RUN", "REPORT", "RUN")
    \/ Is(r, "report_beyond", "LOCKED", "INVALID_REQUEST", "LOCKED")
    \/ WrongIn(r, "report", "UNLOCKED")
    \/ /\ Is(r, "none", "any", "none", "UNLOCKED")
       /\ Still(r) /\ c = "interface_state_1"
    \/ /\ Is(r, "none", "any", "none", Outcome[r.setup[Len(r.setup)]])
       /\ Len(r.setup) > 0 /\ r.setup[Len(r.setup)] \in Changing
    \/ Is(r, "start", "LOCKED", "START_RSP", "RUN")
    \/ Is(r, "start_bad_nonce", "LOCKED", "INVALID_NONCE", "LOCKED")
    \/ WrongIn(r, "start", "UNLOCKED") \/ WrongIn(r, "start", "RUN")
    \/ Is(r, "stop", r.state, "STOP_RSP", "UNLOCKED") /\ r.state # "none"

Consistent(c) ==
    /\ Script[c].state # "any" => Has(Script[c], "state")
    /\ c \in NoTeardown <=> Script[c].request \in {"version", "capabilities"}
    /\ c \in NoTeardown => Still(Script[c])
    /\ Script[c].setup = <<>> => c \in NoTeardown
    /\ Script[c].state = "UNLOCKED" \/ StateLast(Script[c].setup)
    /\ Expects(c, Script[c])

LEMMA CasesConsistent == \A c \in Cases : Consistent(c)
  <1> USE DEF Consistent, NoTeardown, Has, Still, StateLast, Is, WrongIn,
     Changing,
           Outcome, Expects, Case
  <1>1. Consistent("version_1")
    <2>1. Script["version_1"] = version_1
      BY DEF Script
    <2> QED
      BY <2>1 DEF version_1
  <1>2. Consistent("capabilities_1")
    <2>1. Script["capabilities_1"] = capabilities_1
      BY DEF Script
    <2> QED
      BY <2>1 DEF capabilities_1
  <1>3. Consistent("lock_interface_1")
    <2>1. Script["lock_interface_1"] = lock_interface_1
      BY DEF Script
    <2> QED
      BY <2>1 DEF lock_interface_1, HelloStateIde
  <1>4. Consistent("lock_interface_2")
    <2>1. Script["lock_interface_2"] = lock_interface_2
      BY DEF Script
    <2> QED
      BY <2>1 DEF lock_interface_2, HelloState
  <1>5. Consistent("lock_interface_3")
    <2>1. Script["lock_interface_3"] = lock_interface_3
      BY DEF Script
    <2> QED
      BY <2>1 DEF lock_interface_3, HelloLockState
  <1>6. Consistent("lock_interface_4")
    <2>1. Script["lock_interface_4"] = lock_interface_4
      BY DEF Script
    <2> QED
      BY <2>1 DEF lock_interface_4, HelloStartState
  <1>7. Consistent("interface_report_1")
    <2>1. Script["interface_report_1"] = interface_report_1
      BY DEF Script
    <2> QED
      BY <2>1 DEF interface_report_1, HelloLockState
  <1>8. Consistent("interface_report_2")
    <2>1. Script["interface_report_2"] = interface_report_2
      BY DEF Script
    <2> QED
      BY <2>1 DEF interface_report_2, HelloStartState
  <1>9. Consistent("interface_report_3")
    <2>1. Script["interface_report_3"] = interface_report_3
      BY DEF Script
    <2> QED
      BY <2>1 DEF interface_report_3, HelloLockState
  <1>10. Consistent("interface_report_4")
    <2>1. Script["interface_report_4"] = interface_report_4
      BY DEF Script
    <2> QED
      BY <2>1 DEF interface_report_4, HelloState
  <1>11. Consistent("interface_report_5")
    <2>1. Script["interface_report_5"] = interface_report_5
      BY DEF Script
    <2> QED
      BY <2>1 DEF interface_report_5, HelloLockState
  <1>12. Consistent("interface_state_1")
    <2>1. Script["interface_state_1"] = interface_state_1
      BY DEF Script
    <2> QED
      BY <2>1 DEF interface_state_1, Hello
  <1>13. Consistent("interface_state_2")
    <2>1. Script["interface_state_2"] = interface_state_2
      BY DEF Script
    <2> QED
      BY <2>1 DEF interface_state_2, HelloLock
  <1>14. Consistent("interface_state_3")
    <2>1. Script["interface_state_3"] = interface_state_3
      BY DEF Script
    <2> QED
      BY <2>1 DEF interface_state_3, HelloStart
  <1>15. Consistent("interface_state_4")
    <2>1. Script["interface_state_4"] = interface_state_4
      BY DEF Script
    <2> QED
      BY <2>1 DEF interface_state_4, HelloStartStop
  <1>16. Consistent("start_interface_1")
    <2>1. Script["start_interface_1"] = start_interface_1
      BY DEF Script
    <2> QED
      BY <2>1 DEF start_interface_1, HelloLockState
  <1>17. Consistent("start_interface_2")
    <2>1. Script["start_interface_2"] = start_interface_2
      BY DEF Script
    <2> QED
      BY <2>1 DEF start_interface_2, HelloLockState
  <1>18. Consistent("start_interface_3")
    <2>1. Script["start_interface_3"] = start_interface_3
      BY DEF Script
    <2> QED
      BY <2>1 DEF start_interface_3, HelloLockStopState
  <1>19. Consistent("start_interface_4")
    <2>1. Script["start_interface_4"] = start_interface_4
      BY DEF Script
    <2> QED
      BY <2>1 DEF start_interface_4, HelloStartState
  <1>20. Consistent("stop_interface_1")
    <2>1. Script["stop_interface_1"] = stop_interface_1
      BY DEF Script
    <2> QED
      BY <2>1 DEF stop_interface_1, HelloStartState
  <1>21. Consistent("stop_interface_2")
    <2>1. Script["stop_interface_2"] = stop_interface_2
      BY DEF Script
    <2> QED
      BY <2>1 DEF stop_interface_2, HelloLockState
  <1>22. Consistent("stop_interface_3")
    <2>1. Script["stop_interface_3"] = stop_interface_3
      BY DEF Script
    <2> QED
      BY <2>1 DEF stop_interface_3, HelloIdeState
  <1> HIDE DEF Consistent
  <1> QED
    BY <1>1, <1>2, <1>3, <1>4, <1>5, <1>6, <1>7, <1>8, <1>9, <1>10, <1>11,
       <1>12, <1>13, <1>14, <1>15, <1>16, <1>17, <1>18, <1>19, <1>20, <1>21,
       <1>22, CaseNames

\* The requests whose answers are modelled.
Requests == {"version", "capabilities", "state", "lock", "report",
             "report_beyond", "start", "start_bad_nonce", "stop"}

\* What a device that follows TDISP does: an error, and a request that is
\* not about the state, leaves the TDI alone.
LEMMA ReplyFacts ==
    ASSUME TypeOK, NEW q \in Requests, NEW r \in Replies(q)
    PROVE  /\ r.tdi \in TdiStates
           /\ r.answer \in Errors \/ q \notin Changing => r.tdi = tdi
           /\ q \in Changing /\ r.answer \notin Errors => r.tdi = Outcome[q]
           /\ r.answer = "STOP_RSP" <=> q = "stop"
           /\ r.answer \in Errors =>
                 \/ q \in {"lock", "report", "report_beyond", "start",
                           "start_bad_nonce"}
  <1> USE DEF TypeOK, Replies, Reply, Errors, Changing, Outcome, TdiStates
  <1>1. CASE q \in {"version", "capabilities", "state", "stop"}
    BY <1>1
  <1>2. CASE q = "lock"
    BY <1>2 DEF LockReplies, WrongState, Refuse
  <1>3. CASE q \in {"report", "report_beyond"}
    BY <1>3 DEF Reported, WrongState, Refuse
  <1>4. CASE q \in {"start", "start_bad_nonce"}
    BY <1>4 DEF WrongState, Refuse
  <1> QED
    BY <1>1, <1>2, <1>3, <1>4 DEF Requests

\* A setup exchange that gets its response goes through, one that would be
\* refused in the state that the setup has established does not occur.
LEMMA RefusedFacts ==
    ASSUME TypeOK, NEW q \in Requests, NEW r \in Replies(q),
           r.answer \in Errors
    PROVE  /\ q = "lock" => tdi # "UNLOCKED" \/ ~secure
           /\ q = "start" => tdi # "LOCKED"
  BY DEF TypeOK, Replies, Reply, Errors, LockReplies, WrongState, Refuse

\* A lost exchange leaves the TDI where it was or where a response would.
LEMMA LostFacts ==
    ASSUME TypeOK, NEW q \in Requests, Lose(q)
    PROVE  tdi' \in TdiStates /\ lost' = TRUE /\ dirty' = TRUE
           /\ keys' = keys /\ secure' = secure
  BY ReplyFacts DEF Lose, TypeOK

\* The setup is at one of its exchanges.
LEMMA SetupStepKnown ==
    ASSUME TypeOK, Control, pc = "setup"
    PROVE  /\ step \in Nat /\ step + 1 \in 1..Len(Row.setup)
           /\ Len(Row.setup) \in Nat
           /\ SetupStep = Row.setup[step + 1]
           /\ SetupStep \in Exchanges
           /\ SetupStep # "ide" => SetupStep \in Requests
           /\ Ordered(Row.setup)
  <1>1. case \in Cases /\ step < Len(Script[case].setup) /\ step \in Nat
    BY DEF TypeOK, Control, InCase
  <1>2. Ordered(Script[case].setup)
    BY <1>1, SetupOfCase
  <1> QED
    BY <1>1, <1>2 DEF Ordered, Row, SetupStep, Exchanges, Changing, Requests

\* A portion is never asked for with a negative length.
LEMMA AskedNat == TypeOK => Asked \in Nat
  <1> SUFFICES ASSUME TypeOK PROVE Asked \in Nat
    OBVIOUS
  <1>1. report.remainder \in Nat /\ PortionLen \in Nat
    BY TdispAssumption DEF TypeOK
  <1>2. \E x \in {report.remainder, PortionLen} :
           \A y \in {report.remainder, PortionLen} : x =< y
    BY <1>1
  <1>3. Min({report.remainder, PortionLen}) \in {report.remainder, PortionLen}
    BY <1>2 DEF Min
  <1> QED
    BY <1>1, <1>3 DEF Asked

\* The request under test is one the device knows; a case without one is
\* about the state that its setup leaves.
LEMMA RequestFacts ==
    \A c \in Cases :
        /\ Script[c].request \in Requests \cup {"none"}
        /\ Script[c].state # "none"
        /\ Script[c].request = "none" =>
              /\ Script[c].state = "any" /\ Script[c].after # "any"
              /\ Script[c].answer # "REPORT"
        /\ Script[c].answer = "REPORT" =>
              /\ Script[c].state \in {"LOCKED", "RUN"}
              /\ Script[c].request = "report"
              /\ Script[c].after \in {"any", Script[c].state}
        /\ c \in NoTeardown =>
              /\ Script[c].after = "any"
              /\ Script[c].request # "none"
  <1> SUFFICES ASSUME NEW c \in Cases
               PROVE  /\ Script[c].request \in Requests \cup {"none"}
                      /\ Script[c].state # "none"
                      /\ Script[c].request = "none" =>
                            /\ Script[c].state = "any"
                            /\ Script[c].after # "any"
                            /\ Script[c].answer # "REPORT"
                      /\ Script[c].answer = "REPORT" =>
                            /\ Script[c].state \in {"LOCKED", "RUN"}
                            /\ Script[c].request = "report"
                            /\ Script[c].after \in {"any", Script[c].state}
                      /\ c \in NoTeardown =>
                            /\ Script[c].after = "any"
                            /\ Script[c].request # "none"
    OBVIOUS
  <1>1. Consistent(c)
    BY CasesConsistent
  <1> QED
    BY <1>1 DEF Consistent, Expects, Is, WrongIn, Requests, Outcome, Changing

\* What the setup leaves behind when it goes on.
LEMMA GoesOn ==
    ASSUME TypeOK, Control, pc = "setup", SetupGoesOn, case' = case
    PROVE  /\ step' = step + 1 /\ step' \in Nat
           /\ \/ /\ pc' = "setup" /\ step' < Len(Row.setup)
                 /\ setup_success' = setup_success
              \/ /\ pc' = RunStart(case) /\ step' = Len(Row.setup)
                 /\ setup_success' = setup_success \cup ({case} \ NoTeardown)
  <1>1. /\ step \in Nat /\ step + 1 \in 1..Len(Row.setup)
        /\ Len(Row.setup) \in Nat
    BY SetupStepKnown
  <1> QED
    BY <1>1 DEF SetupGoesOn, LastStep, Succeeds, Row

\* The run of a case begins with its request, if it has one.
LEMMA RunStarts ==
    \A c \in Cases :
        \/ RunStart(c) = "run" /\ Script[c].request # "none"
        \/ /\ RunStart(c) = "check" /\ Script[c].request = "none"
           /\ Script[c].after # "any"
  BY RequestFacts DEF RunStart

\* A case begins with its setup, or with its request if it needs none.
LEMMA Begins ==
    ASSUME Inv, BeginCase
    PROVE  /\ case' \in Cases /\ step' = 0 /\ class' = class
           /\ class \in Classes
           /\ \/ pc' = "setup" /\ 0 < Len(Script[case'].setup)
              \/ /\ pc' = "run" /\ 0 = Len(Script[case'].setup)
                 /\ case' \in NoTeardown /\ Script[case'].request # "none"
  <1>1. class \in Classes /\ class' = class /\ step' = 0
    BY DEF Inv, Control, BeginCase
  <1>2. PICK c \in m_tdisp_test_case_funcs[class] :
           case' = c /\ pc' = Begin(c)
    BY DEF BeginCase
  <1>3. c \in Cases
    BY <1>1, <1>2, FuncsAreCases, TdispAssumption
  <1>4. Ordered(Script[c].setup) /\ Consistent(c)
    BY <1>3, SetupOfCase, CasesConsistent
  <1> QED
    BY <1>1, <1>2, <1>3, <1>4, RequestFacts DEF Ordered, Consistent, Begin,
       RunStart

\* The TDI is where the exchanges of the setup have taken it.
LEMMA TdiGoesOn ==
    ASSUME Inv, pc = "setup", SetupGoesOn, case' = case,
           SetupStep \in Changing => tdi' = Outcome[SetupStep],
           SetupStep \notin Changing => dirty' = dirty,
           SetupStep \notin Changing \cup {"ide"} => tdi' = tdi,
           SetupStep = "ide" /\ tdi = "UNLOCKED" => tdi' = "UNLOCKED",
           SetupStep = "state" => tdi = Row.state
    PROVE  TdiKnown'
  <1> DEFINE s == Row.setup
             n == step + 1
  <1>1. /\ step \in Nat /\ n \in 1..Len(s) /\ SetupStep = s[n]
        /\ Ordered(s) /\ step' = n /\ Row' = Row /\ BeforeRequest
    BY SetupStepKnown, GoesOn DEF Inv, Row, BeforeRequest
  <1>2. ASSUME NEW i \in 1..n, LastChange(i)' PROVE tdi' = Outcome[s[i]]
    <2>1. CASE i = n
      BY <1>1, <1>2, <2>1 DEF LastChange
    <2>2. CASE i < n
      <3>1. s[n] \notin Changing /\ s[i] \in Changing
        BY <1>1, <1>2, <2>2 DEF LastChange
      <3>2. i \in 1..step /\ LastChange(i)
        BY <1>1, <1>2, <2>2 DEF LastChange
      <3>3. tdi = Outcome[s[i]]
        BY <1>1, <3>2 DEF Inv, TdiKnown
      <3>4. s[n] # "ide"
        BY <1>1, <2>2, <3>1 DEF Ordered
      <3> QED
        BY <1>1, <3>1, <3>3, <3>4
    <2> QED
      BY <1>1, <2>1, <2>2
  <1>3. ASSUME Unchanged(step)', ~dirty' PROVE tdi' = "UNLOCKED"
    <2>1. s[n] \notin Changing /\ Unchanged(step)
      BY <1>1, <1>3 DEF Unchanged
    <2>2. tdi = "UNLOCKED"
      BY <1>1, <1>3, <2>1 DEF Inv, TdiKnown
    <2> QED
      BY <1>1, <2>1, <2>2
  <1>4. ASSUME NEW i \in 1..n, s[i] = "state" PROVE tdi' = Row.state
    <2>1. CASE i = n
      BY <1>1, <1>4, <2>1 DEF Changing
    <2>2. CASE i < n
      <3>1. s[n] \notin Changing
        BY <1>1, <1>4, <2>2 DEF Ordered
      <3>2. tdi = Row.state
        BY <1>1, <1>4, <2>2 DEF Inv, TdiKnown
      <3>3. CASE s[n] = "ide"
        <4>1. case \in Cases /\ Consistent(case)
          BY CasesConsistent DEF Inv, Control, InCase
        <4>2. Row.state = "UNLOCKED"
          BY <1>1, <1>4, <2>2, <3>3, <4>1 DEF Consistent, StateLast, Row
        <4> QED
          BY <1>1, <3>2, <3>3, <4>2
      <3> QED
        BY <1>1, <3>1, <3>2, <3>3
    <2> QED
      BY <1>1, <2>1, <2>2
  <1> QED
    BY <1>1, <1>2, <1>3, <1>4 DEF TdiKnown

\* The stream is up exactly from its exchange on.
LEMMA StreamGoesOn ==
    ASSUME Inv, pc = "setup", SetupGoesOn, case' = case,
           IF SetupStep = "ide" THEN keys' = "session" /\ secure'
                                ELSE keys' = keys /\ secure' = secure
    PROVE  StreamKnown'
  <1> DEFINE s == Row.setup
             n == step + 1
  <1>1. /\ step \in Nat /\ n \in 1..Len(s) /\ SetupStep = s[n]
        /\ step' = n /\ Row' = Row /\ BeforeRequest
    BY SetupStepKnown, GoesOn DEF Inv, Row, BeforeRequest
  <1>2. CASE s[n] = "ide"
    BY <1>1, <1>2 DEF StreamKnown
  <1>3. CASE s[n] # "ide"
    <2>1. (\E i \in 1..n : s[i] = "ide") <=> \E i \in 1..step : s[i] = "ide"
      BY <1>1, <1>3
    <2> QED
      BY <1>1, <1>3, <2>1 DEF Inv, StreamKnown
  <1> QED
    BY <1>2, <1>3

\* At the request under test the TDI is in the state the case is about.
LEMMA AtRequest ==
    ASSUME Inv, pc = "run"
    PROVE  /\ case \in Cases /\ Row.request \in Requests
           /\ Row.state # "any" => tdi = Row.state
           /\ Has(Row, "ide") => keys = "session" /\ secure
           /\ ~Has(Row, "ide") => ~secure
           /\ Still(Row) /\ ~dirty => tdi = "UNLOCKED"
  <1>1. case \in Cases /\ step = Len(Row.setup) /\ BeforeRequest
    BY DEF Inv, Control, InCase, BeforeRequest
  <1>2. Consistent(case) /\ Row.request # "none"
    BY <1>1, CasesConsistent DEF Inv, TypeOK, Row
  <1> QED
    BY <1>1, <1>2, RequestFacts
    DEF Consistent, Has, Still, Inv, TdiKnown, StreamKnown, Unchanged, Row

\* A device that follows TDISP answers what the case expects, but where
\* LockInterface 2 meets a stream with keys.
LEMMA Answered ==
    ASSUME Inv, pc = "run", NEW r \in Replies(Row.request)
    PROVE  \/ case = "lock_interface_2" /\ keys # "none"
           \/ /\ r.answer = Row.answer
              /\ Row.after # "any" => r.tdi = Row.after
  <1>1. Expects(case, Row) /\ case \in Cases
    BY AtRequest, CasesConsistent DEF Consistent, Row
  <1>2. /\ Row.state # "any" => tdi = Row.state
        /\ Has(Row, "ide") => keys = "session" /\ secure
        /\ ~Has(Row, "ide") => ~secure
    BY AtRequest
  <1>3. Row.request # "none"
    BY DEF Inv, TypeOK, Row
  <1> USE DEF Is, WrongIn, Replies, Reply
  <1>4. CASE Row.request \in {"version", "capabilities", "stop"}
    BY <1>1, <1>4 DEF Expects
  <1>5. CASE Row.request = "lock"
    BY <1>1, <1>2, <1>5 DEF Expects, LockReplies, WrongState, Refuse
  <1>6. CASE Row.request \in {"report", "report_beyond"}
    BY <1>1, <1>2, <1>6 DEF Expects, WrongState, Refuse, Reported
  <1>7. CASE Row.request \in {"start", "start_bad_nonce"}
    BY <1>1, <1>2, <1>7 DEF Expects, WrongState, Refuse
  <1> QED
    BY <1>1, <1>3, <1>4, <1>5, <1>6, <1>7 DEF Expects

\* The state check of a case without a request finds what the setup left.
LEMMA CheckReady ==
    Control /\ TdiKnown /\ pc = "check" /\ Row.request = "none"
        => Excused \/ tdi = Row.after
  <1> SUFFICES ASSUME Control, TdiKnown, pc = "check", Row.request = "none"
               PROVE  Excused \/ tdi = Row.after
    OBVIOUS
  <1>1. case \in Cases /\ step = Len(Row.setup) /\ BeforeRequest
    BY DEF Control, InCase, BeforeRequest
  <1>2. Expects(case, Row) /\ Ordered(Row.setup)
    BY <1>1, CasesConsistent, SetupOfCase DEF Consistent, Row
  <1>3. CASE /\ Still(Row) /\ case = "interface_state_1"
             /\ Row.after = "UNLOCKED"
    BY <1>1, <1>3 DEF TdiKnown, Unchanged, Still, Excused
  <1>4. CASE /\ Row.after = Outcome[Row.setup[Len(Row.setup)]]
             /\ Len(Row.setup) > 0 /\ Row.setup[Len(Row.setup)] \in Changing
    <2>1. step \in 1..step /\ LastChange(step)
      BY <1>1, <1>2, <1>4 DEF LastChange, Ordered
    <2> QED
      BY <1>1, <1>4, <2>1 DEF TdiKnown
  <1> QED
    BY <1>2, <1>3, <1>4 DEF Expects, Is, WrongIn

\* A setup exchange is refused only on an interface that an earlier case
\* left behind.
LEMMA SetupRefused ==
    ASSUME Inv, pc = "setup", SetupStep # "ide",
           NEW r \in Replies(SetupStep), r.answer \in Errors
    PROVE  dirty
  <1> DEFINE s == Row.setup
  <1>1. /\ step \in Nat /\ step + 1 \in 1..Len(s) /\ SetupStep = s[step + 1]
        /\ Ordered(s) /\ BeforeRequest
        /\ SetupStep \in Requests /\ SetupStep \in Exchanges /\ TypeOK
    BY SetupStepKnown DEF Inv, BeforeRequest
  <1>6. ASSUME NEW x, \E j \in 1..((step + 1) - 1) : s[j] = x
        PROVE  \E j \in 1..step : s[j] = x
    BY <1>1, <1>6
  <1>7. ASSUME \A j \in 1..((step + 1) - 1) : s[j] \notin Changing
        PROVE  Unchanged(step)
    BY <1>1, <1>7 DEF Unchanged
  <1>2. CASE SetupStep = "lock"
    <2>1. \E j \in 1..step : s[j] = "ide"
      BY <1>1, <1>2, <1>6 DEF Ordered
    <2>2. Unchanged(step)
      BY <1>1, <1>2, <1>7 DEF Ordered
    <2> QED
      BY <1>1, <1>2, <2>1, <2>2, RefusedFacts
      DEF Inv, StreamKnown, TdiKnown
  <1>3. CASE SetupStep = "start"
    <2>1. step \in 1..step /\ s[step] = "lock"
      <3>1. step + 1 > 1 /\ s[(step + 1) - 1] = "lock"
        BY <1>1, <1>3 DEF Ordered
      <3>2. (step + 1) - 1 = step
        BY <1>1
      <3> QED
        BY <1>1, <3>1, <3>2
    <2>2. LastChange(step)
      BY <1>1, <2>1 DEF LastChange, Changing
    <2> QED
      BY <1>1, <1>3, <2>1, <2>2, RefusedFacts DEF Inv, TdiKnown, Outcome
  <1> QED
    BY <1>1, <1>2, <1>3, ReplyFacts DEF Exchanges, Changing

\* What a setup exchange does: it is refused, or moves the TDI as it should.
LEMMA SetupAnswered ==
    ASSUME Inv, SetupExchange
    PROVE  /\ pc = "setup" /\ case' = case
           /\ SetupStep \notin {"ide", "state"}
           /\ keys' = keys /\ secure' = secure /\ lost' = lost
           /\ \/ SetupFails /\ dirty /\ tdi' = tdi /\ dirty' = dirty
              \/ /\ SetupGoesOn
                 /\ tdi' = IF SetupStep \in Changing THEN Outcome[SetupStep]
                                                     ELSE tdi
                 /\ dirty' = (dirty /\ SetupStep # "stop")
  <1>1. /\ TypeOK /\ pc = "setup" /\ SetupStep \notin {"ide", "state"}
        /\ SetupStep \in Requests /\ case' = case
    BY SetupStepKnown DEF Inv, SetupExchange
  <1>2. PICK r \in Replies(SetupStep) :
           /\ Exchange(SetupStep, r)
           /\ IF r.answer \in Errors THEN SetupFails ELSE SetupGoesOn
    BY DEF SetupExchange
  <1>3. /\ tdi' = r.tdi /\ dirty' = (dirty /\ r.answer # "STOP_RSP")
        /\ keys' = keys /\ secure' = secure /\ lost' = lost
    BY <1>2 DEF Exchange
  <1>4. CASE r.answer \in Errors
    <2>1. dirty = TRUE /\ r.tdi = tdi /\ r.answer # "STOP_RSP"
      BY <1>1, <1>4, SetupRefused, ReplyFacts DEF Errors, TypeOK
    <2> QED
      BY <1>1, <1>2, <1>3, <1>4, <2>1
  <1>5. CASE r.answer \notin Errors
    BY <1>1, <1>2, <1>3, <1>5, ReplyFacts
  <1> QED
    BY <1>4, <1>5

\* STOP_INTERFACE in the teardown is answered, or lost.
LEMMA StopSent ==
    ASSUME Inv, TeardownStop
    PROVE  /\ pc = "teardown" /\ pc' = "case" /\ keys' = keys
           /\ secure' = secure
           /\ tdi' \in TdiStates
           /\ \/ tdi' = "UNLOCKED" /\ dirty' = FALSE /\ lost' = lost
              \/ dirty' = TRUE /\ lost' = TRUE
  <1>1. TypeOK /\ "stop" \in Requests /\ "stop" \in Changing
    BY DEF Inv, Requests, Changing
  <1>2. CASE Lose("stop")
    BY <1>1, <1>2, LostFacts DEF TeardownStop
  <1>3. ASSUME NEW r \in Replies("stop"), Exchange("stop", r)
        PROVE  tdi' = "UNLOCKED" /\ dirty' = FALSE /\ lost' = lost
               /\ keys' = keys /\ secure' = secure
    <2>1. r.answer = "STOP_RSP" /\ r.tdi = "UNLOCKED"
      BY <1>3 DEF Replies, Reply
    <2>2. tdi' = r.tdi /\ lost' = lost /\ keys' = keys /\ secure' = secure
      BY <1>3 DEF Exchange
    <2>3. dirty' = FALSE
      BY <1>3, <2>1, Zenon DEF Exchange
    <2> QED
      BY <2>1, <2>2, <2>3
  <1>4. pc = "teardown" /\ pc' = "case"
    BY DEF TeardownStop
  <1>5. CASE \E r \in Replies("stop") : Exchange("stop", r)
    BY <1>3, <1>4, <1>5 DEF TdiStates
  <1> QED
    BY <1>2, <1>4, <1>5 DEF TeardownStop

\* The device answers with a portion: the state it reports in is the one the
\* setup has checked.
LEMMA PortionSent ==
    ASSUME Inv, RunPortion
    PROVE  /\ pc = "run" /\ Portioned
           /\ UNCHANGED <<case, class, step, setup_success>>
           /\ UNCHANGED <<tdi, keys, secure, lost, dirty>>
           /\ before' = IF before = "none" THEN tdi ELSE before
           /\ \E portion \in Nat, remainder \in 0..MaxLength,
                 sound \in BOOLEAN : Portion(portion, remainder, sound)
  <1>1. pc = "run" /\ Portioned /\ TypeOK /\ case \in Cases
    BY AtRequest DEF Inv, RunPortion
  <1>2. tdi \in {"LOCKED", "RUN"}
    BY <1>1, AtRequest, RequestFacts DEF Portioned, Row
  <1>3. PICK r \in Replies("report") :
           /\ Exchange("report", r)
           /\ IF r.answer \in Errors
              THEN verdict' = "FAILED" /\ pc' = "teardown" /\ UNCHANGED report
              ELSE \E portion \in 0..Asked, remainder \in 0..MaxLength,
                      sound \in BOOLEAN : Portion(portion, remainder, sound)
    BY DEF RunPortion
  <1>4. r.answer = "REPORT" /\ r.tdi = tdi
    BY <1>2, <1>3 DEF Replies, Reported, Reply
  <1>5. UNCHANGED <<tdi, keys, secure, lost>>
    BY <1>3, <1>4 DEF Exchange
  <1>6. dirty' = dirty
    <2>1. dirty' = (dirty /\ r.answer # "STOP_RSP") /\ dirty \in BOOLEAN
      BY <1>1, <1>3 DEF Exchange, TypeOK
    <2>2. r.answer # "STOP_RSP"
      BY <1>4
    <2> QED
      BY <2>1, <2>2
  <1>7. PICK portion \in 0..Asked, remainder \in 0..MaxLength,
             sound \in BOOLEAN : Portion(portion, remainder, sound)
    BY <1>3, <1>4 DEF Errors
  <1>8. portion \in Nat
    BY <1>1, <1>7, AskedNat
  <1>9. /\ UNCHANGED <<case, class, step, setup_success>>
        /\ before' = IF before = "none" THEN tdi ELSE before
    BY DEF RunPortion, validator, SeesState
  <1> QED
    BY <1>1, <1>5, <1>6, <1>7, <1>8, <1>9

\* The cases that fetch the report establish their own precondition.
LEMMA OwnPrecondition ==
    \A c \in Cases : Script[c].answer = "REPORT" =>
        c \notin {"version_1", "capabilities_1", "interface_state_1",
                  "lock_interface_2"}
  <1>1. Script["interface_state_1"].answer # "REPORT"
    BY DEF Script, interface_state_1, Case
  <1>2. Script["lock_interface_2"].answer # "REPORT"
    BY DEF Script, lock_interface_2, Case
  <1>3. Script["version_1"].answer # "REPORT"
    BY DEF Script, version_1, Case
  <1>4. Script["capabilities_1"].answer # "REPORT"
    BY DEF Script, capabilities_1, Case
  <1> QED
    BY <1>1, <1>2, <1>3, <1>4

\* One turn of the loop keeps the lengths consistent, and never writes past
\* the case's buffer.
LEMMA PortionKept ==
    ASSUME Inv, RunPortion
    PROVE  /\ ReportType' /\ ReportKnown'
           /\ verdict' \in {"PASS", "FAILED"}
           /\ verdict' = "FAILED" => report'.odd
           /\ pc' \in {"run", "teardown", AfterRequest(TRUE)}
           /\ pc' # "run" /\ verdict' = "PASS" => pc' = AfterRequest(TRUE)
  <1>1. Portioned /\ pc = "run" /\ case' = case
    BY PortionSent
  <1>2. PICK portion \in Nat, remainder \in 0..MaxLength, sound \in BOOLEAN :
           Portion(portion, remainder, sound)
    BY PortionSent
  <1> DEFINE total == IF report.offset = 0 THEN portion + remainder
                      ELSE report.total
             refused == IF report.offset = 0 THEN total > ReportMax
                        ELSE total # report.offset + portion + remainder
             bad == refused \/ portion = 0 \/ ~sound
  <1>3. /\ verdict' = IF bad \/ verdict = "FAILED" THEN "FAILED" ELSE "PASS"
        /\ pc' = IF refused THEN "teardown"
                 ELSE IF remainder # 0 THEN "run" ELSE AfterRequest(TRUE)
        /\ report' = IF refused THEN [report EXCEPT !.odd = TRUE]
                     ELSE [offset |-> report.offset + portion,
                           remainder |-> remainder, total |-> total,
                           odd |-> report.odd \/ bad]
    BY <1>2 DEF Portion, OffsetAfter
  <1>4. /\ report \in [offset : 0..ReportMax, remainder : 0..MaxLength,
                       total : 0..ReportMax, odd : BOOLEAN]
        /\ report.offset + report.remainder = report.total
        /\ verdict = "NOT_TESTED" => report.odd = FALSE
        /\ verdict = "PASS" => report.odd = FALSE
        /\ verdict \in {"NOT_TESTED", "PASS", "FAILED"}
    BY <1>1 DEF Inv, TypeOK, ReportKnown, NoReport
  <1>5. verdict = "FAILED" => report.odd
    <2>1. case \in Cases /\ Consistent(case)
      BY <1>1, AtRequest, CasesConsistent
    <2>2. case \notin {"version_1", "capabilities_1", "interface_state_1",
                       "lock_interface_2"}
      BY <1>1, <2>1, OwnPrecondition DEF Portioned
    <2> QED
      BY <1>1, <2>2 DEF Inv, VerdictKnown, Excused
  <1>6. AfterRequest(TRUE) # "run"
    BY DEF AfterRequest
  <1>7. CASE refused
    <2>1. verdict' = "FAILED" /\ pc' = "teardown"
          /\ report' = [report EXCEPT !.odd = TRUE]
      BY <1>3, <1>7
    <2>2. /\ ReportType' /\ report'.odd
          /\ report'.offset + report'.remainder = report'.total
      BY <1>4, <2>1 DEF ReportType
    <2> QED
      BY <2>1, <2>2 DEF ReportKnown
  <1>8. CASE ~refused
    <2>1. /\ report.offset + portion \in 0..ReportMax
          /\ total \in 0..ReportMax
          /\ report.offset + portion + remainder = total
      BY <1>4, <1>8, TdispAssumption
    <2>2. report' = [offset |-> report.offset + portion,
                     remainder |-> remainder, total |-> total,
                     odd |-> report.odd \/ portion = 0 \/ ~sound]
      BY <1>3, <1>8
    <2>3. ReportType' /\ report'.offset + report'.remainder = report'.total
      BY <2>1, <2>2 DEF ReportType
    <2>4. /\ verdict' = IF portion = 0 \/ ~sound \/ verdict = "FAILED"
                        THEN "FAILED" ELSE "PASS"
          /\ pc' = IF remainder # 0 THEN "run" ELSE AfterRequest(TRUE)
      BY <1>3, <1>8
    <2>5. verdict' = "FAILED" => report'.odd
      BY <1>5, <2>2, <2>4
    <2>6. verdict' = "PASS" => ~report'.odd /\ report'.offset > 0
      BY <1>4, <2>2, <2>4
    <2>7. pc' # "run" => report'.remainder = 0
      BY <2>2, <2>4
    <2> QED
      BY <1>6, <2>3, <2>4, <2>5, <2>6, <2>7 DEF ReportKnown
  <1> QED
    BY <1>7, <1>8

\* VERSION and CAPABILITIES are the answers of one case each.
LEMMA AnswerOfCase ==
    \A c \in Cases :
        /\ Script[c].answer = "VERSION" => c = "version_1"
        /\ Script[c].answer = "CAPABILITIES" => c = "capabilities_1"
  <1> SUFFICES ASSUME NEW c \in Cases
               PROVE  /\ Script[c].answer = "VERSION" => c = "version_1"
                      /\ Script[c].answer = "CAPABILITIES"
                            => c = "capabilities_1"
    OBVIOUS
  <1>1. Consistent(c)
    BY CasesConsistent
  <1>2. Script[c].answer \in {"VERSION", "CAPABILITIES"} => c \in NoTeardown
    BY <1>1 DEF Consistent, Expects, Is, WrongIn
  <1>3. /\ Script["version_1"].answer = "VERSION"
        /\ Script["capabilities_1"].answer = "CAPABILITIES"
    BY DEF Script, version_1, capabilities_1, Case
  <1> QED
    BY <1>2, <1>3 DEF NoTeardown

\* The request under test earns PASS, or the case is excused.
LEMMA RequestVerdict ==
    ASSUME Inv, RunRequest
    PROVE  /\ pc = "run" /\ case' = case /\ pc' \in {"check", "teardown"}
           /\ fields' \in {"demanded", "optional", "other"}
           /\ verdict' \in {"PASS", "FAILED"}
           /\ verdict' = "FAILED" => Excused'
           /\ pc' = "check" => Excused' \/ tdi' = Row.after
  <1>1. pc = "run" /\ case' = case /\ case \in Cases
    BY AtRequest DEF RunRequest, validator
  <1>2. PICK r \in Replies(Row.request) :
           /\ Exchange(Row.request, r)
           /\ fields' \in Fields(r.answer)
           /\ verdict' = IF r.answer = Row.answer /\ fields' = "demanded"
                           THEN "PASS" ELSE "FAILED"
           /\ pc' = AfterRequest(r.answer \in Errors <=> Row.answer \in Errors)
    BY DEF RunRequest, Row
  <1>3. keys' = keys /\ tdi' = r.tdi
    BY <1>2 DEF Exchange
  <1>4. /\ pc' \in {"check", "teardown"}
        /\ pc' = "check" => Row.after # "any"
    BY <1>2 DEF AfterRequest, Row
  <1>5. /\ fields' \in {"demanded", "optional", "other"}
        /\ fields' # "demanded" =>
              \/ r.answer = "VERSION" /\ fields' = "other"
              \/ r.answer = "CAPABILITIES" /\ fields' \in {"optional", "other"}
    BY <1>2 DEF Fields
  <1>6. CASE case = "lock_interface_2" /\ keys # "none"
    BY <1>1, <1>2, <1>3, <1>4, <1>5, <1>6 DEF Excused
  <1>7. CASE /\ r.answer = Row.answer
             /\ Row.after # "any" => r.tdi = Row.after
    <2>1. fields' # "demanded" => Excused'
      BY <1>1, <1>5, <1>7, AnswerOfCase DEF Excused, Row
    <2> QED
      BY <1>1, <1>2, <1>3, <1>4, <1>5, <1>7, <2>1
  <1> QED
    BY <1>1, <1>2, <1>6, <1>7, Answered

-----------------------------------------------------------------------------
(* The steps.                                                              *)

\* The runner stays at one of its steps.
LEMMA ControlTypeStep == Inv /\ [Next]_vars => ControlType'
  <1> SUFFICES ASSUME Inv, [Next]_vars PROVE ControlType'
    OBVIOUS
  <1> USE TdispAssumption DEF Inv, TypeOK, ControlType, validator, device,
     history
  <1>1. CASE GroupSetup \/ GroupSkipped \/ GroupHangs \/ GroupTeardown
    BY <1>1 DEF GroupSetup, GroupSkipped, GroupHangs, GroupTeardown, Disturbed
  <1>2. CASE BeginCase
    BY <1>2, Begins DEF BeginCase, Disturbed, NoReport
  <1>3. CASE CaseNotRun
    BY <1>3, FuncsAreCases DEF CaseNotRun, Disturbed, NoReport, Control
  <1>4. CASE SetupExchange
    BY <1>4, GoesOn, RunStarts DEF SetupExchange, SetupFails, Control, InCase
  <1>5. CASE SetupState
    BY <1>5, GoesOn, RunStarts DEF SetupState, Succeeds, Control, InCase
  <1>6. CASE SetupLost
    BY <1>6 DEF SetupLost, SetupStep, SetupFails
  <1>7. CASE SetIdeStream
    BY <1>7, GoesOn, RunStarts DEF SetIdeStream, Disturbed, Control, InCase
  <1>8. CASE SetIdeStreamFails
    BY <1>8 DEF SetIdeStreamFails, SetupStep, Disturbed
  <1>9. CASE RunRequest
    BY <1>9 DEF RunRequest, Portioned, Exchange, AfterRequest, SeesState
  <1>10. CASE RunPortion
    BY <1>10 DEF RunPortion, Portioned, Exchange, AfterRequest, SeesState,
       Portion, OffsetAfter
  <1>11. CASE RunLost
    BY <1>11 DEF RunLost, SeesState
  <1>12. CASE CheckState \/ CheckLost
    BY <1>12 DEF CheckState, SeesState, CheckLost
  <1>13. CASE TeardownNothing \/ TeardownStop
    BY <1>13 DEF TeardownNothing, TeardownStop
  <1>14. CASE UNCHANGED vars
    BY <1>14 DEF vars
  <1> QED
    BY <1>1, <1>2, <1>3, <1>4, <1>5, <1>6, <1>7, <1>8, <1>9, <1>10, <1>11,
       <1>12, <1>13, <1>14 DEF Next

\* The setup never runs past its script.
LEMMA StepTypeStep == Inv /\ [Next]_vars => StepType'
  <1> SUFFICES ASSUME Inv, [Next]_vars PROVE StepType'
    OBVIOUS
  <1> USE TdispAssumption DEF Inv, TypeOK, StepType, validator, device,
     history
  <1>1. CASE GroupSetup \/ GroupSkipped \/ GroupHangs \/ GroupTeardown
    BY <1>1 DEF GroupSetup, GroupSkipped, GroupHangs, GroupTeardown, Disturbed
  <1>2. CASE BeginCase
    BY <1>2, Begins DEF BeginCase, Disturbed, NoReport
  <1>3. CASE CaseNotRun
    BY <1>3 DEF CaseNotRun, Disturbed, NoReport
  <1>4. CASE SetupExchange
    BY <1>4, GoesOn, RunStarts DEF SetupExchange, SetupFails, Control, InCase,
       Row
  <1>5. CASE SetupState
    BY <1>5, GoesOn, RunStarts DEF SetupState, Succeeds, Control, InCase, Row
  <1>6. CASE SetupLost
    BY <1>6 DEF SetupLost, SetupStep, SetupFails
  <1>7. CASE SetIdeStream
    BY <1>7, GoesOn, RunStarts DEF SetIdeStream, Disturbed, Control, InCase,
       Row
  <1>8. CASE SetIdeStreamFails
    BY <1>8 DEF SetIdeStreamFails, SetupStep, Disturbed
  <1>9. CASE RunRequest
    BY <1>9 DEF RunRequest, Portioned, Exchange, AfterRequest, SeesState
  <1>10. CASE RunPortion
    BY <1>10 DEF RunPortion, Portioned, Exchange, AfterRequest, SeesState,
       Portion, OffsetAfter
  <1>11. CASE RunLost
    BY <1>11 DEF RunLost, SeesState
  <1>12. CASE CheckState \/ CheckLost
    BY <1>12 DEF CheckState, SeesState, CheckLost
  <1>13. CASE TeardownNothing \/ TeardownStop
    BY <1>13 DEF TeardownNothing, TeardownStop
  <1>14. CASE UNCHANGED vars
    BY <1>14 DEF vars
  <1> QED
    BY <1>1, <1>2, <1>3, <1>4, <1>5, <1>6, <1>7, <1>8, <1>9, <1>10, <1>11,
       <1>12, <1>13, <1>14 DEF Next

\* The counters stay in their bounds.
LEMMA CountTypeStep == Inv /\ [Next]_vars => CountType'
  <1> SUFFICES ASSUME Inv, [Next]_vars PROVE CountType'
    OBVIOUS
  <1> USE TdispAssumption DEF Inv, TypeOK, CountType, validator, device,
     history
  <1>1. CASE GroupSetup \/ GroupSkipped \/ GroupHangs \/ GroupTeardown
    BY <1>1 DEF GroupSetup, GroupSkipped, GroupHangs, GroupTeardown, Disturbed
  <1>2. CASE BeginCase
    BY <1>2 DEF BeginCase, Disturbed, NoReport
  <1>3. CASE CaseNotRun
    BY <1>3 DEF CaseNotRun, Disturbed, NoReport
  <1>4. CASE SetupExchange
    BY <1>4 DEF SetupExchange, SetupFails
  <1>5. CASE SetupState
    BY <1>5 DEF SetupState, Succeeds
  <1>6. CASE SetupLost
    BY <1>6 DEF SetupLost, SetupStep, SetupFails
  <1>7. CASE SetIdeStream
    BY <1>7 DEF SetIdeStream, Disturbed
  <1>8. CASE SetIdeStreamFails
    BY <1>8 DEF SetIdeStreamFails, SetupStep, Disturbed
  <1>9. CASE RunRequest
    BY <1>9 DEF RunRequest, Portioned, Exchange, AfterRequest, SeesState
  <1>10. CASE RunPortion
    BY <1>10 DEF RunPortion, Portioned, Exchange, AfterRequest, SeesState,
       Portion, OffsetAfter
  <1>11. CASE RunLost
    BY <1>11 DEF RunLost, SeesState
  <1>12. CASE CheckState \/ CheckLost
    BY <1>12 DEF CheckState, SeesState, CheckLost
  <1>13. CASE TeardownNothing \/ TeardownStop
    BY <1>13 DEF TeardownNothing, TeardownStop
  <1>14. CASE UNCHANGED vars
    BY <1>14 DEF vars
  <1> QED
    BY <1>1, <1>2, <1>3, <1>4, <1>5, <1>6, <1>7, <1>8, <1>9, <1>10, <1>11,
       <1>12, <1>13, <1>14 DEF Next

\* A setup exchange leaves the device in one of its states.
LEMMA SetupDeviceType ==
    ASSUME Inv, SetupExchange
    PROVE  DeviceType'
  <1>1. /\ keys' = keys /\ secure' = secure /\ lost' = lost /\ TypeOK
        /\ before' = before
    BY SetupAnswered DEF Inv, SetupExchange
  <1>2. tdi' \in TdiStates
    BY <1>1, SetupAnswered DEF TypeOK, TdiStates, Outcome, Changing
  <1>3. dirty' \in BOOLEAN
    <2>1. dirty' = dirty \/ dirty' = (dirty /\ SetupStep # "stop")
      BY SetupAnswered
    <2> QED
      BY <1>1, <2>1 DEF TypeOK
  <1> QED
    BY <1>1, <1>2, <1>3 DEF DeviceType, TypeOK

\* The device stays in one of its states.
LEMMA DeviceTypeStep == Inv /\ [Next]_vars => DeviceType'
  <1> SUFFICES ASSUME Inv, [Next]_vars PROVE DeviceType'
    OBVIOUS
  <1> USE TdispAssumption DEF Inv, TypeOK, DeviceType, validator, device,
     history
  <1>1. CASE GroupSetup \/ GroupSkipped \/ GroupHangs \/ GroupTeardown
    BY <1>1 DEF GroupSetup, GroupSkipped, GroupHangs, GroupTeardown,
       Disturbed, TdiStates
  <1>2. CASE BeginCase
    BY <1>2 DEF BeginCase, Disturbed, NoReport, TdiStates
  <1>3. CASE CaseNotRun
    BY <1>3 DEF CaseNotRun, Disturbed, NoReport, TdiStates
  <1>4. CASE SetupExchange
    BY <1>4, SetupDeviceType
  <1>5. CASE SetupState
    BY <1>5 DEF SetupState, Succeeds
  <1>6. CASE SetupLost
    BY <1>6, LostFacts, SetupStepKnown DEF SetupLost, SetupStep, SetupFails
  <1>7. CASE SetIdeStream
    BY <1>7 DEF SetIdeStream, Disturbed, TdiStates
  <1>8. CASE SetIdeStreamFails
    BY <1>8 DEF SetIdeStreamFails, SetupStep, Disturbed, TdiStates
  <1>9. CASE RunRequest
    BY <1>9, AtRequest, ReplyFacts DEF RunRequest, Portioned, Exchange,
       AfterRequest, SeesState, Row
  <1>10. CASE RunPortion
    BY <1>10, ReplyFacts DEF RunPortion, Portioned, Exchange, AfterRequest,
       SeesState, Portion, OffsetAfter, Requests
  <1>11. CASE RunLost
    BY <1>11, AtRequest, LostFacts DEF RunLost, SeesState, Row
  <1>12. CASE CheckState \/ CheckLost
    BY <1>12, LostFacts DEF CheckState, SeesState, CheckLost, Requests
  <1>13. CASE TeardownNothing \/ TeardownStop
    BY <1>13, StopSent DEF TeardownNothing, TeardownStop
  <1>14. CASE UNCHANGED vars
    BY <1>14 DEF vars
  <1> QED
    BY <1>1, <1>2, <1>3, <1>4, <1>5, <1>6, <1>7, <1>8, <1>9, <1>10, <1>11,
       <1>12, <1>13, <1>14 DEF Next

\* The report never leaves the buffer.
LEMMA ReportTypeStep == Inv /\ [Next]_vars => ReportType'
  <1> SUFFICES ASSUME Inv, [Next]_vars PROVE ReportType'
    OBVIOUS
  <1> USE TdispAssumption DEF Inv, TypeOK, ReportType, validator, device,
     history
  <1>1. CASE GroupSetup \/ GroupSkipped \/ GroupHangs \/ GroupTeardown
    BY <1>1 DEF GroupSetup, GroupSkipped, GroupHangs, GroupTeardown, Disturbed
  <1>2. CASE BeginCase
    BY <1>2 DEF BeginCase, Disturbed, NoReport
  <1>3. CASE CaseNotRun
    BY <1>3 DEF CaseNotRun, Disturbed, NoReport
  <1>4. CASE SetupExchange
    BY <1>4 DEF SetupExchange, SetupFails
  <1>5. CASE SetupState
    BY <1>5 DEF SetupState, Succeeds
  <1>6. CASE SetupLost
    BY <1>6 DEF SetupLost, SetupStep, SetupFails
  <1>7. CASE SetIdeStream
    BY <1>7 DEF SetIdeStream, Disturbed
  <1>8. CASE SetIdeStreamFails
    BY <1>8 DEF SetIdeStreamFails, SetupStep, Disturbed
  <1>9. CASE RunRequest
    BY <1>9 DEF RunRequest, Portioned, Exchange, AfterRequest, SeesState
  <1>10. CASE RunPortion
    BY <1>10, PortionKept
  <1>11. CASE RunLost
    BY <1>11 DEF RunLost, SeesState
  <1>12. CASE CheckState \/ CheckLost
    BY <1>12 DEF CheckState, SeesState, CheckLost
  <1>13. CASE TeardownNothing \/ TeardownStop
    BY <1>13 DEF TeardownNothing, TeardownStop
  <1>14. CASE UNCHANGED vars
    BY <1>14 DEF vars
  <1> QED
    BY <1>1, <1>2, <1>3, <1>4, <1>5, <1>6, <1>7, <1>8, <1>9, <1>10, <1>11,
       <1>12, <1>13, <1>14 DEF Next

\* The fields are those the case may meet.
LEMMA FieldsTypeStep == Inv /\ [Next]_vars => FieldsType'
  <1> SUFFICES ASSUME Inv, [Next]_vars PROVE FieldsType'
    OBVIOUS
  <1> USE DEF Inv, TypeOK, FieldsType, history
  <1>1. CASE GroupSetup \/ GroupSkipped \/ GroupHangs \/ GroupTeardown
    BY <1>1 DEF GroupSetup, GroupSkipped, GroupHangs, GroupTeardown
  <1>2. CASE BeginCase \/ CaseNotRun
    BY <1>2 DEF BeginCase, CaseNotRun
  <1>3. CASE SetupExchange \/ SetupState \/ SetupLost
    BY <1>3 DEF SetupExchange, SetupState, SetupLost
  <1>4. CASE SetIdeStream \/ SetIdeStreamFails
    BY <1>4 DEF SetIdeStream, SetIdeStreamFails
  <1>5. CASE RunRequest
    BY <1>5, RequestVerdict
  <1>6. CASE RunPortion \/ RunLost \/ CheckState \/ CheckLost
    BY <1>6 DEF RunPortion, RunLost, CheckState, CheckLost
  <1>7. CASE TeardownNothing \/ TeardownStop
    BY <1>7 DEF TeardownNothing, TeardownStop
  <1>8. CASE UNCHANGED vars
    BY <1>8 DEF vars
  <1> QED
    BY <1>1, <1>2, <1>3, <1>4, <1>5, <1>6, <1>7, <1>8 DEF Next

\* A run begins after the whole setup, with nothing lost.
LEMMA ControlStep == Inv /\ [Next]_vars => Control'
  <1> SUFFICES ASSUME Inv, [Next]_vars PROVE Control'
    OBVIOUS
  <1> USE TdispAssumption DEF Inv, TypeOK, Control, validator, device,
     history, InCase, Row
  <1>1. CASE GroupSetup \/ GroupSkipped \/ GroupHangs \/ GroupTeardown
    BY <1>1 DEF GroupSetup, GroupSkipped, GroupHangs, GroupTeardown, Disturbed
  <1>2. CASE BeginCase
    BY <1>2, Begins DEF BeginCase, Disturbed, NoReport
  <1>3. CASE CaseNotRun
    BY <1>3 DEF CaseNotRun, Disturbed, NoReport
  <1>4. CASE SetupExchange
    BY <1>4, SetupAnswered, GoesOn DEF SetupExchange, SetupFails
  <1>5. CASE SetupState
    BY <1>5, GoesOn DEF SetupState, Succeeds
  <1>6. CASE SetupLost
    BY <1>6 DEF SetupLost, SetupStep, SetupFails
  <1>7. CASE SetIdeStream
    BY <1>7, GoesOn DEF SetIdeStream, Disturbed
  <1>8. CASE SetIdeStreamFails
    BY <1>8 DEF SetIdeStreamFails, SetupStep, Disturbed
  <1>9. CASE RunRequest
    BY <1>9 DEF RunRequest, Portioned, Exchange, AfterRequest, SeesState
  <1>10. CASE RunPortion
    BY <1>10 DEF RunPortion, Portioned, Exchange, AfterRequest, SeesState,
       Portion, OffsetAfter
  <1>11. CASE RunLost
    BY <1>11 DEF RunLost, SeesState
  <1>12. CASE CheckState \/ CheckLost
    BY <1>12 DEF CheckState, SeesState, CheckLost
  <1>13. CASE TeardownNothing \/ TeardownStop
    BY <1>13 DEF TeardownNothing, TeardownStop
  <1>14. CASE UNCHANGED vars
    BY <1>14 DEF vars
  <1> QED
    BY <1>1, <1>2, <1>3, <1>4, <1>5, <1>6, <1>7, <1>8, <1>9, <1>10, <1>11,
       <1>12, <1>13, <1>14 DEF Next

\* A case begins with the TDI unlocked, unless it was left otherwise.
LEMMA BeginTdi ==
    ASSUME Inv, BeginCase
    PROVE  TdiKnown'
  <1>1. tdi' \in Disturbed /\ dirty' = dirty /\ step' = 0 /\ pc = "case"
    BY DEF BeginCase
  <1>2. ~dirty => tdi' = "UNLOCKED"
    BY <1>1 DEF Inv, Released, Disturbed
  <1> QED
    BY <1>1, <1>2 DEF TdiKnown

\* An exchange of the setup moves the TDI to where it should be.
LEMMA SetupExchangeTdi ==
    ASSUME Inv, SetupExchange
    PROVE  TdiKnown'
  <1>1. pc = "setup" /\ case' = case /\ SetupStep \notin {"ide", "state"}
    BY SetupAnswered
  <1>2. CASE SetupFails
    BY <1>2 DEF SetupFails, TdiKnown, BeforeRequest
  <1>3. CASE ~SetupFails
    <2>1. /\ SetupGoesOn
          /\ tdi' = IF SetupStep \in Changing THEN Outcome[SetupStep] ELSE tdi
          /\ dirty' = (dirty /\ SetupStep # "stop")
      BY <1>3, SetupAnswered
    <2>2. SetupStep \notin Changing => dirty' = dirty
      BY <2>1 DEF Changing, Inv, TypeOK
    <2> QED
      BY <1>1, <2>1, <2>2, TdiGoesOn
  <1> QED
    BY <1>2, <1>3

\* The state asked for in the setup is the one the case is about.
LEMMA SetupStateKnown ==
    ASSUME Inv, SetupState
    PROVE  TdiKnown' /\ StreamKnown'
  <1>1. /\ pc = "setup" /\ SetupStep = "state" /\ case' = case
        /\ UNCHANGED <<tdi, keys, secure, dirty>>
    BY DEF SetupState, device, history
  <1>2. CASE tdi = Row.state
    <2>1. SetupGoesOn
      BY <1>2 DEF SetupState, Row
    <2>2. TdiKnown'
      BY <1>1, <1>2, <2>1, TdiGoesOn DEF Changing
    <2> QED
      BY <1>1, <2>1, <2>2, StreamGoesOn
  <1>3. CASE tdi # Row.state
    BY <1>3 DEF SetupState, Row, TdiKnown, StreamKnown, BeforeRequest
  <1> QED
    BY <1>2, <1>3

\* Bringing up the stream touches a TDI that is unlocked.
LEMMA SetIdeStreamKnown ==
    ASSUME Inv, SetIdeStream
    PROVE  TdiKnown' /\ StreamKnown'
  <1>1. /\ pc = "setup" /\ SetupStep = "ide" /\ case' = case /\ SetupGoesOn
        /\ keys' = "session" /\ secure' = TRUE /\ dirty' = dirty
        /\ tdi' \in Disturbed
    BY DEF SetIdeStream, history
  <1>2. TdiKnown'
    BY <1>1, TdiGoesOn DEF Disturbed, Changing
  <1> QED
    BY <1>1, <1>2, StreamGoesOn

\* Fetching the report moves nothing.
LEMMA PortionKnown ==
    ASSUME Inv, RunPortion
    PROVE  TdiKnown' /\ StreamKnown'
  <1>1. /\ pc = "run" /\ UNCHANGED <<case, step, tdi, keys, secure, dirty>> 
        /\ Row.request # "none" /\ BeforeRequest
    BY PortionSent DEF BeforeRequest, Inv, TypeOK, Row
  <1>2. CASE BeforeRequest'
    BY <1>1 DEF Inv, TdiKnown, StreamKnown, Row, LastChange, Unchanged
  <1> QED
    BY <1>2 DEF TdiKnown, StreamKnown

\* The TDI is where the last exchange that moved it left it.
LEMMA TdiStep == Inv /\ [Next]_vars => TdiKnown'
  <1> SUFFICES ASSUME Inv, [Next]_vars PROVE TdiKnown'
    OBVIOUS
  <1> USE TdispAssumption DEF Inv, TypeOK, TdiKnown, validator, device,
     history, BeforeRequest, Row
  <1>1. CASE GroupSetup \/ GroupSkipped \/ GroupHangs \/ GroupTeardown
    BY <1>1 DEF GroupSetup, GroupSkipped, GroupHangs, GroupTeardown, Disturbed
  <1>2. CASE BeginCase
    BY <1>2, BeginTdi
  <1>3. CASE CaseNotRun
    BY <1>3 DEF CaseNotRun, Disturbed, NoReport
  <1>4. CASE SetupExchange
    BY <1>4, SetupExchangeTdi
  <1>5. CASE SetupState
    BY <1>5, SetupStateKnown
  <1>6. CASE SetupLost
    BY <1>6 DEF SetupLost, SetupStep, SetupFails
  <1>7. CASE SetIdeStream
    BY <1>7, SetIdeStreamKnown
  <1>8. CASE SetIdeStreamFails
    BY <1>8 DEF SetIdeStreamFails, SetupStep, Disturbed
  <1>9. CASE RunRequest
    BY <1>9 DEF RunRequest, Portioned, Exchange, AfterRequest, SeesState
  <1>10. CASE RunPortion
    BY <1>10, PortionKnown
  <1>11. CASE RunLost
    BY <1>11 DEF RunLost, SeesState
  <1>12. CASE CheckState \/ CheckLost
    BY <1>12 DEF CheckState, SeesState, CheckLost
  <1>13. CASE TeardownNothing \/ TeardownStop
    BY <1>13 DEF TeardownNothing, TeardownStop
  <1>14. CASE UNCHANGED vars
    BY <1>14 DEF vars, LastChange, Unchanged
  <1> QED
    BY <1>1, <1>2, <1>3, <1>4, <1>5, <1>6, <1>7, <1>8, <1>9, <1>10, <1>11,
       <1>12, <1>13, <1>14 DEF Next

\* An exchange of the setup leaves the stream alone.
LEMMA SetupExchangeStream ==
    ASSUME Inv, SetupExchange
    PROVE  StreamKnown'
  <1>1. CASE SetupFails
    BY <1>1 DEF SetupFails, StreamKnown, BeforeRequest
  <1>2. CASE ~SetupFails
    BY <1>2, SetupAnswered, StreamGoesOn
  <1> QED
    BY <1>1, <1>2

\* The stream is up exactly from its exchange on.
LEMMA StreamStep == Inv /\ [Next]_vars => StreamKnown'
  <1> SUFFICES ASSUME Inv, [Next]_vars PROVE StreamKnown'
    OBVIOUS
  <1> USE TdispAssumption DEF Inv, TypeOK, StreamKnown, validator, device,
     history, BeforeRequest, Row
  <1>1. CASE GroupSetup \/ GroupSkipped \/ GroupHangs \/ GroupTeardown
    BY <1>1 DEF GroupSetup, GroupSkipped, GroupHangs, GroupTeardown, Disturbed
  <1>2. CASE BeginCase
    BY <1>2 DEF BeginCase
  <1>3. CASE CaseNotRun
    BY <1>3 DEF CaseNotRun, Disturbed, NoReport
  <1>4. CASE SetupExchange
    BY <1>4, SetupExchangeStream
  <1>5. CASE SetupState
    BY <1>5, SetupStateKnown
  <1>6. CASE SetupLost
    BY <1>6 DEF SetupLost, SetupStep, SetupFails
  <1>7. CASE SetIdeStream
    BY <1>7, SetIdeStreamKnown
  <1>8. CASE SetIdeStreamFails
    BY <1>8 DEF SetIdeStreamFails, SetupStep, Disturbed
  <1>9. CASE RunRequest
    BY <1>9 DEF RunRequest, Portioned, Exchange, AfterRequest, SeesState
  <1>10. CASE RunPortion
    BY <1>10, PortionKnown
  <1>11. CASE RunLost
    BY <1>11 DEF RunLost, SeesState
  <1>12. CASE CheckState \/ CheckLost
    BY <1>12 DEF CheckState, SeesState, CheckLost
  <1>13. CASE TeardownNothing \/ TeardownStop
    BY <1>13 DEF TeardownNothing, TeardownStop
  <1>14. CASE UNCHANGED vars
    BY <1>14 DEF vars
  <1> QED
    BY <1>1, <1>2, <1>3, <1>4, <1>5, <1>6, <1>7, <1>8, <1>9, <1>10, <1>11,
       <1>12, <1>13, <1>14 DEF Next

\* A case that is skipped remembers that its setup succeeded, or has moved
\* nothing.
LEMMA SkipReleases ==
    ASSUME Inv, SetupState
    PROVE  NothingToRelease'
  <1>1. /\ pc = "setup" /\ case \in Cases /\ case' = case
        /\ tdi' = tdi /\ dirty' = dirty /\ TypeOK /\ Control
    BY DEF Inv, SetupState, Control, InCase, device, history
  <1>2. CASE SetupGoesOn
    BY <1>1, <1>2, GoesOn, RunStarts DEF NothingToRelease
  <1>3. CASE Succeeds
    <2>1. case \in NoTeardown => Unchanged(step)
      BY <1>1, CasesConsistent, SetupStepKnown
      DEF Consistent, Still, Unchanged, Row
    <2>2. case \in NoTeardown /\ ~dirty => tdi = "UNLOCKED"
      BY <1>1, <2>1 DEF Inv, TdiKnown, BeforeRequest
    <2> QED
      BY <1>1, <1>3, <2>2 DEF NothingToRelease, Succeeds
  <1> QED
    BY <1>2, <1>3 DEF SetupState

\* The stream is brought up before the TDI is locked: when that fails there
\* is nothing to release.
LEMMA IdeFailureReleases ==
    ASSUME Inv, SetIdeStreamFails
    PROVE  NothingToRelease'
  <1>1. pc = "setup" /\ case \in Cases /\ case' = case  /\ dirty' = dirty
        /\ TypeOK /\ Control /\ SetupStep = "ide"
    BY DEF Inv, SetIdeStreamFails, Control, InCase, history
  <1>2. /\ step \in Nat /\ step + 1 \in 1..Len(Row.setup)
        /\ Ordered(Row.setup)
        /\ Row.setup[step + 1] = "ide"
    BY <1>1, SetupStepKnown
  <1>3. Unchanged(step)
    BY <1>2 DEF Ordered, Unchanged
  <1>4. ~dirty => tdi = "UNLOCKED"
    BY <1>1, <1>3 DEF Inv, TdiKnown, BeforeRequest
  <1> QED
    BY <1>1, <1>4 DEF NothingToRelease, SetIdeStreamFails, Disturbed

\* The cases without a teardown ask for nothing that moves the TDI.
LEMMA RequestReleases ==
    ASSUME Inv, RunRequest
    PROVE  NothingToRelease'
  <1>1. /\ pc = "run" /\ case' = case /\ setup_success' = setup_success
        /\ case \in Cases /\ case \in setup_success \cup NoTeardown
        /\ Row.request \in Requests /\ TypeOK
    BY AtRequest DEF Inv, Control, RunRequest, validator
  <1>2. CASE case \in NoTeardown
    <2>1. Row.request \in {"version", "capabilities"} /\ Still(Row)
      BY <1>1, <1>2, CasesConsistent DEF Consistent, Row
    <2>2. ~dirty => tdi = "UNLOCKED"
      BY <1>1, <2>1, AtRequest
    <2>3. PICK r \in Replies(Row.request) : Exchange(Row.request, r)
      BY DEF RunRequest, Row
    <2>4. r.tdi = tdi /\ r.answer # "STOP_RSP"
      BY <1>1, <2>1, <2>3, ReplyFacts DEF Changing
    <2>5. tdi' = tdi /\ dirty' = dirty
      <3>1. tdi' = r.tdi /\ dirty' = (dirty /\ r.answer # "STOP_RSP")
        BY <2>3 DEF Exchange
      <3> QED
        BY <1>1, <2>4, <3>1 DEF TypeOK
    <2> QED
      BY <2>2, <2>5 DEF NothingToRelease
  <1> QED
    BY <1>1, <1>2 DEF NothingToRelease

\* A teardown that sends nothing has nothing to release.
LEMMA NothingToReleaseStep == Inv /\ [Next]_vars => NothingToRelease'
  <1> SUFFICES ASSUME Inv, [Next]_vars PROVE NothingToRelease'
    OBVIOUS
  <1> USE TdispAssumption DEF Inv, TypeOK, NothingToRelease, validator,
     device, history
  <1>1. CASE GroupSetup \/ GroupSkipped \/ GroupHangs \/ GroupTeardown
    BY <1>1 DEF GroupSetup, GroupSkipped, GroupHangs, GroupTeardown, Disturbed
  <1>2. CASE BeginCase
    BY <1>2, Begins DEF BeginCase, Disturbed, NoReport
  <1>3. CASE CaseNotRun
    BY <1>3 DEF CaseNotRun, Disturbed, NoReport
  <1>4. CASE SetupExchange
    BY <1>4, SetupAnswered, GoesOn, RunStarts DEF SetupExchange, SetupFails,
       Control, InCase
  <1>5. CASE SetupState
    BY <1>5, SkipReleases
  <1>6. CASE SetupLost
    BY <1>6, LostFacts, SetupStepKnown DEF SetupLost, SetupStep, SetupFails
  <1>7. CASE SetIdeStream
    BY <1>7, GoesOn, RunStarts DEF SetIdeStream, Disturbed, Control, InCase
  <1>8. CASE SetIdeStreamFails
    BY <1>8, IdeFailureReleases
  <1>9. CASE RunRequest
    BY <1>9, RequestReleases
  <1>10. CASE RunPortion
    BY <1>10, PortionSent, RequestFacts, AtRequest, CasesConsistent
    DEF Consistent, Portioned, Row, Control
  <1>11. CASE RunLost
    BY <1>11, AtRequest, LostFacts DEF RunLost, Row
  <1>12. CASE CheckState \/ CheckLost
    BY <1>12, RequestFacts DEF CheckState, SeesState, CheckLost, Control,
       InCase
  <1>13. CASE TeardownNothing \/ TeardownStop
    BY <1>13 DEF TeardownNothing, TeardownStop
  <1>14. CASE UNCHANGED vars
    BY <1>14 DEF vars
  <1> QED
    BY <1>1, <1>2, <1>3, <1>4, <1>5, <1>6, <1>7, <1>8, <1>9, <1>10, <1>11,
       <1>12, <1>13, <1>14 DEF Next

\* No request under test is sent during the setup.
LEMMA BeforeGoesOn ==
    ASSUME Inv, pc = "setup", SetupGoesOn, case' = case, verdict' = verdict,
           before' = before
    PROVE  BeforeKnown'
  <1>1. /\ case \in Cases /\ before = "none" /\ verdict = "NOT_TESTED"
        /\ TypeOK /\ Control
    BY DEF Inv, Control, InCase, BeforeKnown, VerdictKnown
  <1>2. pc' = "setup" \/ pc' = RunStart(case)
    BY <1>1, GoesOn
  <1> QED
    BY <1>1, <1>2, RunStarts, RequestFacts DEF BeforeKnown, Row

\* The run sees the state the setup asked for.
LEMMA BeforeStep == Inv /\ [Next]_vars => BeforeKnown'
  <1> SUFFICES ASSUME Inv, [Next]_vars PROVE BeforeKnown'
    OBVIOUS
  <1> USE TdispAssumption DEF Inv, TypeOK, BeforeKnown, validator, device,
     history, Row
  <1>1. CASE GroupSetup \/ GroupSkipped \/ GroupHangs \/ GroupTeardown
    BY <1>1 DEF GroupSetup, GroupSkipped, GroupHangs, GroupTeardown, Disturbed
  <1>2. CASE BeginCase
    BY <1>2, Begins DEF BeginCase, Disturbed, NoReport
  <1>3. CASE CaseNotRun
    BY <1>3 DEF CaseNotRun, Disturbed, NoReport
  <1>4. CASE SetupExchange
    <2>1. CASE SetupFails
      BY <1>4, <2>1 DEF SetupExchange, SetupFails
    <2>2. CASE SetupGoesOn
      BY <1>4, <2>2, BeforeGoesOn, SetupAnswered DEF SetupExchange
    <2> QED
      BY <1>4, <2>1, <2>2, SetupAnswered
  <1>5. CASE SetupState
    <2>1. CASE SetupGoesOn
      BY <1>5, <2>1, BeforeGoesOn DEF SetupState, history
    <2>2. CASE ~SetupGoesOn
      BY <1>5, <2>2 DEF SetupState, history
    <2> QED
      BY <2>1, <2>2
  <1>6. CASE SetupLost
    BY <1>6 DEF SetupLost, SetupStep, SetupFails
  <1>7. CASE SetIdeStream
    BY <1>7, BeforeGoesOn DEF SetIdeStream
  <1>8. CASE SetIdeStreamFails
    BY <1>8 DEF SetIdeStreamFails, SetupStep, Disturbed
  <1>9. CASE RunRequest
    BY <1>9, AtRequest DEF RunRequest, Portioned, Exchange, AfterRequest,
       SeesState
  <1>10. CASE RunPortion
    BY <1>10, AtRequest DEF RunPortion, Portioned, Exchange, AfterRequest,
       SeesState, Portion, OffsetAfter
  <1>11. CASE RunLost
    BY <1>11 DEF RunLost, SeesState
  <1>12. CASE CheckState \/ CheckLost
    BY <1>12 DEF CheckState, SeesState, CheckLost
  <1>13. CASE TeardownNothing \/ TeardownStop
    BY <1>13 DEF TeardownNothing, TeardownStop
  <1>14. CASE UNCHANGED vars
    BY <1>14 DEF vars
  <1> QED
    BY <1>1, <1>2, <1>3, <1>4, <1>5, <1>6, <1>7, <1>8, <1>9, <1>10, <1>11,
       <1>12, <1>13, <1>14 DEF Next

\* The portions and the remainder make up the report.
LEMMA ReportStep == Inv /\ [Next]_vars => ReportKnown'
  <1> SUFFICES ASSUME Inv, [Next]_vars PROVE ReportKnown'
    OBVIOUS
  <1> USE TdispAssumption DEF Inv, TypeOK, ReportKnown, validator, device,
     history, NoReport, Row, Portioned
  <1>1. CASE GroupSetup \/ GroupSkipped \/ GroupHangs \/ GroupTeardown
    BY <1>1 DEF GroupSetup, GroupSkipped, GroupHangs, GroupTeardown, Disturbed
  <1>2. CASE BeginCase
    BY <1>2 DEF BeginCase, Disturbed
  <1>3. CASE CaseNotRun
    BY <1>3 DEF CaseNotRun, Disturbed
  <1>4. CASE SetupExchange
    BY <1>4 DEF SetupExchange, SetupFails
  <1>5. CASE SetupState
    BY <1>5 DEF SetupState, Succeeds
  <1>6. CASE SetupLost
    BY <1>6 DEF SetupLost, SetupStep, SetupFails
  <1>7. CASE SetIdeStream
    BY <1>7 DEF SetIdeStream, Disturbed
  <1>8. CASE SetIdeStreamFails
    BY <1>8 DEF SetIdeStreamFails, SetupStep, Disturbed
  <1>9. CASE RunRequest
    BY <1>9 DEF RunRequest, Exchange, AfterRequest, SeesState
  <1>10. CASE RunPortion
    BY <1>10, PortionKept
  <1>11. CASE RunLost
    BY <1>11 DEF RunLost, SeesState
  <1>12. CASE CheckState \/ CheckLost
    BY <1>12, RequestFacts DEF CheckState, SeesState, CheckLost, VerdictKnown,
       Control, InCase
  <1>13. CASE TeardownNothing \/ TeardownStop
    BY <1>13 DEF TeardownNothing, TeardownStop
  <1>14. CASE UNCHANGED vars
    BY <1>14 DEF vars
  <1> QED
    BY <1>1, <1>2, <1>3, <1>4, <1>5, <1>6, <1>7, <1>8, <1>9, <1>10, <1>11,
       <1>12, <1>13, <1>14 DEF Next

\* The setup leads to a state check that succeeds.
LEMMA VerdictGoesOn ==
    ASSUME Inv, pc = "setup", SetupGoesOn, case' = case, verdict' = verdict,
           TdiKnown', Control'
    PROVE  VerdictKnown'
  <1>1. /\ case \in Cases /\ verdict = "NOT_TESTED" /\ Row' = Row
        /\ TypeOK /\ Control
    BY DEF Inv, Control, InCase, VerdictKnown, Row
  <1>2. \/ pc' = "setup"
        \/ pc' = "run" /\ Row.request # "none"
        \/ pc' = "check" /\ Row.request = "none"
    BY <1>1, GoesOn, RunStarts DEF Row
  <1>3. pc' = "check" => Excused' \/ tdi' = Row'.after
    <2>1. (Control /\ TdiKnown /\ pc = "check" /\ Row.request = "none"
             => Excused \/ tdi = Row.after)'
      BY CheckReady, PTL
    <2> QED
      BY <1>1, <1>2, <2>1
  <1> QED
    BY <1>1, <1>2, <1>3 DEF VerdictKnown

\* The verdict on the report is about the report alone.
LEMMA PortionVerdict ==
    ASSUME Inv, RunPortion
    PROVE  VerdictKnown' /\ NoFalseAlarm' /\ PassMeansPrecondition'
  <1>1. /\ pc = "run" /\ Portioned /\ UNCHANGED <<case, step, tdi>>
        /\ verdict' \in {"PASS", "FAILED"}
        /\ verdict' = "FAILED" => report'.odd
        /\ pc' \in {"run", "teardown", AfterRequest(TRUE)}
    BY PortionSent, PortionKept
  <1>2. /\ case \in Cases /\ Row' = Row /\ tdi = Row.state
        /\ Row.state # "any"
        /\ Row.after \in {"any", Row.state}
        /\ Row.request # "none"
    BY <1>1, AtRequest, RequestFacts DEF Portioned, Row
  <1>3. pc' = "check" => Row.after = tdi
    BY <1>1, <1>2 DEF AfterRequest, Row
  <1>4. VerdictKnown' /\ NoFalseAlarm'
    BY <1>1, <1>2, <1>3 DEF VerdictKnown, NoFalseAlarm, Excused,
       AfterRequest, Row
  <1>5. before' = Row.state
    BY <1>1, <1>2, PortionSent DEF Inv, BeforeKnown, TypeOK
  <1>6. verdict' = "PASS" /\ pc' # "run" =>
           report'.offset = report'.total /\ report'.total \in 1..ReportMax
           /\ ~report'.odd
    BY <1>1, PortionKept DEF ReportKnown, ReportType, Portioned
  <1> QED
    BY <1>1, <1>2, <1>4, <1>5, <1>6 DEF PassMeansPrecondition, Row

\* A case that comes to its state check passes it, or is excused.
LEMMA VerdictStep == Inv /\ [Next]_vars => VerdictKnown'
  <1> SUFFICES ASSUME Inv, [Next]_vars PROVE VerdictKnown'
    OBVIOUS
  <1> USE TdispAssumption DEF Inv, TypeOK, VerdictKnown, validator, device,
     history, Row, Excused
  <1>1. CASE GroupSetup \/ GroupSkipped \/ GroupHangs \/ GroupTeardown
    BY <1>1 DEF GroupSetup, GroupSkipped, GroupHangs, GroupTeardown, Disturbed
  <1>2. CASE BeginCase
    BY <1>2, Begins DEF BeginCase, Disturbed, NoReport
  <1>3. CASE CaseNotRun
    BY <1>3 DEF CaseNotRun, Disturbed, NoReport
  <1>4. CASE SetupExchange
    <2>1. CASE SetupFails
      BY <1>4, <2>1 DEF SetupExchange, SetupFails
    <2>2. CASE SetupGoesOn
      BY <1>4, <2>2, VerdictGoesOn, ControlStep, TdiStep DEF SetupExchange
    <2> QED
      BY <1>4, <2>1, <2>2, SetupAnswered
  <1>5. CASE SetupState
    <2>1. CASE SetupGoesOn
      BY <1>5, <2>1, VerdictGoesOn, ControlStep, TdiStep DEF SetupState,
         history
    <2>2. CASE ~SetupGoesOn
      BY <1>5, <2>2 DEF SetupState, history
    <2> QED
      BY <2>1, <2>2
  <1>6. CASE SetupLost
    BY <1>6 DEF SetupLost, SetupStep, SetupFails
  <1>7. CASE SetIdeStream
    BY <1>7, VerdictGoesOn, ControlStep, TdiStep DEF SetIdeStream
  <1>8. CASE SetIdeStreamFails
    BY <1>8 DEF SetIdeStreamFails, SetupStep, Disturbed
  <1>9. CASE RunRequest
    <2>1. Row' = Row /\ pc' \in {"check", "teardown"}
      BY <1>9, RequestVerdict
    <2> HIDE DEF Excused
    <2> QED
      BY <1>9, <2>1, RequestVerdict
  <1>10. CASE RunPortion
    BY <1>10, PortionVerdict
  <1>11. CASE RunLost
    BY <1>11 DEF RunLost, SeesState
  <1>12. CASE CheckState \/ CheckLost
    BY <1>12 DEF CheckState, SeesState, CheckLost
  <1>13. CASE TeardownNothing \/ TeardownStop
    BY <1>13 DEF TeardownNothing, TeardownStop
  <1>14. CASE UNCHANGED vars
    BY <1>14 DEF vars
  <1> QED
    BY <1>1, <1>2, <1>3, <1>4, <1>5, <1>6, <1>7, <1>8, <1>9, <1>10, <1>11,
       <1>12, <1>13, <1>14 DEF Next

\* Released is preserved; only the end of a teardown can disturb it.
LEMMA ReleasedStep == Inv /\ [Next]_vars => Released'
  <1> SUFFICES ASSUME Inv, [Next]_vars PROVE Released'
    OBVIOUS
  <1> USE TdispAssumption DEF Inv, TypeOK, Released, validator, device,
     history
  <1>1. CASE GroupSetup \/ GroupSkipped \/ GroupHangs \/ GroupTeardown
    BY <1>1 DEF GroupSetup, GroupSkipped, GroupHangs, GroupTeardown, Disturbed
  <1>2. CASE BeginCase
    BY <1>2 DEF BeginCase, Disturbed, NoReport
  <1>3. CASE CaseNotRun
    BY <1>3 DEF CaseNotRun, Disturbed, NoReport
  <1>4. CASE SetupExchange
    BY <1>4, GoesOn, RunStarts DEF SetupExchange, SetupFails, Control, InCase
  <1>5. CASE SetupState
    BY <1>5, GoesOn, RunStarts DEF SetupState, Succeeds, Control, InCase
  <1>6. CASE SetupLost
    BY <1>6 DEF SetupLost, SetupStep, SetupFails
  <1>7. CASE SetIdeStream
    BY <1>7, GoesOn, RunStarts DEF SetIdeStream, Disturbed, Control, InCase
  <1>8. CASE SetIdeStreamFails
    BY <1>8 DEF SetIdeStreamFails, SetupStep, Disturbed
  <1>9. CASE RunRequest
    BY <1>9 DEF RunRequest, Portioned, Exchange, AfterRequest, SeesState
  <1>10. CASE RunPortion
    BY <1>10 DEF RunPortion, Portioned, Exchange, AfterRequest, SeesState,
       Portion, OffsetAfter
  <1>11. CASE RunLost
    BY <1>11 DEF RunLost, SeesState
  <1>12. CASE CheckState \/ CheckLost
    BY <1>12 DEF CheckState, SeesState, CheckLost
  <1>13. CASE TeardownNothing
    BY <1>13 DEF TeardownNothing, NothingToRelease
  <1>14. CASE TeardownStop
    BY <1>14, StopSent DEF TeardownStop
  <1>15. CASE UNCHANGED vars
    BY <1>15 DEF vars
  <1> QED
    BY <1>1, <1>2, <1>3, <1>4, <1>5, <1>6, <1>7, <1>8, <1>9, <1>10, <1>11,
       <1>12, <1>13, <1>14, <1>15 DEF Next

\* NoFalseAlarm is preserved.
LEMMA NoFalseAlarmStep == Inv /\ [Next]_vars => NoFalseAlarm'
  <1> SUFFICES ASSUME Inv, [Next]_vars PROVE NoFalseAlarm'
    OBVIOUS
  <1> USE TdispAssumption DEF Inv, TypeOK, NoFalseAlarm, validator, device,
     history
  <1>1. CASE GroupSetup \/ GroupSkipped \/ GroupHangs \/ GroupTeardown
    BY <1>1 DEF GroupSetup, GroupSkipped, GroupHangs, GroupTeardown, Disturbed
  <1>2. CASE BeginCase
    BY <1>2 DEF BeginCase, Disturbed, NoReport
  <1>3. CASE CaseNotRun
    BY <1>3 DEF CaseNotRun, Disturbed, NoReport
  <1>4. CASE SetupExchange
    BY <1>4 DEF SetupExchange, SetupFails, VerdictKnown
  <1>5. CASE SetupState
    BY <1>5 DEF SetupState, Succeeds, VerdictKnown
  <1>6. CASE SetupLost
    BY <1>6 DEF SetupLost, SetupStep, SetupFails, VerdictKnown
  <1>7. CASE SetIdeStream
    BY <1>7 DEF SetIdeStream, Disturbed, VerdictKnown
  <1>8. CASE SetIdeStreamFails
    BY <1>8 DEF SetIdeStreamFails, SetupStep, Disturbed, VerdictKnown
  <1>9. CASE RunRequest
    BY <1>9, RequestVerdict DEF Excused
  <1>10. CASE RunPortion
    BY <1>10, PortionVerdict
  <1>11. CASE RunLost
    BY <1>11, LostFacts, AtRequest, RequestFacts DEF RunLost, SeesState
  <1>12. CASE CheckState \/ CheckLost
    BY <1>12, LostFacts DEF CheckState, SeesState, CheckLost, VerdictKnown,
       Excused, Requests, Row
  <1>13. CASE TeardownNothing \/ TeardownStop
    BY <1>13 DEF TeardownNothing, TeardownStop
  <1>14. CASE UNCHANGED vars
    BY <1>14 DEF vars
  <1> QED
    BY <1>1, <1>2, <1>3, <1>4, <1>5, <1>6, <1>7, <1>8, <1>9, <1>10, <1>11,
       <1>12, <1>13, <1>14 DEF Next

\* The request under test was sent in the state the setup asked for.
LEMMA RequestPrecondition ==
    ASSUME Inv, RunRequest
    PROVE  PassMeansPrecondition'
  <1>1. /\ pc = "run" /\ ~Portioned /\ case' = case
        /\ before' = IF before = "none" THEN tdi ELSE before
    BY DEF RunRequest, validator, SeesState
  <1> QED
   BY <1>1, AtRequest DEF Inv, BeforeKnown, PassMeansPrecondition, Portioned,
      Row, TypeOK

\* The state check adds nothing to the precondition that the request met.
LEMMA CheckPrecondition ==
    ASSUME Inv, CheckState
    PROVE  PassMeansPrecondition'
  <1>1. /\ pc = "check" /\ case' = case /\ report' = report /\ case \in Cases
        /\ before' = IF before = "none" THEN tdi ELSE before
    BY DEF CheckState, validator, SeesState, Inv, Control, InCase
  <1>2. verdict' = "PASS" => verdict # "FAILED"
    BY DEF CheckState
  <1>3. Row.state # "any" => before' = Row.state
    BY <1>1, RequestFacts DEF Inv, BeforeKnown, Row
  <1>4. verdict' = "PASS" /\ Portioned =>
           PassMeansPrecondition /\ verdict = "PASS"
    BY <1>1, <1>2, RequestFacts DEF Inv, VerdictKnown, Portioned, Row, TypeOK
  <1> QED
    BY <1>1, <1>2, <1>3, <1>4, RequestFacts DEF PassMeansPrecondition,
       Portioned, Row

\* PassMeansPrecondition is preserved.
LEMMA PassStep == Inv /\ [Next]_vars => PassMeansPrecondition'
  <1> SUFFICES ASSUME Inv, [Next]_vars PROVE PassMeansPrecondition'
    OBVIOUS
  <1> USE TdispAssumption DEF Inv, TypeOK, PassMeansPrecondition, validator,
     device, history, Portioned
  <1>1. CASE GroupSetup \/ GroupSkipped \/ GroupHangs \/ GroupTeardown
    BY <1>1 DEF GroupSetup, GroupSkipped, GroupHangs, GroupTeardown,
       Disturbed, ReportKnown
  <1>2. CASE BeginCase
    BY <1>2 DEF BeginCase, Disturbed, NoReport
  <1>3. CASE CaseNotRun
    BY <1>3 DEF CaseNotRun, Disturbed, NoReport
  <1>4. CASE SetupExchange
    BY <1>4 DEF SetupExchange, SetupFails, VerdictKnown
  <1>5. CASE SetupState
    BY <1>5 DEF SetupState, Succeeds, VerdictKnown
  <1>6. CASE SetupLost
    BY <1>6 DEF SetupLost, SetupStep, SetupFails, VerdictKnown
  <1>7. CASE SetIdeStream
    BY <1>7 DEF SetIdeStream, Disturbed, VerdictKnown
  <1>8. CASE SetIdeStreamFails
    BY <1>8 DEF SetIdeStreamFails, SetupStep, Disturbed, VerdictKnown
  <1>9. CASE RunRequest
    BY <1>9, RequestPrecondition
  <1>10. CASE RunPortion
    BY <1>10, PortionVerdict
  <1>11. CASE RunLost
    BY <1>11 DEF RunLost, SeesState
  <1>12. CASE CheckState
    BY <1>12, CheckPrecondition
  <1>13. CASE CheckLost
    BY <1>13 DEF CheckLost, SeesState
  <1>14. CASE TeardownNothing \/ TeardownStop
    BY <1>14 DEF TeardownNothing, TeardownStop
  <1>15. CASE UNCHANGED vars
    BY <1>15 DEF vars
  <1> QED
    BY <1>1, <1>2, <1>3, <1>4, <1>5, <1>6, <1>7, <1>8, <1>9, <1>10, <1>11,
       <1>12, <1>13, <1>14, <1>15 DEF Next

-----------------------------------------------------------------------------
(***************************************************************************)
(* The theorems.                                                           *)
(***************************************************************************)
\* The conjunction Inv holds in every reachable state.
THEOREM Invariance == Spec => []Inv
  <1>1. Inv /\ [Next]_vars => TypeOK'
    <2>1. TypeOK' <=> /\ ControlType' /\ StepType' /\ CountType'
                      /\ DeviceType' /\ ReportType' /\ FieldsType'
      BY TypeParts, PTL
    <2> QED
      BY <2>1, ControlTypeStep, StepTypeStep, CountTypeStep, DeviceTypeStep,
         ReportTypeStep, FieldsTypeStep
  <1>2. Inv /\ [Next]_vars => Inv'
    BY <1>1, ControlStep, TdiStep, StreamStep, NothingToReleaseStep,
       VerdictStep, BeforeStep, ReportStep, ReleasedStep, NoFalseAlarmStep,
       PassStep DEF Inv
  <1> QED
    BY InitInv, <1>2, PTL DEF Spec

\* Type correctness: in particular no setup runs past its exchanges, and the
\* report stays inside the case's buffer whatever lengths the device sends
\* (tdisp_test_get_interface_report).
THEOREM TypeCorrect == Spec => []TypeOK
  <1>1. Inv => TypeOK
    BY DEF Inv
  <1> QED
    BY Invariance, <1>1, PTL

\* Between cases the TDI is unlocked, unless an exchange failed and no
\* STOP_INTERFACE has been answered since (setup and teardown of the case
\* files, with their static setup_success).
THEOREM ReleasedCorrect == Spec => []Released
  <1>1. Inv => Released
    BY DEF Inv
  <1> QED
    BY Invariance, <1>1, PTL

\* A device whose message headers follow TDISP fails no case, but for a lost
\* exchange, an impossible report, a VERSION or CAPABILITIES that the case does
\* not take (optional messages among them) and the two cases that do not
\* establish their own precondition (setup and run of the case files).
THEOREM NoFalseAlarmCorrect == Spec => []NoFalseAlarm
  <1>1. Inv => NoFalseAlarm
    BY DEF Inv
  <1> QED
    BY Invariance, <1>1, PTL

\* PASS is earned in the state the case is about, and with the whole report
\* in the buffer (setup and run of the case files).
THEOREM PassMeansPreconditionCorrect == Spec => []PassMeansPrecondition
  <1>1. Inv => PassMeansPrecondition
    BY DEF Inv
  <1> QED
    BY Invariance, <1>1, PTL

=============================================================================
