------------------------------- MODULE Tdisp --------------------------------
(***************************************************************************)
(* The TDISP cases of tdisp_test_lib against the TDI (the device interface *)
(* under test) of a device that follows TDISP.  Every case file is one     *)
(* record below: the exchanges of its setup in order, the state its setup  *)
(* asks for, the request under test, the answer it expects and the state   *)
(* it expects afterwards.  Setup, run and teardown of all cases have the   *)
(* same shape, so one action per exchange serves them all.  An exchange    *)
(* (pci_tdisp_send_receive_data over the SPDM session) can fail before or  *)
(* after the device has acted.  Groups are the test classes: one SPDM      *)
(* session each, and the same class may come again in a later suite.       *)
(* The device's message headers are those of TDISP.  The bodies that a     *)
(* case looks into may be any: `fields` tells whether a VERSION or         *)
(* CAPABILITIES was what the case demands, `odd` whether the lengths of a  *)
(* report's portions were those of a report that fits the case's buffer    *)
(* and, in the case that reads it, its contents agreed with its length.    *)
(***************************************************************************)
EXTENDS Naturals, Sequences, FiniteSetsExt

CONSTANTS
    Classes,     \* the test classes the suites select from
    MaxCases,    \* bound on the cases run, over all groups
    MaxGroups,   \* bound on the groups run, over all suites
    PortionLen,  \* LIBTDISP_INTERFACE_REPORT_PORTION_LEN
    ReportMax,   \* LIBTDISP_INTERFACE_REPORT_MAX_SIZE, a case's buffer
    MaxLength    \* bound on the lengths a device puts into a portion

-----------------------------------------------------------------------------
(* The case files.  "any": the case does not look at the state then.       *)

Case(setup, state, request, answer, after) ==
    [setup |-> setup, state |-> state, request |-> request,
     answer |-> answer, after |-> after]

Hello == <<"version", "capabilities">>
HelloState == <<"version", "capabilities", "state">>
HelloStateIde == <<"version", "capabilities", "state", "ide">>
HelloIdeState == <<"version", "capabilities", "ide", "state">>
HelloLock == <<"version", "capabilities", "ide", "lock">>
HelloLockState == <<"version", "capabilities", "ide", "lock", "state">>
HelloLockStopState ==
    <<"version", "capabilities", "ide", "lock", "stop", "state">>
HelloStart == <<"version", "capabilities", "ide", "lock", "start">>
HelloStartState ==
    <<"version", "capabilities", "ide", "lock", "start", "state">>
HelloStartStop == <<"version", "capabilities", "ide", "lock", "start", "stop">>

version_1 == Case(<<>>, "any", "version", "VERSION", "any")
capabilities_1 ==
    Case(<<"version">>, "any", "capabilities", "CAPABILITIES", "any")

lock_interface_1 ==
    Case(HelloStateIde, "UNLOCKED", "lock", "LOCK_RSP", "LOCKED")
lock_interface_2 ==
    Case(HelloState, "UNLOCKED", "lock", "INVALID_REQUEST",
         "UNLOCKED")
lock_interface_3 ==
    Case(HelloLockState, "LOCKED", "lock",
         "INVALID_INTERFACE_STATE", "LOCKED")
lock_interface_4 ==
    Case(HelloStartState, "RUN", "lock",
         "INVALID_INTERFACE_STATE", "RUN")

interface_report_1 ==
    Case(HelloLockState, "LOCKED", "report", "REPORT", "LOCKED")
interface_report_2 ==
    Case(HelloStartState, "RUN", "report", "REPORT", "RUN")
interface_report_3 ==
    Case(HelloLockState, "LOCKED", "report_beyond",
         "INVALID_REQUEST", "LOCKED")
interface_report_4 ==
    Case(HelloState, "UNLOCKED", "report",
         "INVALID_INTERFACE_STATE", "UNLOCKED")
interface_report_5 ==
    Case(HelloLockState, "LOCKED", "report", "REPORT", "any")

\* The request under test is GET_DEVICE_INTERFACE_STATE itself: the run has
\* no other exchange, and the setup does not ask for the state.
interface_state_1 == Case(Hello, "any", "none", "none", "UNLOCKED")
interface_state_2 == Case(HelloLock, "any", "none", "none", "LOCKED")
interface_state_3 == Case(HelloStart, "any", "none", "none", "RUN")
interface_state_4 ==
    Case(HelloStartStop, "any", "none", "none", "UNLOCKED")

start_interface_1 ==
    Case(HelloLockState, "LOCKED", "start", "START_RSP", "RUN")
start_interface_2 ==
    Case(HelloLockState, "LOCKED", "start_bad_nonce",
         "INVALID_NONCE", "LOCKED")
start_interface_3 ==
    Case(HelloLockStopState, "UNLOCKED", "start",
         "INVALID_INTERFACE_STATE", "UNLOCKED")
start_interface_4 ==
    Case(HelloStartState, "RUN", "start",
         "INVALID_INTERFACE_STATE", "RUN")

stop_interface_1 ==
    Case(HelloStartState, "RUN", "stop", "STOP_RSP", "UNLOCKED")
stop_interface_2 ==
    Case(HelloLockState, "LOCKED", "stop", "STOP_RSP", "UNLOCKED")
stop_interface_3 ==
    Case(HelloIdeState, "UNLOCKED", "stop", "STOP_RSP",
         "UNLOCKED")

Script ==
    [version_1 |-> version_1,
     capabilities_1 |-> capabilities_1,
     lock_interface_1 |-> lock_interface_1,
     lock_interface_2 |-> lock_interface_2,
     lock_interface_3 |-> lock_interface_3,
     lock_interface_4 |-> lock_interface_4,
     interface_report_1 |-> interface_report_1,
     interface_report_2 |-> interface_report_2,
     interface_report_3 |-> interface_report_3,
     interface_report_4 |-> interface_report_4,
     interface_report_5 |-> interface_report_5,
     interface_state_1 |-> interface_state_1,
     interface_state_2 |-> interface_state_2,
     interface_state_3 |-> interface_state_3,
     interface_state_4 |-> interface_state_4,
     start_interface_1 |-> start_interface_1,
     start_interface_2 |-> start_interface_2,
     start_interface_3 |-> start_interface_3,
     start_interface_4 |-> start_interface_4,
     stop_interface_1 |-> stop_interface_1,
     stop_interface_2 |-> stop_interface_2,
     stop_interface_3 |-> stop_interface_3]

Cases == DOMAIN Script

\* m_tdisp_test_case_funcs: the cases of each class.
m_tdisp_test_case_funcs ==
    [Version |-> {"version_1"},
     Capabilities |-> {"capabilities_1"},
     LockInterface |-> {"lock_interface_1", "lock_interface_2",
                        "lock_interface_3", "lock_interface_4"},
     DeviceReport |-> {"interface_report_1", "interface_report_2",
                       "interface_report_3", "interface_report_4",
                       "interface_report_5"},
     DeviceState |-> {"interface_state_1", "interface_state_2",
                      "interface_state_3", "interface_state_4"},
     StartInterface |-> {"start_interface_1", "start_interface_2",
                         "start_interface_3", "start_interface_4"},
     StopInterface |-> {"stop_interface_1", "stop_interface_2",
                        "stop_interface_3"}]

\* The teardown functions of these two are empty.
NoTeardown == {"version_1", "capabilities_1"}

ASSUME TdispAssumption ==
    /\ Classes \subseteq DOMAIN m_tdisp_test_case_funcs
    /\ MaxCases \in Nat
    /\ MaxGroups \in Nat
    /\ PortionLen \in Nat \ {0}
    /\ ReportMax \in Nat /\ MaxLength \in Nat

-----------------------------------------------------------------------------

TdiStates == {"UNLOCKED", "LOCKED", "RUN", "ERROR"}

VARIABLES
    pc,        \* what the runner or the case does next
    class,     \* the class whose group runs
    case,      \* the case that runs, or ran last
    step,      \* how many exchanges of its setup are done
    setup_success,  \* the cases whose static setup_success is true
    verdict,   \* the case's result from the assertions recorded so far
    ran,       \* cases run so far
    groups,    \* groups run so far
    tdi,       \* the state of the TDI
    keys,      \* the stream's keys in the device: none, or of which session
    secure,    \* the stream was brought up since the registers were reset
    lost,      \* history: an exchange of this case has failed
    dirty,     \* history: one failed, and no STOP was answered since
    before,    \* history: the TDI's state at the request under test
    report,    \* the report being fetched: offset, remainder, total; odd:
               \* history, the device sent what no report that fits can be
    fields     \* history: what the VERSION or CAPABILITIES under test held

validator == <<class, case, setup_success, ran, groups>>
device == <<tdi, keys, secure>>
history == <<lost, dirty, before, report, fields>>
vars == <<pc, class, case, step, setup_success, verdict, ran, groups, tdi,
          keys, secure, lost, dirty, before, report, fields>>

NoReport == [offset |-> 0, remainder |-> 0, total |-> 0, odd |-> FALSE]

\* The cases share one type invariant: the setup never runs past its script,
\* and a case in its run or its state check has exchanges left to make.
TypeOK ==
    /\ pc \in {"group", "case", "setup", "run", "check", "teardown", "hung"}
    /\ class \in Classes \cup {"none"}
    /\ case \in Cases \cup {"none"}
    /\ step \in Nat
    /\ pc = "setup" => step < Len(Script[case].setup)
    /\ pc = "run" => Script[case].request # "none"
    /\ pc = "check" => Script[case].after # "any"
    /\ setup_success \subseteq Cases \ NoTeardown
    /\ verdict \in {"NOT_TESTED", "PASS", "FAILED"}
    /\ ran \in 0..MaxCases
    /\ groups \in 0..MaxGroups
    /\ tdi \in TdiStates
    /\ keys \in {"none", "earlier", "session"}
    /\ secure \in BOOLEAN
    /\ lost \in BOOLEAN
    /\ dirty \in BOOLEAN
    /\ before \in TdiStates \cup {"none"}
    /\ report \in [offset : 0..ReportMax, remainder : 0..MaxLength,
                   total : 0..ReportMax, odd : BOOLEAN]
    /\ fields \in {"demanded", "optional", "other"}

\* main starts with the interface as the system left it, never used.
Init ==
    /\ pc = "group"
    /\ class = "none"
    /\ case = "none"
    /\ step = 0
    /\ setup_success = {}
    /\ verdict = "NOT_TESTED"
    /\ ran = 0
    /\ groups = 0
    /\ tdi = "UNLOCKED"
    /\ keys = "none"
    /\ secure = FALSE
    /\ lost = FALSE
    /\ dirty = FALSE
    /\ before = "none"
    /\ report = NoReport
    /\ fields = "demanded"

-----------------------------------------------------------------------------
(* The device: what it may answer to a request, and the state it goes to.  *)

Reply(a, s) == [answer |-> a, tdi |-> s]
Refuse(a) == {Reply(a, tdi)}
WrongState == Refuse("INVALID_INTERFACE_STATE")

LockReplies ==
    IF tdi # "UNLOCKED" THEN WrongState
    ELSE (IF keys # "none" THEN {Reply("LOCK_RSP", "LOCKED")} ELSE {})
         \cup (IF ~secure THEN Refuse("INVALID_REQUEST") ELSE {})

Reported == tdi \in {"LOCKED", "RUN"}

Replies(request) ==
    CASE request = "version" -> {Reply("VERSION", tdi)}
      [] request = "capabilities" -> {Reply("CAPABILITIES", tdi)}
      [] request = "state" -> {Reply("STATE", tdi)}
      [] request = "lock" -> LockReplies
      [] request = "report" ->
            IF Reported THEN {Reply("REPORT", tdi)} ELSE WrongState
      [] request = "report_beyond" ->
            IF Reported THEN Refuse("INVALID_REQUEST") ELSE WrongState
      [] request = "start" ->
            IF tdi = "LOCKED" THEN {Reply("START_RSP", "RUN")} ELSE WrongState
      [] request = "start_bad_nonce" ->
            IF tdi = "LOCKED" THEN Refuse("INVALID_NONCE") ELSE WrongState
      [] request = "stop" -> {Reply("STOP_RSP", "UNLOCKED")}

\* What the fields of an answer may hold that only one case looks into.  A
\* device may support a later version of TDISP beside 1.0, optional messages,
\* or other values than the case takes ("other").
Fields(answer) ==
    CASE answer = "VERSION" -> {"demanded", "other"}
      [] answer = "CAPABILITIES" -> {"demanded", "optional", "other"}
      [] OTHER -> {"demanded"}

Errors == {"INVALID_REQUEST", "INVALID_INTERFACE_STATE", "INVALID_NONCE"}

\* A locked or running TDI whose stream or configuration is touched may go
\* to ERROR.
Disturbed ==
    IF tdi \in {"LOCKED", "RUN"} THEN {tdi, "ERROR"} ELSE {tdi}

\* pci_tdisp_send_receive_data fails: the device has acted, or it has not.
Lose(request) ==
    /\ \E r \in Replies(request) : tdi' \in {tdi, r.tdi}
    /\ lost' = TRUE
    /\ dirty' = TRUE
    /\ UNCHANGED <<keys, secure>>

\* It succeeds with reply r.
Exchange(request, r) ==
    /\ r \in Replies(request)
    /\ tdi' = r.tdi
    /\ dirty' = (dirty /\ r.answer # "STOP_RSP")
    /\ UNCHANGED <<keys, secure, lost>>

-----------------------------------------------------------------------------
(* The groups: one SPDM session for the cases of one class.                *)

\* common_test_group_setup, when scanning and opening the ports go well and
\* the session comes up.  spdm_connect failing is an assertion (GroupHangs).
GroupSetup ==
    /\ pc = "group"
    /\ groups < MaxGroups
    /\ \E c \in Classes : class' = c
    /\ groups' = groups + 1
    /\ pc' = "case"
    /\ UNCHANGED <<case, step, setup_success, verdict, ran, device, history>>

\* A group whose setup returns false: its cases are not run.
GroupSkipped ==
    /\ pc = "group"
    /\ groups < MaxGroups
    /\ groups' = groups + 1
    /\ UNCHANGED <<pc, class, case, step, setup_success, verdict, ran, device,
                   history>>

GroupHangs ==
    /\ pc = "group"
    /\ groups < MaxGroups
    /\ pc' = "hung"
    /\ UNCHANGED <<validator, step, verdict, device, history>>

\* common_test_group_teardown ends the session; the device may drop its keys.
GroupTeardown ==
    /\ pc = "case"
    /\ pc' = "group"
    /\ class' = "none"
    /\ tdi' \in Disturbed
    /\ keys' \in {"none", IF keys = "none" THEN "none" ELSE "earlier"}
    /\ secure' = (secure /\ keys' # "none")
    /\ UNCHANGED <<case, step, setup_success, verdict, ran, groups, history>>

-----------------------------------------------------------------------------
(* One case: do_run_test_case with the setup, run and teardown functions   *)
(* of its file.                                                            *)

\* Where the run function starts: at the request under test, or at the state.
RunStart(c) == IF Script[c].request = "none" THEN "check" ELSE "run"
Begin(c) == IF Script[c].setup = <<>> THEN RunStart(c) ELSE "setup"

\* The configuration's enable function resets the registers of the stream in
\* both ports, then the case's setup is called.
BeginCase ==
    /\ pc = "case"
    /\ ran < MaxCases
    /\ \E c \in m_tdisp_test_case_funcs[class] : case' = c /\ pc' = Begin(c)
    /\ step' = 0
    /\ verdict' = "NOT_TESTED"
    /\ ran' = ran + 1
    /\ secure' = FALSE
    /\ tdi' \in Disturbed
    /\ lost' = FALSE
    /\ before' = "none"
    /\ report' = NoReport
    /\ fields' = "demanded"
    /\ UNCHANGED <<class, setup_success, groups, keys, dirty>>

\* The configuration is not supported, or enabling it fails: the case is not
\* run and its teardown is not called.
CaseNotRun ==
    /\ pc = "case"
    /\ ran < MaxCases
    /\ \E c \in m_tdisp_test_case_funcs[class] : case' = c
    /\ verdict' = "NOT_TESTED"
    /\ ran' = ran + 1
    /\ secure' \in {secure, FALSE}
    /\ tdi' \in Disturbed
    /\ lost' = FALSE
    /\ before' = "none"
    /\ report' = NoReport
    /\ fields' = "demanded"
    /\ UNCHANGED <<pc, class, step, setup_success, groups, keys, dirty>>

SetupStep == Script[case].setup[step + 1]
LastStep == step + 1 = Len(Script[case].setup)
Succeeds == setup_success' = setup_success \cup ({case} \ NoTeardown)

\* Slip: the last exchange of the setup is counted one too late.
SetupGoesOnLate ==
    /\ step' = step + 1
    /\ IF step = Len(Script[case].setup)
         THEN Succeeds /\ pc' = RunStart(case)
         ELSE UNCHANGED <<setup_success, pc>>

\* The setup goes on to its next exchange, or returns true and the run starts.
SetupGoesOn ==
    /\ step' = step + 1
    /\ IF LastStep
         THEN Succeeds /\ pc' = RunStart(case)
         ELSE UNCHANGED <<setup_success, pc>>

\* The setup returns false: the run is skipped, and what teardown does depends
\* on what setup_success holds from an earlier run of the same case.
SetupFails == pc' = "teardown" /\ UNCHANGED <<step, setup_success>>

\* Slip: response_size is not compared.
SetupExchangeUnsized ==
    /\ pc = "setup"
    /\ SetupStep \notin {"ide", "state"}
    /\ \E r \in Replies(SetupStep) : Exchange(SetupStep, r) /\ SetupGoesOn
    /\ UNCHANGED <<class, case, verdict, ran, groups, before, report, fields>>

\* A setup exchange that must be answered by its response: an ERROR message
\* has another size and ends the setup.
SetupExchange ==
    /\ pc = "setup"
    /\ SetupStep \notin {"ide", "state"}
    /\ \E r \in Replies(SetupStep) :
         /\ Exchange(SetupStep, r)
         /\ IF r.answer \in Errors THEN SetupFails ELSE SetupGoesOn
    /\ UNCHANGED <<class, case, verdict, ran, groups, before, report, fields>>

\* Slip: the state read by the setup is not looked at.
SetupStateUnchecked ==
    /\ pc = "setup"
    /\ SetupStep = "state"
    /\ SetupGoesOn
    /\ UNCHANGED <<class, case, verdict, ran, groups, device, history>>

\* GET_DEVICE_INTERFACE_STATE in the setup: in another state than the one the
\* case is about the setup returns true at once and the case is skipped.
SetupState ==
    /\ pc = "setup"
    /\ SetupStep = "state"
    /\ IF tdi = Script[case].state
         THEN SetupGoesOn
         ELSE pc' = "teardown" /\ Succeeds /\ UNCHANGED step
    /\ UNCHANGED <<class, case, verdict, ran, groups, device, history>>

SetupLost ==
    /\ pc = "setup"
    /\ SetupStep # "ide"
    /\ Lose(SetupStep)
    /\ SetupFails
    /\ UNCHANGED <<class, case, verdict, ran, groups, before, report, fields>>

\* tdisp_test_set_ide_stream succeeds: keys programmed, stream enabled.
SetIdeStream ==
    /\ pc = "setup"
    /\ SetupStep = "ide"
    /\ keys' = "session"
    /\ secure' = TRUE
    /\ tdi' \in Disturbed
    /\ SetupGoesOn
    /\ UNCHANGED <<class, case, verdict, ran, groups, history>>

\* It fails somewhere: the device may have some of the keys.  Only the first
\* LockInterface case stores the result in setup_success.
SetIdeStreamFails ==
    /\ pc = "setup"
    /\ SetupStep = "ide"
    /\ keys' \in {keys, "session"}
    /\ secure' \in {secure, keys' = "session"}
    /\ tdi' \in Disturbed
    /\ pc' = "teardown"
    /\ setup_success' = IF case = "lock_interface_1"
                          THEN setup_success \ {case} ELSE setup_success
    /\ UNCHANGED <<class, case, step, verdict, ran, groups, history>>

\* After the request under test: the state is read if the case looks at it,
\* and not at all when the answer had the wrong size.
AfterRequest(sized) ==
    IF sized /\ Script[case].after # "any" THEN "check" ELSE "teardown"

\* The state of the TDI at the first exchange of the run.
SeesState == before' = IF before = "none" THEN tdi ELSE before

\* The cases that fetch the whole report.
Portioned == Script[case].answer = "REPORT"

\* An ERROR message has another size than a response, so the check of the
\* size comes before that of the error code.  Version 1 takes one version
\* only, 1.0; Capabilities 1 takes exactly the seven mandatory messages, no
\* capability or flag beyond the known ones, 52 address bits or more and some
\* requests outstanding.
RunRequest ==
    /\ pc = "run"
    /\ ~Portioned
    /\ LET req == Script[case].request
           expected == Script[case].answer
       IN \E r \in Replies(req) :
            /\ Exchange(req, r)
            /\ fields' \in Fields(r.answer)
            /\ verdict' = IF r.answer = expected /\ fields' = "demanded"
                            THEN "PASS" ELSE "FAILED"
            /\ pc' = AfterRequest(r.answer \in Errors <=> expected \in Errors)
    /\ SeesState
    /\ UNCHANGED <<validator, step, report>>

\* Slip: the offset is set to the length of the portion, not moved on by it.
OffsetAfterLast(portion) == portion

OffsetAfter(portion) == report.offset + portion

\* One turn of the loop of tdisp_test_get_interface_report.  The first
\* portion gives the length of the whole report, which must fit the buffer;
\* the later ones must agree with it.  An empty portion is recorded as a
\* failure, and the loop goes on.  After the last one DeviceReport 5 looks at
\* what it has: whether the counts in it add up to its length and its reserved
\* bits are clear (`sound`).
Portion(portion, remainder, sound) ==
    LET total == IF report.offset = 0 THEN portion + remainder ELSE report.total
        refused == IF report.offset = 0 THEN total > ReportMax
                   ELSE total # report.offset + portion + remainder
        bad == refused \/ portion = 0 \/ ~sound
    IN  /\ verdict' = IF bad \/ verdict = "FAILED" THEN "FAILED" ELSE "PASS"
        /\ pc' = IF refused THEN "teardown"
                 ELSE IF remainder # 0 THEN "run" ELSE AfterRequest(TRUE)
        /\ report' = IF refused THEN [report EXCEPT !.odd = TRUE]
                     ELSE [offset |-> OffsetAfter(portion),
                           remainder |-> remainder, total |-> total,
                           odd |-> report.odd \/ bad]

\* What is asked for: a full portion, or the remainder.
Asked == IF report.offset = 0 THEN PortionLen
         ELSE Min({report.remainder, PortionLen})

RunPortion ==
    /\ pc = "run"
    /\ Portioned
    /\ \E r \in Replies("report") :
         /\ Exchange("report", r)
         /\ IF r.answer \in Errors
            THEN verdict' = "FAILED" /\ pc' = "teardown" /\ UNCHANGED report
            ELSE \E portion \in 0..Asked, remainder \in 0..MaxLength,
                    sound \in BOOLEAN :
                    /\ sound \/ (case = "interface_report_5" /\ remainder = 0)
                    /\ Portion(portion, remainder, sound)
    /\ SeesState
    /\ UNCHANGED <<validator, step, fields>>

RunLost ==
    /\ pc = "run"
    /\ Lose(Script[case].request)
    /\ verdict' = "FAILED"
    /\ pc' = "teardown"
    /\ SeesState
    /\ UNCHANGED <<validator, step, report, fields>>

\* GET_DEVICE_INTERFACE_STATE in the run.
CheckState ==
    /\ pc = "check"
    /\ verdict' = IF tdi = Script[case].after /\ verdict # "FAILED"
                    THEN "PASS" ELSE "FAILED"
    /\ SeesState
    /\ pc' = "teardown"
    /\ UNCHANGED <<validator, step, device, lost, dirty, report, fields>>

CheckLost ==
    /\ pc = "check"
    /\ Lose("state")
    /\ verdict' = "FAILED"
    /\ SeesState
    /\ pc' = "teardown"
    /\ UNCHANGED <<validator, step, report, fields>>

\* The teardown of a case whose setup never succeeded sends nothing.
TeardownNothing ==
    /\ pc = "teardown"
    /\ case \notin setup_success
    /\ pc' = "case"
    /\ UNCHANGED <<validator, step, verdict, device, history>>

\* Slip: only a case that passed is released.
TeardownStopAfterPass ==
    /\ pc = "teardown"
    /\ case \in setup_success
    /\ pc' = "case"
    /\ IF verdict = "PASS"
         THEN \/ \E r \in Replies("stop") : Exchange("stop", r)
              \/ Lose("stop")
         ELSE UNCHANGED <<device, lost, dirty>>
    /\ UNCHANGED <<validator, step, verdict, before, report, fields>>

\* Otherwise it sends STOP_INTERFACE and ignores what comes back.
TeardownStop ==
    /\ pc = "teardown"
    /\ case \in setup_success
    /\ pc' = "case"
    /\ \/ \E r \in Replies("stop") : Exchange("stop", r)
       \/ Lose("stop")
    /\ UNCHANGED <<validator, step, verdict, before, report, fields>>

Next ==
    \/ GroupSetup \/ GroupSkipped \/ GroupHangs \/ GroupTeardown
    \/ BeginCase \/ CaseNotRun
    \/ SetupExchange \/ SetupState \/ SetupLost
    \/ SetIdeStream \/ SetIdeStreamFails
    \/ RunRequest \/ RunPortion \/ RunLost \/ CheckState \/ CheckLost
    \/ TeardownNothing \/ TeardownStop

Spec == Init /\ [][Next]_vars

\* The validator is one thread that keeps running; every exchange returns.
FairSpec == Spec /\ WF_vars(Next)

-----------------------------------------------------------------------------
(* Properties                                                              *)

\* Every case hands the interface back: between cases the TDI is unlocked,
\* whichever cases ran, were skipped or failed before, unless an exchange
\* failed and no STOP_INTERFACE has been answered since (setup and teardown
\* of the case files).
Released == pc \in {"case", "group"} /\ ~dirty => tdi = "UNLOCKED"

\* A case fails a device only for what the device has answered in it, never
\* for what earlier cases, groups and lost exchanges left behind: FAILED needs
\* an exchange of this case that failed, a report that cannot be one (an empty
\* portion, lengths that do not add up) or does not fit the buffer, a VERSION
\* or CAPABILITIES the case does not take, or one of the two cases that do not
\* establish their own precondition: DeviceState 1 on an interface an earlier
\* case left behind, and LockInterface 2 on a stream that already has keys.
\* A CAPABILITIES with optional messages is one TDISP allows, and is failed all
\* the same.  The TDI of the model goes to ERROR only when its stream or its
\* registers are touched.
NoFalseAlarm ==
    pc = "teardown" /\ verdict = "FAILED" =>
        \/ lost
        \/ report.odd
        \/ case = "version_1" /\ fields = "other"
        \/ case = "capabilities_1" /\ fields \in {"optional", "other"}
        \/ case = "interface_state_1" /\ dirty
        \/ case = "lock_interface_2" /\ keys # "none"

\* PASS is never earned in another state than the one the case is about: the
\* request under test was sent when the TDI was in the state the setup asked
\* for, although exchanges lie between (setup and run of the case files).
\* Once the run is over, a case about the report has all of it, put together
\* without a gap inside the buffer, as long as its first portion said.
PassMeansPrecondition ==
    verdict = "PASS" =>
        /\ Script[case].state # "any" => before = Script[case].state
        /\ Portioned /\ pc \in {"check", "teardown", "case"} =>
              /\ report.offset = report.total /\ report.total \in 1..ReportMax
              /\ ~report.odd

\* The fetching of the report ends, unless the device has sent something
\* that no report that fits can be; a device that keeps sending empty
\* portions with a remainder is asked forever
\* (the do-while of tdisp_test_get_interface_report).
ReportEnds == pc = "run" ~> pc # "run" \/ report.odd

-----------------------------------------------------------------------------
(* The inductive invariant: what the exchanges of a setup have established *)
(* when its run begins, and what the run keeps of it.                      *)

InCase == pc \in {"setup", "run", "check", "teardown"}
Row == Script[case]

\* The exchanges that move the TDI, and where a response to them leaves it.
Changing == {"lock", "start", "stop"}
Outcome == [lock |-> "LOCKED", start |-> "RUN", stop |-> "UNLOCKED"]

Unchanged(n) == \A i \in 1..n : Row.setup[i] \notin Changing
LastChange(i) ==
    /\ Row.setup[i] \in Changing
    /\ \A j \in 1..step : j > i => Row.setup[j] \notin Changing

\* The request under test is still to come, or under way in portions.
BeforeRequest == pc \in {"setup", "run"} \/ (pc = "check" /\ Row.request = "none")

\* A case runs in the group of its class, its run after the whole setup.
Control ==
    /\ pc = "case" \/ InCase => class \in Classes
    /\ InCase => case \in Cases
    /\ pc \in {"run", "check"} => step = Len(Row.setup)
    /\ pc \in {"run", "check"} => case \in setup_success \cup NoTeardown
    /\ pc \in {"setup", "run", "check"} => ~lost

\* The TDI is where the last exchange that moved it left it, whatever earlier
\* cases did; if there was none, it is unlocked unless they left it otherwise.
TdiKnown ==
    BeforeRequest =>
        /\ \A i \in 1..step : LastChange(i) => tdi = Outcome[Row.setup[i]]
        /\ Unchanged(step) /\ ~dirty => tdi = "UNLOCKED"
        /\ (\E i \in 1..step : Row.setup[i] = "state") => tdi = Row.state

\* The stream has this session's keys, and was brought up, by its exchange.
StreamKnown ==
    BeforeRequest =>
        IF \E i \in 1..step : Row.setup[i] = "ide"
          THEN keys = "session" /\ secure
          ELSE ~secure

\* A teardown that sends nothing has nothing to release.
NothingToRelease ==
    pc = "teardown" /\ case \notin setup_success /\ ~dirty => tdi = "UNLOCKED"

\* Why a device may be reported as failed, but for a lost exchange.
Excused ==
    \/ report.odd
    \/ case = "version_1" /\ fields = "other"
    \/ case = "capabilities_1" /\ fields \in {"optional", "other"}
    \/ case = "interface_state_1" /\ dirty
    \/ case = "lock_interface_2" /\ keys # "none"

\* A case that comes to its state check passes it, or is excused.
VerdictKnown ==
    /\ pc = "setup" => verdict = "NOT_TESTED"
    /\ pc = "run" /\ verdict = "FAILED" => Excused
    /\ pc = "check" => Excused \/ (tdi = Row.after /\ verdict # "FAILED")
    /\ pc = "check" /\ Row.request # "none" => verdict # "NOT_TESTED"

\* The run sees the state the setup asked for.
BeforeKnown ==
    /\ pc = "setup" => before = "none"
    /\ pc = "check" /\ Row.request = "none" => before = "none"
    /\ pc = "run" /\ verdict = "NOT_TESTED" => before = "none"
    /\ (pc = "run" /\ verdict # "NOT_TESTED") \/ pc = "check" =>
          (Row.state # "any" => before = Row.state)

\* The portions fetched so far and the remainder make up the report.
ReportKnown ==
    /\ report.offset + report.remainder = report.total
    /\ verdict = "NOT_TESTED" => report = NoReport
    /\ verdict = "PASS" /\ Portioned =>
          /\ ~report.odd /\ report.offset > 0
          /\ pc # "run" => report.remainder = 0

Inv ==
    /\ TypeOK /\ Control /\ TdiKnown /\ StreamKnown /\ NothingToRelease
    /\ VerdictKnown /\ BeforeKnown /\ ReportKnown
    /\ Released /\ NoFalseAlarm /\ PassMeansPrecondition
=============================================================================
