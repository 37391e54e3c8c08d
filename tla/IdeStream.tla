----------------------------- MODULE IdeStream ------------------------------
(***************************************************************************)
(* One selective or link IDE stream between a root port and a device, from *)
(* the cases that set it up, refresh its keys while it is live and tear it *)
(* down: setup_ide_stream and ide_key_switch_to (ide_km_common.c), the     *)
(* Full and KeyRefresh cases, pcie_ide_teardown_common, and the key/iv     *)
(* slot allocation and KCBAR programming of library/pcie_ide_lib.          *)
(*                                                                         *)
(* Directions are the device's: "RX" keys are the ones the root port sends *)
(* with.  A key is a number, fresh in every KEY_PROG.  The device and the  *)
(* hardware behind the root port's registers are external.  Any IDE-KM     *)
(* exchange can fail, and the device may have acted on a request whose     *)
(* answer never arrived.                                                   *)
(***************************************************************************)
EXTENDS Integers

CONSTANTS
    NumTriples,   \* key/iv slots of the root port, in groups of three
    MaxCases,     \* bound: test cases run one after another
    MaxOpens,     \* bound: streams that others open meanwhile
    Rounds        \* g_test_rounds; at a prompt, a bound on the refreshes

ASSUME IdeStreamAssumption ==
    /\ NumTriples \in Nat \ {0}
    /\ MaxCases \in Nat
    /\ MaxOpens \in Nat
    /\ Rounds \in Nat

VARIABLES
    pc,         \* where the validator is
    case,       \* the test case that runs
    auto,       \* g_test_rounds > 0 and g_test_interval > 0: no prompt
    ks,         \* the key set being set up or switched to
    mKeySet,    \* the key set that teardown stops
    dir, sub,   \* direction and substream of the next exchange
    k_set,      \* the three slots to program, k_set, k_set + 1, k_set + 2
    switching,  \* inside ide_key_switch_to
    rounds,     \* key refreshes of this case
    cases,      \* cases begun
    dirty,      \* history: a key switch or a KSetStop has failed
    nextKey,    \* the key the next KEY_PROG carries
    devKey,     \* device: keys by key set, direction, substream
    went,       \* device: key sets told to go and not stopped since
    act,        \* device: the key set each substream transmits with
    devEn,      \* device: stream enabled in its IDE capability
    slotKey,    \* root port: contents of the key slots, by direction
    keySet,     \* root port: slot numbers by key set, direction, substream
    ready,      \* root port: <<key set, direction>> pairs that are primed
    select,     \* root port: key_set_select
    rpEn,       \* root port: stream enabled in KCBAR and IDE capability
    others,     \* slot triples of the other streams that are enabled
    known,      \* history: those of them that were there when k_set was
                \* chosen and have not been closed since
    opens       \* streams opened by others so far

place == <<dir, sub>>
plan == <<case, auto, ks, mKeySet, switching, rounds, cases, dirty>>
dev == <<devKey, went, act, devEn>>
rp == <<slotKey, keySet, ready, select, rpEn>>
env == <<others, known, opens>>
vars == <<pc, place, plan, k_set, nextKey, dev, rp, env>>

Cases == {"full_1", "ks0", "ks1"}
KeySets == {0, 1}
NoKeySet == 2
Dirs == {"RX", "TX"}
Subs == 0 .. 2                      \* PR, NPR, CPL
Places == KeySets \X Dirs \X Subs
Triples == {3 * t : t \in 0 .. NumTriples - 1}
Slots == 0 .. 3 * NumTriples - 1

Steps == {"idle", "query", "prog", "prime", "go", "select", "enable_dev",
          "enable_rp", "secure", "run", "alloc", "disable_dev",
          "disable_rp", "stop"}

\* The stream carries traffic.
Live == devEn /\ rpEn

\* The key slots hold a key in another byte order than KEY_PROG carries it;
\* the register form of key k is written -k.
pcie_construct_rp_keys(k) == -k

\* What a slot holds that another stream has loaded.
Foreign == 1

-----------------------------------------------------------------------------
(***************************************************************************)
(* Steps common to setup and key switch.                                   *)
(***************************************************************************)
\* A failure ends the setup or the run function; teardown follows in both
\* cases.
Fail ==
    /\ pc' = "disable_dev"
    /\ dirty' = (dirty \/ switching)
    /\ UNCHANGED <<place, case, auto, ks, mKeySet, switching, rounds, cases>>

GoOn(p) == pc' = p /\ UNCHANGED <<place, plan>>

\* Slip: one substream too many.
AdvanceLate(p, d) ==
    /\ IF sub < 3 THEN pc' = pc /\ dir' = dir /\ sub' = sub + 1
                  ELSE pc' = p /\ dir' = d /\ sub' = 0
    /\ UNCHANGED plan

\* On to the next substream, or to step `p` in direction `d` after CPL.
Advance(p, d) ==
    /\ IF sub < 2 THEN pc' = pc /\ dir' = dir /\ sub' = sub + 1
                  ELSE pc' = p /\ dir' = d /\ sub' = 0
    /\ UNCHANGED plan

pci_ide_km_query ==
    /\ pc = "query"
    /\ \/ /\ pc' = "prog"
          /\ dir' = "RX"
          /\ sub' = 0
          /\ UNCHANGED plan
       \/ Fail
    /\ UNCHANGED <<k_set, nextKey, dev, rp, env>>

\* KEY_PROG reaches the device: the substream of that key set has to be told
\* to go again.
DeviceTakesKey ==
    /\ devKey' = [devKey EXCEPT ![<<ks, dir, sub>>] = nextKey]
    /\ went' = went \ {<<ks, dir, sub>>}
    /\ UNCHANGED <<act, devEn>>

\* The slot of this substream gets the key, the key set gets the slot, and
\* has to be primed again.
cfg_rootport_ide_keys ==
    /\ slotKey' = [slotKey EXCEPT ![<<dir, k_set + sub>>] =
                      pcie_construct_rp_keys(nextKey)]
    /\ keySet' = [keySet EXCEPT ![<<ks, dir, sub>>] = k_set + sub]
    /\ ready' = ready \ {<<ks, dir>>}
    /\ UNCHANGED <<select, rpEn>>

\* ide_km_key_prog: first the device, then, if it acknowledged with success,
\* the root port.
ide_km_key_prog ==
    /\ pc = "prog"
    /\ DeviceTakesKey
    /\ cfg_rootport_ide_keys
    /\ Advance("prime", dir)
    /\ nextKey' = nextKey + 1
    /\ UNCHANGED <<k_set, env>>

KeyProgFails ==
    /\ pc = "prog"
    /\ DeviceTakesKey \/ UNCHANGED dev
    /\ Fail
    /\ nextKey' = nextKey + 1
    /\ UNCHANGED <<k_set, rp, env>>

\* Priming one key set leaves the other one ready.
prime_rp_ide_key_set ==
    /\ pc = "prime"
    /\ ready' = ready \cup {<<ks, dir>>}
    /\ IF dir = "RX" THEN pc' = "prog" /\ dir' = "TX"
                     ELSE pc' = "go" /\ dir' = "RX"
    /\ sub' = 0
    /\ UNCHANGED <<plan, k_set, nextKey, dev, env>>
    /\ UNCHANGED <<slotKey, keySet, select, rpEn>>

DeviceGoes ==
    /\ went' = went \cup {<<ks, dir, sub>>}
    /\ act' = IF dir = "TX" THEN [act EXCEPT ![sub] = ks] ELSE act
    /\ UNCHANGED <<devKey, devEn>>

\* After the last KSetGo of direction RX the root port may switch; after the
\* last one of direction TX a new stream is enabled and a refreshed one is
\* looked at.
ide_km_key_set_go ==
    /\ pc = "go"
    /\ DeviceGoes
    /\ Advance(IF dir = "RX" THEN "select"
               ELSE IF switching THEN "secure" ELSE "enable_dev", "TX")
    /\ UNCHANGED <<k_set, nextKey, rp, env>>

KSetGoFails ==
    /\ pc = "go"
    /\ DeviceGoes \/ UNCHANGED dev
    /\ Fail
    /\ UNCHANGED <<k_set, nextKey, rp, env>>

set_rp_ide_key_set_select ==
    /\ pc = "select"
    /\ select' = ks
    /\ GoOn("go")
    /\ UNCHANGED <<slotKey, keySet, ready, rpEn>>
    /\ UNCHANGED <<k_set, nextKey, dev, env>>

EnableDevice ==
    /\ pc = "enable_dev"
    /\ devEn' = TRUE
    /\ GoOn("enable_rp")
    /\ UNCHANGED <<k_set, nextKey, devKey, went, act, rp, env>>

enable_rootport_ide_stream ==
    /\ pc = "enable_rp"
    /\ rpEn' = TRUE
    /\ GoOn("secure")
    /\ UNCHANGED <<slotKey, keySet, ready, select>>
    /\ UNCHANGED <<k_set, nextKey, dev, env>>

\* Slip: the key set of a finished switch is not remembered.
SecureForgetful ==
    /\ pc = "secure"
    /\ \/ /\ pc' = "run"
          /\ switching' = FALSE
          /\ UNCHANGED <<place, case, auto, ks, mKeySet, rounds, cases,
                         dirty>>
       \/ Fail
    /\ UNCHANGED <<k_set, nextKey, dev, rp, env>>

\* is_ide_stream_secure, on which the return of setup_ide_stream and of
\* ide_key_switch_to depends; mKeySet follows a switch that succeeded.
is_ide_stream_secure ==
    /\ pc = "secure"
    /\ \/ /\ pc' = "run"
          /\ mKeySet' = ks
          /\ switching' = FALSE
          /\ UNCHANGED <<place, case, auto, ks, rounds, cases, dirty>>
       \/ Fail
    /\ UNCHANGED <<k_set, nextKey, dev, rp, env>>

-----------------------------------------------------------------------------
(***************************************************************************)
(* The run functions.                                                      *)
(***************************************************************************)
\* The operator ends the Full case, or the refreshing; an unattended refresh
\* ends after g_test_rounds rounds.
OperatorQuits ==
    /\ pc = "run"
    /\ case = "full_1" \/ ~auto
    /\ GoOn("disable_dev")
    /\ UNCHANGED <<k_set, nextKey, dev, rp, env>>

RoundsDone ==
    /\ pc = "run"
    /\ case # "full_1"
    /\ auto
    /\ rounds >= Rounds
    /\ GoOn("disable_dev")
    /\ UNCHANGED <<k_set, nextKey, dev, rp, env>>

\* One more round: ide_key_switch_to the other key set, refused unless both
\* ends are enabled.
KeyRefresh ==
    /\ pc = "run"
    /\ case # "full_1"
    /\ rounds < Rounds
    /\ rounds' = rounds + 1
    /\ ks' = 1 - mKeySet
    /\ switching' = Live
    /\ pc' = IF Live THEN "alloc" ELSE "disable_dev"
    /\ UNCHANGED <<place, case, auto, mKeySet, cases, dirty>>
    /\ UNCHANGED <<k_set, nextKey, dev, rp, env>>

\* Slips: the walk over the KCBAR streams skips the stream that is being
\* refreshed, or sees no other one.
UsedTriplesOthersOnly == others

UsedTriplesOwnOnly ==
    IF rpEn THEN {(keySet[<<select, "RX", 0>>] \div 3) * 3} ELSE {}

\* key_iv_slot_usage_map: the triples of all enabled streams, by the PR slot
\* of the key set that each of them sends with.
UsedTriples ==
    others \cup (IF rpEn THEN {(keySet[<<select, "RX", 0>>] \div 3) * 3} ELSE {})

\* The map is a uint8_t, one bit for each triple.
SlotMapFits == NumTriples <= 8

FreeTriples == IF SlotMapFits THEN Triples \ UsedTriples ELSE {}

IsFirst(t, S) == t \in S /\ \A u \in S : t <= u

pcie_ide_alloc_slot_ids ==
    /\ pc = "alloc"
    /\ k_set' \in FreeTriples
    /\ IsFirst(k_set', FreeTriples)
    /\ pc' = "prog"
    /\ dir' = "RX"
    /\ sub' = 0
    /\ known' = others
    /\ UNCHANGED <<plan, nextKey, dev, rp, others, opens>>

\* No free slots: the operator quits, or closes other streams and retries.
AllocQuit ==
    /\ pc = "alloc"
    /\ FreeTriples = {}
    /\ Fail
    /\ UNCHANGED <<k_set, nextKey, dev, rp, env>>

\* Whoever runs another stream of the root port closes it, or opens one on
\* slots that no enabled stream uses and loads its keys there.  The code holds
\* no lock on the slots between choosing them and enabling the stream, nor
\* between two cases of a group, so this can happen at any step.
OtherCloses ==
    /\ \E t \in others : others' = others \ {t} /\ known' = known \ {t}
    /\ UNCHANGED <<pc, place, plan, k_set, nextKey, dev, rp, opens>>

OtherOpens ==
    /\ opens < MaxOpens
    /\ opens' = opens + 1
    /\ \E t \in Triples \ UsedTriples :
          /\ others' = others \cup {t}
          /\ slotKey' = [q \in Dirs \X Slots |->
                            IF q[2] \in t .. t + 2 THEN Foreign ELSE slotKey[q]]
    /\ UNCHANGED <<pc, place, plan, k_set, nextKey, dev, known>>
    /\ UNCHANGED <<keySet, ready, select, rpEn>>

-----------------------------------------------------------------------------
(***************************************************************************)
(* The frame of a case.                                                    *)
(***************************************************************************)
\* test_config_enable_common resets the stream's registers at both ends, then
\* the case's setup function runs.  Full uses key set 0 throughout.
BeginCase ==
    /\ pc = "idle"
    /\ cases < MaxCases
    /\ pc' = "query"
    /\ \E c \in Cases :
          /\ case' = c
          /\ mKeySet' = IF c = "ks1" THEN 1 ELSE 0
    /\ ks' = mKeySet'
    /\ switching' = FALSE
    /\ rounds' = 0
    /\ cases' = cases + 1
    /\ devEn' = FALSE
    /\ rpEn' = FALSE
    /\ keySet' = [p \in Places |-> 0]
    /\ ready' = {}
    /\ select' = NoKeySet
    /\ UNCHANGED <<place, auto, dirty, k_set, nextKey, devKey, went, act,
                   slotKey, env>>

\* pcie_ide_teardown_common: disable the device, then the root port, then
\* stop the six substreams of mKeySet until one of them fails.
DisableDevice ==
    /\ pc = "disable_dev"
    /\ devEn' = FALSE
    /\ GoOn("disable_rp")
    /\ UNCHANGED <<k_set, nextKey, devKey, went, act, rp, env>>

DisableRootPort ==
    /\ pc = "disable_rp"
    /\ rpEn' = FALSE
    /\ pc' = "stop"
    /\ dir' = "RX"
    /\ sub' = 0
    /\ UNCHANGED <<plan, slotKey, keySet, ready, select>>
    /\ UNCHANGED <<k_set, nextKey, dev, env>>

DeviceStops ==
    /\ went' = went \ {<<mKeySet, dir, sub>>}
    /\ act' = IF dir = "TX" /\ act[sub] = mKeySet
              THEN [act EXCEPT ![sub] = NoKeySet] ELSE act
    /\ UNCHANGED <<devKey, devEn>>

test_full_ide_km_key_set_stop ==
    /\ pc = "stop"
    /\ DeviceStops
    /\ IF dir = "RX" THEN Advance("stop", "TX") ELSE Advance("idle", "TX")
    /\ UNCHANGED <<k_set, nextKey, rp, env>>

\* Slip: teardown starts over when a KSetStop fails.
KSetStopRetries ==
    /\ pc = "stop"
    /\ DeviceStops \/ UNCHANGED dev
    /\ pc' = "disable_dev"
    /\ dirty' = TRUE
    /\ UNCHANGED <<place, case, auto, ks, mKeySet, switching, rounds, cases>>
    /\ UNCHANGED <<k_set, nextKey, rp, env>>

KSetStopFails ==
    /\ pc = "stop"
    /\ DeviceStops \/ UNCHANGED dev
    /\ pc' = "idle"
    /\ dirty' = TRUE
    /\ UNCHANGED <<place, case, auto, ks, mKeySet, switching, rounds, cases>>
    /\ UNCHANGED <<k_set, nextKey, rp, env>>

-----------------------------------------------------------------------------
\* The group's setup (init_root_port) found slots that no other stream uses.
\* They are k_set for every case of the group, until a key refresh looks for
\* others.
Init ==
    /\ others \in SUBSET Triples
    /\ known = others
    /\ opens = 0
    /\ rpEn = FALSE
    /\ devEn = FALSE
    /\ keySet = [p \in Places |-> 0]
    /\ select = NoKeySet
    /\ k_set \in FreeTriples
    /\ IsFirst(k_set, FreeTriples)
    /\ pc = "idle"
    /\ case = "full_1"
    /\ auto \in BOOLEAN
    /\ ks = 0
    /\ mKeySet = 0
    /\ dir = "RX"
    /\ sub = 0
    /\ switching = FALSE
    /\ rounds = 0
    /\ cases = 0
    /\ dirty = FALSE
    /\ nextKey = 1
    /\ devKey = [p \in Places |-> 0]
    /\ went = {}
    /\ act = [s \in Subs |-> NoKeySet]
    /\ slotKey = [p \in Dirs \X Slots |-> 0]
    /\ ready = {}

\* What the validator does without its operator.  An exchange ends, one way
\* or the other, because the DOE driver's loops do.
Validator ==
    \/ pci_ide_km_query \/ ide_km_key_prog \/ KeyProgFails
    \/ prime_rp_ide_key_set \/ ide_km_key_set_go \/ KSetGoFails
    \/ set_rp_ide_key_set_select \/ EnableDevice
    \/ enable_rootport_ide_stream \/ is_ide_stream_secure
    \/ RoundsDone \/ KeyRefresh \/ pcie_ide_alloc_slot_ids
    \/ DisableDevice \/ DisableRootPort
    \/ test_full_ide_km_key_set_stop \/ KSetStopFails

Next ==
    \/ Validator
    \/ BeginCase \/ OperatorQuits \/ AllocQuit \/ OtherCloses \/ OtherOpens

Spec == Init /\ [][Next]_vars

FairSpec == Spec /\ WF_vars(Validator)

-----------------------------------------------------------------------------
(***************************************************************************)
(* Properties.                                                             *)
(***************************************************************************)
\* The state is well formed: the substream counter of the KEY_PROG, KSetGo and
\* KSetStop loops stays within PR, NPR and CPL, and every slot number that is
\* written to a key set lies in the root port's KCBAR slots.
TypeOK ==
    /\ pc \in Steps
    /\ case \in Cases
    /\ auto \in BOOLEAN
    /\ ks \in KeySets
    /\ mKeySet \in KeySets
    /\ dir \in Dirs
    /\ sub \in Subs
    /\ k_set \in Triples
    /\ switching \in BOOLEAN
    /\ rounds \in Nat
    /\ cases \in Nat
    /\ dirty \in BOOLEAN
    /\ nextKey \in Nat \ {0}
    /\ devKey \in [Places -> Nat]
    /\ went \in SUBSET Places
    /\ act \in [Subs -> KeySets \cup {NoKeySet}]
    /\ devEn \in BOOLEAN
    /\ slotKey \in [Dirs \X Slots -> Int]
    /\ keySet \in [Places -> Slots]
    /\ ready \in SUBSET (KeySets \X Dirs)
    /\ select \in KeySets \cup {NoKeySet}
    /\ rpEn \in BOOLEAN
    /\ others \in SUBSET Triples
    /\ known \in SUBSET Triples
    /\ opens \in Nat

\* Both ends hold the same key for a substream of a key set, and the root
\* port has loaded it, unless another stream has since loaded its own into
\* that slot.
Keyed(k, d, s) ==
    /\ devKey[<<k, d, s>>] # 0
    /\ slotKey[<<d, keySet[<<k, d, s>>]>>]
          \in {pcie_construct_rp_keys(devKey[<<k, d, s>>]), Foreign}
    /\ <<k, d>> \in ready

\* While the stream carries traffic, through every step of a live key refresh
\* and after any failure inside it, the receiver can decrypt what the sender
\* sends: the root port sends with a key set that the device was told to go
\* with, the device transmits with a key set that the root port has primed,
\* and both ends hold the same key for it (the order KEY_PROG, prime, KSetGo
\* RX, key_set_select, KSetGo TX of ide_key_switch_to, and its use of other
\* slots than the live ones).  Only a slot that another stream has opened on,
\* which nothing in the code prevents, may hold something else.
TrafficKeys ==
    Live => \A s \in Subs :
        /\ select \in KeySets
        /\ Keyed(select, "RX", s)
        /\ <<select, "RX", s>> \in went
        /\ act[s] \in KeySets
        /\ Keyed(act[s], "TX", s)

\* Between cases, unless a key switch or a KSetStop failed, the device has no
\* substream left that was told to go with the key set in use: teardown stops
\* the key set the stream really runs on (the static mKeySet of
\* test_case_full_keyrefresh.c against key_set_select and the device), also
\* after a setup that failed half way.
Quiesced ==
    pc = "idle" /\ ~dirty =>
        /\ select \in {NoKeySet, mKeySet}
        /\ \A s \in Subs : act[s] = NoKeySet /\ <<mKeySet, "RX", s>> \notin went

\* No step writes a key slot of a stream that was enabled when the slots were
\* chosen (pcie_ide_alloc_slot_ids, "find free key/iv slots") and has stayed
\* so, for the first case of the group and for all that reuse its k_set.  A
\* stream that opens later, between init_root_port and a case or inside a
\* refresh, may get the same slots and is written over: the code does not look
\* again.
OthersUntouched ==
    [][\A t \in known' : \A d \in Dirs, s \in Subs :
           slotKey'[<<d, t + s>>] = slotKey[<<d, t + s>>]]_vars

(***************************************************************************)
(* What makes them inductive.                                              *)
(***************************************************************************)
SetUpSteps == {"query", "prog", "prime", "go", "select",
               "enable_dev", "enable_rp"}
TearDownSteps == {"disable_dev", "disable_rp", "stop", "idle"}
AfterProg == {"go", "select", "enable_dev", "enable_rp", "secure"}

\* A substream is programmed at both ends, in the slots of k_set.
Programmed(d, s) ==
    /\ keySet[<<ks, d, s>>] = k_set + s
    /\ devKey[<<ks, d, s>>] # 0
    /\ slotKey[<<d, k_set + s>>]
          \in {pcie_construct_rp_keys(devKey[<<ks, d, s>>]), Foreign}

\* Which end is enabled at which step.
Enables ==
    /\ pc \in SetUpSteps /\ ~switching => ~rpEn
    /\ pc \in {"enable_dev", "enable_rp", "query", "run"} => ~switching
    /\ pc = "alloc" => switching
    /\ switching /\ pc \notin TearDownSteps => Live /\ ks = 1 - mKeySet
    /\ ~switching /\ pc \in SetUpSteps \cup {"secure"} => ks = mKeySet
    /\ pc = "enable_rp" => devEn
    /\ pc \in {"secure", "run", "alloc"} => Live
    /\ pc \in {"disable_rp", "stop", "idle"} => ~devEn
    /\ pc \in {"stop", "idle"} => ~rpEn
    /\ pc = "select" => dir = "TX" /\ sub = 0

\* How far the six KEY_PROGs have come.
ProgProgress ==
    /\ pc = "prog" => \A s \in Subs : s < sub => Programmed(dir, s)
    /\ pc = "prime" => \A s \in Subs : Programmed(dir, s)
    /\ pc \in {"prog", "prime"} /\ dir = "TX" =>
          /\ \A s \in Subs : Programmed("RX", s)
          /\ <<ks, "RX">> \in ready
    /\ pc \in AfterProg =>
          /\ \A d \in Dirs, s \in Subs : Programmed(d, s)
          /\ \A d \in Dirs : <<ks, d>> \in ready

\* How far the six KSetGos have come.
GoProgress ==
    /\ pc = "go" /\ dir = "RX" =>
          \A s \in Subs : s < sub => <<ks, "RX", s>> \in went
    /\ pc \in AfterProg \ {"go"} \/ (pc = "go" /\ dir = "TX") =>
          \A s \in Subs : <<ks, "RX", s>> \in went
    /\ pc \in AfterProg \ {"go", "select"} \/ (pc = "go" /\ dir = "TX") =>
          select = ks
    /\ pc = "go" /\ dir = "TX" => \A s \in Subs : s < sub => act[s] = ks
    /\ pc \in {"enable_dev", "enable_rp", "secure"} =>
          \A s \in Subs : act[s] = ks

\* Before a refresh both ends run on mKeySet, in slots of one triple; while
\* the other key set is programmed they still do, in other slots than k_set.
OldKeySet ==
    /\ pc \in {"run", "alloc"} =>
          /\ select = mKeySet
          /\ \A s \in Subs : act[s] = mKeySet
          /\ \E t \in Triples : \A d \in Dirs, s \in Subs :
                keySet[<<mKeySet, d, s>>] = t + s
    /\ pc \in {"prog", "prime"} /\ switching =>
          /\ select = mKeySet
          /\ \A s \in Subs : act[s] = mKeySet
          /\ \A d \in Dirs, s, j \in Subs : keySet[<<mKeySet, d, s>>] # k_set + j

\* k_set never names slots of a stream that was there when it was chosen.
SlotsFree == known \subseteq others /\ k_set \notin known

\* How far the six KSetStops have come, and what there is to stop.
StopProgress ==
    /\ switching /\ pc \in TearDownSteps => dirty
    /\ ~dirty /\ ~switching =>
          /\ select \in {NoKeySet, mKeySet}
          /\ \A s \in Subs : act[s] \in {NoKeySet, mKeySet}
    /\ ~dirty /\ pc = "stop" =>
          /\ dir = "RX" => \A s \in Subs : s < sub => <<mKeySet, "RX", s>> \notin went
          /\ dir = "TX" => \A s \in Subs : <<mKeySet, "RX", s>> \notin went
          /\ dir = "TX" => \A s \in Subs : s < sub => act[s] = NoKeySet

Inv == /\ TypeOK /\ Enables /\ ProgProgress /\ GoProgress /\ OldKeySet
       /\ SlotsFree /\ StopProgress /\ TrafficKeys /\ Quiesced

\* An unattended KeyRefresh case comes to its end, or to the prompt that waits
\* for slots because every triple is in use, whatever the other streams do.
CaseEnds ==
    (pc # "idle" /\ auto /\ case # "full_1")
        ~> (pc = "idle" \/ (pc = "alloc" /\ FreeTriples = {}))
=============================================================================
