------------------------------- MODULE CxlIde -------------------------------
(***************************************************************************)
(* The link IDE stream of CXL.cachemem: the IdeStream and KeyRefresh cases *)
(* of cxl_ide_test_lib (cxl_ide_query_port_index, cxl_setup_ide_stream,    *)
(* cxl_teardown_ide_stream) over the KCBAR registers of the root port      *)
(* (cxl_ide_lib) and a device that follows CXL_IDE_KM.                     *)
(*                                                                         *)
(* Directions are the side's own: what the root port sends with its TX     *)
(* key the device decrypts with its RX key.  A key is a number, fresh      *)
(* whenever it is random.  An IV is the default one, one the device made   *)
(* with the usual first word ("made"), or with another first word ("odd"). *)
(* The device, and what the hardware does on StartTrigger and on an        *)
(* IDE.Start flit, are external.  Any exchange can fail, before or after   *)
(* the device has acted on it.                                             *)
(***************************************************************************)
EXTENDS Naturals, FiniteSets

CONSTANTS
    MaxPortIndex,   \* highest port index of the device, a uint8_t
    MaxGroups,      \* bound: groups set up, over all runs of the program
    MaxCases,       \* bound: cases begun, over all groups
    MaxRefreshes    \* bound: key refreshes the operator asks for in a case

ASSUME CxlIdeAssumption ==
    /\ MaxPortIndex \in 0 .. 255
    /\ MaxGroups \in Nat
    /\ MaxCases \in Nat
    /\ MaxRefreshes \in Nat

VARIABLES
    pc,           \* where the validator is
    case,         \* the case that runs
    setup,        \* caps of the device, configuration, the device's port
    dir,          \* direction of the next exchange, the device's
    index, last,  \* port_index and max_port_index of the query loop
    port_index,   \* lower_port.port->port_index
    key_refresh,  \* inside the setup function of a key refresh
    refreshes,    \* refreshes of this case
    verdict,      \* assertion recorded by the case
    groups, cases,
    nextKey,      \* the next random key
    buffer,       \* rx_key_buffer and tx_key_buffer, by direction
    useIv,        \* cxl_ide_km_iv_rx and cxl_ide_km_iv_tx
    rpReg,        \* root port: key and IV registers, by side
    rpValid,      \* root port: sides whose KeyValid bit is set
    rpEn,         \* root port: LinkEncEnable
    rpActive,     \* root port: keys in use, by side
    devPend,      \* device: keys programmed and not yet in use
    devArmed,     \* device: RX told to go, waits for IDE.Start
    devActive,    \* device: keys in use, by direction
    acked,        \* history: directions of this setup the device accepted
    apart,        \* history: directions torn apart (see LinkTrafficKeys)
    clean         \* history: the teardown of the last case went through

caseVars == <<case, setup, refreshes, verdict, groups, cases>>
queryVars == <<index, last, port_index>>
keyVars == <<nextKey, buffer, useIv>>
rp == <<rpReg, rpValid, rpEn, rpActive>>
dev == <<devPend, devArmed, devActive>>
history == <<acked, apart, clean>>
vars == <<pc, dir, key_refresh, caseVars, queryVars, keyVars, rp, dev,
          history>>

Dirs == {"RX", "TX"}
Peer(d) == IF d = "RX" THEN "TX" ELSE "RX"
Cases == {"IdeStream", "KeyRefresh"}
Ivs == {"default", "made", "odd"}
None == [key |-> 0, iv |-> "none"]
FixedKey(d) == IF d = "RX" THEN 1 ELSE 2    \* TEEIO_TEST_FIXED_xX_KEY_BYTE_VALUE
NoPort == MaxPortIndex + 1                  \* the device does not report itself

Setups == [keyGen : BOOLEAN, ivGen : BOOLEAN, stop : BOOLEAN,
           getKey : BOOLEAN, fixed : BOOLEAN, port : 0 .. NoPort]

\* cxl_ide_test_config_get_key_support: without it no case of the group runs.
get_key_support ==
    setup.getKey => (setup.keyGen /\ setup.ivGen) \/ setup.fixed

\* The exchange reaches the port under test.
Reaches == port_index = setup.port

-----------------------------------------------------------------------------
(***************************************************************************)
(* Groups and cases.                                                       *)
(***************************************************************************)
Init ==
    /\ pc = "down" /\ case = "IdeStream" /\ setup \in Setups
    /\ dir = "RX" /\ index = 0 /\ last = 0 /\ port_index = 0
    /\ key_refresh = FALSE /\ refreshes = 0 /\ verdict = "none"
    /\ groups = 0 /\ cases = 0
    /\ nextKey = 3
    /\ buffer = [d \in Dirs |-> None] /\ useIv = [d \in Dirs |-> "default"]
    /\ rpReg = [d \in Dirs |-> None] /\ rpValid = {} /\ rpEn = FALSE
    /\ rpActive = [d \in Dirs |-> None]
    /\ devPend = [d \in Dirs |-> None] /\ devArmed = FALSE
    /\ devActive = [d \in Dirs |-> None]
    /\ acked = {} /\ apart = {} /\ clean = TRUE

\* cxl_init_root_port clears the control bits and the key registers, but not
\* LinkEncEnable.
common_test_group_setup ==
    /\ pc = "down" /\ groups < MaxGroups
    /\ pc' = "idle"
    /\ groups' = groups + 1
    /\ rpValid' = {}
    /\ rpReg' = [d \in Dirs |-> None]
    /\ UNCHANGED <<dir, key_refresh, case, setup, refreshes, verdict, cases>>
    /\ UNCHANGED <<queryVars, keyVars, rpEn, rpActive, dev, history>>

\* A group setup that fails, before or after the root port was initialized,
\* runs no case and no teardown.
GroupSetupFails ==
    /\ pc = "down" /\ groups < MaxGroups
    /\ groups' = groups + 1
    /\ \/ rpValid' = {} /\ rpReg' = [d \in Dirs |-> None]
       \/ UNCHANGED <<rpValid, rpReg>>
    /\ UNCHANGED <<pc, dir, key_refresh, case, setup, refreshes, verdict>>
    /\ UNCHANGED <<cases, queryVars, keyVars, rpEn, rpActive, dev, history>>

common_test_group_teardown ==
    /\ pc = "idle"
    /\ pc' = "down"
    /\ rpValid' = {}
    /\ UNCHANGED <<dir, key_refresh, caseVars, queryVars, keyVars, rpReg>>
    /\ UNCHANGED <<rpEn, rpActive, dev, history>>

\* A failed TEEIO_ASSERT hangs the program; the operator ends it and starts
\* it again, and a new process has not found the port yet.
Restart ==
    /\ pc = "hung"
    /\ pc' = "down"
    /\ port_index' = 0
    /\ UNCHANGED <<dir, key_refresh, caseVars, index, last, keyVars, rp, dev>>
    /\ UNCHANGED history

\* A case begins with the query of the port index, and so does every key
\* refresh.
Query(refresh) ==
    /\ pc' = "query"
    /\ index' = 0 /\ last' = 0
    /\ key_refresh' = refresh
    /\ UNCHANGED <<dir, port_index, keyVars, rp, dev>>

BeginCase ==
    /\ pc = "idle" /\ cases < MaxCases /\ get_key_support
    /\ case' \in Cases
    /\ cases' = cases + 1
    /\ refreshes' = 0 /\ verdict' = "none"
    /\ Query(FALSE)
    /\ clean' = FALSE
    /\ UNCHANGED <<setup, groups, acked, apart>>

-----------------------------------------------------------------------------
(***************************************************************************)
(* cxl_ide_query_port_index.                                               *)
(***************************************************************************)
\* The setup function returned false.  In a key refresh that is recorded as
\* a failure; teardown follows in any case.
SetupFails ==
    /\ pc' = "teardown"
    /\ verdict' = IF key_refresh THEN "FAILED" ELSE verdict
    /\ UNCHANGED <<case, setup, refreshes, groups, cases>>

\* Slip: the same is recorded when the first setup does not find the port.
PortNotFoundPasses ==
    /\ pc' = "teardown"
    /\ verdict' = "PASS"
    /\ UNCHANGED <<case, setup, refreshes, groups, cases, dir, acked>>

\* The port was not found.  A key refresh leaves its loop before `res` is
\* assigned and records a pass.
PortNotFound ==
    /\ pc' = "teardown"
    /\ verdict' = IF key_refresh THEN "PASS" ELSE verdict
    /\ UNCHANGED <<case, setup, refreshes, groups, cases, dir, acked>>

PortFound ==
    /\ pc' = "generate"
    /\ dir' = "RX"
    /\ acked' = {}
    /\ UNCHANGED caseVars

\* Port 0: a match leaves port_index as it is, a query that fails leaves
\* max_port_index 0 and the loop is not entered.
QueryPort0 ==
    /\ pc = "query"
    /\ \/ setup.port = 0 /\ PortFound /\ UNCHANGED <<index, last>>
       \/ /\ setup.port # 0
          /\ pc' = "query_loop" /\ index' = 1 /\ last' = MaxPortIndex
          /\ UNCHANGED <<dir, caseVars, acked>>
       \/ PortNotFound /\ UNCHANGED <<index, last>>
    /\ UNCHANGED <<key_refresh, port_index, keyVars, rp, dev, apart, clean>>

\* Slip: max_port_index is taken for the number of ports and one.
QueryPortTooFar ==
    /\ pc = "query_loop"
    /\ \/ /\ index <= last + 1 /\ index = setup.port
          /\ port_index' = index
          /\ PortFound
          /\ UNCHANGED <<index, last>>
       \/ /\ index <= last + 1
          /\ index' = (index + 1) % 256
          /\ UNCHANGED <<pc, dir, caseVars, acked, port_index, last>>
       \/ index > last + 1 /\ PortNotFound /\ UNCHANGED queryVars
    /\ UNCHANGED <<key_refresh, keyVars, rp, dev, apart, clean>>

\* Slip: a query that fails or does not match is sent again.
QueryPortAgain ==
    /\ pc = "query_loop"
    /\ \/ /\ index <= last /\ index = setup.port
          /\ port_index' = index
          /\ PortFound
          /\ UNCHANGED <<index, last>>
       \/ /\ index <= last
          /\ index' = index
          /\ UNCHANGED <<pc, dir, caseVars, acked, port_index, last>>
       \/ index > last /\ PortNotFound /\ UNCHANGED queryVars
    /\ UNCHANGED <<key_refresh, keyVars, rp, dev, apart, clean>>

\* The other ports: a query that fails is passed over.
QueryPort ==
    /\ pc = "query_loop"
    /\ \/ /\ index <= last /\ index = setup.port
          /\ port_index' = index
          /\ PortFound
          /\ UNCHANGED <<index, last>>
       \/ /\ index <= last
          /\ index' = (index + 1) % 256
          /\ UNCHANGED <<pc, dir, caseVars, acked, port_index, last>>
       \/ index > last /\ PortNotFound /\ UNCHANGED queryVars
    /\ UNCHANGED <<key_refresh, keyVars, rp, dev, apart, clean>>

-----------------------------------------------------------------------------
(***************************************************************************)
(* cxl_setup_ide_stream.                                                   *)
(***************************************************************************)
\* GET_KEY is used for the device's TX keys when the device can make keys or
\* IVs and the configuration asks for it, and never with a fixed key.
Capable(c) == c /\ setup.getKey /\ ~setup.fixed
key_gen_capable == Capable(setup.keyGen)
iv_gen_capable == Capable(setup.ivGen)
UsesGetKey == dir = "TX" /\ (key_gen_capable \/ iv_gen_capable)

\* Slip: the IV of the device is kept whatever its first word.
IvToUseTrusting(iv) ==
    IF UsesGetKey /\ iv_gen_capable THEN iv ELSE "default"

\* The IV of GET_KEY is kept only with the first word the root port assumes.
IvToUse(iv) ==
    IF UsesGetKey /\ iv_gen_capable /\ iv = "made" THEN iv ELSE "default"

\* cxl_ide_generate_key, first for RX, then for TX.  `iv` is what the device
\* would answer to GET_KEY.
cxl_ide_generate_key ==
    /\ pc = "generate"
    /\ \E iv \in Ivs \ {"default"} :
          /\ buffer' = [buffer EXCEPT ![dir] =
                           [key |-> IF setup.fixed THEN FixedKey(dir)
                                    ELSE nextKey,
                            iv  |-> IvToUse(iv)]]
          /\ useIv' = [useIv EXCEPT ![dir] =
                          IF IvToUse(iv) = "default" THEN "default"
                                                     ELSE "initial"]
    /\ nextKey' = IF setup.fixed THEN nextKey ELSE nextKey + 1
    /\ pc' = IF dir = "RX" THEN "generate" ELSE "prog"
    /\ dir' = Peer(dir)
    /\ UNCHANGED <<key_refresh, caseVars, queryVars, rp, dev, history>>

\* The random number generator or GET_KEY fails.
GenerateFails ==
    /\ pc = "generate" /\ ~setup.fixed
    /\ SetupFails
    /\ UNCHANGED <<dir, key_refresh, queryVars, keyVars, rp, dev, history>>

Hang == pc' = "hung" /\ UNCHANGED dir

\* With the default IV the device builds the IV itself.
DeviceTakesKey ==
    devPend' = IF ~Reaches THEN devPend
               ELSE [devPend EXCEPT ![dir] =
                        [key |-> buffer[dir].key,
                         iv  |-> IF useIv[dir] = "default" THEN "default"
                                 ELSE buffer[dir].iv]]

\* KEY_PROG for RX, then for TX.  The status the device acknowledges with is
\* not looked at: a refused key goes unnoticed.
cxl_ide_km_key_prog ==
    /\ pc = "prog"
    /\ \/ DeviceTakesKey /\ acked' = acked \cup {dir}
       \/ UNCHANGED <<devPend, acked>>
    /\ pc' = IF dir = "RX" THEN "prog" ELSE "rp_keys"
    /\ dir' = Peer(dir)
    /\ UNCHANGED <<key_refresh, caseVars, queryVars, keyVars, rp>>
    /\ UNCHANGED <<devArmed, devActive, apart, clean>>

KeyProgFails ==
    /\ pc = "prog"
    /\ DeviceTakesKey \/ UNCHANGED devPend
    /\ Hang
    /\ UNCHANGED <<key_refresh, caseVars, queryVars, keyVars, rp>>
    /\ UNCHANGED <<devArmed, devActive, history>>

\* The registers have no room for the first word of the IV: the root port
\* takes it to be the usual one.
cxl_construct_rp_iv(iv) == IF iv = "odd" THEN "made" ELSE iv

\* The device's TX key goes to the RX registers of the root port and the
\* other way round.
cxl_cfg_rp_link_enc_key_iv ==
    /\ pc = "rp_keys"
    /\ rpReg' = [d \in Dirs |->
                    [key |-> buffer[Peer(d)].key,
                     iv  |-> cxl_construct_rp_iv(buffer[Peer(d)].iv)]]
    /\ pc' = "key_valid"
    /\ UNCHANGED <<dir, key_refresh, caseVars, queryVars, keyVars>>
    /\ UNCHANGED <<rpValid, rpEn, rpActive, dev, history>>

cxl_cfg_rp_txrx_key_valid ==
    /\ pc = "key_valid"
    /\ rpValid' = Dirs
    /\ pc' = "go"
    /\ UNCHANGED <<dir, key_refresh, caseVars, queryVars, keyVars>>
    /\ UNCHANGED <<rpReg, rpEn, rpActive, dev, history>>

\* KSetGo arms the device's RX if a key waits there, and moves its TX to the
\* key that waits, with an IDE.Start flit that the root port's RX follows
\* when its KeyValid bit is set.
DeviceGoes ==
    IF ~Reaches \/ devPend[dir] = None THEN UNCHANGED <<dev, rpValid, rpActive>>
    ELSE \/ /\ dir = "RX"
            /\ devArmed' = TRUE
            /\ UNCHANGED <<devPend, devActive, rpValid, rpActive>>
         \/ /\ dir = "TX"
            /\ devActive' = [devActive EXCEPT !["TX"] = devPend["TX"]]
            /\ devPend' = [devPend EXCEPT !["TX"] = None]
            /\ rpActive' = IF rpEn /\ "RX" \in rpValid
                           THEN [rpActive EXCEPT !["RX"] = rpReg["RX"]]
                           ELSE rpActive
            /\ rpValid' = IF rpEn THEN rpValid \ {"RX"} ELSE rpValid
            /\ UNCHANGED devArmed

\* The two ends of a direction are in step again after a switch for which
\* the device had accepted the key, and are not after one it had refused.
Switched(d) ==
    apart' = IF d \in acked THEN apart \ {d} ELSE apart \cup {d}

cxl_ide_km_key_set_go ==
    /\ pc = "go"
    /\ DeviceGoes
    /\ \/ /\ dir = "RX"
          /\ pc' = IF key_refresh THEN "trigger" ELSE "enable"
          /\ UNCHANGED apart
       \/ /\ dir = "TX"
          /\ pc' = "run"
          /\ Switched("TX")
    /\ UNCHANGED <<dir, key_refresh, caseVars, queryVars, keyVars>>
    /\ UNCHANGED <<rpReg, rpEn, acked, clean>>

KSetGoFails ==
    /\ pc = "go"
    /\ \/ DeviceGoes /\ (IF dir = "TX" THEN Switched("TX") ELSE UNCHANGED apart)
       \/ UNCHANGED <<dev, rpValid, rpActive, apart>>
    /\ Hang
    /\ UNCHANGED <<key_refresh, caseVars, queryVars, keyVars>>
    /\ UNCHANGED <<rpReg, rpEn, acked, clean>>

\* Skipped in a key refresh.
cxl_cfg_rp_linkenc_enable ==
    /\ pc = "enable"
    /\ rpEn' = TRUE
    /\ pc' = "trigger"
    /\ UNCHANGED <<dir, key_refresh, caseVars, queryVars, keyVars>>
    /\ UNCHANGED <<rpReg, rpValid, rpActive, dev, history>>

\* The root port takes its TX key from the registers and sends IDE.Start,
\* which an armed device follows.
cxl_cfg_rp_start_trigger ==
    /\ pc = "trigger"
    /\ LET starts == "TX" \in rpValid
           follows == starts /\ devArmed
       IN  /\ rpActive' = IF starts
                          THEN [rpActive EXCEPT !["TX"] = rpReg["TX"]]
                          ELSE rpActive
           /\ devActive' = IF follows
                           THEN [devActive EXCEPT !["RX"] = devPend["RX"]]
                           ELSE devActive
           /\ devPend' = IF follows THEN [devPend EXCEPT !["RX"] = None]
                         ELSE devPend
           /\ devArmed' = (devArmed /\ ~starts)
    /\ rpValid' = rpValid \ {"TX"}
    /\ Switched("RX")
    /\ pc' = "go"
    /\ dir' = "TX"
    /\ UNCHANGED <<key_refresh, caseVars, queryVars, keyVars, rpReg, rpEn>>
    /\ UNCHANGED <<acked, clean>>

-----------------------------------------------------------------------------
(***************************************************************************)
(* Run and teardown.                                                       *)
(***************************************************************************)
\* The operator goes on: the case is over, with a pass.  The registers are
\* printed but not looked at.
RunEnds ==
    /\ pc = "run"
    /\ pc' = "teardown"
    /\ verdict' = "PASS"
    /\ UNCHANGED <<case, setup, refreshes, groups, cases>>
    /\ UNCHANGED <<dir, key_refresh, queryVars, keyVars, rp, dev, history>>

KeyRefresh ==
    /\ pc = "run" /\ case = "KeyRefresh" /\ refreshes < MaxRefreshes
    /\ refreshes' = refreshes + 1
    /\ Query(TRUE)
    /\ UNCHANGED <<case, setup, verdict, groups, cases, history>>

\* KSetStop is sent only to a device that knows it.
cxl_teardown_ide_stream ==
    /\ pc = "teardown"
    /\ pc' = IF setup.stop THEN "stop" ELSE "rp_off"
    /\ dir' = "RX"
    /\ UNCHANGED <<key_refresh, caseVars, queryVars, keyVars, rp, dev>>
    /\ UNCHANGED history

DeviceStops ==
    IF ~Reaches THEN UNCHANGED dev
    ELSE /\ devActive' = [devActive EXCEPT ![dir] = None]
         /\ devPend' = [devPend EXCEPT ![dir] = None]
         /\ devArmed' = (devArmed /\ dir # "RX")

\* Slip: only RX is stopped.
StopRxOnly ==
    /\ pc = "stop"
    /\ DeviceStops
    /\ pc' = "rp_off"
    /\ dir' = Peer(dir)
    /\ UNCHANGED <<key_refresh, caseVars, queryVars, keyVars, rp, history>>

\* KSetStop for RX, then for TX.
cxl_ide_km_key_set_stop ==
    /\ pc = "stop"
    /\ DeviceStops
    /\ pc' = IF dir = "RX" THEN "stop" ELSE "rp_off"
    /\ dir' = Peer(dir)
    /\ UNCHANGED <<key_refresh, caseVars, queryVars, keyVars, rp, history>>

\* The first KSetStop that fails ends the teardown: the root port stays on.
KSetStopFails ==
    /\ pc = "stop"
    /\ DeviceStops \/ UNCHANGED dev
    /\ pc' = "idle"
    /\ apart' = Dirs
    /\ UNCHANGED <<dir, key_refresh, caseVars, queryVars, keyVars, rp>>
    /\ UNCHANGED <<acked, clean>>

\* The insecure-state bits and LinkEncEnable: the root port forgets its keys.
\* A device that was not stopped still has its own.  The two insecure-state
\* bits stay set until the next group setup clears the register; what they do
\* to a link that a later case of the group starts is up to the hardware and
\* not modelled.
RootPortOff ==
    /\ pc = "rp_off"
    /\ rpActive' = [d \in Dirs |-> None]
    /\ rpEn' = FALSE
    /\ apart' = {d \in Dirs : devActive[d] # None}
    /\ clean' = TRUE
    /\ pc' = "idle"
    /\ UNCHANGED <<dir, key_refresh, caseVars, queryVars, keyVars>>
    /\ UNCHANGED <<rpReg, rpValid, dev, acked>>

-----------------------------------------------------------------------------
Step ==
    \/ QueryPort0 \/ QueryPort
    \/ cxl_ide_generate_key \/ GenerateFails
    \/ cxl_ide_km_key_prog \/ KeyProgFails
    \/ cxl_cfg_rp_link_enc_key_iv \/ cxl_cfg_rp_txrx_key_valid
    \/ cxl_ide_km_key_set_go \/ KSetGoFails
    \/ cxl_cfg_rp_linkenc_enable \/ cxl_cfg_rp_start_trigger
    \/ RunEnds \/ KeyRefresh
    \/ cxl_teardown_ide_stream
    \/ cxl_ide_km_key_set_stop \/ KSetStopFails \/ RootPortOff

Next ==
    \/ common_test_group_setup \/ GroupSetupFails
    \/ common_test_group_teardown \/ Restart
    \/ BeginCase
    \/ Step

Spec == Init /\ [][Next]_vars

\* The program is single-threaded and every library call returns, also from
\* an exchange that times out; at a prompt the operator presses a key.
FairSpec == Spec /\ WF_vars(Step)

-----------------------------------------------------------------------------
(***************************************************************************)
(* Properties.                                                             *)
(***************************************************************************)
Keys == [key : Nat, iv : Ivs] \cup {None}

Steps == {"down", "idle", "query", "query_loop", "generate", "prog",
          "rp_keys", "key_valid", "go", "enable", "trigger", "run",
          "teardown", "stop", "rp_off", "hung"}

\* The state is well typed; in particular the uint8_t indices of the query
\* loop of cxl_ide_query_port_index stay in range and RX is armed only for a
\* key that was programmed.
TypeOK ==
    /\ pc \in Steps /\ case \in Cases /\ setup \in Setups /\ dir \in Dirs
    /\ index \in 0 .. MaxPortIndex + 1 /\ last \in {0, MaxPortIndex}
    /\ port_index \in 0 .. MaxPortIndex
    /\ key_refresh \in BOOLEAN /\ refreshes \in 0 .. MaxRefreshes
    /\ verdict \in {"none", "PASS", "FAILED"}
    /\ groups \in 0 .. MaxGroups /\ cases \in 0 .. MaxCases
    /\ nextKey \in Nat
    /\ buffer \in [Dirs -> Keys] /\ useIv \in [Dirs -> {"default", "initial"}]
    /\ rpReg \in [Dirs -> Keys] /\ rpValid \subseteq Dirs /\ rpEn \in BOOLEAN
    /\ rpActive \in [Dirs -> Keys]
    /\ devPend \in [Dirs -> Keys] /\ devArmed \in BOOLEAN
    /\ devArmed => devPend["RX"] # None
    /\ devActive \in [Dirs -> Keys]
    /\ acked \subseteq Dirs /\ apart \subseteq Dirs /\ clean \in BOOLEAN

InTeardown == pc \in {"stop", "rp_off"}

\* Outside teardown, whatever one end sends encrypted the other end can
\* decrypt: same key, same IV.  It holds while a stream is set up, while its
\* keys are replaced under traffic, in a program that hangs and in the one
\* started after it; except in a direction that is `apart`, where the device
\* refused a KEY_PROG (which cxl_setup_ide_stream does not notice), or was
\* left on or off by a teardown that failed or that it does not support.
LinkTrafficKeys ==
    ~InTeardown =>
        /\ rpEn /\ rpActive["TX"] # None /\ "RX" \notin apart
              => devActive["RX"] = rpActive["TX"]
        /\ devActive["TX"] # None /\ "TX" \notin apart
              => rpEn /\ rpActive["RX"] = devActive["TX"]

\* After a teardown that went through, the root port is off and forgets its
\* keys, and so is a device that knows KSetStop, if the port index is right.
LinkQuiesced ==
    pc = "idle" /\ clean =>
        /\ ~rpEn /\ \A d \in Dirs : rpActive[d] = None
        /\ setup.stop /\ Reaches => \A d \in Dirs : devActive[d] = None

BothActive ==
    /\ rpEn
    /\ \A d \in Dirs : devActive[d] # None /\ rpActive[Peer(d)] = devActive[d]

\* A case passes only with the stream on and both directions in step, be it
\* that the last refresh did not find the port, unless the device refused a
\* key.
PassMeansActive == pc = "teardown" /\ verdict = "PASS" /\ apart = {} => BothActive

\* What test_case_full.c says where the run function begins, "Now ide stream
\* shall be in secure state": a case that passes had an active stream.
StreamSecure == pc = "teardown" /\ verdict = "PASS" => BothActive

\* Every case that begins comes to its end, or hangs in a failed assertion;
\* the query loop of cxl_ide_query_port_index ends as long as max_port_index
\* is less than 255.
LinkCaseEnds == pc = "query" ~> pc \in {"idle", "hung"}

-----------------------------------------------------------------------------
(***************************************************************************)
(* The inductive invariant: what the setup has done at each of its steps.  *)
(***************************************************************************)
QuerySteps == {"query", "query_loop"}
KeySteps == {"generate", "prog", "rp_keys", "key_valid", "go", "enable",
             "trigger"}

\* The KSetGo for the device's TX is next: its RX is switched already.
HalfSwitched == pc = "go" /\ dir = "TX"

\* Keys are programmed only into a port that was found, and the loop over
\* the directions is at RX where it does not run.
PortKnown ==
    /\ port_index \in {0, setup.port}
    /\ pc \in KeySteps \cup {"run"} => Reaches
    /\ pc \in {"rp_keys", "key_valid", "enable", "trigger"} => dir = "RX"
    /\ pc = "query_loop" => last = MaxPortIndex

\* The first setup turns the root port on before any of its keys is in use,
\* and a refresh finds it on.
LinkEnabled ==
    /\ ~rpEn => \A d \in Dirs : rpActive[d] = None
    /\ pc \in {"trigger", "run"} \/ HalfSwitched => rpEn
    /\ key_refresh /\ pc \in QuerySteps \cup KeySteps => rpEn

\* The IV of a generated key is one both ends build alike.
Generated ==
    /\ \A d \in Dirs : /\ buffer[d].iv # "odd"
                       /\ useIv[d] = "initial" <=> buffer[d].iv = "made"
    /\ pc = "generate" /\ dir = "TX" => buffer["RX"].iv # "none"
    /\ pc \in KeySteps \ {"generate"} => \A d \in Dirs : buffer[d].iv # "none"

\* A key that the device accepted waits there until the switch.
Programmed ==
    /\ pc = "generate" => acked = {}
    /\ pc = "prog" => acked \subseteq (IF dir = "RX" THEN {} ELSE {"RX"})
    /\ pc \in KeySteps =>
          \A d \in acked : devPend[d] = buffer[d] \/ (HalfSwitched /\ d = "RX")
    /\ pc \in {"enable", "trigger"} /\ "RX" \in acked => devArmed

\* The root port holds the same keys, valid until they are in use.
Registers ==
    /\ pc \in {"key_valid", "go", "enable", "trigger"} =>
          \A d \in Dirs : rpReg[d] = buffer[Peer(d)]
    /\ pc \in {"go", "enable", "trigger"} =>
          /\ "RX" \in rpValid
          /\ HalfSwitched \/ "TX" \in rpValid

\* Both ends of the device's RX hold a key after its switch, and both ends
\* of both directions while the stream runs.
Switches ==
    /\ HalfSwitched /\ "RX" \notin apart =>
          devActive["RX"] # None /\ rpActive["TX"] = devActive["RX"]
    /\ pc = "run" \/ (key_refresh /\ pc \in QuerySteps) =>
          (apart = {} => BothActive)
    /\ pc \in QuerySteps \cup KeySteps \cup {"run"} => verdict = "none"

\* Teardown has stopped the directions it is past.
Stopped ==
    Reaches => /\ pc = "stop" /\ dir = "TX" => devActive["RX"] = None
               /\ pc = "rp_off" /\ setup.stop =>
                     \A d \in Dirs : devActive[d] = None

\* What a teardown that went through left stays so until the next case.
StaysClean ==
    clean => /\ pc \in {"down", "idle"}
             /\ ~rpEn
             /\ setup.stop /\ Reaches => \A d \in Dirs : devActive[d] = None

Inv ==
    /\ TypeOK /\ PortKnown /\ LinkEnabled /\ Generated /\ Programmed
    /\ Registers /\ Switches /\ Stopped /\ StaysClean
    /\ LinkTrafficKeys /\ LinkQuiesced /\ PassMeansActive

=============================================================================
