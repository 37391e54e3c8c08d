----------------------------- MODULE PcieGroup ------------------------------
(***************************************************************************)
(* Setup and teardown of the pcie-ide test groups, one group after the     *)
(* other as the runner calls them: the bus scan, opening the two ports,    *)
(* DOE discovery, the SPDM connection with certificates, session and       *)
(* measurements, and the IDE-KM query for the port index                   *)
(* (pcie_ide_test_lib/test_group/test_group.c, pcie_ide.c, scan_pcie.c,    *)
(* intel_rp_pcie.c, pcie_helper.c, spdmlib/spdm.c).                        *)
(*                                                                         *)
(* What outlives a group is here in full: open files, the device table,    *)
(* the two globals through which every DOE access goes, heap blocks, and   *)
(* the sessions the devices hold.  Every call that reads hardware or talks *)
(* to the device may fail.  A failed setup is not followed by a teardown:  *)
(* do_run_test_group skips it.                                             *)
(***************************************************************************)
EXTENDS Integers, Sequences, FiniteSets, FiniteSetsExt

CONSTANTS
    Plan,        \* Plan[g]: the endpoint of the topology that group g uses
    Hops,        \* switch ports between the root port and an endpoint
    TableSize,   \* MAX_SUPPORT_DEVICE_NUM
    MaxDoe,      \* DOE instances a device has at most
    IndexWrap,   \* 2^8: port indices are uint8_t
    MaxBlock,    \* the last measurement index asked for (0xFE)
    MaxNumber    \* bound: measurement blocks a device says it has

Groups == 1 .. Len(Plan)
Endpoints == {Plan[g] : g \in Groups}

ASSUME GroupAssumption ==
    /\ Plan \in Seq(Endpoints) \ {<<>>}
    /\ \A n \in {Hops, TableSize, MaxDoe, MaxNumber} : n \in Nat
    /\ IndexWrap \in Nat \ {0, 1}
    /\ MaxBlock \in Nat \ {0}

RootPort == "root"
ASSUME RootAssumption == RootPort \notin Endpoints

FirstFd == 3    \* 0, 1 and 2 are the standard streams
Fds == FirstFd .. FirstFd + 5 * Len(Plan)
NoFile == [kind |-> "none", port |-> RootPort, group |-> 0]
Kinds == {"dev", "host", "keyp", "mem"}
Files == [kind : Kinds, port : Endpoints \cup {RootPort}, group : Groups]
NoEntry == [fd |-> 0, kind |-> "none", port |-> RootPort]

VARIABLES
    group,       \* the group the runner is at
    pc,          \* what it does
    outcome,     \* outcome[g]: how group g went
    step,        \* hops scanned, DOE instances tried, or blocks asked for
    context,     \* the group context
    file,        \* file[fd]: what is open under fd
    table,       \* devices of pcie_helper.c
    m_dev_fp,    \* the file every DOE access uses
    doe,         \* g_doe_extended_offset, as the number of the instance
    answered,    \* history: the instance that answered the discovery
    heap,        \* blocks not freed: <<g, "context">> and <<g, "scratch">>
    requested,   \* m_requested_spdm_version
    meas,        \* the measurement loop
    km,          \* the IDE-KM query loop, and the device's numbering
    sessions     \* <<e, g>>: device e holds a session that group g began

files == <<file, table, m_dev_fp, doe, answered>>
spdm == <<heap, meas, km, sessions>>
vars == <<group, pc, outcome, step, context, file, table, m_dev_fp, doe,
          answered, heap, requested, meas, km, sessions>>

NoContext == [dev |-> 0, host |-> 0, kcbar |-> 0, spdm |-> FALSE,
              lowSegment |-> FALSE, upSegment |-> FALSE, index |-> 0]
NoMeas == [number |-> 0, received |-> 0, sign |-> FALSE, signed |-> FALSE]
NoKm == [index |-> 0, max |-> 0, own |-> 0, found |-> FALSE]

ScanSteps == {"scan"}
PortSteps == {"open_dev", "doe", "dev_stream", "open_root", "keyp",
              "root_stream"}
SpdmSteps == {"init", "cert", "session", "meas_all", "meas_number",
              "meas_one", "index"}
SetupSteps == ScanSteps \cup PortSteps \cup SpdmSteps
TeardownSteps == {"stop", "close_dev", "close_root"}
Pcs == SetupSteps \cup TeardownSteps \cup {"idle", "ready", "hung"}

-----------------------------------------------------------------------------
(* Files and the device table.                                             *)

Endpoint == Plan[group]
NextFd == Min({fd \in Fds : file[fd] = NoFile})
Opened(f, fd, kind, port) ==
    [f EXCEPT ![fd] = [kind |-> kind, port |-> port, group |-> group]]
Closed(f, fd) == [f EXCEPT ![fd] = NoFile]

\* set_deivce_info stops at the first slot that is free or has this
\* descriptor; in the second case it asserts that the names are the same,
\* which TableTrue shows (the slot it takes is free).
SlotsFor(fd) == {i \in 1 .. TableSize : table[i].fd \in {0, fd}}
set_deivce_info(fd, kind, port) ==
    IF SlotsFor(fd) = {} THEN table
    ELSE [table EXCEPT ![Min(SlotsFor(fd))] =
            [fd |-> fd, kind |-> kind, port |-> port]]

\* unset_device_info clears the first slot with this descriptor.
unset_device_info(fd) ==
    LET at == {i \in 1 .. TableSize : table[i].fd = fd}
    IN  IF at = {} THEN table ELSE [table EXCEPT ![Min(at)] = NoEntry]

\* Slip: the failure path closes the file and leaves its table entry.
CloseOnly(fd) ==
    /\ file' = Closed(file, fd)
    /\ table' = table

CloseAndUnset(fd) ==
    /\ file' = Closed(file, fd)
    /\ table' = unset_device_info(fd)

\* The device a DOE access reaches: the one behind m_dev_fp.
Target == {e \in Endpoints : \E fd \in Fds : /\ fd = m_dev_fp
                                             /\ file[fd].kind = "dev"
                                             /\ file[fd].port = e}

-----------------------------------------------------------------------------
(* The runner.                                                             *)

\* A group begins with a context of zeroes.
StartGroup ==
    /\ pc = "idle"
    /\ group < Len(Plan)
    /\ group' = group + 1
    /\ pc' = "scan"
    /\ step' = 0
    /\ context' = NoContext
    /\ meas' = NoMeas
    /\ km' = NoKm
    /\ UNCHANGED <<outcome, files, heap, requested, sessions>>

\* common_test_group_setup returns FALSE and nothing is torn down.
SetupFailed ==
    /\ pc' = "idle"
    /\ outcome' = [outcome EXCEPT ![group] = "setup_failed"]

GoTo(next) ==
    /\ pc' = next
    /\ UNCHANGED outcome

\* A failed TEEIO_ASSERT never returns.
Hang == GoTo("hung")

\* The tests of the group run, and the runner calls the teardown.
RunTests ==
    /\ pc = "ready"
    /\ GoTo("stop")
    /\ UNCHANGED <<group, step, context, files, requested, spdm>>

-----------------------------------------------------------------------------
(* common_test_group_setup.                                                *)

\* scan_devices: the root port and the switch ports are bridges, looked for
\* on the secondary bus of the one before; each file is closed again.
ScanBridge(found) ==
    /\ pc = "scan"
    /\ step <= Hops
    /\ step' = step + 1
    /\ IF found THEN GoTo("scan") ELSE SetupFailed
    /\ UNCHANGED <<group, context, files, requested, spdm>>

\* scan_endpoint_at_bus: an endpoint that is not there is asserted.
ScanEndpoint(found) ==
    /\ pc = "scan"
    /\ step = Hops + 1
    /\ step' = 0
    /\ IF found THEN GoTo("open_dev") ELSE Hang
    /\ UNCHANGED <<group, context, files, requested, spdm>>

\* open_dev_port up to the IDE capability.
OpenDevNoFile ==
    /\ pc = "open_dev"
    /\ SetupFailed
    /\ UNCHANGED <<group, step, context, files, requested, spdm>>

OpenDevNoIde ==
    /\ pc = "open_dev"
    /\ SetupFailed
    /\ context' = [context EXCEPT !.dev = NextFd]
    /\ UNCHANGED <<group, step, files, requested, spdm>>

\* Slip: m_dev_fp is left alone when it is already set.
OpenDevKeepsFp ==
    /\ pc = "open_dev"
    /\ file' = Opened(file, NextFd, "dev", Endpoint)
    /\ table' = set_deivce_info(NextFd, "dev", Endpoint)
    /\ context' = [context EXCEPT !.dev = NextFd]
    /\ m_dev_fp' = IF m_dev_fp = 0 THEN NextFd ELSE m_dev_fp
    /\ step' = 1
    /\ GoTo("doe")
    /\ UNCHANGED <<group, doe, answered, requested, spdm>>

OpenDev ==
    /\ pc = "open_dev"
    /\ file' = Opened(file, NextFd, "dev", Endpoint)
    /\ table' = set_deivce_info(NextFd, "dev", Endpoint)
    /\ context' = [context EXCEPT !.dev = NextFd]
    /\ m_dev_fp' = NextFd
    /\ step' = 1
    /\ GoTo("doe")
    /\ UNCHANGED <<group, doe, answered, requested, spdm>>

\* A failure of open_dev_port or init_dev_port closes the port; the two
\* globals keep pointing at it.
DevFailed ==
    /\ CloseAndUnset(context.dev)
    /\ SetupFailed
    /\ UNCHANGED <<m_dev_fp, doe, answered>>

\* init_pci_doe: instance after instance is aborted and asked.  One whose
\* error stays, or that does not answer the discovery, is passed over.
DoeSilent ==
    /\ pc = "doe"
    /\ step <= MaxDoe
    /\ doe' = step
    /\ step' = step + 1
    /\ GoTo("doe")
    /\ UNCHANGED <<group, context, file, table, m_dev_fp, answered,
                   requested, spdm>>

DoeAnswers ==
    /\ pc = "doe"
    /\ step <= MaxDoe
    /\ doe' = step
    /\ answered' = step
    /\ GoTo("dev_stream")
    /\ UNCHANGED <<group, step, context, file, table, m_dev_fp, requested,
                   spdm>>

\* No instance is left, or there was none.
NoDoe ==
    /\ pc = "doe"
    /\ DevFailed
    /\ UNCHANGED <<group, step, context, requested, spdm>>

\* init_dev_port: a free stream block; the segment base is the port's
\* segment in flit mode with the segment captured.
InitDev(flit) ==
    /\ pc = "dev_stream"
    /\ context' = [context EXCEPT !.lowSegment = flit]
    /\ GoTo("open_root")
    /\ UNCHANGED <<group, step, files, requested, spdm>>

InitDevFailed ==
    /\ pc = "dev_stream"
    /\ DevFailed
    /\ UNCHANGED <<group, step, context, requested, spdm>>

\* open_root_port, first half: the configuration space and its IDE
\* capability.
OpenRootFailed ==
    /\ pc = "open_root"
    /\ SetupFailed
    /\ UNCHANGED <<group, step, context, files, requested, spdm>>

OpenRoot ==
    /\ pc = "open_root"
    /\ file' = Opened(file, NextFd, "host", RootPort)
    /\ table' = set_deivce_info(NextFd, "host", RootPort)
    /\ context' = [context EXCEPT !.host = NextFd]
    /\ GoTo("keyp")
    /\ UNCHANGED <<group, step, m_dev_fp, doe, answered, requested, spdm>>

\* parse_keyp_table: the table's own file is never closed.  A root port that
\* is not in the table fails; a table that does not parse, or a KCBAR that
\* cannot be mapped, is asserted.
KeypFailed(opened) ==
    /\ pc = "keyp"
    /\ context' = [context EXCEPT !.kcbar = -1]
    /\ file' = Closed(IF opened THEN Opened(file, NextFd, "keyp", RootPort)
                                ELSE file, context.host)
    /\ table' = unset_device_info(context.host)
    /\ SetupFailed
    /\ UNCHANGED <<group, step, m_dev_fp, doe, answered, requested, spdm>>

KeypHangs ==
    /\ pc = "keyp"
    /\ file' = Opened(file, NextFd, "keyp", RootPort)
    /\ Hang
    /\ UNCHANGED <<group, step, context, table, m_dev_fp, doe, answered,
                   requested, spdm>>

Keyp ==
    /\ pc = "keyp"
    /\ LET keyp == Opened(file, NextFd, "keyp", RootPort)
           mem == Min({fd \in Fds : keyp[fd] = NoFile})
       IN  /\ file' = Opened(keyp, mem, "mem", RootPort)
           /\ context' = [context EXCEPT !.kcbar = mem]
    /\ GoTo("root_stream")
    /\ UNCHANGED <<group, step, table, m_dev_fp, doe, answered, requested,
                   spdm>>

\* init_root_port: the stream id is free, there is a free block, the address
\* range can be read and there are key slots; else the configuration space
\* is closed and the KCBAR stays mapped.
InitRootFailed ==
    /\ pc = "root_stream"
    /\ CloseAndUnset(context.host)
    /\ SetupFailed
    /\ UNCHANGED <<group, step, context, m_dev_fp, doe, answered, requested,
                   spdm>>

\* The bridge above the endpoint is opened once more, with an assertion.
InitRootHangs ==
    /\ pc = "root_stream"
    /\ Hang
    /\ UNCHANGED <<group, step, context, files, requested, spdm>>

\* A root port in flit mode with its segment captured lends its segment to
\* a lower port that reports neither.
InitRoot(flit) ==
    /\ pc = "root_stream"
    /\ context' = [context EXCEPT !.upSegment = flit,
                                  !.lowSegment = @ \/ flit]
    /\ GoTo("init")
    /\ UNCHANGED <<group, step, files, requested, spdm>>

-----------------------------------------------------------------------------
(* The SPDM connection.  Its messages reach the device behind m_dev_fp.    *)

Blocks(g) == {<<g, "context">>, <<g, "scratch">>}

\* spdm_client_init: the version override comes first, and frees both blocks
\* when the version is not one libspdm knows.
ClientRefusesVersion ==
    /\ pc = "init"
    /\ requested # "auto"
    /\ SetupFailed
    /\ UNCHANGED <<group, step, context, files, requested, spdm>>

\* libspdm_init_connection fails: the context is freed, the scratch buffer
\* is not.
ClientFails ==
    /\ pc = "init"
    /\ requested # "unsupported"
    /\ heap' = heap \cup {<<group, "scratch">>}
    /\ SetupFailed
    /\ UNCHANGED <<group, step, context, files, requested, meas, km, sessions>>

ClientInit ==
    /\ pc = "init"
    /\ requested # "unsupported"
    /\ heap' = heap \cup Blocks(group)
    /\ GoTo("cert")
    /\ UNCHANGED <<group, step, context, files, requested, meas, km, sessions>>

\* spdm_connect: certificate chain of slot 0, then the session.
Certificate(ok) ==
    /\ pc = "cert"
    /\ IF ok THEN GoTo("session") ELSE SetupFailed
    /\ UNCHANGED <<group, step, context, files, requested, spdm>>

\* A session whose last answer is lost exists in the device only.
StartSession(ok) ==
    /\ pc = "session"
    /\ sessions' \in {sessions \cup (Target \X {group})} \cup
                     (IF ok THEN {} ELSE {sessions})
    /\ IF ok THEN Target # {} /\ GoTo("meas_all") ELSE SetupFailed
    /\ UNCHANGED <<group, step, context, files, requested, heap, meas, km>>

\* What comes after the measurements: the certificate chains of slots 1 to 7,
\* whose failures are ignored, and the group takes the session over.
Connected ==
    /\ context' = [context EXCEPT !.spdm = TRUE]
    /\ GoTo("index")

\* A device without MEAS_CAP has nothing to send.
MeasureNone ==
    /\ pc = "meas_all"
    /\ Connected
    /\ UNCHANGED <<group, step, files, requested, spdm>>

\* All blocks, signed, at once, or else one by one.
MeasureAll(ok) ==
    /\ pc = "meas_all"
    /\ IF ok
       THEN /\ meas' = [meas EXCEPT !.signed = TRUE]
            /\ Connected
       ELSE GoTo("meas_number") /\ UNCHANGED <<meas, context>>
    /\ UNCHANGED <<group, step, files, requested, heap, km, sessions>>

\* The number of blocks, for the loop that asks one by one.
MeasureNumber ==
    /\ pc = "meas_number"
    /\ \E n \in 0 .. MaxNumber : meas' = [meas EXCEPT !.number = n]
    /\ step' = 1
    /\ GoTo("meas_one")
    /\ UNCHANGED <<group, context, files, requested, heap, km, sessions>>

\* An error of the query, or of the loop below, fails spdm_connect: the
\* session stays open and the context is not freed.
MeasureFails ==
    /\ pc = "meas_number"
    /\ SetupFailed
    /\ UNCHANGED <<group, step, context, files, requested, spdm>>

\* Slip: every index is asked for.
LoopEndsLast == step > MaxBlock

LoopEnds == meas.received = meas.number \/ step > MaxBlock

\* Slip: the signature is asked for one block too late.
SignNowLate == meas.sign \/ meas.received = meas.number

\* The signature is asked for with the block that is expected to be the last,
\* and from then on.
SignNow == meas.sign \/ meas.received = meas.number - 1

\* A block arrives, or the device refuses this index, or the block does not
\* fit into what is left of the record.
MeasureBlock ==
    /\ pc = "meas_one"
    /\ ~LoopEnds
    /\ \/ /\ meas' = [meas EXCEPT !.sign = SignNow, !.signed = SignNow,
                                  !.received = @ + 1]
          /\ step' = step + 1
          /\ UNCHANGED <<pc, outcome>>
       \/ /\ meas' = [meas EXCEPT !.sign = SignNow]
          /\ step' = step + 1
          /\ UNCHANGED <<pc, outcome>>
       \/ SetupFailed /\ UNCHANGED <<meas, step>>
    /\ UNCHANGED <<group, context, files, requested, heap, km, sessions>>

MeasureDone ==
    /\ pc = "meas_one"
    /\ LoopEnds
    /\ IF meas.received = meas.number THEN Connected
                                      ELSE SetupFailed /\ UNCHANGED context
    /\ UNCHANGED <<group, step, files, requested, spdm>>

-----------------------------------------------------------------------------
(* ide_query_port_index.                                                   *)

\* The device numbers its ports 0..max; `own` is the number of the endpoint
\* under test, or more than max if the device does not say.
QueryPortIndex ==
    /\ pc = "index"
    /\ km = NoKm
    /\ \E max \in 0 .. IndexWrap - 1 : \E own \in 0 .. max + 1 :
          /\ km' = [index |-> 1, max |-> max, own |-> own, found |-> own = 0]
          /\ context' = [context EXCEPT !.index = 0]
          /\ IF own = 0 THEN GoTo("ready")
             ELSE IF max = 0 THEN SetupFailed
             ELSE GoTo("index")
    /\ UNCHANGED <<group, step, files, requested, heap, meas, sessions>>

\* Slip: one port too many.
MorePortsPastLast == km.index < km.max + 2

MorePorts == km.index < km.max + 1

QueryNextPort ==
    /\ pc = "index"
    /\ km # NoKm
    /\ MorePorts
    /\ km' = [km EXCEPT !.index = (@ + 1) % IndexWrap,
                        !.found = @ \/ km.index = km.own]
    /\ context' = [context EXCEPT !.index =
                     IF km.index = km.own THEN km.index ELSE @]
    /\ UNCHANGED <<group, pc, outcome, step, files, requested, heap, meas,
                   sessions>>

QueryEnds ==
    /\ pc = "index"
    /\ km # NoKm
    /\ ~MorePorts
    /\ IF km.found THEN GoTo("ready") ELSE SetupFailed
    /\ UNCHANGED <<group, step, context, files, requested, spdm>>

QueryFails ==
    /\ pc = "index"
    /\ SetupFailed
    /\ UNCHANGED <<group, step, context, files, requested, spdm>>

-----------------------------------------------------------------------------
(* common_test_group_teardown.                                             *)

\* Slip: the session is left to the device's timeout.
StopSessionNot(ok) ==
    /\ pc = "stop"
    /\ outcome' = [outcome EXCEPT ![group] = "ran"]
    /\ heap' = heap \ {<<group, "context">>}
    /\ context' = [context EXCEPT !.spdm = FALSE]
    /\ pc' = "close_dev"
    /\ UNCHANGED <<group, step, files, requested, meas, km, sessions>>

\* spdm_stop, whose failure is ignored, and the context is freed.
StopSession(ok) ==
    /\ pc = "stop"
    /\ sessions' \in {sessions \ (Target \X {group})} \cup
                     (IF ok THEN {} ELSE {sessions})
    /\ ok => Target # {}
    /\ outcome' = [outcome EXCEPT ![group] = IF ok THEN "ran" ELSE "stop_failed"]
    /\ heap' = heap \ {<<group, "context">>}
    /\ context' = [context EXCEPT !.spdm = FALSE]
    /\ pc' = "close_dev"
    /\ UNCHANGED <<group, step, files, requested, meas, km>>

close_dev_port ==
    /\ pc = "close_dev"
    /\ CloseAndUnset(context.dev)
    /\ context' = [context EXCEPT !.dev = 0]
    /\ m_dev_fp' = 0
    /\ doe' = 0
    /\ GoTo("close_root")
    /\ UNCHANGED <<group, step, answered, requested, spdm>>

close_root_port ==
    /\ pc = "close_root"
    /\ file' = Closed(Closed(file, context.kcbar), context.host)
    /\ table' = unset_device_info(context.host)
    /\ context' = [context EXCEPT !.kcbar = 0, !.host = 0]
    /\ GoTo("idle")
    /\ UNCHANGED <<group, step, m_dev_fp, doe, answered, requested, spdm>>

-----------------------------------------------------------------------------
Init ==
    /\ group = 0
    /\ pc = "idle"
    /\ outcome = [g \in Groups |-> "todo"]
    /\ step = 0
    /\ context = NoContext
    /\ file = [fd \in Fds |-> NoFile]
    /\ table = [i \in 1 .. TableSize |-> NoEntry]
    /\ m_dev_fp = 0
    /\ doe = 0
    /\ answered = 0
    /\ heap = {}
    /\ requested \in {"auto", "supported", "unsupported"}
    /\ meas = NoMeas
    /\ km = NoKm
    /\ sessions = {}

OpenPorts ==
    \/ \E found \in BOOLEAN : ScanBridge(found) \/ ScanEndpoint(found)
    \/ OpenDevNoFile \/ OpenDevNoIde \/ OpenDev
    \/ DoeSilent \/ DoeAnswers \/ NoDoe
    \/ (\E flit \in BOOLEAN : InitDev(flit)) \/ InitDevFailed
    \/ OpenRootFailed \/ OpenRoot
    \/ (\E opened \in BOOLEAN : KeypFailed(opened)) \/ KeypHangs \/ Keyp
    \/ InitRootFailed \/ InitRootHangs \/ (\E flit \in BOOLEAN : InitRoot(flit))

Connect ==
    \/ ClientRefusesVersion \/ ClientFails \/ ClientInit
    \/ \E ok \in BOOLEAN : Certificate(ok) \/ StartSession(ok) \/ MeasureAll(ok)
    \/ MeasureNone \/ MeasureNumber \/ MeasureFails \/ MeasureBlock \/ MeasureDone
    \/ QueryPortIndex \/ QueryNextPort \/ QueryEnds \/ QueryFails

Teardown ==
    \/ \E ok \in BOOLEAN : StopSession(ok)
    \/ close_dev_port \/ close_root_port

Validator == StartGroup \/ OpenPorts \/ Connect \/ RunTests \/ Teardown

Next == Validator

Spec == Init /\ [][Next]_vars

\* One thread, which the operating system keeps running; each exchange with
\* the device returns (DoeMailbox).
FairSpec == Spec /\ WF_vars(Validator)

-----------------------------------------------------------------------------
(* Properties.                                                             *)

\* The state is well formed.
TypeOK ==
    /\ group \in 0 .. Len(Plan)
    /\ pc \in Pcs
    /\ outcome \in [Groups -> {"todo", "ran", "stop_failed", "setup_failed"}]
    /\ step \in Nat
    /\ context \in [dev : Fds \cup {0}, host : Fds \cup {0},
                    kcbar : Fds \cup {0, -1}, spdm : BOOLEAN,
                    lowSegment : BOOLEAN, upSegment : BOOLEAN,
                    index : 0 .. IndexWrap - 1]
    /\ file \in [Fds -> Files \cup {NoFile}]
    /\ table \in [1 .. TableSize -> [fd : Fds, kind : Kinds,
                    port : Endpoints \cup {RootPort}] \cup {NoEntry}]
    /\ m_dev_fp \in Fds \cup {0}
    /\ doe \in 0 .. MaxDoe
    /\ answered \in 0 .. MaxDoe
    /\ heap \subseteq Groups \X {"context", "scratch"}
    /\ requested \in {"auto", "supported", "unsupported"}
    /\ meas \in [number : 0 .. MaxNumber, received : 0 .. MaxNumber,
                 sign : BOOLEAN, signed : BOOLEAN]
    /\ km \in [index : 0 .. IndexWrap - 1, max : 0 .. IndexWrap - 1,
               own : 0 .. IndexWrap, found : BOOLEAN]
    /\ sessions \subseteq Endpoints \X Groups

\* The log of every register access names the port it really goes to: an
\* entry of the device table stands for an open configuration space and has
\* its name, although descriptors are used again and failed setups leave
\* some open; and an open configuration space has exactly one entry as long
\* as the table has two slots for every group.  So a descriptor that open()
\* returns is never in the table, and set_deivce_info's assertion never
\* stops the program.
TableTrue ==
    /\ \A i \in 1 .. TableSize : table[i] # NoEntry =>
          LET f == file[table[i].fd]
          IN  f.kind = table[i].kind /\ f.port = table[i].port
    /\ \A fd \in Fds :
          file[fd].kind \in {"dev", "host"} /\ TableSize >= 2 * Len(Plan)
             => Cardinality({i \in 1 .. TableSize : table[i].fd = fd}) = 1

\* What a group leaves behind.  Once it is over, a file it opened is open
\* only if its setup failed, apart from the KEYP table, which is never
\* closed; its SPDM context is still allocated only if its setup failed; and
\* its device still has its session only if the setup failed after
\* KEY_EXCHANGE or the END_SESSION exchange failed.
LeftBehind ==
    LET over(g) == g < group \/ (g = group /\ pc = "idle")
    IN  /\ \A fd \in Fds : file[fd] # NoFile /\ file[fd].kind # "keyp"
                              /\ over(file[fd].group)
              => outcome[file[fd].group] = "setup_failed"
        /\ \A g \in Groups : <<g, "context">> \in heap /\ over(g)
              => outcome[g] = "setup_failed"
        /\ \A s \in sessions : over(s[2])
              => outcome[s[2]] \in {"setup_failed", "stop_failed"}

\* Whatever earlier groups left, from the SPDM connection to the end of the
\* session every DOE access goes to this group's own endpoint, through the
\* instance that answered its discovery, and a session is only ever begun in
\* the endpoint of its group.
OwnDevice ==
    /\ pc \in SpdmSteps \cup {"ready", "stop"} =>
          Target = {Endpoint} /\ m_dev_fp = context.dev /\ doe = answered
    /\ \A s \in sessions : s[1] = Plan[s[2]]

\* A group whose setup passed has the session and the port index the cases
\* rely on: the index the device gives this endpoint; a signed and complete
\* set of measurements, unless the device has none; and, when the root port
\* uses the segment number, the same on both sides.
SetupSound ==
    pc = "ready" =>
        /\ <<Endpoint, group>> \in sessions /\ context.spdm
        /\ context.index = km.own
        /\ meas.signed \/ (meas.number = 0 /\ meas.received = 0)
        /\ meas.received = meas.number
        /\ context.upSegment => context.lowSegment

\* Every setup ends, in a result or in a failed assertion, unless the device
\* numbers its ports up to 255: a uint8_t is never as large as 256.
SetupEnds == pc \in SetupSteps ~> pc \notin SetupSteps \/ km.max = IndexWrap - 1
-----------------------------------------------------------------------------
(* The inductive invariant.  The properties speak of what a group leaves   *)
(* and of what its cases find; why they hold is in which files the group   *)
(* has open at each step, and under which of its descriptors.              *)

DevSteps == (PortSteps \ {"open_dev"}) \cup SpdmSteps \cup
            {"ready", "stop", "close_dev"}
HostSteps == {"keyp", "root_stream"} \cup SpdmSteps \cup {"ready"} \cup
             TeardownSteps
KcbarSteps == HostSteps \ {"keyp"}

\* The kinds of files the group can have open at its step.
Held == {kind \in Kinds : \/ kind = "dev" /\ pc \in DevSteps
                          \/ kind = "host" /\ pc \in HostSteps
                          \/ kind \in {"keyp", "mem"} /\ pc \in KcbarSteps}

\* A group opens each kind of file once, so there is always a descriptor.
Distinct(f) ==
    \A a, b \in Fds :
       f[a] # NoFile /\ f[a].kind = f[b].kind /\ f[a].group = f[b].group
          => a = b

FilesKnown ==
    /\ Distinct(file)
    /\ \A fd \in Fds : file[fd].group <= group
    /\ pc \notin {"idle", "hung"} =>
          \A fd \in Fds : file[fd].group = group => file[fd].kind \in Held

Holds(fd, kind, port) ==
    fd \in Fds /\ file[fd] = [kind |-> kind, port |-> port, group |-> group]

\* The context names the group's own files, and the globals its device.
PortsKnown ==
    /\ pc # "idle" => group \in Groups
    /\ pc \in DevSteps => Holds(context.dev, "dev", Endpoint)
                          /\ m_dev_fp = context.dev
    /\ pc \in HostSteps => Holds(context.host, "host", RootPort)
    /\ pc \in KcbarSteps => Holds(context.kcbar, "mem", RootPort)
    /\ pc \in DevSteps \ {"doe", "close_dev"} => doe = answered

\* An entry of the device table stands for one open port, and no two for the
\* same; with two slots for every group each open port has one.
Matches(f, t) ==
    /\ \A i \in 1 .. TableSize : t[i] # NoEntry =>
          /\ t[i].kind \in {"dev", "host"}
          /\ f[t[i].fd].kind = t[i].kind
          /\ f[t[i].fd].port = t[i].port
    /\ \A i, j \in 1 .. TableSize :
          t[i] # NoEntry /\ t[i].fd = t[j].fd => i = j
    /\ TableSize >= 2 * Len(Plan) =>
          \A fd \in Fds : f[fd].kind \in {"dev", "host"} =>
             \E i \in 1 .. TableSize : t[i].fd = fd

TableKnown == Matches(file, table)

\* Nothing is of a group to come, and a group whose session was stopped has
\* neither SPDM context nor session left.
LeftKnown ==
    /\ \A b \in heap : b[1] <= group
    /\ \A s \in sessions : s[2] <= group
    /\ pc \in {"close_dev", "close_root"} =>
          /\ <<group, "context">> \notin heap
          /\ \A s \in sessions : s[2] = group => outcome[group] = "stop_failed"

\* The session, and what the SPDM connection has established.
SessionKnown ==
    /\ \A s \in sessions : s[1] = Plan[s[2]]
    /\ pc \in {"meas_all", "meas_number", "meas_one", "index", "ready", "stop"}
          => <<Endpoint, group>> \in sessions
    /\ pc \in {"index", "ready"} => context.spdm

MeasKnown ==
    /\ meas.received <= meas.number
    /\ pc \in SetupSteps \ {"meas_one", "index"} => meas = NoMeas
    /\ meas.received = meas.number => meas.signed \/ meas.number = 0
    /\ pc \in {"index", "ready"} => meas.received = meas.number

\* The port index is the device's once it is found; the segment of the root
\* port is used only with the other's.
IndexKnown ==
    /\ km.found => context.index = km.own
    /\ pc = "ready" => km.found
    /\ pc \in ScanSteps \cup PortSteps => ~context.upSegment
    /\ context.upSegment => context.lowSegment

Inv ==
    /\ TypeOK
    /\ FilesKnown
    /\ PortsKnown
    /\ TableKnown
    /\ LeftBehind
    /\ LeftKnown
    /\ SessionKnown
    /\ MeasKnown
    /\ IndexKnown
=============================================================================
