# A TLA+ verification of the TEE-IO validator

The TEE-IO validator is a command-line tool that tests the trusted I/O
features of PCIe and CXL devices: IDE streams and their keys, TDISP interface
locking, SPDM. It talks to the device through a DOE mailbox, to the root port
through its IDE capability and a memory-mapped block of key registers (KCBAR),
and to an operator at a prompt. It is single-threaded; what moves beside it is
hardware: the DOE instance, the device, the other IDE streams of the root port.
The difficulty is in what is left behind. A test case stops half way, an answer
is late, a switch to new keys fails in the middle, and the next case starts on
whatever registers and keys there are.

The specifications here are written from the C code under
`teeio-validator/`. Eight modules model the parts that hold state over time or
compute with what hardware and files say, one states what the mailbox driver
promises its callers, TLC checks them on small instances, and for all of them
TLAPS proves the safety properties, and that the driver keeps the promise, for
every value of the constants.

| Module | Models | Checked by | Proved |
|---|---|---|---|
| `DoeExchange` | what an exchange over DOE promises | as `ImplementsExchange` in `doe` | `ExchangeImplemented` |
| `DoeMailbox` | DOE mailbox driver | `doe`, `doe_stale` | `DoeMailboxProofs` |
| `IdeStream` | PCIe IDE stream: setup, key refresh, teardown | `ide_refresh`, `ide_cases` | `IdeStreamProofs` |
| `PcieGroup` | PCIe group setup and teardown, SPDM connection | `group` | `PcieGroupProofs` |
| `RegisterWalk` | walks over the IDE capability and the CXL register locator | `walk`, `walk_nolink` | `RegisterWalkProofs` |
| `TestConfig` | command line, ini file, the suites made of them | `config` | `TestConfigProofs` |
| `TestRunner` | runner, report, PCIe configuration items | `runner` | `TestRunnerProofs` |
| `Tdisp` | the 22 TDISP cases | `tdisp` | `TdispProofs` |
| `CxlIde` | CXL link IDE: setup, key refresh, teardown | `cxl`, `cxl_pass` | `CxlIdeProofs` |

`MC*.tla` give the constants their values, one `.cfg` per run. `PROJECT.json`
holds the map from every definition to the source lines it stands for, the
runs, a mutant for every property, the hazards and the theorems. The operators
marked "Slip" in the modules are those mutants: plausible mistakes in the
definition that follows them, each of which makes its property fail.

## 1. Inventory

Paths are relative to `teeio-validator/`.

**DOE mailbox driver** (`library/spdmlib/pci_doe.c`). State: none of its own
beyond a call; the mailbox registers. Operations: send a data object, receive
one, abort. Called by libspdm for every SPDM, IDE-KM and TDISP message. Hard:
the device is busy, in error, slow or late; the length field of the response is
the device's; both poll loops are counted down by hand. Correct when SUCCESS
returns the answer to this request, the caller's buffer is never exceeded, an
exchange always returns, and one that went wrong does not disturb the next.

**SPDM session support** (`library/spdmlib/spdm.c`, `support.c`). Opens a
libspdm context, a connection and a session in a fixed order, and fetches
certificates and measurements. State: the requested version, the context and
its buffers. Hard: the measurement loop counts blocks it receives against a
number the device gave, with refused indices in between; every error path frees
something else. libspdm and the IDE-KM, CXL-IDE-KM and TDISP requester
libraries are submodules; the models take them as exchanges that succeed or
fail.

**PCIe IDE library** (`library/pcie_ide_lib`). Finds and walks the IDE extended
capability, programs keys and IVs into KCBAR slots, primes and selects key
sets, enables streams, allocates slots among those of other streams, scans the
bus. State: all of it in registers. Hard: slot allocation reads the registers
of streams it does not own; the walks depend on counts read from hardware.

**PCIe IDE tests** (`library/pcie_ide_test_lib`). Test groups (open ports,
connect, query port index), configuration items (default, PCRC, configuration
requests, flit mode) with four callbacks each, and test cases (query, key_prog,
ksetgo, ksetstop, spdm_session, full, full_keyrefresh). State: statics such as
`mKeySet`, the group and case contexts, and the device. Hard: replacing keys in
a live stream; one of a dozen exchanges failing; configuration items that write
the same register one after the other. Correct when traffic can always be
decrypted, teardown stops the key set in use, and a case runs under exactly the
configuration it is reported under.

**Test runner** (`teeio_validator/ide_test.c`, `library/helperlib/teeio_common.c`).
Three nested loops, suites to groups to cases, over tables of callbacks; three
global result pointers; totals on three levels. Correct when the totals agree,
PASS means that the case was tested, and every case has a result.

**CXL IDE library and tests** (`library/cxl_ide_lib`, `library/cxl_ide_test_lib`).
As for PCIe, for the single link stream of CXL.cachemem, with keys and IVs that
the device may generate, and with a start trigger that makes both ends switch.
Most failures end in an assertion, which hangs the program.

**TDISP tests** (`library/tdisp_test_lib`). 22 cases in seven classes, each a
setup that drives the interface into a state, a run with one request under
test, and a teardown. State: a file static `setup_success` per case; the
interface and its keys in the device. Hard: the cases of a class share one SPDM
session and one interface; an exchange can fail after the device has acted.

**Command line and ini file** (`teeio_validator/teeio_validator.c`, `cmdline.c`,
`ide_test_ini.c`, `library/helperlib/ide_ini_helper.c`). Reads the file into a
list of entries, looks sections up by number, parses each into the next free
slot of a fixed array, applies the options, checks that suite, topology and
configuration fit each other and builds the run data. Hard: a section rejected
half-way leaves its slot half filled; one scratch variable serves all numbers;
ids and slots drift apart; many contradictions end in an assertion. Correct
when what is run is what the file and the options say, and all of it.

**CXL TSP tests** (`library/cxl_tsp_test_lib`), **SPDM tests**
(`library/spdm_test_lib`, a wrapper around a submodule), **tools**
(`tools/lside`, `tools/setide`), **debug output** (`library/debuglib`): see
section 7.

How they meet: `main` parses the command line and the ini file and calls the
runner; the runner calls a library's group, configuration and case functions
through tables; these call the register libraries and, through the requester
libraries and libspdm, the DOE driver. Nothing is persisted by the program. The
hardware is: a register or a device key outlives a case, a group and the
program. A failing `TEEIO_ASSERT` is an endless loop, which the models call
hung.

## 2. The modules

### DoeMailbox

One action per register-level step of `device_doe_send_message` and
`device_doe_receive_message`. `pc` is the place in the two functions, `delay`
the polls left, `count` the object count, `buf` what was stored in the caller's
buffer of capacity `cap`. A dword is a pair of request number and position, so
that the answer to another request, or the middle of an object, is told apart
from the right one. Actions of the device (answer, be busy, raise the error
bit with or without losing the object) are possible between any two steps of
the driver. The 18-bit length field in which 0 stands for the largest object is
kept (`LengthField`, `data_object_count`) for an object of `MaxObject` dwords.
`residue` is a history variable: an exchange failed and no abort followed.
There are four ways to that: a receive or a send that times out, a caller
without room for a header, and a response too large for the buffer.

* `OwnResponse`: without residue, SUCCESS means the buffer holds one whole
  object, the answer to this request.
* `BufferBound`: nothing is stored past the caller's buffer.
* `InStep`: without residue, the device holds at most the request in hand and
  nothing between exchanges.
* `ImplementsExchange`: the driver implements `DoeExchange`, with its fairness:
  one request at a time, an answer of its own on SUCCESS unless an earlier
  failure left something behind, a debt that only an abort clears, and a return
  from every call. The mapping takes `pc # "idle"` for an exchange in progress
  and `residue` for the debt.
* `SuccessIsOwnResponse`: `OwnResponse` without the proviso; violated.

### IdeStream

`setup_ide_stream`, `ide_key_switch_to`, the Full and KeyRefresh cases and
`pcie_ide_teardown_common`: six KEY_PROGs each followed by the programming of
the root port's slots, prime, KSetGo RX, key_set_select, KSetGo TX, the two
enables, the check for Secure; in a refresh the same for the other key set in
newly allocated slots while the stream carries traffic; at the end the two
disables and six KSetStops. `dir` and `sub` count through the exchanges. The
device has keys by key set, direction and substream, what it was told to go
with, and the key set each substream transmits with. Each exchange can fail
before or after the device acted on it. `others` are slot triples of other
streams; other software closes them and opens new ones on unused slots at any
step, inside a case and between two (`OtherCloses`, `OtherOpens`), and loads
its keys there. `known` is a history variable: the other streams that were
there when `k_set` was chosen, in `init_root_port` or in a refresh, and still
are. `k_set` is reused by every case of the group. Keys are numbers; the byte
order in which the slots hold them is kept as a sign
(`pcie_construct_rp_keys`), so that a key stored unconverted is a wrong key.
The uint8_t slot map that limits `pcie_ide_alloc_slot_ids` is `SlotMapFits`.

* `TrafficKeys`: while the stream is live, each end receives with the key the
  other sends with, at every step of a refresh and after any failure in it,
  unless another stream has loaded its keys into the slot meanwhile.
* `Quiesced`: between cases no substream is left going with the key set in use,
  unless a switch or a KSetStop failed.
* `OthersUntouched`: no step writes a slot of a stream that was enabled when
  the slots were chosen and has stayed so. One that opened on those slots later
  is written over: the code does not look at the slots again.
* `CaseEnds`: an unattended KeyRefresh case ends, or waits at the prompt for
  slots because every triple is in use.

### TestRunner

`do_run_test_suite`, `do_run_test_group`, `do_run_test_case` with one action
per callback, the recording functions of `teeio_common.c`, and the verdict that
the printing code computes. The configuration items are modelled to the
register bits they read and write in the two ports, link retraining for the
flit item included; the case bodies only by their return value and the
assertions they record. A callback may also never return (`CallbackHangs`): a
failing `TEEIO_ASSERT`, an unanswered `getchar`, the port index loop at 255.

* `ConfigInForce`: when a case runs, the upper port holds the selected items
  and no leftovers; so does the lower port, except that with the flit item,
  which comes last, it holds none of them and the link runs without flits.
* `Accounting`: the totals of cases, groups and configuration agree.
* `PassMeansTested`: a PASS had its group set up, was not skipped and had the
  default and cfg_req items supported and enabled.
* `ControlsReleased`: after the disable callbacks no control bit is left.
* `SuiteEnds`: the suite ends with a result for every case, unless a callback
  never returns.

### Tdisp

Each case file is a record of its setup exchanges, the state it asks for, the
request under test, the expected answer and the expected state afterwards; one
set of actions runs them. The interface follows TDISP. `keys` tells whether
IDE keys were set in this session, in an earlier one or never.
`setup_success` is the set of cases whose static is true; nothing clears it.
The cases about the interface report fetch it in portions: `report` holds
offset, remainder and total, and the device may send any portion and any
remainder, with the checks and returns of `tdisp_test_get_interface_report`.
`report.odd` is a history variable: what was sent cannot be a report that fits,
or DeviceReport 5 found its counts or reserved bits wrong. `fields` tells what
the one case that looks into a VERSION or CAPABILITIES finds there: what it
demands, optional messages, or something else. The index that DeviceReport 5
takes from the report (`test_case_interface_report_5.c:124`) is taken to lie
inside it.

* `Released`: between cases the interface is unlocked, unless an exchange
  failed and no STOP_INTERFACE was answered since.
* `NoFalseAlarm`: a device whose interface moves as TDISP says is reported as
  failed only if an exchange failed, its report cannot be one, its VERSION or
  CAPABILITIES is not the one the case takes, or in the two cases that rely on
  what earlier cases left. A CAPABILITIES with optional messages conforms and
  is failed (section 6).
* `PassMeansPrecondition`: a PASS was earned in the state the case is about,
  and with the whole report where the case is about that.
* `ReportEnds`: fetching the report ends unless the device sends what no report
  can be; a device that sends empty portions keeps the loop going for ever.

### CxlIde

`cxl_ide_query_port_index`, `cxl_setup_ide_stream` for setup and key refresh,
`cxl_teardown_ide_stream`, group setup and the KCBAR registers. The group setup
clears key registers and control bits and leaves `LinkEncEnable`, as the code
does. A failed KEY_PROG or KSetGo hangs the program, and `Restart` starts it
again on the same hardware. What StartTrigger and the IDE.Start flit do is
external, from `doc/cxl_ide_key_refresh.md`; the trigger bits are taken to be
self-clearing. An IV is the default one, a device-made one with the first word
the root port assumes, or one with another first word.

* `LinkTrafficKeys`: outside teardown both ends use the same key and IV in each
  direction, except in a direction that is `apart`.
* `LinkQuiesced`: a teardown that went through turns the link off.
* `PassMeansActive`: a PASS had both directions active and in step, unless the
  device refused a key.
* `LinkCaseEnds`: a case ends or hangs in an assertion.
* `StreamSecure`: `PassMeansActive` without the exception; violated.

### PcieGroup

`common_test_group_setup` and `_teardown` of the pcie-ide tests for one group
after the other: bus scan, `open_dev_port` with DOE discovery and
`init_dev_port`, `open_root_port` with the KEYP table and `init_root_port`,
`spdm_client_init`, `spdm_connect` with session and measurements, the IDE-KM
query for the port index. Each call that reads hardware or talks to the device
may fail, and each error path frees exactly what the code frees. What outlives
a group is state: `file` (open files by descriptor, lowest free first),
`table` (the device table of `pcie_helper.c`, keyed by descriptor), `m_dev_fp`
and `doe` (the globals every DOE access uses), `heap`, and the sessions the
devices hold. The runner skips the teardown after a failed setup, as
`do_run_test_group` does.

* `TableTrue`: the device table names the ports that are really open, although
  descriptors are reused and failed setups leave files open.
* `LeftBehind`: what a group leaves open or allocated is explained by its own
  failure, apart from the KEYP file and the scratch buffer.
* `OwnDevice`: whatever earlier groups left, DOE traffic goes to this group's
  endpoint, through the instance that answered its discovery.
* `SetupSound`: a setup that passed has session, port index and a complete,
  signed set of measurements.
* `SetupEnds`: every setup ends in a result or an assertion unless the device
  numbers its ports up to 255.

### RegisterWalk

The IDE capability as a sequence of dwords, laid out block by block from the
streams a port has, and the three walks of `pcie_ide.c` over it, one step per
turn of a loop: is the stream id in use, which block is free, where is that
block. A dword reads as something both as a capability and as a control
register, so a walk that is out of step sees what the hardware would show it.
Separately, the walk of `cxl_init_memcache_reg_block` over the entries of the
register locator, whose offset grows by 0, 1, 2, ... entries.

* `StreamIdSeen`: on a port with link streams (or no selective ones) the first
  walk tells exactly whether an enabled stream has the id.
* `RightBlock`: the block chosen is a free one and the later accesses write its
  control and association registers and nothing else; the CXL component
  registers are found if they are in one of the first two entries.
* `StreamIdChecked`: `StreamIdSeen` for every port; violated.

### TestConfig

From `main` to the chain of suites the runner gets. A file is a sequence of
lines: section headers, entries and entries without value; a value carries its
format, so that a conversion accepts or refuses it as the code's does. The
actions are the phases of `parse_ide_test_init` (one per section of each kind),
the selection of a single case by `-s -t -c`, and the preparation of the run
data. Slots, ids and counts are kept apart; a rejected section leaves in its
slot what it wrote, and `data32` is carried from entry to entry. A failing
assertion is `hung`, misused memory `crashed`: one port too many, a switch list
freed past its end, an entry without value freed twice, and the message about
an invalid type in a configuration, which prints a character as a string
(`ide_test_ini.c:1768`).

* `RunAsWritten`: a suite that is run is one of the file, enabled, on the
  topology and configuration it names, between the ports drawn, with the items
  and cases listed.
* `NothingLeftOut`: a suite is missing only if it, its topology or its
  configuration is switched off, malformed or does not fit. Topologies of all
  three connections count as well formed (`WellFormedTopology`).
* `NoStopOnGoodFile`: a `WellFormed` file trips no assertion and misuses no
  memory.
* `OptionsApply`: `-b`, `-g` override every topology, except with the values
  0xff and 0xffff, which the code takes for options not given; `-s -t -c` run
  that case alone. Without an override a topology has the segment and the bus
  of its own section; a section without bus is left out.

The properties compare with `Said`, which reads the file without the parser.
How many cases the SPDM responder library has in each class is the constant
`SpdmCases`: the library is a submodule, asked at run time. `WellFormed` is
narrower than `doc/ide_test_ini.md`: the document allows 16 root ports with 16
endpoints, TDISP with `link_ide` and `selective_and_link_ide`, and a path over a
disabled switch, on which the program stops; and it says nothing of what an
invalid type does. The proof made it exact: a switch number on a path has to be
one the parser visits, and case 0 is excluded as a single number too, not only
within a list.

## 3. Runs and bounds

| Run | Bounds | Why they are enough |
|---|---|---|
| `doe` | 3 exchanges, 2 polls each way, objects of 2 to 4 dwords, buffers of 1, 3, 4 | one exchange goes wrong, one recovers or meets the residue, one follows; a buffer below a header, below the object, and ample; length field 0 occurs |
| `doe_stale` | 2 exchanges, ample buffer | one times out, the next reads its answer |
| `ide_refresh` | 2 triples, 1 case, 3 refreshes, 1 stream opened by others | slots are free, freed or taken meanwhile, or exhausted; both key sets are used a second time |
| `ide_cases` | 3 triples, 2 cases, 1 refresh, none opened | the second case runs on every leftover of the first |
| `runner` | groups of 2 and 1 cases, 1 assertion of a kind | a case after the leftovers of another, a group after another; every configuration and capability set |
| `tdisp` | 3 cases, 2 groups, all classes; portions of 2, reports and buffer of 4 units | a case meets leftovers of two others, in this session or a later one, and can run twice; a report of one portion, of two, too large, inconsistent, empty |
| `config` | some 1,700 files of up to 3 ports, 1 switch, 2 topologies, configurations and suites; 10 command lines | each section missing, doubled, rejected, switched off or malformed, next to one that is good |
| `group` | 3 groups on 2 endpoints, 1 switch hop, 2 DOE instances, port indices modulo 3, measurement indices to 3 | a group meets the leftovers of two others and returns to a device used before; the index wraps; refused and missing blocks |
| `walk` | 2 link and 2 selective blocks of 0 to 2 address blocks, 2 ids; 4 locator entries | the sizes of the blocks passed differ; the entries at which the locator's walk goes astray are there |
| `walk_nolink` | 1 block of each kind | enough for the counterexample |
| `cxl` | 2 port indices, 2 cases, 2 groups, 1 refresh | the port is first, second or missing; a case after a hang, a failed teardown or a refused key |
| `cxl_pass` | 1 case | enough for the counterexample |

Every run of a passing specification starts from every capability and
configuration the code accepts. Deadlock is checked for `DoeMailbox`, whose
device never stops; the other models end when their bound on cases is used up,
as the program does.

## 4. Fairness

* `DoeMailbox`: weak fairness of the driver only. It is a loop the operating
  system keeps running; the device may do nothing at all.
* `IdeStream`: weak fairness of the validator's own steps. An operator who
  never answers, and other software that never closes its streams, are allowed:
  `CaseEnds` is about the unattended mode, and lets a case wait for slots while
  every triple is in use.
* `TestRunner`: weak fairness of the next step: one thread that goes on when a
  callback has returned. That callbacks return is not assumed; `CallbackHangs`
  is one of the next steps.
* `CxlIde`: weak fairness of the validator's steps, the operator's key press
  at the prompt included. The port index loop ends for max_port_index below 255.
* `Tdisp`, `PcieGroup`: weak fairness of the next step: one thread, and each
  exchange returns, which `DoeMailbox` shows.
* `DoeExchange`: weak fairness of the return; implied by that of the driver.
* `RegisterWalk`, `TestConfig`: safety only.

## 5. Proofs

The theorems hold for every value of the constants allowed by the named
assumptions of the modules, which TLC evaluates in every run. In each module
the invariant `Inv` was checked by TLC before it was proved; each conjunct of
it has a lemma in the proof module, with one step per action (in
`TestConfigProofs` and `RegisterWalkProofs`, where an action touches one table
or one walk, each action has a lemma, with one step per conjunct).

**`DoeMailboxProofs`**. `OwnResponse` and `InStep` speak of states at which the
driver has returned; nothing in them says why a step leads there. The
inductive invariant `Inv` adds two parts. `ObjectInHand` says what the local
variables are at each step: polls are left inside the loops, the buffer has
room for a header once the receiver polls, it is empty before the header is
read and holds two dwords after it. `Outstanding` says where the one request
and its answer are at each step: pending, in the mailbox unread, in the mailbox
read up to the header, or in the buffer, with the case of a DOE error that took
the object away. The lemmas on the length field (`LengthFieldExact`: decoding
undoes encoding, 0 included), on mailbox reads and on their acknowledgement
carry the arithmetic; there is one lemma per conjunct with one step per action.
Results: `Invariance`, `TypeCorrect`, `OwnResponseCorrect`,
`BufferBoundCorrect`, `InStepCorrect`. `ExchangeImplemented` is the refinement
without its fairness, `Spec => Exchange!Spec`: a step of the driver is a begin,
an abort, a success or a failure of the abstract exchange, or none; that a
success carries the right answer while the debt is clear is `OwnResponse`, from
the invariant. The fairness part, that every exchange returns, is checked by
`doe`.

**`IdeStreamProofs`**. `TrafficKeys` is far from inductive: that the new keys
match at the moment of the switch depends on all exchanges before. `Inv` adds
`Enables` (which end is on at which step), `ProgProgress` and `GoProgress` (how
far the KEY_PROGs and KSetGos have come), `OldKeySet` (the old key set is
intact, in other slots, while the new one is programmed; the central fact of
the refresh), `SlotsFree` (the chosen triple is of none of the streams that were
there when it was chosen) and
`StopProgress` (what is left to stop). The lemmas are organised by exchange
(what a KEY_PROG adds, what it leaves alone, what it cannot spoil in the live
key set), then by conjunct. Results: `Invariance`, `TypeCorrect`,
`TrafficKeysCorrect`, `QuiescedCorrect` and, as an action property,
`OthersUntouchedCorrect`.

**`CxlIdeProofs`**. `LinkTrafficKeys` compares the two ends, which switch at
different moments. `Inv` follows the keys on their way: `PortKnown` (keys go
only to a port that was found), `Generated` (an IV both ends build alike),
`Programmed` (an accepted key waits in the device), `Registers` (the root port
holds the same, valid until used), `Switches` (what is in use between the two
KSetGos and after them), `LinkEnabled` (the root port uses no key before it is
on, and a refresh finds it on), `Stopped` and `StaysClean` (what a teardown has
turned off). It has to hold through a hang and a restart on the same registers,
so none of it may lean on a variable of the program that a restart loses.
Results: `Invariance`, `TypeCorrect`, `LinkTrafficKeysCorrect`,
`LinkQuiescedCorrect`, `PassMeansActiveCorrect`, for any number of groups,
cases and refreshes and any largest port index.

**`TdispProofs`**. `TdiKnown` and `StreamKnown` say what the exchanges of a
setup have established so far, whatever state the cases before left: the
interface is where the last exchange that moved it left it. That this is the
state the request under test needs is a fact about each case file; the lemmas
on `Script` go through all 22. `VerdictKnown` carries the reasons a conforming
device may be failed for (`Excused`) from the answer to the state check,
`BeforeKnown` the state before the request to the verdict, and `ReportKnown`
the sum of offset and remainder through the portions. Results: `Invariance`,
`TypeCorrect`, `ReleasedCorrect`, `NoFalseAlarmCorrect`,
`PassMeansPreconditionCorrect`, for any set of classes, any number of cases and
sessions, any sizes of portions, reports and buffer.

**`TestRunnerProofs`**. The three walks over the configuration items (support,
enable, disable) are one counter; `Past` is what it has left behind.
`Registers` says which bits are set at each place of each walk, `Recorded`
which results, for the items PASS is about (`Required`); `Earned` keeps what a
case with a recorded assertion has behind it, after the runner has moved on,
and `GroupsKnown` ties results to groups. Results: `Invariance`, `TypeCorrect`,
`ConfigInForceCorrect`, `PassMeansTestedCorrect` and, as an action property,
`ControlsReleasedCorrect`, for any number of groups, cases and assertions.
`AccountingCorrect` is about sums over all results so far. A step changes one
case, its group and the configuration at once, so its proof needs what a sum
over a finite set does when a member is added or one term is raised (`SumsNew`,
`SumsRaised` and the lemmas before them), and that a case about to start has no
result yet: `Visited`, which is invariant next to `Inv`.

**`RegisterWalkProofs`**. A walk adds up the sizes of the blocks it passes; the
capability is the blocks one after the other. `LayoutFacts` joins the two: for
any number of blocks, `LinkStart(k)` and `SelStart(k)` are where block `k`
begins, and its registers are there. `Inv` says that the offset of a walk is
the start of the block at its counter (`Checking`, `AtBlock`), that nothing
behind the first walk has the id (`NoneIn`), and that the block chosen was not
enabled (`Taken`); on a port without link streams it says nothing about the
offset of the first walk over the selective blocks, which is astray there.
`Searching` is the same for the register locator: its first two entries are
looked at in order. Results: `Invariance`, `StreamIdSeenCorrect`,
`RightBlockCorrect`, for any number of link and selective blocks, of address
blocks in each and of locator entries. The assumptions: the bounds and the
numbers of address blocks are natural numbers, and 0 is a stream id.

Both proofs need facts about recursive library operators (`SumFunctionOnSet`,
`FlattenSeq`) for every input. They are proved without an induction rule: the
set of lengths or sizes at which the claim fails is a set of natural numbers,
so if it is not empty it has a least member (`LeastNat`, from the
well-foundedness of < by `WFMin`), and the step from the one before it refutes
that. `SumExists`, `SumSolves`, `FlattenExists` and `FlattenSolves` show in
this way that the recursion has a solution and that the library's `CHOOSE`
takes it.

**`PcieGroupProofs`**. The properties are about what groups leave, so the
invariant is about all files ever opened. `FilesKnown`: a group has each kind
of file open at most once (`Distinct`), and at each step only the kinds it has
opened by then. Two counting arguments rest on it. There is always a free
descriptor (`FreeFd`), since there are more descriptors than pairs of group and
kind, and with two slots for every group there is always a free slot in the
device table when a port is entered (`FreeSlot`), since the entries stand for
different pairs and the new one is not among them. `Matches` is the table's
side: every entry stands for one open port, no two for the same. `PortsKnown`
ties context and globals to the group's own files, `LeftKnown` and
`SessionKnown` say what the teardown has to have released before the last
file is closed, `MeasKnown` and `IndexKnown` carry the two loops. Results:
`Invariance`, `TypeCorrect`, `TableTrueCorrect`, `LeftBehindCorrect`,
`OwnDeviceCorrect`, `SetupSoundCorrect`, for any plan of groups, any table
size, number of hops, DOE instances and measurement blocks, and any width of
the port index.

**`TestConfigProofs`**. The file is any sequence of lines, so the parts of
`Inv` are about sections behind the one being read (`Before`), in terms of what
the file says and not of what the parser looked up. `ItemsFacts` joins the two:
on a file whose entries have values the parser's lookup is `Said`; it rests on
the largest member of a set of line numbers, which well-foundedness gives
without induction. `TopologiesKnown` has to bear with the shared slot: a
topology is built over what a rejected section left, and `PathsResult` shows
that an accepted one has overwritten every field that counts; `PathAccepted`
and `TopologyAccepted` show the converse, that a well-formed section of any
connection is accepted. Its slots are
filled in the order of the section numbers, so ids are distinct, whereas
`ConfigurationsKnown` and `SuitesKnown` have each section in the slot of its
number. `SuitesKnown` carries over (`SuiteFits`) what the suite's section was
compared with, so that the assertions of `prepare_tests_data`, several phases
later, hold; `ChainKnown` says what is in the chain and what cannot be missing.
Results: `Invariance`, `TypeCorrect`, `RunAsWrittenCorrect`,
`NothingLeftOutCorrect`, `NoStopCorrect`, `OptionsCorrect`. The assumptions: the
sizes of the tables are positive, a number in a file is a natural number,
options are numbers or absent, and every SPDM class has a case.

Only model-checked are the liveness properties `CaseEnds`, `SuiteEnds`,
`ReportEnds`, `SetupEnds` and `LinkCaseEnds`, and the fairness part of
`ImplementsExchange`: the prover does not treat fairness.

## 6. Findings

Three runs show a disagreement between the code and what its comments say;
TLC's trace is the evidence.

1. `doe_stale`: a receive that times out sends no DOE abort (`pci_doe.c:345`).
   The late answer is returned as SUCCESS by the next exchange.
2. `cxl_pass`: the status in KP_ACK is not looked at and the default check is
   empty, so a case passes on a stream that was never active.
3. `walk_nolink`: on a root port without link streams the check for the stream
   id reads every selective block one dword early (`pcie_ide.c:703`). A
   capability with one address block looks like stream 0, enabled; a stream
   that really is enabled is missed.

Seen while modelling and not the subject of a run:

* The result of the configuration check is dropped (`ide_test.c:722`), although
  the comment in `test_config_common.c` says a stream that never became secure
  must not pass.
* The flit item rewrites the lower port's stream control register
  (`test_config_flit_mode_disable.c:187`) and clears the PCRC and configuration
  request bits enabled before it.
* LockInterface 2, the TDISP case without keys, runs in the session in which
  LockInterface 1 has set them; a setup that fails after LOCK_INTERFACE leaves
  the interface locked, since the teardown then sends nothing.
* A topology without `stream_id` gets the number read for the entry before it
  (`ide_test_ini.c:2130`), where `doc/ide_test_ini.md` gives the default 0; the
  same for `bus`.
* The message about an invalid type of a configuration passes a character to
  `%s` (`ide_test_ini.c:1768`); the one for a suite does not.
* Capabilities 1 fails a device that supports more than the mandatory messages
  (`test_case_capabilities_1.c:132`), where
  `doc/tdisp_test/TdispTestCase/2.TdispCapabilities.md` asks that the mandatory
  ones be supported.
* The slots of the root port are chosen once per group (`pcie_ide.c:821`) and
  programmed again by every case without looking whether another stream has
  taken them since.
* `-b 0xff` and `-g 0xffff` equal the values that mean "not given". The
  document names the cases `query` and `GetCaps` where the code has `Query` and
  `GetCapabilities`, and allows TDISP with `link_ide`, which an assertion in
  `tdisp_common.c` refuses. It also allows 16 root ports with 16 endpoints;
  the array has 16 places for both (`ide_test.h:24`).
* Both loops over a `uint8_t` port index do not end at 255, and the portion
  loop of the TDISP report does not end on empty portions.
* The register locator's walk looks at the entries 0, 1, 3, 6, ...; a selective
  block without address block has its address registers written into the block
  after it; a second selective block is reached only past blocks with exactly
  one address block (an assertion).
* The KEYP table's file and the SPDM scratch buffer are never released.

## 7. Not modelled

* Inside the modelled parts: register dumps and logging; the values written to
  the address and RID association registers; the CXL IDE mode, refresh-time
  and truncation-delay registers, and the insecure-state bits that a CXL
  teardown leaves set until the next group (`ide_km_common.c:451`); the header
  fields of TDISP answers; printing
  and freeing of the configuration. `RegisterWalk` has the root port's walks;
  a device port uses the same functions without the key configuration unit.
* The PCIe and CXL IDE-KM cases other than Full and KeyRefresh (query,
  key_prog, ksetgo, ksetstop, get_key): straight-line requests, each followed
  by checks of the fields of its answer. They keep no state that IdeStream and
  CxlIde do not have, and a property of one would restate its checks.
* CXL TSP tests: the same kind of scripts; the one loop, over portions of the
  configuration report, is the one of `Tdisp`.
* SPDM tests: a wrapper around the conformance tests of a submodule.
* The tools `lside` and `setide` and debug output: single-shot register access
  and printing.

## 8. Plan

1. A second abstract specification: a stream that is off, secure under one key,
   or switching, implemented by `IdeStream` and `CxlIde`.
2. The IDE-KM cases as scripts over one device, in the manner of `Tdisp`.
