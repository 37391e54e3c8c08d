----------------------------- MODULE TestConfig -----------------------------
(***************************************************************************)
(* From the command line and the ini file to the suites that are run:      *)
(* main of teeio_validator.c, parse_cmdline_option, parse_ide_test_init    *)
(* with its section parsers, and prepare_tests_data.  One action parses    *)
(* one section; the sections are visited in a fixed order, fill the slots  *)
(* of IDE_TEST_CONFIG and refer to what earlier sections have left there.  *)
(*                                                                         *)
(* A line of the file is a record of its kind, its name and its value.     *)
(* Names are pairs <<word, number>>, 0 where there is no number; a value   *)
(* is a pair <<format, content>>, so that what a conversion accepts is     *)
(* decided by the format.  A failing TEEIO_ASSERT is pc = "hung"; a bad    *)
(* address and memory written outside an array are pc = "crashed".         *)
(***************************************************************************)
EXTENDS Integers, Sequences, FiniteSets, FiniteSetsExt

CONSTANTS
    Files,             \* ini files: sequences of lines
    Options,           \* command lines
    MaxPorts,          \* MAX_SUPPORTED_PORTS_NUM
    MaxSwitches,       \* MAX_SUPPORTED_SWITCHES_NUM
    MaxSwitchPorts,    \* MAX_SUPPORTED_SWITCH_PORTS_NUM
    MaxTopologies,     \* MAX_TOPOLOGY_NUM
    MaxConfigurations, \* MAX_CONFIGURATION_NUM
    MaxSuites,         \* MAX_TEST_SUITE_NUM
    SpdmCases          \* the cases the SPDM responder library has per class

ASSUME BoundsAssumption ==
    {MaxPorts, MaxSwitches, MaxSwitchPorts, MaxTopologies,
     MaxConfigurations, MaxSuites} \subseteq Nat \ {0}

Null == <<"null", 0>>        \* no entry, no value, no port
NoOption == -1               \* an option that was not given
InvalidSegment == 65535      \* INVALID_SCAN_SEGMENT
InvalidBus == 255            \* INVALID_SCAN_BUS

K(word) == <<word, 0>>
Types == <<"selective_ide", "link_ide", "selective_and_link_ide">>
Connections == <<"direct", "switch", "peer2peer">>
Categories == <<"pcie-ide", "cxl-ide", "cxl-tsp", "tdisp", "spdm">>
SpdmClasses ==
    <<"Version", "Capabilities", "Algorithms", "Digests", "Certificate",
      "ChallengeAuth", "Measurements", "KeyExchangeRsp", "FinishRsp",
      "HeartbeatAck", "KeyUpdateAck", "EndSessionAck">>
Elements(s) == {s[i] : i \in 1..Len(s)}

\* What the format of a value says of its content; Null is no value.
ValueAsFormatted(v) ==
    /\ v[1] # "null"
    /\ v[1] \in {"dec", "hex"} => v[2] \in Nat
    /\ v[1] = "list" => v[2] \in Seq(Nat)
    /\ v[1] = "path" => v[2].conns \in Seq(Elements(v[2].conns))

ASSUME FilesAssumption ==
    \A f \in Files :
       /\ f \in Seq(Elements(f))
       /\ \A i \in 1..Len(f) :
             f[i].kind = "entry" => ValueAsFormatted(f[i].value)

ASSUME OptionsAssumption ==
    \A o \in Options :
       {o.top_id, o.config_id, o.segment, o.bus} \subseteq Nat \cup {NoOption}

ASSUME SpdmAssumption == SpdmCases \in [1..Len(SpdmClasses) -> Nat \ {0}]

NoTopology ==
    [id |-> 0, enabled |-> FALSE, type |-> "selective_ide",
     connection |-> "direct", root_port |-> 0, upper_port |-> 0,
     lower_port |-> 0, sw_conn1 |-> <<>>, sw_conn2 |-> <<>>,
     segment |-> 0, bus |-> 0, stream_id |-> 0]
NoConfiguration ==
    [id |-> 0, enabled |-> FALSE, type |-> "selective_ide",
     category |-> "pcie-ide", bit_map |-> {}, mode |-> "containment"]
NoSuite ==
    [id |-> 0, enabled |-> FALSE, type |-> "selective_ide",
     category |-> "pcie-ide", topology_id |-> 0, configuration_id |-> 0,
     cases |-> <<>>]

VARIABLES
    pc,             \* where main is
    file,           \* the lines of the ini file
    opt,            \* the options given
    index,          \* the section number in the loops of parse_ide_test_init
    items,          \* the entries found by OpenIniFile, with their line number
    ok,             \* what parse_ide_test_init is about to return
    spdm_version,   \* main_config.spdm_version
    ports,          \* ports_config: names in the order of their ids
    switches,       \* switches_config
    topologies,     \* the slots, and in topCnt their count
    topCnt,
    configurations, \* the slots, and in confCnt their count
    confCnt,
    suites,         \* the slots, and in suiteCnt their count
    suiteCnt,
    function_id,    \* g_tdisp_interface_id.function_id
    prepared        \* the chain of run_test_suites

inputs == <<file, opt>>
config == <<spdm_version, ports, switches, topologies, topCnt,
            configurations, confCnt, suites, suiteCnt, function_id>>
vars == <<pc, file, opt, index, items, ok, config, prepared>>

-----------------------------------------------------------------------------
(* The entries of the file and their conversions.                          *)

\* ProfileGetLine cuts the file into lines; their kinds say what the checks
\* of names and values find.
Lines(f) == 1..Len(f)
IsValidName(line) == line.kind \in {"entry", "novalue"}
IsValidValue(line) == line.kind = "entry"

\* The header of the section that line i belongs to, 0 before the first.
HeaderOf(f, i) == Max({0} \cup {j \in 1..(i - 1) : f[j].kind = "section"})

\* Slip: the first entry of a name counts, not the last.
UpdateGetProfileStringFirst(s, e) ==
    LET hits == {x \in items : x.section = s /\ x.key = e}
    IN  IF hits = {} THEN Null
        ELSE (CHOOSE x \in hits : \A y \in hits : x.line <= y.line).value

\* The list is built head first, so the last entry of a name is found.
UpdateGetProfileString(s, e) ==
    LET hits == {x \in items : x.section = s /\ x.key = e}
    IN  IF hits = {} THEN Null
        ELSE (CHOOSE x \in hits : \A y \in hits : x.line >= y.line).value

GetString(s, e) == UpdateGetProfileString(s, e)
IsValidSection(s) == \E x \in items : x.section = s

\* The two conversions take numbers of their own notation only; a number
\* that does not fit in 32 bits has format "huge" and is not taken.
IsValidDecimalString(v) == v[1] = "dec"
IsValidHexString(v) == v[1] = "hex"
is_valid_dev_func(v) == v[1] = "df"
GetDecimalUint32(s, e) == IsValidDecimalString(GetString(s, e))
GetHexUint32(s, e) == IsValidHexString(GetString(s, e))
Number(s, e) == GetString(s, e)[2]

\* get_uint32_array_from_string: a list of decimal numbers, or one.
GetUint32Array(v) ==
    IF v[1] = "list" THEN v[2] ELSE IF v[1] = "dec" THEN <<v[2]>> ELSE <<>>

Enabled(s) == GetDecimalUint32(s, K("enabled")) => Number(s, K("enabled")) = 1

is_valid(v, names) == v[1] = "word" /\ v[2] \in Elements(names)

\* The file begins with nothing known.
Init ==
    /\ pc = "cmdline"
    /\ file \in Files
    /\ opt \in Options
    /\ index = 1
    /\ items = {}
    /\ ok = FALSE
    /\ spdm_version = "auto"
    /\ ports = <<>>
    /\ switches = <<>>
    /\ topologies = [i \in 1..MaxTopologies |-> NoTopology]
    /\ configurations = [i \in 1..MaxConfigurations |-> NoConfiguration]
    /\ suites = [i \in 1..MaxSuites |-> NoSuite]
    /\ topCnt = 0 /\ confCnt = 0 /\ suiteCnt = 0
    /\ function_id = 0
    /\ prepared = <<>>

Goto(l) == pc' = l /\ index' = 1

-----------------------------------------------------------------------------
(* The command line.                                                        *)

\* The options are taken one by one and the first bad one ends the program,
\* as do -h and a missing -f; -s switches from the suites of the file to one
\* case.
InRange(v, max) == v = NoOption \/ v \in 1..max
g_run_test_suite == opt.test_case = Null
g_scan_segment == IF opt.segment = NoOption THEN InvalidSegment ELSE opt.segment
g_scan_bus == IF opt.bus = NoOption THEN InvalidBus ELSE opt.bus

parse_cmdline_option ==
    /\ pc = "cmdline"
    /\ IF /\ InRange(opt.top_id, MaxTopologies)
          /\ InRange(opt.config_id, MaxConfigurations)
          /\ opt.segment <= 65535 /\ opt.bus <= 255
          /\ opt.rounds # 0 /\ opt.interval # 0
          /\ opt.file = "given"
       THEN Goto("open") ELSE Goto("exit")
    /\ UNCHANGED <<inputs, items, ok, config, prepared>>

-----------------------------------------------------------------------------
(* Reading the file.                                                        *)

\* ProfileGetSection and ProfileGetEntry for every line.  Entries before the
\* first header, comments and lines that are no entry leave nothing, and an
\* invalid line does not end the loop: the boolean it returns is taken for a
\* status that is no error.  The item of an entry without a value is linked
\* before its strings are freed; entries after it take their section's name
\* from that item, so whether the rest of the section is found is undefined.
Dangling(f) ==
    {i \in Lines(f) :
        IsValidName(f[i]) /\ ~IsValidValue(f[i]) /\ HeaderOf(f, i) # 0}

Entries(f, lost) ==
    {[line |-> i, section |-> f[HeaderOf(f, i)].name,
      key |-> f[i].name, value |-> f[i].value] :
        i \in {j \in Lines(f) :
                  /\ IsValidValue(f[j])
                  /\ HeaderOf(f, j) # 0
                  /\ ~ \E l \in lost : HeaderOf(f, j) < l /\ l < j}}

PreProcessDataFile ==
    \E lost \in SUBSET Dangling(file) : items' = Entries(file, lost)

OpenIniFile ==
    /\ pc = "open"
    /\ IF file = <<>> THEN Goto("hung") /\ UNCHANGED items
       ELSE Goto("main") /\ PreProcessDataFile
    /\ UNCHANGED <<inputs, ok, config, prepared>>

\* FreeAllList meets strings that are freed already where an entry had no
\* value.
CloseIniFile ==
    /\ pc = "close"
    /\ Goto(IF ok THEN "select" ELSE "exit")
    /\ UNCHANGED <<inputs, items, ok, config, prepared>>

CloseIniFileAgain ==
    /\ pc = "close"
    /\ Dangling(file) # {}
    /\ Goto("crashed")
    /\ UNCHANGED <<inputs, items, ok, config, prepared>>

-----------------------------------------------------------------------------
(* [Main], [Ports] and [Switch_x].                                         *)

Versions == {"auto", "1.0", "1.1", "1.2", "1.3", "1.4"}

ParseMainSection ==
    LET v == GetString(K("Main"), K("spdm_version"))
    IN  /\ pc = "main"
        /\ IF v = Null
           THEN spdm_version' = "auto" /\ Goto("rootport")
           ELSE IF v[2] \in Versions
                THEN spdm_version' = v[2] /\ Goto("rootport")
                ELSE spdm_version' = "auto" /\ Goto("close")
        /\ UNCHANGED <<inputs, items, ok, ports, switches, topologies, topCnt,
                       configurations, confCnt, suites, suiteCnt,
                       function_id, prepared>>

\* The root ports, then the endpoints: numbered from 1 until one is missing,
\* with ids counted through.  The array is not checked for room.
ParsePortsSection(type, next) ==
    LET name == <<type, index>>
        df == GetString(K("Ports"), name)
    IN  /\ pc = type
        /\ \/ /\ df = Null
              /\ Goto(next)
              /\ UNCHANGED ports
           \/ /\ df # Null /\ ~is_valid_dev_func(df)
              /\ Goto("hung")
              /\ UNCHANGED ports
           \/ /\ df # Null /\ is_valid_dev_func(df)
              /\ IF Len(ports) < MaxPorts
                 THEN /\ ports' = Append(ports, [name |-> name, df |-> df[2]])
                      /\ pc' = pc /\ index' = index + 1
                 ELSE Goto("crashed") /\ UNCHANGED ports
        /\ UNCHANGED <<inputs, items, ok, spdm_version, switches, topologies,
                       topCnt, configurations, confCnt, suites, suiteCnt,
                       function_id, prepared>>

\* Where a loop over the sections goes after section number index.
NextSection(max, last) ==
    IF index < max THEN pc' = pc /\ index' = index + 1 ELSE Goto(last)

ParseSwitchesSection ==
    LET s == <<"Switch", index>>
        given == {p \in 1..MaxSwitchPorts : GetString(s, <<"port", p>>) # Null}
    IN  /\ pc = "switch"
        /\ IF ~IsValidSection(s)
           THEN NextSection(MaxSwitches, "topology") /\ UNCHANGED switches
           ELSE IF \E p \in given : ~is_valid_dev_func(GetString(s, <<"port", p>>))
                THEN Goto("hung") /\ UNCHANGED switches
                ELSE /\ switches' = Append(switches,
                           [id |-> index, enabled |-> Enabled(s), ports |-> given])
                     /\ NextSection(MaxSwitches, "topology")
        /\ UNCHANGED <<inputs, items, ok, spdm_version, ports, topologies,
                       topCnt, configurations, confCnt, suites, suiteCnt,
                       function_id, prepared>>

\* The ids of the ports of this name (get_port_by_name), one or none.
get_port_by_name(n) == {i \in 1..Len(ports) : ports[i].name = n}
PortId(n) == CHOOSE i \in get_port_by_name(n) : TRUE

-----------------------------------------------------------------------------
(* [Topology_x].                                                           *)

\* ParseSwitchString: switch_i:port_u-port_d of an enabled switch.
ParseSwitchString(c) ==
    \E n \in 1..Len(switches) :
       /\ switches[n].id = c.switch /\ switches[n].enabled
       /\ {c.ups, c.dps} \subseteq switches[n].ports

\* ParseSwConnsString over the connections of a path: "good", or "null" when
\* the first one is bad.  When a later one is, the loop that frees the list
\* runs past its end.
ParseSwConnsString(conns) ==
    CASE \A n \in 1..Len(conns) : ParseSwitchString(conns[n]) -> "good"
      [] ~ParseSwitchString(conns[1]) -> "null"
      [] OTHER -> "crash"

\* ParsePathInTopologySection: what a path does to the topology t.  A switch
\* list is expected exactly when the connection has switches; otherwise the
\* name of the lower port is not one of a port.
ParsePath(s, entry, t) ==
    LET v == GetString(s, K(entry))
        first == entry = "path1"
        viaSwitch == t.connection \in {"switch", "peer2peer"}
        bad(u) == [st |-> "bad", top |-> u]
        t1 == [t EXCEPT !.root_port = PortId(v[2].root)]
        t2 == IF ~viaSwitch THEN t1
              ELSE IF first THEN [t1 EXCEPT !.sw_conn1 = v[2].conns]
              ELSE [t1 EXCEPT !.sw_conn2 = v[2].conns]
        low == PortId(v[2].end)
    IN  IF v[1] # "path" THEN bad(t)
        ELSE IF get_port_by_name(v[2].root) = {} THEN bad(t)
        ELSE IF viaSwitch /\ v[2].conns = <<>> THEN bad(t1)
        ELSE IF viaSwitch /\ ParseSwConnsString(v[2].conns) = "null" THEN bad(t1)
        ELSE IF viaSwitch /\ ParseSwConnsString(v[2].conns) = "crash"
             THEN [st |-> "crash", top |-> t1]
        ELSE IF ~viaSwitch /\ v[2].conns # <<>> THEN bad(t2)
        ELSE IF get_port_by_name(v[2].end) = {} THEN bad(t2)
        ELSE [st |-> "good",
              top |-> IF t.connection # "peer2peer"
                      THEN [t2 EXCEPT !.upper_port = PortId(v[2].root),
                                      !.lower_port = low]
                      ELSE IF first THEN [t2 EXCEPT !.upper_port = low]
                      ELSE [t2 EXCEPT !.lower_port = low]]

ParsePaths(s, t) ==
    LET r1 == ParsePath(s, "path1", t)
    IN  IF r1.st # "good" \/ t.connection # "peer2peer" THEN r1
        ELSE ParsePath(s, "path2", r1.top)

\* The numbers of a topology, read one after the other into data32, which
\* keeps the number read before when an entry is missing: a missing stream_id
\* takes the value of enabled, a missing bus that of the last number found.
StreamData(s) ==
    IF GetDecimalUint32(s, K("stream_id")) THEN Number(s, K("stream_id"))
    ELSE IF GetDecimalUint32(s, K("enabled")) THEN Number(s, K("enabled")) ELSE 0
FunctionData(s) ==
    IF GetHexUint32(s, K("tdisp_function_id"))
    THEN Number(s, K("tdisp_function_id")) ELSE StreamData(s)
SegmentData(s) ==
    IF g_scan_segment = InvalidSegment /\ GetHexUint32(s, K("segment"))
    THEN Number(s, K("segment")) ELSE FunctionData(s)
BusData(s) ==
    IF GetHexUint32(s, K("bus")) THEN Number(s, K("bus")) ELSE SegmentData(s)

\* Slip: a bus given on the command line is the default, not the override.
TopologyBusFileFirst(s) ==
    IF GetHexUint32(s, K("bus")) \/ g_scan_bus = InvalidBus
    THEN BusData(s) % 256 ELSE g_scan_bus

TopologyBus(s) ==
    IF g_scan_bus # InvalidBus THEN g_scan_bus ELSE BusData(s) % 256

TopologySegment(s) ==
    IF g_scan_segment # InvalidSegment THEN g_scan_segment
    ELSE IF GetHexUint32(s, K("segment")) THEN Number(s, K("segment")) ELSE 0

MaxFunctionId == 33554431     \* 0x1ffffff

\* Slip: the id is set first, so a rejected section leaves a marked slot.
TopologySectionEarlyId(s, slot) ==
    LET bad(t) == [st |-> "bad", top |-> t]
        t0 == [slot EXCEPT !.enabled = Enabled(s), !.id = index]
        t1 == [t0 EXCEPT !.type = GetString(s, K("type"))[2]]
        t2 == [t1 EXCEPT !.connection = GetString(s, K("connection"))[2],
                         !.stream_id = StreamData(s) % 256]
        t3 == [t2 EXCEPT !.segment = TopologySegment(s), !.bus = TopologyBus(s)]
        r == ParsePaths(s, t3)
    IN  IF ~is_valid(GetString(s, K("type")), Types) THEN bad(t0)
        ELSE IF ~is_valid(GetString(s, K("connection")), Connections) THEN bad(t1)
        ELSE IF FunctionData(s) > MaxFunctionId
                /\ GetHexUint32(s, K("tdisp_function_id")) THEN bad(t2)
        ELSE IF TopologySegment(s) > 65535 THEN bad(t2)
        ELSE IF r.st # "good" THEN r
        ELSE IF r.top.lower_port = r.top.upper_port THEN bad(r.top)
        ELSE [st |-> "good", top |-> r.top]

\* ParseTopologySection works in the first free slot, which a rejected
\* section leaves as far filled as it came; the id is what marks it as taken.
TopologySection(s, slot) ==
    LET bad(t) == [st |-> "bad", top |-> t]
        t0 == [slot EXCEPT !.enabled = Enabled(s)]
        t1 == [t0 EXCEPT !.type = GetString(s, K("type"))[2]]
        t2 == [t1 EXCEPT !.connection = GetString(s, K("connection"))[2],
                         !.stream_id = StreamData(s) % 256]
        t3 == [t2 EXCEPT !.segment = TopologySegment(s), !.bus = TopologyBus(s)]
        r == ParsePaths(s, t3)
    IN  IF ~is_valid(GetString(s, K("type")), Types) THEN bad(t0)
        ELSE IF ~is_valid(GetString(s, K("connection")), Connections) THEN bad(t1)
        ELSE IF FunctionData(s) > MaxFunctionId
                /\ GetHexUint32(s, K("tdisp_function_id")) THEN bad(t2)
        ELSE IF TopologySegment(s) > 65535 THEN bad(t2)
        ELSE IF r.st # "good" THEN r
        ELSE IF r.top.lower_port = r.top.upper_port THEN bad(r.top)
        ELSE [st |-> "good", top |-> [r.top EXCEPT !.id = index]]

\* Reached in ParseTopologySection: the global function id is set on the way.
ReachesFunctionId(s) ==
    /\ is_valid(GetString(s, K("type")), Types)
    /\ is_valid(GetString(s, K("connection")), Connections)
    /\ GetHexUint32(s, K("tdisp_function_id"))
    /\ FunctionData(s) <= MaxFunctionId

ParseTopologySection ==
    LET s == <<"Topology", index>>
        r == TopologySection(s, topologies[topCnt + 1])
        cnt == topCnt + (IF r.st = "good" THEN 1 ELSE 0)
        Leave(n) == NextSection(MaxTopologies,
                                IF n = 0 THEN "close" ELSE "configuration")
    IN  /\ pc = "topology"
        /\ IF ~IsValidSection(s)
           THEN Leave(topCnt) /\ UNCHANGED <<topologies, topCnt, function_id>>
           ELSE /\ topologies' = [topologies EXCEPT ![topCnt + 1] = r.top]
                /\ topCnt' = cnt
                /\ function_id' = IF ReachesFunctionId(s) THEN FunctionData(s)
                                  ELSE function_id
                /\ IF r.st = "crash" THEN Goto("crashed") ELSE Leave(cnt)
        /\ UNCHANGED <<inputs, items, ok, spdm_version, ports, switches,
                       configurations, confCnt, suites, suiteCnt, prepared>>

-----------------------------------------------------------------------------
(* [Configuration_x] and [TestSuite_x].                                     *)

\* The names of the configuration items of a category, in the order of their
\* bits (m_ide_test_configuration_name and its counterparts).
ItemNames(c) ==
    CASE c = "pcie-ide" ->
            <<"default", "switch", "partial_header_encryption", "pcrc",
              "aggregation", "selective_ide_for_configuration",
              "tee_limited_stream", "flit_mode_disable">>
      [] c = "cxl-ide" -> <<"default", "pcrc_disable", "ide_stop", "cxl_get_key">>
      [] OTHER -> <<"default">>

\* The index that runs over the private names is not reset before it runs
\* over the items, so cxl-ide misses its first one.
FirstItem(c) == IF c = "cxl-ide" THEN 2 ELSE 1

\* The classes of test cases of a category in the order of their ids, with
\* the number of cases that have functions; "Test" has names, not numbers.
Class(n, cnt) == [class |-> n, cnt |-> cnt]
m_test_case_names ==
    <<Class("Query", 2), Class("KeyProg", 6), Class("KSetGo", 4),
      Class("KSetStop", 4), Class("SpdmSession", 2), Class("Test", 3)>>
m_cxl_ide_test_case_names ==
    <<Class("Query", 2), Class("KeyProg", 9), Class("KSetGo", 1),
      Class("KSetStop", 1), Class("GetKey", 1), Class("Test", 2)>>
m_tdisp_test_case_names ==
    <<Class("Version", 1), Class("Capabilities", 1), Class("LockInterface", 4),
      Class("DeviceReport", 5), Class("DeviceState", 4),
      Class("StartInterface", 4), Class("StopInterface", 3)>>
m_cxl_tsp_test_case_names ==
    <<Class("GetVersion", 1), Class("GetCapabilities", 1),
      Class("SetConfiguration", 1), Class("GetConfiguration", 1),
      Class("GetConfigurationReport", 1), Class("LockConfiguration", 2)>>
m_spdm_test_case_names ==
    [k \in 1..Len(SpdmClasses) |-> Class(SpdmClasses[k], SpdmCases[k])]
CaseClasses(c) ==
    CASE c = "pcie-ide" -> m_test_case_names
      [] c = "cxl-ide" -> m_cxl_ide_test_case_names
      [] c = "tdisp" -> m_tdisp_test_case_names
      [] c = "cxl-tsp" -> m_cxl_tsp_test_case_names
      [] c = "spdm" -> m_spdm_test_case_names

\* category and type of a section: pcie-ide by default; the other categories
\* but TDISP are of type link_ide whatever the section says.
CategoryOf(s) ==
    LET v == GetString(s, K("category"))
    IN  IF v = Null THEN "pcie-ide" ELSE v[2]
NeedsType(c) == c \in {"pcie-ide", "tdisp"}
TypeOf(s) == IF NeedsType(CategoryOf(s)) THEN GetString(s, K("type"))[2]
             ELSE "link_ide"
KindValid(s) ==
    /\ GetString(s, K("category")) # Null =>
          is_valid(GetString(s, K("category")), Categories)
    /\ NeedsType(CategoryOf(s)) => is_valid(GetString(s, K("type")), Types)

\* The default item is set by check_configuration_bitmap in every category.
BitMap(s, c) ==
    {"default"} \cup
    {ItemNames(c)[i] : i \in {j \in FirstItem(c)..Len(ItemNames(c)) :
        /\ GetDecimalUint32(s, K(ItemNames(c)[j]))
        /\ Number(s, K(ItemNames(c)[j])) = 1}}

IdeMode(s, c) ==
    LET v == GetString(s, K("cxl_ide_mode"))
    IN  IF c = "cxl-ide" /\ is_valid(v, <<"containment", "skid">>) THEN v[2]
        ELSE "containment"

\* A type that is none there is: the message about it takes the value's first
\* character for the address of a string.  A missing type is only reported.
TypeMisprinted(s) ==
    /\ GetString(s, K("category")) # Null =>
          is_valid(GetString(s, K("category")), Categories)
    /\ NeedsType(CategoryOf(s))
    /\ GetString(s, K("type")) # Null
    /\ ~is_valid(GetString(s, K("type")), Types)

ParseConfigurationSection ==
    LET s == <<"Configuration", index>>
        c == CategoryOf(s)
        misprinted == IsValidSection(s) /\ TypeMisprinted(s)
        good == /\ IsValidSection(s) /\ KindValid(s)
                /\ \A i \in 1..MaxConfigurations : configurations[i].id # index
        cnt == confCnt + (IF good THEN 1 ELSE 0)
    IN  /\ pc = "configuration"
        /\ configurations' =
             IF good THEN [configurations EXCEPT ![index] =
                             [id |-> index, enabled |-> Enabled(s),
                              type |-> TypeOf(s), category |-> c,
                              bit_map |-> BitMap(s, c), mode |-> IdeMode(s, c)]]
             ELSE configurations
        /\ confCnt' = cnt
        /\ IF misprinted THEN Goto("crashed") /\ UNCHANGED ok
           ELSE IF cnt = 0 /\ index = MaxConfigurations
           THEN Goto("close") /\ UNCHANGED ok
           ELSE /\ NextSection(MaxConfigurations,
                               IF g_run_test_suite THEN "suite" ELSE "close")
                /\ ok' = (index = MaxConfigurations /\ ~g_run_test_suite)
        /\ UNCHANGED <<inputs, items, spdm_version, ports, switches, topologies,
                       topCnt, suites, suiteCnt, function_id, prepared>>

\* Slip: a topology is looked for in the slot of its number, where
\* configurations are, and not in the next free one it was put in.
get_topology_at_slot(n) ==
    {i \in 1..MaxTopologies :
        i = n /\ topologies[i].id = n /\ topologies[i].enabled}

\* get_topology_by_id and get_configuration_by_id search all slots.
get_topology_by_id(n) ==
    {i \in 1..MaxTopologies : n > 0 /\ topologies[i].id = n /\ topologies[i].enabled}
get_configuration_by_id(n) ==
    {i \in 1..MaxConfigurations :
        n > 0 /\ configurations[i].id = n /\ configurations[i].enabled}

\* ParseTestSuiteCaseEntry for one class: a list longer than the class, or
\* with a number above its highest, counts as no list.
ParseTestSuiteCaseEntry(s, k) ==
    LET a == GetUint32Array(GetString(s, K(k.class)))
    IN  IF \/ k.class = "Test" \/ Len(a) > k.cnt
           \/ \E i \in 1..Len(a) : a[i] > k.cnt
        THEN <<>> ELSE a

\* Slip: the type of the configuration is not compared.
SuiteConfigurationAnyType(s) ==
    /\ GetDecimalUint32(s, K("configuration"))
    /\ \E i \in get_configuration_by_id(Number(s, K("configuration"))) :
          configurations[i].category = CategoryOf(s)

SuiteConfiguration(s) ==
    /\ GetDecimalUint32(s, K("configuration"))
    /\ \E i \in get_configuration_by_id(Number(s, K("configuration"))) :
          /\ configurations[i].type = TypeOf(s)
          /\ configurations[i].category = CategoryOf(s)

SuiteTopology(s) ==
    /\ GetDecimalUint32(s, K("topology"))
    /\ \E i \in get_topology_by_id(Number(s, K("topology"))) :
          topologies[i].type = TypeOf(s)

ParseTestSuiteSection ==
    LET s == <<"TestSuite", index>>
        c == CategoryOf(s)
        good == /\ IsValidSection(s) /\ KindValid(s)
                /\ SuiteTopology(s) /\ SuiteConfiguration(s)
        cnt == suiteCnt + (IF good THEN 1 ELSE 0)
    IN  /\ pc = "suite"
        /\ suites' =
             IF good THEN [suites EXCEPT ![index] =
                 [id |-> index, enabled |-> Enabled(s), type |-> TypeOf(s),
                  category |-> c, topology_id |-> Number(s, K("topology")),
                  configuration_id |-> Number(s, K("configuration")),
                  cases |-> [i \in 1..Len(CaseClasses(c)) |->
                               ParseTestSuiteCaseEntry(s, CaseClasses(c)[i])]]]
             ELSE suites
        /\ suiteCnt' = cnt
        /\ ok' = (index = MaxSuites /\ cnt > 0)
        /\ NextSection(MaxSuites, "close")
        /\ UNCHANGED <<inputs, items, spdm_version, ports, switches, topologies,
                       topCnt, configurations, confCnt, function_id, prepared>>

-----------------------------------------------------------------------------
(* The choice of one case, and the chain of suites to run.                  *)

\* get_test_category_from_configuration looks in the first confCnt slots
\* only, though a configuration is stored in the slot of its number.
NamedConfiguration ==
    {i \in 1..confCnt : configurations[i].id = opt.config_id}

\* get_test_case_from_string: the classes of this name in a category.
get_test_case_from_string(c) ==
    {k \in 1..Len(CaseClasses(c)) :
        /\ CaseClasses(c)[k].class = opt.test_case[1]
        /\ opt.test_case[2] \in 1..CaseClasses(c)[k].cnt}

\* update_test_config_with_given_top_config_id: suite 1 becomes the case.
SuiteOfCase(c) ==
    LET top == topologies[CHOOSE i \in get_topology_by_id(opt.top_id) : TRUE]
    IN  [id |-> 1, enabled |-> TRUE, type |-> top.type, category |-> c,
         topology_id |-> opt.top_id, configuration_id |-> opt.config_id,
         cases |-> [k \in 1..Len(CaseClasses(c)) |->
                      IF k \in get_test_case_from_string(c)
                      THEN <<opt.test_case[2]>> ELSE <<>>]]

SelectCase ==
    LET named == NamedConfiguration
        c == configurations[CHOOSE i \in named : TRUE].category
        found == /\ NoOption \notin {opt.top_id, opt.config_id}
                 /\ named # {}
                 /\ get_test_case_from_string(c) # {}
                 /\ get_configuration_by_id(opt.config_id) # {}
                 /\ get_topology_by_id(opt.top_id) # {}
    IN  /\ pc = "select"
        /\ IF g_run_test_suite THEN Goto("prepare") /\ UNCHANGED <<suites, suiteCnt>>
           ELSE IF ~found THEN Goto("exit") /\ UNCHANGED <<suites, suiteCnt>>
           ELSE /\ suites' = [suites EXCEPT ![1] = SuiteOfCase(c)]
                /\ suiteCnt' = 1
                /\ Goto("prepare")
        /\ UNCHANGED <<inputs, items, ok, spdm_version, ports, switches,
                       topologies, topCnt, configurations, confCnt,
                       function_id, prepared>>

\* The items that have functions in a category and for a type of topology.
BitMask(c, type) ==
    LET all == Elements(ItemNames(c))
    IN  CASE c # "pcie-ide" \/ type = "selective_ide" -> all
          [] type = "link_ide" ->
                all \ {"selective_ide_for_configuration", "tee_limited_stream"}
          [] OTHER -> all \ {"switch", "tee_limited_stream"}

\* The groups of a suite, in the order of their class ids: a class has one
\* if it has cases.
GroupsOf(suite) ==
    [k \in {j \in 1..Len(suite.cases) : suite.cases[j] # <<>>} |->
        [class |-> CaseClasses(suite.category)[k].class,
         cases |-> suite.cases[k]]]

\* One pass of the loop of prepare_tests_data: alloc_run_test_config with its
\* assertions, then alloc_run_test_cases, where case 0 indexes the functions
\* with -1.
prepare_tests_data ==
    LET suite == suites[index]
        tops == get_topology_by_id(suite.topology_id)
        top == topologies[CHOOSE i \in tops : TRUE]
        confs == get_configuration_by_id(suite.configuration_id)
        conf == configurations[CHOOSE i \in confs : TRUE]
        asserted == /\ confs # {}
                    /\ top.type = conf.type
                    /\ suite.category = "tdisp" => conf.type = "selective_ide"
        groups == GroupsOf(suite)
        wild == \E k \in DOMAIN groups : 0 \in Elements(groups[k].cases)
    IN  /\ pc = "prepare"
        /\ IF suite.id = 0 \/ ~suite.enabled \/ tops = {}
           THEN NextSection(MaxSuites, "run") /\ UNCHANGED prepared
           ELSE IF ~asserted THEN Goto("hung") /\ UNCHANGED prepared
           ELSE IF wild THEN Goto("crashed") /\ UNCHANGED prepared
           ELSE /\ prepared' = Append(prepared,
                     [id |-> suite.id, category |-> suite.category, top |-> top,
                      config_id |-> conf.id,
                      items |-> conf.bit_map \cap BitMask(suite.category, top.type),
                      groups |-> groups])
                /\ NextSection(MaxSuites, "run")
        /\ UNCHANGED <<inputs, items, ok, config>>

Next ==
    \/ parse_cmdline_option
    \/ OpenIniFile
    \/ ParseMainSection
    \/ ParsePortsSection("rootport", "endpoint")
    \/ ParsePortsSection("endpoint", "switch")
    \/ ParseSwitchesSection
    \/ ParseTopologySection
    \/ ParseConfigurationSection
    \/ ParseTestSuiteSection
    \/ CloseIniFile
    \/ CloseIniFileAgain
    \/ SelectCase
    \/ prepare_tests_data

Spec == Init /\ [][Next]_vars

-----------------------------------------------------------------------------
(* Properties.                                                              *)

Labels == {"cmdline", "open", "main", "rootport", "endpoint", "switch",
           "topology", "configuration", "suite", "close", "select", "prepare",
           "run", "exit", "hung", "crashed"}

Bytes == 0..InvalidBus
Segments == 0..InvalidSegment

\* Types and ranges; the counts agree with the ids that mark slots as taken,
\* and a topology refers to ports that exist.
TypeOK ==
    /\ pc \in Labels
    /\ index \in Nat \ {0}
    /\ ok \in BOOLEAN
    /\ spdm_version \in Versions
    /\ Len(ports) <= MaxPorts /\ Len(switches) <= MaxSwitches
    /\ topCnt = Cardinality({i \in 1..MaxTopologies : topologies[i].id # 0})
    /\ confCnt = Cardinality({i \in 1..MaxConfigurations :
                                 configurations[i].id # 0})
    /\ suiteCnt = Cardinality({i \in 1..MaxSuites : suites[i].id # 0})
    /\ \A i \in 1..MaxTopologies :
          /\ topologies[i].id # 0 =>
                {topologies[i].root_port, topologies[i].upper_port,
                 topologies[i].lower_port} \subseteq 1..Len(ports)
          /\ {topologies[i].stream_id, topologies[i].bus} \subseteq Bytes
          /\ topologies[i].segment \in Segments
    /\ Len(prepared) <= MaxSuites

\* What a file f says, without the parser: the value of the last line that
\* gives entry e in a section called s.
Said(f, s, e) ==
    LET at == {i \in Lines(f) : /\ f[i].kind = "entry"
                                /\ f[i].name = e
                                /\ HeaderOf(f, i) # 0
                                /\ f[HeaderOf(f, i)].name = s}
    IN  IF at = {} THEN Null ELSE f[Max(at)].value
SaidOff(f, s) ==
    Said(f, s, K("enabled"))[1] = "dec" /\ Said(f, s, K("enabled"))[2] # 1
SaidOn(f, s, e) == Said(f, s, K(e))[1] = "dec" /\ Said(f, s, K(e))[2] = 1
SaidCategory(f, s) == IF Said(f, s, K("category")) = Null THEN "pcie-ide"
                      ELSE Said(f, s, K("category"))[2]
SaidType(f, s) == IF SaidCategory(f, s) \in {"pcie-ide", "tdisp"}
                  THEN Said(f, s, K("type"))[2] ELSE "link_ide"

\* The number a suite gives for its topology or its configuration.
SaidNumber(f, s, e) ==
    IF Said(f, s, K(e))[1] = "dec" THEN Said(f, s, K(e))[2] ELSE 0

\* Every entry of the file has a value.
Complete(f) == \A i \in Lines(f) : f[i].kind # "novalue"

\* The ends of topology t are the ports its paths name, and the switches on
\* the way are the ones of its paths, not of a section that was rejected
\* while it was worked on in the same slot.
AsDrawn(f, p, t) ==
    LET p1 == Said(f, <<"Topology", t.id>>, K("path1"))[2]
        p2 == Said(f, <<"Topology", t.id>>, K("path2"))[2]
    IN  CASE t.connection = "direct" ->
               /\ p[t.upper_port].name = p1.root
               /\ p[t.lower_port].name = p1.end
          [] t.connection = "switch" ->
               /\ p[t.upper_port].name = p1.root
               /\ p[t.lower_port].name = p1.end
               /\ t.sw_conn1 = p1.conns
          [] t.connection = "peer2peer" ->
               /\ p[t.upper_port].name = p1.end
               /\ p[t.lower_port].name = p2.end
               /\ t.sw_conn1 = p1.conns /\ t.sw_conn2 = p2.conns

\* What is run is what the file describes: a suite in the chain that main
\* hands to the runner is one of the file, not disabled, on the topology and
\* the configuration its section names, of the type and the category all
\* three agree on, between the ports the paths name, with the items switched
\* on there and with the cases listed.  The suites come in the order of their
\* numbers, once each.
RunAsWritten ==
    (pc = "run" /\ g_run_test_suite /\ Complete(file)) =>
    /\ \A i, j \in 1..Len(prepared) : i < j => prepared[i].id < prepared[j].id
    /\ \A i \in 1..Len(prepared) :
          LET r == prepared[i]
              s == <<"TestSuite", r.id>>
              t == <<"Topology", SaidNumber(file, s, "topology")>>
              c == <<"Configuration", SaidNumber(file, s, "configuration")>>
          IN  /\ ~SaidOff(file, s) /\ ~SaidOff(file, t) /\ ~SaidOff(file, c)
              /\ r.top.id = SaidNumber(file, s, "topology")
              /\ r.category = SaidCategory(file, s)
              /\ r.category = SaidCategory(file, c)
              /\ r.top.type = Said(file, t, K("type"))[2]
              /\ r.top.type = SaidType(file, s) /\ r.top.type = SaidType(file, c)
              /\ r.top.connection = Said(file, t, K("connection"))[2]
              /\ AsDrawn(file, ports, r.top)
              /\ \A item \in r.items \ {"default"} : SaidOn(file, c, item)
              /\ \A k \in DOMAIN r.groups :
                    r.groups[k].cases =
                        GetUint32Array(Said(file, s, K(r.groups[k].class)))

\* A section whose category and type are ones there are.
WellFormedKind(f, s) ==
    /\ Said(f, s, K("category")) # Null =>
          is_valid(Said(f, s, K("category")), Categories)
    /\ SaidCategory(f, s) \in {"pcie-ide", "tdisp"} =>
          is_valid(Said(f, s, K("type")), Types)

\* Switch w.switch is described, switched on, and has the two ports.
SwitchExists(f, w) ==
    /\ w.switch \in 1..MaxSwitches /\ {w.ups, w.dps} \subseteq 1..MaxSwitchPorts
    /\ ~SaidOff(f, <<"Switch", w.switch>>)
    /\ \A n \in {w.ups, w.dps} :
          Said(f, <<"Switch", w.switch>>, <<"port", n>>) # Null

\* A path from one of the ports p to another, over switches where the
\* connection has them.
WellFormedPath(f, p, v, conn) ==
    /\ v[1] = "path"
    /\ {v[2].root, v[2].end} \subseteq {p[i].name : i \in 1..Len(p)}
    /\ conn = "direct" <=> v[2].conns = <<>>
    /\ \A w \in Elements(v[2].conns) : SwitchExists(f, w)

WellFormedTopology(f, p, n) ==
    LET s == <<"Topology", n>>
        p1 == Said(f, s, K("path1"))
        p2 == Said(f, s, K("path2"))
        conn == Said(f, s, K("connection"))[2]
        seg == Said(f, s, K("segment"))
        fid == Said(f, s, K("tdisp_function_id"))
    IN  /\ ~SaidOff(f, s)
        /\ is_valid(Said(f, s, K("type")), Types)
        /\ is_valid(Said(f, s, K("connection")), Connections)
        /\ WellFormedPath(f, p, p1, conn)
        /\ IF conn = "peer2peer"
           THEN WellFormedPath(f, p, p2, conn) /\ p1[2].end # p2[2].end
           ELSE p1[2].root # p1[2].end
        /\ seg[1] = "hex" => seg[2] <= 65535
        /\ fid[1] = "hex" => fid[2] <= MaxFunctionId

\* Nothing is left out: when the program goes on to run suites, a suite of
\* the file is missing in the chain only if it, its topology or its
\* configuration is switched off, malformed or absent, or if the three do not
\* agree on type and category.  Topologies of every connection are meant,
\* with their paths, and with or without a TDISP function id.  Gaps in the
\* numbering, and sections rejected earlier, cost no other suite.
NothingLeftOut ==
    (pc = "run" /\ g_run_test_suite /\ Complete(file)) =>
    \A n \in 1..MaxSuites :
       LET s == <<"TestSuite", n>>
           t == SaidNumber(file, s, "topology")
           c == <<"Configuration", SaidNumber(file, s, "configuration")>>
       IN  (/\ ~SaidOff(file, s) /\ ~SaidOff(file, c)
            /\ t \in 1..MaxTopologies /\ WellFormedTopology(file, ports, t)
            /\ c[2] \in 1..MaxConfigurations
            /\ \E i \in Lines(file) : /\ file[i].kind = "entry"
                                      /\ HeaderOf(file, i) # 0
                                      /\ file[HeaderOf(file, i)].name = c
            /\ WellFormedKind(file, s) /\ WellFormedKind(file, c)
            /\ SaidCategory(file, s) = SaidCategory(file, c)
            /\ SaidType(file, s) = SaidType(file, c)
            /\ SaidType(file, s) = Said(file, <<"Topology", t>>, K("type"))[2])
           => \E i \in 1..Len(prepared) : prepared[i].id = n

PortLines(f) == {i \in Lines(f) : f[i].name[1] \in {"rootport", "endpoint"}}
ClassNames ==
    UNION {{k.class : k \in Elements(CaseClasses(c))} : c \in Elements(Categories)}

\* A file none of whose sections stops the program: entries have values, the
\* ports are dev.func strings and fit the array, every switch on a path is
\* there and switched on, cases are numbered from 1, a configuration that
\* gives a type gives one there is, and TDISP sections are selective.  This
\* is narrower than doc/ide_test_ini.md, which allows rootport_1..16 with
\* endpoint_1..16 (45-46) where MAX_SUPPORTED_PORTS_NUM is 16 for both
\* together, TDISP with link_ide and selective_and_link_ide (211-229), which
\* tdisp_common.c asserts away, and does not forbid a path over a disabled
\* switch; the program stops on such files.
WellFormed(f) ==
    /\ f # <<>> /\ Complete(f)
    /\ \A i \in {j \in Lines(f) : f[j].kind = "entry"} :
          LET l == f[i]
          IN  /\ l.name[1] \in {"rootport", "endpoint", "port"} => l.value[1] = "df"
              /\ l.value[1] = "path" =>
                   \A w \in Elements(l.value[2].conns) : SwitchExists(f, w)
              /\ l.name[1] \in ClassNames => 0 \notin Elements(GetUint32Array(l.value))
              /\ (l.value[1] = "word" /\ l.value[2] = "tdisp") =>
                   SaidType(f, f[HeaderOf(f, i)].name) = "selective_ide"
    /\ \A n \in 1..MaxConfigurations :
          LET s == <<"Configuration", n>>
          IN  (/\ SaidCategory(f, s) \in {"pcie-ide", "tdisp"}
               /\ Said(f, s, K("type")) # Null)
                 => is_valid(Said(f, s, K("type")), Types)
    /\ Cardinality(PortLines(f)) <= MaxPorts

\* No assertion fails and no memory is misused on such a file while the
\* suites are read and prepared, whatever the sections say of each other.
\* (Not every file of doc/ide_test_ini.md is one: see WellFormed.)
NoStopOnGoodFile ==
    (WellFormed(file) /\ g_run_test_suite) => pc \notin {"hung", "crashed"}

\* -g and -b replace the segment and the bus of every topology of the file,
\* but for -g 0xffff and -b 0xff: the command line accepts them, and they are
\* the values that stand for an option not given, so they replace nothing.
\* Then a topology has what its own section says, not a number left over from
\* another entry or another section.  A section without bus entry is left
\* out: there the code does store the number it read last.
Overridden(f, o, t) ==
    LET said == Said(f, <<"Topology", t.id>>, K("segment"))
        bus == Said(f, <<"Topology", t.id>>, K("bus"))
    IN  /\ t.segment = IF o.segment \notin {NoOption, InvalidSegment} THEN o.segment
                       ELSE IF said[1] = "hex" THEN said[2] ELSE 0
        /\ o.bus \notin {NoOption, InvalidBus} => t.bus = o.bus
        /\ (o.bus \in {NoOption, InvalidBus} /\ bus[1] = "hex")
              => t.bus = bus[2] % 256
OverridesApply ==
    \A i \in 1..MaxTopologies :
       (topologies[i].id # 0 /\ Complete(file)) => Overridden(file, opt, topologies[i])

\* With -s exactly one case is run: the one named, with the configuration and
\* on the topology given by -c and -t.
OneCase ==
    (pc = "run" /\ ~g_run_test_suite) =>
    /\ Len(prepared) = 1
    /\ prepared[1].top.id = opt.top_id
    /\ prepared[1].config_id = opt.config_id
    /\ \E k \in DOMAIN prepared[1].groups :
          /\ DOMAIN prepared[1].groups = {k}
          /\ prepared[1].groups[k] = [class |-> opt.test_case[1],
                                      cases |-> <<opt.test_case[2]>>]

\* What the command line says is what happens: the overrides, as far as their
\* values are not those of an option not given, and the one case.
OptionsApply == OverridesApply /\ OneCase
-----------------------------------------------------------------------------
(* The inductive invariant.  Its parts describe what has been stored by what *)
(* the file says, so that they survive the sections that follow.             *)

\* Where the entries of the file are known, and how far the sections have
\* been read: ok is set when the last loop is left with success.
Reading == {"main", "rootport", "endpoint", "switch", "topology",
            "configuration", "suite", "close", "select", "prepare", "run"}
Parsing == {"cmdline", "open", "main", "rootport", "endpoint", "switch",
            "topology", "configuration", "suite"}
SwitchesRead == pc \in {"topology", "configuration", "suite"} \/ ok
TopologiesRead == pc \in {"configuration", "suite"} \/ ok
ConfigurationsRead == pc = "suite" \/ ok

\* Sections in front of the one being read, or all once they are read.
Before(n, here, read) == (pc = here /\ n < index) \/ read

InputsKnown ==
    /\ file \in Files /\ opt \in Options
    /\ pc \notin {"cmdline", "exit"} =>
          /\ InRange(opt.top_id, MaxTopologies)
          /\ InRange(opt.config_id, MaxConfigurations)
          /\ opt.segment <= 65535 /\ opt.bus <= 255

ItemsKnown ==
    pc \in Reading => \E lost \in SUBSET Dangling(file) : items = Entries(file, lost)

Progress ==
    /\ pc \in Labels /\ ok \in BOOLEAN /\ spdm_version \in Versions
    /\ index \in Nat \ {0}
    /\ pc = "switch" => index <= MaxSwitches
    /\ pc = "topology" => index <= MaxTopologies
    /\ pc = "configuration" => index <= MaxConfigurations
    /\ pc \in {"suite", "prepare"} => index <= MaxSuites
    /\ pc \in Parsing => ~ok
    /\ pc \in {"select", "prepare", "run"} => ok
    /\ pc = "suite" => g_run_test_suite

\* The ports have names of their own, each given by a line of the file.
PortsKnown ==
    /\ ports \in Seq(Elements(ports))
    /\ Len(ports) <= MaxPorts
    /\ \A i \in 1..Len(ports) :
          \E l \in PortLines(file) : ports[i].name = file[l].name
    /\ \A i, j \in 1..Len(ports) : i # j => ports[i].name # ports[j].name
    /\ pc \in {"cmdline", "open", "main"} => ports = <<>>
    /\ pc = "rootport" =>
          \A i \in 1..Len(ports) : \E n \in 1..(index - 1) :
             ports[i].name = <<"rootport", n>>
    /\ pc = "endpoint" =>
          \A i \in 1..Len(ports) :
             \/ ports[i].name[1] = "rootport"
             \/ \E n \in 1..(index - 1) : ports[i].name = <<"endpoint", n>>

\* The switches are in the order of their sections.
SwitchStored(f, sw, n) ==
    \E i \in 1..Len(sw) :
       /\ sw[i].id = n /\ sw[i].enabled = ~SaidOff(f, <<"Switch", n>>)
       /\ sw[i].ports = {p \in 1..MaxSwitchPorts :
                            Said(f, <<"Switch", n>>, <<"port", p>>) # Null}
SectionGiven(f, s) ==
    \E i \in Lines(f) : /\ f[i].kind = "entry" /\ HeaderOf(f, i) # 0
                        /\ f[HeaderOf(f, i)].name = s
SwitchesKnown ==
    /\ switches \in Seq(Elements(switches))
    /\ Len(switches) <= MaxSwitches
    /\ pc \in {"cmdline", "open", "main", "rootport", "endpoint"} => switches = <<>>
    /\ pc = "switch" => Len(switches) < index
    /\ Complete(file) =>
          \A n \in 1..MaxSwitches :
             (Before(n, "switch", SwitchesRead) /\ SectionGiven(file, <<"Switch", n>>))
                => SwitchStored(file, switches, n)

\* A topology in its slot: what its section says.
Conns(f) ==
    {<<>>} \cup {f[i].value[2].conns :
        i \in {j \in Lines(f) : f[j].kind = "entry" /\ f[j].value[1] = "path"}}
TopologySet ==
    [id : Nat, enabled : BOOLEAN, type : Elements(Types),
     connection : Elements(Connections), root_port : Nat, upper_port : Nat,
     lower_port : Nat, sw_conn1 : Conns(file), sw_conn2 : Conns(file),
     segment : Segments, bus : Bytes, stream_id : Bytes]
TopologyAsSaid(f, p, t) ==
    /\ t.enabled = ~SaidOff(f, <<"Topology", t.id>>)
    /\ t.type = Said(f, <<"Topology", t.id>>, K("type"))[2]
    /\ t.connection = Said(f, <<"Topology", t.id>>, K("connection"))[2]
    /\ AsDrawn(f, p, t)
TopologiesKnown ==
    /\ topologies \in [1..MaxTopologies -> TopologySet]
    /\ topCnt \in 0..MaxTopologies
    /\ pc \in {"cmdline", "open", "main", "rootport", "endpoint", "switch"} => topCnt = 0
    /\ pc = "topology" => topCnt < index
    /\ \A i \in 1..MaxTopologies : i > topCnt => topologies[i].id = 0
    /\ \A i \in 1..topCnt :
          /\ topologies[i].id # 0
          /\ pc = "topology" => topologies[i].id < index
          /\ {topologies[i].root_port, topologies[i].upper_port,
              topologies[i].lower_port} \subseteq 1..Len(ports)
          /\ Complete(file) => /\ TopologyAsSaid(file, ports, topologies[i])
                               /\ Overridden(file, opt, topologies[i])
    /\ \A i, j \in 1..topCnt : i < j => topologies[i].id < topologies[j].id
    /\ Complete(file) =>
          \A n \in 1..MaxTopologies :
             (Before(n, "topology", TopologiesRead)
              /\ WellFormedTopology(file, ports, n))
                => \E i \in 1..topCnt : topologies[i].id = n

\* A configuration in the slot of its number.
ConfigurationAsSaid(f, c) ==
    LET s == <<"Configuration", c.id>>
    IN  /\ c.enabled = ~SaidOff(f, s)
        /\ c.type = SaidType(f, s) /\ c.category = SaidCategory(f, s)
        /\ \A item \in c.bit_map \ {"default"} : SaidOn(f, s, item)
ConfigurationsKnown ==
    /\ DOMAIN configurations = 1..MaxConfigurations
    /\ confCnt = Cardinality({i \in 1..MaxConfigurations : configurations[i].id # 0})
    /\ \A i \in 1..MaxConfigurations :
          /\ configurations[i].id \in {0, i}
          /\ configurations[i].id # 0 =>
                configurations[i].category \in Elements(Categories)
          /\ (configurations[i].id # 0 /\ Complete(file)) =>
                ConfigurationAsSaid(file, configurations[i])
          /\ (pc \in Parsing \ {"configuration", "suite"} \/
              (pc = "configuration" /\ i >= index)) => configurations[i].id = 0
          /\ (Complete(file) /\ Before(i, "configuration", ConfigurationsRead)
              /\ SectionGiven(file, <<"Configuration", i>>)
              /\ WellFormedKind(file, <<"Configuration", i>>))
                => configurations[i].id = i

\* A suite in the slot of its number: its section was accepted, so it fits
\* the topology and the configuration it names, which are not changed later.
SuiteFits(suite) ==
    /\ suite.category \in Elements(Categories)
    /\ \E j \in get_topology_by_id(suite.topology_id) :
          topologies[j].type = suite.type
    /\ \E j \in get_configuration_by_id(suite.configuration_id) :
          /\ configurations[j].type = suite.type
          /\ configurations[j].category = suite.category
SuiteAsSaid(f, suite) ==
    LET s == <<"TestSuite", suite.id>>
    IN  /\ suite.enabled = ~SaidOff(f, s)
        /\ suite.type = SaidType(f, s) /\ suite.category = SaidCategory(f, s)
        /\ suite.topology_id = SaidNumber(f, s, "topology")
        /\ suite.configuration_id = SaidNumber(f, s, "configuration")
        /\ suite.category = "tdisp" => \E i \in Lines(f) :
              /\ f[i].kind = "entry" /\ f[HeaderOf(f, i)].name = s
              /\ f[i].value[1] = "word" /\ f[i].value[2] = "tdisp"
        /\ suite.cases \in Seq(Elements(suite.cases))
        /\ Len(suite.cases) = Len(CaseClasses(suite.category))
        /\ \A k \in 1..Len(suite.cases) :
              suite.cases[k] \in
                 {<<>>, GetUint32Array(Said(f, s,
                           K(CaseClasses(suite.category)[k].class)))}
SuiteWritten(f, p, n) ==
    LET s == <<"TestSuite", n>>
        t == SaidNumber(f, s, "topology")
        c == <<"Configuration", SaidNumber(f, s, "configuration")>>
    IN  /\ ~SaidOff(f, c)
        /\ t \in 1..MaxTopologies /\ WellFormedTopology(f, p, t)
        /\ c[2] \in 1..MaxConfigurations
        /\ SectionGiven(f, c)
        /\ WellFormedKind(f, s) /\ WellFormedKind(f, c)
        /\ SaidCategory(f, s) = SaidCategory(f, c)
        /\ SaidType(f, s) = SaidType(f, c)
        /\ SaidType(f, s) = Said(f, <<"Topology", t>>, K("type"))[2]
\* With -s there is one suite, of the case named.
OneSuite ==
    /\ \E c \in Elements(Categories) :
          suites[1] = SuiteOfCase(c) /\ get_test_case_from_string(c) # {}
    /\ get_configuration_by_id(opt.config_id) # {}
    /\ get_topology_by_id(opt.top_id) # {}
SuitesKnown ==
    /\ DOMAIN suites = 1..MaxSuites
    /\ suiteCnt = Cardinality({i \in 1..MaxSuites : suites[i].id # 0})
    /\ \A i \in 1..MaxSuites :
          /\ suites[i].id \in {0, i}
          /\ (pc \in Parsing \ {"suite"} \/ (pc = "suite" /\ i >= index))
                => suites[i].id = 0
          /\ (g_run_test_suite /\ suites[i].id # 0) =>
                /\ SuiteFits(suites[i])
                /\ Complete(file) => SuiteAsSaid(file, suites[i])
          /\ (g_run_test_suite /\ Complete(file) /\ Before(i, "suite", ok)
              /\ SuiteWritten(file, ports, i)) => suites[i].id = i
    /\ ~g_run_test_suite =>
          /\ pc \notin {"prepare", "run", "hung", "crashed"} =>
                \A i \in 1..MaxSuites : suites[i].id = 0
          /\ pc \in {"prepare", "run"} =>
                OneSuite /\ \A i \in 2..MaxSuites : suites[i].id = 0

\* An element of the chain: its suite with its topology and configuration.
PreparedAsStored(r) ==
    /\ r.id \in 1..MaxSuites
    /\ suites[r.id].id = r.id /\ suites[r.id].enabled
    /\ r.category = suites[r.id].category
    /\ \E i \in get_topology_by_id(suites[r.id].topology_id) : r.top = topologies[i]
    /\ \E i \in get_configuration_by_id(suites[r.id].configuration_id) :
          /\ r.config_id = configurations[i].id
          /\ r.top.type = configurations[i].type
          /\ r.items \subseteq configurations[i].bit_map
    /\ r.groups = GroupsOf(suites[r.id])
ToPrepare(suite) ==
    suite.id # 0 /\ suite.enabled /\ get_topology_by_id(suite.topology_id) # {}
ChainKnown ==
    /\ prepared \in Seq(Elements(prepared))
    /\ Len(prepared) <= MaxSuites
    /\ pc \notin {"prepare", "run", "hung", "crashed"} => prepared = <<>>
    /\ pc = "prepare" => Len(prepared) < index
    /\ pc \in {"prepare", "run"} =>
          /\ \A i \in 1..Len(prepared) :
                /\ PreparedAsStored(prepared[i])
                /\ pc = "prepare" => prepared[i].id < index
          /\ \A i, j \in 1..Len(prepared) : i < j => prepared[i].id < prepared[j].id
          /\ \A n \in 1..MaxSuites :
                (Before(n, "prepare", pc = "run") /\ ToPrepare(suites[n])) =>
                   \E i \in 1..Len(prepared) : prepared[i].id = n

Inv == /\ InputsKnown /\ ItemsKnown /\ Progress /\ PortsKnown /\ SwitchesKnown
       /\ TopologiesKnown /\ ConfigurationsKnown /\ SuitesKnown /\ ChainKnown
       /\ NoStopOnGoodFile
=============================================================================
