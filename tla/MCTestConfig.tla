---------------------------- MODULE MCTestConfig ----------------------------
(***************************************************************************)
(* Ini files for TestConfig: every combination of a few forms of each      *)
(* section, with two topologies, configurations and suites that refer to   *)
(* each other, one switch and three ports.                                 *)
(***************************************************************************)
EXTENDS TestConfig

Line(kind, name, value) == [kind |-> kind, name |-> name, value |-> value]
Section(s) == Line("section", s, Null)
E(key, value) == Line("entry", K(key), value)
W(w) == <<"word", w>>
D(n) == <<"dec", n>>
H(n) == <<"hex", n>>
NoValue(key) == Line("novalue", K(key), Null)
RP == <<"rootport", 1>>
EP(n) == <<"endpoint", n>>
Port(n, v) == Line("entry", n, v)
DF == <<"df", "00.0">>
Path(conns, end) == <<"path", [root |-> RP, conns |-> conns, end |-> end]>>
Hop(u, d) == [switch |-> 1, ups |-> u, dps |-> d]

MainPart == {<<>>, <<Section(K("Main")), E("spdm_version", W("9.9"))>>}

PortsPart ==
    {<<Section(K("Ports")), Port(RP, DF), Port(EP(1), DF), Port(EP(2), DF)>>}
OddPorts ==
    {<<Section(K("Ports")), Port(RP, DF), Port(EP(1), W("x"))>>,
     <<Section(K("Ports")), Port(RP, DF), Port(EP(2), DF)>>,
     <<Section(K("Ports")), Port(RP, DF), Port(<<"rootport", 2>>, DF),
       Port(EP(1), DF), Port(EP(2), DF)>>}

SwitchPart ==
    {<<>>,
     <<Section(<<"Switch", 1>>), Port(<<"port", 1>>, DF), Port(<<"port", 2>>, DF)>>,
     <<Section(<<"Switch", 1>>), E("enabled", D(0)),
       Port(<<"port", 1>>, DF), Port(<<"port", 2>>, DF)>>}
OddSwitch == {<<Section(<<"Switch", 1>>), Port(<<"port", 1>>, W("x"))>>}

Direct(type, end, more) ==
    <<E("type", W(type)), E("connection", W("direct")), E("path1", Path(<<>>, end))>>
    \o more
Topology1 ==
    {<<Section(<<"Topology", 1>>)>> \o b :
        b \in {Direct("selective_ide", EP(1), <<E("stream_id", D(7)), E("bus", H(26))>>),
               Direct("link_ide", EP(1), <<E("enabled", D(0)), E("bus", H(26))>>),
               Direct("selective_ide", EP(1),
                      <<E("type", W("link_ide")), E("bus", H(26))>>),
               \* rejected at its second path, with the slot half filled
               <<E("type", W("selective_ide")), E("connection", W("peer2peer")),
                 E("segment", H(3)), E("enabled", D(0)),
                 E("path1", Path(<<Hop(1, 2)>>, EP(2))),
                 E("path2", Path(<<>>, EP(1)))>>}}
SwitchTopology1 ==
    {<<Section(<<"Topology", 1>>), E("type", W("selective_ide")),
       E("connection", W(c)), E("bus", H(26)),
       E("path1", Path(conns, EP(1))), E("path2", Path(<<Hop(1, 2)>>, EP(2)))>> :
        c \in {"switch", "peer2peer"},
        conns \in {<<Hop(1, 2)>>, <<Hop(1, 2), Hop(2, 3)>>, <<Hop(3, 1)>>}}
Topology2 ==
    {<<>>,
     <<Section(<<"Topology", 2>>)>> \o
        Direct("selective_ide", EP(2),
               <<E("enabled", D(1)), E("segment", H(2)), E("bus", H(40))>>),
     <<Section(<<"Topology", 2>>)>> \o
        Direct("link_ide", EP(2), <<E("stream_id", D(3)), E("bus", H(40))>>)}
OddTopology2 ==
    {<<Section(<<"Topology", 2>>)>> \o
        Direct("selective_ide", EP(2), <<e, E("bus", H(40))>>) :
        e \in {E("type", W("sel")), E("connection", W("x")), E("segment", H(65536)),
               E("tdisp_function_id", H(MaxFunctionId + 1)),
               E("tdisp_function_id", H(9)), E("path1", Path(<<>>, RP)),
               E("path1", Path(<<>>, EP(3)))}}

Configuration1 ==
    {<<>>,
     <<Section(<<"Configuration", 1>>), E("type", W("selective_ide")),
       E("pcrc", D(1)), E("switch", D(0))>>,
     <<Section(<<"Configuration", 1>>), E("type", W("link_ide")),
       E("tee_limited_stream", D(1)), E("enabled", D(0)), E("enabled", D(1))>>}
Configuration2 ==
    {<<>>,
     <<Section(<<"Configuration", 2>>), E("type", W("selective_ide")),
       E("category", W("tdisp"))>>,
     <<Section(<<"Configuration", 2>>), E("category", W("cxl-ide")),
       E("default", D(1)), E("ide_stop", D(1)), E("cxl_ide_mode", W("skid"))>>}
OddConfiguration2 ==
    {<<Section(<<"Configuration", 2>>), E("category", W("cxl-tsp"))>>,
     <<Section(<<"Configuration", 2>>), E("category", W("cxl"))>>,
     <<Section(<<"Configuration", 2>>), E("type", W("sel"))>>,
     <<Section(<<"Configuration", 2>>), E("type", W("link_ide")),
       E("category", W("tdisp"))>>,
     <<Section(<<"Configuration", 2>>), E("category", W("spdm")),
       E("default", D(1))>>}

Suite(n, t, c, more) ==
    <<Section(<<"TestSuite", n>>), E("topology", D(t)), E("configuration", D(c))>>
    \o more
Sel(v) == <<E("type", W("selective_ide"))>> \o v
Suite1 ==
    {Suite(1, t, 1, <<E("type", W(ty)), E("Query", <<"list", <<2, 1>>>>),
                      E("KSetGo", D(3))>>) :
        t \in 1..2, ty \in {"selective_ide", "link_ide"}}
Suite2 ==
    {<<>>, Suite(2, 2, 2, <<E("category", W("tdisp")), E("type", W("selective_ide")),
                           E("LockInterface", <<"list", <<1, 4>>>>)>>),
     Suite(2, 2, 2, <<E("category", W("cxl-ide")), E("KeyProg", D(9)),
                      E("KSetGo", D(2))>>)}
OddSuite2 ==
    {Suite(2, 2, 2, <<E("category", W("cxl-tsp")), E("LockConfiguration", D(2))>>),
     Suite(2, 2, 2, <<E("category", W("spdm")), E("Digests", D(2)),
                      E("Version", <<"list", <<1, 2, 3>>>>)>>),
     Suite(2, 2, 2, <<E("category", W("tdisp")), E("type", W("link_ide")),
                      E("Version", D(1))>>),
     Suite(2, 2, 1, Sel(<<E("enabled", D(0))>>)),
     Suite(2, 2, 1, Sel(<<E("KeyProg", <<"list", <<0>>>>)>>)),
     Suite(2, 2, 1, Sel(<<E("KeyProg", D(1)), NoValue("KSetGo"), E("Query", D(1))>>)),
     Suite(2, 9, 1, Sel(<<>>)),
     Suite(2, 2, 1, Sel(<<Line("invalid", K("x"), Null), Line("comment", K("x"), Null),
                          E("Query", D(1)), E("configuration", <<"huge", 0>>)>>))}

Join(m, p, w, t1, t2, c1, c2, s1, s2) ==
    m \o p \o w \o t1 \o t2 \o c1 \o c2 \o s1 \o s2

\* The usual forms of every section; then the odd forms of some sections at
\* a time, with one form of each other.
AnyOf(parts) == CHOOSE x \in parts : x # <<>>
APort == AnyOf(PortsPart)
ASwitch == <<Section(<<"Switch", 1>>), Port(<<"port", 1>>, DF), Port(<<"port", 2>>, DF)>>
ATopology1 == <<Section(<<"Topology", 1>>)>> \o
              Direct("selective_ide", EP(1), <<E("stream_id", D(7)), E("bus", H(26))>>)
AConfiguration1 == <<Section(<<"Configuration", 1>>), E("type", W("selective_ide")),
                     E("pcrc", D(1))>>
ASuite1 == Suite(1, 1, 1, Sel(<<E("Query", D(1))>>))
ASuite2 == Suite(2, 2, 1, Sel(<<E("Query", D(2))>>))
ATopology2 == <<Section(<<"Topology", 2>>)>> \o
              Direct("selective_ide", EP(2), <<E("bus", H(40))>>)

MCFiles ==
    {Join(<<>>, APort, ASwitch, t1, t2, c1, c2, s1, s2) :
        t1 \in Topology1, t2 \in Topology2, c1 \in Configuration1,
        c2 \in Configuration2, s1 \in Suite1, s2 \in Suite2}
    \cup
    {Join(m, p, w, t1, ATopology2, AConfiguration1, <<>>, ASuite1, ASuite2) :
        m \in MainPart, p \in PortsPart \cup OddPorts,
        w \in SwitchPart \cup OddSwitch, t1 \in SwitchTopology1 \cup {ATopology1}}
    \cup
    {Join(<<>>, APort, <<>>, ATopology1, t2, AConfiguration1, c2, ASuite1, s2) :
        t2 \in OddTopology2 \cup Topology2, c2 \in OddConfiguration2,
        s2 \in OddSuite2}
    \cup
    \* numbers with a gap: the topologies 1 and 3
    {Join(<<>>, APort, <<>>, ATopology1, t3, AConfiguration1, <<>>, ASuite1,
          Suite(2, 3, 1, Sel(<<E("Query", D(2))>>))) :
        t3 \in {[t EXCEPT ![1] = Section(<<"Topology", 3>>)] :
                   t \in OddTopology2 \cup {ATopology2}}}
    \cup {<<>>}

O(t, c, s, g, b) ==
    [top_id |-> t, config_id |-> c, test_case |-> s, segment |-> g, bus |-> b,
     rounds |-> NoOption, interval |-> NoOption, file |-> "given"]
None == O(NoOption, NoOption, Null, NoOption, NoOption)
MCOptions ==
    {None, [None EXCEPT !.rounds = 0], [None EXCEPT !.file = "missing"],
     O(NoOption, NoOption, Null, 5, 17),
     O(NoOption, 1, <<"Query", 2>>, NoOption, NoOption),
     O(2, 3, <<"Query", 2>>, NoOption, NoOption)}
    \cup {O(2, 1, c, InvalidSegment, 255) : c \in {<<"Query", 2>>, <<"KeyProg", 7>>}}
    \cup {O(2, 2, c, NoOption, 255) : c \in {<<"Version", 1>>, <<"Test", 2>>}}
MCSpdmCases == [k \in 1..Len(SpdmClasses) |-> 2]
=============================================================================
