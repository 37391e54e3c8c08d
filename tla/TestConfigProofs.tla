-------------------------- MODULE TestConfigProofs --------------------------
(***************************************************************************)
(* Proofs of the properties of TestConfig, for every set of files and of   *)
(* command lines and every size of the tables.                             *)
(*                                                                         *)
(* The parts of Inv describe what has been stored in terms of what the     *)
(* file says (Said) and not of what the parser found: so they speak of     *)
(* sections that are behind, and survive the sections that follow.  What   *)
(* joins the two is ItemsFacts: on a file whose entries all have values    *)
(* the lookup of the parser, which takes the latest item of a list built   *)
(* head first, returns what the last line of that name says.               *)
(***************************************************************************)
EXTENDS TestConfig, TLAPS, FiniteSetTheorems, WellFoundedInduction


-----------------------------------------------------------------------------
(* Sequences and the largest member of a set.                               *)

\* A set of line numbers that is not empty has a largest member: Max is what
\* it is called.
LEMMA LargestMember ==
    ASSUME NEW n \in Nat, NEW S, S \subseteq 1..n, S # {}
    PROVE  Max(S) \in S /\ \A y \in S : Max(S) >= y
  <1> DEFINE R == {ss \in Nat \X Nat : ss[1] < ss[2]}
             T == {n - x : x \in S}
  <1>1. IsWellFoundedOn(R, Nat)
    <2>1. IsWellFoundedOn(OpToRel(<, Nat), Nat) BY NatLessThanWellFounded
    <2> QED BY <2>1 DEF OpToRel
  <1>2. T \subseteq Nat /\ T # {}
    <2>1. T \subseteq Nat OBVIOUS
    <2>2. PICK z \in S : TRUE OBVIOUS
    <2>3. n - z \in T BY <2>2
    <2> QED BY <2>1, <2>3
  <1>3. PICK m \in T : \A y \in T : ~(<<y, m>> \in R)
    <2> HIDE DEF R, T
    <2> QED BY <1>1, <1>2, WFMin
  <1>4. PICK x \in S : m = n - x OBVIOUS
  <1>5. \A y \in S : x >= y
    <2> TAKE y \in S
    <2>1. x \in Nat /\ y \in Nat /\ n - y \in T /\ n - y \in Nat /\ m \in Nat
      BY <1>2, <1>3
    <2>2. ~(n - y < m)
      <3> SUFFICES ASSUME n - y < m PROVE FALSE OBVIOUS
      <3>1. <<n - y, m>> \in Nat \X Nat BY <2>1
      <3>2. <<n - y, m>>[1] = n - y /\ <<n - y, m>>[2] = m OBVIOUS
      <3>3. <<n - y, m>> \in R BY <3>1, <3>2
      <3> QED BY <3>3, <1>3, <2>1
    <2> QED BY <2>1, <2>2, <1>4
  <1>6. \E z \in S : \A y \in S : z >= y BY <1>5
  <1> HIDE DEF R, T
  <1> QED BY <1>6 DEF Max

\* Appending to a sequence: the old places keep their elements and the new
\* one is last.
LEMMA Appended ==
    ASSUME NEW s, s \in Seq(Elements(s)), NEW x
    PROVE  /\ Append(s, x) \in Seq(Elements(Append(s, x)))
           /\ Len(s) \in Nat
           /\ Len(Append(s, x)) = Len(s) + 1
           /\ \A i \in 1..Len(s) : Append(s, x)[i] = s[i]
           /\ Append(s, x)[Len(s) + 1] = x
  <1> DEFINE E == Elements(s) \cup {x}
             a == Append(s, x)
  <1>1. s \in Seq(E)
    <2> HIDE DEF E
    <2>1. Elements(s) \subseteq E BY DEF E
    <2> QED BY <2>1
  <1>2. /\ a \in Seq(E) /\ Len(s) \in Nat /\ Len(a) = Len(s) + 1
        /\ \A i \in 1..Len(s) : a[i] = s[i]
        /\ a[Len(s) + 1] = x
    <2> HIDE DEF E
    <2>1. x \in E BY DEF E
    <2> QED BY <1>1, <2>1
  <1>3. a \in [1..Len(a) -> Elements(a)]
    <2>1. a = [i \in 1..Len(a) |-> a[i]]
      <3> HIDE DEF E, a
      <3> QED BY <1>2
    <2>2. \A i \in 1..Len(a) : a[i] \in Elements(a) BY DEF Elements
    <2> HIDE DEF a
    <2> QED BY <2>1, <2>2
  <1>4. a \in Seq(Elements(a))
    <2> HIDE DEF a, E
    <2>1. Len(a) \in Nat BY <1>2
    <2> QED BY <1>3, <2>1
  <1> HIDE DEF a, E
  <1> QED BY <1>2, <1>4 DEF a

\* The empty sequence is one.
LEMMA Empty == << >> \in Seq(Elements(<< >>)) /\ Len(<< >>) = 0
  OBVIOUS

-----------------------------------------------------------------------------
(* What the lookup finds is what the file says.                             *)

\* The lines of a file in Files.
LEMMA FileFacts ==
    ASSUME NEW f \in Files
    PROVE  /\ Len(f) \in Nat
           /\ \A i \in Lines(f) :
                 f[i].kind = "entry" => ValueAsFormatted(f[i].value)
  <1>1. f \in Seq(Elements(f)) BY FilesAssumption
  <1>2. Len(f) \in Nat
    <2> DEFINE E == Elements(f)
    <2> HIDE DEF E
    <2>1. f \in Seq(E) BY <1>1 DEF E
    <2> QED BY <2>1
  <1> QED BY <1>2, FilesAssumption DEF Lines

\* Line i of f is an entry e in a section s.
GivenAt(f, i, s, e) ==
    /\ i \in Lines(f) /\ f[i].kind = "entry" /\ f[i].name = e
    /\ HeaderOf(f, i) # 0 /\ f[HeaderOf(f, i)].name = s

\* The last of the hits among the items of a file is one of them, and the
\* lookup returns its value.
LEMMA LookupLast ==
    ASSUME NEW f \in Files, NEW lost, items = Entries(f, lost),
           NEW s, NEW e, NEW i, GivenAt(f, i, s, e),
           \A l \in lost : ~(HeaderOf(f, i) < l /\ l < i),
           \A j : (GivenAt(f, j, s, e)
                   /\ \A l \in lost : ~(HeaderOf(f, j) < l /\ l < j)) => j <= i
    PROVE  GetString(s, e) = f[i].value
  <1> DEFINE hits == {x \in items : x.section = s /\ x.key = e}
             h == [line |-> i, section |-> s, key |-> e, value |-> f[i].value]
             last == CHOOSE x \in hits : \A y \in hits : x.line >= y.line
  <1>0. Len(f) \in Nat /\ Lines(f) = 1..Len(f) BY FileFacts DEF Lines
  <1>1. h \in hits
    <2>1. h \in items
      BY <1>0 DEF Entries, GivenAt, IsValidValue
    <2> QED BY <2>1
  <1>2. \A y \in hits :
           \E j : /\ GivenAt(f, j, s, e)
                  /\ \A l \in lost : ~(HeaderOf(f, j) < l /\ l < j)
                  /\ y.line = j /\ y.value = f[j].value
    BY DEF Entries, GivenAt, IsValidValue
  <1>3. \A y \in hits : y.line \in Nat /\ y.line <= i
    BY <1>2, <1>0 DEF GivenAt
  <1>4. h.line = i /\ h.value = f[i].value OBVIOUS
  <1>5. last \in hits /\ \A y \in hits : last.line >= y.line
    <2> HIDE DEF hits, h
    <2> i \in Nat BY <1>0 DEF GivenAt
    <2>1. \A y \in hits : h.line >= y.line BY <1>3, <1>4
    <2> QED BY <2>1, <1>1
  <1>6. last.line = i
    <2> HIDE DEF hits, last, h
    <2> i \in Nat BY <1>0 DEF GivenAt
    <2> QED BY <1>1, <1>3, <1>4, <1>5
  <1>7. last.value = f[i].value
    <2> HIDE DEF hits, last, h
    <2> QED BY <1>2, <1>5, <1>6
  <1> HIDE DEF last, h
  <1>8. hits # {} BY <1>1
  <1> QED BY <1>7, <1>8 DEF GetString, UpdateGetProfileString, last

\* What is found is the value of an entry of that name in that section.
LEMMA LookupSound ==
    ASSUME NEW f \in Files, NEW lost, items = Entries(f, lost), NEW s, NEW e
    PROVE  \/ GetString(s, e) = Null
           \/ \E i : GivenAt(f, i, s, e) /\ GetString(s, e) = f[i].value
  <1> DEFINE at == {i \in Lines(f) : GivenAt(f, i, s, e)
                        /\ \A l \in lost : ~(HeaderOf(f, i) < l /\ l < i)}
  <1>0. Len(f) \in Nat /\ Lines(f) = 1..Len(f) BY FileFacts DEF Lines
  <1>1. CASE at = {}
    <2>1. {x \in items : x.section = s /\ x.key = e} = {}
      BY <1>1 DEF Entries, GivenAt, IsValidValue
    <2> QED BY <2>1 DEF GetString, UpdateGetProfileString
  <1>2. CASE at # {}
    <2>1. Max(at) \in at /\ \A y \in at : Max(at) >= y
      <3> at \subseteq 1..Len(f) BY <1>0
      <3> HIDE DEF at
      <3> QED BY <1>0, <1>2, LargestMember
    <2>2. PICK i : i = Max(at) OBVIOUS
    <2>3. i \in at /\ \A y \in at : y <= i
      <3> HIDE DEF at
      <3> QED BY <2>1, <2>2
    <2>4. GivenAt(f, i, s, e) /\ \A l \in lost : ~(HeaderOf(f, i) < l /\ l < i)
      BY <2>3
    <2>5. \A j : (GivenAt(f, j, s, e)
                  /\ \A l \in lost : ~(HeaderOf(f, j) < l /\ l < j)) => j <= i
      BY <2>3 DEF GivenAt
    <2>6. GetString(s, e) = f[i].value
      <3> HIDE DEF at
      <3> QED BY <2>4, <2>5, LookupLast
    <2> QED BY <2>4, <2>6
  <1> QED BY <1>1, <1>2

\* On a file where every entry has a value the lookup finds what is said.
LEMMA LookupSaid ==
    ASSUME NEW f \in Files, items = Entries(f, {}), NEW s, NEW e
    PROVE  GetString(s, e) = Said(f, s, e)
  <1> DEFINE at == {i \in Lines(f) : /\ f[i].kind = "entry"
                                     /\ f[i].name = e
                                     /\ HeaderOf(f, i) # 0
                                     /\ f[HeaderOf(f, i)].name = s}
  <1>0. Len(f) \in Nat /\ Lines(f) = 1..Len(f) BY FileFacts DEF Lines
  <1>1. CASE at = {}
    <2>1. {x \in items : x.section = s /\ x.key = e} = {}
      BY <1>1 DEF Entries, IsValidValue
    <2>2. GetString(s, e) = Null BY <2>1 DEF GetString, UpdateGetProfileString
    <2>3. Said(f, s, e) = Null BY <1>1 DEF Said
    <2> QED BY <2>2, <2>3
  <1>2. CASE at # {}
    <2>1. Max(at) \in at /\ \A y \in at : Max(at) >= y
      <3> at \subseteq 1..Len(f) BY <1>0
      <3> HIDE DEF at
      <3> QED BY <1>0, <1>2, LargestMember
    <2>2. PICK i : i = Max(at) OBVIOUS
    <2>3. i \in at /\ \A y \in at : y <= i
      <3> HIDE DEF at
      <3> QED BY <2>1, <2>2
    <2>4. GivenAt(f, i, s, e) BY <2>3 DEF GivenAt
    <2>5. \A j : GivenAt(f, j, s, e) => j <= i
      BY <2>3 DEF GivenAt
    <2>6. GetString(s, e) = f[i].value
      <3> HIDE DEF at
      <3> QED BY <2>4, <2>5, LookupLast
    <2>7. Said(f, s, e) = f[i].value
      <3>1. Said(f, s, e) = IF at = {} THEN Null ELSE f[Max(at)].value BY DEF Said
      <3> HIDE DEF at
      <3> QED BY <3>1, <1>2, <2>2
    <2> QED BY <2>6, <2>7
  <1> QED BY <1>1, <1>2

\* The items once they are read: what is found has the content its format
\* says, and is what the file says if every entry has a value.
LEMMA ItemsFacts ==
    ASSUME InputsKnown, ItemsKnown, pc \in Reading
    PROVE  /\ \A s, e :
                 \/ GetString(s, e) = Null
                 \/ /\ ValueAsFormatted(GetString(s, e))
                    /\ \E i : GivenAt(file, i, s, e) /\ GetString(s, e) = file[i].value
           /\ Complete(file) => \A s, e : GetString(s, e) = Said(file, s, e)
           /\ Complete(file) => \A s : IsValidSection(s) <=> SectionGiven(file, s)
  <1>1. file \in Files BY DEF InputsKnown
  <1>2. PICK lost \in SUBSET Dangling(file) : items = Entries(file, lost)
    BY DEF ItemsKnown
  <1>3. ASSUME NEW s, NEW e
        PROVE  \/ GetString(s, e) = Null
               \/ /\ ValueAsFormatted(GetString(s, e))
                  /\ \E i : GivenAt(file, i, s, e) /\ GetString(s, e) = file[i].value
    <2>1. \/ GetString(s, e) = Null
          \/ \E i : GivenAt(file, i, s, e) /\ GetString(s, e) = file[i].value
      BY <1>1, <1>2, LookupSound
    <2> QED BY <2>1, <1>1, FileFacts DEF GivenAt
  <1>4. Complete(file) => items = Entries(file, {})
    <2> SUFFICES ASSUME Complete(file) PROVE lost = {} BY <1>2
    <2> QED BY DEF Dangling, Complete, IsValidName, IsValidValue
  <1>5. Complete(file) => \A s, e : GetString(s, e) = Said(file, s, e)
    BY <1>4, <1>1, LookupSaid
  <1>6. ASSUME Complete(file), NEW s
        PROVE  IsValidSection(s) <=> SectionGiven(file, s)
    <2> DEFINE item(i) == [line |-> i, section |-> file[HeaderOf(file, i)].name,
                           key |-> file[i].name, value |-> file[i].value]
    <2>1. items = {item(i) : i \in {j \in Lines(file) :
                      file[j].kind = "entry" /\ HeaderOf(file, j) # 0}}
      BY <1>4, <1>6 DEF Entries, IsValidValue
    <2>2. \A i : item(i).section = file[HeaderOf(file, i)].name OBVIOUS
    <2> HIDE DEF item
    <2> QED BY <2>1, <2>2 DEF IsValidSection, SectionGiven
  <1> QED BY <1>3, <1>5, <1>6

\* What a step of the parser may use of the items.
Found(v, s, e) ==
    \/ v = Null
    \/ /\ ValueAsFormatted(v)
       /\ \E i : GivenAt(file, i, s, e) /\ v = file[i].value

\* The numbers of a topology are numbers, and the bus and the segment stored
\* have their widths.
LEMMA Numbers ==
    ASSUME InputsKnown, pc \notin {"cmdline", "exit"}, NEW s,
           \A e : GetString(s, e) = Null \/ ValueAsFormatted(GetString(s, e))
    PROVE  /\ Enabled(s) \in BOOLEAN
           /\ StreamData(s) \in Nat /\ FunctionData(s) \in Nat
           /\ TopologySegment(s) \in Nat /\ TopologyBus(s) \in Bytes
           /\ StreamData(s) % 256 \in Bytes
  <1>1. \A e : GetDecimalUint32(s, e) => Number(s, e) \in Nat
    BY DEF GetDecimalUint32, IsValidDecimalString, Number, Null, ValueAsFormatted
  <1>2. \A e : GetHexUint32(s, e) => Number(s, e) \in Nat
    BY DEF GetHexUint32, IsValidHexString, Number, Null, ValueAsFormatted
  <1>3. StreamData(s) \in Nat BY <1>1 DEF StreamData
  <1>4. FunctionData(s) \in Nat BY <1>2, <1>3 DEF FunctionData
  <1>5. SegmentData(s) \in Nat BY <1>2, <1>4 DEF SegmentData
  <1>6. BusData(s) \in Nat BY <1>2, <1>5 DEF BusData
  <1>7. /\ opt.segment \in Nat \cup {-1} /\ opt.bus \in Nat \cup {-1}
        /\ opt.bus <= 255
    BY OptionsAssumption DEF InputsKnown, NoOption
  <1>0. InvalidBus \in Nat /\ InvalidBus = 255 BY DEF InvalidBus
  <1>8. \A n \in Nat : n % 256 \in Bytes
    <2> TAKE n \in Nat
    <2>1. n % 256 \in Nat /\ n % 256 <= 255 OBVIOUS
    <2> QED BY <2>1, <1>0 DEF Bytes
  <1>9. TopologyBus(s) \in Bytes
    <2>1. g_scan_bus \in Bytes BY <1>0, <1>7 DEF g_scan_bus, NoOption, Bytes
    <2> QED BY <2>1, <1>6, <1>8 DEF TopologyBus
  <1>10. TopologySegment(s) \in Nat
    BY <1>7, <1>2 DEF TopologySegment, g_scan_segment, NoOption, InvalidSegment
  <1>11. Enabled(s) \in BOOLEAN BY DEF Enabled
  <1>12. StreamData(s) % 256 \in Bytes BY <1>3, <1>8
  <1> QED BY <1>3, <1>4, <1>9, <1>10, <1>11, <1>12

\* A port that is found has the name that was looked for.
LEMMA PortFound ==
    ASSUME NEW n, get_port_by_name(n) # {}
    PROVE  PortId(n) \in 1..Len(ports) /\ ports[PortId(n)].name = n
  BY DEF get_port_by_name, PortId

\* What a path does to the topology t it is read for.
Drawn(entry, t, v, u) ==
    /\ v[1] = "path"
    /\ u.root_port \in 1..Len(ports)
    /\ t.connection # "peer2peer" =>
          /\ {u.upper_port, u.lower_port} \subseteq 1..Len(ports)
          /\ ports[u.upper_port].name = v[2].root
          /\ ports[u.lower_port].name = v[2].end
          /\ (t.connection = "switch" /\ entry = "path1") => u.sw_conn1 = v[2].conns
    /\ (t.connection = "peer2peer" /\ entry = "path1") =>
          /\ u.upper_port \in 1..Len(ports)
          /\ ports[u.upper_port].name = v[2].end
          /\ u.sw_conn1 = v[2].conns
    /\ (t.connection = "peer2peer" /\ entry # "path1") =>
          /\ u.lower_port \in 1..Len(ports)
          /\ ports[u.lower_port].name = v[2].end
          /\ u.sw_conn2 = v[2].conns
          /\ u.upper_port = t.upper_port /\ u.sw_conn1 = t.sw_conn1

SameButPath(t, u) ==
    /\ u.id = t.id /\ u.enabled = t.enabled /\ u.type = t.type
    /\ u.connection = t.connection /\ u.segment = t.segment /\ u.bus = t.bus
    /\ u.stream_id = t.stream_id

\* A path between two ports there are, over switches there are if it has any.
GoodPath(v, conn) ==
    /\ v[1] = "path"
    /\ get_port_by_name(v[2].root) # {} /\ get_port_by_name(v[2].end) # {}
    /\ conn \in {"switch", "peer2peer"} <=> v[2].conns # <<>>
    /\ v[2].conns # <<>> => ParseSwConnsString(v[2].conns) = "good"

\* What ParsePath does: it changes the ports and the switch lists only, draws
\* what the entry says when it succeeds, and leaves a list half freed only
\* when a later switch on the path is not found.
LEMMA PathResult ==
    ASSUME NEW t \in TopologySet, NEW s, NEW entry, Len(ports) \in Nat,
           Found(GetString(s, K(entry)), s, K(entry))
    PROVE  LET r == ParsePath(s, entry, t)
               v == GetString(s, K(entry))
           IN  /\ r.st \in {"good", "bad", "crash"}
               /\ r.top \in TopologySet
               /\ SameButPath(t, r.top)
               /\ r.st = "good" => Drawn(entry, t, v, r.top)
               /\ r.st = "crash" => /\ t.connection \in {"switch", "peer2peer"}
                                    /\ v[1] = "path"
                                    /\ ParseSwConnsString(v[2].conns) = "crash"
               /\ GoodPath(v, t.connection) => r.st = "good"
  <1> DEFINE v == GetString(s, K(entry))
             r == ParsePath(s, entry, t)
             via == t.connection \in {"switch", "peer2peer"}
             t1 == [t EXCEPT !.root_port = PortId(v[2].root)]
             t2 == IF ~via THEN t1
                   ELSE IF entry = "path1" THEN [t1 EXCEPT !.sw_conn1 = v[2].conns]
                   ELSE [t1 EXCEPT !.sw_conn2 = v[2].conns]
             low == PortId(v[2].end)
             bad(u) == [st |-> "bad", top |-> u]
             t3 == IF t.connection # "peer2peer"
                   THEN [t2 EXCEPT !.upper_port = PortId(v[2].root),
                                   !.lower_port = low]
                   ELSE IF entry = "path1" THEN [t2 EXCEPT !.upper_port = low]
                   ELSE [t2 EXCEPT !.lower_port = low]
             sw == ParseSwConnsString(v[2].conns)
  <1>1. r = IF v[1] # "path" THEN bad(t)
            ELSE IF get_port_by_name(v[2].root) = {} THEN bad(t)
            ELSE IF via /\ v[2].conns = <<>> THEN bad(t1)
            ELSE IF via /\ sw = "null" THEN bad(t1)
            ELSE IF via /\ sw = "crash" THEN [st |-> "crash", top |-> t1]
            ELSE IF ~via /\ v[2].conns # <<>> THEN bad(t2)
            ELSE IF get_port_by_name(v[2].end) = {} THEN bad(t2)
            ELSE [st |-> "good", top |-> t3]
    BY DEF ParsePath
  <1>2. t \in TopologySet /\ SameButPath(t, t) BY DEF SameButPath
  <1>3. ASSUME v[1] = "path" PROVE v[2].conns \in Conns(file)
    <2>1. v # Null BY <1>3 DEF Null
    <2> QED BY <1>3, <2>1 DEF Found, GivenAt, Conns
  <1>4. ASSUME get_port_by_name(v[2].root) # {}
        PROVE  /\ t1 \in TopologySet /\ SameButPath(t, t1)
               /\ t1.root_port = PortId(v[2].root)
               /\ t1.upper_port = t.upper_port /\ t1.lower_port = t.lower_port
               /\ t1.sw_conn1 = t.sw_conn1
    <2>1. PortId(v[2].root) \in Nat BY <1>4, PortFound
    <2> HIDE DEF v
    <2> QED BY <2>1 DEF TopologySet, SameButPath
  <1>5. ASSUME v[1] = "path", get_port_by_name(v[2].root) # {}
        PROVE  /\ t2 \in TopologySet /\ SameButPath(t, t2)
               /\ t2.root_port = PortId(v[2].root)
               /\ t2.upper_port = t.upper_port /\ t2.lower_port = t.lower_port
               /\ (via /\ entry = "path1") => t2.sw_conn1 = v[2].conns
               /\ (via /\ entry # "path1") => /\ t2.sw_conn2 = v[2].conns
                                              /\ t2.sw_conn1 = t.sw_conn1
    <2> HIDE DEF v, t1
    <2> QED BY <1>3, <1>4, <1>5 DEF TopologySet, SameButPath
  <1>6. ASSUME v[1] = "path", get_port_by_name(v[2].root) # {},
               get_port_by_name(v[2].end) # {}
        PROVE  /\ t3 \in TopologySet /\ SameButPath(t, t3)
               /\ Drawn(entry, t, v, t3)
    <2>1. /\ low \in Nat /\ PortId(v[2].root) \in Nat
          /\ low \in 1..Len(ports) /\ PortId(v[2].root) \in 1..Len(ports)
          /\ ports[low].name = v[2].end
          /\ ports[PortId(v[2].root)].name = v[2].root
      BY <1>6, PortFound
    <2> HIDE DEF v, t1, t2, low
    <2>2. t3 \in TopologySet /\ SameButPath(t, t3)
      BY <1>5, <1>6, <2>1 DEF TopologySet, SameButPath
    <2>3. CASE t.connection # "peer2peer"
      <3>1. /\ t3.upper_port = PortId(v[2].root) /\ t3.lower_port = low
            /\ t3.root_port = t2.root_port /\ t3.sw_conn1 = t2.sw_conn1
        BY <2>3, <1>5, <1>6, <2>1 DEF TopologySet
      <3> HIDE DEF t3
      <3> QED BY <2>1, <2>2, <2>3, <3>1, <1>5, <1>6 DEF Drawn
    <2>4. CASE t.connection = "peer2peer" /\ entry = "path1"
      <3>1. /\ t3.upper_port = low /\ t3.sw_conn1 = t2.sw_conn1
            /\ t3.root_port = t2.root_port
        BY <2>4, <1>5, <1>6, <2>1 DEF TopologySet
      <3> HIDE DEF t3
      <3> QED BY <2>1, <2>2, <2>4, <3>1, <1>5, <1>6 DEF Drawn
    <2>5. CASE t.connection = "peer2peer" /\ entry # "path1"
      <3>1. /\ t3.upper_port = t2.upper_port /\ t3.sw_conn1 = t2.sw_conn1
            /\ t3.lower_port = low /\ t3.sw_conn2 = t2.sw_conn2
            /\ t3.root_port = t2.root_port
        BY <2>5, <1>5, <1>6, <2>1 DEF TopologySet
      <3> HIDE DEF t3
      <3> QED BY <2>1, <2>2, <2>5, <3>1, <1>5, <1>6 DEF Drawn
    <2> QED BY <2>2, <2>3, <2>4, <2>5
  <1> HIDE DEF v, t1, t2, t3, low, sw, r
  <1>7. /\ r.st \in {"good", "bad", "crash"}
        /\ r.top \in TopologySet
        /\ SameButPath(t, r.top)
    BY <1>1, <1>2, <1>4, <1>5, <1>6
  <1>8. r.st = "good" => Drawn(entry, t, v, r.top)
    BY <1>1, <1>6
  <1>9. r.st = "crash" => via /\ v[1] = "path" /\ sw = "crash"
    BY <1>1
  <1>10. GoodPath(v, t.connection) => r.st = "good"
    BY <1>1 DEF GoodPath, sw
  <1> QED BY <1>7, <1>8, <1>9, <1>10 DEF v, r, sw

\* The ends and switches of u are those the paths of section s name.
DrawnAs(s, u) ==
    LET v1 == GetString(s, K("path1"))
        v2 == GetString(s, K("path2"))
    IN  /\ {u.root_port, u.upper_port, u.lower_port} \subseteq 1..Len(ports)
        /\ u.connection # "peer2peer" =>
              /\ ports[u.upper_port].name = v1[2].root
              /\ ports[u.lower_port].name = v1[2].end
              /\ u.connection = "switch" => u.sw_conn1 = v1[2].conns
        /\ u.connection = "peer2peer" =>
              /\ ports[u.upper_port].name = v1[2].end
              /\ ports[u.lower_port].name = v2[2].end
              /\ u.sw_conn1 = v1[2].conns /\ u.sw_conn2 = v2[2].conns

\* A list of switches of section s on which the loop that frees it runs wild.
WildList(s) ==
    \E entry \in {"path1", "path2"} :
       /\ GetString(s, K(entry))[1] = "path"
       /\ ParseSwConnsString(GetString(s, K(entry))[2].conns) = "crash"

\* The one or two paths of a section with this connection.
GoodPaths(s, conn) ==
    /\ GoodPath(GetString(s, K("path1")), conn)
    /\ conn = "peer2peer" => GoodPath(GetString(s, K("path2")), conn)

\* The same of the one or two paths of a topology.
LEMMA PathsResult ==
    ASSUME NEW t \in TopologySet, NEW s, Len(ports) \in Nat,
           \A e : Found(GetString(s, e), s, e)
    PROVE  LET r == ParsePaths(s, t)
           IN  /\ r.st \in {"good", "bad", "crash"}
               /\ r.top \in TopologySet
               /\ SameButPath(t, r.top)
               /\ r.st = "good" => DrawnAs(s, r.top)
               /\ r.st = "crash" => WildList(s)
               /\ GoodPaths(s, t.connection) => r.st = "good"
  <1> DEFINE r1 == ParsePath(s, "path1", t)
             r2 == ParsePath(s, "path2", r1.top)
             r == ParsePaths(s, t)
             v1 == GetString(s, K("path1"))
             v2 == GetString(s, K("path2"))
  <1>1. /\ r1.st \in {"good", "bad", "crash"}
        /\ r1.top \in TopologySet
        /\ SameButPath(t, r1.top)
        /\ r1.st = "good" => Drawn("path1", t, v1, r1.top)
        /\ r1.st = "crash" => /\ v1[1] = "path"
                              /\ ParseSwConnsString(v1[2].conns) = "crash"
        /\ GoodPath(v1, t.connection) => r1.st = "good"
    BY PathResult
  <1>2. /\ r2.st \in {"good", "bad", "crash"}
        /\ r2.top \in TopologySet
        /\ SameButPath(r1.top, r2.top)
        /\ r2.st = "good" => Drawn("path2", r1.top, v2, r2.top)
        /\ r2.st = "crash" => /\ v2[1] = "path"
                              /\ ParseSwConnsString(v2[2].conns) = "crash"
        /\ GoodPath(v2, r1.top.connection) => r2.st = "good"
    <2> HIDE DEF r1
    <2> QED BY <1>1, PathResult
  <1>3. r = IF r1.st # "good" \/ t.connection # "peer2peer" THEN r1 ELSE r2
    BY DEF ParsePaths
  <1>4. SameButPath(t, r2.top)
    <2> HIDE DEF r1, r2
    <2> QED BY <1>1, <1>2 DEF SameButPath
  <1> HIDE DEF r1, r2, r
  <1>5. ASSUME r.st = "good" PROVE DrawnAs(s, r.top)
    <2>1. CASE t.connection # "peer2peer"
      <3>1. r = r1 /\ Drawn("path1", t, v1, r1.top) /\ r1.top.connection = t.connection
        BY <1>1, <1>3, <1>5, <2>1 DEF SameButPath
      <3> HIDE DEF v1, v2
      <3> QED BY <2>1, <3>1 DEF Drawn, DrawnAs, v1, v2
    <2>2. CASE t.connection = "peer2peer"
      <3>1. /\ r = r2 /\ Drawn("path1", t, v1, r1.top)
            /\ Drawn("path2", r1.top, v2, r2.top)
            /\ r1.top.connection = t.connection /\ r2.top.connection = t.connection
        BY <1>1, <1>2, <1>3, <1>4, <1>5, <2>2 DEF SameButPath
      <3>2. /\ r2.top.upper_port = r1.top.upper_port
            /\ r2.top.upper_port \in 1..Len(ports)
            /\ r2.top.lower_port \in 1..Len(ports)
            /\ r2.top.root_port \in 1..Len(ports)
            /\ ports[r2.top.upper_port].name = v1[2].end
            /\ ports[r2.top.lower_port].name = v2[2].end
            /\ r2.top.sw_conn1 = v1[2].conns /\ r2.top.sw_conn2 = v2[2].conns
        <4> HIDE DEF v1, v2
        <4> QED BY <3>1, <2>2 DEF Drawn
      <3> QED BY <2>2, <3>1, <3>2 DEF DrawnAs
    <2> QED BY <2>1, <2>2
  <1>6. r.st = "crash" => WildList(s)
    BY <1>1, <1>2, <1>3 DEF WildList
  <1>7. ASSUME GoodPaths(s, t.connection) PROVE r.st = "good"
    <2>0. /\ GoodPath(v1, t.connection)
          /\ t.connection = "peer2peer" => GoodPath(v2, t.connection)
      BY <1>7 DEF GoodPaths
    <2>1. r1.st = "good" BY <1>1, <2>0
    <2>2. CASE t.connection # "peer2peer" BY <1>3, <2>1, <2>2
    <2>3. CASE t.connection = "peer2peer"
      <3>1. r1.top.connection = t.connection BY <1>1 DEF SameButPath
      <3>2. GoodPath(v2, r1.top.connection) BY <2>0, <2>3, <3>1
      <3> QED BY <1>2, <1>3, <2>1, <2>3, <3>2
    <2> QED BY <2>2, <2>3
  <1> QED BY <1>1, <1>2, <1>3, <1>4, <1>5, <1>6, <1>7 DEF r

\* A section the parser has no reason to reject.
Acceptable(s) ==
    LET v1 == GetString(s, K("path1"))
        v2 == GetString(s, K("path2"))
        conn == GetString(s, K("connection"))
    IN  /\ is_valid(GetString(s, K("type")), Types)
        /\ is_valid(conn, Connections)
        /\ ~(FunctionData(s) > MaxFunctionId
             /\ GetHexUint32(s, K("tdisp_function_id")))
        /\ ~(TopologySegment(s) > 65535)
        /\ GoodPaths(s, conn[2])
        /\ conn[2] # "peer2peer" => v1[2].root # v1[2].end
        /\ conn[2] = "peer2peer" => v1[2].end # v2[2].end

\* What a topology section leaves in its slot.
LEMMA TopologyResult ==
    ASSUME InputsKnown, pc = "topology", index \in Nat \ {0},
           NEW slot \in TopologySet, NEW s, Len(ports) \in Nat,
           \A e : Found(GetString(s, e), s, e)
    PROVE  LET r == TopologySection(s, slot)
           IN  /\ r.st \in {"good", "bad", "crash"}
               /\ r.top \in TopologySet
               /\ r.st # "good" => r.top.id = slot.id
               /\ r.st = "crash" => WildList(s)
               /\ r.st = "good" =>
                     /\ r.top.id = index /\ r.top.enabled = Enabled(s)
                     /\ r.top.type = GetString(s, K("type"))[2]
                     /\ r.top.connection = GetString(s, K("connection"))[2]
                     /\ r.top.segment = TopologySegment(s)
                     /\ r.top.bus = TopologyBus(s)
                     /\ DrawnAs(s, r.top)
               /\ Acceptable(s) => r.st = "good"
  <1> DEFINE type == GetString(s, K("type"))
             conn == GetString(s, K("connection"))
             t0 == [slot EXCEPT !.enabled = Enabled(s)]
             t1 == [t0 EXCEPT !.type = type[2]]
             t2 == [t1 EXCEPT !.connection = conn[2],
                              !.stream_id = StreamData(s) % 256]
             t3 == [t2 EXCEPT !.segment = TopologySegment(s), !.bus = TopologyBus(s)]
             p == ParsePaths(s, t3)
             t4 == [p.top EXCEPT !.id = index]
             bad(t) == [st |-> "bad", top |-> t]
             r == TopologySection(s, slot)
  <1>1. r = IF ~is_valid(type, Types) THEN bad(t0)
            ELSE IF ~is_valid(conn, Connections) THEN bad(t1)
            ELSE IF FunctionData(s) > MaxFunctionId
                    /\ GetHexUint32(s, K("tdisp_function_id")) THEN bad(t2)
            ELSE IF TopologySegment(s) > 65535 THEN bad(t2)
            ELSE IF p.st # "good" THEN p
            ELSE IF p.top.lower_port = p.top.upper_port THEN bad(p.top)
            ELSE [st |-> "good", top |-> t4]
    BY DEF TopologySection
  <1>2. /\ Enabled(s) \in BOOLEAN
        /\ TopologySegment(s) \in Nat /\ TopologyBus(s) \in Bytes
        /\ StreamData(s) % 256 \in Bytes
    BY Numbers DEF Found
  <1>3. t0 \in TopologySet /\ t0.id = slot.id /\ t0.enabled = Enabled(s)
    <2> DEFINE en == Enabled(s)
    <2> en \in BOOLEAN BY <1>2
    <2> HIDE DEF en
    <2>1. [slot EXCEPT !.enabled = en] \in TopologySet BY DEF TopologySet
    <2>2. [slot EXCEPT !.enabled = en].id = slot.id BY DEF TopologySet
    <2>3. [slot EXCEPT !.enabled = en].enabled = en BY Zenon DEF TopologySet
    <2> QED BY <2>1, <2>2, <2>3 DEF en
  <1> HIDE DEF type, conn, t0
  <1>4. ASSUME is_valid(type, Types)
        PROVE  /\ t1 \in TopologySet /\ t1.id = slot.id
               /\ t1.enabled = t0.enabled /\ t1.type = type[2]
    <2> type[2] \in Elements(Types) BY <1>4 DEF is_valid
    <2> QED BY <1>3 DEF TopologySet
  <1> HIDE DEF t1
  <1>5. ASSUME is_valid(type, Types), is_valid(conn, Connections)
        PROVE  /\ t2 \in TopologySet /\ t2.id = slot.id
               /\ t2.enabled = t0.enabled /\ t2.type = type[2]
               /\ t2.connection = conn[2]
    <2> conn[2] \in Elements(Connections) BY <1>5 DEF is_valid
    <2> QED BY <1>2, <1>4, <1>5 DEF TopologySet
  <1> HIDE DEF t2
  <1>6. ASSUME is_valid(type, Types), is_valid(conn, Connections),
               ~(TopologySegment(s) > 65535)
        PROVE  /\ t3 \in TopologySet /\ t3.id = slot.id
               /\ t3.enabled = t0.enabled /\ t3.type = type[2]
               /\ t3.connection = conn[2]
               /\ t3.segment = TopologySegment(s) /\ t3.bus = TopologyBus(s)
    <2> DEFINE seg == TopologySegment(s)
               bus == TopologyBus(s)
    <2>1. seg \in Nat /\ bus \in Bytes BY <1>2
    <2>2. ~(seg > InvalidSegment) BY <1>6 DEF InvalidSegment
    <2>3. t2 \in TopologySet BY <1>5, <1>6
    <2> HIDE DEF seg, bus
    <2>4. seg \in Segments
      <3> InvalidSegment \in Nat BY DEF InvalidSegment
      <3> QED BY <2>1, <2>2 DEF Segments
    <2>5. [t2 EXCEPT !.segment = seg, !.bus = bus] \in TopologySet
      BY <2>1, <2>3, <2>4 DEF TopologySet
    <2>6. LET u == [t2 EXCEPT !.segment = seg, !.bus = bus]
          IN  /\ u.id = t2.id /\ u.type = t2.type
              /\ u.connection = t2.connection /\ u.segment = seg /\ u.bus = bus
              /\ u.enabled = t2.enabled
      BY <2>3 DEF TopologySet
    <2> QED BY <1>5, <1>6, <2>5, <2>6 DEF seg, bus
  <1> HIDE DEF t3
  <1>7. ASSUME is_valid(type, Types), is_valid(conn, Connections),
               ~(TopologySegment(s) > 65535)
        PROVE  /\ p.st \in {"good", "bad", "crash"}
               /\ p.top \in TopologySet
               /\ SameButPath(t3, p.top)
               /\ p.st = "good" => DrawnAs(s, p.top)
               /\ p.st = "crash" => WildList(s)
               /\ GoodPaths(s, conn[2]) => p.st = "good"
    <2>1. t3 \in TopologySet /\ t3.connection = conn[2] BY <1>6, <1>7
    <2>2. /\ p.st \in {"good", "bad", "crash"}
          /\ p.top \in TopologySet
          /\ SameButPath(t3, p.top)
          /\ p.st = "good" => DrawnAs(s, p.top)
          /\ p.st = "crash" => WildList(s)
          /\ GoodPaths(s, t3.connection) => p.st = "good"
      BY <2>1, PathsResult
    <2> HIDE DEF p
    <2> QED BY <2>1, <2>2
  <1> HIDE DEF p
  <1>8. ASSUME is_valid(type, Types), is_valid(conn, Connections),
               ~(TopologySegment(s) > 65535), p.st = "good"
        PROVE  /\ t4 \in TopologySet /\ t4.id = index
               /\ t4.enabled = t0.enabled /\ t4.type = type[2]
               /\ t4.connection = conn[2]
               /\ t4.segment = TopologySegment(s) /\ t4.bus = TopologyBus(s)
               /\ DrawnAs(s, t4)
    <2>1. p.top \in TopologySet /\ SameButPath(t3, p.top) /\ DrawnAs(s, p.top)
      BY <1>7, <1>8
    <2>2. /\ t4 \in TopologySet /\ t4.id = index
          /\ t4.type = p.top.type
          /\ t4.connection = p.top.connection
          /\ t4.segment = p.top.segment /\ t4.bus = p.top.bus
          /\ t4.root_port = p.top.root_port
          /\ t4.upper_port = p.top.upper_port /\ t4.lower_port = p.top.lower_port
          /\ t4.sw_conn1 = p.top.sw_conn1 /\ t4.sw_conn2 = p.top.sw_conn2
      BY <2>1 DEF TopologySet
    <2>3. t4.enabled = p.top.enabled BY <2>1 DEF TopologySet
    <2> HIDE DEF t4
    <2>4. DrawnAs(s, t4) BY <2>1, <2>2 DEF DrawnAs
    <2> QED BY <2>1, <2>2, <2>3, <2>4, <1>6, <1>8 DEF SameButPath
  <1> HIDE DEF t4, r
  <1>9. /\ r.st \in {"good", "bad", "crash"}
        /\ r.top \in TopologySet
    BY <1>1, <1>3, <1>4, <1>5, <1>7, <1>8
  <1>10. r.st # "good" => r.top.id = slot.id
    BY <1>1, <1>3, <1>4, <1>5, <1>6, <1>7 DEF SameButPath
  <1>11. r.st = "crash" => WildList(s)
    BY <1>1, <1>7
  <1>12. ASSUME r.st = "good"
         PROVE  /\ r.top = t4
                /\ is_valid(type, Types) /\ is_valid(conn, Connections)
                /\ ~(TopologySegment(s) > 65535) /\ p.st = "good"
    BY <1>1, <1>12
  <1>13. r.st = "good" =>
            /\ r.top.id = index /\ r.top.enabled = Enabled(s)
            /\ r.top.type = type[2]
            /\ r.top.connection = conn[2]
            /\ r.top.segment = TopologySegment(s)
            /\ r.top.bus = TopologyBus(s)
            /\ DrawnAs(s, r.top)
    BY <1>3, <1>8, <1>12
  <1>14. ASSUME Acceptable(s) PROVE r.st = "good"
    <2> DEFINE v1 == GetString(s, K("path1"))
               v2 == GetString(s, K("path2"))
    <2>1. /\ is_valid(type, Types) /\ is_valid(conn, Connections)
          /\ ~(FunctionData(s) > MaxFunctionId
               /\ GetHexUint32(s, K("tdisp_function_id")))
          /\ ~(TopologySegment(s) > 65535)
          /\ GoodPaths(s, conn[2])
          /\ conn[2] # "peer2peer" => v1[2].root # v1[2].end
          /\ conn[2] = "peer2peer" => v1[2].end # v2[2].end
      BY <1>14 DEF Acceptable, type, conn
    <2>2. p.st = "good" /\ DrawnAs(s, p.top) /\ p.top.connection = conn[2]
      BY <2>1, <1>6, <1>7 DEF SameButPath
    <2>3. p.top.lower_port # p.top.upper_port
      <3>1. /\ conn[2] # "peer2peer" =>
                  /\ ports[p.top.upper_port].name = v1[2].root
                  /\ ports[p.top.lower_port].name = v1[2].end
            /\ conn[2] = "peer2peer" =>
                  /\ ports[p.top.upper_port].name = v1[2].end
                  /\ ports[p.top.lower_port].name = v2[2].end
        BY <2>2 DEF DrawnAs
      <3> HIDE DEF v1, v2
      <3> QED BY <2>1, <3>1
    <2> HIDE DEF v1, v2
    <2> QED BY <1>1, <2>1, <2>2, <2>3
  <1> QED BY <1>9, <1>10, <1>11, <1>13, <1>14 DEF r, type, conn

-----------------------------------------------------------------------------
(* The ports.                                                               *)

\* One name more than there is room for needs one line more than there are.
LEMMA PortsFit ==
    ASSUME file \in Files, PortsKnown, NEW name,
           \E l \in PortLines(file) : file[l].name = name,
           \A i \in 1..Len(ports) : ports[i].name # name,
           Cardinality(PortLines(file)) <= MaxPorts
    PROVE  Len(ports) < MaxPorts
  <1> SUFFICES ASSUME Len(ports) >= MaxPorts PROVE FALSE
    BY BoundsAssumption DEF PortsKnown
  <1>1. MaxPorts \in Nat /\ Len(ports) = MaxPorts /\ Len(ports) \in Nat
    <2> DEFINE E == Elements(ports)
    <2>1. ports \in Seq(E) BY DEF PortsKnown
    <2> HIDE DEF E
    <2>2. Len(ports) \in Nat BY <2>1
    <2> QED BY <2>2, BoundsAssumption DEF PortsKnown
  <1> DEFINE S == 1..(MaxPorts + 1)
             T == PortLines(file)
             n(i) == IF i <= MaxPorts THEN ports[i].name ELSE name
             g == [i \in S |-> CHOOSE l \in T : file[l].name = n(i)]
  <1>2. IsFiniteSet(S) /\ Cardinality(S) = MaxPorts + 1
    BY <1>1, FS_Interval
  <1>3. IsFiniteSet(T) /\ Cardinality(T) \in Nat
    <2>1. Len(file) \in Nat BY FileFacts
    <2>2. IsFiniteSet(1..Len(file)) BY <2>1, FS_Interval
    <2>3. T \subseteq 1..Len(file) BY DEF PortLines, Lines
    <2>4. IsFiniteSet(T)
      <3> HIDE DEF T
      <3> QED BY <2>2, <2>3, FS_Subset
    <2> QED BY <2>4, FS_CardinalityType
  <1>4. \A i \in S : g[i] \in T /\ file[g[i]].name = n(i)
    <2> SUFFICES ASSUME NEW i \in S PROVE \E l \in T : file[l].name = n(i)
      OBVIOUS
    <2> HIDE DEF T
    <2>1. CASE i <= MaxPorts
      <3>1. i \in 1..Len(ports) BY <1>1, <2>1
      <3> QED BY <3>1, <2>1 DEF PortsKnown, T
    <2>2. CASE ~(i <= MaxPorts) BY <2>2 DEF T
    <2> QED BY <2>1, <2>2
  <1>5. \E i, j \in S : i # j /\ g[i] = g[j]
    <2>1. g \in [S -> T] BY <1>4
    <2>2. Cardinality(T) < Cardinality(S) BY <1>1, <1>2, <1>3
    <2> HIDE DEF S, T, g
    <2> QED BY <1>2, <1>3, <2>1, <2>2, FS_PigeonHole
  <1>6. PICK i \in S, j \in S : i # j /\ g[i] = g[j] BY <1>5
  <1>7. n(i) = n(j) BY <1>4, <1>6
  <1> HIDE DEF g, T
  <1>8. CASE i <= MaxPorts /\ j <= MaxPorts
    BY <1>1, <1>6, <1>7, <1>8 DEF PortsKnown
  <1>9. CASE ~(i <= MaxPorts) /\ j <= MaxPorts
    BY <1>1, <1>6, <1>7, <1>9
  <1>10. CASE i <= MaxPorts /\ ~(j <= MaxPorts)
    BY <1>1, <1>6, <1>7, <1>10
  <1>11. CASE ~(i <= MaxPorts) /\ ~(j <= MaxPorts)
    BY <1>1, <1>6, <1>11
  <1> QED BY <1>8, <1>9, <1>10, <1>11

\* Reading the ports keeps what is known of them, and stops only on a file
\* that is not in the documented format.
LEMMA PortsStep ==
    ASSUME Inv, NEW type, NEW next,
           \/ type = "rootport" /\ next = "endpoint"
           \/ type = "endpoint" /\ next = "switch",
           ParsePortsSection(type, next)
    PROVE  PortsKnown' /\ NoStopOnGoodFile'
  <1> DEFINE name == <<type, index>>
             df == GetString(K("Ports"), name)
             new == [name |-> name, df |-> df[2]]
  <1>1. /\ pc = type /\ file' = file /\ opt' = opt
        /\ \/ /\ df = Null /\ pc' = next /\ index' = 1 /\ ports' = ports
           \/ /\ df # Null /\ ~is_valid_dev_func(df)
              /\ pc' = "hung" /\ ports' = ports
           \/ /\ df # Null /\ is_valid_dev_func(df)
              /\ Len(ports) < MaxPorts /\ ports' = Append(ports, new)
              /\ pc' = pc /\ index' = index + 1
           \/ /\ df # Null /\ ~(Len(ports) < MaxPorts)
              /\ pc' = "crashed" /\ ports' = ports
    BY DEF ParsePortsSection, Goto, inputs
  <1>2. /\ InputsKnown /\ ItemsKnown /\ PortsKnown /\ pc \in Reading
        /\ index \in Nat \ {0} /\ file \in Files
    BY <1>1 DEF Inv, Reading, InputsKnown, Progress
  <1>3. ASSUME df # Null
        PROVE  \E l \in PortLines(file) : /\ file[l].name = name
                                          /\ file[l].kind = "entry"
                                          /\ df = file[l].value
    <2>1. \E l : GivenAt(file, l, K("Ports"), name) /\ df = file[l].value
      BY <1>2, <1>3, ItemsFacts
    <2>2. name[1] \in {"rootport", "endpoint"} OBVIOUS
    <2> HIDE DEF name, df
    <2> QED BY <2>1, <2>2 DEF GivenAt, PortLines
  <1>4. \A i \in 1..Len(ports) : ports[i].name # name
    BY <1>1, <1>2 DEF PortsKnown
  <1>5. ports \in Seq(Elements(ports)) /\ Len(ports) \in Nat
    <2> DEFINE E == Elements(ports)
    <2>1. ports \in Seq(E) BY <1>2 DEF PortsKnown
    <2> HIDE DEF E
    <2>2. Len(ports) \in Nat BY <2>1
    <2> QED BY <2>1, <2>2 DEF E
  <1>6. NoStopOnGoodFile'
    <2> SUFFICES ASSUME WellFormed(file), g_run_test_suite
                 PROVE  pc' \notin {"hung", "crashed"}
      BY <1>1 DEF NoStopOnGoodFile, g_run_test_suite
    <2>1. df # Null => is_valid_dev_func(df)
      <3> SUFFICES ASSUME df # Null PROVE is_valid_dev_func(df) OBVIOUS
      <3>1. PICK l \in PortLines(file) :
               file[l].name = name /\ file[l].kind = "entry" /\ df = file[l].value
        BY <1>3
      <3> HIDE DEF df, name
      <3> QED BY <3>1 DEF WellFormed, PortLines, is_valid_dev_func
    <2>2. df # Null => Len(ports) < MaxPorts
      <3> Cardinality(PortLines(file)) <= MaxPorts BY DEF WellFormed
      <3> HIDE DEF df, name
      <3> QED BY <1>2, <1>3, <1>4, PortsFit
    <2> QED BY <1>1, <2>1, <2>2
  <1>7. CASE ports' = ports /\ pc' = next /\ index' = 1
    BY <1>1, <1>2, <1>6, <1>7 DEF PortsKnown
  <1>8. CASE ports' = ports /\ pc' \in {"hung", "crashed"}
    BY <1>1, <1>2, <1>6, <1>8 DEF PortsKnown
  <1>9. CASE df # Null /\ Len(ports) < MaxPorts /\ ports' = Append(ports, new)
             /\ pc' = pc /\ index' = index + 1
    <2>1. /\ ports' \in Seq(Elements(ports'))
          /\ Len(ports') = Len(ports) + 1
          /\ \A i \in 1..Len(ports) : ports'[i] = ports[i]
          /\ ports'[Len(ports) + 1] = new
      <3> HIDE DEF new
      <3> QED BY <1>5, <1>9, Appended
    <2>2. ports'[Len(ports) + 1].name = name BY <2>1
    <2>3. \A i \in 1..Len(ports') : i \in 1..Len(ports) \/ i = Len(ports) + 1
      BY <1>5, <2>1
    <2>4. name = <<type, index>> OBVIOUS
    <2> HIDE DEF name, df, new
    <2>5. \A i \in 1..Len(ports') :
            \E l \in PortLines(file) : ports'[i].name = file[l].name
      BY <1>2, <1>3, <1>9, <2>1, <2>2, <2>3 DEF PortsKnown
    <2>6. \A i, j \in 1..Len(ports') : i # j => ports'[i].name # ports'[j].name
      BY <1>2, <1>4, <2>1, <2>2, <2>3 DEF PortsKnown
    <2>7. pc' = "rootport" =>
            \A i \in 1..Len(ports') : \E n \in 1..(index' - 1) :
               ports'[i].name = <<"rootport", n>>
      BY <1>1, <1>2, <1>9, <2>1, <2>2, <2>3, <2>4 DEF PortsKnown
    <2>8. pc' = "endpoint" =>
          \A i \in 1..Len(ports') :
             \/ ports'[i].name[1] = "rootport"
             \/ \E n \in 1..(index' - 1) : ports'[i].name = <<"endpoint", n>>
      BY <1>1, <1>2, <1>9, <2>1, <2>2, <2>3, <2>4 DEF PortsKnown
    <2>9. Len(ports') <= MaxPorts BY <1>5, <1>9, <2>1, BoundsAssumption
    <2> QED BY <1>1, <1>6, <1>9, <2>1, <2>5, <2>6, <2>7, <2>8, <2>9 DEF PortsKnown
  <1> QED BY <1>1, <1>6, <1>7, <1>8, <1>9

-----------------------------------------------------------------------------
(* The switches.                                                            *)

\* The length of a sequence that is known by its elements.
LEMMA LenNat == ASSUME NEW s, s \in Seq(Elements(s)) PROVE Len(s) \in Nat
  <1> DEFINE E == Elements(s)
  <1>1. s \in Seq(E) OBVIOUS
  <1> HIDE DEF E
  <1> QED BY <1>1

\* A section is enabled if the file does not say otherwise.
LEMMA EnabledSaid ==
    ASSUME NEW s, GetString(s, K("enabled")) = Said(file, s, K("enabled"))
    PROVE  Enabled(s) = ~SaidOff(file, s)
  <1> DEFINE v == Said(file, s, K("enabled"))
  <1>1. Enabled(s) <=> (v[1] = "dec" => v[2] = 1)
    BY DEF Enabled, GetDecimalUint32, IsValidDecimalString, Number
  <1>2. SaidOff(file, s) <=> (v[1] = "dec" /\ v[2] # 1) BY DEF SaidOff
  <1>3. Enabled(s) \in BOOLEAN /\ SaidOff(file, s) \in BOOLEAN
    BY DEF Enabled, SaidOff
  <1> HIDE DEF v
  <1> QED BY <1>1, <1>2, <1>3

\* Reading a switch keeps what is known of the switches, and stops only on a
\* file that is not well formed.
LEMMA SwitchesStep ==
    ASSUME Inv, ParseSwitchesSection
    PROVE  SwitchesKnown' /\ NoStopOnGoodFile'
  <1> DEFINE s == <<"Switch", index>>
             given == {p \in 1..MaxSwitchPorts : GetString(s, <<"port", p>>) # Null}
             new == [id |-> index, enabled |-> Enabled(s), ports |-> given]
             odd == \E p \in given : ~is_valid_dev_func(GetString(s, <<"port", p>>))
             On == \/ index < MaxSwitches /\ pc' = "switch" /\ index' = index + 1
                   \/ ~(index < MaxSwitches) /\ pc' = "topology" /\ index' = 1
  <1>1. /\ pc = "switch" /\ file' = file /\ opt' = opt /\ ok' = ok
        /\ \/ ~IsValidSection(s) /\ switches' = switches /\ On
           \/ odd /\ switches' = switches /\ pc' = "hung"
           \/ switches' = Append(switches, new) /\ On
    BY DEF ParseSwitchesSection, NextSection, Goto, inputs
  <1>2. /\ InputsKnown /\ ItemsKnown /\ SwitchesKnown /\ pc \in Reading
        /\ index \in Nat \ {0} /\ file \in Files /\ ~ok /\ index <= MaxSwitches
    BY <1>1 DEF Inv, Reading, InputsKnown, Progress, Parsing
  <1>3. NoStopOnGoodFile'
    <2> SUFFICES ASSUME WellFormed(file), odd PROVE FALSE
      BY <1>1 DEF NoStopOnGoodFile, g_run_test_suite, Inv
    <2>1. PICK p \in given : ~is_valid_dev_func(GetString(s, <<"port", p>>))
      OBVIOUS
    <2> DEFINE v == GetString(s, <<"port", p>>)
    <2>2. \E i : GivenAt(file, i, s, <<"port", p>>) /\ v = file[i].value
      BY <1>2, <2>1, ItemsFacts
    <2>3. <<"port", p>>[1] = "port" OBVIOUS
    <2> HIDE DEF v, s
    <2>4. v[1] = "df" BY <2>2, <2>3 DEF WellFormed, GivenAt
    <2> QED BY <2>1, <2>4 DEF is_valid_dev_func, v
  <1>4. switches \in Seq(Elements(switches)) /\ Len(switches) \in Nat
    BY <1>2, LenNat DEF SwitchesKnown
  <1>5. CASE switches' = switches /\ pc' = "hung"
    BY <1>1, <1>2, <1>3, <1>5 DEF SwitchesKnown, Before, SwitchesRead
  <1>6. CASE ~IsValidSection(s) /\ switches' = switches /\ On
    <2>1. Complete(file) => ~SectionGiven(file, s)
      BY <1>2, <1>6, ItemsFacts
    <2>2. ASSUME Complete(file), NEW n \in 1..MaxSwitches,
                 Before(n, "switch", SwitchesRead)',
                 SectionGiven(file, <<"Switch", n>>)
          PROVE  SwitchStored(file, switches, n)
      <3>1. n # index BY <2>1, <2>2
      <3>2. n < index
        BY <1>1, <1>2, <1>6, <2>2, <3>1, BoundsAssumption DEF Before, SwitchesRead
      <3> QED BY <1>1, <1>2, <2>2, <3>2 DEF SwitchesKnown, Before
    <2> QED BY <1>1, <1>2, <1>3, <1>4, <1>6, <2>2, BoundsAssumption DEF SwitchesKnown
  <1>7. CASE switches' = Append(switches, new) /\ On
    <2>1. /\ switches' \in Seq(Elements(switches'))
          /\ Len(switches') = Len(switches) + 1
          /\ \A i \in 1..Len(switches) : switches'[i] = switches[i]
          /\ switches'[Len(switches) + 1] = new
      <3> HIDE DEF new
      <3> QED BY <1>4, <1>7, Appended
    <2>2. ASSUME Complete(file) PROVE SwitchStored(file, switches', index)
      <3>1. \A e : GetString(s, e) = Said(file, s, e) BY <1>2, <2>2, ItemsFacts
      <3>2. Enabled(s) = ~SaidOff(file, s) BY <3>1, EnabledSaid
      <3>3. given = {p \in 1..MaxSwitchPorts : Said(file, s, <<"port", p>>) # Null}
        BY <3>1
      <3>4. Len(switches) + 1 \in 1..Len(switches') BY <1>4, <2>1
      <3> QED BY <2>1, <3>2, <3>3, <3>4 DEF SwitchStored
    <2>3. ASSUME NEW n, SwitchStored(file, switches, n)
          PROVE  SwitchStored(file, switches', n)
      <3>1. \A i \in 1..Len(switches) : i \in 1..Len(switches') BY <1>4, <2>1
      <3> QED BY <3>1, <2>1, <2>3 DEF SwitchStored
    <2>4. ASSUME Complete(file), NEW n \in 1..MaxSwitches,
                 Before(n, "switch", SwitchesRead)',
                 SectionGiven(file, <<"Switch", n>>)
          PROVE  SwitchStored(file, switches', n)
      <3>1. CASE n = index BY <2>2, <2>4, <3>1
      <3>2. CASE n # index
        <4>1. n < index
          BY <1>1, <1>2, <1>7, <2>4, <3>2, BoundsAssumption DEF Before, SwitchesRead
        <4> QED BY <1>1, <1>2, <2>3, <2>4, <4>1 DEF SwitchesKnown, Before
      <3> QED BY <3>1, <3>2
    <2>5. Len(switches) < index BY <1>1, <1>2 DEF SwitchesKnown
    <2>6. Len(switches') <= MaxSwitches /\ (pc' = "switch" => Len(switches') < index')
      BY <1>2, <1>4, <1>7, <2>1, <2>5, BoundsAssumption
    <2> HIDE DEF new
    <2> QED BY <1>1, <1>3, <1>7, <2>1, <2>4, <2>6 DEF SwitchesKnown
  <1> QED BY <1>1, <1>5, <1>6, <1>7

-----------------------------------------------------------------------------
(* The topologies.                                                          *)

\* What is said is said somewhere in the section.
LEMMA SaidGiven ==
    ASSUME NEW f, NEW s, NEW e, Said(f, s, e) # Null
    PROVE  SectionGiven(f, s)
  BY DEF Said, SectionGiven

\* A switch that the file describes is found.
LEMMA SwitchFound ==
    ASSUME Inv, pc = "topology", Complete(file), NEW w, SwitchExists(file, w)
    PROVE  ParseSwitchString(w)
  <1>1. SwitchesKnown BY DEF Inv
  <1>2. SectionGiven(file, <<"Switch", w.switch>>)
    BY SaidGiven DEF SwitchExists
  <1>3. SwitchStored(file, switches, w.switch)
    BY <1>1, <1>2 DEF SwitchesKnown, SwitchExists, Before, SwitchesRead
  <1>4. PICK n \in 1..Len(switches) :
           /\ switches[n].id = w.switch
           /\ switches[n].enabled = ~SaidOff(file, <<"Switch", w.switch>>)
           /\ switches[n].ports = {p \in 1..MaxSwitchPorts :
                  Said(file, <<"Switch", w.switch>>, <<"port", p>>) # Null}
    BY <1>3 DEF SwitchStored
  <1>5. switches[n].enabled BY <1>4 DEF SwitchExists
  <1>6. {w.ups, w.dps} \subseteq switches[n].ports
    BY <1>4 DEF SwitchExists
  <1> QED BY <1>4, <1>5, <1>6 DEF ParseSwitchString

\* A list of such switches is read to its end.
LEMMA SwitchesFound ==
    ASSUME Inv, pc = "topology", Complete(file), NEW conns,
           \A w \in Elements(conns) : SwitchExists(file, w)
    PROVE  /\ ParseSwConnsString(conns) \in {"good", "null"}
           /\ 1 \in 1..Len(conns) => ParseSwConnsString(conns) = "good"
  <1>1. \A w \in Elements(conns) : ParseSwitchString(w) BY SwitchFound
  <1>2. \A n \in 1..Len(conns) : ParseSwitchString(conns[n])
    BY <1>1 DEF Elements
  <1>3. ParseSwConnsString(conns) \in {"good", "null"}
    BY <1>2 DEF ParseSwConnsString
  <1>4. ASSUME 1 \in 1..Len(conns) PROVE ParseSwConnsString(conns) = "good"
    <2>1. ParseSwitchString(conns[1]) BY <1>2, <1>4
    <2> QED BY <1>2, <2>1 DEF ParseSwConnsString
  <1> QED BY <1>3, <1>4

\* Where every switch of a path is found, the list of switches is never freed
\* halfway.
LEMMA NoWildList ==
    ASSUME Inv, pc = "topology", WellFormed(file), NEW s
    PROVE  ~WildList(s)
  <1> SUFFICES ASSUME NEW entry \in {"path1", "path2"},
                      GetString(s, K(entry))[1] = "path",
                      ParseSwConnsString(GetString(s, K(entry))[2].conns) = "crash"
               PROVE  FALSE
    BY DEF WildList
  <1> DEFINE v == GetString(s, K(entry))
  <1>1. InputsKnown /\ ItemsKnown /\ pc \in Reading /\ Complete(file)
    BY DEF Inv, Reading, WellFormed
  <1>2. PICK i : GivenAt(file, i, s, K(entry)) /\ v = file[i].value
    <2>1. v # Null BY DEF Null
    <2> QED BY <1>1, <2>1, ItemsFacts
  <1>3. \A w \in Elements(v[2].conns) : SwitchExists(file, w)
    <2> HIDE DEF v
    <2>1. v[1] = "path" BY DEF v
    <2> QED BY <1>2, <2>1 DEF WellFormed, GivenAt
  <1>4. ParseSwConnsString(v[2].conns) \in {"good", "null"}
    <2> HIDE DEF v
    <2> QED BY <1>1, <1>3, SwitchesFound
  <1> QED BY <1>4

\* A well-formed path is one the parser follows.
LEMMA PathAccepted ==
    ASSUME Inv, pc = "topology", Complete(file), NEW v,
           v = Null \/ ValueAsFormatted(v),
           NEW conn \in {"direct", "switch", "peer2peer"},
           WellFormedPath(file, ports, v, conn)
    PROVE  GoodPath(v, conn)
  <1>1. /\ v[1] = "path"
        /\ {v[2].root, v[2].end} \subseteq {ports[i].name : i \in 1..Len(ports)}
        /\ conn = "direct" <=> v[2].conns = <<>>
        /\ \A w \in Elements(v[2].conns) : SwitchExists(file, w)
    BY DEF WellFormedPath
  <1>2. ASSUME v[2].conns # <<>> PROVE ParseSwConnsString(v[2].conns) = "good"
    <2>1. v[2].conns \in Seq(Elements(v[2].conns))
      BY <1>1 DEF ValueAsFormatted, Null
    <2> DEFINE conns == v[2].conns
    <2>2. PICK E : conns \in Seq(E) BY <2>1
    <2>3. conns # <<>> BY <1>2
    <2>4. \A w \in Elements(conns) : SwitchExists(file, w) BY <1>1
    <2> HIDE DEF conns
    <2>5. 1 \in 1..Len(conns) BY <2>2, <2>3
    <2>6. ParseSwConnsString(conns) = "good" BY <2>4, <2>5, SwitchesFound
    <2> QED BY <2>6 DEF conns
  <1>3. get_port_by_name(v[2].root) # {} /\ get_port_by_name(v[2].end) # {}
    BY <1>1 DEF get_port_by_name
  <1> QED BY <1>1, <1>2, <1>3 DEF GoodPath

\* A well-formed topology is one the parser accepts.
LEMMA TopologyAccepted ==
    ASSUME Inv, pc = "topology", Complete(file),
           WellFormedTopology(file, ports, index)
    PROVE  /\ Acceptable(<<"Topology", index>>)
           /\ IsValidSection(<<"Topology", index>>)
  <1> DEFINE s == <<"Topology", index>>
             v1 == Said(file, s, K("path1"))
             v2 == Said(file, s, K("path2"))
             conn == Said(file, s, K("connection"))
             seg == Said(file, s, K("segment"))
             fid == Said(file, s, K("tdisp_function_id"))
  <1>1. InputsKnown /\ ItemsKnown /\ pc \in Reading
    BY DEF Inv, Reading
  <1>2. \A e : GetString(s, e) = Said(file, s, e) BY <1>1, ItemsFacts
  <1>3. /\ is_valid(Said(file, s, K("type")), Types)
        /\ is_valid(conn, Connections)
        /\ WellFormedPath(file, ports, v1, conn[2])
        /\ conn[2] = "peer2peer" => /\ WellFormedPath(file, ports, v2, conn[2])
                                    /\ v1[2].end # v2[2].end
        /\ conn[2] # "peer2peer" => v1[2].root # v1[2].end
        /\ seg[1] = "hex" => seg[2] <= 65535
        /\ fid[1] = "hex" => fid[2] <= MaxFunctionId
    BY DEF WellFormedTopology
  <1>4. IsValidSection(s)
    <2>1. v1[1] = "path" BY <1>3 DEF WellFormedPath
    <2>2. v1 # Null BY <2>1 DEF Null
    <2>3. SectionGiven(file, s) BY <2>2, SaidGiven
    <2> QED BY <1>1, <2>3, ItemsFacts
  <1> HIDE DEF s, v1, v2, conn, seg, fid
  <1>5. conn[2] \in {"direct", "switch", "peer2peer"}
    BY <1>3 DEF is_valid, Connections, Elements
  <1>6. GoodPaths(s, conn[2])
    <2>0. /\ v1 = Null \/ ValueAsFormatted(v1)
          /\ v2 = Null \/ ValueAsFormatted(v2)
      BY <1>1, <1>2, ItemsFacts DEF v1, v2
    <2>1. GoodPath(v1, conn[2]) BY <1>3, <1>5, <2>0, PathAccepted
    <2>2. conn[2] = "peer2peer" => GoodPath(v2, conn[2])
      BY <1>3, <1>5, <2>0, PathAccepted
    <2> QED BY <1>2, <2>1, <2>2 DEF GoodPaths, v1, v2
  <1>7. ~(FunctionData(s) > MaxFunctionId
          /\ GetHexUint32(s, K("tdisp_function_id")))
    <2> SUFFICES ASSUME GetHexUint32(s, K("tdisp_function_id"))
                 PROVE  ~(FunctionData(s) > MaxFunctionId)
      OBVIOUS
    <2>1. fid[1] = "hex" /\ FunctionData(s) = fid[2]
      BY <1>2 DEF GetHexUint32, IsValidHexString, FunctionData, Number, fid
    <2>2. fid = Null \/ ValueAsFormatted(fid)
      BY <1>1, <1>2, ItemsFacts DEF fid
    <2>3. fid[2] \in Nat BY <2>1, <2>2 DEF Null, ValueAsFormatted
    <2> QED BY <1>3, <2>1, <2>3 DEF MaxFunctionId
  <1>8. ~(TopologySegment(s) > 65535)
    <2>1. opt.segment \in Nat \cup {NoOption} /\ opt.segment <= 65535
      BY <1>1, OptionsAssumption DEF InputsKnown
    <2>2. g_scan_segment # InvalidSegment => ~(g_scan_segment > 65535)
      BY <2>1 DEF g_scan_segment
    <2>3. GetHexUint32(s, K("segment")) => ~(Number(s, K("segment")) > 65535)
      <3>1. seg = Null \/ ValueAsFormatted(seg)
        BY <1>1, <1>2, ItemsFacts DEF seg
      <3>2. seg[1] = "hex" => seg[2] \in Nat BY <3>1 DEF Null, ValueAsFormatted
      <3> QED BY <1>2, <1>3, <3>2 DEF GetHexUint32, IsValidHexString, Number, seg
    <2> QED BY <2>2, <2>3 DEF TopologySegment
  <1>9. Acceptable(s)
    BY <1>2, <1>3, <1>6, <1>7, <1>8 DEF Acceptable, v1, v2, conn
  <1> QED BY <1>4, <1>9 DEF s

\* What an accepted section leaves is what the file says.
LEMMA TopologyStored ==
    ASSUME Inv, pc = "topology", Complete(file), NEW t \in TopologySet,
           t.id = index, t.enabled = Enabled(<<"Topology", index>>),
           t.type = GetString(<<"Topology", index>>, K("type"))[2],
           t.connection = GetString(<<"Topology", index>>, K("connection"))[2],
           t.segment = TopologySegment(<<"Topology", index>>),
           t.bus = TopologyBus(<<"Topology", index>>),
           DrawnAs(<<"Topology", index>>, t)
    PROVE  TopologyAsSaid(file, ports, t) /\ Overridden(file, opt, t)
  <1> DEFINE s == <<"Topology", t.id>>
  <1>0. s = <<"Topology", index>> OBVIOUS
  <1>1. InputsKnown /\ ItemsKnown /\ pc \in Reading
    BY DEF Inv, Reading
  <1>2. \A e : GetString(s, e) = Said(file, s, e) BY <1>1, ItemsFacts
  <1>3. t.enabled = ~SaidOff(file, s) BY <1>0, <1>2, EnabledSaid
  <1>4. t.connection \in {"direct", "switch", "peer2peer"}
    <2>1. t.connection \in Elements(Connections) BY DEF TopologySet
    <2> QED BY <2>1 DEF Elements, Connections
  <1>5. DrawnAs(s, t) BY <1>0
  <1>6. /\ t.type = Said(file, s, K("type"))[2]
        /\ t.connection = Said(file, s, K("connection"))[2]
        /\ t.segment = TopologySegment(s) /\ t.bus = TopologyBus(s)
    BY <1>0, <1>2
  <1>7. AsDrawn(file, ports, t)
    <2> DEFINE p1 == Said(file, s, K("path1"))[2]
               p2 == Said(file, s, K("path2"))[2]
    <2>1. /\ t.connection # "peer2peer" =>
                /\ ports[t.upper_port].name = p1.root
                /\ ports[t.lower_port].name = p1.end
                /\ t.connection = "switch" => t.sw_conn1 = p1.conns
          /\ t.connection = "peer2peer" =>
                /\ ports[t.upper_port].name = p1.end
                /\ ports[t.lower_port].name = p2.end
                /\ t.sw_conn1 = p1.conns /\ t.sw_conn2 = p2.conns
      BY <1>2, <1>5 DEF DrawnAs
    <2>2. AsDrawn(file, ports, t) =
            CASE t.connection = "direct" ->
                   /\ ports[t.upper_port].name = p1.root
                   /\ ports[t.lower_port].name = p1.end
              [] t.connection = "switch" ->
                   /\ ports[t.upper_port].name = p1.root
                   /\ ports[t.lower_port].name = p1.end
                   /\ t.sw_conn1 = p1.conns
              [] t.connection = "peer2peer" ->
                   /\ ports[t.upper_port].name = p1.end
                   /\ ports[t.lower_port].name = p2.end
                   /\ t.sw_conn1 = p1.conns /\ t.sw_conn2 = p2.conns
      BY DEF AsDrawn
    <2> HIDE DEF p1, p2
    <2> QED BY <1>4, <2>1, <2>2
  <1>8. Overridden(file, opt, t)
    <2> DEFINE seg == Said(file, s, K("segment"))
               bus == Said(file, s, K("bus"))
    <2>1. t.segment = IF opt.segment \notin {NoOption, InvalidSegment} THEN opt.segment
                      ELSE IF seg[1] = "hex" THEN seg[2] ELSE 0
      BY <1>2, <1>6 DEF TopologySegment, g_scan_segment, GetHexUint32,
                        IsValidHexString, Number
    <2>2. opt.bus \notin {NoOption, InvalidBus} => t.bus = opt.bus
      BY <1>6 DEF TopologyBus, g_scan_bus
    <2>3. (opt.bus \in {NoOption, InvalidBus} /\ bus[1] = "hex")
             => t.bus = bus[2] % 256
      BY <1>2, <1>6 DEF TopologyBus, g_scan_bus, BusData, GetHexUint32,
                        IsValidHexString, Number
    <2> QED BY <2>1, <2>2, <2>3 DEF Overridden
  <1> QED BY <1>3, <1>6, <1>7, <1>8 DEF TopologyAsSaid

\* Reading a topology keeps what is known of the topologies.
LEMMA TopologyStep ==
    ASSUME Inv, ParseTopologySection
    PROVE  TopologiesKnown' /\ NoStopOnGoodFile'
  <1> DEFINE s == <<"Topology", index>>
             k == topCnt + 1
             r == TopologySection(s, topologies[k])
             Leave == \/ index < MaxTopologies /\ pc' = "topology"
                         /\ index' = index + 1
                      \/ ~(index < MaxTopologies) /\ index' = 1
                         /\ pc' \in {"close", "configuration"}
  <1>1. /\ pc = "topology" /\ UNCHANGED <<file, opt, ok, ports>>
        /\ \/ /\ ~IsValidSection(s) /\ Leave
              /\ topologies' = topologies /\ topCnt' = topCnt
           \/ /\ topologies' = [topologies EXCEPT ![k] = r.top]
              /\ topCnt' = IF r.st = "good" THEN topCnt + 1 ELSE topCnt
              /\ IF r.st = "crash" THEN pc' = "crashed" ELSE Leave
    <2> HIDE DEF r
    <2>1. topCnt \in Nat BY BoundsAssumption DEF Inv, TopologiesKnown
    <2> QED BY <2>1 DEF ParseTopologySection, NextSection, Goto, inputs, r
  <1>2. /\ InputsKnown /\ ItemsKnown /\ TopologiesKnown /\ pc \in Reading
        /\ index \in Nat \ {0} /\ file \in Files /\ ~ok
        /\ index <= MaxTopologies /\ topCnt < index /\ topCnt \in Nat
        /\ MaxTopologies \in Nat /\ k \in 1..MaxTopologies /\ Len(ports) \in Nat
    <2>1. topCnt \in Nat /\ MaxTopologies \in Nat
      BY BoundsAssumption DEF Inv, TopologiesKnown
    <2>2. Len(ports) \in Nat BY LenNat DEF Inv, PortsKnown
    <2>3. /\ index \in Nat \ {0} /\ index <= MaxTopologies /\ topCnt < index /\ ~ok
      BY <1>1 DEF Inv, Progress, Parsing, TopologiesKnown
    <2>4. k \in 1..MaxTopologies BY <2>1, <2>3
    <2> QED BY <1>1, <2>1, <2>2, <2>3, <2>4 DEF Inv, Reading, InputsKnown
  <1>3. /\ r.st \in {"good", "bad", "crash"}
        /\ r.top \in TopologySet
        /\ r.st # "good" => r.top.id = 0
        /\ r.st = "crash" => WildList(s)
        /\ r.st = "good" =>
              /\ r.top.id = index /\ r.top.enabled = Enabled(s)
              /\ r.top.type = GetString(s, K("type"))[2]
              /\ r.top.connection = GetString(s, K("connection"))[2]
              /\ r.top.segment = TopologySegment(s)
              /\ r.top.bus = TopologyBus(s)
              /\ DrawnAs(s, r.top)
        /\ Acceptable(s) => r.st = "good"
    <2>1. topologies[k] \in TopologySet /\ topologies[k].id = 0
      <3> HIDE DEF k
      <3>1. k > topCnt BY <1>2 DEF k
      <3> QED BY <1>2, <3>1 DEF TopologiesKnown
    <2>2. \A e : Found(GetString(s, e), s, e)
      BY <1>2, ItemsFacts DEF Found
    <2> HIDE DEF k
    <2> QED BY <1>1, <1>2, <2>1, <2>2, TopologyResult
  <1>4. NoStopOnGoodFile'
    <2> SUFFICES ASSUME WellFormed(file), r.st = "crash" PROVE FALSE
      <3> HIDE DEF r
      <3> QED BY <1>1 DEF NoStopOnGoodFile, g_run_test_suite, Inv
    <2> QED BY <1>1, <1>3, NoWildList
  <1>5. ASSUME Complete(file), r.st = "good"
        PROVE  TopologyAsSaid(file, ports, r.top) /\ Overridden(file, opt, r.top)
    BY <1>1, <1>3, <1>5, TopologyStored
  <1>6. ASSUME Complete(file), WellFormedTopology(file, ports, index)
        PROVE  r.st = "good" /\ IsValidSection(s)
    BY <1>1, <1>3, <1>6, TopologyAccepted
  <1>7. ASSUME r.st = "good"
        PROVE {r.top.root_port, r.top.upper_port, r.top.lower_port}
                 \subseteq 1..Len(ports)
    BY <1>3, <1>7 DEF DrawnAs
  <1>8. CASE ~IsValidSection(s) /\ Leave
             /\ topologies' = topologies /\ topCnt' = topCnt
    <2> HIDE DEF r, s
    <2>1. topologies' \in [1..MaxTopologies -> TopologySet']
      BY <1>1, <1>2, <1>8 DEF TopologiesKnown, TopologySet
    <2>2. ASSUME Complete(file), NEW n \in 1..MaxTopologies,
                 Before(n, "topology", TopologiesRead)',
                 WellFormedTopology(file, ports, n)
          PROVE  \E i \in 1..topCnt : topologies[i].id = n
      <3>1. n # index BY <1>6, <1>8, <2>2
      <3>2. n < index
        BY <1>1, <1>2, <1>8, <2>2, <3>1 DEF Before, TopologiesRead
      <3> QED BY <1>1, <1>2, <2>2, <3>2 DEF TopologiesKnown, Before
    <2>3. pc' = "topology" => topCnt' < index' BY <1>2, <1>8
    <2>4. pc' = "topology" => \A i \in 1..topCnt : topologies[i].id < index'
      <3>1. \A i \in 1..topCnt : topologies[i].id < index /\ topologies[i].id \in Nat
        BY <1>1, <1>2 DEF TopologiesKnown, TopologySet
      <3> QED BY <1>2, <1>8, <3>1
    <2> QED BY <1>1, <1>2, <1>4, <1>8, <2>1, <2>2, <2>3, <2>4 DEF TopologiesKnown
  <1>9. CASE /\ topologies' = [topologies EXCEPT ![k] = r.top]
             /\ topCnt' = IF r.st = "good" THEN topCnt + 1 ELSE topCnt
             /\ IF r.st = "crash" THEN pc' = "crashed" ELSE Leave
    <2>0. topologies \in [1..MaxTopologies -> TopologySet]
      BY <1>2 DEF TopologiesKnown
    <2> HIDE DEF r, s
    <2>1. topologies' \in [1..MaxTopologies -> TopologySet]
      BY <1>2, <1>3, <1>9, <2>0
    <2>2. TopologySet' = TopologySet BY <1>1 DEF TopologySet
    <2>3. /\ topologies'[k] = r.top
          /\ \A i \in 1..MaxTopologies : i # k => topologies'[i] = topologies[i]
      BY <1>2, <1>9, <2>0
    <2>4. \A i \in 1..topCnt : i \in 1..MaxTopologies /\ i # k
      BY <1>2
    <2>5. \A i \in 1..topCnt : /\ topologies[i].id < index /\ topologies[i].id \in Nat
                               /\ topologies[i].id # 0
      BY <1>1, <1>2, <2>4 DEF TopologiesKnown, TopologySet
    <2>6. \A i \in 1..topCnt' : i \in 1..topCnt \/ (i = k /\ r.st = "good")
      BY <1>2, <1>9
    <2>7. topCnt' \in 0..MaxTopologies BY <1>2, <1>9
    <2>8. \A i \in 1..MaxTopologies : i > topCnt' => topologies'[i].id = 0
      <3> SUFFICES ASSUME NEW i \in 1..MaxTopologies, i > topCnt'
                   PROVE  topologies'[i].id = 0
        OBVIOUS
      <3>1. CASE i = k
        <4>1. r.st # "good" BY <1>2, <1>9, <3>1
        <4> QED BY <1>3, <2>3, <3>1, <4>1
      <3>2. CASE i # k
        <4>1. i > topCnt BY <1>2, <1>9
        <4> QED BY <1>2, <2>3, <3>2, <4>1 DEF TopologiesKnown
      <3> QED BY <3>1, <3>2
    <2> HIDE DEF k
    <2>9. ASSUME NEW i \in 1..topCnt'
          PROVE  /\ topologies'[i].id # 0
                 /\ pc' = "topology" => topologies'[i].id < index'
                 /\ {topologies'[i].root_port, topologies'[i].upper_port,
                     topologies'[i].lower_port} \subseteq 1..Len(ports)
                 /\ Complete(file) => /\ TopologyAsSaid(file, ports, topologies'[i])
                                      /\ Overridden(file, opt, topologies'[i])
      <3>1. CASE i \in 1..topCnt
        <4>1. topologies'[i] = topologies[i] BY <2>3, <2>4, <3>1
        <4>2. pc' = "topology" => topologies[i].id < index'
          BY <1>2, <1>9, <2>5, <3>1
        <4> QED BY <1>2, <2>5, <3>1, <4>1, <4>2 DEF TopologiesKnown
      <3>2. CASE i = k /\ r.st = "good"
        <4>1. topologies'[i] = r.top BY <2>3, <3>2
        <4>2. r.top.id = index BY <1>3, <3>2
        <4>3. pc' = "topology" => index < index' BY <1>2, <1>9, <3>2
        <4> QED BY <1>2, <1>5, <1>7, <3>2, <4>1, <4>2, <4>3
      <3> QED BY <2>6, <3>1, <3>2
    <2>10. \A i, j \in 1..topCnt' : i < j => topologies'[i].id < topologies'[j].id
      <3> SUFFICES ASSUME NEW i \in 1..topCnt', NEW j \in 1..topCnt', i < j
                   PROVE  topologies'[i].id < topologies'[j].id
        OBVIOUS
      <3>1. i \in 1..topCnt BY <2>6, <1>2, <1>9 DEF k
      <3>2. topologies'[i] = topologies[i] BY <2>3, <2>4, <3>1
      <3>3. CASE j \in 1..topCnt
        <4>1. topologies'[j] = topologies[j] BY <2>3, <2>4, <3>3
        <4> QED BY <1>2, <3>1, <3>2, <3>3, <4>1 DEF TopologiesKnown
      <3>4. CASE j = k /\ r.st = "good"
        BY <1>3, <2>3, <2>5, <3>1, <3>2, <3>4
      <3> QED BY <2>6, <3>3, <3>4
    <2>11. pc' = "topology" => topCnt' < index' BY <1>2, <1>9
    <2>12. ASSUME Complete(file), NEW n \in 1..MaxTopologies,
                  Before(n, "topology", TopologiesRead)',
                  WellFormedTopology(file, ports, n)
           PROVE  \E i \in 1..topCnt' : topologies'[i].id = n
      <3>1. CASE n = index
        <4>1. r.st = "good" BY <1>6, <2>12, <3>1
        <4>2. k \in 1..topCnt' BY <1>2, <1>9, <4>1 DEF k
        <4> QED BY <1>3, <2>3, <3>1, <4>1, <4>2
      <3>2. CASE n # index
        <4>1. n < index
          BY <1>1, <1>2, <1>9, <2>12, <3>2 DEF Before, TopologiesRead
        <4>2. PICK i \in 1..topCnt : topologies[i].id = n
          BY <1>1, <1>2, <2>12, <4>1 DEF TopologiesKnown, Before
        <4>3. topologies'[i].id = n BY <2>3, <2>4, <4>2
        <4>4. i \in 1..topCnt' BY <1>2, <1>9, <4>2
        <4> QED BY <4>3, <4>4
      <3> QED BY <3>1, <3>2
    <2>13. pc' \notin {"cmdline", "open", "main", "rootport", "endpoint", "switch"}
      BY <1>9
    <2> QED
      BY <1>1, <1>4, <2>1, <2>2, <2>7, <2>8, <2>9, <2>10, <2>11, <2>12, <2>13
      DEF TopologiesKnown
  <1> QED BY <1>1, <1>8, <1>9

-----------------------------------------------------------------------------
(* The configurations.                                                      *)

\* Category and type of a section are the ones said.
LEMMA KindSaid ==
    ASSUME NEW s, \A e : GetString(s, e) = Said(file, s, e)
    PROVE  /\ CategoryOf(s) = SaidCategory(file, s)
           /\ TypeOf(s) = SaidType(file, s)
           /\ KindValid(s) <=> WellFormedKind(file, s)
  <1>1. CategoryOf(s) = SaidCategory(file, s) BY DEF CategoryOf, SaidCategory
  <1>2. TypeOf(s) = SaidType(file, s) BY <1>1 DEF TypeOf, SaidType, NeedsType
  <1>3. KindValid(s) <=> WellFormedKind(file, s)
    BY <1>1 DEF KindValid, WellFormedKind, NeedsType
  <1> QED BY <1>1, <1>2, <1>3

\* A section that passes has a category there is.
LEMMA KindKnown ==
    ASSUME NEW s, KindValid(s)
    PROVE  CategoryOf(s) \in Elements(Categories)
  <1>1. CASE GetString(s, K("category")) = Null
    <2>1. CategoryOf(s) = "pcie-ide" BY <1>1 DEF CategoryOf
    <2>2. "pcie-ide" \in Elements(Categories) BY DEF Elements, Categories
    <2> QED BY <2>1, <2>2
  <1>2. CASE GetString(s, K("category")) # Null
    BY <1>2 DEF KindValid, CategoryOf, is_valid
  <1> QED BY <1>1, <1>2

\* A slot more that is taken is counted.
LEMMA OneMore ==
    ASSUME NEW n \in Nat, NEW S, S \subseteq 1..n, NEW i \in 1..n, i \notin S
    PROVE  Cardinality(S \cup {i}) = Cardinality(S) + 1
  <1>1. IsFiniteSet(1..n) BY FS_Interval
  <1>2. IsFiniteSet(S) BY <1>1, FS_Subset
  <1> QED BY <1>2, FS_AddElement

\* In a well-formed file no configuration has a type that is none there is.
LEMMA TypePrinted ==
    ASSUME Inv, pc = "configuration", WellFormed(file)
    PROVE  ~TypeMisprinted(<<"Configuration", index>>)
  <1> DEFINE s == <<"Configuration", index>>
             v == Said(file, s, K("type"))
  <1>1. InputsKnown /\ ItemsKnown /\ pc \in Reading /\ Complete(file)
    BY DEF Inv, Reading, WellFormed
  <1>2. \A e : GetString(s, e) = Said(file, s, e) BY <1>1, ItemsFacts
  <1>3. index \in 1..MaxConfigurations
    BY BoundsAssumption DEF Inv, Progress
  <1>4. (SaidCategory(file, s) \in {"pcie-ide", "tdisp"} /\ v # Null)
           => is_valid(v, Types)
    BY <1>3 DEF WellFormed
  <1>5. CategoryOf(s) = SaidCategory(file, s) BY <1>2, KindSaid
  <1> HIDE DEF s
  <1> QED BY <1>2, <1>4, <1>5 DEF TypeMisprinted, NeedsType, s

\* Reading a configuration keeps what is known of the configurations.
LEMMA ConfigurationStep ==
    ASSUME Inv, ParseConfigurationSection
    PROVE  ConfigurationsKnown' /\ Progress' /\ NoStopOnGoodFile'
  <1> DEFINE s == <<"Configuration", index>>
             c == CategoryOf(s)
             good == /\ IsValidSection(s) /\ KindValid(s)
                     /\ \A i \in 1..MaxConfigurations : configurations[i].id # index
             new == [id |-> index, enabled |-> Enabled(s),
                     type |-> TypeOf(s), category |-> c,
                     bit_map |-> BitMap(s, c), mode |-> IdeMode(s, c)]
             last == index = MaxConfigurations /\ ~g_run_test_suite
             misprinted == IsValidSection(s) /\ TypeMisprinted(s)
  <1>1. /\ pc = "configuration" /\ UNCHANGED <<file, opt, spdm_version>>
        /\ configurations' = IF good THEN [configurations EXCEPT ![index] = new]
                             ELSE configurations
        /\ confCnt' = confCnt + (IF good THEN 1 ELSE 0)
        /\ \/ misprinted /\ pc' = "crashed" /\ index' = 1 /\ ok' = ok
           \/ /\ index = MaxConfigurations /\ pc' = "close" /\ index' = 1
              /\ ok' = ok
           \/ /\ index < MaxConfigurations /\ pc' = pc /\ index' = index + 1
              /\ ok' = last
           \/ /\ ~(index < MaxConfigurations) /\ index' = 1
              /\ pc' = IF g_run_test_suite THEN "suite" ELSE "close"
              /\ ok' = last
    BY DEF ParseConfigurationSection, NextSection, Goto, inputs
  <1>2. /\ InputsKnown /\ ItemsKnown /\ ConfigurationsKnown /\ pc \in Reading
        /\ index \in Nat \ {0} /\ file \in Files /\ ok = FALSE
        /\ index <= MaxConfigurations /\ MaxConfigurations \in Nat
        /\ MaxSuites \in Nat /\ 1 <= MaxSuites
        /\ index \in 1..MaxConfigurations
        /\ spdm_version \in Versions
    <2>1. /\ index \in Nat \ {0} /\ MaxConfigurations \in Nat
          /\ index <= MaxConfigurations /\ MaxSuites \in Nat /\ 1 <= MaxSuites
      BY <1>1, BoundsAssumption DEF Inv, Progress
    <2>2. index \in 1..MaxConfigurations BY <2>1
    <2> QED BY <1>1, <2>1, <2>2 DEF Inv, Reading, InputsKnown, Progress, Parsing
  <1>3. g_run_test_suite \in BOOLEAN BY DEF g_run_test_suite
  <1>0. /\ last \in BOOLEAN
        /\ index < MaxConfigurations => last = FALSE
        /\ (index = MaxConfigurations /\ g_run_test_suite) => last = FALSE
        /\ (index = MaxConfigurations /\ ~g_run_test_suite) => last = TRUE
    BY <1>2
  <1> HIDE DEF good, new, c, last, misprinted
  <1>4. Progress'
    <2>1. g_run_test_suite' = g_run_test_suite BY <1>1 DEF g_run_test_suite
    <2>2. CASE index < MaxConfigurations /\ pc' = pc /\ index' = index + 1
               /\ ok' = last
      <3>1. ok' = FALSE BY <1>0, <2>2
      <3>2. index' \in Nat \ {0} /\ index' <= MaxConfigurations BY <1>2, <2>2
      <3>3. pc' = "configuration" BY <1>1, <2>2
      <3> QED BY <1>1, <1>2, <3>1, <3>2, <3>3 DEF Progress, Labels, Parsing
    <2>3. CASE /\ ~(index < MaxConfigurations) /\ index' = 1
               /\ pc' = IF g_run_test_suite THEN "suite" ELSE "close"
               /\ ok' = last
      <3>0. index = MaxConfigurations BY <1>2, <2>3
      <3>2. CASE g_run_test_suite
        <4>1. ok' = FALSE /\ pc' = "suite" BY <1>0, <2>3, <3>0, <3>2
        <4>2. g_run_test_suite' BY <2>1, <3>2
        <4>3. index' \in Nat \ {0} /\ index' <= MaxSuites BY <1>2, <2>3
        <4>4. spdm_version' \in Versions BY <1>1, <1>2
        <4> QED BY <4>1, <4>2, <4>3, <4>4 DEF Progress, Labels, Parsing
      <3>3. CASE ~g_run_test_suite
        <4>1. ok' = TRUE /\ pc' = "close" BY <1>0, <2>3, <3>0, <3>3
        <4> QED BY <1>1, <1>2, <2>3, <4>1 DEF Progress, Labels, Parsing
      <3> QED BY <3>2, <3>3
    <2>4. CASE index = MaxConfigurations /\ pc' = "close" /\ index' = 1 /\ ok' = ok
      <3>1. ok' = FALSE BY <1>2, <2>4
      <3>2. index' \in Nat \ {0} /\ pc' = "close" BY <2>4
      <3>3. spdm_version' \in Versions BY <1>1, <1>2
      <3> QED BY <3>1, <3>2, <3>3 DEF Progress, Labels, Parsing
    <2>5. CASE pc' = "crashed" /\ index' = 1 /\ ok' = ok
      <3>1. ok' = FALSE /\ index' \in Nat \ {0} /\ spdm_version' \in Versions
        BY <1>1, <1>2, <2>5
      <3> QED BY <2>5, <3>1 DEF Progress, Labels, Parsing
    <2> QED BY <1>1, <2>2, <2>3, <2>4, <2>5
  <1>5. DOMAIN configurations = 1..MaxConfigurations
    BY <1>2 DEF ConfigurationsKnown
  <1>6. /\ configurations[index].id = 0
        /\ \A i \in 1..MaxConfigurations : configurations[i].id # index
    <2>1. \A i \in 1..MaxConfigurations :
             /\ configurations[i].id \in {0, i}
             /\ i >= index => configurations[i].id = 0
      BY <1>1, <1>2 DEF ConfigurationsKnown
    <2>2. index >= index /\ index # 0 BY <1>2
    <2> HIDE DEF s
    <2> QED BY <1>2, <2>1, <2>2
  <1>7. ASSUME NEW i \in 1..MaxConfigurations
        PROVE  configurations'[i] = IF good /\ i = index THEN new
                                    ELSE configurations[i]
    BY <1>1, <1>2, <1>5, <1>7
  <1>8. DOMAIN configurations' = 1..MaxConfigurations
    BY <1>1, <1>5
  <1>9. new.id = index /\ new.enabled = Enabled(s) /\ new.type = TypeOf(s)
        /\ new.category = c /\ new.bit_map = BitMap(s, c)
    BY DEF new
  <1>10. confCnt' = Cardinality({i \in 1..MaxConfigurations :
                                    configurations'[i].id # 0})
    <2> DEFINE S == {i \in 1..MaxConfigurations : configurations[i].id # 0}
               T == {i \in 1..MaxConfigurations : configurations'[i].id # 0}
    <2>1. confCnt = Cardinality(S) BY <1>2 DEF ConfigurationsKnown
    <2>2. CASE good
      <3>1. T = S \cup {index}
        <4>1. \A i \in 1..MaxConfigurations :
                 configurations'[i].id # 0 <=> (configurations[i].id # 0 \/ i = index)
          BY <1>2, <1>7, <1>9, <2>2
        <4> QED BY <1>2, <4>1
      <3>2. index \notin S BY <1>6
      <3> HIDE DEF T
      <3>3. S \subseteq 1..MaxConfigurations OBVIOUS
      <3> HIDE DEF S
      <3>4. Cardinality(T) = Cardinality(S) + 1
        BY <1>2, <3>1, <3>2, <3>3, OneMore
      <3> QED BY <1>1, <2>1, <2>2, <3>4 DEF T
    <2>3. CASE ~good
      <3>1. T = S BY <1>1, <2>3
      <3>2. Cardinality(S) \in Nat
        <4>1. IsFiniteSet(1..MaxConfigurations) BY <1>2, FS_Interval
        <4>2. S \subseteq 1..MaxConfigurations OBVIOUS
        <4> HIDE DEF S
        <4>3. IsFiniteSet(S) BY <4>1, <4>2, FS_Subset
        <4> QED BY <4>3, FS_CardinalityType
      <3> HIDE DEF S
      <3>3. confCnt' = confCnt + 0 BY <1>1, <2>3
      <3>4. confCnt' = Cardinality(S) BY <2>1, <3>2, <3>3
      <3>5. Cardinality(T) = Cardinality(S) BY <3>1
      <3> QED BY <3>4, <3>5
    <2> QED BY <2>2, <2>3
  <1>11. ASSUME Complete(file)
         PROVE  /\ \A e : GetString(s, e) = Said(file, s, e)
                /\ c = SaidCategory(file, s) /\ TypeOf(s) = SaidType(file, s)
                /\ KindValid(s) <=> WellFormedKind(file, s)
                /\ IsValidSection(s) <=> SectionGiven(file, s)
    <2>1. \A e : GetString(s, e) = Said(file, s, e) BY <1>2, <1>11, ItemsFacts
    <2>2. IsValidSection(s) <=> SectionGiven(file, s) BY <1>2, <1>11, ItemsFacts
    <2> QED BY <2>1, <2>2, KindSaid DEF c
  <1>12. ASSUME Complete(file), good PROVE ConfigurationAsSaid(file, new)
    <2>1. Enabled(s) = ~SaidOff(file, s) BY <1>11, <1>12, EnabledSaid
    <2>2. \A item \in BitMap(s, c) \ {"default"} : SaidOn(file, s, item)
      BY <1>11, <1>12 DEF BitMap, SaidOn, GetDecimalUint32, IsValidDecimalString,
                          Number
    <2> QED BY <1>9, <1>11, <1>12, <2>1, <2>2 DEF ConfigurationAsSaid
  <1>13. good => c \in Elements(Categories) BY KindKnown DEF good, c
  <1>14. ASSUME NEW i \in 1..MaxConfigurations
         PROVE  /\ configurations'[i].id \in {0, i}
                /\ configurations'[i].id # 0 =>
                      configurations'[i].category \in Elements(Categories)
                /\ (configurations'[i].id # 0 /\ Complete(file)) =>
                      ConfigurationAsSaid(file, configurations'[i])
    BY <1>2, <1>7, <1>9, <1>12, <1>13 DEF ConfigurationsKnown
  <1>15. ASSUME NEW i \in 1..MaxConfigurations,
                pc' = "configuration" /\ i >= index'
         PROVE  configurations'[i].id = 0
    <2>1. i # index /\ i >= index BY <1>1, <1>2, <1>15
    <2>2. configurations[i].id = 0 BY <1>1, <1>2, <2>1 DEF ConfigurationsKnown
    <2> QED BY <1>7, <2>1, <2>2
  <1>16. pc' \notin Parsing \ {"configuration", "suite"}
    BY <1>1 DEF Parsing
  <1>17. ASSUME NEW i \in 1..MaxConfigurations, Complete(file),
                Before(i, "configuration", ConfigurationsRead)',
                SectionGiven(file, <<"Configuration", i>>),
                WellFormedKind(file, <<"Configuration", i>>)
         PROVE  configurations'[i].id = i
    <2>1. CASE i = index
      <3>1. good BY <1>6, <1>11, <1>17, <2>1 DEF good
      <3> QED BY <1>7, <1>9, <2>1, <3>1
    <2>2. CASE i # index
      <3>1. i < index
        <4>1. CASE index < MaxConfigurations /\ pc' = pc /\ index' = index + 1
                   /\ ok' = last
          <5>1. ok' = FALSE BY <1>0, <4>1
          <5>2. i < index' BY <1>1, <1>17, <4>1, <5>1 DEF Before, ConfigurationsRead
          <5> QED BY <1>2, <2>2, <4>1, <5>2
        <4>2. CASE ~(index < MaxConfigurations) \/ index = MaxConfigurations
          BY <1>2, <2>2, <4>2
        <4>3. CASE pc' = "crashed" /\ ok' = ok
          BY <1>2, <1>17, <4>3 DEF Before, ConfigurationsRead
        <4> QED BY <1>1, <4>1, <4>2, <4>3
      <3>2. Before(i, "configuration", ConfigurationsRead)
        BY <1>1, <3>1 DEF Before
      <3> QED BY <1>2, <1>7, <1>17, <2>2, <3>2 DEF ConfigurationsKnown
    <2> QED BY <2>1, <2>2
  <1>18. ConfigurationsKnown'
    BY <1>1, <1>8, <1>10, <1>14, <1>15, <1>16, <1>17
    DEF ConfigurationsKnown, Parsing
  <1>19. NoStopOnGoodFile'
    <2> SUFFICES ASSUME WellFormed(file), misprinted PROVE FALSE
      BY <1>1 DEF NoStopOnGoodFile, g_run_test_suite, Inv
    <2>1. TypeMisprinted(s) BY DEF misprinted
    <2> QED BY <1>1, <2>1, TypePrinted
  <1> QED BY <1>4, <1>18, <1>19

-----------------------------------------------------------------------------
(* The suites.                                                              *)

\* The cases of a suite in section s, of category c, are the ones said there.
CasesAsSaid(s, c, a) ==
    /\ a \in Seq(Elements(a)) /\ Len(a) = Len(CaseClasses(c))
    /\ \A k \in 1..Len(a) :
          a[k] \in {<<>>, GetUint32Array(
                             Said(file, s, K(CaseClasses(c)[k].class)))}

\* ParseTestSuiteCaseEntry, class by class, stores what is said or nothing.
LEMMA CasesStored ==
    ASSUME NEW s, NEW c, \A e : GetString(s, e) = Said(file, s, e),
           NEW n, n = Len(CaseClasses(c)), n \in Nat,
           NEW S, NEW a \in [1..n -> S],
           \A i \in 1..n : a[i] = ParseTestSuiteCaseEntry(s, CaseClasses(c)[i])
    PROVE  CasesAsSaid(s, c, a)
  <1> DEFINE Entry(i) == ParseTestSuiteCaseEntry(s, CaseClasses(c)[i])
  <1>1. \A k : Entry(k) \in {<<>>, GetUint32Array(
                                 Said(file, s, K(CaseClasses(c)[k].class)))}
    BY DEF ParseTestSuiteCaseEntry
  <1>2. \A i \in 1..n : a[i] = Entry(i) OBVIOUS
  <1> HIDE DEF Entry
  <1>3. a \in Seq({Entry(i) : i \in 1..n}) /\ Len(a) = n BY <1>2
  <1>4. {Entry(i) : i \in 1..n} = Elements(a) BY <1>2, <1>3 DEF Elements
  <1> QED BY <1>1, <1>2, <1>3, <1>4 DEF CasesAsSaid

\* Every category has classes.
LEMMA ClassCount ==
    ASSUME NEW c \in Elements(Categories)
    PROVE  Len(CaseClasses(c)) \in Nat
  <1>1. c \in {"pcie-ide", "cxl-ide", "tdisp", "cxl-tsp", "spdm"}
    BY DEF Elements, Categories
  <1>2. CASE c = "spdm"
    <2> DEFINE n == Len(SpdmClasses)
               Row(k) == Class(SpdmClasses[k], SpdmCases[k])
    <2>1. n \in Nat BY DEF SpdmClasses
    <2> HIDE DEF n, Row
    <2>2. Len([k \in 1..n |-> Row(k)]) = n BY <2>1
    <2>3. CaseClasses(c) = [k \in 1..n |-> Row(k)]
      BY <1>2 DEF CaseClasses, m_spdm_test_case_names, n, Row
    <2> QED BY <2>1, <2>2, <2>3
  <1>3. CASE c = "pcie-ide" BY <1>3 DEF CaseClasses, m_test_case_names
  <1>4. CASE c = "cxl-ide" BY <1>4 DEF CaseClasses, m_cxl_ide_test_case_names
  <1>5. CASE c = "tdisp" BY <1>5 DEF CaseClasses, m_tdisp_test_case_names
  <1>6. CASE c = "cxl-tsp" BY <1>6 DEF CaseClasses, m_cxl_tsp_test_case_names
  <1> QED BY <1>1, <1>2, <1>3, <1>4, <1>5, <1>6

\* What an accepted section leaves is what the file says.
LEMMA SuiteStored ==
    ASSUME Inv, pc = "suite", Complete(file), NEW u,
           KindValid(<<"TestSuite", index>>),
           SuiteTopology(<<"TestSuite", index>>),
           SuiteConfiguration(<<"TestSuite", index>>),
           u.id = index, u.enabled = Enabled(<<"TestSuite", index>>),
           u.type = TypeOf(<<"TestSuite", index>>),
           u.category = CategoryOf(<<"TestSuite", index>>),
           u.topology_id = Number(<<"TestSuite", index>>, K("topology")),
           u.configuration_id = Number(<<"TestSuite", index>>, K("configuration")),
           u.cases = [i \in 1..Len(CaseClasses(CategoryOf(<<"TestSuite", index>>))) |->
                        ParseTestSuiteCaseEntry(<<"TestSuite", index>>,
                           CaseClasses(CategoryOf(<<"TestSuite", index>>))[i])]
    PROVE  SuiteAsSaid(file, u)
  <1> DEFINE s == <<"TestSuite", index>>
             c == CategoryOf(s)
  <1>1. InputsKnown /\ ItemsKnown /\ pc \in Reading BY DEF Inv, Reading
  <1>2. \A e : GetString(s, e) = Said(file, s, e) BY <1>1, ItemsFacts
  <1>3. \A e : \/ GetString(s, e) = Null
               \/ \E i : GivenAt(file, i, s, e) /\ GetString(s, e) = file[i].value
    BY <1>1, ItemsFacts
  <1>4. c \in Elements(Categories) /\ Len(CaseClasses(c)) \in Nat
    BY KindKnown, ClassCount
  <1>5. c = SaidCategory(file, s) /\ TypeOf(s) = SaidType(file, s)
    BY <1>2, KindSaid
  <1>6. Enabled(s) = ~SaidOff(file, s) BY <1>2, EnabledSaid
  <1>7. /\ Number(s, K("topology")) = SaidNumber(file, s, "topology")
        /\ Number(s, K("configuration")) = SaidNumber(file, s, "configuration")
    BY <1>2 DEF SuiteTopology, SuiteConfiguration, SaidNumber, Number,
                GetDecimalUint32, IsValidDecimalString
  <1>8. ASSUME c = "tdisp"
        PROVE  \E i \in Lines(file) :
                  /\ file[i].kind = "entry" /\ file[HeaderOf(file, i)].name = s
                  /\ file[i].value[1] = "word" /\ file[i].value[2] = "tdisp"
    <2>1. GetString(s, K("category")) # Null BY <1>8 DEF CategoryOf
    <2>2. /\ GetString(s, K("category"))[1] = "word"
          /\ GetString(s, K("category"))[2] = "tdisp"
      BY <1>8, <2>1 DEF CategoryOf, KindValid, is_valid
    <2>3. PICK i : /\ GivenAt(file, i, s, K("category"))
                   /\ GetString(s, K("category")) = file[i].value
      BY <1>3, <2>1
    <2> QED BY <2>2, <2>3 DEF GivenAt
  <1>9. CasesAsSaid(s, c, u.cases)
    <2> DEFINE S == {ParseTestSuiteCaseEntry(s, CaseClasses(c)[i]) :
                        i \in 1..Len(CaseClasses(c))}
    <2>1. /\ u.cases \in [1..Len(CaseClasses(c)) -> S]
          /\ \A i \in 1..Len(CaseClasses(c)) :
                u.cases[i] = ParseTestSuiteCaseEntry(s, CaseClasses(c)[i])
      OBVIOUS
    <2> HIDE DEF s, c, S
    <2> QED BY <1>2, <1>4, <2>1, CasesStored
  <1>10. u.category = c /\ s = <<"TestSuite", u.id>> OBVIOUS
  <1> HIDE DEF c
  <1>11. u.category = "tdisp" => \E i \in Lines(file) :
            /\ file[i].kind = "entry" /\ file[HeaderOf(file, i)].name = s
            /\ file[i].value[1] = "word" /\ file[i].value[2] = "tdisp"
    BY <1>8, <1>10
  <1>12. /\ u.enabled = ~SaidOff(file, s)
         /\ u.type = SaidType(file, s) /\ u.category = SaidCategory(file, s)
         /\ u.topology_id = SaidNumber(file, s, "topology")
         /\ u.configuration_id = SaidNumber(file, s, "configuration")
    BY <1>5, <1>6, <1>7, <1>10
  <1> HIDE DEF s
  <1> QED BY <1>9, <1>10, <1>11, <1>12 DEF SuiteAsSaid, CasesAsSaid

\* A section of a well-formed suite with a well-formed topology and
\* configuration is accepted.
LEMMA SuiteAccepted ==
    ASSUME Inv, pc = "suite", Complete(file), SuiteWritten(file, ports, index)
    PROVE  /\ IsValidSection(<<"TestSuite", index>>)
           /\ KindValid(<<"TestSuite", index>>)
           /\ SuiteTopology(<<"TestSuite", index>>)
           /\ SuiteConfiguration(<<"TestSuite", index>>)
  <1> DEFINE s == <<"TestSuite", index>>
             n == SaidNumber(file, s, "topology")
             m == SaidNumber(file, s, "configuration")
             c == <<"Configuration", m>>
  <1>1. InputsKnown /\ ItemsKnown /\ pc \in Reading BY DEF Inv, Reading
  <1>2. \A e : GetString(s, e) = Said(file, s, e) BY <1>1, ItemsFacts
  <1>3. IsValidSection(s) <=> SectionGiven(file, s) BY <1>1, ItemsFacts
  <1>4. /\ CategoryOf(s) = SaidCategory(file, s)
        /\ TypeOf(s) = SaidType(file, s)
        /\ KindValid(s) <=> WellFormedKind(file, s)
    BY <1>2, KindSaid
  <1>5. /\ ~SaidOff(file, c)
        /\ n \in 1..MaxTopologies /\ WellFormedTopology(file, ports, n)
        /\ m \in 1..MaxConfigurations
        /\ SectionGiven(file, c)
        /\ WellFormedKind(file, s) /\ WellFormedKind(file, c)
        /\ SaidCategory(file, s) = SaidCategory(file, c)
        /\ SaidType(file, s) = SaidType(file, c)
        /\ SaidType(file, s) = Said(file, <<"Topology", n>>, K("type"))[2]
    BY DEF SuiteWritten
  <1>6. Said(file, s, K("topology"))[1] = "dec" /\ Said(file, s, K("topology"))[2] = n
    <2>1. n # 0 BY <1>5
    <2> QED BY <2>1 DEF SaidNumber
  <1>7. /\ Said(file, s, K("configuration"))[1] = "dec"
        /\ Said(file, s, K("configuration"))[2] = m
    <2>1. m # 0 BY <1>5
    <2> QED BY <2>1 DEF SaidNumber
  <1>8. IsValidSection(s)
    <2>1. Said(file, s, K("topology")) # Null BY <1>6 DEF Null
    <2> QED BY <1>3, <2>1, SaidGiven
  <1>9. SuiteTopology(s)
    <2>1. GetDecimalUint32(s, K("topology")) /\ Number(s, K("topology")) = n
      BY <1>2, <1>6 DEF GetDecimalUint32, IsValidDecimalString, Number
    <2> HIDE DEF n
    <2>2. PICK i \in 1..topCnt : topologies[i].id = n
      BY <1>5 DEF Inv, TopologiesKnown, Before, TopologiesRead
    <2>3. topCnt \in 0..MaxTopologies /\ MaxTopologies \in Nat
      BY BoundsAssumption DEF Inv, TopologiesKnown
    <2>4. i \in 1..MaxTopologies /\ n > 0 BY <1>5, <2>3
    <2>5. TopologyAsSaid(file, ports, topologies[i])
      BY <2>2 DEF Inv, TopologiesKnown
    <2>6. /\ topologies[i].enabled = ~SaidOff(file, <<"Topology", n>>)
          /\ topologies[i].type = Said(file, <<"Topology", n>>, K("type"))[2]
      BY <2>2, <2>5 DEF TopologyAsSaid
    <2>7. ~SaidOff(file, <<"Topology", n>>) BY <1>5 DEF WellFormedTopology
    <2>8. i \in get_topology_by_id(n)
      BY <2>2, <2>4, <2>6, <2>7 DEF get_topology_by_id
    <2> QED BY <1>4, <1>5, <2>1, <2>6, <2>8 DEF SuiteTopology
  <1>10. SuiteConfiguration(s)
    <2>1. GetDecimalUint32(s, K("configuration")) /\ Number(s, K("configuration")) = m
      BY <1>2, <1>7 DEF GetDecimalUint32, IsValidDecimalString, Number
    <2> HIDE DEF m
    <2>2. configurations[m].id = m
      BY <1>5 DEF Inv, ConfigurationsKnown, Before, ConfigurationsRead
    <2>3. MaxConfigurations \in Nat /\ m # 0 /\ m > 0
      BY <1>5, BoundsAssumption
    <2>4. ConfigurationAsSaid(file, configurations[m])
      BY <1>5, <2>2, <2>3 DEF Inv, ConfigurationsKnown
    <2>5. /\ configurations[m].enabled = ~SaidOff(file, c)
          /\ configurations[m].type = SaidType(file, c)
          /\ configurations[m].category = SaidCategory(file, c)
      BY <2>2, <2>4 DEF ConfigurationAsSaid
    <2>6. m \in get_configuration_by_id(m)
      BY <1>5, <2>2, <2>3, <2>5 DEF get_configuration_by_id
    <2> QED BY <1>4, <1>5, <2>1, <2>5, <2>6 DEF SuiteConfiguration
  <1> QED BY <1>4, <1>5, <1>8, <1>9, <1>10

\* Reading a suite keeps what is known of the suites.
LEMMA SuiteStep ==
    ASSUME Inv, ParseTestSuiteSection
    PROVE  SuitesKnown'
  <1> DEFINE s == <<"TestSuite", index>>
             c == CategoryOf(s)
             good == /\ IsValidSection(s) /\ KindValid(s)
                     /\ SuiteTopology(s) /\ SuiteConfiguration(s)
             new == [id |-> index, enabled |-> Enabled(s), type |-> TypeOf(s),
                     category |-> c, topology_id |-> Number(s, K("topology")),
                     configuration_id |-> Number(s, K("configuration")),
                     cases |-> [i \in 1..Len(CaseClasses(c)) |->
                                  ParseTestSuiteCaseEntry(s, CaseClasses(c)[i])]]
  <1>1. /\ pc = "suite" /\ UNCHANGED <<file, opt, ports, topologies, configurations>>
        /\ suites' = IF good THEN [suites EXCEPT ![index] = new] ELSE suites
        /\ suiteCnt' = suiteCnt + (IF good THEN 1 ELSE 0)
        /\ \/ /\ index < MaxSuites /\ pc' = pc /\ index' = index + 1
           \/ /\ ~(index < MaxSuites) /\ pc' = "close" /\ index' = 1
        /\ index < MaxSuites => ok' = FALSE
    <2>1. ok' = (index = MaxSuites /\ suiteCnt + (IF good THEN 1 ELSE 0) > 0)
      BY DEF ParseTestSuiteSection
    <2>2. index < MaxSuites => ok' = FALSE
      <3>1. index \in Nat /\ MaxSuites \in Nat
        BY BoundsAssumption DEF Inv, Progress
      <3> DEFINE more == suiteCnt + (IF good THEN 1 ELSE 0) > 0
      <3>2. ok' = (index = MaxSuites /\ more) BY <2>1
      <3> HIDE DEF more
      <3>3. index < MaxSuites => index # MaxSuites BY <3>1
      <3> QED BY <3>2, <3>3, Zenon
    <2> QED BY <2>2 DEF ParseTestSuiteSection, NextSection, Goto, inputs
  <1>2. /\ SuitesKnown /\ g_run_test_suite /\ ~ok
        /\ index \in Nat \ {0} /\ index <= MaxSuites /\ MaxSuites \in Nat
        /\ index \in 1..MaxSuites
    <2>1. /\ index \in Nat \ {0} /\ index <= MaxSuites /\ MaxSuites \in Nat
      BY <1>1, BoundsAssumption DEF Inv, Progress
    <2>2. index \in 1..MaxSuites BY <2>1
    <2> QED BY <1>1, <2>1, <2>2 DEF Inv, Progress, Parsing
  <1>3. g_run_test_suite'
    BY <1>1, <1>2 DEF g_run_test_suite
  <1>4. \A x : /\ get_topology_by_id(x)' = get_topology_by_id(x)
               /\ get_configuration_by_id(x)' = get_configuration_by_id(x)
    BY <1>1 DEF get_topology_by_id, get_configuration_by_id
  <1>5. ASSUME good, Complete(file) PROVE SuiteAsSaid(file, new)
    BY <1>1, <1>5, SuiteStored
  <1>6. ASSUME good PROVE SuiteFits(new)
    <2>1. c \in Elements(Categories) BY <1>6, KindKnown
    <2> QED BY <1>6, <2>1 DEF SuiteFits, SuiteTopology, SuiteConfiguration
  <1>7. new.id = index /\ new.id # 0 BY <1>2
  <1>8. ASSUME Complete(file), SuiteWritten(file, ports, index) PROVE good
    BY <1>1, <1>8, SuiteAccepted
  <1> HIDE DEF good, new, c, s
  <1>9. DOMAIN suites = 1..MaxSuites BY <1>2 DEF SuitesKnown
  <1>10. ASSUME NEW i \in 1..MaxSuites
         PROVE  suites'[i] = IF good /\ i = index THEN new ELSE suites[i]
    BY <1>1, <1>2, <1>9
  <1>11. DOMAIN suites' = 1..MaxSuites BY <1>1, <1>9
  <1>12. suites[index].id = 0
    <2>1. index >= index BY <1>2
    <2> QED BY <1>1, <1>2, <2>1 DEF SuitesKnown
  <1>13. suiteCnt' = Cardinality({i \in 1..MaxSuites : suites'[i].id # 0})
    <2> DEFINE S == {i \in 1..MaxSuites : suites[i].id # 0}
               T == {i \in 1..MaxSuites : suites'[i].id # 0}
    <2>1. suiteCnt = Cardinality(S) BY <1>2 DEF SuitesKnown
    <2>2. CASE good
      <3>1. T = S \cup {index}
        <4>1. \A i \in 1..MaxSuites :
                 suites'[i].id # 0 <=> (suites[i].id # 0 \/ i = index)
          BY <1>2, <1>7, <1>10, <2>2
        <4> QED BY <1>2, <4>1
      <3>2. index \notin S BY <1>12
      <3> HIDE DEF T
      <3>3. S \subseteq 1..MaxSuites OBVIOUS
      <3> HIDE DEF S
      <3>4. Cardinality(T) = Cardinality(S) + 1
        BY <1>2, <3>1, <3>2, <3>3, OneMore
      <3> QED BY <1>1, <2>1, <2>2, <3>4 DEF T
    <2>3. CASE ~good
      <3>1. T = S BY <1>1, <2>3
      <3>2. Cardinality(S) \in Nat
        <4>1. IsFiniteSet(1..MaxSuites) BY <1>2, FS_Interval
        <4>2. S \subseteq 1..MaxSuites OBVIOUS
        <4> HIDE DEF S
        <4>3. IsFiniteSet(S) BY <4>1, <4>2, FS_Subset
        <4> QED BY <4>3, FS_CardinalityType
      <3>3. suiteCnt' = suiteCnt + 0 BY <1>1, <2>3
      <3> HIDE DEF S
      <3>4. suiteCnt' = Cardinality(S) BY <2>1, <3>2, <3>3
      <3> QED BY <3>1, <3>4
    <2> QED BY <2>2, <2>3
  <1>14. ASSUME NEW i \in 1..MaxSuites
         PROVE  suites'[i].id \in {0, i}
    BY <1>2, <1>7, <1>10 DEF SuitesKnown
  <1>15. ASSUME NEW i \in 1..MaxSuites, pc' \in Parsing
         PROVE  pc' = "suite" /\ (i >= index' => suites'[i].id = 0)
    <2>1. pc' = "suite" /\ index' = index + 1 BY <1>1, <1>15 DEF Parsing
    <2>2. ASSUME i >= index' PROVE suites'[i].id = 0
      <3>1. i # index /\ i >= index BY <1>2, <2>1, <2>2
      <3>2. suites[i].id = 0 BY <1>1, <1>2, <3>1 DEF SuitesKnown
      <3> QED BY <1>10, <3>1, <3>2
    <2> QED BY <2>1, <2>2
  <1>16. ASSUME NEW i \in 1..MaxSuites, suites'[i].id # 0
         PROVE  /\ SuiteFits(suites'[i])
                /\ Complete(file) => SuiteAsSaid(file, suites'[i])
    <2>1. CASE good /\ i = index BY <1>5, <1>6, <1>10, <2>1
    <2>2. CASE ~(good /\ i = index)
      <3>1. suites'[i] = suites[i] BY <1>10, <2>2
      <3> QED BY <1>2, <1>16, <3>1 DEF SuitesKnown
    <2> QED BY <2>1, <2>2
  <1>17. ASSUME NEW i \in 1..MaxSuites, Complete(file), Before(i, "suite", ok)',
                SuiteWritten(file, ports, i)
         PROVE  suites'[i].id = i
    <2>1. CASE i = index BY <1>7, <1>8, <1>10, <1>17, <2>1
    <2>2. CASE i # index
      <3>1. i < index
        <4>1. CASE index < MaxSuites
          <5>1. ok' = FALSE /\ index' = index + 1 BY <1>1, <4>1
          <5>2. i < index' BY <1>1, <1>17, <5>1 DEF Before
          <5> QED BY <1>2, <2>2, <5>1, <5>2
        <4>2. CASE ~(index < MaxSuites) BY <1>2, <2>2, <4>2
        <4> QED BY <4>1, <4>2
      <3>2. Before(i, "suite", ok) BY <1>1, <3>1 DEF Before
      <3> QED BY <1>2, <1>10, <1>17, <2>2, <3>2 DEF SuitesKnown
    <2> QED BY <2>1, <2>2
  <1>19. ASSUME NEW i \in 1..MaxSuites
         PROVE  (g_run_test_suite /\ suites[i].id # 0 =>
                   /\ SuiteFits(suites[i])
                   /\ Complete(file) => SuiteAsSaid(file, suites[i]))'
    <2>1. SuiteFits(suites'[i]) => SuiteFits(suites[i])'
      BY <1>1, <1>4 DEF SuiteFits
    <2> QED BY <1>1, <1>16, <2>1
  <1>20. ASSUME NEW i \in 1..MaxSuites
         PROVE  (pc \in Parsing \ {"suite"} \/ (pc = "suite" /\ i >= index)
                   => suites[i].id = 0)'
    BY <1>1, <1>15 DEF Parsing
  <1>21. ASSUME NEW i \in 1..MaxSuites
         PROVE  (g_run_test_suite /\ Complete(file) /\ Before(i, "suite", ok)
                   /\ SuiteWritten(file, ports, i) => suites[i].id = i)'
    BY <1>1, <1>17
  <1> QED BY <1>3, <1>11, <1>13, <1>14, <1>19, <1>20, <1>21 DEF SuitesKnown

-----------------------------------------------------------------------------
(* The choice of a case and the chain.                                      *)

\* At most one topology and one configuration have a number.
LEMMA UniqueById ==
    ASSUME Inv, NEW n
    PROVE  /\ \A i, j \in get_topology_by_id(n) : i = j
           /\ \A i, j \in get_configuration_by_id(n) : i = j
  <1>1. ASSUME NEW i \in get_topology_by_id(n), NEW j \in get_topology_by_id(n)
        PROVE  i = j
    <2>1. MaxTopologies \in Nat /\ topCnt \in 0..MaxTopologies
      BY BoundsAssumption DEF Inv, TopologiesKnown
    <2>2. /\ i \in 1..MaxTopologies /\ j \in 1..MaxTopologies
          /\ topologies[i].id = n /\ topologies[j].id = n /\ n > 0
      BY DEF get_topology_by_id
    <2>3. topologies[i].id \in Nat /\ topologies[j].id \in Nat
      BY <2>2 DEF Inv, TopologiesKnown, TopologySet
    <2>4. n # 0 /\ n \in Nat BY <2>2, <2>3
    <2>5. ~(i > topCnt) /\ ~(j > topCnt)
      BY <2>2, <2>4 DEF Inv, TopologiesKnown
    <2>6. i \in 1..topCnt /\ j \in 1..topCnt BY <2>1, <2>2, <2>5
    <2>7. ~(topologies[i].id < topologies[j].id) /\ ~(topologies[j].id < topologies[i].id)
      BY <2>2, <2>4
    <2>8. ~(i < j) /\ ~(j < i) BY <2>6, <2>7 DEF Inv, TopologiesKnown
    <2> QED BY <2>1, <2>6, <2>8
  <1>2. ASSUME NEW i \in get_configuration_by_id(n), NEW j \in get_configuration_by_id(n)
        PROVE  i = j
    <2>1. /\ i \in 1..MaxConfigurations /\ j \in 1..MaxConfigurations
          /\ configurations[i].id = n /\ configurations[j].id = n /\ n > 0
      BY DEF get_configuration_by_id
    <2>2. n \in {0, i} /\ n \in {0, j} BY <2>1 DEF Inv, ConfigurationsKnown
    <2>3. MaxConfigurations \in Nat BY BoundsAssumption
    <2> QED BY <2>1, <2>2, <2>3
  <1> QED BY <1>1, <1>2

\* Choosing the case of the command line makes it the only suite.
LEMMA SelectStep ==
    ASSUME Inv, SelectCase
    PROVE  SuitesKnown' /\ ChainKnown'
  <1> DEFINE named == NamedConfiguration
             c == configurations[CHOOSE i \in named : TRUE].category
             found == /\ NoOption \notin {opt.top_id, opt.config_id}
                      /\ named # {}
                      /\ get_test_case_from_string(c) # {}
                      /\ get_configuration_by_id(opt.config_id) # {}
                      /\ get_topology_by_id(opt.top_id) # {}
  <1>1. /\ pc = "select" /\ index' = 1
        /\ UNCHANGED <<file, opt, ok, ports, topologies, configurations, prepared>>
        /\ \/ /\ g_run_test_suite /\ pc' = "prepare"
              /\ UNCHANGED <<suites, suiteCnt>>
           \/ /\ ~g_run_test_suite /\ ~found /\ pc' = "exit"
              /\ UNCHANGED <<suites, suiteCnt>>
           \/ /\ ~g_run_test_suite /\ found /\ pc' = "prepare"
              /\ suites' = [suites EXCEPT ![1] = SuiteOfCase(c)] /\ suiteCnt' = 1
    BY DEF SelectCase, Goto, inputs
  <1>2. MaxSuites \in Nat \ {0} /\ 1 \in 1..MaxSuites BY BoundsAssumption
  <1>3. /\ \A x : /\ get_topology_by_id(x)' = get_topology_by_id(x)
                  /\ get_configuration_by_id(x)' = get_configuration_by_id(x)
                  /\ get_test_case_from_string(x)' = get_test_case_from_string(x)
                  /\ SuiteOfCase(x)' = SuiteOfCase(x)
        /\ g_run_test_suite' = g_run_test_suite
    BY <1>1 DEF get_topology_by_id, get_configuration_by_id, g_run_test_suite,
                get_test_case_from_string, SuiteOfCase
  <1>4. ChainKnown'
    <2>1. prepared' = <<>> BY <1>1 DEF Inv, ChainKnown
    <2>2. ~(\E n \in 1..MaxSuites : n < 1) BY <1>2
    <2>3. pc' \in {"prepare", "exit"} BY <1>1
    <2>4. \A n \in 1..MaxSuites : ~Before(n, "prepare", pc = "run")'
      BY <1>1, <2>2, <2>3 DEF Before
    <2> QED BY <1>1, <1>2, <2>1, <2>3, <2>4, Empty DEF ChainKnown
  <1>5. CASE UNCHANGED <<suites, suiteCnt>> /\ (g_run_test_suite \/ pc' = "exit")
    <2>2. pc' \in {"prepare", "exit"} /\ (pc' = "prepare" => g_run_test_suite)
      BY <1>1, <1>5
    <2>3. ok /\ ok' BY <1>1 DEF Inv, Progress
    <2>4. \A i \in 1..MaxSuites : Before(i, "suite", ok) BY <2>3 DEF Before
    <2>5. SuitesKnown BY DEF Inv
    <2>6. \A i \in 1..MaxSuites : SuiteFits(suites[i])' <=> SuiteFits(suites[i])
      BY <1>1, <1>3, <1>5 DEF SuiteFits
    <2> QED BY <1>1, <1>3, <1>4, <1>5, <2>2, <2>3, <2>4, <2>5, <2>6
        DEF SuitesKnown, Parsing
  <1>6. CASE /\ ~g_run_test_suite /\ found /\ pc' = "prepare"
             /\ suites' = [suites EXCEPT ![1] = SuiteOfCase(c)] /\ suiteCnt' = 1
    <2>1. c \in Elements(Categories)
      <3>1. PICK i \in named : c = configurations[i].category BY <1>6
      <3>2. i \in 1..confCnt /\ configurations[i].id = opt.config_id
        BY <3>1 DEF NamedConfiguration
      <3>3. opt.config_id # 0
        BY <1>1, <1>6, BoundsAssumption DEF Inv, InputsKnown, InRange
      <3>4. confCnt <= MaxConfigurations /\ confCnt \in Nat /\ MaxConfigurations \in Nat
        <4> DEFINE S == {k \in 1..MaxConfigurations : configurations[k].id # 0}
        <4>1. confCnt = Cardinality(S) BY DEF Inv, ConfigurationsKnown
        <4>2. MaxConfigurations \in Nat BY BoundsAssumption
        <4>3. /\ IsFiniteSet(1..MaxConfigurations)
              /\ Cardinality(1..MaxConfigurations) = MaxConfigurations
          BY <4>2, FS_Interval
        <4>4. S \subseteq 1..MaxConfigurations OBVIOUS
        <4> HIDE DEF S
        <4>5. IsFiniteSet(S) /\ Cardinality(S) <= Cardinality(1..MaxConfigurations)
          BY <4>3, <4>4, FS_Subset
        <4> QED BY <4>1, <4>2, <4>3, <4>5, FS_CardinalityType
      <3>5. i \in 1..MaxConfigurations BY <3>2, <3>4
      <3> QED BY <3>1, <3>2, <3>3, <3>5 DEF Inv, ConfigurationsKnown
    <2> HIDE DEF c, named
    <2>2. \A i \in 1..MaxSuites : suites[i].id = 0
      BY <1>1, <1>6 DEF Inv, SuitesKnown
    <2>3. DOMAIN suites = 1..MaxSuites BY DEF Inv, SuitesKnown
    <2>4. suites'[1] = SuiteOfCase(c) /\ SuiteOfCase(c).id = 1
      BY <1>2, <1>6, <2>3 DEF SuiteOfCase
    <2>5. \A i \in 1..MaxSuites : i # 1 => suites'[i].id = 0
      BY <1>6, <2>2, <2>3
    <2>6. {i \in 1..MaxSuites : suites'[i].id # 0} = {1}
      BY <1>2, <2>4, <2>5
    <2>7. suiteCnt' = Cardinality({i \in 1..MaxSuites : suites'[i].id # 0})
      BY <1>6, <2>6, FS_Singleton
    <2>8. \A i \in 1..MaxSuites : suites'[i].id \in {0, i}
      BY <2>4, <2>5
    <2>9. OneSuite' BY <1>1, <1>3, <1>6, <2>1, <2>4 DEF OneSuite
    <2>10. \A i \in 2..MaxSuites : suites'[i].id = 0 BY <1>2, <2>5
    <2>11. DOMAIN suites' = 1..MaxSuites BY <1>6, <2>3
    <2> QED BY <1>3, <1>4, <1>6, <2>7, <2>8, <2>9, <2>10, <2>11
        DEF SuitesKnown, Parsing
  <1> QED BY <1>1, <1>5, <1>6

\* An accepted suite that fits passes the assertions of alloc_run_test_config
\* and, on a file in the documented format, has no case 0.
LEMMA SuitePasses ==
    ASSUME Inv, pc = "prepare", g_run_test_suite, WellFormed(file),
           NEW n \in 1..MaxSuites, suites[n].id # 0,
           NEW i \in get_topology_by_id(suites[n].topology_id)
    PROVE  /\ \E j \in get_configuration_by_id(suites[n].configuration_id) :
                 /\ topologies[i].type = configurations[j].type
                 /\ suites[n].category = "tdisp" =>
                       configurations[j].type = "selective_ide"
           /\ \A k \in DOMAIN GroupsOf(suites[n]) :
                 0 \notin Elements(GroupsOf(suites[n])[k].cases)
  <1> DEFINE u == suites[n]
             s == <<"TestSuite", u.id>>
  <1>1. Complete(file) BY DEF WellFormed
  <1>2. SuiteFits(u) /\ SuiteAsSaid(file, u)
    BY <1>1 DEF Inv, SuitesKnown
  <1>3. topologies[i].type = u.type
    <2>1. PICK j \in get_topology_by_id(u.topology_id) : topologies[j].type = u.type
      BY <1>2 DEF SuiteFits
    <2>2. i = j BY UniqueById
    <2> QED BY <2>1, <2>2
  <1>4. PICK j \in get_configuration_by_id(u.configuration_id) :
           configurations[j].type = u.type
    BY <1>2 DEF SuiteFits
  <1>5. ASSUME u.category = "tdisp" PROVE u.type = "selective_ide"
    <2>1. PICK l \in Lines(file) :
             /\ file[l].kind = "entry" /\ file[HeaderOf(file, l)].name = s
             /\ file[l].value[1] = "word" /\ file[l].value[2] = "tdisp"
      BY <1>2, <1>5 DEF SuiteAsSaid
    <2>2. SaidType(file, s) = "selective_ide"
      BY <2>1 DEF WellFormed
    <2> QED BY <1>2, <2>2 DEF SuiteAsSaid
  <1>6. ASSUME NEW k \in 1..Len(u.cases), 0 \in Elements(u.cases[k])
        PROVE  FALSE
    <2> DEFINE cls == CaseClasses(u.category)[k].class
               v == Said(file, s, K(cls))
    <2>1. u.cases[k] \in {<<>>, GetUint32Array(v)} BY <1>2 DEF SuiteAsSaid
    <2>2. 0 \notin Elements(<<>>) BY Empty DEF Elements
    <2>3. u.cases[k] = GetUint32Array(v) BY <1>6, <2>1, <2>2
    <2>4. cls \in ClassNames
      <3>1. Len(u.cases) = Len(CaseClasses(u.category)) BY <1>2 DEF SuiteAsSaid
      <3>2. u.category \in Elements(Categories) BY <1>2 DEF SuiteFits
      <3>3. CaseClasses(u.category)[k] \in Elements(CaseClasses(u.category))
        BY <3>1 DEF Elements
      <3> HIDE DEF u
      <3> QED BY <3>2, <3>3 DEF ClassNames
    <2> HIDE DEF u, cls, s
    <2>5. v # Null
      <3>1. GetUint32Array(Null) = <<>> BY DEF GetUint32Array, Null
      <3> QED BY <1>6, <2>2, <2>3, <3>1
    <2>6. PICK l : GivenAt(file, l, s, K(cls)) /\ v = file[l].value
      <3> DEFINE at == {x \in Lines(file) : GivenAt(file, x, s, K(cls))}
      <3>1. at # {} /\ v = file[Max(at)].value
        <4>1. at = {x \in Lines(file) : /\ file[x].kind = "entry"
                                         /\ file[x].name = K(cls)
                                         /\ HeaderOf(file, x) # 0
                                         /\ file[HeaderOf(file, x)].name = s}
          BY DEF GivenAt
        <4> HIDE DEF at
        <4> QED BY <2>5, <4>1 DEF Said
      <3>2. at \subseteq 1..Len(file) BY DEF Lines
      <3>3. Len(file) \in Nat BY FileFacts DEF Inv, InputsKnown
      <3>4. Max(at) \in at
        <4> HIDE DEF at
        <4> QED BY <3>1, <3>2, <3>3, LargestMember
      <3> QED BY <3>1, <3>4
    <2>7. file[l].name[1] = cls /\ l \in Lines(file) /\ file[l].kind = "entry"
      BY <2>6 DEF GivenAt, K
    <2>8. 0 \notin Elements(GetUint32Array(file[l].value))
      BY <2>4, <2>7 DEF WellFormed
    <2> QED BY <1>6, <2>3, <2>6, <2>8
  <1>7. ASSUME NEW k \in DOMAIN GroupsOf(u)
        PROVE  0 \notin Elements(GroupsOf(u)[k].cases)
    <2>1. k \in 1..Len(u.cases) /\ GroupsOf(u)[k].cases = u.cases[k]
      BY DEF GroupsOf
    <2> QED BY <1>6, <2>1
  <1> QED BY <1>3, <1>4, <1>5, <1>7

\* Preparing a suite keeps what is known of the chain, and stops only on a
\* file that is not in the documented format.
LEMMA PrepareStep ==
    ASSUME Inv, prepare_tests_data
    PROVE  SuitesKnown' /\ ChainKnown' /\ NoStopOnGoodFile'
  <1> DEFINE suite == suites[index]
             tops == get_topology_by_id(suite.topology_id)
             top == topologies[CHOOSE i \in tops : TRUE]
             confs == get_configuration_by_id(suite.configuration_id)
             conf == configurations[CHOOSE i \in confs : TRUE]
             skipped == suite.id = 0 \/ ~suite.enabled \/ tops = {}
             asserted == /\ confs # {}
                         /\ top.type = conf.type
                         /\ suite.category = "tdisp" => conf.type = "selective_ide"
             wild == \E k \in DOMAIN GroupsOf(suite) :
                        0 \in Elements(GroupsOf(suite)[k].cases)
             r == [id |-> suite.id, category |-> suite.category, top |-> top,
                   config_id |-> conf.id,
                   items |-> conf.bit_map \cap BitMask(suite.category, top.type),
                   groups |-> GroupsOf(suite)]
             on == \/ index < MaxSuites /\ pc' = pc /\ index' = index + 1
                   \/ ~(index < MaxSuites) /\ pc' = "run" /\ index' = 1
  <1>1. /\ pc = "prepare"
        /\ UNCHANGED <<file, opt, ok, ports, topologies, configurations,
                       suites, suiteCnt>>
        /\ \/ skipped /\ on /\ prepared' = prepared
           \/ ~skipped /\ ~asserted /\ pc' = "hung" /\ prepared' = prepared
           \/ ~skipped /\ asserted /\ wild /\ pc' = "crashed"
              /\ prepared' = prepared
           \/ ~skipped /\ asserted /\ ~wild /\ on
              /\ prepared' = Append(prepared, r)
    BY DEF prepare_tests_data, NextSection, Goto, inputs, config
  <1>2. /\ index \in Nat \ {0} /\ MaxSuites \in Nat /\ index <= MaxSuites
        /\ index \in 1..MaxSuites /\ ok
    <2>1. index \in Nat \ {0} /\ MaxSuites \in Nat /\ index <= MaxSuites /\ ok
      BY <1>1, BoundsAssumption DEF Inv, Progress
    <2> QED BY <2>1
  <1>3. \A x : /\ get_topology_by_id(x)' = get_topology_by_id(x)
               /\ get_configuration_by_id(x)' = get_configuration_by_id(x)
               /\ get_test_case_from_string(x)' = get_test_case_from_string(x)
               /\ SuiteOfCase(x)' = SuiteOfCase(x)
    BY <1>1 DEF get_topology_by_id, get_configuration_by_id,
                get_test_case_from_string, SuiteOfCase
  <1>4. pc' \in {"prepare", "run", "hung", "crashed"} BY <1>1
  <1>5. suite.id \in {0, index} BY <1>2 DEF Inv, SuitesKnown
  <1>6. NoStopOnGoodFile'
    <2>1. ASSUME WellFormed(file), g_run_test_suite, ~skipped
          PROVE  asserted /\ ~wild
      <3>1. PICK i \in tops : top = topologies[i] BY <2>1
      <3>2. /\ \E j \in confs :
                  /\ topologies[i].type = configurations[j].type
                  /\ suite.category = "tdisp" =>
                        configurations[j].type = "selective_ide"
            /\ \A k \in DOMAIN GroupsOf(suite) :
                  0 \notin Elements(GroupsOf(suite)[k].cases)
        BY <1>1, <1>2, <2>1, SuitePasses
      <3>3. PICK j \in confs :
                  /\ topologies[i].type = configurations[j].type
                  /\ suite.category = "tdisp" =>
                        configurations[j].type = "selective_ide"
        BY <3>2
      <3>4. conf = configurations[j] BY <3>3, UniqueById
      <3> QED BY <3>1, <3>2, <3>3, <3>4
    <2> HIDE DEF skipped, asserted, wild, r
    <2> QED BY <1>1, <2>1 DEF NoStopOnGoodFile, g_run_test_suite
  <1>7. SuitesKnown'
    <2>1. \A i \in 1..MaxSuites : SuiteFits(suites[i])' <=> SuiteFits(suites[i])
      BY <1>1, <1>3 DEF SuiteFits
    <2>2. OneSuite => OneSuite' BY <1>1, <1>3 DEF OneSuite
    <2>3. g_run_test_suite' = g_run_test_suite BY <1>1 DEF g_run_test_suite
    <2>4. \A i \in 1..MaxSuites : Before(i, "suite", ok) BY <1>2 DEF Before
    <2>5. SuitesKnown BY DEF Inv
    <2> HIDE DEF skipped, asserted, wild, r, on
    <2> QED BY <1>1, <1>2, <1>4, <2>1, <2>2, <2>3, <2>4, <2>5
        DEF SuitesKnown, Parsing
  <1>8. ASSUME ~skipped, asserted PROVE PreparedAsStored(r)
    <2>1. PICK i \in tops : top = topologies[i] BY <1>8
    <2>2. PICK j \in confs : conf = configurations[j] BY <1>8
    <2>3. suite.id = index /\ suite.enabled BY <1>5, <1>8
    <2>4. /\ r.id = suite.id /\ r.category = suite.category /\ r.top = top
          /\ r.config_id = conf.id /\ r.items \subseteq conf.bit_map
          /\ r.groups = GroupsOf(suite)
      OBVIOUS
    <2>5. top.type = conf.type BY <1>8
    <2>6. suites[r.id] = suite BY <2>3, <2>4
    <2> HIDE DEF r, top, conf
    <2>7. \E x \in get_topology_by_id(suites[r.id].topology_id) : r.top = topologies[x]
      BY <2>1, <2>4, <2>6
    <2>8. \E x \in get_configuration_by_id(suites[r.id].configuration_id) :
             /\ r.config_id = configurations[x].id
             /\ r.top.type = configurations[x].type
             /\ r.items \subseteq configurations[x].bit_map
      BY <2>2, <2>4, <2>5, <2>6
    <2> QED BY <1>2, <2>3, <2>4, <2>6, <2>7, <2>8 DEF PreparedAsStored
  <1>9. /\ prepared \in Seq(Elements(prepared)) /\ Len(prepared) \in Nat
        /\ Len(prepared) < index
        /\ \A i \in 1..Len(prepared) :
              PreparedAsStored(prepared[i]) /\ prepared[i].id < index
        /\ \A i, j \in 1..Len(prepared) : i < j => prepared[i].id < prepared[j].id
        /\ \A n \in 1..MaxSuites :
              (n < index /\ ToPrepare(suites[n])) =>
                 \E i \in 1..Len(prepared) : prepared[i].id = n
    <2>1. prepared \in Seq(Elements(prepared)) BY DEF Inv, ChainKnown
    <2>2. Len(prepared) \in Nat BY <2>1, LenNat
    <2> QED BY <1>1, <2>1, <2>2 DEF Inv, ChainKnown, Before
  <1>10. ASSUME NEW i, PreparedAsStored(prepared'[i])
         PROVE  PreparedAsStored(prepared[i])'
    BY <1>1, <1>3, <1>10 DEF PreparedAsStored
  <1>11. ToPrepare(suite) <=> ~skipped BY DEF ToPrepare
  <1>12. suite.id = index => r.id = index OBVIOUS
  <1>13. ~skipped => suite.id # 0 OBVIOUS
  <1>14. \A n \in 1..MaxSuites : ToPrepare(suites[n])' <=> ToPrepare(suites[n])
    BY <1>1, <1>3 DEF ToPrepare
  <1>15. \A n \in 1..MaxSuites :
            (on /\ Before(n, "prepare", pc = "run")') => n < index \/ n = index
    BY <1>1, <1>2 DEF Before
  <1>16. on => pc' \in {"prepare", "run"} /\ (pc' = "prepare" => index' = index + 1)
    BY <1>1
  <1> HIDE DEF suite, skipped, asserted, wild, r, on
  <1>17. CASE skipped /\ on /\ prepared' = prepared
    <2>1. \A n \in 1..MaxSuites :
             (Before(n, "prepare", pc = "run")' /\ ToPrepare(suites[n])) => n < index
      BY <1>11, <1>15, <1>17 DEF suite
    <2>2. Len(prepared') <= MaxSuites
          /\ (pc' = "prepare" => Len(prepared') < index')
      BY <1>2, <1>9, <1>16, <1>17
    <2>3. \A i \in 1..Len(prepared') : /\ PreparedAsStored(prepared[i])'
                                       /\ pc' = "prepare" => prepared'[i].id < index'
      <3>1. \A i \in 1..Len(prepared) : prepared[i].id \in Nat
        BY <1>2, <1>9 DEF PreparedAsStored
      <3>2. \A i \in 1..Len(prepared) : PreparedAsStored(prepared[i])'
        BY <1>9, <1>10, <1>17
      <3> QED BY <1>2, <1>9, <1>16, <1>17, <3>1, <3>2
    <2>4. \A n \in 1..MaxSuites :
             (Before(n, "prepare", pc = "run")' /\ ToPrepare(suites[n])') =>
                 \E i \in 1..Len(prepared') : prepared'[i].id = n
      BY <1>9, <1>14, <1>17, <2>1
    <2> QED BY <1>4, <1>6, <1>7, <1>9, <1>17, <2>2, <2>3, <2>4 DEF ChainKnown
  <1>18. CASE pc' \in {"hung", "crashed"} /\ prepared' = prepared
    <2>1. Len(prepared) <= MaxSuites BY <1>2, <1>9
    <2> QED BY <1>6, <1>7, <1>9, <1>18, <2>1 DEF ChainKnown
  <1>19. CASE ~skipped /\ asserted /\ on /\ prepared' = Append(prepared, r)
    <2> DEFINE m == Len(prepared) + 1
    <2>1. /\ prepared' \in Seq(Elements(prepared')) /\ Len(prepared') = m
          /\ \A i \in 1..Len(prepared) : prepared'[i] = prepared[i]
          /\ prepared'[m] = r
      BY <1>9, <1>19, Appended
    <2>2. m \in Nat \ {0} /\ m <= index BY <1>2, <1>9
    <2>3. r.id = index /\ PreparedAsStored(r)
      BY <1>5, <1>8, <1>12, <1>13, <1>19
    <2>4. \A i \in 1..m : i = m \/ i \in 1..Len(prepared) BY <1>9
    <2> HIDE DEF m
    <2>5. Len(prepared') <= MaxSuites /\ (pc' = "prepare" => Len(prepared') < index')
      BY <1>2, <1>16, <1>19, <2>1, <2>2
    <2>6. \A i \in 1..m : PreparedAsStored(prepared[i])'
      BY <1>9, <1>10, <2>1, <2>3, <2>4
    <2>7. \A i \in 1..m : prepared'[i].id \in Nat /\ prepared'[i].id <= index
      <3>1. \A i \in 1..Len(prepared) : prepared[i].id \in Nat
        BY <1>2, <1>9 DEF PreparedAsStored
      <3> QED BY <1>2, <1>9, <2>1, <2>3, <2>4, <3>1
    <2>8. pc' = "prepare" => \A i \in 1..m : prepared'[i].id < index'
      <3>1. ASSUME pc' = "prepare", NEW i \in 1..m PROVE prepared'[i].id < index'
        <4>1. index' = index + 1 BY <1>16, <1>19, <3>1
        <4>2. prepared'[i].id \in Nat /\ prepared'[i].id <= index BY <2>7
        <4> QED BY <1>2, <4>1, <4>2
      <3> QED BY <3>1
    <2>9. \A i, j \in 1..m : i < j => prepared'[i].id < prepared'[j].id
      <3>1. \A i, j \in 1..m : i < j => i \in 1..Len(prepared)
        BY <1>9, <2>2, <2>4 DEF m
      <3> QED BY <1>9, <2>1, <2>3, <2>4, <3>1
    <2>10. m \in 1..m /\ \A i \in 1..Len(prepared) : i \in 1..m
      BY <1>9, <2>2 DEF m
    <2>11. \A n \in 1..MaxSuites :
             (Before(n, "prepare", pc = "run")' /\ ToPrepare(suites[n])') =>
                 \E i \in 1..m : prepared'[i].id = n
      BY <1>9, <1>14, <1>15, <1>19, <2>1, <2>3, <2>10
    <2> QED BY <1>4, <1>6, <1>7, <2>1, <2>5, <2>6, <2>8, <2>9, <2>11
        DEF ChainKnown
  <1> QED BY <1>1, <1>17, <1>18, <1>19

-----------------------------------------------------------------------------
(* Every step keeps the invariant: one lemma per action, one step per part. *)

\* The command line is read before anything is known.
LEMMA CmdlineKeeps ==
    ASSUME Inv, parse_cmdline_option PROVE Inv'
  <1>1. InputsKnown'
    BY DEF Inv, InputsKnown, InRange, parse_cmdline_option, Goto, inputs,
        config
  <1>2. ItemsKnown'
    BY DEF Inv, ItemsKnown, Reading, parse_cmdline_option, Goto, inputs,
        config
  <1>3. Progress'
    BY BoundsAssumption DEF Inv, Progress, Labels, Parsing, g_run_test_suite,
        parse_cmdline_option, Goto, inputs, config
  <1>4. PortsKnown'
    BY DEF Inv, PortsKnown, parse_cmdline_option, Goto, inputs, config
  <1>5. SwitchesKnown'
    BY BoundsAssumption DEF Inv, SwitchesKnown, Before, SwitchesRead,
        parse_cmdline_option, Goto, inputs, config
  <1>6. TopologiesKnown'
    BY BoundsAssumption DEF Inv, TopologiesKnown, TopologySet, Before,
        TopologiesRead, parse_cmdline_option, Goto, inputs, config
  <1>7. ConfigurationsKnown'
    BY DEF Inv, ConfigurationsKnown, Parsing, Before, ConfigurationsRead,
        parse_cmdline_option, Goto, inputs, config
  <1>8. SuitesKnown'
    BY DEF Inv, SuitesKnown, Parsing, Before, g_run_test_suite, SuiteFits,
        get_topology_by_id, get_configuration_by_id, OneSuite, SuiteOfCase,
        get_test_case_from_string, parse_cmdline_option, Goto, inputs, config
  <1>9. ChainKnown'
    BY BoundsAssumption DEF Inv, ChainKnown, PreparedAsStored, ToPrepare,
        Before, get_topology_by_id, get_configuration_by_id,
        parse_cmdline_option, Goto, inputs, config
  <1>10. NoStopOnGoodFile'
    BY DEF Inv, NoStopOnGoodFile, g_run_test_suite, parse_cmdline_option,
        Goto, inputs, config
  <1> QED BY <1>1, <1>2, <1>3, <1>4, <1>5, <1>6, <1>7, <1>8, <1>9, <1>10 DEF
      Inv

\* Opening the file fills the items and nothing else.
LEMMA OpenKeeps ==
    ASSUME Inv, OpenIniFile PROVE Inv'
  <1>1. InputsKnown'
    BY DEF Inv, InputsKnown, InRange, OpenIniFile, Goto, inputs, config,
        PreProcessDataFile
  <1>2. ItemsKnown'
    BY DEF Inv, ItemsKnown, Reading, OpenIniFile, Goto, inputs, config,
        PreProcessDataFile
  <1>3. Progress'
    BY BoundsAssumption DEF Inv, Progress, Labels, Parsing, g_run_test_suite,
        OpenIniFile, Goto, inputs, config, PreProcessDataFile
  <1>4. PortsKnown'
    BY DEF Inv, PortsKnown, OpenIniFile, Goto, inputs, config,
        PreProcessDataFile
  <1>5. SwitchesKnown'
    BY BoundsAssumption DEF Inv, SwitchesKnown, Before, SwitchesRead,
        OpenIniFile, Goto, inputs, config, PreProcessDataFile
  <1>6. TopologiesKnown'
    BY BoundsAssumption DEF Inv, TopologiesKnown, TopologySet, Before,
        TopologiesRead, OpenIniFile, Goto, inputs, config, PreProcessDataFile
  <1>7. ConfigurationsKnown'
    BY DEF Inv, ConfigurationsKnown, Parsing, Before, ConfigurationsRead,
        OpenIniFile, Goto, inputs, config, PreProcessDataFile
  <1>8. SuitesKnown'
    BY DEF Inv, SuitesKnown, Parsing, Before, g_run_test_suite, SuiteFits,
        get_topology_by_id, get_configuration_by_id, OneSuite, SuiteOfCase,
        get_test_case_from_string, OpenIniFile, Goto, inputs, config,
        PreProcessDataFile
  <1>9. ChainKnown'
    BY BoundsAssumption DEF Inv, ChainKnown, PreparedAsStored, ToPrepare,
        Before, get_topology_by_id, get_configuration_by_id, OpenIniFile,
        Goto, inputs, config, PreProcessDataFile
  <1>10. NoStopOnGoodFile'
    BY DEF Inv, NoStopOnGoodFile, g_run_test_suite, WellFormed, OpenIniFile,
        Goto, inputs, config, PreProcessDataFile
  <1> QED BY <1>1, <1>2, <1>3, <1>4, <1>5, <1>6, <1>7, <1>8, <1>9, <1>10 DEF
      Inv

\* [Main] sets the version only.
LEMMA MainKeeps ==
    ASSUME Inv, ParseMainSection PROVE Inv'
  <1>1. InputsKnown'
    BY DEF Inv, InputsKnown, InRange, ParseMainSection, Goto, inputs
  <1>2. ItemsKnown'
    BY DEF Inv, ItemsKnown, Reading, ParseMainSection, Goto, inputs
  <1>3. Progress'
    BY BoundsAssumption DEF Inv, Progress, Labels, Parsing, g_run_test_suite,
        Versions, ParseMainSection, Goto, inputs
  <1>4. PortsKnown'
    BY DEF Inv, PortsKnown, ParseMainSection, Goto, inputs
  <1>5. SwitchesKnown'
    BY BoundsAssumption DEF Inv, SwitchesKnown, Before, SwitchesRead,
        ParseMainSection, Goto, inputs
  <1>6. TopologiesKnown'
    BY BoundsAssumption DEF Inv, TopologiesKnown, TopologySet, Before,
        TopologiesRead, ParseMainSection, Goto, inputs
  <1>7. ConfigurationsKnown'
    BY DEF Inv, ConfigurationsKnown, Parsing, Before, ConfigurationsRead,
        ParseMainSection, Goto, inputs
  <1>8. SuitesKnown'
    BY DEF Inv, SuitesKnown, Parsing, Before, g_run_test_suite, SuiteFits,
        get_topology_by_id, get_configuration_by_id, OneSuite, SuiteOfCase,
        get_test_case_from_string, ParseMainSection, Goto, inputs
  <1>9. ChainKnown'
    BY BoundsAssumption DEF Inv, ChainKnown, PreparedAsStored, ToPrepare,
        Before, get_topology_by_id, get_configuration_by_id, ParseMainSection,
        Goto, inputs
  <1>10. NoStopOnGoodFile'
    BY DEF Inv, NoStopOnGoodFile, g_run_test_suite, ParseMainSection, Goto,
        inputs
  <1> QED BY <1>1, <1>2, <1>3, <1>4, <1>5, <1>6, <1>7, <1>8, <1>9, <1>10 DEF
      Inv

\* A root port is added to the ports.
LEMMA RootportsKeeps ==
    ASSUME Inv, ParsePortsSection("rootport", "endpoint") PROVE Inv'
  <1>1. InputsKnown'
    BY DEF Inv, InputsKnown, InRange, ParsePortsSection, Goto, inputs
  <1>2. ItemsKnown'
    BY DEF Inv, ItemsKnown, Reading, ParsePortsSection, Goto, inputs
  <1>3. Progress'
    BY BoundsAssumption DEF Inv, Progress, Labels, Parsing, g_run_test_suite,
        ParsePortsSection, Goto, inputs
  <1>4. PortsKnown' BY PortsStep
  <1>5. SwitchesKnown'
    BY BoundsAssumption DEF Inv, SwitchesKnown, Before, SwitchesRead,
        ParsePortsSection, Goto, inputs
  <1>6. TopologiesKnown'
    BY BoundsAssumption DEF Inv, TopologiesKnown, TopologySet, Before,
        TopologiesRead, Progress, Parsing, ParsePortsSection, Goto, inputs
  <1>7. ConfigurationsKnown'
    BY DEF Inv, ConfigurationsKnown, Parsing, Before, ConfigurationsRead,
        ParsePortsSection, Goto, inputs
  <1>8. SuitesKnown'
    BY DEF Inv, SuitesKnown, Parsing, Before, g_run_test_suite, SuiteFits,
        get_topology_by_id, get_configuration_by_id, OneSuite, SuiteOfCase,
        get_test_case_from_string, Progress, ParsePortsSection, Goto, inputs
  <1>9. ChainKnown'
    BY BoundsAssumption DEF Inv, ChainKnown, PreparedAsStored, ToPrepare,
        Before, get_topology_by_id, get_configuration_by_id,
        ParsePortsSection, Goto, inputs
  <1>10. NoStopOnGoodFile' BY PortsStep
  <1> QED BY <1>1, <1>2, <1>3, <1>4, <1>5, <1>6, <1>7, <1>8, <1>9, <1>10 DEF
      Inv

\* An endpoint is added to the ports.
LEMMA EndpointsKeeps ==
    ASSUME Inv, ParsePortsSection("endpoint", "switch") PROVE Inv'
  <1>1. InputsKnown'
    BY DEF Inv, InputsKnown, InRange, ParsePortsSection, Goto, inputs
  <1>2. ItemsKnown'
    BY DEF Inv, ItemsKnown, Reading, ParsePortsSection, Goto, inputs
  <1>3. Progress'
    BY BoundsAssumption DEF Inv, Progress, Labels, Parsing, g_run_test_suite,
        ParsePortsSection, Goto, inputs
  <1>4. PortsKnown' BY PortsStep
  <1>5. SwitchesKnown'
    BY BoundsAssumption DEF Inv, SwitchesKnown, Before, SwitchesRead,
        ParsePortsSection, Goto, inputs
  <1>6. TopologiesKnown'
    BY BoundsAssumption DEF Inv, TopologiesKnown, TopologySet, Before,
        TopologiesRead, Progress, Parsing, ParsePortsSection, Goto, inputs
  <1>7. ConfigurationsKnown'
    BY DEF Inv, ConfigurationsKnown, Parsing, Before, ConfigurationsRead,
        ParsePortsSection, Goto, inputs
  <1>8. SuitesKnown'
    BY DEF Inv, SuitesKnown, Parsing, Before, g_run_test_suite, SuiteFits,
        get_topology_by_id, get_configuration_by_id, OneSuite, SuiteOfCase,
        get_test_case_from_string, Progress, ParsePortsSection, Goto, inputs
  <1>9. ChainKnown'
    BY BoundsAssumption DEF Inv, ChainKnown, PreparedAsStored, ToPrepare,
        Before, get_topology_by_id, get_configuration_by_id,
        ParsePortsSection, Goto, inputs
  <1>10. NoStopOnGoodFile' BY PortsStep
  <1> QED BY <1>1, <1>2, <1>3, <1>4, <1>5, <1>6, <1>7, <1>8, <1>9, <1>10 DEF
      Inv

\* A switch is added to the switches.
LEMMA SwitchesKeeps ==
    ASSUME Inv, ParseSwitchesSection PROVE Inv'
  <1>1. InputsKnown'
    BY DEF Inv, InputsKnown, InRange, ParseSwitchesSection, Goto, NextSection,
        inputs
  <1>2. ItemsKnown'
    BY DEF Inv, ItemsKnown, Reading, ParseSwitchesSection, Goto, NextSection,
        inputs
  <1>3. Progress'
    BY BoundsAssumption DEF Inv, Progress, Labels, Parsing, g_run_test_suite,
        ParseSwitchesSection, Goto, NextSection, inputs
  <1>4. PortsKnown'
    BY DEF Inv, PortsKnown, ParseSwitchesSection, Goto, NextSection, inputs
  <1>5. SwitchesKnown' BY SwitchesStep
  <1>6. TopologiesKnown'
    BY BoundsAssumption DEF Inv, TopologiesKnown, TopologySet, Before,
        TopologiesRead, Progress, Parsing, ParseSwitchesSection, Goto,
        NextSection, inputs
  <1>7. ConfigurationsKnown'
    BY DEF Inv, ConfigurationsKnown, Parsing, Before, ConfigurationsRead,
        ParseSwitchesSection, Goto, NextSection, inputs
  <1>8. SuitesKnown'
    BY DEF Inv, SuitesKnown, Parsing, Before, g_run_test_suite, SuiteFits,
        get_topology_by_id, get_configuration_by_id, OneSuite, SuiteOfCase,
        get_test_case_from_string, ParseSwitchesSection, Goto, NextSection,
        inputs
  <1>9. ChainKnown'
    BY BoundsAssumption DEF Inv, ChainKnown, PreparedAsStored, ToPrepare,
        Before, get_topology_by_id, get_configuration_by_id,
        ParseSwitchesSection, Goto, NextSection, inputs
  <1>10. NoStopOnGoodFile' BY SwitchesStep
  <1> QED BY <1>1, <1>2, <1>3, <1>4, <1>5, <1>6, <1>7, <1>8, <1>9, <1>10 DEF
      Inv

\* A topology is put in the next free slot.
LEMMA TopologyKeeps ==
    ASSUME Inv, ParseTopologySection PROVE Inv'
  <1>1. InputsKnown'
    BY DEF Inv, InputsKnown, InRange, ParseTopologySection, Goto, NextSection,
        inputs
  <1>2. ItemsKnown'
    BY DEF Inv, ItemsKnown, Reading, ParseTopologySection, Goto, NextSection,
        inputs
  <1>3. Progress'
    BY BoundsAssumption DEF Inv, Progress, Labels, Parsing, g_run_test_suite,
        ParseTopologySection, Goto, NextSection, inputs
  <1>4. PortsKnown'
    BY DEF Inv, PortsKnown, ParseTopologySection, Goto, NextSection, inputs
  <1>5. SwitchesKnown'
    BY BoundsAssumption DEF Inv, SwitchesKnown, Before, SwitchesRead,
        ParseTopologySection, Goto, NextSection, inputs
  <1>6. TopologiesKnown' BY TopologyStep
  <1>7. ConfigurationsKnown'
    BY DEF Inv, ConfigurationsKnown, Parsing, Before, ConfigurationsRead,
        ParseTopologySection, Goto, NextSection, inputs
  <1>8. SuitesKnown'
    BY DEF Inv, SuitesKnown, Parsing, Before, g_run_test_suite, SuiteFits,
        get_topology_by_id, get_configuration_by_id, OneSuite, SuiteOfCase,
        get_test_case_from_string, ParseTopologySection, Goto, NextSection,
        inputs
  <1>9. ChainKnown'
    BY BoundsAssumption DEF Inv, ChainKnown, PreparedAsStored, ToPrepare,
        Before, get_topology_by_id, get_configuration_by_id,
        ParseTopologySection, Goto, NextSection, inputs
  <1>10. NoStopOnGoodFile' BY TopologyStep
  <1> QED BY <1>1, <1>2, <1>3, <1>4, <1>5, <1>6, <1>7, <1>8, <1>9, <1>10 DEF
      Inv

\* A configuration is put in the slot of its number.
LEMMA ConfigurationKeeps ==
    ASSUME Inv, ParseConfigurationSection PROVE Inv'
  <1>1. InputsKnown'
    BY DEF Inv, InputsKnown, InRange, ParseConfigurationSection, Goto,
        NextSection, inputs
  <1>2. ItemsKnown'
    BY DEF Inv, ItemsKnown, Reading, ParseConfigurationSection, Goto,
        NextSection, inputs
  <1>3. Progress' BY ConfigurationStep
  <1>4. PortsKnown'
    BY DEF Inv, PortsKnown, ParseConfigurationSection, Goto, NextSection,
        inputs
  <1>5. SwitchesKnown'
    BY BoundsAssumption DEF Inv, SwitchesKnown, Before, SwitchesRead,
        ParseConfigurationSection, Goto, NextSection, inputs
  <1>6. TopologiesKnown'
    BY BoundsAssumption DEF Inv, TopologiesKnown, TopologySet, Before,
        TopologiesRead, ParseConfigurationSection, Goto, NextSection, inputs
  <1>7. ConfigurationsKnown' BY ConfigurationStep
  <1>8. SuitesKnown'
    BY DEF Inv, SuitesKnown, Parsing, Before, g_run_test_suite, SuiteFits,
        get_topology_by_id, get_configuration_by_id, OneSuite, SuiteOfCase,
        get_test_case_from_string, Progress, ParseConfigurationSection, Goto,
        NextSection, inputs
  <1>9. ChainKnown'
    BY BoundsAssumption DEF Inv, ChainKnown, PreparedAsStored, ToPrepare,
        Before, get_topology_by_id, get_configuration_by_id,
        ParseConfigurationSection, Goto, NextSection, inputs
  <1>10. NoStopOnGoodFile' BY ConfigurationStep
  <1> QED BY <1>1, <1>2, <1>3, <1>4, <1>5, <1>6, <1>7, <1>8, <1>9, <1>10 DEF
      Inv

\* A suite is put in the slot of its number.
LEMMA SuiteKeeps ==
    ASSUME Inv, ParseTestSuiteSection PROVE Inv'
  <1>1. InputsKnown'
    BY DEF Inv, InputsKnown, InRange, ParseTestSuiteSection, Goto,
        NextSection, inputs
  <1>2. ItemsKnown'
    BY DEF Inv, ItemsKnown, Reading, ParseTestSuiteSection, Goto, NextSection,
        inputs
  <1>3. Progress'
    BY BoundsAssumption DEF Inv, Progress, Labels, Parsing, g_run_test_suite,
        ParseTestSuiteSection, Goto, NextSection, inputs
  <1>4. PortsKnown'
    BY DEF Inv, PortsKnown, ParseTestSuiteSection, Goto, NextSection, inputs
  <1>5. SwitchesKnown'
    BY BoundsAssumption DEF Inv, SwitchesKnown, Before, SwitchesRead,
        ParseTestSuiteSection, Goto, NextSection, inputs
  <1>6. TopologiesKnown'
    BY BoundsAssumption DEF Inv, TopologiesKnown, TopologySet, Before,
        TopologiesRead, ParseTestSuiteSection, Goto, NextSection, inputs
  <1>7. ConfigurationsKnown'
    BY DEF Inv, ConfigurationsKnown, Parsing, Before, ConfigurationsRead,
        ParseTestSuiteSection, Goto, NextSection, inputs
  <1>8. SuitesKnown' BY SuiteStep
  <1>9. ChainKnown'
    BY BoundsAssumption DEF Inv, ChainKnown, PreparedAsStored, ToPrepare,
        Before, get_topology_by_id, get_configuration_by_id,
        ParseTestSuiteSection, Goto, NextSection, inputs
  <1>10. NoStopOnGoodFile'
    BY DEF Inv, NoStopOnGoodFile, g_run_test_suite, ParseTestSuiteSection,
        Goto, NextSection, inputs
  <1> QED BY <1>1, <1>2, <1>3, <1>4, <1>5, <1>6, <1>7, <1>8, <1>9, <1>10 DEF
      Inv

\* Closing the file leaves what was read.
LEMMA CloseKeeps ==
    ASSUME Inv, CloseIniFile PROVE Inv'
  <1>1. InputsKnown'
    BY DEF Inv, InputsKnown, InRange, CloseIniFile, Goto, inputs, config
  <1>2. ItemsKnown'
    BY DEF Inv, ItemsKnown, Reading, CloseIniFile, Goto, inputs, config
  <1>3. Progress'
    BY BoundsAssumption DEF Inv, Progress, Labels, Parsing, g_run_test_suite,
        CloseIniFile, Goto, inputs, config
  <1>4. PortsKnown'
    BY DEF Inv, PortsKnown, CloseIniFile, Goto, inputs, config
  <1>5. SwitchesKnown'
    BY BoundsAssumption DEF Inv, SwitchesKnown, Before, SwitchesRead,
        CloseIniFile, Goto, inputs, config
  <1>6. TopologiesKnown'
    BY BoundsAssumption DEF Inv, TopologiesKnown, TopologySet, Before,
        TopologiesRead, CloseIniFile, Goto, inputs, config
  <1>7. ConfigurationsKnown'
    BY DEF Inv, ConfigurationsKnown, Parsing, Before, ConfigurationsRead,
        CloseIniFile, Goto, inputs, config
  <1>8. SuitesKnown'
    BY DEF Inv, SuitesKnown, Parsing, Before, g_run_test_suite, SuiteFits,
        get_topology_by_id, get_configuration_by_id, OneSuite, SuiteOfCase,
        get_test_case_from_string, CloseIniFile, Goto, inputs, config
  <1>9. ChainKnown'
    BY BoundsAssumption DEF Inv, ChainKnown, PreparedAsStored, ToPrepare,
        Before, get_topology_by_id, get_configuration_by_id, CloseIniFile,
        Goto, inputs, config
  <1>10. NoStopOnGoodFile'
    BY DEF Inv, NoStopOnGoodFile, g_run_test_suite, CloseIniFile, Goto,
        inputs, config
  <1> QED BY <1>1, <1>2, <1>3, <1>4, <1>5, <1>6, <1>7, <1>8, <1>9, <1>10 DEF
      Inv

\* Closing a file with an entry that has no value may stop the program.
LEMMA CloseAgainKeeps ==
    ASSUME Inv, CloseIniFileAgain PROVE Inv'
  <1>1. InputsKnown'
    BY DEF Inv, InputsKnown, InRange, CloseIniFileAgain, Goto, inputs, config
  <1>2. ItemsKnown'
    BY DEF Inv, ItemsKnown, Reading, CloseIniFileAgain, Goto, inputs, config
  <1>3. Progress'
    BY BoundsAssumption DEF Inv, Progress, Labels, Parsing, g_run_test_suite,
        CloseIniFileAgain, Goto, inputs, config
  <1>4. PortsKnown'
    BY DEF Inv, PortsKnown, CloseIniFileAgain, Goto, inputs, config
  <1>5. SwitchesKnown'
    BY BoundsAssumption DEF Inv, SwitchesKnown, Before, SwitchesRead,
        CloseIniFileAgain, Goto, inputs, config
  <1>6. TopologiesKnown'
    BY BoundsAssumption DEF Inv, TopologiesKnown, TopologySet, Before,
        TopologiesRead, CloseIniFileAgain, Goto, inputs, config
  <1>7. ConfigurationsKnown'
    BY DEF Inv, ConfigurationsKnown, Parsing, Before, ConfigurationsRead,
        CloseIniFileAgain, Goto, inputs, config
  <1>8. SuitesKnown'
    BY DEF Inv, SuitesKnown, Parsing, Before, g_run_test_suite, SuiteFits,
        get_topology_by_id, get_configuration_by_id, OneSuite, SuiteOfCase,
        get_test_case_from_string, CloseIniFileAgain, Goto, inputs, config
  <1>9. ChainKnown'
    BY BoundsAssumption DEF Inv, ChainKnown, PreparedAsStored, ToPrepare,
        Before, get_topology_by_id, get_configuration_by_id,
        CloseIniFileAgain, Goto, inputs, config
  <1>10. NoStopOnGoodFile'
    BY DEF Inv, NoStopOnGoodFile, g_run_test_suite, WellFormed, Complete,
        Dangling, IsValidName, IsValidValue, CloseIniFileAgain, Goto, inputs,
        config
  <1> QED BY <1>1, <1>2, <1>3, <1>4, <1>5, <1>6, <1>7, <1>8, <1>9, <1>10 DEF
      Inv

\* The case of the command line is chosen.
LEMMA SelectKeeps ==
    ASSUME Inv, SelectCase PROVE Inv'
  <1>1. InputsKnown'
    BY DEF Inv, InputsKnown, InRange, SelectCase, Goto, inputs
  <1>2. ItemsKnown'
    BY DEF Inv, ItemsKnown, Reading, SelectCase, Goto, inputs
  <1>3. Progress'
    BY BoundsAssumption DEF Inv, Progress, Labels, Parsing, g_run_test_suite,
        SelectCase, Goto, inputs
  <1>4. PortsKnown'
    <2>1. /\ pc = "select" /\ pc' \in {"prepare", "exit"}
          /\ UNCHANGED <<ports, file>>
      BY DEF SelectCase, Goto, inputs
    <2> QED BY <2>1 DEF Inv, PortsKnown
  <1>5. SwitchesKnown'
    BY BoundsAssumption DEF Inv, SwitchesKnown, Before, SwitchesRead,
        SelectCase, Goto, inputs
  <1>6. TopologiesKnown'
    BY BoundsAssumption DEF Inv, TopologiesKnown, TopologySet, Before,
        TopologiesRead, SelectCase, Goto, inputs
  <1>7. ConfigurationsKnown'
    BY DEF Inv, ConfigurationsKnown, Parsing, Before, ConfigurationsRead,
        SelectCase, Goto, inputs
  <1>8. SuitesKnown' BY SelectStep
  <1>9. ChainKnown' BY SelectStep
  <1>10. NoStopOnGoodFile'
    BY DEF Inv, NoStopOnGoodFile, g_run_test_suite, SelectCase, Goto, inputs
  <1> QED BY <1>1, <1>2, <1>3, <1>4, <1>5, <1>6, <1>7, <1>8, <1>9, <1>10 DEF
      Inv

\* A suite is put in the chain.
LEMMA PrepareKeeps ==
    ASSUME Inv, prepare_tests_data PROVE Inv'
  <1>1. InputsKnown'
    BY DEF Inv, InputsKnown, InRange, prepare_tests_data, Goto, NextSection,
        inputs, config
  <1>2. ItemsKnown'
    BY DEF Inv, ItemsKnown, Reading, prepare_tests_data, Goto, NextSection,
        inputs, config
  <1>3. Progress'
    BY BoundsAssumption DEF Inv, Progress, Labels, Parsing, g_run_test_suite,
        prepare_tests_data, Goto, NextSection, inputs, config
  <1>4. PortsKnown'
    BY DEF Inv, PortsKnown, prepare_tests_data, Goto, NextSection, inputs,
        config
  <1>5. SwitchesKnown'
    BY BoundsAssumption DEF Inv, SwitchesKnown, Before, SwitchesRead,
        prepare_tests_data, Goto, NextSection, inputs, config
  <1>6. TopologiesKnown'
    BY BoundsAssumption DEF Inv, TopologiesKnown, TopologySet, Before,
        TopologiesRead, prepare_tests_data, Goto, NextSection, inputs, config
  <1>7. ConfigurationsKnown'
    BY DEF Inv, ConfigurationsKnown, Parsing, Before, ConfigurationsRead,
        prepare_tests_data, Goto, NextSection, inputs, config
  <1>8. SuitesKnown' BY PrepareStep
  <1>9. ChainKnown' BY PrepareStep
  <1>10. NoStopOnGoodFile' BY PrepareStep
  <1> QED BY <1>1, <1>2, <1>3, <1>4, <1>5, <1>6, <1>7, <1>8, <1>9, <1>10 DEF
      Inv

\* Nothing is known at the beginning.
LEMMA InitInv == Init => Inv
  <1> SUFFICES ASSUME Init PROVE Inv OBVIOUS
  <1>1. pc = "cmdline" /\ ok = FALSE /\ index = 1 BY DEF Init
  <1>2. InputsKnown /\ ItemsKnown
    <2>1. file \in Files /\ opt \in Options BY DEF Init
    <2> QED BY <1>1, <2>1 DEF InputsKnown, ItemsKnown, Reading
  <1>3. Progress
    <2>1. spdm_version \in Versions BY DEF Init, Versions
    <2>2. pc = "cmdline" /\ index \in Nat \ {0} /\ ok = FALSE BY <1>1
    <2> QED BY <2>1, <2>2 DEF Progress, Labels, Parsing
  <1>4. PortsKnown
    <2>1. MaxPorts \in Nat BY BoundsAssumption
    <2>2. ports = <<>> BY DEF Init
    <2> QED BY <1>1, <2>1, <2>2, Empty DEF PortsKnown
  <1>5. SwitchesKnown
    <2>1. MaxSwitches \in Nat BY BoundsAssumption
    <2>2. switches = <<>> BY DEF Init
    <2> QED BY <1>1, <2>1, <2>2, Empty DEF SwitchesKnown, Before, SwitchesRead
  <1>6. TopologiesKnown
    <2>1. NoTopology \in TopologySet /\ NoTopology.id = 0
      <3>1. 0 \in Bytes /\ 0 \in Segments
        BY DEF Bytes, Segments, InvalidBus, InvalidSegment
      <3>2. <<>> \in Conns(file) BY DEF Conns
      <3>3. /\ "selective_ide" \in Elements(Types)
            /\ "direct" \in Elements(Connections)
        BY DEF Elements, Types, Connections
      <3> QED BY <3>1, <3>2, <3>3 DEF NoTopology, TopologySet
    <2>2. /\ topologies = [i \in 1..MaxTopologies |-> NoTopology] /\ topCnt = 0
      BY DEF Init
    <2>3. MaxTopologies \in Nat BY BoundsAssumption
    <2>4. ~(\E i : i \in 1..0) OBVIOUS
    <2> HIDE DEF NoTopology
    <2> QED BY <1>1, <2>1, <2>2, <2>3, <2>4
        DEF TopologiesKnown, Before, TopologiesRead
  <1>7. ConfigurationsKnown
    <2>1. /\ DOMAIN configurations = 1..MaxConfigurations
          /\ \A i \in 1..MaxConfigurations : configurations[i].id = 0
          /\ confCnt = 0
      BY DEF Init, NoConfiguration
    <2>2. {i \in 1..MaxConfigurations : configurations[i].id # 0} = {} BY <2>1
    <2>3. Cardinality({}) = 0 BY FS_EmptySet
    <2> QED BY <1>1, <2>1, <2>2, <2>3
        DEF ConfigurationsKnown, Before, ConfigurationsRead
  <1>8. SuitesKnown
    <2>1. /\ DOMAIN suites = 1..MaxSuites
          /\ \A i \in 1..MaxSuites : suites[i].id = 0
          /\ suiteCnt = 0
      BY DEF Init, NoSuite
    <2>2. {i \in 1..MaxSuites : suites[i].id # 0} = {} BY <2>1
    <2>3. Cardinality({}) = 0 BY FS_EmptySet
    <2> QED BY <1>1, <2>1, <2>2, <2>3 DEF SuitesKnown, Before
  <1>9. ChainKnown
    <2>1. MaxSuites \in Nat BY BoundsAssumption
    <2>2. prepared = <<>> BY DEF Init
    <2> QED BY <1>1, <2>1, <2>2, Empty DEF ChainKnown
  <1>10. NoStopOnGoodFile BY <1>1 DEF NoStopOnGoodFile
  <1> QED BY <1>2, <1>3, <1>4, <1>5, <1>6, <1>7, <1>8, <1>9, <1>10 DEF Inv

\* A step that changes nothing.
LEMMA StutterKeeps ==
    ASSUME Inv, UNCHANGED vars PROVE Inv'
  <1>1. UNCHANGED <<pc, file, opt, index, items, ok, spdm_version, ports,
                    switches, topologies, topCnt, configurations, confCnt,
                    suites, suiteCnt, function_id, prepared>>
    BY DEF vars, config
  <1>2. InputsKnown' BY <1>1 DEF Inv, InputsKnown, InRange
  <1>3. ItemsKnown' BY <1>1 DEF Inv, ItemsKnown
  <1>4. Progress' BY <1>1 DEF Inv, Progress, g_run_test_suite
  <1>5. PortsKnown' BY <1>1 DEF Inv, PortsKnown
  <1>6. SwitchesKnown'
    BY <1>1 DEF Inv, SwitchesKnown, Before, SwitchesRead
  <1>7. TopologiesKnown'
    BY <1>1 DEF Inv, TopologiesKnown, TopologySet, Before, TopologiesRead
  <1>8. ConfigurationsKnown'
    BY <1>1 DEF Inv, ConfigurationsKnown, Before, ConfigurationsRead
  <1>9. /\ \A x : /\ get_topology_by_id(x)' = get_topology_by_id(x)
                  /\ get_configuration_by_id(x)' = get_configuration_by_id(x)
                  /\ get_test_case_from_string(x)' = get_test_case_from_string(x)
                  /\ SuiteOfCase(x)' = SuiteOfCase(x)
        /\ g_run_test_suite' = g_run_test_suite
    BY <1>1 DEF get_topology_by_id, get_configuration_by_id, g_run_test_suite,
                get_test_case_from_string, SuiteOfCase
  <1>10. SuitesKnown'
    <2>1. \A i \in 1..MaxSuites : SuiteFits(suites[i])' <=> SuiteFits(suites[i])
      BY <1>1, <1>9 DEF SuiteFits
    <2>2. OneSuite' <=> OneSuite BY <1>1, <1>9 DEF OneSuite
    <2>3. \A i \in 1..MaxSuites : Before(i, "suite", ok)' <=> Before(i, "suite", ok)
      BY <1>1 DEF Before
    <2>4. SuitesKnown BY DEF Inv
    <2> QED BY <1>1, <1>9, <2>1, <2>2, <2>3, <2>4 DEF SuitesKnown
  <1>12. ChainKnown'
    <2>1. \A i \in 1..Len(prepared) :
             PreparedAsStored(prepared[i])' <=> PreparedAsStored(prepared[i])
      BY <1>1, <1>9 DEF PreparedAsStored
    <2>2. \A n \in 1..MaxSuites :
             /\ ToPrepare(suites[n])' <=> ToPrepare(suites[n])
             /\ Before(n, "prepare", pc = "run")' <=> Before(n, "prepare", pc = "run")
      BY <1>1, <1>9 DEF ToPrepare, Before
    <2>3. ChainKnown BY DEF Inv
    <2> QED BY <1>1, <2>1, <2>2, <2>3 DEF ChainKnown
  <1>11. NoStopOnGoodFile'
    BY <1>1 DEF Inv, NoStopOnGoodFile, g_run_test_suite
  <1> QED BY <1>2, <1>3, <1>4, <1>5, <1>6, <1>7, <1>8, <1>10, <1>11, <1>12
      DEF Inv

\* The inductive step.
LEMMA NextInv == Inv /\ [Next]_vars => Inv'
  <1> SUFFICES ASSUME Inv, [Next]_vars PROVE Inv' OBVIOUS
  <1>1. CASE parse_cmdline_option BY <1>1, CmdlineKeeps
  <1>2. CASE OpenIniFile BY <1>2, OpenKeeps
  <1>3. CASE ParseMainSection BY <1>3, MainKeeps
  <1>4. CASE ParsePortsSection("rootport", "endpoint") BY <1>4, RootportsKeeps
  <1>5. CASE ParsePortsSection("endpoint", "switch") BY <1>5, EndpointsKeeps
  <1>6. CASE ParseSwitchesSection BY <1>6, SwitchesKeeps
  <1>7. CASE ParseTopologySection BY <1>7, TopologyKeeps
  <1>8. CASE ParseConfigurationSection BY <1>8, ConfigurationKeeps
  <1>9. CASE ParseTestSuiteSection BY <1>9, SuiteKeeps
  <1>10. CASE CloseIniFile BY <1>10, CloseKeeps
  <1>11. CASE CloseIniFileAgain BY <1>11, CloseAgainKeeps
  <1>12. CASE SelectCase BY <1>12, SelectKeeps
  <1>13. CASE prepare_tests_data BY <1>13, PrepareKeeps
  <1>14. CASE UNCHANGED vars BY <1>14, StutterKeeps
  <1> QED
    BY <1>1, <1>2, <1>3, <1>4, <1>5, <1>6, <1>7, <1>8, <1>9, <1>10, <1>11,
       <1>12, <1>13, <1>14 DEF Next

-----------------------------------------------------------------------------
(* What the invariant says of the properties.                               *)

\* A slot that is taken is one of the first topCnt.
LEMMA SlotTaken ==
    ASSUME Inv, NEW i \in 1..MaxTopologies, topologies[i].id # 0
    PROVE  i \in 1..topCnt
  <1>1. MaxTopologies \in Nat /\ topCnt \in 0..MaxTopologies /\ ~(i > topCnt)
    BY BoundsAssumption DEF Inv, TopologiesKnown
  <1> QED BY <1>1

\* The invariant gives the types and the counts.
LEMMA InvTypeOK ==
    ASSUME Inv PROVE TypeOK
  <1>1. topCnt = Cardinality({i \in 1..MaxTopologies : topologies[i].id # 0})
    <2> DEFINE S == {i \in 1..MaxTopologies : topologies[i].id # 0}
    <2>1. topCnt \in 0..MaxTopologies /\ MaxTopologies \in Nat
      BY BoundsAssumption DEF Inv, TopologiesKnown
    <2>2. \A i \in 1..topCnt : i \in 1..MaxTopologies /\ topologies[i].id # 0
      BY <2>1 DEF Inv, TopologiesKnown
    <2>3. S = 1..topCnt BY <2>2, SlotTaken
    <2>4. topCnt \in Nat BY <2>1
    <2> HIDE DEF S
    <2>5. Cardinality(1..topCnt) = topCnt BY <2>4, FS_Interval
    <2>6. Cardinality(S) = topCnt BY <2>3, <2>5
    <2> QED BY <2>6 DEF S
  <1>2. ASSUME NEW i \in 1..MaxTopologies
        PROVE  /\ topologies[i].id # 0 =>
                     {topologies[i].root_port, topologies[i].upper_port,
                      topologies[i].lower_port} \subseteq 1..Len(ports)
               /\ topologies[i].stream_id \in Bytes
               /\ topologies[i].bus \in Bytes
               /\ topologies[i].segment \in Segments
    <2>1. topologies[i] \in TopologySet BY DEF Inv, TopologiesKnown
    <2>2. /\ topologies[i].stream_id \in Bytes
          /\ topologies[i].bus \in Bytes
          /\ topologies[i].segment \in Segments
      BY <2>1 DEF TopologySet
    <2>3. topologies[i].id # 0 => i \in 1..topCnt BY SlotTaken
    <2> QED BY <2>2, <2>3 DEF Inv, TopologiesKnown
  <1>4. /\ pc \in Labels /\ index \in Nat \ {0} /\ ok \in BOOLEAN
        /\ spdm_version \in Versions
    BY DEF Inv, Progress
  <1>5. /\ Len(ports) <= MaxPorts /\ Len(switches) <= MaxSwitches
        /\ Len(prepared) <= MaxSuites
    BY DEF Inv, PortsKnown, SwitchesKnown, ChainKnown
  <1>6. /\ confCnt = Cardinality({i \in 1..MaxConfigurations :
                                     configurations[i].id # 0})
        /\ suiteCnt = Cardinality({i \in 1..MaxSuites : suites[i].id # 0})
    BY DEF Inv, ConfigurationsKnown, SuitesKnown
  <1> QED BY <1>1, <1>2, <1>4, <1>5, <1>6 DEF TypeOK

\* Where an element of the chain comes from.
LEMMA ChainElement ==
    ASSUME Inv, pc = "run", NEW i \in 1..Len(prepared)
    PROVE  /\ PreparedAsStored(prepared[i])
           /\ suites[prepared[i].id].id # 0
  <1>1. PreparedAsStored(prepared[i]) BY DEF Inv, ChainKnown
  <1>2. MaxSuites \in Nat BY BoundsAssumption
  <1> QED BY <1>1, <1>2 DEF PreparedAsStored

\* The invariant gives that the chain is what the file describes: its element
\* is followed back to its suite, its topology and its configuration.
LEMMA InvRunAsWritten ==
    ASSUME Inv PROVE RunAsWritten
  <1> SUFFICES ASSUME pc = "run", g_run_test_suite, Complete(file)
               PROVE  RunAsWritten
    BY DEF RunAsWritten
  <1>1. \A i, j \in 1..Len(prepared) : i < j => prepared[i].id < prepared[j].id
    BY DEF Inv, ChainKnown
  <1>2. ASSUME NEW i \in 1..Len(prepared)
        PROVE  LET r == prepared[i]
                   s == <<"TestSuite", r.id>>
                   t == <<"Topology", SaidNumber(file, s, "topology")>>
                   c == <<"Configuration", SaidNumber(file, s, "configuration")>>
               IN  /\ ~SaidOff(file, s) /\ ~SaidOff(file, t) /\ ~SaidOff(file, c)
                   /\ r.top.id = SaidNumber(file, s, "topology")
                   /\ r.category = SaidCategory(file, s)
                   /\ r.category = SaidCategory(file, c)
                   /\ r.top.type = Said(file, t, K("type"))[2]
                   /\ r.top.type = SaidType(file, s) /\ r.top.type = SaidType(file, c)
                   /\ r.top.connection = Said(file, t, K("connection"))[2]
                   /\ AsDrawn(file, ports, r.top)
                   /\ \A item \in r.items \ {"default"} : SaidOn(file, c, item)
                   /\ \A k \in DOMAIN r.groups :
                         r.groups[k].cases =
                             GetUint32Array(Said(file, s, K(r.groups[k].class)))
    <2> DEFINE r == prepared[i]
               u == suites[r.id]
               s == <<"TestSuite", r.id>>
               n == SaidNumber(file, s, "topology")
               m == SaidNumber(file, s, "configuration")
               t == <<"Topology", n>>
               c == <<"Configuration", m>>
    <2>1. PreparedAsStored(r) /\ u.id # 0 BY ChainElement
    <2>2. r.id \in 1..MaxSuites /\ u.id = r.id /\ u.enabled /\ r.category = u.category
          /\ r.groups = GroupsOf(u)
      BY <2>1 DEF PreparedAsStored
    <2>3. SuiteFits(u) /\ SuiteAsSaid(file, u)
      BY <2>1, <2>2 DEF Inv, SuitesKnown
    <2>4. /\ u.enabled = ~SaidOff(file, s)
          /\ u.type = SaidType(file, s) /\ u.category = SaidCategory(file, s)
          /\ u.topology_id = n /\ u.configuration_id = m
          /\ u.cases \in Seq(Elements(u.cases))
          /\ \A k \in 1..Len(u.cases) :
                u.cases[k] \in {<<>>, GetUint32Array(
                                  Said(file, s, K(CaseClasses(u.category)[k].class)))}
      BY <2>2, <2>3 DEF SuiteAsSaid
    <2>5. PICK x \in get_topology_by_id(n) : r.top = topologies[x]
      BY <2>1, <2>4 DEF PreparedAsStored
    <2>6. /\ x \in 1..MaxTopologies /\ topologies[x].id = n /\ n > 0
          /\ topologies[x].enabled
      BY <2>5 DEF get_topology_by_id
    <2>7. PICK y \in get_configuration_by_id(m) :
             /\ r.config_id = configurations[y].id
             /\ r.top.type = configurations[y].type
             /\ r.items \subseteq configurations[y].bit_map
      BY <2>1, <2>4 DEF PreparedAsStored
    <2>8. /\ y \in 1..MaxConfigurations /\ configurations[y].id = m /\ m > 0
          /\ configurations[y].enabled
      BY <2>7 DEF get_configuration_by_id
    <2>9. configurations[y].type = u.type /\ configurations[y].category = u.category
      BY <2>3, <2>4, <2>7, UniqueById DEF SuiteFits
    <2> HIDE DEF n, m, u
    <2>10. n # 0 /\ m # 0
      <3>1. MaxConfigurations \in Nat /\ m \in {0, y}
        BY <2>8, BoundsAssumption DEF Inv, ConfigurationsKnown
      <3>2. n \in Nat BY <2>6 DEF Inv, TopologiesKnown, TopologySet
      <3> QED BY <2>6, <2>8, <3>1, <3>2
    <2>11. TopologyAsSaid(file, ports, topologies[x])
      BY <2>6, <2>10, SlotTaken DEF Inv, TopologiesKnown
    <2>12. /\ ~SaidOff(file, t) /\ r.top.id = n
           /\ r.top.type = Said(file, t, K("type"))[2]
           /\ r.top.connection = Said(file, t, K("connection"))[2]
           /\ AsDrawn(file, ports, r.top)
      BY <2>5, <2>6, <2>11 DEF TopologyAsSaid
    <2>13. ConfigurationAsSaid(file, configurations[y])
      BY <2>8, <2>10 DEF Inv, ConfigurationsKnown
    <2>14. /\ ~SaidOff(file, c) /\ r.category = SaidCategory(file, c)
           /\ r.top.type = SaidType(file, c) /\ r.top.type = SaidType(file, s)
           /\ \A item \in r.items \ {"default"} : SaidOn(file, c, item)
      BY <2>2, <2>4, <2>7, <2>8, <2>9, <2>13 DEF ConfigurationAsSaid
    <2>15. ASSUME NEW k \in DOMAIN r.groups
           PROVE  r.groups[k].cases =
                      GetUint32Array(Said(file, s, K(r.groups[k].class)))
      <3>1. /\ k \in 1..Len(u.cases) /\ u.cases[k] # <<>>
            /\ r.groups[k].class = CaseClasses(u.category)[k].class
            /\ r.groups[k].cases = u.cases[k]
        BY <2>2, <2>15 DEF GroupsOf
      <3> QED BY <2>4, <3>1
    <2> QED BY <2>2, <2>4, <2>12, <2>14, <2>15 DEF n, m
  <1> QED BY <1>1, <1>2 DEF RunAsWritten

\* The invariant gives that no suite written down well is missing.
LEMMA InvNothingLeftOut ==
    ASSUME Inv PROVE NothingLeftOut
  <1> SUFFICES ASSUME pc = "run", g_run_test_suite, Complete(file),
                      NEW n \in 1..MaxSuites, ~SaidOff(file, <<"TestSuite", n>>),
                      SuiteWritten(file, ports, n)
               PROVE  \E i \in 1..Len(prepared) : prepared[i].id = n
    BY DEF NothingLeftOut, SuiteWritten, SectionGiven
  <1>1. ok BY DEF Inv, Progress
  <1>2. suites[n].id = n BY <1>1 DEF Inv, SuitesKnown, Before
  <1>3. n # 0 BY BoundsAssumption
  <1>4. SuiteFits(suites[n]) /\ SuiteAsSaid(file, suites[n])
    BY <1>2, <1>3 DEF Inv, SuitesKnown
  <1>5. ToPrepare(suites[n])
    BY <1>2, <1>3, <1>4 DEF ToPrepare, SuiteFits, SuiteAsSaid
  <1> QED BY <1>5 DEF Inv, ChainKnown, Before

\* The classes of a category have names of their own.
LEMMA ClassesDistinct ==
    ASSUME NEW c \in Elements(Categories),
           NEW k \in 1..Len(CaseClasses(c)), NEW l \in 1..Len(CaseClasses(c)),
           CaseClasses(c)[k].class = CaseClasses(c)[l].class
    PROVE  k = l
  <1>1. c \in {"pcie-ide", "cxl-ide", "tdisp", "cxl-tsp", "spdm"}
    BY DEF Elements, Categories
  <1>2. CASE c = "spdm"
    <2> DEFINE n == Len(SpdmClasses)
               Row(x) == Class(SpdmClasses[x], SpdmCases[x])
    <2>1. n = 12 BY DEF SpdmClasses
    <2>2. \A x : Row(x).class = SpdmClasses[x] BY DEF Class
    <2>3. CaseClasses(c) = [x \in 1..n |-> Row(x)]
      BY <1>2 DEF CaseClasses, m_spdm_test_case_names
    <2> HIDE DEF n, Row
    <2>4. Len(CaseClasses(c)) = n BY <2>1, <2>3
    <2>5. k \in 1..12 /\ l \in 1..12 /\ SpdmClasses[k] = SpdmClasses[l]
      BY <2>1, <2>2, <2>3, <2>4
    <2> QED BY <2>5 DEF SpdmClasses
  <1>3. CASE c = "pcie-ide" BY <1>3 DEF CaseClasses, m_test_case_names, Class
  <1>4. CASE c = "cxl-ide" BY <1>4 DEF CaseClasses, m_cxl_ide_test_case_names, Class
  <1>5. CASE c = "tdisp" BY <1>5 DEF CaseClasses, m_tdisp_test_case_names, Class
  <1>6. CASE c = "cxl-tsp" BY <1>6 DEF CaseClasses, m_cxl_tsp_test_case_names, Class
  <1> QED BY <1>1, <1>2, <1>3, <1>4, <1>5, <1>6

\* The suite made of a case has one group, of that case.
LEMMA OneGroup ==
    ASSUME NEW c \in Elements(Categories), NEW k \in get_test_case_from_string(c)
    PROVE  /\ DOMAIN GroupsOf(SuiteOfCase(c)) = {k}
           /\ GroupsOf(SuiteOfCase(c))[k] = [class |-> opt.test_case[1],
                                             cases |-> <<opt.test_case[2]>>]
  <1> DEFINE u == SuiteOfCase(c)
             n == Len(CaseClasses(c))
             At(j) == IF j \in get_test_case_from_string(c)
                      THEN <<opt.test_case[2]>> ELSE <<>>
  <1>1. n \in Nat BY ClassCount
  <1>2. u.category = c /\ u.cases = [j \in 1..n |-> At(j)] BY DEF SuiteOfCase
  <1>3. \A j : At(j) # <<>> <=> j \in get_test_case_from_string(c) OBVIOUS
  <1>4. At(k) = <<opt.test_case[2]>> OBVIOUS
  <1>5. k \in 1..n /\ CaseClasses(c)[k].class = opt.test_case[1]
    BY DEF get_test_case_from_string
  <1>6. ASSUME NEW j \in get_test_case_from_string(c) PROVE j = k
    <2>1. j \in 1..n /\ CaseClasses(c)[j].class = opt.test_case[1]
      BY DEF get_test_case_from_string
    <2> QED BY <1>5, <2>1, ClassesDistinct
  <1> HIDE DEF n, At, u
  <1>7. Len(u.cases) = n BY <1>1, <1>2
  <1>8. \A j \in 1..n : u.cases[j] = At(j) BY <1>2
  <1>9. {j \in 1..Len(u.cases) : u.cases[j] # <<>>} = {k}
    BY <1>3, <1>5, <1>6, <1>7, <1>8
  <1>10. DOMAIN GroupsOf(u) = {k} BY <1>9 DEF GroupsOf
  <1>11. GroupsOf(u)[k] = [class |-> CaseClasses(u.category)[k].class,
                           cases |-> u.cases[k]]
    BY <1>9 DEF GroupsOf
  <1> QED BY <1>2, <1>4, <1>5, <1>8, <1>10, <1>11 DEF u

\* The invariant gives that the command line is obeyed.
LEMMA InvOptionsApply ==
    ASSUME Inv PROVE OptionsApply
  <1>1. OverridesApply
    BY SlotTaken DEF OverridesApply, Inv, TopologiesKnown
  <1>2. ASSUME pc = "run", ~g_run_test_suite
        PROVE  /\ Len(prepared) = 1
               /\ prepared[1].top.id = opt.top_id
               /\ prepared[1].config_id = opt.config_id
               /\ \E k \in DOMAIN prepared[1].groups :
                     /\ DOMAIN prepared[1].groups = {k}
                     /\ prepared[1].groups[k] = [class |-> opt.test_case[1],
                                                 cases |-> <<opt.test_case[2]>>]
    <2>1. OneSuite /\ \A i \in 2..MaxSuites : suites[i].id = 0
      BY <1>2 DEF Inv, SuitesKnown
    <2>2. MaxSuites \in Nat \ {0} BY BoundsAssumption
    <2>3. PICK c \in Elements(Categories) :
             suites[1] = SuiteOfCase(c) /\ get_test_case_from_string(c) # {}
      BY <2>1 DEF OneSuite
    <2>4. /\ suites[1].id = 1 /\ suites[1].enabled
          /\ suites[1].topology_id = opt.top_id
          /\ suites[1].configuration_id = opt.config_id
      BY <2>3 DEF SuiteOfCase
    <2>5. ToPrepare(suites[1]) BY <2>1, <2>4 DEF ToPrepare, OneSuite
    <2>6. PICK i \in 1..Len(prepared) : prepared[i].id = 1
      <3>1. 1 \in 1..MaxSuites BY <2>2
      <3> QED BY <1>2, <2>5, <3>1 DEF Inv, ChainKnown, Before
    <2>7. \A j \in 1..Len(prepared) : prepared[j].id = 1
      <3>1. \A j \in 1..Len(prepared) : /\ prepared[j].id \in 1..MaxSuites
                                        /\ suites[prepared[j].id].id # 0
        BY <1>2, ChainElement DEF PreparedAsStored
      <3> QED BY <2>1, <2>2, <3>1
    <2>8. Len(prepared) \in Nat BY LenNat DEF Inv, ChainKnown
    <2>9. Len(prepared) = 1
      <3>1. PICK m \in Nat : m = Len(prepared) BY <2>8
      <3>2. m >= 1 BY <2>6, <3>1
      <3>3. m <= 1
        <4> SUFFICES ASSUME m > 1 PROVE FALSE BY <3>1
        <4>1. 1 \in 1..m /\ 2 \in 1..m OBVIOUS
        <4>2. prepared[1].id < prepared[2].id
          BY <1>2, <3>1, <4>1 DEF Inv, ChainKnown
        <4>3. prepared[1].id = 1 /\ prepared[2].id = 1 BY <2>7, <3>1, <4>1
        <4> QED BY <4>2, <4>3
      <3> QED BY <3>1, <3>2, <3>3
    <2>10. PreparedAsStored(prepared[1]) /\ prepared[1].id = 1
      BY <1>2, <2>7, <2>9, ChainElement
    <2>11. prepared[1].top.id = opt.top_id /\ prepared[1].config_id = opt.config_id
      BY <2>4, <2>10 DEF PreparedAsStored, get_topology_by_id,
                         get_configuration_by_id
    <2>12. prepared[1].groups = GroupsOf(SuiteOfCase(c))
      BY <2>3, <2>10 DEF PreparedAsStored
    <2>13. PICK k : k \in get_test_case_from_string(c) BY <2>3
    <2>14. /\ DOMAIN GroupsOf(SuiteOfCase(c)) = {k}
           /\ GroupsOf(SuiteOfCase(c))[k] = [class |-> opt.test_case[1],
                                             cases |-> <<opt.test_case[2]>>]
      BY <2>13, OneGroup
    <2> QED BY <2>9, <2>11, <2>12, <2>14
  <1>3. OneCase BY <1>2 DEF OneCase
  <1> QED BY <1>1, <1>3 DEF OptionsApply

-----------------------------------------------------------------------------
(* The theorems.                                                            *)

\* The invariant holds throughout parse_ide_test_init, the choice of a case
\* and prepare_tests_data, for every set of files and of command lines and
\* every size of the tables.
THEOREM Invariance == Spec => []Inv
  BY InitInv, NextInv, PTL DEF Spec

\* Types, ranges and counts: the counters of the three tables are the numbers
\* of slots with an id, and a stored topology refers to ports there are.
THEOREM TypeCorrect == Spec => []TypeOK
  <1>1. Inv => TypeOK BY InvTypeOK
  <1> QED BY <1>1, Invariance, PTL

\* What prepare_tests_data hands to the runner is what the file describes:
\* for every file whose entries have values, however its sections refer to
\* each other and whatever entries are repeated or rejected.
THEOREM RunAsWrittenCorrect == Spec => []RunAsWritten
  <1>1. Inv => RunAsWritten BY InvRunAsWritten
  <1> QED BY <1>1, Invariance, PTL

\* No suite that is written down well is left out of the chain, whatever the
\* connection of its topology and whatever numbers are missing or rejected
\* before it (parse_ide_test_init, prepare_tests_data).
THEOREM NothingLeftOutCorrect == Spec => []NothingLeftOut
  <1>1. Inv => NothingLeftOut BY InvNothingLeftOut
  <1> QED BY <1>1, Invariance, PTL

\* On a file that is WellFormed (which is narrower than doc/ide_test_ini.md)
\* no TEEIO_ASSERT of the parser and of alloc_run_test_config fails, no array
\* is left and no value is taken for an address.
THEOREM NoStopCorrect == Spec => []NoStopOnGoodFile
  <1>1. Inv => NoStopOnGoodFile BY DEF Inv
  <1> QED BY <1>1, Invariance, PTL

\* -g and -b override every topology, but for the values 0xffff and 0xff that
\* mean an option not given, and -s runs the one case it names
\* (parse_cmdline_option, ParseTopologySection).
THEOREM OptionsCorrect == Spec => []OptionsApply
  <1>1. Inv => OptionsApply BY InvOptionsApply
  <1> QED BY <1>1, Invariance, PTL
=============================================================================
