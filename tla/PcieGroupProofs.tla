--------------------------- MODULE PcieGroupProofs --------------------------
(***************************************************************************)
(* Invariance proofs for PcieGroup, for every plan of groups, every size   *)
(* of the device table, any number of switch hops, DOE instances and       *)
(* measurement blocks, and any width of the port index.                    *)
(***************************************************************************)
EXTENDS PcieGroup, TLAPS, FiniteSetTheorems, WellFoundedInduction

-----------------------------------------------------------------------------
(* Counting: there is always a descriptor, and a slot in the table.        *)

\* A set of numbers that is not empty has a least member: NextFd and the slots
\* of the device table are what they are called.
LEMMA LeastMember ==
    ASSUME NEW S, S \subseteq Nat, S # {}
    PROVE  Min(S) \in S
  <1> DEFINE R == {ss \in Nat \X Nat : ss[1] < ss[2]}
  <1>1. IsWellFoundedOn(R, Nat)
    <2>1. IsWellFoundedOn(OpToRel(<, Nat), Nat) BY NatLessThanWellFounded
    <2> QED BY <2>1 DEF OpToRel
  <1>2. PICK x \in S : \A y \in S : ~(<<y, x>> \in R)
    <2> HIDE DEF R
    <2> QED BY <1>1, WFMin
  <1>3. \A y \in S : x <= y
    <2> TAKE y \in S
    <2>1. x \in Nat /\ y \in Nat OBVIOUS
    <2>2. ~(y < x)
      <3> SUFFICES ASSUME y < x PROVE FALSE OBVIOUS
      <3>1. <<y, x>> \in Nat \X Nat BY <2>1
      <3>2. <<y, x>>[1] = y /\ <<y, x>>[2] = x OBVIOUS
      <3>3. <<y, x>> \in R BY <3>1, <3>2
      <3> QED BY <3>3, <1>2
    <2> QED BY <2>1, <2>2
  <1>4. \E z \in S : \A y \in S : z <= y BY <1>3
  <1>5. QED BY <1>4 DEF Min

\* The plan has a length, and each group's endpoint is one of the endpoints.
LEMMA PlanFacts ==
    /\ Len(Plan) \in Nat
    /\ Len(Plan) >= 1
    /\ \A g \in Groups : g \in Nat /\ g >= 1 /\ Plan[g] \in Endpoints
    /\ RootPort \notin Endpoints
    /\ Fds \subseteq Nat
    /\ 0 \notin Fds /\ -1 \notin Fds
    /\ IsFiniteSet(Fds) /\ Cardinality(Fds) = 5 * Len(Plan) + 1
    /\ IsFiniteSet(Groups) /\ Cardinality(Groups) = Len(Plan)
  <1>1. Len(Plan) \in Nat /\ Len(Plan) >= 1
    BY GroupAssumption
  <1>2. \A g \in Groups : g \in Nat /\ g >= 1 /\ Plan[g] \in Endpoints
    BY <1>1 DEF Groups, Endpoints
  <1>3. Fds \subseteq Nat /\ 0 \notin Fds /\ -1 \notin Fds
    BY <1>1 DEF Fds, FirstFd
  <1>4. IsFiniteSet(Fds) /\ Cardinality(Fds) = 5 * Len(Plan) + 1
    <2>1. /\ IsFiniteSet(3 .. 3 + 5 * Len(Plan))
          /\ Cardinality(3 .. 3 + 5 * Len(Plan))
                = IF 3 > 3 + 5 * Len(Plan) THEN 0
                  ELSE 3 + 5 * Len(Plan) - 3 + 1
      BY <1>1, FS_Interval
    <2> QED BY <2>1, <1>1 DEF Fds, FirstFd
  <1>5. IsFiniteSet(Groups) /\ Cardinality(Groups) = Len(Plan)
    BY <1>1, FS_Interval DEF Groups
  <1> QED BY <1>1, <1>2, <1>3, <1>4, <1>5, RootAssumption

\* Four kinds of files.
LEMMA KindsCounted == IsFiniteSet(Kinds) /\ Cardinality(Kinds) = 4
  <1>1. IsFiniteSet({"dev"}) /\ Cardinality({"dev"}) = 1
    BY FS_Singleton
  <1>2. /\ IsFiniteSet({"dev"} \cup {"host"})
        /\ Cardinality({"dev"} \cup {"host"}) = 2
    BY <1>1, FS_AddElement
  <1>3. /\ IsFiniteSet({"dev"} \cup {"host"} \cup {"keyp"})
        /\ Cardinality({"dev"} \cup {"host"} \cup {"keyp"}) = 3
    BY <1>2, FS_AddElement
  <1>4. /\ IsFiniteSet({"dev"} \cup {"host"} \cup {"keyp"} \cup {"mem"})
        /\ Cardinality({"dev"} \cup {"host"} \cup {"keyp"} \cup {"mem"}) = 4
    BY <1>3, FS_AddElement
  <1>5. {"dev"} \cup {"host"} \cup {"keyp"} \cup {"mem"} = Kinds
    BY DEF Kinds
  <1> QED BY <1>4, <1>5

\* Two of them are entered in the device table.
LEMMA PortKindsCounted ==
    IsFiniteSet({"dev", "host"}) /\ Cardinality({"dev", "host"}) = 2
  <1>1. IsFiniteSet({"dev"}) /\ Cardinality({"dev"}) = 1
    BY FS_Singleton
  <1>2. /\ IsFiniteSet({"dev"} \cup {"host"})
        /\ Cardinality({"dev"} \cup {"host"}) = 2
    BY <1>1, FS_AddElement
  <1>3. {"dev"} \cup {"host"} = {"dev", "host"} OBVIOUS
  <1> QED BY <1>2, <1>3

\* open() always finds a descriptor: with each kind of file open at most once
\* for each group there are fewer files than descriptors.
LEMMA FreeFd ==
    ASSUME NEW f \in [Fds -> Files \cup {NoFile}], Distinct(f)
    PROVE  LET fd == Min({d \in Fds : f[d] = NoFile})
           IN  fd \in Fds /\ f[fd] = NoFile
  <1> DEFINE Free == {d \in Fds : f[d] = NoFile}
  <1>1. Free # {}
    <2> SUFFICES ASSUME \A d \in Fds : f[d] # NoFile PROVE FALSE
      OBVIOUS
    <2> DEFINE T == Groups \X Kinds
               key == [d \in Fds |-> <<f[d].group, f[d].kind>>]
    <2>1. \A d \in Fds : f[d] \in Files OBVIOUS
    <2>2. key \in [Fds -> T]
      BY <2>1 DEF Files
    <2>3. IsFiniteSet(T) /\ Cardinality(T) = Len(Plan) * 4
      <3>1. /\ IsFiniteSet(T)
            /\ Cardinality(T) = Cardinality(Groups) * Cardinality(Kinds)
        BY FS_Product, PlanFacts, KindsCounted
      <3> QED BY <3>1, PlanFacts, KindsCounted
    <2>4. Cardinality(T) < Cardinality(Fds) /\ IsFiniteSet(Fds)
      <3> HIDE DEF T
      <3> QED BY <2>3, PlanFacts
    <2>5. PICK a, b \in Fds : a # b /\ key[a] = key[b]
      <3> HIDE DEF T, key
      <3> QED BY <2>2, <2>3, <2>4, FS_PigeonHole
    <2>6. f[a].group = f[b].group /\ f[a].kind = f[b].kind
      BY <2>5
    <2> QED BY <2>5, <2>6 DEF Distinct
  <1>2. Min(Free) \in Free
    <2>1. Free \subseteq Nat BY PlanFacts
    <2> HIDE DEF Free
    <2> QED BY <1>1, <2>1, LeastMember
  <1> QED BY <1>2

\* Descriptors and table slots with their types.
FileType == [Fds -> Files \cup {NoFile}]
EntryType == [fd : Fds, kind : Kinds, port : Endpoints \cup {RootPort}]
TableType == [1 .. TableSize -> EntryType \cup {NoEntry}]

\* The group has no file of this kind open.
None(f, kind) == \A d \in Fds : ~(f[d].group = group /\ f[d].kind = kind)

\* What opening a file does to the files.
LEMMA OpenFile ==
    ASSUME NEW f \in FileType, Distinct(f), group \in Groups,
           NEW fd \in Fds, f[fd] = NoFile,
           NEW kind \in Kinds, NEW port \in Endpoints \cup {RootPort},
           None(f, kind)
    PROVE  /\ Opened(f, fd, kind, port) \in FileType
           /\ Distinct(Opened(f, fd, kind, port))
           /\ Opened(f, fd, kind, port)[fd]
                 = [kind |-> kind, port |-> port, group |-> group]
           /\ \A d \in Fds \ {fd} : Opened(f, fd, kind, port)[d] = f[d]
  <1> DEFINE new == [kind |-> kind, port |-> port, group |-> group]
             g == Opened(f, fd, kind, port)
  <1>1. new \in Files /\ new.kind = kind /\ new.group = group
    BY DEF Files
  <1>2. g \in FileType /\ g[fd] = new /\ \A d \in Fds \ {fd} : g[d] = f[d]
    BY <1>1 DEF Opened, FileType
  <1>3. Distinct(g)
    <2> HIDE DEF g, new
    <2> SUFFICES ASSUME NEW a \in Fds, NEW b \in Fds, g[a] # NoFile,
                        g[a].kind = g[b].kind, g[a].group = g[b].group
                 PROVE  a = b
      BY DEF Distinct
    <2>1. CASE a = fd /\ b # fd
      BY <2>1, <1>1, <1>2 DEF None
    <2>2. CASE a # fd /\ b = fd
      BY <2>2, <1>1, <1>2 DEF None
    <2>3. CASE a # fd /\ b # fd
      BY <2>3, <1>2 DEF Distinct
    <2> QED BY <2>1, <2>2, <2>3
  <1> QED BY <1>2, <1>3

\* What closing one does.
LEMMA CloseFile ==
    ASSUME NEW f \in FileType, Distinct(f), NEW fd \in Fds
    PROVE  /\ Closed(f, fd) \in FileType
           /\ Distinct(Closed(f, fd))
           /\ Closed(f, fd)[fd] = NoFile
           /\ \A d \in Fds \ {fd} : Closed(f, fd)[d] = f[d]
  <1> DEFINE g == Closed(f, fd)
  <1>1. g \in FileType /\ g[fd] = NoFile /\ \A d \in Fds \ {fd} : g[d] = f[d]
    BY DEF Closed, FileType
  <1>2. \A d \in Fds : f[d] # NoFile => f[d].kind \in Kinds
    BY DEF FileType, Files
  <1>3. NoFile.kind \notin Kinds BY DEF NoFile, Kinds
  <1>4. Distinct(g)
    <2> HIDE DEF g
    <2> SUFFICES ASSUME NEW a \in Fds, NEW b \in Fds, g[a] # NoFile,
                        g[a].kind = g[b].kind, g[a].group = g[b].group
                 PROVE  a = b
      BY DEF Distinct
    <2>1. a # fd BY <1>1
    <2>2. b # fd BY <2>1, <1>1, <1>2, <1>3
    <2> QED BY <2>1, <2>2, <1>1 DEF Distinct
  <1> QED BY <1>1, <1>4

\* An entry of the table has a descriptor, an empty slot has none.
LEMMA EntryFd ==
    ASSUME NEW t \in TableType, NEW i \in 1 .. TableSize
    PROVE  /\ t[i] # NoEntry => t[i] \in EntryType /\ t[i].fd \in Fds
           /\ t[i] = NoEntry <=> t[i].fd = 0
  BY PlanFacts DEF TableType, EntryType, NoEntry

\* The files of another kind do not concern the table.
LEMMA OpenOther ==
    ASSUME NEW f \in FileType, NEW t \in TableType, Matches(f, t),
           NEW fd \in Fds, f[fd] = NoFile,
           NEW kind \in {"keyp", "mem"}, NEW port
    PROVE  Matches(Opened(f, fd, kind, port), t)
  <1> DEFINE g == Opened(f, fd, kind, port)
  <1>1. g[fd].kind = kind /\ \A d \in Fds \ {fd} : g[d] = f[d]
    BY DEF Opened, FileType
  <1>2. \A i \in 1 .. TableSize : t[i] # NoEntry => t[i].fd \in Fds \ {fd}
    BY EntryFd DEF Matches, NoFile
  <1> HIDE DEF g
  <1>3. \A i \in 1 .. TableSize : t[i] # NoEntry => g[t[i].fd] = f[t[i].fd]
    BY <1>1, <1>2
  <1>4. \A d \in Fds : g[d].kind \in {"dev", "host"} => g[d] = f[d]
    BY <1>1
  <1>5. Matches(g, t) BY <1>3, <1>4 DEF Matches
  <1> QED BY <1>5 DEF g

\* Nor does closing one.
LEMMA CloseOther ==
    ASSUME NEW f \in FileType, NEW t \in TableType, Matches(f, t),
           NEW fd \in Fds, f[fd].kind \in {"keyp", "mem"}
    PROVE  Matches(Closed(f, fd), t)
  <1> DEFINE g == Closed(f, fd)
  <1>1. g[fd].kind = "none" /\ \A d \in Fds \ {fd} : g[d] = f[d]
    BY DEF Closed, FileType, NoFile
  <1>2. \A i \in 1 .. TableSize : t[i] # NoEntry => t[i].fd \in Fds \ {fd}
    BY EntryFd DEF Matches
  <1> HIDE DEF g
  <1>3. \A i \in 1 .. TableSize : t[i] # NoEntry => g[t[i].fd] = f[t[i].fd]
    BY <1>1, <1>2
  <1>4. \A d \in Fds : g[d].kind \in {"dev", "host"} => g[d] = f[d]
    BY <1>1
  <1>5. Matches(g, t) BY <1>3, <1>4 DEF Matches
  <1> QED BY <1>5 DEF g

\* The device table has room: the entries belong to ports of different groups
\* or kinds, and the one to be entered is not among them.
LEMMA FreeSlot ==
    ASSUME NEW f \in FileType, Distinct(f),
           NEW t \in TableType, Matches(f, t),
           group \in Groups, NEW kind \in {"dev", "host"}, None(f, kind),
           TableSize >= 2 * Len(Plan)
    PROVE  \E i \in 1 .. TableSize : t[i] = NoEntry
  <1> SUFFICES ASSUME \A i \in 1 .. TableSize : t[i] # NoEntry PROVE FALSE
    OBVIOUS
  <1> DEFINE S == 1 .. TableSize
             P == Groups \X {"dev", "host"}
             T == P \ {<<group, kind>>}
             key == [i \in S |-> <<f[t[i].fd].group, f[t[i].fd].kind>>]
  <1>1. \A i \in S : /\ t[i].fd \in Fds
                     /\ f[t[i].fd].kind \in {"dev", "host"}
                     /\ f[t[i].fd].group \in Groups
                     /\ f[t[i].fd] # NoFile
    <2> SUFFICES ASSUME NEW i \in S
                 PROVE  /\ t[i].fd \in Fds
                        /\ f[t[i].fd].kind \in {"dev", "host"}
                        /\ f[t[i].fd].group \in Groups
                        /\ f[t[i].fd] # NoFile
      OBVIOUS
    <2>1. t[i].fd \in Fds /\ f[t[i].fd].kind \in {"dev", "host"}
      BY EntryFd DEF Matches
    <2>2. f[t[i].fd] # NoFile BY <2>1 DEF NoFile
    <2> QED BY <2>1, <2>2 DEF FileType, Files
  <1>2. key \in [S -> T]
    <2> SUFFICES ASSUME NEW i \in S
                 PROVE  <<f[t[i].fd].group, f[t[i].fd].kind>> \in T
      OBVIOUS
    <2>1. ~(f[t[i].fd].group = group /\ f[t[i].fd].kind = kind)
      BY <1>1 DEF None
    <2> QED BY <1>1, <2>1
  <1>3. IsFiniteSet(T) /\ Cardinality(T) = 2 * Len(Plan) - 1
    <2>4. IsFiniteSet(P) /\ Cardinality(P) = Len(Plan) * 2
      <3>1. /\ IsFiniteSet(P)
            /\ Cardinality(P)
                  = Cardinality(Groups) * Cardinality({"dev", "host"})
        BY PortKindsCounted, PlanFacts, FS_Product
      <3> QED BY <3>1, PortKindsCounted, PlanFacts
    <2>5. <<group, kind>> \in P OBVIOUS
    <2> HIDE DEF P
    <2>6. IsFiniteSet(T) /\ Cardinality(T) = Cardinality(P) - 1
      BY <2>4, <2>5, FS_RemoveElement
    <2> QED BY <2>4, <2>6, PlanFacts
  <1>4. IsFiniteSet(S) /\ Cardinality(S) = TableSize
    BY GroupAssumption, FS_Interval
  <1>5. Cardinality(T) < Cardinality(S)
    <2> HIDE DEF T, S
    <2> QED BY <1>3, <1>4, GroupAssumption, PlanFacts
  <1>6. PICK a, b \in S : a # b /\ key[a] = key[b]
    <2> HIDE DEF T, S, key
    <2> QED BY <1>2, <1>3, <1>4, <1>5, FS_PigeonHole
  <1>7. t[a].fd = t[b].fd
    <2>1. /\ f[t[a].fd].group = f[t[b].fd].group
          /\ f[t[a].fd].kind = f[t[b].fd].kind
      BY <1>6
    <2> QED BY <2>1, <1>1 DEF Distinct
  <1> QED BY <1>6, <1>7 DEF Matches

\* set_deivce_info enters the port that was opened, in a free slot.
LEMMA EnterPort ==
    ASSUME file \in FileType, Distinct(file), table \in TableType,
           Matches(file, table), group \in Groups,
           NEW fd \in Fds, file[fd] = NoFile,
           NEW kind \in {"dev", "host"},
           NEW port \in Endpoints \cup {RootPort},
           None(file, kind)
    PROVE  /\ set_deivce_info(fd, kind, port) \in TableType
           /\ Matches(Opened(file, fd, kind, port),
                      set_deivce_info(fd, kind, port))
  <1> DEFINE g == Opened(file, fd, kind, port)
             new == [fd |-> fd, kind |-> kind, port |-> port]
             u == set_deivce_info(fd, kind, port)
             k == Min(SlotsFor(fd))
  <1>1. /\ g[fd].kind = kind /\ g[fd].port = port
        /\ \A d \in Fds \ {fd} : g[d] = file[d]
    BY DEF Opened, FileType
  <1>2. \A i \in 1 .. TableSize : table[i] # NoEntry =>
           table[i].fd \in Fds \ {fd} /\ g[table[i].fd] = file[table[i].fd]
    <2> HIDE DEF g
    <2> QED BY <1>1, EntryFd DEF Matches, NoFile
  <1>3. SlotsFor(fd) = {i \in 1 .. TableSize : table[i] = NoEntry}
    BY <1>2, EntryFd DEF SlotsFor
  <1>4. CASE SlotsFor(fd) = {}
    <2>1. u = table BY <1>4 DEF set_deivce_info
    <2>2. ~(TableSize >= 2 * Len(Plan))
      BY <1>3, <1>4, FreeSlot
    <2> HIDE DEF g, u
    <2>3. u \in TableType /\ Matches(g, u) BY <2>1, <2>2, <1>2 DEF Matches
    <2> QED BY <2>3 DEF g, u
  <1>5. CASE SlotsFor(fd) # {}
    <2>1. k \in 1 .. TableSize /\ table[k] = NoEntry
      <3>1. SlotsFor(fd) \subseteq Nat BY GroupAssumption DEF SlotsFor
      <3>2. k \in SlotsFor(fd) BY <3>1, <1>5, LeastMember
      <3> QED BY <3>2, <1>3
    <2>2. u = [table EXCEPT ![k] = new] BY <1>5 DEF set_deivce_info
    <2>3. new \in EntryType /\ new # NoEntry /\ new.fd = fd /\ new.kind = kind
          /\ new.port = port
      BY PlanFacts DEF EntryType, NoEntry, Kinds
    <2>4. u \in TableType /\ u[k] = new
          /\ \A i \in (1 .. TableSize) \ {k} : u[i] = table[i]
      <3> HIDE DEF new, k
      <3> QED BY <2>1, <2>2, <2>3 DEF TableType
    <2> HIDE DEF g, new, u, k
    <2>5. \A i \in 1 .. TableSize : u[i] # NoEntry =>
             /\ u[i].kind \in {"dev", "host"}
             /\ g[u[i].fd].kind = u[i].kind
             /\ g[u[i].fd].port = u[i].port
      BY <1>1, <1>2, <2>3, <2>4 DEF Matches
    <2>6. \A i, j \in 1 .. TableSize :
             u[i] # NoEntry /\ u[i].fd = u[j].fd => i = j
      <3> SUFFICES ASSUME NEW i \in 1 .. TableSize, NEW j \in 1 .. TableSize,
                          u[i] # NoEntry, u[i].fd = u[j].fd
                   PROVE  i = j
        OBVIOUS
      <3>0. u[i].fd \in Fds /\ u[j].fd \in Fds /\ u[j] # NoEntry
        <4>1. u[i].fd \in Fds /\ u[i].fd # 0 BY <2>4, EntryFd, PlanFacts
        <4> QED BY <4>1, <2>4, EntryFd
      <3>1. CASE i = k /\ j # k
        BY <3>0, <3>1, <2>3, <2>4, <1>2
      <3>2. CASE i # k /\ j = k
        BY <3>0, <3>2, <2>3, <2>4, <1>2
      <3>3. CASE i # k /\ j # k
        BY <3>3, <2>4 DEF Matches
      <3> QED BY <3>1, <3>2, <3>3
    <2>7. ASSUME TableSize >= 2 * Len(Plan), NEW d \in Fds,
                 g[d].kind \in {"dev", "host"}
          PROVE  \E i \in 1 .. TableSize : u[i].fd = d
      <3>1. CASE d = fd BY <3>1, <2>1, <2>3, <2>4
      <3>2. CASE d # fd
        <4>1. PICK i \in 1 .. TableSize : table[i].fd = d
          BY <3>2, <2>7, <1>1 DEF Matches
        <4>2. i # k
          BY <4>1, <2>1, PlanFacts DEF NoEntry
        <4> QED BY <4>1, <4>2, <2>4
      <3> QED BY <3>1, <3>2
    <2>8. Matches(g, u) BY <2>5, <2>6, <2>7 DEF Matches
    <2> QED BY <2>4, <2>8 DEF g, u
  <1> QED BY <1>4, <1>5

\* unset_device_info removes the one entry of a file that is closed.
LEMMA RemovePort ==
    ASSUME NEW f \in FileType, table \in TableType, Matches(f, table),
           NEW fd \in Fds
    PROVE  /\ unset_device_info(fd) \in TableType
           /\ Matches(Closed(f, fd), unset_device_info(fd))
  <1> DEFINE g == Closed(f, fd)
             u == unset_device_info(fd)
             at == {i \in 1 .. TableSize : table[i].fd = fd}
             k == Min(at)
  <1>1. g[fd].kind = "none" /\ \A d \in Fds \ {fd} : g[d] = f[d]
    BY DEF Closed, FileType, NoFile
  <1>2. /\ u \in TableType
        /\ \A i \in 1 .. TableSize :
              u[i] # NoEntry => u[i] = table[i] /\ u[i].fd # fd
        /\ \A i \in 1 .. TableSize : table[i].fd # fd => u[i] = table[i]
    <2>1. CASE at = {}
      <3>1. u = table BY <2>1 DEF unset_device_info
      <3> HIDE DEF u
      <3> QED BY <2>1, <3>1
    <2>2. CASE at # {}
      <3>1. k \in at
        <4>1. at \subseteq Nat BY GroupAssumption
        <4> HIDE DEF at
        <4> QED BY <4>1, <2>2, LeastMember
      <3>2. k \in 1 .. TableSize /\ table[k].fd = fd BY <3>1
      <3>3. u = [table EXCEPT ![k] = NoEntry] BY <2>2 DEF unset_device_info
      <3>4. u \in TableType /\ u[k] = NoEntry
            /\ \A i \in (1 .. TableSize) \ {k} : u[i] = table[i]
        <4> HIDE DEF k, u
        <4> QED BY <3>2, <3>3 DEF TableType
      <3>5. \A i \in (1 .. TableSize) \ {k} :
               table[i] # NoEntry => table[i].fd # fd
        <4> HIDE DEF k, u
        <4> QED BY <3>2 DEF Matches
      <3> HIDE DEF k, u
      <3> QED BY <3>2, <3>4, <3>5
    <2> QED BY <2>1, <2>2
  <1> HIDE DEF g, u
  <1>3. \A i \in 1 .. TableSize : u[i] # NoEntry =>
           /\ u[i].kind \in {"dev", "host"}
           /\ g[u[i].fd].kind = u[i].kind
           /\ g[u[i].fd].port = u[i].port
    <2> SUFFICES ASSUME NEW i \in 1 .. TableSize, u[i] # NoEntry
                 PROVE  /\ u[i].kind \in {"dev", "host"}
                        /\ g[u[i].fd].kind = u[i].kind
                        /\ g[u[i].fd].port = u[i].port
      OBVIOUS
    <2>1. u[i] = table[i] /\ u[i].fd \in Fds \ {fd}
      BY <1>2, EntryFd
    <2> QED BY <2>1, <1>1 DEF Matches
  <1>4. \A i, j \in 1 .. TableSize :
           u[i] # NoEntry /\ u[i].fd = u[j].fd => i = j
    <2> SUFFICES ASSUME NEW i \in 1 .. TableSize, NEW j \in 1 .. TableSize,
                        u[i] # NoEntry, u[i].fd = u[j].fd
                 PROVE  i = j
      OBVIOUS
    <2>1. u[i].fd \in Fds /\ u[j] # NoEntry
      <3>1. u[i].fd \in Fds /\ u[i].fd # 0 BY <1>2, EntryFd, PlanFacts
      <3> QED BY <3>1, <1>2, EntryFd
    <2> QED BY <2>1, <1>2 DEF Matches
  <1>5. ASSUME TableSize >= 2 * Len(Plan), NEW d \in Fds,
               g[d].kind \in {"dev", "host"}
        PROVE  \E i \in 1 .. TableSize : u[i].fd = d
    <2>1. d # fd /\ g[d] = f[d] BY <1>5, <1>1
    <2>2. PICK i \in 1 .. TableSize : table[i].fd = d
      BY <1>5, <2>1 DEF Matches
    <2> QED BY <2>1, <2>2, <1>2
  <1>6. Matches(g, u) BY <1>3, <1>4, <1>5 DEF Matches
  <1> QED BY <1>2, <1>6 DEF g, u

-----------------------------------------------------------------------------
(* What each action does to files and table.                               *)

\* The type invariant in parts.
ControlType ==
    /\ group \in 0 .. Len(Plan)
    /\ pc \in Pcs
    /\ outcome \in [Groups -> {"todo", "ran", "stop_failed", "setup_failed"}]
    /\ step \in Nat
    /\ requested \in {"auto", "supported", "unsupported"}
ContextType ==
    context \in [dev : Fds \cup {0}, host : Fds \cup {0},
                 kcbar : Fds \cup {0, -1}, spdm : BOOLEAN,
                 lowSegment : BOOLEAN, upSegment : BOOLEAN,
                 index : 0 .. IndexWrap - 1]
PortType ==
    /\ file \in FileType
    /\ table \in TableType
    /\ m_dev_fp \in Fds \cup {0}
    /\ doe \in 0 .. MaxDoe
    /\ answered \in 0 .. MaxDoe
SpdmType ==
    /\ heap \subseteq Groups \X {"context", "scratch"}
    /\ meas \in [number : 0 .. MaxNumber, received : 0 .. MaxNumber,
                 sign : BOOLEAN, signed : BOOLEAN]
    /\ km \in [index : 0 .. IndexWrap - 1, max : 0 .. IndexWrap - 1,
               own : 0 .. IndexWrap, found : BOOLEAN]
    /\ sessions \subseteq Endpoints \X Groups

\* Together they are the type invariant.
LEMMA TypeParts ==
    TypeOK <=> ControlType /\ ContextType /\ PortType /\ SpdmType
  BY DEF TypeOK, ControlType, ContextType, PortType, SpdmType, FileType,
         TableType, EntryType

\* What every step keeps of the files and the table.
PortsInOrder(f, t) ==
    /\ f \in FileType
    /\ t \in TableType
    /\ Distinct(f)
    /\ Matches(f, t)

\* The invariant says so of the state.
LEMMA InOrder == Inv => PortsInOrder(file, table)
  BY TypeParts DEF Inv, PortType, FilesKnown, TableKnown, PortsInOrder

\* The descriptor the next open() returns.
LEMMA NextFdFree == Inv => NextFd \in Fds /\ file[NextFd] = NoFile
  BY InOrder, FreeFd DEF PortsInOrder, FileType, NextFd

\* A group has not yet opened what it is about to open.
LEMMA NotYetOpen ==
    ASSUME Inv, pc \in {"open_dev", "open_root", "keyp"}
    PROVE  /\ group \in Groups
           /\ pc = "open_dev" => None(file, "dev")
           /\ pc = "open_root" => None(file, "host")
           /\ pc = "keyp" => None(file, "keyp") /\ None(file, "mem")
  BY DEF Inv, FilesKnown, PortsKnown, Held, None, DevSteps, HostSteps,
         KcbarSteps, PortSteps, SpdmSteps, TeardownSteps

\* The record of the group's own open file.
Own(kind, port) == [kind |-> kind, port |-> port, group |-> group]

\* open_dev_port opens the endpoint and enters it.
LEMMA OpenDevFiles ==
    ASSUME Inv, OpenDev
    PROVE  /\ PortsInOrder(file', table')
           /\ context'.dev \in Fds /\ context'.dev = m_dev_fp'
           /\ file[context'.dev] = NoFile
           /\ file'[context'.dev] = Own("dev", Endpoint)
           /\ \A d \in Fds \ {context'.dev} : file'[d] = file[d]
  <1>1. NextFd \in Fds /\ file[NextFd] = NoFile BY NextFdFree
  <1>2. pc = "open_dev" BY DEF OpenDev
  <1>3. group \in Groups /\ None(file, "dev") BY <1>2, NotYetOpen
  <1>4. Endpoint \in Endpoints BY <1>3, PlanFacts DEF Endpoint
  <1>5. PortsInOrder(file, table) BY InOrder
  <1>6. context'.dev = NextFd /\ m_dev_fp' = NextFd
    BY TypeParts DEF Inv, ContextType, OpenDev
  <1>7. file' = Opened(file, NextFd, "dev", Endpoint)
        /\ table' = set_deivce_info(NextFd, "dev", Endpoint)
    BY DEF OpenDev
  <1>8. /\ Opened(file, NextFd, "dev", Endpoint) \in FileType
        /\ Distinct(Opened(file, NextFd, "dev", Endpoint))
        /\ Opened(file, NextFd, "dev", Endpoint)[NextFd]
              = Own("dev", Endpoint)
        /\ \A d \in Fds \ {NextFd} :
              Opened(file, NextFd, "dev", Endpoint)[d] = file[d]
    BY <1>1, <1>3, <1>4, <1>5, OpenFile DEF PortsInOrder, Own, Kinds
  <1>9. /\ set_deivce_info(NextFd, "dev", Endpoint) \in TableType
        /\ Matches(Opened(file, NextFd, "dev", Endpoint),
                   set_deivce_info(NextFd, "dev", Endpoint))
    BY <1>1, <1>3, <1>4, <1>5, EnterPort DEF PortsInOrder
  <1> QED BY <1>1, <1>6, <1>7, <1>8, <1>9 DEF PortsInOrder

\* open_root_port opens the root port and enters it.
LEMMA OpenRootFiles ==
    ASSUME Inv, OpenRoot
    PROVE  /\ PortsInOrder(file', table')
           /\ context'.host \in Fds
           /\ file[context'.host] = NoFile
           /\ file'[context'.host] = Own("host", RootPort)
           /\ \A d \in Fds \ {context'.host} : file'[d] = file[d]
  <1>1. NextFd \in Fds /\ file[NextFd] = NoFile BY NextFdFree
  <1>2. pc = "open_root" BY DEF OpenRoot
  <1>3. group \in Groups /\ None(file, "host") BY <1>2, NotYetOpen
  <1>5. PortsInOrder(file, table) BY InOrder
  <1>6. context'.host = NextFd
    BY TypeParts DEF Inv, ContextType, OpenRoot
  <1>7. file' = Opened(file, NextFd, "host", RootPort)
        /\ table' = set_deivce_info(NextFd, "host", RootPort)
    BY DEF OpenRoot
  <1>8. /\ Opened(file, NextFd, "host", RootPort) \in FileType
        /\ Distinct(Opened(file, NextFd, "host", RootPort))
        /\ Opened(file, NextFd, "host", RootPort)[NextFd]
              = Own("host", RootPort)
        /\ \A d \in Fds \ {NextFd} :
              Opened(file, NextFd, "host", RootPort)[d] = file[d]
    BY <1>1, <1>3, <1>5, OpenFile DEF PortsInOrder, Own, Kinds
  <1>9. /\ set_deivce_info(NextFd, "host", RootPort) \in TableType
        /\ Matches(Opened(file, NextFd, "host", RootPort),
                   set_deivce_info(NextFd, "host", RootPort))
    BY <1>1, <1>3, <1>5, EnterPort DEF PortsInOrder
  <1> QED BY <1>1, <1>6, <1>7, <1>8, <1>9 DEF PortsInOrder

\* The file of the KEYP table is opened beside the ports.
LEMMA KeypOpened ==
    ASSUME Inv, pc = "keyp"
    PROVE  LET f == Opened(file, NextFd, "keyp", RootPort)
           IN  /\ PortsInOrder(f, table)
               /\ NextFd \in Fds /\ file[NextFd] = NoFile
               /\ f[NextFd] = Own("keyp", RootPort)
               /\ \A d \in Fds \ {NextFd} : f[d] = file[d]
               /\ None(f, "mem")
  <1> DEFINE f == Opened(file, NextFd, "keyp", RootPort)
  <1>1. NextFd \in Fds /\ file[NextFd] = NoFile BY NextFdFree
  <1>2. group \in Groups /\ None(file, "keyp") /\ None(file, "mem")
    BY NotYetOpen
  <1>3. PortsInOrder(file, table) BY InOrder
  <1>4. /\ f \in FileType
        /\ Distinct(f)
        /\ f[NextFd] = Own("keyp", RootPort)
        /\ \A d \in Fds \ {NextFd} : f[d] = file[d]
    BY <1>1, <1>2, <1>3, OpenFile DEF PortsInOrder, Own, Kinds
  <1>5. Matches(f, table)
    BY <1>1, <1>3, OpenOther DEF PortsInOrder
  <1>6. None(f, "mem")
    <2> HIDE DEF f
    <2> QED BY <1>2, <1>4 DEF None, Own
  <1> QED BY <1>1, <1>3, <1>4, <1>5, <1>6 DEF PortsInOrder

\* A program that hangs in parse_keyp_table has opened only that.
LEMMA KeypHangsFiles ==
    ASSUME Inv, KeypHangs
    PROVE  /\ PortsInOrder(file', table')
           /\ \A d \in Fds : file'[d] \in {file[d], Own("keyp", RootPort)}
  <1>1. pc = "keyp" /\ table' = table
        /\ file' = Opened(file, NextFd, "keyp", RootPort)
    BY DEF KeypHangs
  <1> QED BY <1>1, KeypOpened

\* With the KEYP table parsed the KCBAR is mapped.
LEMMA KeypFiles ==
    ASSUME Inv, Keyp
    PROVE  /\ PortsInOrder(file', table')
           /\ context'.kcbar \in Fds
           /\ file[context'.kcbar] = NoFile
           /\ file'[context'.kcbar] = Own("mem", RootPort)
           /\ \A d \in Fds \ {context'.kcbar} :
                 file'[d] = file[d]
                    \/ (file[d] = NoFile /\ file'[d] = Own("keyp", RootPort))
  <1> DEFINE f == Opened(file, NextFd, "keyp", RootPort)
             mem == Min({fd \in Fds : f[fd] = NoFile})
             g == Opened(f, mem, "mem", RootPort)
  <1>1. pc = "keyp" /\ table' = table /\ file' = g /\ context'.kcbar = mem
    BY TypeParts DEF Inv, ContextType, Keyp
  <1>2. /\ PortsInOrder(f, table)
        /\ NextFd \in Fds /\ file[NextFd] = NoFile
        /\ f[NextFd] = Own("keyp", RootPort)
        /\ \A d \in Fds \ {NextFd} : f[d] = file[d]
        /\ None(f, "mem")
    BY <1>1, KeypOpened
  <1>3. group \in Groups BY <1>1, NotYetOpen
  <1> HIDE DEF f
  <1>4. mem \in Fds /\ f[mem] = NoFile
    BY <1>2, FreeFd DEF PortsInOrder, FileType
  <1>5. mem # NextFd /\ file[mem] = NoFile
    BY <1>2, <1>4 DEF Own, NoFile
  <1> HIDE DEF mem
  <1>6. /\ g \in FileType
        /\ Distinct(g)
        /\ g[mem] = Own("mem", RootPort)
        /\ \A d \in Fds \ {mem} : g[d] = f[d]
    BY <1>2, <1>3, <1>4, OpenFile DEF PortsInOrder, Own, Kinds
  <1>7. Matches(g, table)
    BY <1>2, <1>4, OpenOther DEF PortsInOrder
  <1> HIDE DEF g
  <1>8. PortsInOrder(g, table) BY <1>2, <1>6, <1>7 DEF PortsInOrder
  <1>9. \A d \in Fds \ {mem} :
           \/ g[d] = file[d]
           \/ file[d] = NoFile /\ g[d] = Own("keyp", RootPort)
    BY <1>2, <1>6
  <1> QED BY <1>1, <1>4, <1>5, <1>6, <1>8, <1>9

\* A port is closed and taken out of the table.
LEMMA PortClosed ==
    ASSUME NEW f \in FileType, PortsInOrder(f, table), NEW fd \in Fds
    PROVE  /\ PortsInOrder(Closed(f, fd), unset_device_info(fd))
           /\ Closed(f, fd)[fd] = NoFile
           /\ \A d \in Fds \ {fd} : Closed(f, fd)[d] = f[d]
  BY CloseFile, RemovePort DEF PortsInOrder

\* A root port that is not in the table is closed again; the file of the
\* table, if there was one, is not.
LEMMA KeypFailedFiles ==
    ASSUME Inv, NEW opened \in BOOLEAN, KeypFailed(opened)
    PROVE  /\ PortsInOrder(file', table')
           /\ \A d \in Fds :
                 file'[d] \in {file[d], NoFile, Own("keyp", RootPort)}
  <1> DEFINE f == IF opened THEN Opened(file, NextFd, "keyp", RootPort)
                  ELSE file
  <1>1. /\ pc = "keyp"
        /\ file' = Closed(f, context.host)
        /\ table' = unset_device_info(context.host)
    BY DEF KeypFailed
  <1>2. context.host \in Fds
    BY <1>1 DEF Inv, PortsKnown, HostSteps, Holds
  <1>3. /\ PortsInOrder(f, table)
        /\ \A d \in Fds : f[d] \in {file[d], Own("keyp", RootPort)}
    BY <1>1, KeypOpened, InOrder
  <1> HIDE DEF f
  <1>4. f \in FileType BY <1>3 DEF PortsInOrder
  <1>5. /\ PortsInOrder(Closed(f, context.host),
                        unset_device_info(context.host))
        /\ Closed(f, context.host)[context.host] = NoFile
        /\ \A d \in Fds \ {context.host} : Closed(f, context.host)[d] = f[d]
    BY <1>2, <1>3, <1>4, PortClosed
  <1> QED BY <1>1, <1>3, <1>5

\* The failure path of open_dev_port and init_dev_port.
LEMMA DevFailedFiles ==
    ASSUME Inv, pc \in {"doe", "dev_stream"}, DevFailed
    PROVE  /\ PortsInOrder(file', table')
           /\ \A d \in Fds : file'[d] \in {file[d], NoFile}
  <1>1. context.dev \in Fds
    BY DEF Inv, PortsKnown, DevSteps, PortSteps, Holds
  <1> QED
    BY <1>1, InOrder, PortClosed DEF DevFailed, CloseAndUnset, PortsInOrder

\* The failure path of init_root_port.
LEMMA InitRootFailedFiles ==
    ASSUME Inv, InitRootFailed
    PROVE  /\ PortsInOrder(file', table')
           /\ \A d \in Fds : file'[d] \in {file[d], NoFile}
  <1>1. context.host \in Fds
    BY DEF Inv, PortsKnown, HostSteps, Holds, InitRootFailed
  <1> QED
    BY <1>1, InOrder, PortClosed DEF InitRootFailed, CloseAndUnset,
       PortsInOrder

\* The teardown of the device port.
LEMMA CloseDevFiles ==
    ASSUME Inv, close_dev_port
    PROVE  /\ PortsInOrder(file', table')
           /\ context.dev \in Fds /\ file'[context.dev] = NoFile
           /\ \A d \in Fds \ {context.dev} : file'[d] = file[d]
  <1>1. context.dev \in Fds
    BY DEF Inv, PortsKnown, DevSteps, Holds, close_dev_port
  <1> QED
    BY <1>1, InOrder, PortClosed DEF close_dev_port, CloseAndUnset,
       PortsInOrder

\* The teardown of the root port, whose KCBAR is closed first.
LEMMA CloseRootFiles ==
    ASSUME Inv, close_root_port
    PROVE  /\ PortsInOrder(file', table')
           /\ context.host \in Fds /\ file'[context.host] = NoFile
           /\ context.kcbar \in Fds /\ file'[context.kcbar] = NoFile
           /\ \A d \in Fds \ {context.host, context.kcbar} :
                 file'[d] = file[d]
  <1> DEFINE f == Closed(file, context.kcbar)
  <1>1. /\ pc = "close_root"
        /\ file' = Closed(f, context.host)
        /\ table' = unset_device_info(context.host)
    BY DEF close_root_port
  <1>2. /\ context.host \in Fds
        /\ context.kcbar \in Fds /\ file[context.kcbar].kind = "mem"
    BY <1>1 DEF Inv, PortsKnown, HostSteps, KcbarSteps, TeardownSteps, Holds
  <1>3. PortsInOrder(file, table) BY InOrder
  <1>4. /\ f \in FileType /\ Distinct(f) /\ f[context.kcbar] = NoFile
        /\ \A d \in Fds \ {context.kcbar} : f[d] = file[d]
    BY <1>2, <1>3, CloseFile DEF PortsInOrder
  <1>5. Matches(f, table)
    BY <1>2, <1>3, CloseOther DEF PortsInOrder
  <1> HIDE DEF f
  <1>6. PortsInOrder(f, table) BY <1>3, <1>4, <1>5 DEF PortsInOrder
  <1> QED BY <1>1, <1>2, <1>4, <1>6, PortClosed

\* The group and kind of a file are in their ranges.
LEMMA FileFields ==
    ASSUME PortType
    PROVE  \A d \in Fds : /\ file[d].group \in Nat
                          /\ file[d].kind \in Kinds \cup {"none"}
                          /\ file[d].kind = "none" <=> file[d] = NoFile
                          /\ file[d] # NoFile => file[d].group \in Groups
  <1> TAKE d \in Fds
  <1>1. CASE file[d] = NoFile BY <1>1 DEF NoFile
  <1>2. CASE file[d] \in Files
    <2>1. file[d].kind \in Kinds /\ file[d].group \in Groups BY <1>2 DEF Files
    <2>2. file[d].kind # "none" BY <2>1 DEF Kinds
    <2>3. file[d] # NoFile BY <2>2 DEF NoFile
    <2> QED BY <2>1, <2>2, <2>3, PlanFacts
  <1> QED BY <1>1, <1>2 DEF PortType, FileType

\* The kinds of files a group can have at the steps that change them.
LEMMA HeldAt ==
    /\ pc \in {"scan", "open_dev"} => Held = {}
    /\ pc \in {"doe", "dev_stream", "open_root"} => Held = {"dev"}
    /\ pc = "keyp" => Held = {"dev", "host"}
    /\ pc \in {"root_stream", "close_dev"} => Held = Kinds
    /\ pc = "close_root" => Held = {"host", "keyp", "mem"}
  BY DEF Held, Kinds, DevSteps, HostSteps, KcbarSteps, PortSteps, SpdmSteps,
         TeardownSteps

\* A new group has no file.
LEMMA StartGroupFiles ==
    ASSUME Inv, ControlType, PortType, StartGroup
    PROVE  FilesKnown'
  <1>1. /\ file' = file /\ group' = group + 1 /\ group \in Nat
        /\ Distinct(file) /\ \A d \in Fds : file[d].group <= group
    BY PlanFacts DEF StartGroup, files, ControlType, Inv, FilesKnown
  <1>2. Distinct(file') BY <1>1
  <1>3. \A d \in Fds : file'[d].group <= group' /\ file'[d].group # group'
    BY <1>1, FileFields
  <1> QED BY <1>2, <1>3 DEF FilesKnown

\* With its endpoint opened a group has that file.
LEMMA OpenDevKnown ==
    ASSUME Inv, ControlType, PortType, OpenDev
    PROVE  FilesKnown'
  <1> DEFINE fd == context'.dev
  <1>1. /\ Distinct(file')
        /\ fd \in Fds /\ file'[fd] = Own("dev", Endpoint)
        /\ \A d \in Fds \ {fd} : file'[d] = file[d]
    BY OpenDevFiles DEF PortsInOrder
  <1> HIDE DEF fd
  <1>2. pc = "open_dev" /\ pc' = "doe" /\ group' = group BY DEF OpenDev, GoTo
  <1>3. Held = {} /\ Held' = {"dev"}
    <2>1. (pc \in {"doe", "dev_stream", "open_root"} => Held = {"dev"})'
      BY HeldAt, PTL
    <2> QED BY <1>2, <2>1, HeldAt
  <1>4. \A d \in Fds : file[d].group <= group /\ file[d].group # group
    BY <1>2, <1>3 DEF Inv, FilesKnown
  <1>5. group <= group BY DEF ControlType
  <1>6. \A d \in Fds : file'[d].group <= group'
                       /\ (file'[d].group = group' => file'[d].kind \in Held')
    BY <1>1, <1>2, <1>3, <1>4, <1>5 DEF Own
  <1> QED BY <1>1, <1>6 DEF FilesKnown

\* With the root port opened it has that as well.
LEMMA OpenRootKnown ==
    ASSUME Inv, ControlType, PortType, OpenRoot
    PROVE  FilesKnown'
  <1> DEFINE fd == context'.host
  <1>1. /\ Distinct(file')
        /\ fd \in Fds /\ file'[fd] = Own("host", RootPort)
        /\ \A d \in Fds \ {fd} : file'[d] = file[d]
    BY OpenRootFiles DEF PortsInOrder
  <1> HIDE DEF fd
  <1>2. pc = "open_root" /\ pc' = "keyp" /\ group' = group
    BY DEF OpenRoot, GoTo
  <1>3. Held = {"dev"} /\ Held' = {"dev", "host"}
    <2>1. (pc = "keyp" => Held = {"dev", "host"})'
      BY HeldAt, PTL
    <2> QED BY <1>2, <2>1, HeldAt
  <1>4. \A d \in Fds : file[d].group <= group
                       /\ (file[d].group = group => file[d].kind \in Held)
    BY <1>2 DEF Inv, FilesKnown
  <1>5. group <= group BY DEF ControlType
  <1>6. \A d \in Fds : file'[d].group <= group'
                       /\ (file'[d].group = group' => file'[d].kind \in Held')
    BY <1>1, <1>2, <1>3, <1>4, <1>5 DEF Own
  <1> QED BY <1>1, <1>6 DEF FilesKnown

\* With the KEYP table parsed it has one of each kind.
LEMMA KeypKnown ==
    ASSUME Inv, ControlType, PortType, Keyp
    PROVE  FilesKnown'
  <1> DEFINE fd == context'.kcbar
  <1>1. /\ Distinct(file')
        /\ fd \in Fds /\ file'[fd] = Own("mem", RootPort)
        /\ \A d \in Fds \ {fd} :
              file'[d] = file[d] \/ file'[d] = Own("keyp", RootPort)
    BY KeypFiles DEF PortsInOrder
  <1> HIDE DEF fd
  <1>2. pc = "keyp" /\ pc' = "root_stream" /\ group' = group BY DEF Keyp, GoTo
  <1>3. Held = {"dev", "host"} /\ Held' = Kinds
    <2>1. (pc \in {"root_stream", "close_dev"} => Held = Kinds)'
      BY HeldAt, PTL
    <2> QED BY <1>2, <2>1, HeldAt
  <1>4. \A d \in Fds : file[d].group <= group
                       /\ (file[d].group = group => file[d].kind \in Held)
    BY <1>2 DEF Inv, FilesKnown
  <1>5. group <= group BY DEF ControlType
  <1>6. \A d \in Fds : file'[d].group <= group'
                       /\ (file'[d].group = group' => file'[d].kind \in Held')
    <2> TAKE d \in Fds
    <2>1. file'[d] \in {file[d], Own("keyp", RootPort), Own("mem", RootPort)}
      BY <1>1
    <2> QED BY <2>1, <1>2, <1>3, <1>4, <1>5 DEF Own, Kinds
  <1> QED BY <1>1, <1>6 DEF FilesKnown

\* A failed KEYP parse leaves files of this group or none.
LEMMA KeypFailedKnown ==
    ASSUME Inv, ControlType, PortType,
           \E opened \in BOOLEAN : KeypFailed(opened)
    PROVE  FilesKnown'
  <1> PICK opened \in BOOLEAN : KeypFailed(opened) OBVIOUS
  <1>1. /\ Distinct(file')
        /\ \A d \in Fds :
              file'[d] \in {file[d], NoFile, Own("keyp", RootPort)}
    BY KeypFailedFiles DEF PortsInOrder
  <1>2. pc' = "idle" /\ group' = group BY DEF KeypFailed, SetupFailed
  <1>3. \A d \in Fds : file[d].group <= group
    BY DEF Inv, FilesKnown
  <1>4. group <= group /\ 0 <= group BY PlanFacts DEF ControlType
  <1>5. \A d \in Fds : file'[d].group <= group'
    BY <1>1, <1>2, <1>3, <1>4 DEF Own, NoFile
  <1> QED BY <1>1, <1>2, <1>5 DEF FilesKnown

\* The device port is closed: no other file of the group is of its kind.
LEMMA CloseDevKnown ==
    ASSUME Inv, ControlType, PortType, close_dev_port
    PROVE  FilesKnown'
  <1>1. /\ Distinct(file')
        /\ context.dev \in Fds /\ file'[context.dev] = NoFile
        /\ \A d \in Fds \ {context.dev} : file'[d] = file[d]
    BY CloseDevFiles DEF PortsInOrder
  <1>2. /\ pc = "close_dev" /\ pc' = "close_root" /\ group' = group
    BY DEF close_dev_port, GoTo
  <1>3. Held' = {"host", "keyp", "mem"}
    <2>1. (pc = "close_root" => Held = {"host", "keyp", "mem"})'
      BY HeldAt, PTL
    <2> QED BY <1>2, <2>1
  <1>4. /\ Distinct(file)
        /\ \A d \in Fds : file[d].group <= group
        /\ file[context.dev] = Own("dev", Endpoint)
        /\ group \in Groups
    BY <1>2 DEF Inv, FilesKnown, PortsKnown, DevSteps, Holds, Own
  <1>5. \A d \in Fds \ {context.dev} :
           file[d].group = group => file[d].kind # "dev"
    <2>1. file[context.dev] # NoFile /\ file[context.dev].kind = "dev"
          /\ file[context.dev].group = group
      BY <1>4 DEF Own, NoFile
    <2> QED BY <1>1, <1>4, <2>1 DEF Distinct
  <1>6. 0 <= group /\ 0 # group BY <1>4, PlanFacts
  <1>7. \A d \in Fds : file'[d].group <= group'
                       /\ (file'[d].group = group' => file'[d].kind \in Held')
    <2> TAKE d \in Fds
    <2>1. CASE d = context.dev
      BY <2>1, <1>1, <1>2, <1>6 DEF NoFile
    <2>2. CASE d # context.dev
      <3>1. file[d].group = group => file[d].kind \in Kinds
        BY <1>6, FileFields DEF NoFile
      <3> QED BY <2>2, <3>1, <1>1, <1>2, <1>3, <1>4, <1>5 DEF Kinds
    <2> QED BY <2>1, <2>2
  <1> QED BY <1>1, <1>7 DEF FilesKnown

\* The root port is closed, and the group over.
LEMMA CloseRootKnown ==
    ASSUME Inv, ControlType, PortType, close_root_port
    PROVE  FilesKnown'
  <1>1. /\ Distinct(file')
        /\ \A d \in Fds : file'[d] \in {file[d], NoFile}
    BY CloseRootFiles DEF PortsInOrder
  <1>2. pc' = "idle" /\ group' = group BY DEF close_root_port, GoTo
  <1>3. \A d \in Fds : file[d].group <= group
    BY DEF Inv, FilesKnown
  <1>4. 0 <= group BY PlanFacts DEF ControlType
  <1>5. \A d \in Fds : file'[d].group <= group'
    BY <1>1, <1>2, <1>3, <1>4 DEF NoFile
  <1> QED BY <1>1, <1>2, <1>5 DEF FilesKnown

-----------------------------------------------------------------------------
(* What groups leave, and the loops of the SPDM connection.                *)

\* A failed setup explains what its group leaves.
LEMMA LeftByFailure ==
    ASSUME LeftBehind, ControlType, group \in Groups, SetupFailed,
           group' = group, file' = file,
           \A g \in Groups : <<g, "context">> \in heap' =>
              <<g, "context">> \in heap \/ g = group,
           \A s \in sessions' : s \in sessions \/ s[2] = group
    PROVE  LeftBehind'
  BY DEF LeftBehind, ControlType, SetupFailed

\* As long as a group is at work it has left nothing yet.
LEMMA LeftByProgress ==
    ASSUME LeftBehind, pc # "idle", pc' # "idle", outcome' = outcome,
           group' = group, file' = file,
           \A g \in Groups : <<g, "context">> \in heap' =>
              <<g, "context">> \in heap \/ g = group,
           \A s \in sessions' : s \in sessions \/ s[2] = group,
           group \in Groups
    PROVE  LeftBehind'
  BY PlanFacts DEF LeftBehind

\* The steps that end the setup or go on.
LEMMA QuietLeft ==
    ASSUME Inv, ControlType,
           \/ \E found \in BOOLEAN : ScanBridge(found)
           \/ \E ok \in BOOLEAN : Certificate(ok)
           \/ QueryEnds \/ QueryPortIndex \/ MeasureBlock \/ MeasureDone
    PROVE  LeftBehind'
  <1>1. pc # "idle" /\ group \in Groups /\ LeftBehind
    BY DEF Inv, PortsKnown, ScanBridge, Certificate, QueryEnds,
           QueryPortIndex, MeasureBlock, MeasureDone
  <1>2. group' = group /\ file' = file /\ heap' = heap /\ sessions' = sessions
    BY DEF ScanBridge, Certificate, QueryEnds, QueryPortIndex, MeasureBlock,
           MeasureDone, files, spdm
  <1>3. SetupFailed \/ (pc' # "idle" /\ outcome' = outcome)
    BY <1>1 DEF ScanBridge, Certificate, QueryEnds, QueryPortIndex,
       MeasureBlock,
           MeasureDone, GoTo, Connected
  <1> QED BY <1>1, <1>2, <1>3, LeftByFailure, LeftByProgress

\* A session is begun for the group at work.
LEMMA StartSessionLeft ==
    ASSUME Inv, ControlType, \E ok \in BOOLEAN : StartSession(ok)
    PROVE  LeftBehind'
  <1>1. pc # "idle" /\ group \in Groups /\ LeftBehind
    BY DEF Inv, PortsKnown, StartSession
  <1>2. group' = group /\ file' = file /\ heap' = heap
    BY DEF StartSession, files
  <1>3. \A s \in sessions' : s \in sessions \/ s[2] = group
    BY DEF StartSession
  <1>4. SetupFailed \/ (pc' # "idle" /\ outcome' = outcome)
    BY DEF StartSession, GoTo
  <1> QED BY <1>1, <1>2, <1>3, <1>4, LeftByFailure, LeftByProgress

\* The group before is over when the next begins.
LEMMA StartGroupLeft ==
    ASSUME Inv, ControlType, PortType, SpdmType, StartGroup
    PROVE  LeftBehind'
  <1>1. /\ pc = "idle" /\ pc' = "scan" /\ group' = group + 1
        /\ UNCHANGED <<file, heap, sessions, outcome>>
    BY DEF StartGroup, files
  <1>2. group \in Nat /\ LeftBehind BY PlanFacts DEF ControlType, Inv
  <1>3. \A g \in Nat : g < group' \/ (g = group' /\ pc' = "idle") =>
                          g < group \/ (g = group /\ pc = "idle")
    BY <1>1, <1>2
  <1>4. \A d \in Fds : file[d].group \in Nat BY FileFields
  <1>5. \A g \in Groups : g \in Nat BY PlanFacts
  <1>6. \A s \in sessions : s[2] \in Nat BY <1>5 DEF SpdmType
  <1> QED BY <1>1, <1>2, <1>3, <1>4, <1>5, <1>6 DEF LeftBehind

\* The files opened last are of the group at work.
LEMMA KeypLeft ==
    ASSUME Inv, ControlType, PortType, Keyp
    PROVE  LeftBehind'
  <1>1. /\ pc = "keyp" /\ pc' = "root_stream" /\ group' = group
        /\ UNCHANGED <<heap, sessions, outcome>>
    BY DEF Keyp, GoTo, spdm
  <1>2. \A d \in Fds : file'[d] \in {file[d], Own("keyp", RootPort),
                                      Own("mem", RootPort)}
    BY KeypFiles
  <1>3. \A d \in Fds : file'[d] = file[d] \/ file'[d].group = group
    BY <1>2 DEF Own
  <1>4. LeftBehind /\ group \in Nat BY PlanFacts DEF Inv, ControlType
  <1> QED BY <1>1, <1>3, <1>4 DEF LeftBehind

\* The last close leaves the file of the KEYP table alone.
LEMMA CloseRootLeft ==
    ASSUME Inv, ControlType, PortType, SpdmType, close_root_port
    PROVE  LeftBehind'
  <1>1. /\ pc = "close_root" /\ pc' = "idle" /\ group' = group
        /\ UNCHANGED <<heap, sessions, outcome>>
    BY DEF close_root_port, GoTo, spdm
  <1>2. /\ context.host \in Fds /\ file'[context.host] = NoFile
        /\ context.kcbar \in Fds /\ file'[context.kcbar] = NoFile
        /\ \A d \in Fds \ {context.host, context.kcbar} : file'[d] = file[d]
    BY CloseRootFiles
  <1>3. /\ Distinct(file) /\ LeftBehind
        /\ \A d \in Fds : file[d].group = group =>
              file[d].kind \in {"host", "keyp", "mem"}
        /\ file[context.host] = Own("host", RootPort)
        /\ file[context.kcbar] = Own("mem", RootPort)
    BY <1>1, HeldAt DEF Inv, FilesKnown, PortsKnown, HostSteps, KcbarSteps,
                        TeardownSteps, Holds, Own
  <1>4. \A d \in Fds : file'[d] # NoFile /\ file'[d].group = group =>
                          file'[d].kind = "keyp"
    <2> SUFFICES ASSUME NEW d \in Fds, file'[d] # NoFile,
                        file'[d].group = group
                 PROVE  file'[d].kind = "keyp"
      OBVIOUS
    <2>1. d # context.host /\ d # context.kcbar /\ file'[d] = file[d]
      BY <1>2
    <2>2. file[d].kind # "host" /\ file[d].kind # "mem"
      BY <2>1, <1>2, <1>3 DEF Distinct, Own
    <2> QED BY <2>1, <2>2, <1>3
  <1>5. \A d \in Fds : file'[d] = file[d] \/ file'[d] = NoFile BY <1>2
  <1>6. /\ <<group, "context">> \notin heap
        /\ \A s \in sessions : s[2] = group => outcome[group] = "stop_failed"
    BY <1>1 DEF Inv, LeftKnown
  <1>7. \A d \in Fds : file'[d] # NoFile /\ file'[d].kind # "keyp" =>
           file'[d] = file[d] /\ file[d].group # group
    BY <1>4, <1>5
  <1>8. /\ \A d \in Fds : file'[d] # NoFile /\ file'[d].kind # "keyp"
                          /\ file'[d].group < group
              => outcome[file'[d].group] = "setup_failed"
        /\ \A g \in Groups : <<g, "context">> \in heap /\ g < group
              => outcome[g] = "setup_failed"
        /\ \A s \in sessions : s[2] < group
              => outcome[s[2]] \in {"setup_failed", "stop_failed"}
    BY <1>3, <1>7 DEF LeftBehind
  <1> QED BY <1>1, <1>6, <1>7, <1>8 DEF LeftBehind

\* close_dev_port clears the two globals.
LEMMA CloseDevType == ASSUME Inv, PortType, close_dev_port PROVE PortType'
  <1>1. file' \in FileType /\ table' \in TableType
    BY CloseDevFiles DEF PortsInOrder
  <1>2. m_dev_fp' = 0 /\ doe' = 0 /\ answered' = answered
    BY DEF close_dev_port
  <1>3. 0 \in 0 .. MaxDoe BY GroupAssumption
  <1> QED BY <1>1, <1>2, <1>3 DEF PortType

\* The first port index asked for is 0.
LEMMA QueryPortContext ==
    ASSUME ContextType, QueryPortIndex
    PROVE  ContextType'
  <1>1. context' = [context EXCEPT !.index = 0] BY DEF QueryPortIndex
  <1>2. 0 \in 0 .. IndexWrap - 1 BY GroupAssumption
  <1> QED BY <1>1, <1>2 DEF ContextType

\* The index stays a uint8_t.
LEMMA Wraps == ASSUME NEW n \in Nat PROVE n % IndexWrap \in 0 .. IndexWrap - 1
  BY GroupAssumption

\* So does the query loop's.
LEMMA QueryNextType == ASSUME SpdmType, QueryNextPort PROVE SpdmType'
  <1> DEFINE k == (km.index + 1) % IndexWrap
             f == (km.found \/ km.index = km.own)
  <1>1. km' = [km EXCEPT !.index = k, !.found = f]
        /\ UNCHANGED <<heap, meas, sessions>>
    BY DEF QueryNextPort
  <1>2. k \in 0 .. IndexWrap - 1
    <2>1. km.index + 1 \in Nat BY GroupAssumption DEF SpdmType
    <2> QED BY <2>1, Wraps
  <1>3. f \in BOOLEAN OBVIOUS
  <1> HIDE DEF k, f
  <1> QED BY <1>1, <1>2, <1>3 DEF SpdmType

\* The loop ends at the number of blocks, so it is not passed; and the last
\* block comes with the signature.
LEMMA MeasureBlockKnown ==
    ASSUME Inv, SpdmType, MeasureBlock
    PROVE  SpdmType' /\ MeasKnown'
  <1> DEFINE sign == SignNow
  <1>1. /\ meas.number \in 0 .. MaxNumber /\ meas.received \in 0 .. MaxNumber
        /\ meas.received <= meas.number /\ meas.received # meas.number
        /\ (meas.received = meas.number => meas.signed \/ meas.number = 0)
        /\ meas \in [number : 0 .. MaxNumber, received : 0 .. MaxNumber,
                     sign : BOOLEAN, signed : BOOLEAN]
        /\ MaxNumber \in Nat
    BY GroupAssumption DEF Inv, MeasKnown, SpdmType, MeasureBlock, LoopEnds
  <1>2. /\ meas.received + 1 \in 0 .. MaxNumber
        /\ meas.received + 1 <= meas.number
    BY <1>1
  <1>3. sign \in BOOLEAN /\ (meas.received + 1 = meas.number => sign)
    BY <1>1 DEF SignNow
  <1>4. pc = "meas_one" /\ pc' \in {"meas_one", "idle"}
        /\ UNCHANGED <<heap, km, sessions>>
    BY DEF MeasureBlock, SetupFailed
  <1>5. \/ meas' = [meas EXCEPT !.sign = sign, !.signed = sign,
                                !.received = @ + 1]
        \/ meas' = [meas EXCEPT !.sign = sign]
        \/ meas' = meas
    BY DEF MeasureBlock
  <1> HIDE DEF sign
  <1>6. /\ meas' \in [number : 0 .. MaxNumber, received : 0 .. MaxNumber,
                      sign : BOOLEAN, signed : BOOLEAN]
        /\ meas'.received <= meas'.number
        /\ meas'.received = meas'.number => meas'.signed
    <2>1. CASE meas' = [meas EXCEPT !.sign = sign, !.signed = sign,
                                    !.received = @ + 1]
      BY <2>1, <1>1, <1>2, <1>3
    <2>2. CASE meas' = [meas EXCEPT !.sign = sign]
      BY <2>2, <1>1, <1>3
    <2>3. CASE meas' = meas
      BY <2>3, <1>1
    <2> QED BY <1>5, <2>1, <2>2, <2>3
  <1>7. SpdmType' BY <1>4, <1>6 DEF SpdmType
  <1>8. MeasKnown'
    BY <1>4, <1>6 DEF MeasKnown, SetupSteps, ScanSteps, PortSteps, SpdmSteps
  <1> QED BY <1>7, <1>8

\* A new group has neither heap blocks nor sessions.
LEMMA StartGroupLeftKnown ==
    ASSUME Inv, ControlType, SpdmType, StartGroup
    PROVE  LeftKnown'
  <1>1. /\ pc' = "scan" /\ group' = group + 1 /\ UNCHANGED <<heap, sessions>>
    BY DEF StartGroup
  <1>2. group \in Nat /\ \A g \in Groups : g \in Nat
    BY PlanFacts DEF ControlType
  <1>3. (\A b \in heap : b[1] \in Nat) /\ (\A s \in sessions : s[2] \in Nat)
    BY <1>2 DEF SpdmType
  <1>4. (\A b \in heap : b[1] <= group) /\ (\A s \in sessions : s[2] <= group)
    BY DEF Inv, LeftKnown
  <1> QED BY <1>1, <1>2, <1>3, <1>4 DEF LeftKnown

\* END_SESSION reaches the device that has the session.
LEMMA StopSessionLeftKnown ==
    ASSUME Inv, ControlType, SpdmType, NEW ok \in BOOLEAN, StopSession(ok)
    PROVE  LeftKnown'
  <1>1. /\ pc = "stop" /\ group' = group
        /\ heap' = heap \ {<<group, "context">>}
        /\ sessions' \in {sessions \ (Target \X {group})} \cup
                         (IF ok THEN {} ELSE {sessions})
        /\ outcome' = [outcome EXCEPT ![group] =
                         IF ok THEN "ran" ELSE "stop_failed"]
    BY DEF StopSession
  <1>2. group \in Groups BY <1>1 DEF Inv, PortsKnown
  <1>3. Endpoint \in Target
    <2>1. /\ m_dev_fp \in Fds /\ file[m_dev_fp].kind = "dev"
          /\ file[m_dev_fp].port = Endpoint
      BY <1>1 DEF Inv, PortsKnown, DevSteps, Holds
    <2>2. Endpoint \in Endpoints BY <1>2, PlanFacts DEF Endpoint
    <2> QED BY <2>1, <2>2 DEF Target
  <1>4. \A s \in sessions' :
           s \in sessions /\ (ok => s \notin Target \X {group})
    BY <1>1
  <1>5. \A s \in sessions : s = <<s[1], s[2]>> /\ s[1] = Plan[s[2]]
    BY DEF Inv, SessionKnown, SpdmType
  <1>6. \A s \in sessions' : s[2] = group => ~ok
    <2> SUFFICES ASSUME NEW s \in sessions', s[2] = group, ok PROVE FALSE
      OBVIOUS
    <2>1. s \in sessions /\ s[1] = Endpoint BY <1>4, <1>5 DEF Endpoint
    <2>2. <<Endpoint, group>> \in Target \X {group} BY <1>3
    <2>3. s = <<Endpoint, group>> BY <2>1, <1>5
    <2> QED BY <1>4, <2>2, <2>3
  <1>7. ~ok => outcome'[group] = "stop_failed"
    BY <1>1, <1>2 DEF ControlType
  <1>8. \A b \in heap' : b[1] <= group' BY <1>1 DEF Inv, LeftKnown
  <1>9. \A s \in sessions' : s[2] <= group' BY <1>1, <1>4 DEF Inv, LeftKnown
  <1> QED BY <1>1, <1>6, <1>7, <1>8, <1>9 DEF LeftKnown

\* Port 0 is the endpoint's own, or the search goes on or fails.
LEMMA QueryPortKnown ==
    ASSUME Inv, ContextType, QueryPortIndex
    PROVE  IndexKnown'
  <1>1. PICK max \in 0 .. IndexWrap - 1 : \E own \in 0 .. max + 1 :
          /\ km' = [index |-> 1, max |-> max, own |-> own, found |-> own = 0]
          /\ pc' = "ready" => own = 0
    BY DEF QueryPortIndex, GoTo, SetupFailed
  <1>2. PICK own \in 0 .. max + 1 :
          /\ km' = [index |-> 1, max |-> max, own |-> own, found |-> own = 0]
          /\ pc' = "ready" => own = 0
    BY <1>1
  <1>3. km'.own = own /\ (km'.found <=> own = 0) BY <1>2
  <1>4. context' = [context EXCEPT !.index = 0] BY DEF QueryPortIndex
  <1>5. /\ context'.index = 0
        /\ context'.upSegment = context.upSegment
        /\ context'.lowSegment = context.lowSegment
    BY <1>4 DEF ContextType
  <1>6. pc' \in {"ready", "idle", "index"}
    BY DEF QueryPortIndex, GoTo, SetupFailed
  <1>7. context.upSegment => context.lowSegment
    BY DEF Inv, IndexKnown
  <1> QED BY <1>2, <1>3, <1>5, <1>6, <1>7 DEF IndexKnown, ScanSteps, PortSteps

\* The invariant holds at first.
LEMMA InitInv == Init => Inv
  <1> SUFFICES ASSUME Init PROVE Inv
    OBVIOUS
  <1>1. ControlType
    BY PlanFacts DEF Init, ControlType, Pcs
  <1>2. ContextType
    BY GroupAssumption DEF Init, ContextType, NoContext
  <1>3. PortType
    BY GroupAssumption DEF Init, PortType, FileType, TableType
  <1>4. SpdmType
    BY GroupAssumption DEF Init, SpdmType, NoMeas, NoKm
  <1>5. \A d \in Fds : file[d] = NoFile
    BY DEF Init
  <1>6. FilesKnown
    BY <1>5 DEF Init, FilesKnown, Distinct, NoFile
  <1>7. PortsKnown
    BY DEF Init, PortsKnown, DevSteps, HostSteps, KcbarSteps, PortSteps,
           SpdmSteps, TeardownSteps
  <1>8. TableKnown
    BY <1>5 DEF Init, TableKnown, Matches, NoFile
  <1>9. LeftBehind /\ LeftKnown
    BY <1>5 DEF Init, LeftBehind, LeftKnown
  <1>10. SessionKnown
    BY DEF Init, SessionKnown
  <1>11. MeasKnown
    BY DEF Init, MeasKnown, NoMeas, SetupSteps, ScanSteps, PortSteps,
       SpdmSteps
  <1>12. IndexKnown
    BY DEF Init, IndexKnown, NoKm, NoContext, ScanSteps, PortSteps
  <1> QED
    BY <1>1, <1>2, <1>3, <1>4, <1>6, <1>7, <1>8, <1>9, <1>10, <1>11, <1>12,
       TypeParts DEF Inv

\* An open port has one entry, so their number is one.
LEMMA InvTableTrue == Inv => TableTrue
  <1> SUFFICES ASSUME Inv PROVE TableTrue
    OBVIOUS
  <1>1. Matches(file, table) /\ table \in TableType
    BY InOrder DEF PortsInOrder
  <1>2. ASSUME NEW fd \in Fds, file[fd].kind \in {"dev", "host"},
               TableSize >= 2 * Len(Plan)
        PROVE  Cardinality({i \in 1 .. TableSize : table[i].fd = fd}) = 1
    <2>1. PICK i \in 1 .. TableSize : table[i].fd = fd
      BY <1>1, <1>2 DEF Matches
    <2>2. table[i] # NoEntry
      BY <2>1, PlanFacts DEF NoEntry
    <2>3. {j \in 1 .. TableSize : table[j].fd = fd} = {i}
      BY <2>1, <2>2, <1>1 DEF Matches
    <2> QED BY <2>3, FS_Singleton
  <1>3. \A i \in 1 .. TableSize : table[i] # NoEntry =>
           /\ file[table[i].fd].kind = table[i].kind
           /\ file[table[i].fd].port = table[i].port
    BY <1>1 DEF Matches
  <1> QED BY <1>2, <1>3 DEF TableTrue

\* The file behind m_dev_fp is the group's own endpoint.
LEMMA InvOwnDevice == Inv => OwnDevice
  <1> SUFFICES ASSUME Inv PROVE OwnDevice
    OBVIOUS
  <1>1. \A s \in sessions : s[1] = Plan[s[2]]
    BY DEF Inv, SessionKnown
  <1>2. ASSUME pc \in SpdmSteps \cup {"ready", "stop"}
        PROVE  Target = {Endpoint} /\ m_dev_fp = context.dev /\ doe = answered
    <2>1. /\ group \in Groups
          /\ Holds(context.dev, "dev", Endpoint)
          /\ m_dev_fp = context.dev /\ doe = answered
      BY <1>2 DEF Inv, PortsKnown, DevSteps, SpdmSteps
    <2>2. Endpoint \in Endpoints BY <2>1, PlanFacts DEF Endpoint
    <2>3. /\ m_dev_fp \in Fds /\ file[m_dev_fp].kind = "dev"
          /\ file[m_dev_fp].port = Endpoint
      BY <2>1 DEF Holds
    <2> QED BY <2>1, <2>2, <2>3 DEF Target
  <1> QED BY <1>1, <1>2 DEF OwnDevice

\* What the loops have established when the setup returns.
LEMMA InvSetupSound == Inv => SetupSound
  <1> SUFFICES ASSUME Inv, pc = "ready"
               PROVE  /\ <<Endpoint, group>> \in sessions /\ context.spdm
                      /\ context.index = km.own
                      /\ meas.signed \/ (meas.number = 0 /\ meas.received = 0)
                      /\ meas.received = meas.number
                      /\ context.upSegment => context.lowSegment
    BY DEF SetupSound
  <1>1. <<Endpoint, group>> \in sessions /\ context.spdm
    BY DEF Inv, SessionKnown
  <1>2. context.index = km.own /\ (context.upSegment => context.lowSegment)
    BY DEF Inv, IndexKnown
  <1>3. meas.received = meas.number /\ (meas.signed \/ meas.number = 0)
    BY DEF Inv, MeasKnown
  <1> QED BY <1>1, <1>2, <1>3

-----------------------------------------------------------------------------
(* The steps.                                                              *)

\* Steps that change where the runner is, and at most an outcome.
PcSteps ==
    \/ RunTests
    \/ \E found \in BOOLEAN : ScanBridge(found) \/ ScanEndpoint(found)
    \/ OpenDevNoFile \/ OpenRootFailed \/ InitRootHangs
    \/ ClientRefusesVersion \/ (\E ok \in BOOLEAN : Certificate(ok))
    \/ MeasureFails \/ QueryEnds \/ QueryFails

\* Steps that leave files and globals alone and note something in the
\* context.
ContextSteps ==
    OpenDevNoIde \/ (\E flit \in BOOLEAN : InitDev(flit) \/ InitRoot(flit))

\* Steps of spdm_client_init and spdm_connect.
SpdmConnectSteps ==
    \/ ClientFails \/ ClientInit
    \/ \E ok \in BOOLEAN : StartSession(ok) \/ MeasureAll(ok)
    \/ MeasureNone \/ MeasureNumber \/ MeasureBlock \/ MeasureDone

\* The runner stays at a group of the plan.
LEMMA ControlTypeStep ==
    Inv /\ ControlType /\ ContextType /\ PortType /\ SpdmType /\ [Next]_vars
       => ControlType'
  <1> SUFFICES ASSUME Inv, ControlType, ContextType, PortType, SpdmType,
                      [Next]_vars
               PROVE  ControlType'
    OBVIOUS
  <1> USE DEF Inv, ControlType, Pcs, ScanSteps, PortSteps, SpdmSteps,
     SetupSteps, TeardownSteps
  <1>1. CASE StartGroup
    BY <1>1 DEF StartGroup, files
  <1>2. CASE PcSteps
    BY <1>2 DEF PcSteps, RunTests, GoTo, files, spdm, ScanBridge, SetupFailed,
       ScanEndpoint, Hang, OpenDevNoFile, OpenRootFailed, InitRootHangs,
       ClientRefusesVersion, Certificate, MeasureFails, QueryEnds, QueryFails
  <1>3. CASE ContextSteps
    BY <1>3 DEF ContextSteps, OpenDevNoIde, SetupFailed, files, spdm, InitDev,
       GoTo, InitRoot
  <1>4. CASE OpenDev
    BY <1>4 DEF OpenDev, GoTo, spdm
  <1>5. CASE DoeSilent \/ DoeAnswers
    BY <1>5 DEF DoeSilent, GoTo, spdm, DoeAnswers
  <1>6. CASE NoDoe
    BY <1>6 DEF NoDoe, DevFailed, SetupFailed, spdm
  <1>7. CASE InitDevFailed
    BY <1>7 DEF InitDevFailed, DevFailed, SetupFailed, spdm
  <1>8. CASE OpenRoot
    BY <1>8 DEF OpenRoot, GoTo, spdm
  <1>9. CASE \E opened \in BOOLEAN : KeypFailed(opened)
    BY <1>9 DEF KeypFailed, SetupFailed, spdm
  <1>10. CASE KeypHangs
    BY <1>10 DEF KeypHangs, Hang, GoTo, spdm
  <1>11. CASE Keyp
    BY <1>11 DEF Keyp, GoTo, spdm
  <1>12. CASE InitRootFailed
    BY <1>12 DEF InitRootFailed, SetupFailed, spdm
  <1>13. CASE SpdmConnectSteps
    BY <1>13 DEF SpdmConnectSteps, ClientFails, SetupFailed, files,
       ClientInit, GoTo, Blocks, StartSession, MeasureNone, Connected, spdm,
       MeasureAll, MeasureNumber, MeasureBlock, MeasureDone
  <1>14. CASE QueryPortIndex \/ QueryNextPort
    BY <1>14 DEF QueryPortIndex, GoTo, SetupFailed, files, QueryNextPort
  <1>15. CASE \E ok \in BOOLEAN : StopSession(ok)
    BY <1>15 DEF StopSession, files
  <1>16. CASE close_dev_port
    BY <1>16 DEF close_dev_port, GoTo, spdm
  <1>17. CASE close_root_port
    BY <1>17 DEF close_root_port, GoTo, spdm
  <1>18. CASE UNCHANGED vars
    BY <1>18 DEF vars
  <1> QED
    BY <1>1, <1>2, <1>3, <1>4, <1>5, <1>6, <1>7, <1>8, <1>9, <1>10, <1>11,
       <1>12, <1>13, <1>14, <1>15, <1>16, <1>17, <1>18 DEF Next, Validator,
       OpenPorts, Connect, Teardown, PcSteps, ContextSteps, SpdmConnectSteps

\* The context holds descriptors that exist and an index of its width.
LEMMA ContextTypeStep ==
    Inv /\ ControlType /\ ContextType /\ PortType /\ SpdmType /\ [Next]_vars
       => ContextType'
  <1> SUFFICES ASSUME Inv, ControlType, ContextType, PortType, SpdmType,
                      [Next]_vars
               PROVE  ContextType'
    OBVIOUS
  <1> USE DEF Inv, ContextType
  <1>1. CASE StartGroup
    BY <1>1, GroupAssumption DEF StartGroup, files, NoContext
  <1>2. CASE PcSteps
    BY <1>2 DEF PcSteps, RunTests, GoTo, files, spdm, ScanBridge, SetupFailed,
       ScanEndpoint, Hang, OpenDevNoFile, OpenRootFailed, InitRootHangs,
       ClientRefusesVersion, Certificate, MeasureFails, QueryEnds, QueryFails
  <1>3. CASE ContextSteps
    BY <1>3, NextFdFree DEF ContextSteps, OpenDevNoIde, SetupFailed, files,
       spdm, InitDev, GoTo, InitRoot
  <1>4. CASE OpenDev
    BY <1>4, NextFdFree DEF OpenDev, GoTo, spdm
  <1>5. CASE DoeSilent \/ DoeAnswers
    BY <1>5 DEF DoeSilent, GoTo, spdm, DoeAnswers
  <1>6. CASE NoDoe
    BY <1>6 DEF NoDoe, DevFailed, SetupFailed, spdm
  <1>7. CASE InitDevFailed
    BY <1>7 DEF InitDevFailed, DevFailed, SetupFailed, spdm
  <1>8. CASE OpenRoot
    BY <1>8, NextFdFree DEF OpenRoot, GoTo, spdm
  <1>9. CASE \E opened \in BOOLEAN : KeypFailed(opened)
    BY <1>9 DEF KeypFailed, SetupFailed, spdm
  <1>10. CASE KeypHangs
    BY <1>10 DEF KeypHangs, Hang, GoTo, spdm
  <1>11. CASE Keyp
    BY <1>11, KeypFiles DEF Keyp, GoTo, spdm
  <1>12. CASE InitRootFailed
    BY <1>12 DEF InitRootFailed, SetupFailed, spdm
  <1>13. CASE SpdmConnectSteps
    BY <1>13 DEF SpdmConnectSteps, ClientFails, SetupFailed, files,
       ClientInit, GoTo, Blocks, StartSession, MeasureNone, Connected, spdm,
       MeasureAll, MeasureNumber, MeasureBlock, MeasureDone
  <1>14. CASE QueryPortIndex
    BY <1>14, QueryPortContext
  <1>15. CASE QueryNextPort
    BY <1>15 DEF QueryNextPort, files, SpdmType
  <1>16. CASE \E ok \in BOOLEAN : StopSession(ok)
    BY <1>16 DEF StopSession, files
  <1>17. CASE close_dev_port
    BY <1>17 DEF close_dev_port, GoTo, spdm
  <1>18. CASE close_root_port
    BY <1>18 DEF close_root_port, GoTo, spdm
  <1>19. CASE UNCHANGED vars
    BY <1>19 DEF vars
  <1> QED
    BY <1>1, <1>2, <1>3, <1>4, <1>5, <1>6, <1>7, <1>8, <1>9, <1>10, <1>11,
       <1>12, <1>13, <1>14, <1>15, <1>16, <1>17, <1>18, <1>19 DEF Next,
       Validator, OpenPorts, Connect, Teardown, PcSteps, SpdmConnectSteps,
       ContextSteps

\* Files, table and globals stay well formed.
LEMMA PortTypeStep ==
    Inv /\ ControlType /\ ContextType /\ PortType /\ SpdmType /\ [Next]_vars
       => PortType'
  <1> SUFFICES ASSUME Inv, ControlType, ContextType, PortType, SpdmType,
                      [Next]_vars
               PROVE  PortType'
    OBVIOUS
  <1> USE DEF Inv, PortType
  <1>1. CASE StartGroup
    BY <1>1 DEF StartGroup, files
  <1>2. CASE PcSteps
    BY <1>2 DEF PcSteps, RunTests, GoTo, files, spdm, ScanBridge, SetupFailed,
       ScanEndpoint, Hang, OpenDevNoFile, OpenRootFailed, InitRootHangs,
       ClientRefusesVersion, Certificate, MeasureFails, QueryEnds, QueryFails
  <1>3. CASE ContextSteps
    BY <1>3 DEF ContextSteps, OpenDevNoIde, SetupFailed, files, spdm, InitDev,
       GoTo, InitRoot
  <1>4. CASE OpenDev
    BY <1>4, OpenDevFiles DEF OpenDev, GoTo, spdm, PortsInOrder
  <1>5. CASE DoeSilent \/ DoeAnswers
    BY <1>5 DEF DoeSilent, GoTo, spdm, DoeAnswers, ControlType
  <1>6. CASE NoDoe
    BY <1>6, DevFailedFiles DEF NoDoe, DevFailed, SetupFailed, spdm,
       PortsInOrder
  <1>7. CASE InitDevFailed
    BY <1>7, DevFailedFiles DEF InitDevFailed, DevFailed, SetupFailed, spdm,
       PortsInOrder
  <1>8. CASE OpenRoot
    BY <1>8, OpenRootFiles DEF OpenRoot, GoTo, spdm, PortsInOrder
  <1>9. CASE \E opened \in BOOLEAN : KeypFailed(opened)
    BY <1>9, KeypFailedFiles DEF KeypFailed, SetupFailed, spdm, PortsInOrder
  <1>10. CASE KeypHangs
    BY <1>10, KeypHangsFiles DEF KeypHangs, Hang, GoTo, spdm, PortsInOrder
  <1>11. CASE Keyp
    BY <1>11, KeypFiles DEF Keyp, GoTo, spdm, PortsInOrder
  <1>12. CASE InitRootFailed
    BY <1>12, InitRootFailedFiles DEF InitRootFailed, SetupFailed, spdm,
       PortsInOrder
  <1>13. CASE SpdmConnectSteps
    BY <1>13 DEF SpdmConnectSteps, ClientFails, SetupFailed, files,
       ClientInit, GoTo, Blocks, StartSession, MeasureNone, Connected, spdm,
       MeasureAll, MeasureNumber, MeasureBlock, MeasureDone
  <1>14. CASE QueryPortIndex \/ QueryNextPort
    BY <1>14 DEF QueryPortIndex, GoTo, SetupFailed, files, QueryNextPort
  <1>15. CASE \E ok \in BOOLEAN : StopSession(ok)
    BY <1>15 DEF StopSession, files
  <1>16. CASE close_dev_port
    BY <1>16, CloseDevType
  <1>17. CASE close_root_port
    BY <1>17, CloseRootFiles DEF close_root_port, GoTo, spdm, PortsInOrder
  <1>18. CASE UNCHANGED vars
    BY <1>18 DEF vars
  <1> QED
    BY <1>1, <1>2, <1>3, <1>4, <1>5, <1>6, <1>7, <1>8, <1>9, <1>10, <1>11,
       <1>12, <1>13, <1>14, <1>15, <1>16, <1>17, <1>18 DEF Next, Validator,
       OpenPorts, Connect, Teardown, PcSteps, ContextSteps, SpdmConnectSteps

\* So does what the SPDM connection keeps.
LEMMA SpdmTypeStep ==
    Inv /\ ControlType /\ ContextType /\ PortType /\ SpdmType /\ [Next]_vars
       => SpdmType'
  <1> SUFFICES ASSUME Inv, ControlType, ContextType, PortType, SpdmType,
                      [Next]_vars
               PROVE  SpdmType'
    OBVIOUS
  <1> USE DEF Inv, SpdmType
  <1>1. CASE StartGroup
    BY <1>1, GroupAssumption DEF StartGroup, files, NoMeas, NoKm
  <1>2. CASE PcSteps
    BY <1>2 DEF PcSteps, RunTests, GoTo, files, spdm, ScanBridge, SetupFailed,
       ScanEndpoint, Hang, OpenDevNoFile, OpenRootFailed, InitRootHangs,
       ClientRefusesVersion, Certificate, MeasureFails, QueryEnds, QueryFails
  <1>3. CASE ContextSteps
    BY <1>3 DEF ContextSteps, OpenDevNoIde, SetupFailed, files, spdm, InitDev,
       GoTo, InitRoot
  <1>4. CASE OpenDev
    BY <1>4 DEF OpenDev, GoTo, spdm
  <1>5. CASE DoeSilent \/ DoeAnswers
    BY <1>5 DEF DoeSilent, GoTo, spdm, DoeAnswers
  <1>6. CASE NoDoe
    BY <1>6 DEF NoDoe, DevFailed, SetupFailed, spdm
  <1>7. CASE InitDevFailed
    BY <1>7 DEF InitDevFailed, DevFailed, SetupFailed, spdm
  <1>8. CASE OpenRoot
    BY <1>8 DEF OpenRoot, GoTo, spdm
  <1>9. CASE \E opened \in BOOLEAN : KeypFailed(opened)
    BY <1>9 DEF KeypFailed, SetupFailed, spdm
  <1>10. CASE KeypHangs
    BY <1>10 DEF KeypHangs, Hang, GoTo, spdm
  <1>11. CASE Keyp
    BY <1>11 DEF Keyp, GoTo, spdm
  <1>12. CASE InitRootFailed
    BY <1>12 DEF InitRootFailed, SetupFailed, spdm
  <1>13. CASE ClientFails
    BY <1>13 DEF ClientFails, SetupFailed, files, PortsKnown
  <1>14. CASE ClientInit
    BY <1>14 DEF ClientInit, GoTo, files, Blocks, PortsKnown
  <1>15. CASE \E ok \in BOOLEAN : StartSession(ok)
    BY <1>15 DEF StartSession, GoTo, SetupFailed, files, Target, PortsKnown
  <1>16. CASE MeasureNone
    BY <1>16 DEF MeasureNone, Connected, GoTo, files, spdm
  <1>17. CASE \E ok \in BOOLEAN : MeasureAll(ok)
    BY <1>17 DEF MeasureAll, Connected, GoTo, files
  <1>18. CASE MeasureNumber
    BY <1>18 DEF MeasureNumber, GoTo, files
  <1>19. CASE MeasureBlock
    BY <1>19, MeasureBlockKnown
  <1>20. CASE MeasureDone
    BY <1>20 DEF MeasureDone, Connected, GoTo, SetupFailed, files, spdm
  <1>21. CASE QueryPortIndex
    BY <1>21, GroupAssumption DEF QueryPortIndex, GoTo, SetupFailed, files
  <1>22. CASE QueryNextPort
    BY <1>22, QueryNextType
  <1>23. CASE \E ok \in BOOLEAN : StopSession(ok)
    BY <1>23 DEF StopSession, files
  <1>24. CASE close_dev_port
    BY <1>24 DEF close_dev_port, GoTo, spdm
  <1>25. CASE close_root_port
    BY <1>25 DEF close_root_port, GoTo, spdm
  <1>26. CASE UNCHANGED vars
    BY <1>26 DEF vars
  <1> QED
    BY <1>1, <1>2, <1>3, <1>4, <1>5, <1>6, <1>7, <1>8, <1>9, <1>10, <1>11,
       <1>12, <1>13, <1>14, <1>15, <1>16, <1>17, <1>18, <1>19, <1>20, <1>21,
       <1>22, <1>23, <1>24, <1>25, <1>26 DEF Next, Validator, OpenPorts,
       Connect, Teardown, PcSteps, ContextSteps

\* A group has open, once, what it has opened up to its step.
LEMMA FilesKnownStep ==
    Inv /\ ControlType /\ ContextType /\ PortType /\ SpdmType /\ [Next]_vars
       => FilesKnown'
  <1> SUFFICES ASSUME Inv, ControlType, ContextType, PortType, SpdmType,
                      [Next]_vars
               PROVE  FilesKnown'
    OBVIOUS
  <1> USE DEF Inv, FilesKnown, Held, DevSteps, HostSteps, KcbarSteps,
     PortSteps, SpdmSteps, ScanSteps, TeardownSteps, SetupSteps, Pcs
  <1>1. CASE StartGroup
    BY <1>1, StartGroupFiles
  <1>2. CASE PcSteps
    BY <1>2 DEF PcSteps, RunTests, GoTo, files, spdm, ScanBridge, SetupFailed,
       ScanEndpoint, Hang, OpenDevNoFile, OpenRootFailed, InitRootHangs,
       ClientRefusesVersion, Certificate, MeasureFails, QueryEnds, QueryFails
  <1>3. CASE ContextSteps
    BY <1>3 DEF ContextSteps, OpenDevNoIde, SetupFailed, files, spdm, InitDev,
       GoTo, InitRoot
  <1>4. CASE OpenDev
    BY <1>4, OpenDevKnown
  <1>5. CASE DoeSilent \/ DoeAnswers
    BY <1>5 DEF DoeSilent, GoTo, spdm, DoeAnswers
  <1>6. CASE NoDoe
    BY <1>6, DevFailedFiles DEF NoDoe, DevFailed, SetupFailed, spdm,
       PortsInOrder, NoFile, ControlType
  <1>7. CASE InitDevFailed
    BY <1>7, DevFailedFiles DEF InitDevFailed, DevFailed, SetupFailed, spdm,
       PortsInOrder, NoFile, ControlType
  <1>8. CASE OpenRoot
    BY <1>8, OpenRootKnown
  <1>9. CASE \E opened \in BOOLEAN : KeypFailed(opened)
    BY <1>9, KeypFailedKnown
  <1>10. CASE KeypHangs
    BY <1>10, KeypHangsFiles DEF KeypHangs, Hang, GoTo, spdm, PortsInOrder,
       PortsKnown, Own, Holds
  <1>11. CASE Keyp
    BY <1>11, KeypKnown
  <1>12. CASE InitRootFailed
    BY <1>12, InitRootFailedFiles DEF InitRootFailed, SetupFailed, spdm,
       PortsInOrder, NoFile, ControlType
  <1>13. CASE SpdmConnectSteps
    BY <1>13 DEF SpdmConnectSteps, ClientFails, SetupFailed, files,
       ClientInit, GoTo, Blocks, StartSession, MeasureNone, Connected, spdm,
       MeasureAll, MeasureNumber, MeasureBlock, MeasureDone
  <1>14. CASE QueryPortIndex \/ QueryNextPort
    BY <1>14 DEF QueryPortIndex, GoTo, SetupFailed, files, QueryNextPort
  <1>15. CASE \E ok \in BOOLEAN : StopSession(ok)
    BY <1>15 DEF StopSession, files
  <1>16. CASE close_dev_port
    BY <1>16, CloseDevKnown
  <1>17. CASE close_root_port
    BY <1>17, CloseRootKnown
  <1>18. CASE UNCHANGED vars
    BY <1>18 DEF vars
  <1> QED
    BY <1>1, <1>2, <1>3, <1>4, <1>5, <1>6, <1>7, <1>8, <1>9, <1>10, <1>11,
       <1>12, <1>13, <1>14, <1>15, <1>16, <1>17, <1>18 DEF Next, Validator,
       OpenPorts, Connect, Teardown, PcSteps, ContextSteps, SpdmConnectSteps

\* Context and globals name the group's own files.
LEMMA PortsKnownStep ==
    Inv /\ ControlType /\ ContextType /\ PortType /\ SpdmType /\ [Next]_vars
       => PortsKnown'
  <1> SUFFICES ASSUME Inv, ControlType, ContextType, PortType, SpdmType,
                      [Next]_vars
               PROVE  PortsKnown'
    OBVIOUS
  <1> USE DEF Inv, PortsKnown, Holds, Endpoint, DevSteps, HostSteps,
     KcbarSteps, PortSteps, SpdmSteps, ScanSteps, TeardownSteps, SetupSteps,
     Pcs
  <1>1. CASE StartGroup
    BY <1>1 DEF StartGroup, files, Groups, ControlType
  <1>2. CASE PcSteps
    BY <1>2 DEF PcSteps, RunTests, GoTo, files, spdm, ScanBridge, SetupFailed,
       ScanEndpoint, Hang, OpenDevNoFile, OpenRootFailed, InitRootHangs,
       ClientRefusesVersion, Certificate, MeasureFails, QueryEnds, QueryFails
  <1>3. CASE ContextSteps
    BY <1>3 DEF ContextSteps, OpenDevNoIde, SetupFailed, files, spdm, InitDev,
       GoTo, InitRoot, ContextType
  <1>4. CASE OpenDev
    BY <1>4, OpenDevFiles DEF OpenDev, GoTo, spdm, Own
  <1>5. CASE DoeSilent \/ DoeAnswers
    BY <1>5 DEF DoeSilent, GoTo, spdm, DoeAnswers
  <1>6. CASE NoDoe
    BY <1>6 DEF NoDoe, DevFailed, SetupFailed, spdm
  <1>7. CASE InitDevFailed
    BY <1>7 DEF InitDevFailed, DevFailed, SetupFailed, spdm
  <1>8. CASE OpenRoot
    BY <1>8, OpenRootFiles DEF OpenRoot, GoTo, spdm, Own, NoFile
  <1>9. CASE \E opened \in BOOLEAN : KeypFailed(opened)
    BY <1>9 DEF KeypFailed, SetupFailed, spdm
  <1>10. CASE KeypHangs
    BY <1>10 DEF KeypHangs, Hang, GoTo, spdm
  <1>11. CASE Keyp
    BY <1>11, KeypFiles DEF Keyp, GoTo, spdm, Own, NoFile
  <1>12. CASE InitRootFailed
    BY <1>12 DEF InitRootFailed, SetupFailed, spdm
  <1>13. CASE SpdmConnectSteps
    BY <1>13 DEF SpdmConnectSteps, ClientFails, SetupFailed, files,
       ClientInit, GoTo, Blocks, StartSession, MeasureNone, Connected, spdm,
       MeasureAll, MeasureNumber, MeasureBlock, MeasureDone, ContextType
  <1>14. CASE QueryPortIndex \/ QueryNextPort
    BY <1>14 DEF QueryPortIndex, GoTo, SetupFailed, files, QueryNextPort,
       ContextType
  <1>15. CASE \E ok \in BOOLEAN : StopSession(ok)
    BY <1>15 DEF StopSession, files
  <1>16. CASE close_dev_port
    BY <1>16, CloseDevFiles DEF close_dev_port, GoTo, spdm
  <1>17. CASE close_root_port
    BY <1>17 DEF close_root_port, GoTo, spdm
  <1>18. CASE UNCHANGED vars
    BY <1>18 DEF vars
  <1> QED
    BY <1>1, <1>2, <1>3, <1>4, <1>5, <1>6, <1>7, <1>8, <1>9, <1>10, <1>11,
       <1>12, <1>13, <1>14, <1>15, <1>16, <1>17, <1>18 DEF Next, Validator,
       OpenPorts, Connect, Teardown, PcSteps, ContextSteps, SpdmConnectSteps

\* The device table follows the files.
LEMMA TableKnownStep ==
    Inv /\ ControlType /\ ContextType /\ PortType /\ SpdmType /\ [Next]_vars
       => TableKnown'
  <1> SUFFICES ASSUME Inv, ControlType, ContextType, PortType, SpdmType,
                      [Next]_vars
               PROVE  TableKnown'
    OBVIOUS
  <1> USE DEF Inv, TableKnown, Matches
  <1>1. CASE StartGroup
    BY <1>1 DEF StartGroup, files
  <1>2. CASE PcSteps
    BY <1>2 DEF PcSteps, RunTests, GoTo, files, spdm, ScanBridge, SetupFailed,
       ScanEndpoint, Hang, OpenDevNoFile, OpenRootFailed, InitRootHangs,
       ClientRefusesVersion, Certificate, MeasureFails, QueryEnds, QueryFails
  <1>3. CASE ContextSteps
    BY <1>3 DEF ContextSteps, OpenDevNoIde, SetupFailed, files, spdm, InitDev,
       GoTo, InitRoot
  <1>4. CASE OpenDev
    BY <1>4, OpenDevFiles DEF OpenDev, GoTo, spdm, PortsInOrder
  <1>5. CASE DoeSilent \/ DoeAnswers
    BY <1>5 DEF DoeSilent, GoTo, spdm, DoeAnswers
  <1>6. CASE NoDoe
    BY <1>6, DevFailedFiles DEF NoDoe, DevFailed, SetupFailed, spdm,
       PortsInOrder
  <1>7. CASE InitDevFailed
    BY <1>7, DevFailedFiles DEF InitDevFailed, DevFailed, SetupFailed, spdm,
       PortsInOrder
  <1>8. CASE OpenRoot
    BY <1>8, OpenRootFiles DEF OpenRoot, GoTo, spdm, PortsInOrder
  <1>9. CASE \E opened \in BOOLEAN : KeypFailed(opened)
    BY <1>9, KeypFailedFiles DEF KeypFailed, SetupFailed, spdm, PortsInOrder
  <1>10. CASE KeypHangs
    BY <1>10, KeypHangsFiles DEF KeypHangs, Hang, GoTo, spdm, PortsInOrder
  <1>11. CASE Keyp
    BY <1>11, KeypFiles DEF Keyp, GoTo, spdm, PortsInOrder
  <1>12. CASE InitRootFailed
    BY <1>12, InitRootFailedFiles DEF InitRootFailed, SetupFailed, spdm,
       PortsInOrder
  <1>13. CASE SpdmConnectSteps
    BY <1>13 DEF SpdmConnectSteps, ClientFails, SetupFailed, files,
       ClientInit, GoTo, Blocks, StartSession, MeasureNone, Connected, spdm,
       MeasureAll, MeasureNumber, MeasureBlock, MeasureDone
  <1>14. CASE QueryPortIndex \/ QueryNextPort
    BY <1>14 DEF QueryPortIndex, GoTo, SetupFailed, files, QueryNextPort
  <1>15. CASE \E ok \in BOOLEAN : StopSession(ok)
    BY <1>15 DEF StopSession, files
  <1>16. CASE close_dev_port
    BY <1>16, CloseDevFiles DEF close_dev_port, GoTo, spdm, PortsInOrder
  <1>17. CASE close_root_port
    BY <1>17, CloseRootFiles DEF close_root_port, GoTo, spdm, PortsInOrder
  <1>18. CASE UNCHANGED vars
    BY <1>18 DEF vars
  <1> QED
    BY <1>1, <1>2, <1>3, <1>4, <1>5, <1>6, <1>7, <1>8, <1>9, <1>10, <1>11,
       <1>12, <1>13, <1>14, <1>15, <1>16, <1>17, <1>18 DEF Next, Validator,
       OpenPorts, Connect, Teardown, PcSteps, ContextSteps, SpdmConnectSteps

\* What a group leaves is explained by its outcome.
LEMMA LeftBehindStep ==
    Inv /\ ControlType /\ ContextType /\ PortType /\ SpdmType /\ [Next]_vars
       => LeftBehind'
  <1> SUFFICES ASSUME Inv, ControlType, ContextType, PortType, SpdmType,
                      [Next]_vars
               PROVE  LeftBehind'
    OBVIOUS
  <1> USE DEF Inv, LeftBehind
  <1>1. CASE StartGroup
    BY <1>1, StartGroupLeft
  <1>2. CASE RunTests
    BY <1>2 DEF RunTests, GoTo, files, spdm
  <1>3. CASE \E found \in BOOLEAN : ScanBridge(found)
    BY <1>3, QuietLeft
  <1>4. CASE \E found \in BOOLEAN : ScanEndpoint(found)
    BY <1>4 DEF ScanEndpoint, GoTo, Hang, files, spdm
  <1>5. CASE OpenDevNoFile
    BY <1>5 DEF OpenDevNoFile, SetupFailed, files, spdm, ControlType,
       PortsKnown
  <1>6. CASE OpenDevNoIde
    BY <1>6 DEF OpenDevNoIde, SetupFailed, files, spdm, ControlType,
       PortsKnown
  <1>7. CASE OpenDev
    BY <1>7, OpenDevFiles DEF OpenDev, GoTo, spdm, Own, ControlType
  <1>8. CASE DoeSilent \/ DoeAnswers
    BY <1>8 DEF DoeSilent, GoTo, spdm, DoeAnswers
  <1>9. CASE NoDoe
    BY <1>9, DevFailedFiles DEF NoDoe, DevFailed, SetupFailed, spdm,
       PortsKnown, ControlType
  <1>10. CASE \E flit \in BOOLEAN : InitDev(flit)
    BY <1>10 DEF InitDev, GoTo, files, spdm
  <1>11. CASE InitDevFailed
    BY <1>11, DevFailedFiles DEF InitDevFailed, DevFailed, SetupFailed, spdm,
       PortsKnown, ControlType
  <1>12. CASE OpenRootFailed
    BY <1>12 DEF OpenRootFailed, SetupFailed, files, spdm, ControlType,
       PortsKnown
  <1>13. CASE OpenRoot
    BY <1>13, OpenRootFiles DEF OpenRoot, GoTo, spdm, Own, ControlType
  <1>14. CASE \E opened \in BOOLEAN : KeypFailed(opened)
    BY <1>14, KeypFailedFiles DEF KeypFailed, SetupFailed, spdm, PortsKnown,
       Own, ControlType
  <1>15. CASE KeypHangs
    BY <1>15, KeypHangsFiles DEF KeypHangs, Hang, GoTo, spdm, Own
  <1>16. CASE Keyp
    BY <1>16, KeypLeft
  <1>17. CASE InitRootFailed
    BY <1>17, InitRootFailedFiles DEF InitRootFailed, SetupFailed, spdm,
       PortsKnown, ControlType
  <1>18. CASE InitRootHangs
    BY <1>18 DEF InitRootHangs, Hang, GoTo, files, spdm
  <1>19. CASE \E flit \in BOOLEAN : InitRoot(flit)
    BY <1>19 DEF InitRoot, GoTo, files, spdm
  <1>20. CASE ClientRefusesVersion
    BY <1>20 DEF ClientRefusesVersion, SetupFailed, files, spdm, ControlType,
       PortsKnown
  <1>21. CASE ClientFails
    BY <1>21 DEF ClientFails, SetupFailed, files, ControlType, PortsKnown
  <1>22. CASE ClientInit
    BY <1>22 DEF ClientInit, GoTo, files, Blocks, ControlType
  <1>23. CASE \E ok \in BOOLEAN : Certificate(ok)
    BY <1>23, QuietLeft
  <1>24. CASE \E ok \in BOOLEAN : StartSession(ok)
    BY <1>24, StartSessionLeft
  <1>25. CASE MeasureNone
    BY <1>25 DEF MeasureNone, Connected, GoTo, files, spdm
  <1>26. CASE \E ok \in BOOLEAN : MeasureAll(ok)
    BY <1>26 DEF MeasureAll, Connected, GoTo, files
  <1>27. CASE MeasureNumber
    BY <1>27 DEF MeasureNumber, GoTo, files
  <1>28. CASE MeasureFails
    BY <1>28 DEF MeasureFails, SetupFailed, files, spdm, ControlType,
       PortsKnown
  <1>29. CASE MeasureBlock
    BY <1>29, QuietLeft
  <1>30. CASE MeasureDone
    BY <1>30, QuietLeft
  <1>31. CASE QueryPortIndex
    BY <1>31, QuietLeft
  <1>32. CASE QueryNextPort
    BY <1>32 DEF QueryNextPort, files
  <1>33. CASE QueryEnds
    BY <1>33, QuietLeft
  <1>34. CASE QueryFails
    BY <1>34 DEF QueryFails, SetupFailed, files, spdm, ControlType, PortsKnown
  <1>35. CASE \E ok \in BOOLEAN : StopSession(ok)
    BY <1>35 DEF StopSession, files, ControlType
  <1>36. CASE close_dev_port
    BY <1>36, CloseDevFiles DEF close_dev_port, GoTo, spdm
  <1>37. CASE close_root_port
    BY <1>37, CloseRootLeft
  <1>38. CASE UNCHANGED vars
    BY <1>38 DEF vars
  <1> QED
    BY <1>1, <1>2, <1>3, <1>4, <1>5, <1>6, <1>7, <1>8, <1>9, <1>10, <1>11,
       <1>12, <1>13, <1>14, <1>15, <1>16, <1>17, <1>18, <1>19, <1>20, <1>21,
       <1>22, <1>23, <1>24, <1>25, <1>26, <1>27, <1>28, <1>29, <1>30, <1>31,
       <1>32, <1>33, <1>34, <1>35, <1>36, <1>37, <1>38 DEF Next, Validator,
       OpenPorts, Connect, Teardown

\* A group whose session was stopped has none left, nor a context.
LEMMA LeftKnownStep ==
    Inv /\ ControlType /\ ContextType /\ PortType /\ SpdmType /\ [Next]_vars
       => LeftKnown'
  <1> SUFFICES ASSUME Inv, ControlType, ContextType, PortType, SpdmType,
                      [Next]_vars
               PROVE  LeftKnown'
    OBVIOUS
  <1> USE DEF Inv, LeftKnown
  <1>1. CASE StartGroup
    BY <1>1, StartGroupLeftKnown
  <1>2. CASE PcSteps
    BY <1>2 DEF PcSteps, RunTests, GoTo, files, spdm, ScanBridge, SetupFailed,
       ScanEndpoint, Hang, OpenDevNoFile, OpenRootFailed, InitRootHangs,
       ClientRefusesVersion, Certificate, MeasureFails, QueryEnds, QueryFails
  <1>3. CASE ContextSteps
    BY <1>3 DEF ContextSteps, OpenDevNoIde, SetupFailed, files, spdm, InitDev,
       GoTo, InitRoot
  <1>4. CASE OpenDev
    BY <1>4 DEF OpenDev, GoTo, spdm
  <1>5. CASE DoeSilent \/ DoeAnswers
    BY <1>5 DEF DoeSilent, GoTo, spdm, DoeAnswers
  <1>6. CASE NoDoe
    BY <1>6 DEF NoDoe, DevFailed, SetupFailed, spdm
  <1>7. CASE InitDevFailed
    BY <1>7 DEF InitDevFailed, DevFailed, SetupFailed, spdm
  <1>8. CASE OpenRoot
    BY <1>8 DEF OpenRoot, GoTo, spdm
  <1>9. CASE \E opened \in BOOLEAN : KeypFailed(opened)
    BY <1>9 DEF KeypFailed, SetupFailed, spdm
  <1>10. CASE KeypHangs
    BY <1>10 DEF KeypHangs, Hang, GoTo, spdm
  <1>11. CASE Keyp
    BY <1>11 DEF Keyp, GoTo, spdm
  <1>12. CASE InitRootFailed
    BY <1>12 DEF InitRootFailed, SetupFailed, spdm
  <1>13. CASE SpdmConnectSteps
    BY <1>13 DEF SpdmConnectSteps, ClientFails, SetupFailed, files,
       ClientInit, GoTo, Blocks, StartSession, MeasureNone, Connected, spdm,
       MeasureAll, MeasureNumber, MeasureBlock, MeasureDone, ControlType
  <1>14. CASE QueryPortIndex \/ QueryNextPort
    BY <1>14 DEF QueryPortIndex, GoTo, SetupFailed, files, QueryNextPort
  <1>15. CASE \E ok \in BOOLEAN : StopSession(ok)
    BY <1>15, StopSessionLeftKnown
  <1>16. CASE close_dev_port
    BY <1>16 DEF close_dev_port, GoTo, spdm
  <1>17. CASE close_root_port
    BY <1>17 DEF close_root_port, GoTo, spdm
  <1>18. CASE UNCHANGED vars
    BY <1>18 DEF vars
  <1> QED
    BY <1>1, <1>2, <1>3, <1>4, <1>5, <1>6, <1>7, <1>8, <1>9, <1>10, <1>11,
       <1>12, <1>13, <1>14, <1>15, <1>16, <1>17, <1>18 DEF Next, Validator,
       OpenPorts, Connect, Teardown, PcSteps, ContextSteps, SpdmConnectSteps

\* Sessions are begun in the group's own endpoint.
LEMMA SessionKnownStep ==
    Inv /\ ControlType /\ ContextType /\ PortType /\ SpdmType /\ [Next]_vars
       => SessionKnown'
  <1> SUFFICES ASSUME Inv, ControlType, ContextType, PortType, SpdmType,
                      [Next]_vars
               PROVE  SessionKnown'
    OBVIOUS
  <1> USE DEF Inv, SessionKnown, Endpoint
  <1>1. CASE StartGroup
    BY <1>1 DEF StartGroup, files
  <1>2. CASE PcSteps
    BY <1>2 DEF PcSteps, RunTests, GoTo, files, spdm, ScanBridge, SetupFailed,
       ScanEndpoint, Hang, OpenDevNoFile, OpenRootFailed, InitRootHangs,
       ClientRefusesVersion, Certificate, MeasureFails, QueryEnds, QueryFails
  <1>3. CASE ContextSteps
    BY <1>3 DEF ContextSteps, OpenDevNoIde, SetupFailed, files, spdm, InitDev,
       GoTo, InitRoot
  <1>4. CASE OpenDev
    BY <1>4 DEF OpenDev, GoTo, spdm
  <1>5. CASE DoeSilent \/ DoeAnswers
    BY <1>5 DEF DoeSilent, GoTo, spdm, DoeAnswers
  <1>6. CASE NoDoe
    BY <1>6 DEF NoDoe, DevFailed, SetupFailed, spdm
  <1>7. CASE InitDevFailed
    BY <1>7 DEF InitDevFailed, DevFailed, SetupFailed, spdm
  <1>8. CASE OpenRoot
    BY <1>8 DEF OpenRoot, GoTo, spdm
  <1>9. CASE \E opened \in BOOLEAN : KeypFailed(opened)
    BY <1>9 DEF KeypFailed, SetupFailed, spdm
  <1>10. CASE KeypHangs
    BY <1>10 DEF KeypHangs, Hang, GoTo, spdm
  <1>11. CASE Keyp
    BY <1>11 DEF Keyp, GoTo, spdm
  <1>12. CASE InitRootFailed
    BY <1>12 DEF InitRootFailed, SetupFailed, spdm
  <1>13. CASE ClientFails
    BY <1>13 DEF ClientFails, SetupFailed, files
  <1>14. CASE ClientInit
    BY <1>14 DEF ClientInit, GoTo, files, Blocks
  <1>15. CASE \E ok \in BOOLEAN : StartSession(ok)
    BY <1>15 DEF StartSession, GoTo, SetupFailed, files, Target, PortsKnown,
       Holds, DevSteps, SpdmSteps
  <1>16. CASE MeasureNone
    BY <1>16 DEF MeasureNone, Connected, GoTo, files, spdm
  <1>17. CASE \E ok \in BOOLEAN : MeasureAll(ok)
    BY <1>17 DEF MeasureAll, Connected, GoTo, files, ContextType
  <1>18. CASE MeasureNumber
    BY <1>18 DEF MeasureNumber, GoTo, files
  <1>19. CASE MeasureBlock
    BY <1>19 DEF MeasureBlock, SetupFailed, files
  <1>20. CASE MeasureDone
    BY <1>20 DEF MeasureDone, Connected, GoTo, SetupFailed, files, spdm,
       ContextType
  <1>21. CASE QueryPortIndex \/ QueryNextPort
    BY <1>21 DEF QueryPortIndex, GoTo, SetupFailed, files, QueryNextPort,
       ContextType
  <1>22. CASE \E ok \in BOOLEAN : StopSession(ok)
    BY <1>22 DEF StopSession, files
  <1>23. CASE close_dev_port
    BY <1>23 DEF close_dev_port, GoTo, spdm
  <1>24. CASE close_root_port
    BY <1>24 DEF close_root_port, GoTo, spdm
  <1>25. CASE UNCHANGED vars
    BY <1>25 DEF vars
  <1> QED
    BY <1>1, <1>2, <1>3, <1>4, <1>5, <1>6, <1>7, <1>8, <1>9, <1>10, <1>11,
       <1>12, <1>13, <1>14, <1>15, <1>16, <1>17, <1>18, <1>19, <1>20, <1>21,
       <1>22, <1>23, <1>24, <1>25 DEF Next, Validator, OpenPorts, Connect,
       Teardown, PcSteps, ContextSteps

\* The measurements are complete when the connection is made.
LEMMA MeasKnownStep ==
    Inv /\ ControlType /\ ContextType /\ PortType /\ SpdmType /\ [Next]_vars
       => MeasKnown'
  <1> SUFFICES ASSUME Inv, ControlType, ContextType, PortType, SpdmType,
                      [Next]_vars
               PROVE  MeasKnown'
    OBVIOUS
  <1> USE DEF Inv, MeasKnown, SetupSteps, ScanSteps, PortSteps, SpdmSteps
  <1>1. CASE StartGroup
    BY <1>1 DEF StartGroup, files, NoMeas
  <1>2. CASE PcSteps
    BY <1>2 DEF PcSteps, RunTests, GoTo, files, spdm, ScanBridge, SetupFailed,
       ScanEndpoint, Hang, OpenDevNoFile, OpenRootFailed, InitRootHangs,
       ClientRefusesVersion, Certificate, MeasureFails, QueryEnds, QueryFails
  <1>3. CASE ContextSteps
    BY <1>3 DEF ContextSteps, OpenDevNoIde, SetupFailed, files, spdm, InitDev,
       GoTo, InitRoot
  <1>4. CASE OpenDev
    BY <1>4 DEF OpenDev, GoTo, spdm
  <1>5. CASE DoeSilent \/ DoeAnswers
    BY <1>5 DEF DoeSilent, GoTo, spdm, DoeAnswers
  <1>6. CASE NoDoe
    BY <1>6 DEF NoDoe, DevFailed, SetupFailed, spdm
  <1>7. CASE InitDevFailed
    BY <1>7 DEF InitDevFailed, DevFailed, SetupFailed, spdm
  <1>8. CASE OpenRoot
    BY <1>8 DEF OpenRoot, GoTo, spdm
  <1>9. CASE \E opened \in BOOLEAN : KeypFailed(opened)
    BY <1>9 DEF KeypFailed, SetupFailed, spdm
  <1>10. CASE KeypHangs
    BY <1>10 DEF KeypHangs, Hang, GoTo, spdm
  <1>11. CASE Keyp
    BY <1>11 DEF Keyp, GoTo, spdm
  <1>12. CASE InitRootFailed
    BY <1>12 DEF InitRootFailed, SetupFailed, spdm
  <1>13. CASE ClientFails
    BY <1>13 DEF ClientFails, SetupFailed, files
  <1>14. CASE ClientInit
    BY <1>14 DEF ClientInit, GoTo, files, Blocks
  <1>15. CASE \E ok \in BOOLEAN : StartSession(ok)
    BY <1>15 DEF StartSession, GoTo, SetupFailed, files
  <1>16. CASE MeasureNone
    BY <1>16 DEF MeasureNone, Connected, GoTo, files, spdm, NoMeas
  <1>17. CASE \E ok \in BOOLEAN : MeasureAll(ok)
    BY <1>17 DEF MeasureAll, Connected, GoTo, files, NoMeas
  <1>18. CASE MeasureNumber
    BY <1>18 DEF MeasureNumber, GoTo, files, NoMeas
  <1>19. CASE MeasureBlock
    BY <1>19, MeasureBlockKnown
  <1>20. CASE MeasureDone
    BY <1>20 DEF MeasureDone, Connected, GoTo, SetupFailed, files, spdm
  <1>21. CASE QueryPortIndex \/ QueryNextPort
    BY <1>21 DEF QueryPortIndex, GoTo, SetupFailed, files, QueryNextPort
  <1>22. CASE \E ok \in BOOLEAN : StopSession(ok)
    BY <1>22 DEF StopSession, files
  <1>23. CASE close_dev_port
    BY <1>23 DEF close_dev_port, GoTo, spdm
  <1>24. CASE close_root_port
    BY <1>24 DEF close_root_port, GoTo, spdm
  <1>25. CASE UNCHANGED vars
    BY <1>25 DEF vars
  <1> QED
    BY <1>1, <1>2, <1>3, <1>4, <1>5, <1>6, <1>7, <1>8, <1>9, <1>10, <1>11,
       <1>12, <1>13, <1>14, <1>15, <1>16, <1>17, <1>18, <1>19, <1>20, <1>21,
       <1>22, <1>23, <1>24, <1>25 DEF Next, Validator, OpenPorts, Connect,
       Teardown, PcSteps, ContextSteps

\* The port index is the device's.
LEMMA IndexKnownStep ==
    Inv /\ ControlType /\ ContextType /\ PortType /\ SpdmType /\ [Next]_vars
       => IndexKnown'
  <1> SUFFICES ASSUME Inv, ControlType, ContextType, PortType, SpdmType,
                      [Next]_vars
               PROVE  IndexKnown'
    OBVIOUS
  <1> USE DEF Inv, IndexKnown, ScanSteps, PortSteps, SpdmSteps
  <1>1. CASE StartGroup
    BY <1>1 DEF StartGroup, files, NoContext, NoKm
  <1>2. CASE PcSteps
    BY <1>2 DEF PcSteps, RunTests, GoTo, files, spdm, ScanBridge, SetupFailed,
       ScanEndpoint, Hang, OpenDevNoFile, OpenRootFailed, InitRootHangs,
       ClientRefusesVersion, Certificate, MeasureFails, QueryEnds, QueryFails
  <1>3. CASE ContextSteps
    BY <1>3 DEF ContextSteps, OpenDevNoIde, SetupFailed, files, spdm, InitDev,
       GoTo, InitRoot, ContextType
  <1>4. CASE OpenDev
    BY <1>4 DEF OpenDev, GoTo, spdm
  <1>5. CASE DoeSilent \/ DoeAnswers
    BY <1>5 DEF DoeSilent, GoTo, spdm, DoeAnswers
  <1>6. CASE NoDoe
    BY <1>6 DEF NoDoe, DevFailed, SetupFailed, spdm
  <1>7. CASE InitDevFailed
    BY <1>7 DEF InitDevFailed, DevFailed, SetupFailed, spdm
  <1>8. CASE OpenRoot
    BY <1>8 DEF OpenRoot, GoTo, spdm
  <1>9. CASE \E opened \in BOOLEAN : KeypFailed(opened)
    BY <1>9 DEF KeypFailed, SetupFailed, spdm
  <1>10. CASE KeypHangs
    BY <1>10 DEF KeypHangs, Hang, GoTo, spdm
  <1>11. CASE Keyp
    BY <1>11 DEF Keyp, GoTo, spdm
  <1>12. CASE InitRootFailed
    BY <1>12 DEF InitRootFailed, SetupFailed, spdm
  <1>13. CASE SpdmConnectSteps
    BY <1>13 DEF SpdmConnectSteps, ClientFails, SetupFailed, files,
       ClientInit, GoTo, Blocks, StartSession, MeasureNone, Connected, spdm,
       MeasureAll, MeasureNumber, MeasureBlock, MeasureDone, ContextType
  <1>14. CASE QueryPortIndex
    BY <1>14, QueryPortKnown
  <1>15. CASE QueryNextPort
    BY <1>15 DEF QueryNextPort, files, SpdmType
  <1>16. CASE \E ok \in BOOLEAN : StopSession(ok)
    BY <1>16 DEF StopSession, files
  <1>17. CASE close_dev_port
    BY <1>17 DEF close_dev_port, GoTo, spdm
  <1>18. CASE close_root_port
    BY <1>18 DEF close_root_port, GoTo, spdm
  <1>19. CASE UNCHANGED vars
    BY <1>19 DEF vars
  <1> QED
    BY <1>1, <1>2, <1>3, <1>4, <1>5, <1>6, <1>7, <1>8, <1>9, <1>10, <1>11,
       <1>12, <1>13, <1>14, <1>15, <1>16, <1>17, <1>18, <1>19 DEF Next,
       Validator, OpenPorts, Connect, Teardown, PcSteps, ContextSteps,
       SpdmConnectSteps

-----------------------------------------------------------------------------
(***************************************************************************)
(* The theorems.                                                           *)
(***************************************************************************)
\* The conjunction Inv is preserved by every step.
LEMMA InvStep == Inv /\ [Next]_vars => Inv'
  <1> SUFFICES ASSUME Inv, [Next]_vars PROVE Inv'
    OBVIOUS
  <1>1. ControlType /\ ContextType /\ PortType /\ SpdmType
    BY TypeParts DEF Inv
  <1>2. TypeOK'
    <2>1. TypeOK' <=> ControlType' /\ ContextType' /\ PortType' /\ SpdmType'
      BY TypeParts, PTL
    <2> QED
      BY <1>1, <2>1, ControlTypeStep, ContextTypeStep, PortTypeStep,
         SpdmTypeStep
  <1> QED
    BY <1>1, <1>2, FilesKnownStep, PortsKnownStep, TableKnownStep,
       LeftBehindStep, LeftKnownStep, SessionKnownStep, MeasKnownStep,
       IndexKnownStep
    DEF Inv

\* The conjunction Inv holds in every reachable state.
THEOREM Invariance == Spec => []Inv
  BY InitInv, InvStep, PTL DEF Spec

\* Type correctness: in particular open() never runs out of descriptors, and
\* the port index loop stays within its width (ide_query_port_index).
THEOREM TypeCorrect == Spec => []TypeOK
  <1>1. Inv => TypeOK
    BY DEF Inv
  <1> QED
    BY Invariance, <1>1, PTL

\* The device table names the ports that are open, one entry for each as long
\* as there are two slots for every group (set_deivce_info,
\* unset_device_info).
THEOREM TableTrueCorrect == Spec => []TableTrue
  <1>1. Inv => TableTrue
    BY InvTableTrue
  <1> QED
    BY Invariance, <1>1, PTL

\* Files, SPDM context and session of a group that is over are explained by
\* its outcome (common_test_group_setup, common_test_group_teardown).
THEOREM LeftBehindCorrect == Spec => []LeftBehind
  <1>1. Inv => LeftBehind
    BY DEF Inv
  <1> QED
    BY Invariance, <1>1, PTL

\* DOE traffic goes to the endpoint of the group, through the instance that
\* answered its discovery, whatever earlier groups left in m_dev_fp and
\* g_doe_extended_offset.
THEOREM OwnDeviceCorrect == Spec => []OwnDevice
  <1>1. Inv => OwnDevice
    BY InvOwnDevice
  <1> QED
    BY Invariance, <1>1, PTL

\* A setup that passed has session, port index and a complete, signed set of
\* measurements (spdm_connect, ide_query_port_index).
THEOREM SetupSoundCorrect == Spec => []SetupSound
  <1>1. Inv => SetupSound
    BY InvSetupSound
  <1> QED
    BY Invariance, <1>1, PTL

=============================================================================
