-------------------------- MODULE TestRunnerProofs --------------------------
(***************************************************************************)
(* Invariance proofs for TestRunner, for every suite: any number of groups *)
(* and cases, any cases with a configuration check, any number of          *)
(* assertions.                                                             *)
(***************************************************************************)
EXTENDS TestRunner, TLAPS, FiniteSetTheorems, WellFoundedInduction

\* The type invariant in parts, each with the facts its proof needs.
HardwareType ==
    /\ bits \subseteq Items \ {"default"} /\ caps \subseteq Items
    /\ ctrl \in [Ports -> SUBSET ControlBits]
    /\ link \in [flitDis : BOOLEAN, linkDis : BOOLEAN, flit : BOOLEAN]
PlaceType ==
    /\ pc \in {"group", "case", "support", "enable", "setup", "run", "check",
               "teardown", "disable", "next", "group_teardown", "done"}
    /\ group \in Groups
    /\ <<group, case>> \in CaseIds \/ pc = "group"
    /\ ready \in BOOLEAN
    /\ action \in [CaseIds -> {"RUN", "SKIP"}]
ItemType == item \in Selected
StuckType == stuck \in BOOLEAN
CaseResult == [totals : TotalsType, items : [Items -> [Funcs -> Results]]]
GroupResult == [totals : TotalsType, setup : Results, teardown : Results]
ResultType ==
    /\ DOMAIN results \subseteq CaseIds
    /\ \A k \in DOMAIN results : results[k] \in CaseResult
GroupType == groupRes \in Seq(GroupResult)
ConfigType == configRes \in TotalsType
CurrentType ==
    IF pc \in {"group", "case", "group_teardown", "done"}
      THEN current = None
      ELSE current = <<group, case>> /\ current \in DOMAIN results

LEMMA TypeParts ==
    TypeOK <=> /\ HardwareType /\ PlaceType /\ ItemType /\ ResultType
               /\ GroupType /\ ConfigType /\ CurrentType /\ StuckType
  BY DEF TypeOK, StuckType, HardwareType, PlaceType, ItemType, ResultType, GroupType,
     ConfigType, CurrentType, CaseResult, GroupResult

-----------------------------------------------------------------------------
(* The walk over the configuration items, and the results.                 *)

\* The places of the items; the default item is always the first.
LEMMA ItemFacts ==
    /\ Selected \subseteq 1..4 /\ 1 \in Selected
    /\ ItemOrder[1] = "default" /\ ItemOrder[2] = "pcrc"
    /\ ItemOrder[3] = "cfg_req" /\ ItemOrder[4] = "flit"
    /\ \A n \in Selected : ItemOrder[n] \in Items
    /\ \A n \in 2..4 : n \in Selected <=> ItemOrder[n] \in bits
  BY DEF Selected, ItemOrder, Items

\* No item is both past and at hand, and none is past at the start.
LEMMA PastFacts ==
    ASSUME item \in Selected
    PROVE  /\ \A t : Past(t) => t \in {"default"} \cup bits
           /\ ~Past(ItemOrder[item])
           /\ item = 1 => \A t : ~Past(t)
           /\ item > 1 => Past("default")
  <1>1. item \in 1..4
    BY ItemFacts
  <1> QED
    BY <1>1, ItemFacts DEF Past

\* The item after the last is none, and all those selected are past then.
LEMMA LastFacts ==
    ASSUME TypeOK, LastItem
    PROVE  \A t \in {"default"} \cup bits : Past(t) \/ t = ItemOrder[item]
  <1>1. item \in Selected /\ bits \subseteq Items
    BY DEF TypeOK
  <1>2. \A t \in {"default"} \cup bits : \E n \in Selected : ItemOrder[n] = t
    BY <1>1, ItemFacts DEF Items
  <1> QED
    BY <1>1, <1>2, ItemFacts DEF LastItem, Past

\* The walk goes on with the next of the selected items.
LEMMA NextFacts ==
    ASSUME item \in Selected, ~LastItem
    PROVE  /\ NextItem \in Selected /\ NextItem > item
           /\ \A n \in Selected : n > item => n >= NextItem
  <1> DEFINE S == {n \in Selected : n > item}
  <1>1. S \subseteq 1..4 /\ S # {}
    <2>1. item \in 1..4 /\ Selected \subseteq 1..4
      BY ItemFacts
    <2>2. PICK n \in Selected : ~(n <= item)
      BY DEF LastItem
    <2>3. n \in S
      BY <2>1, <2>2
    <2> QED
      BY <2>1, <2>3
  <1>2. \E x \in S : \A y \in S : x =< y
    <2> HIDE DEF S
    <2>1. CASE 1 \in S
      BY <1>1, <2>1
    <2>2. CASE 2 \in S /\ 1 \notin S
      BY <1>1, <2>2
    <2>3. CASE 3 \in S /\ 2 \notin S /\ 1 \notin S
      BY <1>1, <2>3
    <2>4. CASE 3 \notin S /\ 2 \notin S /\ 1 \notin S
      <3>1. \A y \in S : y = 4
        BY <1>1, <2>4
      <3>2. PICK x \in S : TRUE
        BY <1>1
      <3> QED
        BY <3>1, <3>2
    <2> QED
      BY <1>1, <2>1, <2>2, <2>3, <2>4
  <1>3. NextItem \in S /\ \A y \in S : NextItem =< y
    BY <1>2 DEF NextItem, Min
  <1> QED
    BY <1>1, <1>3, ItemFacts

\* One step of a walk: to the item after it, or on to what follows the walk.
LEMMA Advances ==
    ASSUME TypeOK, NEW list, NEW after, Advance(list, after), bits' = bits
    PROVE  /\ item' \in Selected'
           /\ \/ /\ pc' = after /\ item' = 1
                 /\ \A t \in {"default"} \cup bits :
                       Past(t) \/ t = ItemOrder[item]
              \/ /\ pc' = list /\ item' > 1
                 /\ \A t : Past(t)' <=> Past(t) \/ t = ItemOrder[item]
  <1>1. item \in Selected /\ Selected' = Selected /\ Selected \subseteq 1..4
    BY ItemFacts DEF TypeOK, Selected
  <1>2. CASE LastItem
    BY <1>1, <1>2, LastFacts, ItemFacts DEF Advance
  <1>3. CASE ~LastItem
    <2>1. /\ pc' = list /\ item' \in Selected /\ item' > item
          /\ \A n \in Selected : n > item => n >= item'
      BY <1>1, <1>3, NextFacts DEF Advance
    <2>2. \A n \in Selected : n < item' <=> n < item \/ n = item
      BY <1>1, <2>1
    <2>3. \A t : Past(t)' <=>
             \E n \in Selected : n < item' /\ ItemOrder[n] = t
      BY <1>1 DEF Past
    <2>4. \A t : Past(t)' <=> Past(t) \/ t = ItemOrder[item]
      BY <1>1, <2>2, <2>3 DEF Past
    <2> QED
      BY <1>1, <2>1, <2>4
  <1> QED
    BY <1>2, <1>3

\* The cases of the suite.
LEMMA CaseIdFacts ==
    \A g, c : <<g, c>> \in CaseIds <=> g \in Groups /\ c \in 1..CaseCount[g]
  BY DEF CaseIds

\* There is a group, and none is empty.
LEMMA CountFacts ==
    /\ Len(CaseCount) \in Nat \ {0}
    /\ \A g \in Groups : CaseCount[g] \in Nat \ {0}
  BY RunnerAssumption DEF Groups

\* A case is known by its group and its place.
LEMMA IdFields == \A k \in CaseIds : k = <<k[1], k[2]>> /\ k[1] \in Groups
  BY DEF CaseIds

\* Recording the result of an item's function changes that entry only.
LEMMA ItemRecorded ==
    ASSUME TypeOK, current \in DOMAIN results, NEW t \in Items,
           NEW f \in Funcs, NEW r \in Results, RecordItem(t, f, r)
    PROVE  /\ DOMAIN results' = DOMAIN results
           /\ \A k \in DOMAIN results :
                 /\ results'[k] \in CaseResult
                 /\ results'[k].totals = results[k].totals
                 /\ k # current => results'[k] = results[k]
           /\ \A u \in Items, h \in Funcs :
                 results'[current].items[u][h] =
                     IF u = t /\ h = f THEN r
                     ELSE results[current].items[u][h]
  <1>1. \A k \in DOMAIN results : results[k] \in CaseResult
    BY DEF TypeOK, CaseResult
  <1>2. results' = [results EXCEPT ![current].items[t][f] = r]
    BY DEF RecordItem
  <1>3. /\ DOMAIN results' = DOMAIN results
        /\ \A k \in DOMAIN results : k # current => results'[k] = results[k]
    BY <1>2
  <1> DEFINE I == results[current].items
             J == [I EXCEPT ![t] = [I[t] EXCEPT ![f] = r]]
  <1>4. results'[current] = [results[current] EXCEPT !.items = J]
    BY <1>2
  <1>5. /\ I \in [Items -> [Funcs -> Results]]
        /\ J \in [Items -> [Funcs -> Results]]
    BY <1>1 DEF CaseResult
  <1>6. /\ results'[current].totals = results[current].totals
        /\ results'[current].items = J
        /\ results'[current] \in CaseResult
    BY <1>1, <1>4, <1>5 DEF CaseResult
  <1>7. \A u \in Items, h \in Funcs :
           J[u][h] = IF u = t /\ h = f THEN r ELSE I[u][h]
    BY <1>5
  <1> HIDE DEF J
  <1> QED
    BY <1>1, <1>3, <1>6, <1>7

\* Assertions enter the totals of the case, of its group and of the suite.
LEMMA AssertionsRecorded ==
    ASSUME TypeOK, GroupsKnown, current \in DOMAIN results, pc = "run",
           NEW p \in Nat, NEW n \in Nat, RecordAssertions(p, n)
    PROVE  /\ DOMAIN results' = DOMAIN results
           /\ \A k \in DOMAIN results :
                 /\ results'[k] \in CaseResult
                 /\ results'[k].items = results[k].items
                 /\ k # current => results'[k] = results[k]
           /\ groupRes' \in Seq(GroupResult) /\ Len(groupRes') = Len(groupRes)
           /\ \A g \in 1..Len(groupRes) :
                 groupRes'[g].setup = groupRes[g].setup
           /\ configRes' \in TotalsType
  <1>1. /\ \A k \in DOMAIN results : results[k] \in CaseResult
        /\ groupRes \in Seq(GroupResult) /\ configRes \in TotalsType
        /\ group \in 1..Len(groupRes)
    BY CountFacts DEF TypeOK, CaseResult, GroupResult, GroupsKnown, Groups
  <1>2. \A totals \in TotalsType : Bump(totals, p, n) \in TotalsType
    BY DEF Bump, TotalsType
  <1> DEFINE own == [results[current] EXCEPT !.totals =
                        Bump(results[current].totals, p, n)]
             sum == [groupRes[group] EXCEPT !.totals =
                        Bump(groupRes[group].totals, p, n)]
  <1>3. results' = [results EXCEPT ![current] = own]
    BY DEF RecordAssertions
  <1>4. own \in CaseResult /\ own.items = results[current].items
    <2>1. results[current] \in CaseResult
      BY <1>1
    <2>2. Bump(results[current].totals, p, n) \in TotalsType
      BY <1>2, <2>1 DEF CaseResult
    <2> QED
      BY <2>1, <2>2 DEF CaseResult
  <1>5. groupRes' = [groupRes EXCEPT ![group] = sum]
    BY DEF RecordAssertions
  <1>6. sum \in GroupResult /\ sum.setup = groupRes[group].setup
    <2>1. groupRes[group] \in GroupResult
      BY <1>1
    <2>2. Bump(groupRes[group].totals, p, n) \in TotalsType
      BY <1>2, <2>1 DEF GroupResult
    <2> QED
      BY <2>1, <2>2 DEF GroupResult
  <1> HIDE DEF own, sum
  <1>7. /\ DOMAIN results' = DOMAIN results
        /\ \A k \in DOMAIN results :
              /\ results'[k] \in CaseResult
              /\ results'[k].items = results[k].items
              /\ k # current => results'[k] = results[k]
    BY <1>1, <1>3, <1>4
  <1>8. /\ groupRes' \in Seq(GroupResult) /\ Len(groupRes') = Len(groupRes)
        /\ \A g \in 1..Len(groupRes) : groupRes'[g].setup = groupRes[g].setup
    BY <1>1, <1>5, <1>6
  <1>9. configRes' \in TotalsType
    BY <1>1, <1>2 DEF RecordAssertions
  <1> QED
    BY <1>7, <1>8, <1>9

LEMMA InitInv == Init => Inv
  <1> SUFFICES ASSUME Init PROVE Inv
    OBVIOUS
  <1> USE DEF Init, None
  <1>1. HardwareType
    <2>1. PICK f \in BOOLEAN :
             link = [flitDis |-> FALSE, linkDis |-> FALSE, flit |-> f]
      OBVIOUS
    <2>2. link \in [flitDis : BOOLEAN, linkDis : BOOLEAN, flit : BOOLEAN]
      BY <2>1
    <2> QED
      BY <2>2 DEF HardwareType
  <1>2. PlaceType
    <2>1. group \in Groups
      BY CountFacts DEF Groups
    <2>2. action \in [CaseIds -> {"RUN", "SKIP"}]
      OBVIOUS
    <2> QED
      BY <2>1, <2>2 DEF PlaceType
  <1>3. ItemType
    BY ItemFacts DEF ItemType
  <1>7. StuckType
    BY DEF StuckType
  <1>4. ResultType /\ ConfigType /\ CurrentType
    BY DEF ResultType, ConfigType, CurrentType, NoTotals, TotalsType
  <1>5. GroupType
    BY DEF GroupType
  <1>6. Control /\ GroupsKnown /\ Registers /\ Recorded /\ Earned
    BY DEF Control, GroupsKnown, Registers, Recorded, Earned
  <1> QED
    BY <1>1, <1>2, <1>3, <1>4, <1>5, <1>6, <1>7, TypeParts DEF Inv

-----------------------------------------------------------------------------
(* The steps.                                                              *)

\* Switching the flit mode leaves the upper port's control bits alone and
\* may clear the lower port's.
LEMMA FlitSwitched ==
    ASSUME TypeOK, NEW dis \in BOOLEAN, NEW ret \in BOOLEAN,
           FlitSwitch(dis, ret)
    PROVE  /\ ctrl' \in [Ports -> SUBSET ControlBits]
           /\ link' \in [flitDis : BOOLEAN, linkDis : BOOLEAN, flit : BOOLEAN]
           /\ ctrl'["upper"] = ctrl["upper"]
           /\ ctrl'["lower"] \in {ctrl["lower"], {}}
           /\ ret => /\ ctrl'["lower"] = {}
                     /\ link'.flit = ~dis /\ link'.linkDis = FALSE
  <1>1. /\ ctrl \in [Ports -> SUBSET ControlBits]
        /\ Ports = {"upper", "lower"}
        /\ link \in [flitDis : BOOLEAN, linkDis : BOOLEAN, flit : BOOLEAN]
    BY DEF TypeOK, Ports
  <1>2. [ctrl EXCEPT !["lower"] = {}] \in [Ports -> SUBSET ControlBits]
    BY <1>1
  <1>3. /\ ctrl' \in {ctrl, [ctrl EXCEPT !["lower"] = {}]}
        /\ ret => ctrl' = [ctrl EXCEPT !["lower"] = {}]
    BY DEF FlitSwitch, hardware
  <1>4. ret => link' = [flitDis |-> dis, linkDis |-> FALSE, flit |-> ~dis]
    BY DEF FlitSwitch
  <1>5. (~dis) \in BOOLEAN /\ link.flit \in BOOLEAN
    <2>1. (~dis) \in BOOLEAN
      BY Zenon
    <2>2. link.flit \in BOOLEAN
      BY <1>1
    <2> QED
      BY <2>1, <2>2
  <1>6. link' \in [flitDis : BOOLEAN, linkDis : BOOLEAN, flit : BOOLEAN]
    <2>1. CASE UNCHANGED link
      BY <1>1, <2>1
    <2>2. CASE link' = [link EXCEPT !.flitDis = dis]
      BY <1>1, <2>2
    <2>3. CASE \E down \in BOOLEAN : \E f \in {link.flit, ~dis} :
                  link' = [flitDis |-> dis, linkDis |-> down, flit |-> f]
      <3>1. PICK down \in BOOLEAN, f \in BOOLEAN :
               link' = [flitDis |-> dis, linkDis |-> down, flit |-> f]
        BY <1>5, <2>3
      <3> QED
        BY <3>1
    <2>4. CASE link' = [link EXCEPT !.flitDis = dis, !.linkDis = FALSE]
      BY <1>1, <2>4
    <2>5. CASE ret
      <3>1. PICK f \in BOOLEAN :
               link' = [flitDis |-> dis, linkDis |-> FALSE, flit |-> f]
        BY <1>4, <1>5, <2>5, Zenon
      <3> QED
        BY <3>1
    <2>6. UNCHANGED hardware => UNCHANGED link
      BY DEF hardware
    <2> QED
      BY <2>1, <2>2, <2>3, <2>4, <2>5, <2>6, Zenon DEF FlitSwitch
  <1> QED
    BY <1>1, <1>2, <1>3, <1>4, <1>6

\* The registers keep to the bits the items have.
LEMMA HardwareTypeStep == Inv /\ [Next]_vars => HardwareType'
  <1> SUFFICES ASSUME Inv, [Next]_vars PROVE HardwareType'
    OBVIOUS
  <1> USE RunnerAssumption DEF Inv, TypeOK, HardwareType, hardware, report
  <1>1. CASE GroupSetup
    BY <1>1 DEF GroupSetup
  <1>2. CASE StartCase
    BY <1>2 DEF StartCase
  <1>3. CASE NextCase
    BY <1>3 DEF NextCase
  <1>4. CASE GroupTeardown
    BY <1>4 DEF GroupTeardown
  <1>5. CASE Support
    BY <1>5 DEF Support, Return
  <1>6. CASE EnableDefault
    BY <1>6 DEF EnableDefault, Return, ResetControls
  <1>7. CASE EnableControl
    BY <1>7 DEF EnableControl, WriteControl
  <1>8. CASE EnableFlit
    BY <1>8, FlitSwitched DEF EnableFlit
  <1>9. CASE CaseSetup
    BY <1>9 DEF CaseSetup
  <1>10. CASE CaseRun
    BY <1>10 DEF CaseRun
  <1>11. CASE Check
    BY <1>11 DEF Check
  <1>12. CASE CaseTeardown
    BY <1>12 DEF CaseTeardown
  <1>13. CASE DisableDefault
    BY <1>13 DEF DisableDefault
  <1>14. CASE DisableControl
    BY <1>14 DEF DisableControl, WriteControl
  <1>15. CASE DisableFlit
    BY <1>15, FlitSwitched DEF DisableFlit
  <1>16. CASE UNCHANGED walk
    BY <1>16 DEF walk
  <1> QED
    BY <1>1, <1>2, <1>3, <1>4, <1>5, <1>6, <1>7, <1>8, <1>9, <1>10, <1>11,
       <1>12, <1>13, <1>14, <1>15, <1>16
    DEF Next, Step, CallbackHangs, vars

\* A group starts with its first case.
LEMMA GroupSetupPlace ==
    ASSUME Inv, GroupSetup
    PROVE  PlaceType'
  <1>1. group \in Groups /\ 1 \in 1..CaseCount[group]
    BY CountFacts DEF Inv, TypeOK, GroupSetup
  <1>2. <<group, 1>> \in CaseIds
    BY <1>1, CaseIdFacts
  <1> QED
    BY <1>1, <1>2 DEF Inv, TypeOK, GroupSetup, PlaceType

\* The walk over the cases stays inside the group.
LEMMA NextCasePlace ==
    ASSUME Inv, NextCase
    PROVE  PlaceType'
  <1>1. /\ group \in Groups /\ case \in 1..CaseCount[group]
        /\ CaseCount[group] \in Nat
    BY CaseIdFacts, CountFacts DEF Inv, TypeOK, NextCase
  <1>2. case' \in 1..CaseCount[group]
    BY <1>1 DEF NextCase
  <1> QED
    BY <1>1, <1>2, CaseIdFacts DEF Inv, TypeOK, NextCase, PlaceType

\* The runner stays at a case of the suite.
LEMMA PlaceTypeStep == Inv /\ [Next]_vars => PlaceType'
  <1> SUFFICES ASSUME Inv, [Next]_vars PROVE PlaceType'
    OBVIOUS
  <1> USE RunnerAssumption DEF Inv, TypeOK, PlaceType, hardware, report
  <1>1. CASE GroupSetup
    BY <1>1, GroupSetupPlace
  <1>2. CASE StartCase
    BY <1>2 DEF StartCase
  <1>3. CASE NextCase
    BY <1>3, NextCasePlace
  <1>4. CASE GroupTeardown
    BY <1>4, CaseIdFacts DEF GroupTeardown, Groups
  <1>5. CASE Support
    BY <1>5 DEF Support, Return, Advance
  <1>6. CASE EnableDefault
    BY <1>6 DEF EnableDefault, Return, Advance
  <1>7. CASE EnableControl
    BY <1>7 DEF EnableControl, Advance
  <1>8. CASE EnableFlit
    BY <1>8 DEF EnableFlit, Return, Advance
  <1>9. CASE CaseSetup
    BY <1>9 DEF CaseSetup
  <1>10. CASE CaseRun
    BY <1>10 DEF CaseRun
  <1>11. CASE Check
    BY <1>11 DEF Check, Advance
  <1>12. CASE CaseTeardown
    BY <1>12 DEF CaseTeardown
  <1>13. CASE DisableDefault
    BY <1>13 DEF DisableDefault, Advance
  <1>14. CASE DisableControl
    BY <1>14 DEF DisableControl, Advance
  <1>15. CASE DisableFlit
    BY <1>15 DEF DisableFlit, Return
  <1>16. CASE UNCHANGED walk
    BY <1>16 DEF walk
  <1> QED
    BY <1>1, <1>2, <1>3, <1>4, <1>5, <1>6, <1>7, <1>8, <1>9, <1>10, <1>11,
       <1>12, <1>13, <1>14, <1>15, <1>16
    DEF Next, Step, CallbackHangs, vars

\* The walk stays at a selected item.
LEMMA ItemTypeStep == Inv /\ [Next]_vars => ItemType'
  <1> SUFFICES ASSUME Inv, [Next]_vars PROVE ItemType'
    OBVIOUS
  <1> USE RunnerAssumption DEF Inv, TypeOK, ItemType, hardware, report,
     Selected
  <1>1. CASE GroupSetup
    BY <1>1 DEF GroupSetup
  <1>2. CASE StartCase
    BY <1>2 DEF StartCase
  <1>3. CASE NextCase
    BY <1>3 DEF NextCase
  <1>4. CASE GroupTeardown
    BY <1>4 DEF GroupTeardown
  <1>5. CASE Support
    BY <1>5, Advances, ItemFacts DEF Support, Return
  <1>6. CASE EnableDefault
    BY <1>6, Advances, ItemFacts DEF EnableDefault, Return
  <1>7. CASE EnableControl
    BY <1>7, Advances DEF EnableControl
  <1>8. CASE EnableFlit
    BY <1>8, Advances, ItemFacts DEF EnableFlit, Return
  <1>9. CASE CaseSetup
    BY <1>9 DEF CaseSetup
  <1>10. CASE CaseRun
    BY <1>10 DEF CaseRun
  <1>11. CASE Check
    BY <1>11, Advances, ItemFacts DEF Check
  <1>12. CASE CaseTeardown
    BY <1>12 DEF CaseTeardown
  <1>13. CASE DisableDefault
    BY <1>13, Advances DEF DisableDefault
  <1>14. CASE DisableControl
    BY <1>14, Advances DEF DisableControl
  <1>15. CASE DisableFlit
    BY <1>15, ItemFacts DEF DisableFlit, Return
  <1>16. CASE UNCHANGED walk
    BY <1>16 DEF walk
  <1> QED
    BY <1>1, <1>2, <1>3, <1>4, <1>5, <1>6, <1>7, <1>8, <1>9, <1>10, <1>11,
       <1>12, <1>13, <1>14, <1>15, <1>16
    DEF Next, Step, CallbackHangs, vars

\* There are results for cases of the suite only.
LEMMA ResultTypeStep == Inv /\ [Next]_vars => ResultType'
  <1> SUFFICES ASSUME Inv, [Next]_vars PROVE ResultType'
    OBVIOUS
  <1> USE RunnerAssumption DEF Inv, TypeOK, ResultType, hardware, report,
     CaseResult
  <1>1. CASE GroupSetup
    BY <1>1 DEF GroupSetup
  <1>2. CASE StartCase
    BY <1>2 DEF StartCase, EmptyResult, NoItems, NoTotals, TotalsType, Results
  <1>3. CASE NextCase
    BY <1>3 DEF NextCase
  <1>4. CASE GroupTeardown
    BY <1>4 DEF GroupTeardown
  <1>5. CASE Support
    BY <1>5, ItemRecorded, ItemFacts DEF Support, Return, Funcs, Results,
       AsResult
  <1>6. CASE EnableDefault
    BY <1>6, ItemRecorded, ItemFacts DEF EnableDefault, Return, Funcs,
       Results, AsResult
  <1>7. CASE EnableControl
    BY <1>7, ItemRecorded, ItemFacts DEF EnableControl, Funcs, Results
  <1>8. CASE EnableFlit
    BY <1>8 DEF EnableFlit, Return
  <1>9. CASE CaseSetup
    BY <1>9 DEF CaseSetup
  <1>10. CASE CaseRun
    BY <1>10, AssertionsRecorded DEF CaseRun
  <1>11. CASE Check
    BY <1>11, ItemRecorded, ItemFacts DEF Check, Funcs, Results, AsResult
  <1>12. CASE CaseTeardown
    BY <1>12 DEF CaseTeardown
  <1>13. CASE DisableDefault
    BY <1>13 DEF DisableDefault
  <1>14. CASE DisableControl
    BY <1>14, ItemRecorded, ItemFacts DEF DisableControl, Funcs, Results
  <1>15. CASE DisableFlit
    BY <1>15 DEF DisableFlit, Return
  <1>16. CASE UNCHANGED walk
    BY <1>16 DEF walk
  <1> QED
    BY <1>1, <1>2, <1>3, <1>4, <1>5, <1>6, <1>7, <1>8, <1>9, <1>10, <1>11,
       <1>12, <1>13, <1>14, <1>15, <1>16
    DEF Next, Step, CallbackHangs, vars

\* The setup adds a result for its group.
LEMMA GroupSetupRecorded ==
    ASSUME Inv, GroupSetup
    PROVE  GroupType'
  <1>1. groupRes \in Seq(GroupResult)
    BY DEF Inv, TypeOK, GroupResult
  <1>2. PICK ok \in BOOLEAN :
           groupRes' = Append(groupRes,
                              [EmptyGroup EXCEPT !.setup = AsResult(ok)])
    BY DEF GroupSetup
  <1>3. [EmptyGroup EXCEPT !.setup = AsResult(ok)] \in GroupResult
    BY DEF EmptyGroup, GroupResult, AsResult, NoTotals, TotalsType, Results
  <1> HIDE DEF GroupType
  <1>4. groupRes' \in Seq(GroupResult)
    BY <1>1, <1>2, <1>3
  <1> QED
    BY <1>4 DEF GroupType

\* The teardown is recorded in the result of its group.
LEMMA GroupTeardownRecorded ==
    ASSUME Inv, GroupTeardown
    PROVE  GroupType'
  <1>1. groupRes \in Seq(GroupResult) /\ group \in 1..Len(groupRes)
    BY CountFacts DEF Inv, TypeOK, GroupResult, GroupsKnown, GroupTeardown,
       Groups
  <1> DEFINE torn == [groupRes[group] EXCEPT !.teardown = "PASS"]
  <1>2. groupRes' \in {groupRes, [groupRes EXCEPT ![group] = torn]}
    BY DEF GroupTeardown
  <1>3. torn \in GroupResult
    <2>1. groupRes[group] \in GroupResult
      BY <1>1
    <2> QED
      BY <2>1 DEF GroupResult, Results
  <1> HIDE DEF torn
  <1> QED
    BY <1>1, <1>2, <1>3 DEF GroupType

\* Group results stay well formed.
LEMMA GroupTypeStep == Inv /\ [Next]_vars => GroupType'
  <1> SUFFICES ASSUME Inv, [Next]_vars PROVE GroupType'
    OBVIOUS
  <1> USE RunnerAssumption DEF Inv, TypeOK, GroupType, hardware, report,
     GroupResult
  <1>1. CASE GroupSetup
    BY <1>1, GroupSetupRecorded
  <1>2. CASE StartCase
    BY <1>2 DEF StartCase
  <1>3. CASE NextCase
    BY <1>3 DEF NextCase
  <1>4. CASE GroupTeardown
    BY <1>4, GroupTeardownRecorded
  <1>5. CASE Support
    BY <1>5 DEF Support, Return
  <1>6. CASE EnableDefault
    BY <1>6 DEF EnableDefault, Return
  <1>7. CASE EnableControl
    BY <1>7 DEF EnableControl
  <1>8. CASE EnableFlit
    BY <1>8 DEF EnableFlit, Return
  <1>9. CASE CaseSetup
    BY <1>9 DEF CaseSetup
  <1>10. CASE CaseRun
    BY <1>10, AssertionsRecorded DEF CaseRun
  <1>11. CASE Check
    BY <1>11 DEF Check
  <1>12. CASE CaseTeardown
    BY <1>12 DEF CaseTeardown
  <1>13. CASE DisableDefault
    BY <1>13 DEF DisableDefault
  <1>14. CASE DisableControl
    BY <1>14 DEF DisableControl
  <1>15. CASE DisableFlit
    BY <1>15 DEF DisableFlit, Return
  <1>16. CASE UNCHANGED walk
    BY <1>16 DEF walk
  <1> QED
    BY <1>1, <1>2, <1>3, <1>4, <1>5, <1>6, <1>7, <1>8, <1>9, <1>10, <1>11,
       <1>12, <1>13, <1>14, <1>15, <1>16
    DEF Next, Step, CallbackHangs, vars

\* So do the totals of the configuration.
LEMMA ConfigTypeStep == Inv /\ [Next]_vars => ConfigType'
  <1> SUFFICES ASSUME Inv, [Next]_vars PROVE ConfigType'
    OBVIOUS
  <1> USE RunnerAssumption DEF Inv, TypeOK, ConfigType, hardware, report
  <1>1. CASE GroupSetup
    BY <1>1 DEF GroupSetup
  <1>2. CASE StartCase
    BY <1>2 DEF StartCase
  <1>3. CASE NextCase
    BY <1>3 DEF NextCase
  <1>4. CASE GroupTeardown
    BY <1>4 DEF GroupTeardown
  <1>5. CASE Support
    BY <1>5 DEF Support, Return
  <1>6. CASE EnableDefault
    BY <1>6 DEF EnableDefault, Return
  <1>7. CASE EnableControl
    BY <1>7 DEF EnableControl
  <1>8. CASE EnableFlit
    BY <1>8 DEF EnableFlit, Return
  <1>9. CASE CaseSetup
    BY <1>9 DEF CaseSetup
  <1>10. CASE CaseRun
    BY <1>10, AssertionsRecorded DEF CaseRun
  <1>11. CASE Check
    BY <1>11 DEF Check
  <1>12. CASE CaseTeardown
    BY <1>12 DEF CaseTeardown
  <1>13. CASE DisableDefault
    BY <1>13 DEF DisableDefault
  <1>14. CASE DisableControl
    BY <1>14 DEF DisableControl
  <1>15. CASE DisableFlit
    BY <1>15 DEF DisableFlit, Return
  <1>16. CASE UNCHANGED walk
    BY <1>16 DEF walk
  <1> QED
    BY <1>1, <1>2, <1>3, <1>4, <1>5, <1>6, <1>7, <1>8, <1>9, <1>10, <1>11,
       <1>12, <1>13, <1>14, <1>15, <1>16
    DEF Next, Step, CallbackHangs, vars

\* g_current_case_result points at the running case.
LEMMA StuckTypeStep == StuckType /\ [Next]_vars => StuckType'
  BY DEF StuckType, Next, CallbackHangs, vars

LEMMA CurrentTypeStep == Inv /\ [Next]_vars => CurrentType'
  <1> SUFFICES ASSUME Inv, [Next]_vars PROVE CurrentType'
    OBVIOUS
  <1> USE RunnerAssumption DEF Inv, TypeOK, CurrentType, hardware, report,
     None
  <1>1. CASE GroupSetup
    BY <1>1 DEF GroupSetup
  <1>2. CASE StartCase
    BY <1>2 DEF StartCase
  <1>3. CASE NextCase
    BY <1>3 DEF NextCase
  <1>4. CASE GroupTeardown
    BY <1>4 DEF GroupTeardown
  <1>5. CASE Support
    BY <1>5 DEF Support, Return, RecordItem, Advance
  <1>6. CASE EnableDefault
    BY <1>6 DEF EnableDefault, Return, RecordItem, Advance
  <1>7. CASE EnableControl
    BY <1>7 DEF EnableControl, RecordItem, Advance
  <1>8. CASE EnableFlit
    BY <1>8 DEF EnableFlit, Return, Advance
  <1>9. CASE CaseSetup
    BY <1>9 DEF CaseSetup
  <1>10. CASE CaseRun
    BY <1>10, AssertionsRecorded DEF CaseRun
  <1>11. CASE Check
    BY <1>11 DEF Check, RecordItem, Advance
  <1>12. CASE CaseTeardown
    BY <1>12 DEF CaseTeardown
  <1>13. CASE DisableDefault
    BY <1>13 DEF DisableDefault, Advance
  <1>14. CASE DisableControl
    BY <1>14 DEF DisableControl, RecordItem, Advance
  <1>15. CASE DisableFlit
    BY <1>15 DEF DisableFlit, Return
  <1>16. CASE UNCHANGED walk
    BY <1>16 DEF walk
  <1> QED
    BY <1>1, <1>2, <1>3, <1>4, <1>5, <1>6, <1>7, <1>8, <1>9, <1>10, <1>11,
       <1>12, <1>13, <1>14, <1>15, <1>16
    DEF Next, Step, CallbackHangs, vars

\* What the walks record.
LEMMA WalkRecords ==
    ASSUME Inv, Support \/ EnableDefault \/ EnableControl
    PROVE  /\ pc \in {"support", "enable"}
           /\ UNCHANGED <<bits, ready, action, current, groupRes>>
           /\ \/ pc' \in {"support", "enable"}
              \/ pc' \in {"setup", "next"} /\ item' = 1
           /\ \/ UNCHANGED results
              \/ \E t \in Items, f \in Funcs, r \in Results :
                    RecordItem(t, f, r)
  <1>1. ItemOrder[item] \in Items
    BY ItemFacts DEF Inv, TypeOK
  <1>2. /\ {"support", "enable"} \subseteq Funcs /\ "PASS" \in Results
        /\ \A b \in BOOLEAN : AsResult(b) \in Results
    BY DEF Funcs, Results, AsResult
  <1>3. CASE Support
    <2> DEFINE r == AsResult(ItemOrder[item] \in caps)
    <2>1. UNCHANGED results \/ RecordItem(ItemOrder[item], "support", r)
      BY <1>3 DEF Support
    <2>2. r \in Results
      BY DEF AsResult, Results
    <2> HIDE DEF r
    <2> QED
      BY <1>1, <1>2, <1>3, <2>1, <2>2 DEF Support, Advance, Return
  <1>4. CASE EnableDefault
    <2>1. \E b \in BOOLEAN :
             RecordItem(ItemOrder[item], "enable", AsResult(b))
      BY <1>4 DEF EnableDefault
    <2> QED
      BY <1>1, <1>2, <1>4, <2>1 DEF EnableDefault, Advance, Return
  <1>5. CASE EnableControl
    BY <1>1, <1>2, <1>5 DEF EnableControl, Advance
  <1> QED
    BY <1>3, <1>4, <1>5

\* The walks before the run record no assertion.
LEMMA WalkClean ==
    ASSUME Inv, pc \in {"support", "enable"}, NEW t \in Items,
           NEW f \in Funcs, NEW r \in Results, RecordItem(t, f, r),
           ready' = ready, action' = action, current' = current,
           \/ pc' \in {"support", "enable"}
           \/ pc' \in {"setup", "next"} /\ item' = 1
    PROVE  Control'
  <1>1. /\ TypeOK /\ current \in DOMAIN results /\ ready
        /\ action[current] = "RUN" /\ results[current].totals = NoTotals
    BY DEF Inv, TypeOK, Control
  <1>2. results'[current].totals = NoTotals
    BY <1>1, ItemRecorded
  <1> QED
    BY <1>1, <1>2 DEF Control

\* So a case that is being supported or enabled stays untested.
LEMMA WalkControl ==
    ASSUME Inv, Support \/ EnableDefault \/ EnableControl
    PROVE  Control'
  <1>1. CASE UNCHANGED results
    BY <1>1, WalkRecords DEF Inv, Control
  <1>2. CASE ~UNCHANGED results
    BY <1>2, WalkRecords, WalkClean
  <1> QED
    BY <1>1, <1>2

\* A case under way belongs to a group that is set up.
LEMMA ControlStep == Inv /\ [Next]_vars => Control'
  <1> SUFFICES ASSUME Inv, [Next]_vars PROVE Control'
    OBVIOUS
  <1> USE RunnerAssumption DEF Inv, TypeOK, Control, hardware, report
  <1>1. CASE GroupSetup
    BY <1>1 DEF GroupSetup
  <1>2. CASE StartCase
    BY <1>2 DEF StartCase, EmptyResult
  <1>3. CASE NextCase
    BY <1>3 DEF NextCase
  <1>4. CASE GroupTeardown
    BY <1>4 DEF GroupTeardown
  <1>5. CASE Support
    BY <1>5, WalkControl
  <1>6. CASE EnableDefault
    BY <1>6, WalkControl
  <1>7. CASE EnableControl
    BY <1>7, WalkControl
  <1>8. CASE EnableFlit
    BY <1>8 DEF EnableFlit, Return, Advance
  <1>9. CASE CaseSetup
    BY <1>9 DEF CaseSetup
  <1>10. CASE CaseRun
    BY <1>10 DEF CaseRun
  <1>11. CASE Check
    BY <1>11 DEF Check, Advance
  <1>12. CASE CaseTeardown
    BY <1>12 DEF CaseTeardown
  <1>13. CASE DisableDefault
    BY <1>13 DEF DisableDefault, Advance
  <1>14. CASE DisableControl
    BY <1>14 DEF DisableControl, Advance
  <1>15. CASE DisableFlit
    BY <1>15 DEF DisableFlit, Return
  <1>16. CASE UNCHANGED walk
    BY <1>16 DEF walk
  <1> QED
    BY <1>1, <1>2, <1>3, <1>4, <1>5, <1>6, <1>7, <1>8, <1>9, <1>10, <1>11,
       <1>12, <1>13, <1>14, <1>15, <1>16
    DEF Next, Step, CallbackHangs, vars

\* There is a result for every group begun.
LEMMA GroupsStep == Inv /\ [Next]_vars => GroupsKnown'
  <1> SUFFICES ASSUME Inv, [Next]_vars PROVE GroupsKnown'
    OBVIOUS
  <1> USE RunnerAssumption DEF Inv, TypeOK, GroupsKnown, hardware, report
  <1>1. CASE GroupSetup
    BY <1>1 DEF GroupSetup, AsResult, Groups
  <1>2. CASE StartCase
    BY <1>2 DEF StartCase, Groups
  <1>3. CASE NextCase
    BY <1>3 DEF NextCase
  <1>4. CASE GroupTeardown
    BY <1>4 DEF GroupTeardown
  <1>5. CASE Support
    BY <1>5, ItemRecorded, ItemFacts DEF Support, Return, Funcs, Results,
       AsResult, Advance
  <1>6. CASE EnableDefault
    BY <1>6, ItemRecorded, ItemFacts DEF EnableDefault, Return, Funcs,
       Results, AsResult, Advance
  <1>7. CASE EnableControl
    BY <1>7, ItemRecorded, ItemFacts DEF EnableControl, Funcs, Results,
       Advance
  <1>8. CASE EnableFlit
    BY <1>8 DEF EnableFlit, Return, Advance
  <1>9. CASE CaseSetup
    BY <1>9 DEF CaseSetup
  <1>10. CASE CaseRun
    BY <1>10, AssertionsRecorded DEF CaseRun
  <1>11. CASE Check
    BY <1>11, ItemRecorded, ItemFacts DEF Check, Funcs, Results, AsResult,
       Advance
  <1>12. CASE CaseTeardown
    BY <1>12 DEF CaseTeardown
  <1>13. CASE DisableDefault
    BY <1>13 DEF DisableDefault, Advance
  <1>14. CASE DisableControl
    BY <1>14, ItemRecorded, ItemFacts DEF DisableControl, Funcs, Results,
       Advance
  <1>15. CASE DisableFlit
    BY <1>15 DEF DisableFlit, Return
  <1>16. CASE UNCHANGED walk
    BY <1>16 DEF walk
  <1> QED
    BY <1>1, <1>2, <1>3, <1>4, <1>5, <1>6, <1>7, <1>8, <1>9, <1>10, <1>11,
       <1>12, <1>13, <1>14, <1>15, <1>16
    DEF Next, Step, CallbackHangs, vars

\* Enabling starts from registers without any bit of the configuration.
LEMMA EnableDefaultRegisters ==
    ASSUME Inv, EnableDefault
    PROVE  Registers'
  <1>1. /\ item = 1 /\ item \in Selected /\ bits' = bits /\ TypeOK
        /\ \A b \in ControlBits : ~Past(b) /\ b # ItemOrder[item]
    BY ItemFacts, PastFacts DEF Inv, TypeOK, EnableDefault, ControlBits
  <1>2. CASE Return
    BY <1>2 DEF Registers, Return
  <1>3. CASE Advance("enable", "setup") /\ ctrl' = ResetControls
    <2>1. CASE pc' = "setup"
      <3>1. \A u \in {"default"} \cup bits : Past(u) \/ u = ItemOrder[item]
        BY <1>1, <1>3, <2>1, Advances
      <3>2. bits \cap ControlBits = {}
        BY <1>1, <3>1
      <3>3. "flit" \notin bits
        BY <1>1, <3>1, PastFacts, ItemFacts
      <3>4. ctrl'["upper"] = {} /\ ctrl'["lower"] = {}
        BY <1>3 DEF ResetControls, Ports
      <3> QED
        BY <1>1, <2>1, <3>2, <3>3, <3>4 DEF Registers
    <2>2. CASE pc' = "enable"
      <3>1. \A b \in ControlBits : ~Past(b)'
        BY <1>1, <1>3, <2>2, Advances
      <3> QED
        BY <1>3, <2>2, <3>1 DEF Registers, ResetControls
    <2> QED
      BY <1>1, <1>3, <2>1, <2>2, Advances
  <1> QED
    BY <1>2, <1>3 DEF EnableDefault

\* An enable function adds the bit of its item.
LEMMA EnableControlRegisters ==
    ASSUME Inv, EnableControl
    PROVE  Registers'
  <1> DEFINE t == ItemOrder[item]
  <1>1. /\ item \in Selected /\ item > 1 /\ bits' = bits /\ link' = link
        /\ TypeOK
        /\ t \in ControlBits /\ t \in bits /\ pc = "enable"
        /\ Advance("enable", "setup")
        /\ bits \cap ControlBits \subseteq ControlBits
    BY ItemFacts DEF Inv, TypeOK, EnableControl, ControlBits
  <1>2. \A p \in Ports : ctrl'[p] = {b \in ControlBits : Past(b) \/ b = t}
    <2>1. \A p \in Ports : ctrl[p] = {b \in ControlBits : Past(b)}
      BY <1>1 DEF Inv, Registers
    <2>2. \A p \in Ports : ctrl'[p] = ctrl[p] \cup {t}
      BY DEF EnableControl, WriteControl
    <2> QED
      BY <1>1, <2>1, <2>2
  <1>3. CASE pc' = "setup"
    <2>1. \A u \in {"default"} \cup bits : Past(u) \/ u = t
      BY <1>1, <1>3, Advances
    <2>2. {b \in ControlBits : Past(b) \/ b = t} = bits \cap ControlBits
      BY <1>1, <2>1, PastFacts DEF ControlBits
    <2>3. "flit" \notin bits
      <3>1. ~Past("flit")
        BY <1>1, ItemFacts DEF Past
      <3> QED
        BY <1>1, <2>1, <3>1 DEF ControlBits
    <2> QED
      BY <1>1, <1>2, <1>3, <2>2, <2>3 DEF Registers, Ports
  <1>4. CASE pc' = "enable"
    <2>1. \A u : Past(u)' <=> Past(u) \/ u = t
      BY <1>1, <1>4, Advances
    <2>2. {b \in ControlBits : Past(b) \/ b = t} =
              {b \in ControlBits : Past(b)'}
      BY <2>1
    <2> QED
      BY <1>2, <1>4, <2>2 DEF Registers
  <1> QED
    BY <1>1, <1>3, <1>4, Advances

\* The flit item comes last, and may clear the bits of the lower port.
LEMMA EnableFlitRegisters ==
    ASSUME Inv, EnableFlit
    PROVE  Registers'
  <1>1. /\ item \in Selected /\ item = 4 /\ bits' = bits /\ TypeOK
        /\ ItemOrder[item] = "flit" /\ "flit" \in bits /\ pc = "enable"
    BY ItemFacts DEF Inv, TypeOK, EnableFlit
  <1>2. PICK ret \in BOOLEAN :
           /\ FlitSwitch(TRUE, ret)
           /\ IF ret THEN Advance("enable", "setup") ELSE Return
    BY DEF EnableFlit
  <1>3. CASE ~ret
    BY <1>2, <1>3 DEF Return, Registers
  <1>4. CASE ret
    <2>1. LastItem
      BY <1>1, ItemFacts DEF LastItem
    <2>2. pc' = "setup"
      BY <1>2, <1>4, <2>1 DEF Advance
    <2>3. /\ ctrl'["upper"] = ctrl["upper"] /\ ctrl'["lower"] = {}
          /\ link'.flit = FALSE /\ link'.linkDis = FALSE
      BY <1>1, <1>2, <1>4, FlitSwitched
    <2>4. ctrl["upper"] = {b \in ControlBits : Past(b)}
      BY <1>1 DEF Inv, Registers, Ports
    <2>5. \A b \in ControlBits : Past(b) <=> b \in bits
      BY <1>1, <2>1, LastFacts, PastFacts DEF ControlBits
    <2> QED
      BY <1>1, <2>2, <2>3, <2>4, <2>5 DEF Registers
  <1> QED
    BY <1>3, <1>4

\* Disabling starts with no bit taken back.
LEMMA TeardownRegisters ==
    ASSUME Inv, CaseTeardown
    PROVE  Registers'
  <1>1. /\ pc = "teardown" /\ pc' = "disable" /\ bits' = bits /\ ctrl' = ctrl
        /\ item = 1 /\ item' = item /\ item \in Selected /\ TypeOK
    BY DEF Inv, Control, TypeOK, CaseTeardown, hardware
  <1>2. \A b : ~Past(b)'
    <2>1. \A b : ~Past(b)
      BY <1>1, PastFacts
    <2> QED
      BY <1>1, <2>1 DEF Past, Selected
  <1>3. \A p \in Ports : ctrl[p] \subseteq bits \cap ControlBits
    BY <1>1 DEF Inv, Registers, Ports
  <1> QED
    BY <1>1, <1>2, <1>3 DEF Registers

\* The registers follow the walks over the items.
LEMMA RegistersStep == Inv /\ [Next]_vars => Registers'
  <1> SUFFICES ASSUME Inv, [Next]_vars PROVE Registers'
    OBVIOUS
  <1> USE RunnerAssumption DEF Inv, TypeOK, Registers, hardware, report
  <1>1. CASE GroupSetup
    BY <1>1 DEF GroupSetup
  <1>2. CASE StartCase
    BY <1>2 DEF StartCase
  <1>3. CASE NextCase
    BY <1>3 DEF NextCase
  <1>4. CASE GroupTeardown
    BY <1>4 DEF GroupTeardown
  <1>5. CASE Support
    BY <1>5 DEF Support, Return, Advance
  <1>6. CASE EnableDefault
    BY <1>6, EnableDefaultRegisters
  <1>7. CASE EnableControl
    BY <1>7, EnableControlRegisters
  <1>8. CASE EnableFlit
    BY <1>8, EnableFlitRegisters
  <1>9. CASE CaseSetup
    BY <1>9 DEF CaseSetup
  <1>10. CASE CaseRun
    BY <1>10 DEF CaseRun
  <1>11. CASE Check
    BY <1>11 DEF Check, Advance
  <1>12. CASE CaseTeardown
    BY <1>12, TeardownRegisters
  <1>13. CASE DisableDefault
    BY <1>13, Advances DEF DisableDefault, Items, Advance
  <1>14. CASE DisableControl
    BY <1>14, Advances DEF DisableControl, WriteControl
  <1>15. CASE DisableFlit
    BY <1>15 DEF DisableFlit, Return
  <1>16. CASE UNCHANGED walk
    BY <1>16 DEF walk, Past, Selected
  <1> QED
    BY <1>1, <1>2, <1>3, <1>4, <1>5, <1>6, <1>7, <1>8, <1>9, <1>10, <1>11,
       <1>12, <1>13, <1>14, <1>15, <1>16
    DEF Next, Step, CallbackHangs, vars

\* A case starts with nothing to record.
LEMMA StartCaseRecorded ==
    ASSUME Inv, StartCase
    PROVE  Recorded'
  <1>1. /\ item = 1 /\ item' = item /\ bits' = bits /\ item \in Selected
        /\ pc' \in {"support", "next"}
    BY DEF Inv, Control, TypeOK, StartCase
  <1>2. \A b : ~Past(b)'
    <2>1. \A b : ~Past(b)
      BY <1>1, PastFacts
    <2> QED
      BY <1>1, <2>1 DEF Past, Selected
  <1> QED
    BY <1>1, <1>2 DEF Recorded

\* Support that is missing ends the case, but for pcrc, which PASS is not
\* about.
LEMMA SupportRecorded ==
    ASSUME Inv, Support
    PROVE  Recorded'
  <1> DEFINE t == ItemOrder[item]
  <1>1. /\ item \in Selected /\ bits' = bits /\ TypeOK /\ pc = "support"
        /\ t \in Items /\ current' = current /\ current \in DOMAIN results
    BY ItemFacts DEF Inv, TypeOK, Support
  <1>2. CASE ~SupportReturns(t)
    BY <1>2 DEF Support, Return, Recorded
  <1>3. CASE SupportReturns(t)
    <2>1. Advance("support", "enable")
      BY <1>3 DEF Support
    <2>2. \A u \in Required : Past(u) \/ u = t =>
             results'[current].items[u]["support"] = "PASS"
      <3>1. CASE t = "flit"
        BY <1>1, <3>1 DEF Support, Inv, Recorded, Required
      <3>2. CASE t # "flit"
        <4>1. RecordItem(t, "support", AsResult(t \in caps))
          BY <3>2 DEF Support
        <4>2. \A u \in Required : u \in Items
          BY DEF Required, Items
        <4>3. \A u \in Items : results'[current].items[u]["support"] =
                 IF u = t THEN AsResult(t \in caps)
                 ELSE results[current].items[u]["support"]
          BY <1>1, <4>1, ItemRecorded DEF AsResult, Funcs, Results
        <4>4. t \in Required => AsResult(t \in caps) = "PASS"
          BY <1>3 DEF SupportReturns, AsResult, Required
        <4> QED
          BY <1>1, <4>2, <4>3, <4>4 DEF Inv, Recorded
      <3> QED
        BY <3>1, <3>2
    <2>3. CASE pc' = "support"
      BY <1>1, <2>1, <2>2, <2>3, Advances DEF Recorded, Required
    <2>4. CASE pc' = "enable"
      <3>1. item' = 1 /\ \A u \in Required : Past(u) \/ u = t
        BY <1>1, <2>1, <2>4, Advances DEF Required
      <3>2. \A u : ~Past(u)'
        BY <1>1, <3>1, ItemFacts DEF Past, Selected
      <3> QED
        BY <1>1, <2>2, <2>4, <3>1, <3>2 DEF Recorded, Required
    <2> QED
      BY <1>1, <2>1, <2>3, <2>4, Advances
  <1> QED
    BY <1>2, <1>3

\* An enable function that succeeds has its result recorded, if PASS is
\* about it.
LEMMA EnableRecorded ==
    ASSUME Inv, pc = "enable", Advance("enable", "setup"), bits' = bits,
           current' = current,
           \A u \in Required :
              /\ results'[current].items[u]["support"] =
                    results[current].items[u]["support"]
              /\ results'[current].items[u]["enable"] =
                    IF u = ItemOrder[item] THEN "PASS"
                    ELSE results[current].items[u]["enable"]
    PROVE  Recorded'
  <1> DEFINE t == ItemOrder[item]
  <1>1. TypeOK /\ Required' = Required
    BY DEF Inv, Required
  <1>2. \A u \in Required : results'[current].items[u]["support"] = "PASS"
    BY DEF Inv, Recorded
  <1>3. \A u \in Required : Past(u) \/ u = t =>
           results'[current].items[u]["enable"] = "PASS"
    BY DEF Inv, Recorded
  <1>4. CASE pc' = "enable"
    BY <1>1, <1>2, <1>3, <1>4, Advances DEF Recorded
  <1>5. CASE pc' = "setup"
    <2>1. \A u \in Required : Past(u) \/ u = t
      BY <1>1, <1>5, Advances DEF Required
    <2> QED
      BY <1>1, <1>2, <1>3, <1>5, <2>1 DEF Recorded
  <1> QED
    BY <1>1, <1>4, <1>5, Advances

\* The default item is enabled and recorded, or the case ends.
LEMMA EnableDefaultRecorded ==
    ASSUME Inv, EnableDefault
    PROVE  Recorded'
  <1>1. /\ item \in Selected /\ bits' = bits /\ TypeOK /\ pc = "enable"
        /\ ItemOrder[item] = "default"
        /\ current' = current /\ current \in DOMAIN results
    BY ItemFacts DEF Inv, TypeOK, EnableDefault
  <1>2. PICK ok \in BOOLEAN :
           /\ RecordItem("default", "enable", AsResult(ok))
           /\ IF ok THEN Advance("enable", "setup") ELSE Return
    BY DEF EnableDefault
  <1>3. CASE ~ok
    BY <1>2, <1>3 DEF Return, Recorded
  <1>4. CASE ok
    <2>1. RecordItem("default", "enable", "PASS")
      BY <1>2, <1>4 DEF AsResult
    <2>2. \A u \in Required : u \in Items
      BY DEF Required, Items
    <2>3. \A u \in Required :
             /\ results'[current].items[u]["support"] =
                   results[current].items[u]["support"]
             /\ results'[current].items[u]["enable"] =
                   IF u = "default" THEN "PASS"
                   ELSE results[current].items[u]["enable"]
      <3>1. /\ "default" \in Items /\ "enable" \in Funcs
            /\ "support" \in Funcs
            /\ "PASS" \in Results
        BY DEF Items, Funcs, Results
      <3>2. \A u \in Items, h \in Funcs :
               results'[current].items[u][h] =
                   IF u = "default" /\ h = "enable" THEN "PASS"
                   ELSE results[current].items[u][h]
        BY <1>1, <2>1, <3>1, ItemRecorded
      <3> QED
        BY <2>2, <3>1, <3>2
    <2> QED
      BY <1>1, <1>2, <1>4, <2>3, EnableRecorded
  <1> QED
    BY <1>3, <1>4

\* The items of the control register are enabled and recorded.
LEMMA EnableControlRecorded ==
    ASSUME Inv, EnableControl
    PROVE  Recorded'
  <1>1. /\ item \in Selected /\ bits' = bits /\ TypeOK /\ pc = "enable"
        /\ ItemOrder[item] \in Items
        /\ RecordItem(ItemOrder[item], "enable", "PASS")
        /\ Advance("enable", "setup")
        /\ current' = current /\ current \in DOMAIN results
    BY ItemFacts DEF Inv, TypeOK, EnableControl
  <1>2. \A u \in Required : u \in Items
    BY DEF Required, Items
  <1>3. \A u \in Required :
           /\ results'[current].items[u]["support"] =
                 results[current].items[u]["support"]
           /\ results'[current].items[u]["enable"] =
                 IF u = ItemOrder[item] THEN "PASS"
                 ELSE results[current].items[u]["enable"]
    BY <1>1, <1>2, ItemRecorded DEF Funcs, Results
  <1> QED
    BY <1>1, <1>3, EnableRecorded

\* The flit item records nothing, and PASS is not about it.
LEMMA EnableFlitRecorded ==
    ASSUME Inv, EnableFlit
    PROVE  Recorded'
  <1>1. /\ bits' = bits /\ TypeOK /\ pc = "enable" /\ current' = current
        /\ ItemOrder[item] = "flit" /\ results' = results
    BY DEF Inv, TypeOK, EnableFlit, report
  <1>2. CASE Return
    BY <1>2 DEF Return, Recorded
  <1>3. CASE Advance("enable", "setup")
    BY <1>1, <1>3, EnableRecorded DEF Required
  <1> QED
    BY <1>2, <1>3 DEF EnableFlit

\* The results follow the walks over the items.
LEMMA RecordedStep == Inv /\ [Next]_vars => Recorded'
  <1> SUFFICES ASSUME Inv, [Next]_vars PROVE Recorded'
    OBVIOUS
  <1> USE RunnerAssumption DEF Inv, TypeOK, Recorded, hardware, report,
     Required
  <1>1. CASE GroupSetup
    BY <1>1 DEF GroupSetup
  <1>2. CASE StartCase
    BY <1>2, StartCaseRecorded
  <1>3. CASE NextCase
    BY <1>3 DEF NextCase
  <1>4. CASE GroupTeardown
    BY <1>4 DEF GroupTeardown
  <1>5. CASE Support
    BY <1>5, SupportRecorded
  <1>6. CASE EnableDefault
    BY <1>6, EnableDefaultRecorded
  <1>7. CASE EnableControl
    BY <1>7, EnableControlRecorded
  <1>8. CASE EnableFlit
    BY <1>8, EnableFlitRecorded
  <1>9. CASE CaseSetup
    BY <1>9 DEF CaseSetup
  <1>10. CASE CaseRun
    BY <1>10 DEF CaseRun
  <1>11. CASE Check
    BY <1>11 DEF Check, Advance
  <1>12. CASE CaseTeardown
    BY <1>12 DEF CaseTeardown
  <1>13. CASE DisableDefault
    BY <1>13 DEF DisableDefault, Advance
  <1>14. CASE DisableControl
    BY <1>14 DEF DisableControl, Advance
  <1>15. CASE DisableFlit
    BY <1>15 DEF DisableFlit, Return
  <1>16. CASE UNCHANGED walk
    BY <1>16 DEF walk, Past, Selected
  <1> QED
    BY <1>1, <1>2, <1>3, <1>4, <1>5, <1>6, <1>7, <1>8, <1>9, <1>10, <1>11,
       <1>12, <1>13, <1>14, <1>15, <1>16
    DEF Next, Step, CallbackHangs, vars

\* The case being supported or enabled has no assertion in its totals.
LEMMA WalkEarned ==
    ASSUME Inv, pc \in {"support", "enable"}, NEW t \in Items,
           NEW f \in Funcs, NEW r \in Results, RecordItem(t, f, r),
           bits' = bits, action' = action, groupRes' = groupRes
    PROVE  Earned'
  <1>1. /\ TypeOK /\ current \in DOMAIN results
        /\ results[current].totals = NoTotals
    BY DEF Inv, TypeOK, Control
  <1>2. /\ DOMAIN results' = DOMAIN results
        /\ results'[current].totals = NoTotals
        /\ \A k \in DOMAIN results : k # current => results'[k] = results[k]
    BY <1>1, ItemRecorded
  <1>3. Required' = Required
    BY DEF Required
  <1> QED
    BY <1>2, <1>3 DEF Inv, Earned

\* So nothing is earned before the run.
LEMMA WalkStaysEarned ==
    ASSUME Inv, Support \/ EnableDefault \/ EnableControl
    PROVE  Earned'
  <1>1. CASE UNCHANGED results
    BY <1>1, WalkRecords DEF Inv, Earned, Required
  <1>2. CASE ~UNCHANGED results
    BY <1>2, WalkRecords, WalkEarned
  <1> QED
    BY <1>1, <1>2

\* The run function is called for a case that was set up and enabled.
LEMMA CaseRunEarned ==
    ASSUME Inv, CaseRun
    PROVE  Earned'
  <1>1. /\ bits' = bits /\ TypeOK /\ pc = "run" /\ action' = action
        /\ current \in DOMAIN results /\ current = <<group, case>>
        /\ ready /\ action[current] = "RUN"
        /\ current[1] = group /\ group \in 1..Len(groupRes)
    BY CountFacts DEF Inv, TypeOK, CaseRun, Control, GroupsKnown, Groups
  <1>2. PICK p \in 0..MaxAsserts, n \in 0..MaxAsserts : RecordAssertions(p, n)
    BY DEF CaseRun
  <1>3. p \in Nat /\ n \in Nat /\ GroupsKnown
    BY RunnerAssumption DEF Inv
  <1>4. /\ DOMAIN results' = DOMAIN results
        /\ \A k \in DOMAIN results :
              /\ results'[k].items = results[k].items
              /\ k # current => results'[k] = results[k]
        /\ \A g \in 1..Len(groupRes) : groupRes'[g].setup = groupRes[g].setup
    BY <1>1, <1>2, <1>3, AssertionsRecorded
  <1>5. groupRes[group].setup = "PASS"
    BY <1>1, <1>3 DEF GroupsKnown
  <1>6. \A u \in Required : /\ results[current].items[u]["support"] = "PASS"
                            /\ results[current].items[u]["enable"] = "PASS"
    BY <1>1 DEF Inv, Recorded
  <1>7. \A k \in DOMAIN results : k[1] \in 1..Len(groupRes)
    BY <1>3 DEF GroupsKnown
  <1>8. Required' = Required
    BY <1>1 DEF Required
  <1> QED
    BY <1>1, <1>4, <1>5, <1>6, <1>7, <1>8 DEF Inv, Earned

\* The check functions leave the results PASS is about alone.
LEMMA CheckEarned ==
    ASSUME Inv, Check
    PROVE  Earned'
  <1> DEFINE t == ItemOrder[item]
  <1>1. /\ bits' = bits /\ TypeOK /\ action' = action /\ groupRes' = groupRes
        /\ current \in DOMAIN results /\ t \in Items /\ Required' = Required
        /\ \A u \in Required : u \in Items
    BY ItemFacts DEF Inv, TypeOK, Check, Required, Items
  <1>2. CASE UNCHANGED results
    BY <1>1, <1>2 DEF Inv, Earned
  <1>3. CASE \E ret \in BOOLEAN : RecordItem(t, "check", AsResult(ret))
    <2>1. /\ DOMAIN results' = DOMAIN results
          /\ \A k \in DOMAIN results :
                results'[k].totals = results[k].totals
                /\ (k # current => results'[k] = results[k])
          /\ \A u \in Items : /\ results'[current].items[u]["support"] =
                                    results[current].items[u]["support"]
                              /\ results'[current].items[u]["enable"] =
                                    results[current].items[u]["enable"]
      BY <1>1, <1>3, ItemRecorded DEF Funcs, Results, AsResult
    <2> QED
      BY <1>1, <2>1 DEF Inv, Earned
  <1> QED
    BY <1>2, <1>3 DEF Check

\* Assertions are recorded only for a case that was set up and enabled.
LEMMA EarnedStep == Inv /\ [Next]_vars => Earned'
  <1> SUFFICES ASSUME Inv, [Next]_vars PROVE Earned'
    OBVIOUS
  <1> USE RunnerAssumption DEF Inv, TypeOK, Earned, hardware, report, Required
  <1>1. CASE GroupSetup
    BY <1>1 DEF GroupSetup, GroupsKnown
  <1>2. CASE StartCase
    BY <1>2 DEF StartCase, EmptyResult
  <1>3. CASE NextCase
    BY <1>3 DEF NextCase
  <1>4. CASE GroupTeardown
    BY <1>4 DEF GroupTeardown
  <1>5. CASE Support
    BY <1>5, WalkStaysEarned
  <1>6. CASE EnableDefault
    BY <1>6, WalkStaysEarned
  <1>7. CASE EnableControl
    BY <1>7, WalkStaysEarned
  <1>8. CASE EnableFlit
    BY <1>8 DEF EnableFlit, Return
  <1>9. CASE CaseSetup
    BY <1>9 DEF CaseSetup, Control
  <1>10. CASE CaseRun
    BY <1>10, CaseRunEarned
  <1>11. CASE Check
    BY <1>11, CheckEarned
  <1>12. CASE CaseTeardown
    BY <1>12 DEF CaseTeardown
  <1>13. CASE DisableDefault
    BY <1>13 DEF DisableDefault
  <1>14. CASE DisableControl
    BY <1>14 DEF DisableControl, RecordItem
  <1>15. CASE DisableFlit
    BY <1>15 DEF DisableFlit, Return
  <1>16. CASE UNCHANGED walk
    BY <1>16 DEF walk
  <1> QED
    BY <1>1, <1>2, <1>3, <1>4, <1>5, <1>6, <1>7, <1>8, <1>9, <1>10, <1>11,
       <1>12, <1>13, <1>14, <1>15, <1>16
    DEF Next, Step, CallbackHangs, vars

\* The registers at the run are those of the configuration.
LEMMA InForce == Registers => ConfigInForce
  BY DEF Registers, ConfigInForce

\* PASS needs an assertion in the totals.
LEMMA PassEarned == Earned => PassMeansTested
  <1> SUFFICES ASSUME Earned, NEW k \in DOMAIN results, Verdict(k) = "PASS"
               PROVE  /\ groupRes[k[1]].setup = "PASS"
                      /\ action[k] = "RUN"
                      /\ \A t \in {"default"} \cup (bits \cap {"cfg_req"}) :
                            /\ results[k].items[t]["support"] = "PASS"
                            /\ results[k].items[t]["enable"] = "PASS"
    BY DEF PassMeansTested
  <1>1. results[k].totals # NoTotals
    BY DEF Verdict, NoTotals
  <1> QED
    BY <1>1 DEF Earned, Required

\* The last of the disable functions leaves no bit of the configuration.
LEMMA ReleaseStep ==
    ASSUME Inv, [Next]_vars, pc = "disable", pc' = "next"
    PROVE  \A p \in Ports : ctrl'[p] = {}
  <1>1. /\ TypeOK /\ item \in Selected
        /\ \A p \in Ports :
              ctrl[p] \subseteq {b \in bits \cap ControlBits : ~Past(b)}
    BY DEF Inv, TypeOK, Registers
  <1>2. ASSUME Advance("disable", "next"), bits' = bits
        PROVE  \A p \in Ports : ctrl[p] \subseteq {ItemOrder[item]}
    <2>1. TypeOK /\ pc' # "disable"
      BY <1>1
    <2>2. \A t \in {"default"} \cup bits : Past(t) \/ t = ItemOrder[item]
      BY <1>2, <2>1, Advances
    <2> QED
      BY <1>1, <2>2
  <1>3. CASE DisableDefault
    <2>1. \A p \in Ports : ctrl[p] \subseteq {"default"} \cap ControlBits
      BY <1>1, <1>2, <1>3 DEF DisableDefault
    <2>2. ctrl' = ctrl
      BY <1>3 DEF DisableDefault, hardware
    <2> QED
      BY <2>1, <2>2 DEF ControlBits
  <1>4. CASE DisableControl
    <2>1. \A p \in Ports : ctrl[p] \subseteq {ItemOrder[item]}
      BY <1>2, <1>4 DEF DisableControl
    <2>2. \A p \in Ports : ctrl'[p] = ctrl[p] \ {ItemOrder[item]}
      BY <1>4 DEF DisableControl, WriteControl
    <2> QED
      BY <2>1, <2>2
  <1>5. CASE DisableFlit
    <2>1. item = 4
      BY <1>1, <1>5, ItemFacts DEF DisableFlit
    <2>2. \A b \in bits \cap ControlBits : Past(b)
      BY <1>1, <2>1, ItemFacts DEF Past, ControlBits
    <2>3. ctrl["upper"] = {} /\ ctrl["lower"] = {}
      BY <1>1, <2>2 DEF Ports
    <2>4. PICK ret \in BOOLEAN : FlitSwitch(FALSE, ret)
      BY <1>5 DEF DisableFlit
    <2>5. /\ ctrl'["upper"] = ctrl["upper"]
          /\ ctrl'["lower"] \in {ctrl["lower"], {}}
      BY <1>1, <2>4, FlitSwitched
    <2> QED
      BY <2>3, <2>5 DEF Ports
  <1> QED
    BY <1>3, <1>4, <1>5
    DEF Next, Step, CallbackHangs, vars, walk, GroupSetup, StartCase, NextCase,
        GroupTeardown, Support, EnableDefault, EnableControl, EnableFlit, CaseSetup, CaseRun, Check,
        CaseTeardown

-----------------------------------------------------------------------------
(* Induction, as the least counterexample.                                 *)

\* Every non-empty set of natural numbers has a least member: the form in
\* which the lemmas below use induction.
LEMMA LeastNat ==
    ASSUME NEW B, B \subseteq Nat, B # {}
    PROVE  \E m \in B : \A n \in B : m <= n
  <1> DEFINE R == {ss \in Nat \X Nat : ss[1] < ss[2]}
  <1>1. IsWellFoundedOn(R, Nat)
    <2>1. IsWellFoundedOn(OpToRel(<, Nat), Nat) BY NatLessThanWellFounded
    <2> QED BY <2>1 DEF OpToRel
  <1>2. PICK m \in B : \A y \in B : ~(<<y, m>> \in R)
    <2> HIDE DEF R
    <2> QED BY <1>1, WFMin
  <1>3. \A y \in B : m <= y
    <2> TAKE y \in B
    <2>1. <<y, m>> \in Nat \X Nat /\ <<y, m>>[1] = y /\ <<y, m>>[2] = m OBVIOUS
    <2>2. ~(y < m) BY <1>2, <2>1
    <2> QED BY <2>2
  <1> HIDE DEF R
  <1> QED BY <1>3

-----------------------------------------------------------------------------
(* The sum of a function's values over a finite set.                       *)

Pick(s) == CHOOSE x \in s : TRUE

\* The equation of the recursive function behind SumFunctionOnSet.
SumsUp(f, g, s) == g[s] = IF s = {} THEN 0 ELSE f[Pick(s)] + g[s \ {Pick(s)}]

\* The summands are natural numbers, finitely many.
Summable(f, S) == IsFiniteSet(S) /\ \A x \in S : f[x] \in Nat

\* The subsets of a finite set and their sizes.
LEMMA SubsetFacts ==
    ASSUME NEW S, IsFiniteSet(S), NEW s \in SUBSET S
    PROVE  /\ Cardinality(s) \in Nat
           /\ Cardinality(s) <= Cardinality(S) /\ Cardinality(S) \in Nat
           /\ \A x \in s : /\ s \ {x} \in SUBSET S
                           /\ Cardinality(s \ {x}) \in Nat
                           /\ Cardinality(s \ {x}) = Cardinality(s) - 1
           /\ Cardinality(s) = 0 <=> s = {}
           /\ s # {} => Pick(s) \in s
  <1>1. IsFiniteSet(s) /\ Cardinality(s) <= Cardinality(S)
    BY FS_Subset
  <1>2. Cardinality(s) \in Nat /\ Cardinality(S) \in Nat
    BY <1>1, FS_CardinalityType
  <1>3. ASSUME NEW x \in s
        PROVE  /\ s \ {x} \in SUBSET S
               /\ Cardinality(s \ {x}) \in Nat
               /\ Cardinality(s \ {x}) = Cardinality(s) - 1
    <2>1. IsFiniteSet(s \ {x}) /\ Cardinality(s \ {x}) = Cardinality(s) - 1
      BY <1>1, FS_RemoveElement
    <2>2. Cardinality(s \ {x}) \in Nat
      BY <2>1, FS_CardinalityType
    <2> QED
      BY <2>1, <2>2
  <1>4. Cardinality(s) = 0 <=> s = {}
    BY <1>1, FS_EmptySet
  <1> QED
    BY <1>1, <1>2, <1>3, <1>4 DEF Pick

\* The recursion has a solution.
LEMMA SumExists ==
    ASSUME NEW f, NEW S, Summable(f, S)
    PROVE  \E g \in [SUBSET S -> Nat] : \A s \in SUBSET S : SumsUp(f, g, s)
  <1> DEFINE P(n) == \E g \in [SUBSET S -> Nat] :
                        \A s \in SUBSET S : Cardinality(s) <= n => SumsUp(f, g, s)
             B == {n \in Nat : ~P(n)}
  <1>0. IsFiniteSet(S) /\ \A x \in S : f[x] \in Nat
    BY DEF Summable
  <1>1. P(0)
    <2> DEFINE g == [s \in SUBSET S |-> 0]
    <2>1. ASSUME NEW s \in SUBSET S, Cardinality(s) <= 0
          PROVE  SumsUp(f, g, s)
      <3>1. s = {}
        BY <1>0, <2>1, SubsetFacts
      <3> QED
        BY <3>1 DEF SumsUp
    <2>2. g \in [SUBSET S -> Nat]
      OBVIOUS
    <2> QED
      BY <2>1, <2>2
  <1>2. ASSUME NEW n \in Nat, P(n)
        PROVE  P(n + 1)
    <2>1. PICK g \in [SUBSET S -> Nat] :
             \A s \in SUBSET S : Cardinality(s) <= n => SumsUp(f, g, s)
      BY <1>2
    <2> DEFINE h == [s \in SUBSET S |-> IF Cardinality(s) = n + 1
                                        THEN f[Pick(s)] + g[s \ {Pick(s)}]
                                        ELSE g[s]]
    <2>2. ASSUME NEW s \in SUBSET S, Cardinality(s) = n + 1
          PROVE  /\ s # {} /\ Pick(s) \in s
                 /\ s \ {Pick(s)} \in SUBSET S
                 /\ Cardinality(s \ {Pick(s)}) = n
      <3>1. s # {}
        BY <1>0, <2>2, SubsetFacts
      <3> QED
        BY <1>0, <2>2, <3>1, SubsetFacts
    <2>3. h \in [SUBSET S -> Nat]
      <3> SUFFICES ASSUME NEW s \in SUBSET S
                   PROVE  (IF Cardinality(s) = n + 1
                             THEN f[Pick(s)] + g[s \ {Pick(s)}] ELSE g[s]) \in Nat
        OBVIOUS
      <3>1. CASE Cardinality(s) = n + 1
        <4>1. f[Pick(s)] \in Nat /\ g[s \ {Pick(s)}] \in Nat
          BY <1>0, <2>2, <3>1
        <4> QED
          BY <3>1, <4>1
      <3> QED
        BY <3>1
    <2>4. ASSUME NEW s \in SUBSET S, Cardinality(s) <= n + 1
          PROVE  SumsUp(f, h, s)
      <3>0. Cardinality(s) \in Nat
        BY <1>0, SubsetFacts
      <3>1. CASE Cardinality(s) = n + 1
        <4>1. h[s] = f[Pick(s)] + g[s \ {Pick(s)}]
          BY <3>1
        <4>2. h[s \ {Pick(s)}] = g[s \ {Pick(s)}]
          BY <3>1, <2>2
        <4> HIDE DEF h
        <4> QED
          BY <4>1, <4>2, <2>2, <3>1 DEF SumsUp
      <3>2. CASE Cardinality(s) <= n
        <4>1. SumsUp(f, g, s) /\ h[s] = g[s]
          BY <2>1, <3>0, <3>2
        <4>2. CASE s = {}
          <5> HIDE DEF h
          <5> QED BY <4>1, <4>2 DEF SumsUp
        <4>3. CASE s # {}
          <5>1. /\ s \ {Pick(s)} \in SUBSET S
                /\ Cardinality(s \ {Pick(s)}) = Cardinality(s) - 1
            BY <1>0, <4>3, SubsetFacts
          <5>2. h[s \ {Pick(s)}] = g[s \ {Pick(s)}]
            <6>1. Cardinality(s \ {Pick(s)}) # n + 1
              BY <5>1, <3>0, <3>2
            <6>2. PICK t \in SUBSET S : t = s \ {Pick(s)}
              BY <5>1
            <6> QED
              BY <6>1, <6>2
          <5> HIDE DEF h
          <5> QED BY <4>1, <4>3, <5>2 DEF SumsUp
        <4> QED
          BY <4>2, <4>3
      <3> HIDE DEF h
      <3> QED
        BY <2>4, <3>0, <3>1, <3>2
    <2> HIDE DEF h
    <2> QED
      BY <2>3, <2>4
  <1>3. \A n \in Nat : P(n)
    <2> SUFFICES ASSUME B # {} PROVE FALSE
      OBVIOUS
    <2>1. PICK m \in B : \A n \in B : m <= n
      <3> HIDE DEF P
      <3>1. B \subseteq Nat
        OBVIOUS
      <3> HIDE DEF B
      <3> QED
        BY <3>1, LeastNat
    <2> HIDE DEF P
    <2>2. m \in Nat /\ ~P(m)
      OBVIOUS
    <2>3. m # 0
      BY <1>1, <2>2
    <2>4. m - 1 \in Nat /\ m - 1 \notin B
      BY <2>1, <2>2, <2>3
    <2>5. P(m - 1)
      BY <2>4
    <2>6. P((m - 1) + 1)
      BY <1>2, <2>4, <2>5
    <2> QED
      BY <2>2, <2>6
  <1>4. P(Cardinality(S))
    <2>1. Cardinality(S) \in Nat
      BY <1>0, FS_CardinalityType
    <2> HIDE DEF P
    <2> QED
      BY <1>3, <2>1
  <1>5. \A s \in SUBSET S : Cardinality(s) <= Cardinality(S)
    BY <1>0, SubsetFacts
  <1> QED
    BY <1>4, <1>5

\* The sum is the value at the whole set of a function that solves it.
LEMMA SumSolves ==
    ASSUME NEW f, NEW S, Summable(f, S)
    PROVE  \E g : /\ \A s \in SUBSET S : SumsUp(f, g, s)
                  /\ SumFunctionOnSet(f, S) = g[S]
  <1> DEFINE Body(g, s) == IF s = {} THEN 0 ELSE f[CHOOSE x \in s : TRUE] + g[s \ {CHOOSE x \in s : TRUE}]
             it == CHOOSE g : g = [s \in SUBSET S |-> Body(g, s)]
  <1>1. SumFunctionOnSet(f, S) = it[S]
    BY DEF SumFunctionOnSet, FoldFunctionOnSet, MapThenFoldSet
  <1>2. \E g : g = [s \in SUBSET S |-> Body(g, s)]
    <2>1. PICK g \in [SUBSET S -> Nat] : \A s \in SUBSET S : SumsUp(f, g, s)
      BY SumExists
    <2>2. \A s \in SUBSET S : g[s] = Body(g, s)
      BY <2>1 DEF SumsUp, Pick
    <2> HIDE DEF Body
    <2>3. g = [s \in SUBSET S |-> Body(g, s)]
      BY <2>2
    <2> QED
      BY <2>3
  <1>3. it = [s \in SUBSET S |-> Body(it, s)]
    <2> HIDE DEF Body
    <2> QED
      BY <1>2
  <1>4. \A s \in SUBSET S : it[s] = Body(it, s)
    <2> HIDE DEF Body, it
    <2> QED
      BY <1>3
  <1>5. \A s \in SUBSET S : SumsUp(f, it, s)
    <2> HIDE DEF it
    <2> QED
      BY <1>4 DEF SumsUp, Pick
  <1> HIDE DEF it
  <1> QED
    BY <1>1, <1>5

\* Every partial sum is a natural number.
LEMMA SumNat ==
    ASSUME NEW f, NEW S, Summable(f, S), NEW g, \A s \in SUBSET S : SumsUp(f, g, s)
    PROVE  \A s \in SUBSET S : g[s] \in Nat
  <1> DEFINE Bad == {s \in SUBSET S : g[s] \notin Nat}
             B == {Cardinality(s) : s \in Bad}
  <1>0. IsFiniteSet(S) /\ \A x \in S : f[x] \in Nat
    BY DEF Summable
  <1> SUFFICES ASSUME Bad # {} PROVE FALSE
    OBVIOUS
  <1>1. B \subseteq Nat /\ B # {}
    BY <1>0, SubsetFacts
  <1>2. PICK m \in B : \A n \in B : m <= n
    <2> HIDE DEF B
    <2> QED
      BY <1>1, LeastNat
  <1>3. PICK s \in Bad : m = Cardinality(s)
    OBVIOUS
  <1>4. s \in SUBSET S /\ g[s] \notin Nat /\ s # {}
    BY <1>3 DEF SumsUp
  <1>5. /\ Pick(s) \in s /\ s \ {Pick(s)} \in SUBSET S
        /\ Cardinality(s \ {Pick(s)}) = m - 1 /\ m \in Nat
        /\ Cardinality(s \ {Pick(s)}) \in Nat
    BY <1>0, <1>3, <1>4, SubsetFacts
  <1>6. s \ {Pick(s)} \notin Bad
    BY <1>2, <1>5
  <1>7. g[s \ {Pick(s)}] \in Nat /\ f[Pick(s)] \in Nat
    BY <1>0, <1>4, <1>5, <1>6
  <1>8. g[s] = f[Pick(s)] + g[s \ {Pick(s)}]
    BY <1>4 DEF SumsUp
  <1> QED
    BY <1>4, <1>7, <1>8

\* It does not matter which element is taken out first.
LEMMA SumTakesAny ==
    ASSUME NEW f, NEW S, Summable(f, S), NEW g, \A s \in SUBSET S : SumsUp(f, g, s)
    PROVE  \A s \in SUBSET S : \A y \in s : g[s] = f[y] + g[s \ {y}]
  <1> DEFINE Bad == {s \in SUBSET S : \E y \in s : g[s] # f[y] + g[s \ {y}]}
             B == {Cardinality(s) : s \in Bad}
  <1>0. IsFiniteSet(S) /\ \A x \in S : f[x] \in Nat
    BY DEF Summable
  <1> SUFFICES ASSUME Bad # {} PROVE FALSE
    OBVIOUS
  <1>1. B \subseteq Nat /\ B # {}
    <2>1. Bad \subseteq SUBSET S
      OBVIOUS
    <2> HIDE DEF Bad
    <2> QED
      BY <1>0, <2>1, SubsetFacts
  <1>2. PICK m \in B : \A n \in B : m <= n
    <2> HIDE DEF B
    <2> QED
      BY <1>1, LeastNat
  <1>3. PICK s \in Bad : m = Cardinality(s)
    OBVIOUS
  <1>4. PICK y \in s : g[s] # f[y] + g[s \ {y}]
    BY <1>3
  <1>5. PICK x : x = Pick(s)
    OBVIOUS
  <1>6. s \in SUBSET S /\ x \in s /\ s # {} /\ m \in Nat
    BY <1>0, <1>3, <1>4, <1>5, SubsetFacts
  <1>7. g[s] = f[x] + g[s \ {x}]
    BY <1>5, <1>6 DEF SumsUp
  <1>8. x # y
    BY <1>4, <1>7
  <1>9. ASSUME NEW t \in SUBSET S, Cardinality(t) < m, NEW z \in t
        PROVE  g[t] = f[z] + g[t \ {z}]
    <2>1. Cardinality(t) \in Nat
      BY <1>0, SubsetFacts
    <2>2. t \notin Bad
      <3> SUFFICES ASSUME t \in Bad PROVE FALSE
        OBVIOUS
      <3>1. Cardinality(t) \in B
        OBVIOUS
      <3> HIDE DEF B
      <3> QED
        BY <1>2, <1>6, <1>9, <2>1, <3>1
    <2> QED
      BY <2>2
  <1>10. \A z \in s : s \ {z} \in SUBSET S /\ Cardinality(s \ {z}) < m
    BY <1>0, <1>3, <1>6, SubsetFacts
  <1>11. g[s \ {x}] = f[y] + g[(s \ {x}) \ {y}]
    BY <1>6, <1>8, <1>9, <1>10
  <1>12. g[s \ {y}] = f[x] + g[(s \ {y}) \ {x}]
    BY <1>6, <1>8, <1>9, <1>10
  <1>13. (s \ {y}) \ {x} = (s \ {x}) \ {y}
    OBVIOUS
  <1>14. PICK t \in SUBSET S : t = (s \ {x}) \ {y}
    BY <1>6
  <1>15. g[t] \in Nat /\ f[x] \in Nat /\ f[y] \in Nat
    BY <1>0, <1>6, SumNat
  <1>16. g[s] = f[x] + (f[y] + g[t]) /\ g[s \ {y}] = f[x] + g[t]
    BY <1>7, <1>11, <1>12, <1>13, <1>14
  <1>17. g[s] = f[y] + g[s \ {y}]
    BY <1>15, <1>16
  <1> QED
    BY <1>4, <1>17

\* Functions that agree on a set have the same sum over it.
LEMMA SumAgrees ==
    ASSUME NEW f, NEW h, NEW S, NEW T, Summable(f, S), T \subseteq S,
           \A x \in T : h[x] = f[x],
           NEW g, \A s \in SUBSET S : SumsUp(f, g, s),
           NEW e, \A s \in SUBSET T : SumsUp(h, e, s)
    PROVE  \A s \in SUBSET T : e[s] = g[s]
  <1> DEFINE Bad == {s \in SUBSET T : e[s] # g[s]}
             B == {Cardinality(s) : s \in Bad}
  <1>0. IsFiniteSet(S) /\ SUBSET T \subseteq SUBSET S
    BY DEF Summable
  <1> SUFFICES ASSUME Bad # {} PROVE FALSE
    OBVIOUS
  <1>1. B \subseteq Nat /\ B # {}
    BY <1>0, SubsetFacts
  <1>2. PICK m \in B : \A n \in B : m <= n
    <2> HIDE DEF B
    <2> QED
      BY <1>1, LeastNat
  <1>3. PICK s \in Bad : m = Cardinality(s)
    OBVIOUS
  <1>4. s \in SUBSET T /\ s \in SUBSET S /\ e[s] # g[s]
    BY <1>0, <1>3
  <1>5. SumsUp(f, g, s) /\ SumsUp(h, e, s)
    BY <1>4
  <1>6. s # {}
    BY <1>4, <1>5 DEF SumsUp
  <1>7. PICK x : x = Pick(s)
    OBVIOUS
  <1>8. /\ x \in s /\ Cardinality(s \ {x}) \in Nat /\ m \in Nat
        /\ Cardinality(s \ {x}) = m - 1
    BY <1>0, <1>3, <1>4, <1>6, <1>7, SubsetFacts
  <1>9. s \ {x} \in SUBSET T /\ s \ {x} \notin Bad
    <2> SUFFICES ASSUME s \ {x} \in Bad PROVE FALSE
      BY <1>4
    <2>1. Cardinality(s \ {x}) \in B
      OBVIOUS
    <2> HIDE DEF B
    <2> QED
      BY <1>2, <1>8, <2>1
  <1>10. e[s \ {x}] = g[s \ {x}] /\ h[x] = f[x]
    BY <1>4, <1>8, <1>9
  <1>11. g[s] = f[x] + g[s \ {x}] /\ e[s] = h[x] + e[s \ {x}]
    BY <1>5, <1>6, <1>7 DEF SumsUp
  <1> HIDE DEF Bad
  <1> QED
    BY <1>4, <1>10, <1>11

\* The sum over the empty set.
LEMMA SumEmpty ==
    ASSUME NEW f
    PROVE  SumFunctionOnSet(f, {}) = 0
  <1>1. Summable(f, {})
    BY FS_EmptySet DEF Summable
  <1>2. PICK g : /\ \A s \in SUBSET {} : SumsUp(f, g, s)
                 /\ SumFunctionOnSet(f, {}) = g[{}]
    BY <1>1, SumSolves
  <1>3. SumsUp(f, g, {})
    BY <1>2
  <1> QED
    BY <1>2, <1>3 DEF SumsUp

\* The sum of functions that agree on the set.
LEMMA SumSame ==
    ASSUME NEW f, NEW h, NEW S, Summable(f, S), \A x \in S : h[x] = f[x]
    PROVE  SumFunctionOnSet(h, S) = SumFunctionOnSet(f, S)
  <1>1. Summable(h, S)
    BY DEF Summable
  <1>2. PICK g : /\ \A s \in SUBSET S : SumsUp(f, g, s)
                 /\ SumFunctionOnSet(f, S) = g[S]
    BY SumSolves
  <1>3. PICK e : /\ \A s \in SUBSET S : SumsUp(h, e, s)
                 /\ SumFunctionOnSet(h, S) = e[S]
    BY <1>1, SumSolves
  <1>4. S \subseteq S /\ S \in SUBSET S
    OBVIOUS
  <1>5. \A s \in SUBSET S : e[s] = g[s]
    BY <1>2, <1>3, <1>4, SumAgrees
  <1> QED
    BY <1>2, <1>3, <1>4, <1>5

\* One element's part of the sum.
LEMMA SumTakeOut ==
    ASSUME NEW f, NEW S, Summable(f, S), NEW y \in S
    PROVE  /\ SumFunctionOnSet(f, S) = f[y] + SumFunctionOnSet(f, S \ {y})
           /\ SumFunctionOnSet(f, S \ {y}) \in Nat
           /\ Summable(f, S \ {y})
  <1>1. Summable(f, S \ {y})
    BY FS_RemoveElement DEF Summable
  <1>2. PICK g : /\ \A s \in SUBSET S : SumsUp(f, g, s)
                 /\ SumFunctionOnSet(f, S) = g[S]
    BY SumSolves
  <1>3. PICK e : /\ \A s \in SUBSET (S \ {y}) : SumsUp(f, e, s)
                 /\ SumFunctionOnSet(f, S \ {y}) = e[S \ {y}]
    BY <1>1, SumSolves
  <1>4. \A s \in SUBSET (S \ {y}) : e[s] = g[s]
    <2> DEFINE T == S \ {y}
    <2>1. T \subseteq S /\ \A s \in SUBSET T : SumsUp(f, e, s)
      BY <1>3
    <2>2. \A x \in T : f[x] = f[x]
      OBVIOUS
    <2> HIDE DEF T
    <2>3. \A s \in SUBSET T : e[s] = g[s]
      BY <2>1, <2>2, <1>2, SumAgrees
    <2> QED
      BY <2>3 DEF T
  <1>5. g[S] = f[y] + g[S \ {y}] /\ g[S \ {y}] \in Nat
    BY <1>2, SumTakesAny, SumNat
  <1> QED
    BY <1>1, <1>2, <1>3, <1>4, <1>5

\* A sum of which one summand is raised.
LEMMA SumRaised ==
    ASSUME NEW f, NEW h, NEW S, Summable(f, S), NEW y \in S, NEW p \in Nat,
           h[y] = f[y] + p, \A x \in S \ {y} : h[x] = f[x]
    PROVE  SumFunctionOnSet(h, S) = SumFunctionOnSet(f, S) + p
  <1>1. f[y] \in Nat /\ \A x \in S : f[x] \in Nat
    BY DEF Summable
  <1>2. Summable(h, S)
    <2>1. \A x \in S : h[x] \in Nat
      BY <1>1
    <2> QED
      BY <2>1 DEF Summable
  <1>3. /\ SumFunctionOnSet(f, S) = f[y] + SumFunctionOnSet(f, S \ {y})
        /\ SumFunctionOnSet(f, S \ {y}) \in Nat /\ Summable(f, S \ {y})
    BY SumTakeOut
  <1>4. SumFunctionOnSet(h, S) = h[y] + SumFunctionOnSet(h, S \ {y})
    BY <1>2, SumTakeOut
  <1>5. SumFunctionOnSet(h, S \ {y}) = SumFunctionOnSet(f, S \ {y})
    BY <1>3, SumSame
  <1> QED
    BY <1>1, <1>3, <1>4, <1>5

\* A sum with a summand that is zero.
LEMMA SumWithZero ==
    ASSUME NEW f, NEW h, NEW S, Summable(f, S), NEW y, y \notin S,
           NEW T, T = S \cup {y}, h[y] = 0, \A x \in S : h[x] = f[x]
    PROVE  SumFunctionOnSet(h, T) = SumFunctionOnSet(f, S)
  <1>1. T \ {y} = S /\ y \in T
    OBVIOUS
  <1>2. Summable(h, T)
    <2>1. IsFiniteSet(T)
      BY FS_AddElement DEF Summable
    <2>2. \A x \in T : h[x] \in Nat
      BY DEF Summable
    <2> QED
      BY <2>1, <2>2 DEF Summable
  <1>3. /\ SumFunctionOnSet(h, T) = h[y] + SumFunctionOnSet(h, S)
        /\ SumFunctionOnSet(h, S) \in Nat
    BY <1>1, <1>2, SumTakeOut
  <1>4. SumFunctionOnSet(h, S) = SumFunctionOnSet(f, S)
    BY SumSame
  <1> QED
    BY <1>3, <1>4

\* The two sums of a set of results.
Passes(res, S) == [k \in S |-> res[k].totals.passed]
Failures(res, S) == [k \in S |-> res[k].totals.failed]

\* Sums is the pair of them.
LEMMA SumsParts ==
    ASSUME NEW res, NEW S
    PROVE  Sums(res, S) = [passed |-> SumFunctionOnSet(Passes(res, S), S),
                           failed |-> SumFunctionOnSet(Failures(res, S), S)]
  BY DEF Sums, Passes, Failures

\* Results that have totals can be summed.
LEMMA SumsDefined ==
    ASSUME NEW res, NEW S, IsFiniteSet(S),
           \A k \in S : res[k].totals \in TotalsType
    PROVE  Summable(Passes(res, S), S) /\ Summable(Failures(res, S), S)
  BY DEF Summable, Passes, Failures, TotalsType

\* No results: no assertions.
LEMMA SumsNone ==
    ASSUME NEW res
    PROVE  Sums(res, {}) = NoTotals
  <1>1. /\ SumFunctionOnSet(Passes(res, {}), {}) = 0
        /\ SumFunctionOnSet(Failures(res, {}), {}) = 0
    BY SumEmpty
  <1> QED
    BY <1>1, SumsParts DEF NoTotals

\* Only the totals count.
LEMMA SumsSame ==
    ASSUME NEW res, NEW new, NEW S, \A k \in S : new[k].totals = res[k].totals
    PROVE  Sums(new, S) = Sums(res, S)
  <1>1. Passes(new, S) = Passes(res, S) /\ Failures(new, S) = Failures(res, S)
    BY DEF Passes, Failures
  <1> QED
    BY <1>1, SumsParts

\* Assertions recorded in one of the results.
LEMMA SumsRaised ==
    ASSUME NEW res, NEW new, NEW S, IsFiniteSet(S),
           \A k \in S : res[k].totals \in TotalsType,
           NEW y \in S, NEW p \in Nat, NEW n \in Nat,
           new[y].totals = Bump(res[y].totals, p, n),
           \A k \in S \ {y} : new[k].totals = res[k].totals
    PROVE  Sums(new, S) = Bump(Sums(res, S), p, n)
  <1>1. Summable(Passes(res, S), S) /\ Summable(Failures(res, S), S)
    BY SumsDefined
  <1>2. /\ Passes(new, S)[y] = Passes(res, S)[y] + p
        /\ Failures(new, S)[y] = Failures(res, S)[y] + n
    BY DEF Passes, Failures, Bump
  <1>3. \A k \in S \ {y} : /\ Passes(new, S)[k] = Passes(res, S)[k]
                           /\ Failures(new, S)[k] = Failures(res, S)[k]
    BY DEF Passes, Failures
  <1>4. SumFunctionOnSet(Passes(new, S), S) = SumFunctionOnSet(Passes(res, S), S) + p
    BY <1>1, <1>2, <1>3, SumRaised
  <1>5. SumFunctionOnSet(Failures(new, S), S)
           = SumFunctionOnSet(Failures(res, S), S) + n
    BY <1>1, <1>2, <1>3, SumRaised
  <1> QED
    BY <1>4, <1>5, SumsParts DEF Bump

\* A new result, with nothing recorded in it.
LEMMA SumsNew ==
    ASSUME NEW res, NEW new, NEW S, IsFiniteSet(S),
           \A k \in S : res[k].totals \in TotalsType,
           NEW y, y \notin S, new[y].totals = NoTotals,
           \A k \in S : new[k].totals = res[k].totals
    PROVE  Sums(new, S \cup {y}) = Sums(res, S)
  <1>1. Summable(Passes(res, S), S) /\ Summable(Failures(res, S), S)
    BY SumsDefined
  <1>2. PICK T : T = S \cup {y}
    OBVIOUS
  <1>3. Passes(new, T)[y] = 0 /\ Failures(new, T)[y] = 0
    BY <1>2 DEF Passes, Failures, NoTotals
  <1>4. \A k \in S : /\ Passes(new, T)[k] = Passes(res, S)[k]
                     /\ Failures(new, T)[k] = Failures(res, S)[k]
    BY <1>2 DEF Passes, Failures
  <1>5. SumFunctionOnSet(Passes(new, T), T) = SumFunctionOnSet(Passes(res, S), S)
    <2>1. PICK f : f = Passes(res, S)
      OBVIOUS
    <2>2. PICK h : h = Passes(new, T)
      OBVIOUS
    <2>3. Summable(f, S) /\ h[y] = 0 /\ \A k \in S : h[k] = f[k]
      BY <1>1, <1>3, <1>4, <2>1, <2>2
    <2>4. SumFunctionOnSet(h, T) = SumFunctionOnSet(f, S)
      BY <1>2, <2>3, SumWithZero
    <2> QED
      BY <2>1, <2>2, <2>4
  <1>6. SumFunctionOnSet(Failures(new, T), T) = SumFunctionOnSet(Failures(res, S), S)
    <2>1. PICK f : f = Failures(res, S)
      OBVIOUS
    <2>2. PICK h : h = Failures(new, T)
      OBVIOUS
    <2>3. Summable(f, S) /\ h[y] = 0 /\ \A k \in S : h[k] = f[k]
      BY <1>1, <1>3, <1>4, <2>1, <2>2
    <2>4. SumFunctionOnSet(h, T) = SumFunctionOnSet(f, S)
      BY <1>2, <2>3, SumWithZero
    <2> QED
      BY <2>1, <2>2, <2>4
  <1> QED
    BY <1>2, <1>5, <1>6, SumsParts

-----------------------------------------------------------------------------
(* The three levels of the report.                                         *)

\* A step that leaves every total alone.
TotalsKept ==
    /\ DOMAIN results' = DOMAIN results
    /\ \A k \in DOMAIN results : results'[k].totals = results[k].totals
    /\ DOMAIN groupRes' = DOMAIN groupRes
    /\ \A g \in DOMAIN groupRes : groupRes'[g].totals = groupRes[g].totals
    /\ configRes' = configRes

\* The results of a group's cases and the groups' results: finitely many,
\* each with its totals.
LEMMA ReportFacts ==
    ASSUME Inv
    PROVE  /\ \A g \in Groups : IsFiniteSet(CasesOf(g))
           /\ \A k \in DOMAIN results : results[k].totals \in TotalsType
           /\ DOMAIN groupRes = 1..Len(groupRes) /\ Len(groupRes) \in Nat
           /\ Len(groupRes) = (IF pc = "group" THEN group - 1 ELSE group)
           /\ DOMAIN groupRes \subseteq Groups /\ IsFiniteSet(DOMAIN groupRes)
           /\ \A g \in DOMAIN groupRes : groupRes[g].totals \in TotalsType
           /\ group \in Groups /\ group \in Nat \ {0}
           /\ configRes \in TotalsType
  <1>1. /\ DOMAIN results \subseteq CaseIds
        /\ \A k \in DOMAIN results : results[k] \in CaseResult
        /\ groupRes \in Seq(GroupResult) /\ configRes \in TotalsType
        /\ group \in Groups
    BY DEF Inv, TypeOK, CaseResult, GroupResult
  <1>2. ASSUME NEW g \in Groups
        PROVE  IsFiniteSet(CasesOf(g))
    <2>1. CaseCount[g] \in Nat
      BY CountFacts
    <2>2. IsFiniteSet({g}) /\ IsFiniteSet(1..CaseCount[g])
      <3>1. IsFiniteSet({g})
        BY FS_Singleton
      <3>2. PICK c \in Int : c = CaseCount[g]
        BY <2>1
      <3>3. IsFiniteSet(1..c)
        BY FS_Interval
      <3> QED
        BY <3>1, <3>2, <3>3
    <2>3. PICK P : P = {g} \X (1..CaseCount[g])
      OBVIOUS
    <2>4. IsFiniteSet(P)
      BY <2>2, <2>3, FS_Product
    <2>5. CasesOf(g) \subseteq P
      <3> SUFFICES ASSUME NEW k \in DOMAIN results, k[1] = g
                   PROVE  k \in P
        BY DEF CasesOf
      <3>1. k = <<k[1], k[2]>> /\ <<k[1], k[2]>> \in CaseIds
        BY <1>1, IdFields
      <3>2. k[2] \in 1..CaseCount[g]
        BY <3>1, CaseIdFacts
      <3> QED
        BY <2>3, <3>1, <3>2
    <2> QED
      BY <2>4, <2>5, FS_Subset
  <1>3. \A k \in DOMAIN results : results[k].totals \in TotalsType
    BY <1>1 DEF CaseResult
  <1>4. /\ DOMAIN groupRes = 1..Len(groupRes) /\ Len(groupRes) \in Nat
        /\ \A g \in DOMAIN groupRes : groupRes[g].totals \in TotalsType
    <2>1. /\ DOMAIN groupRes = 1..Len(groupRes) /\ Len(groupRes) \in Nat
          /\ \A g \in 1..Len(groupRes) : groupRes[g] \in GroupResult
      BY <1>1
    <2>2. \A r \in GroupResult : r.totals \in TotalsType
      BY DEF GroupResult
    <2> QED
      BY <2>1, <2>2
  <1>5. Len(groupRes) = (IF pc = "group" THEN group - 1 ELSE group)
    BY DEF Inv, GroupsKnown
  <1>6. Groups = 1..Len(CaseCount) /\ Len(CaseCount) \in Nat
    BY CountFacts DEF Groups
  <1>7. DOMAIN groupRes \subseteq Groups
    BY <1>1, <1>4, <1>5, <1>6
  <1>8. IsFiniteSet(DOMAIN groupRes)
    BY <1>4, FS_Interval
  <1> QED
    BY <1>1, <1>2, <1>3, <1>4, <1>5, <1>6, <1>7, <1>8

\* Most steps leave the totals alone.
LEMMA StepKinds ==
    ASSUME Inv, [Next]_vars
    PROVE  TotalsKept \/ StartCase \/ GroupSetup \/ CaseRun
  <1> USE RunnerAssumption DEF Inv, TypeOK, TotalsKept, hardware, report
  <1>3. CASE NextCase
    BY <1>3 DEF NextCase
  <1>4. CASE GroupTeardown
    <2>1. groupRes \in Seq(GroupResult) /\ group \in 1..Len(groupRes)
      BY <1>4, CountFacts DEF GroupResult, GroupsKnown, GroupTeardown, Groups
    <2> DEFINE torn == [groupRes[group] EXCEPT !.teardown = "PASS"]
    <2>2. groupRes' \in {groupRes, [groupRes EXCEPT ![group] = torn]}
      BY <1>4 DEF GroupTeardown
    <2>3. torn.totals = groupRes[group].totals
      <3>1. groupRes[group] \in GroupResult
        BY <2>1
      <3> QED
        BY <3>1 DEF GroupResult
    <2> HIDE DEF torn
    <2>4. /\ DOMAIN groupRes' = DOMAIN groupRes
          /\ \A g \in DOMAIN groupRes : groupRes'[g].totals = groupRes[g].totals
      BY <2>1, <2>2, <2>3
    <2> QED
      BY <1>4, <2>4 DEF GroupTeardown
  <1>5. CASE Support
    BY <1>5, ItemRecorded, ItemFacts DEF Support, Funcs, Results, AsResult
  <1>6. CASE EnableDefault
    BY <1>6, ItemRecorded, ItemFacts DEF EnableDefault, Funcs, Results, AsResult
  <1>7. CASE EnableControl
    BY <1>7, ItemRecorded, ItemFacts DEF EnableControl, Funcs, Results
  <1>8. CASE EnableFlit
    BY <1>8 DEF EnableFlit
  <1>9. CASE CaseSetup
    BY <1>9 DEF CaseSetup
  <1>11. CASE Check
    BY <1>11, ItemRecorded, ItemFacts DEF Check, Funcs, Results, AsResult
  <1>12. CASE CaseTeardown
    BY <1>12 DEF CaseTeardown
  <1>13. CASE DisableDefault
    BY <1>13 DEF DisableDefault
  <1>14. CASE DisableControl
    BY <1>14, ItemRecorded, ItemFacts DEF DisableControl, Funcs, Results
  <1>15. CASE DisableFlit
    BY <1>15 DEF DisableFlit
  <1>16. CASE UNCHANGED walk
    BY <1>16 DEF walk
  <1> QED
    BY <1>3, <1>4, <1>5, <1>6, <1>7, <1>8, <1>9, <1>11,
       <1>12, <1>13, <1>14, <1>15, <1>16
    DEF Next, Step, CallbackHangs, vars

\* Totals that stay the same go on agreeing.
LEMMA KeptAccounting ==
    ASSUME Accounting, TotalsKept
    PROVE  Accounting'
  <1>1. ASSUME NEW g \in DOMAIN groupRes
        PROVE  groupRes'[g].totals = Sums(results', CasesOf(g)')
    <2>1. CasesOf(g)' = CasesOf(g) /\ CasesOf(g) \subseteq DOMAIN results
      BY DEF CasesOf, TotalsKept
    <2>2. Sums(results', CasesOf(g)) = Sums(results, CasesOf(g))
      BY <2>1, SumsSame DEF TotalsKept
    <2> QED
      BY <2>1, <2>2 DEF Accounting, TotalsKept
  <1>2. Sums(groupRes', DOMAIN groupRes) = Sums(groupRes, DOMAIN groupRes)
    BY SumsSame DEF TotalsKept
  <1>3. DOMAIN groupRes' = DOMAIN groupRes /\ configRes' = configRes
    BY DEF TotalsKept
  <1>4. configRes' = Sums(groupRes', DOMAIN groupRes')
    BY <1>2, <1>3 DEF Accounting
  <1> QED
    BY <1>1, <1>3, <1>4 DEF Accounting

\* A case begins with nothing in its totals.
LEMMA StartCaseAccounting ==
    ASSUME Inv, Visited, Accounting, StartCase
    PROVE  Accounting'
  <1>1. PICK k : k = <<group, case>>
    OBVIOUS
  <1>2. /\ pc = "case" /\ k[1] = group /\ k[2] = case
        /\ results' = [j \in DOMAIN results \cup {k} |->
                          IF j = k THEN EmptyResult ELSE results[j]]
        /\ groupRes' = groupRes /\ configRes' = configRes
    BY <1>1 DEF StartCase
  <1>3. k \notin DOMAIN results
    <2>1. case \in Nat
      BY <1>2, CaseIdFacts, CountFacts DEF Inv, TypeOK
    <2> QED
      BY <1>2, <2>1 DEF Visited
  <1>4. /\ DOMAIN results' = DOMAIN results \cup {k}
        /\ results'[k].totals = NoTotals
        /\ \A j \in DOMAIN results : results'[j] = results[j]
    BY <1>2, <1>3 DEF EmptyResult
  <1>5. ASSUME NEW g \in DOMAIN groupRes
        PROVE  groupRes[g].totals = Sums(results', CasesOf(g)')
    <2>0. /\ CasesOf(g) \subseteq DOMAIN results
          /\ k \notin CasesOf(g)
          /\ groupRes[g].totals = Sums(results, CasesOf(g))
          /\ CasesOf(g)' = {j \in DOMAIN results' : j[1] = g}
      BY <1>3 DEF CasesOf, Accounting
    <2>1. CASE g = group
      <3>1. CasesOf(g)' = CasesOf(g) \cup {k}
        BY <1>2, <1>4, <2>0, <2>1 DEF CasesOf
      <3>2. /\ IsFiniteSet(CasesOf(g))
            /\ \A j \in CasesOf(g) : results[j].totals \in TotalsType
        BY <2>0, ReportFacts
      <3>3. Sums(results', CasesOf(g) \cup {k}) = Sums(results, CasesOf(g))
        BY <1>4, <2>0, <3>2, SumsNew
      <3> QED
        BY <2>0, <3>1, <3>3
    <2>2. CASE g # group
      <3>1. CasesOf(g)' = CasesOf(g)
        BY <1>2, <1>4, <2>0, <2>2 DEF CasesOf
      <3>2. Sums(results', CasesOf(g)) = Sums(results, CasesOf(g))
        BY <1>4, <2>0, SumsSame
      <3> QED
        BY <2>0, <3>1, <3>2
    <2> QED
      BY <2>1, <2>2
  <1> QED
    BY <1>2, <1>5 DEF Accounting

\* So does a group, which has no case yet.
LEMMA GroupSetupAccounting ==
    ASSUME Inv, Accounting, GroupSetup
    PROVE  Accounting'
  <1>1. PICK ok \in BOOLEAN :
           groupRes' = Append(groupRes, [EmptyGroup EXCEPT !.setup = AsResult(ok)])
    BY DEF GroupSetup
  <1>2. PICK e : e = [EmptyGroup EXCEPT !.setup = AsResult(ok)]
    OBVIOUS
  <1>3. e \in GroupResult /\ e.totals = NoTotals
    BY <1>2 DEF EmptyGroup, GroupResult, AsResult, NoTotals, TotalsType, Results
  <1>4. /\ results' = results /\ configRes' = configRes /\ pc = "group"
        /\ groupRes \in Seq(GroupResult) /\ Len(groupRes) = group - 1
        /\ group \in Nat \ {0}
    BY ReportFacts DEF GroupSetup, Inv, TypeOK, GroupResult
  <1>5. /\ DOMAIN groupRes = 1..(group - 1) /\ DOMAIN groupRes' = 1..group
        /\ \A g \in DOMAIN groupRes : groupRes'[g] = groupRes[g]
        /\ groupRes'[group] = e
    BY <1>1, <1>2, <1>3, <1>4
  <1>6. /\ DOMAIN groupRes' = DOMAIN groupRes \cup {group}
        /\ group \notin DOMAIN groupRes
    BY <1>4, <1>5
  <1>7. Sums(groupRes', DOMAIN groupRes \cup {group}) = Sums(groupRes, DOMAIN groupRes)
    <2>1. PICK S : S = DOMAIN groupRes
      OBVIOUS
    <2>2. /\ IsFiniteSet(S) /\ group \notin S
          /\ \A g \in S : groupRes[g].totals \in TotalsType
          /\ \A g \in S : groupRes'[g].totals = groupRes[g].totals
          /\ groupRes'[group].totals = NoTotals
      BY <1>3, <1>5, <1>6, <2>1, ReportFacts
    <2>3. Sums(groupRes', S \cup {group}) = Sums(groupRes, S)
      BY <2>2, SumsNew
    <2> QED
      BY <2>1, <2>3
  <1>8. configRes' = Sums(groupRes', DOMAIN groupRes')
    BY <1>4, <1>6, <1>7 DEF Accounting
  <1>9. \A g : CasesOf(g)' = CasesOf(g)
    BY <1>4 DEF CasesOf
  <1>10. CasesOf(group) = {}
    <2>1. \A k \in DOMAIN results : k[1] \in 1..(group - 1)
      BY <1>4 DEF Inv, GroupsKnown
    <2> QED
      BY <1>4, <2>1 DEF CasesOf
  <1>11. Sums(results, CasesOf(group)) = NoTotals
    BY <1>10, SumsNone
  <1>12. ASSUME NEW g \in DOMAIN groupRes'
         PROVE  groupRes'[g].totals = Sums(results', CasesOf(g)')
    <2>1. CASE g = group
      BY <1>3, <1>4, <1>5, <1>9, <1>11, <2>1
    <2>2. CASE g \in DOMAIN groupRes
      BY <1>4, <1>5, <1>9, <2>2 DEF Accounting
    <2> QED
      BY <1>6, <2>1, <2>2
  <1> QED
    BY <1>8, <1>12 DEF Accounting

\* An assertion is counted once at each level.
LEMMA CaseRunAccounting ==
    ASSUME Inv, Accounting, CaseRun
    PROVE  Accounting'
  <1>1. PICK p \in 0..MaxAsserts, n \in 0..MaxAsserts : RecordAssertions(p, n)
    BY DEF CaseRun
  <1>2. p \in Nat /\ n \in Nat
    BY RunnerAssumption
  <1>3. /\ pc = "run" /\ current = <<group, case>> /\ current \in DOMAIN results
        /\ groupRes \in Seq(GroupResult) /\ group \in 1..Len(groupRes)
        /\ \A k \in DOMAIN results : results[k] \in CaseResult
    BY ReportFacts DEF CaseRun, Inv, TypeOK, CaseResult, GroupResult
  <1> DEFINE own == [results[current] EXCEPT !.totals =
                        Bump(results[current].totals, p, n)]
             sum == [groupRes[group] EXCEPT !.totals =
                        Bump(groupRes[group].totals, p, n)]
  <1>4. /\ results' = [results EXCEPT ![current] = own]
        /\ groupRes' = [groupRes EXCEPT ![group] = sum]
        /\ configRes' = Bump(configRes, p, n)
    BY <1>1 DEF RecordAssertions
  <1>5. own.totals = Bump(results[current].totals, p, n)
    <2>1. results[current] \in CaseResult
      BY <1>3
    <2> QED
      BY <2>1 DEF CaseResult
  <1>6. sum.totals = Bump(groupRes[group].totals, p, n)
    <2>1. groupRes[group] \in GroupResult
      BY <1>3
    <2> QED
      BY <2>1 DEF GroupResult
  <1> HIDE DEF own, sum
  <1>7. /\ DOMAIN results' = DOMAIN results
        /\ results'[current].totals = Bump(results[current].totals, p, n)
        /\ \A k \in DOMAIN results \ {current} : results'[k] = results[k]
    BY <1>3, <1>4, <1>5
  <1>8. /\ DOMAIN groupRes' = DOMAIN groupRes /\ group \in DOMAIN groupRes
        /\ groupRes'[group].totals = Bump(groupRes[group].totals, p, n)
        /\ \A g \in DOMAIN groupRes \ {group} : groupRes'[g] = groupRes[g]
    BY <1>3, <1>4, <1>6
  <1>9. Sums(groupRes', DOMAIN groupRes) = Bump(Sums(groupRes, DOMAIN groupRes), p, n)
    <2>1. /\ IsFiniteSet(DOMAIN groupRes)
          /\ \A g \in DOMAIN groupRes : groupRes[g].totals \in TotalsType
      BY ReportFacts
    <2>2. \A g \in DOMAIN groupRes \ {group} :
             groupRes'[g].totals = groupRes[g].totals
      BY <1>8
    <2>3. group \in DOMAIN groupRes
          /\ groupRes'[group].totals = Bump(groupRes[group].totals, p, n)
      BY <1>8
    <2> DEFINE S == DOMAIN groupRes
               old == groupRes
               new == groupRes'
    <2>4. /\ IsFiniteSet(S) /\ group \in S
          /\ \A g \in S : old[g].totals \in TotalsType
          /\ \A g \in S \ {group} : new[g].totals = old[g].totals
          /\ new[group].totals = Bump(old[group].totals, p, n)
      BY <2>1, <2>2, <2>3
    <2> HIDE DEF S, old, new
    <2>5. Sums(new, S) = Bump(Sums(old, S), p, n)
      BY <1>2, <2>4, SumsRaised
    <2> QED
      BY <2>5 DEF S, old, new
  <1>10. configRes' = Sums(groupRes', DOMAIN groupRes')
    BY <1>4, <1>8, <1>9 DEF Accounting
  <1>11. ASSUME NEW g \in DOMAIN groupRes
         PROVE  groupRes'[g].totals = Sums(results', CasesOf(g)')
    <2>0. /\ CasesOf(g)' = CasesOf(g) /\ CasesOf(g) \subseteq DOMAIN results
          /\ groupRes[g].totals = Sums(results, CasesOf(g))
      BY <1>7 DEF CasesOf, Accounting
    <2>1. CASE g = group
      <3>1. current \in CasesOf(g)
        BY <1>3, <2>1 DEF CasesOf
      <3>2. /\ IsFiniteSet(CasesOf(g))
            /\ \A j \in CasesOf(g) : results[j].totals \in TotalsType
        BY <2>0, ReportFacts
      <3> DEFINE S == CasesOf(g)
                 old == results
                 new == results'
      <3>4. /\ IsFiniteSet(S) /\ current \in S
            /\ \A j \in S : old[j].totals \in TotalsType
            /\ \A j \in S \ {current} : new[j].totals = old[j].totals
            /\ new[current].totals = Bump(old[current].totals, p, n)
        <4>1. \A j \in S \ {current} : j \in DOMAIN results \ {current}
          BY <2>0
        <4>2. \A j \in S \ {current} : results'[j] = results[j]
          BY <1>7, <4>1
        <4> QED
          BY <1>7, <3>1, <3>2, <4>2
      <3> HIDE DEF S, old, new
      <3>5. Sums(new, S) = Bump(Sums(old, S), p, n)
        BY <1>2, <3>4, SumsRaised
      <3>3. Sums(results', CasesOf(g)) = Bump(Sums(results, CasesOf(g)), p, n)
        BY <3>5 DEF S, old, new
      <3> QED
        BY <1>8, <2>0, <2>1, <3>3
    <2>2. CASE g # group
      <3>1. current \notin CasesOf(g)
        BY <1>3, <2>2 DEF CasesOf
      <3>2. Sums(results', CasesOf(g)) = Sums(results, CasesOf(g))
        BY <1>7, <2>0, <3>1, SumsSame
      <3> QED
        BY <1>8, <2>0, <2>2, <3>2
    <2> QED
      BY <2>1, <2>2
  <1> QED
    BY <1>8, <1>10, <1>11 DEF Accounting

\* The walk over the cases goes forward.
LEMMA VisitedStep == Inv /\ Visited /\ [Next]_vars => Visited'
  <1> SUFFICES ASSUME Inv, Visited, [Next]_vars PROVE Visited'
    OBVIOUS
  <1>0. /\ group \in Nat
        /\ pc # "group" => case \in Nat
        /\ \A k \in DOMAIN results : /\ k[1] \in Nat /\ k[2] \in Nat
                                     /\ k[1] <= (IF pc = "group" THEN group - 1
                                                                 ELSE group)
    <2>1. /\ DOMAIN results \subseteq CaseIds
          /\ pc # "group" => <<group, case>> \in CaseIds
      BY DEF Inv, TypeOK
    <2>2. \A k \in CaseIds : k[1] \in Groups /\ k[2] \in 1..CaseCount[k[1]]
      BY IdFields, CaseIdFacts
    <2>3. \A k \in CaseIds : k[1] \in Nat /\ k[2] \in Nat
      BY <2>2, CountFacts DEF Groups
    <2>4. \A k \in DOMAIN results : k[1] \in 1..Len(groupRes)
      BY DEF Inv, GroupsKnown
    <2> QED
      BY <2>1, <2>3, <2>4, ReportFacts
  <1> USE RunnerAssumption DEF Visited, hardware, report
  <1>1. CASE GroupSetup
    BY <1>0, <1>1 DEF GroupSetup
  <1>2. CASE StartCase
    <2>1. /\ pc = "case" /\ pc' # "group" /\ pc' # "case"
          /\ group' = group /\ case' = case
          /\ DOMAIN results' = DOMAIN results \cup {<<group, case>>}
      BY <1>2 DEF StartCase
    <2> QED
      BY <1>0, <2>1
  <1>3. CASE NextCase
    BY <1>0, <1>3 DEF NextCase
  <1>4. CASE GroupTeardown
    <2>1. /\ pc = "group_teardown" /\ case' = case /\ results' = results
          /\ \/ pc' = "done" /\ group' = group
             \/ pc' = "group" /\ group' = group + 1
      BY <1>4 DEF GroupTeardown
    <2> QED
      BY <1>0, <2>1
  <1>5. CASE /\ ~GroupSetup /\ ~StartCase /\ ~NextCase /\ ~GroupTeardown
             /\ ~UNCHANGED walk
    <2>1. /\ group' = group /\ case' = case
          /\ pc \notin {"group", "case"} /\ pc' \notin {"group", "case"}
      BY <1>5 DEF Next, Step, CallbackHangs, vars, Support, EnableDefault, EnableControl, EnableFlit,
         CaseSetup, CaseRun, Check, CaseTeardown, DisableDefault,
         DisableControl, DisableFlit, Advance, Return
    <2>2. DOMAIN results' = DOMAIN results
      <3>1. CASE TotalsKept
        BY <3>1 DEF TotalsKept
      <3>2. CASE CaseRun
        BY <3>2 DEF CaseRun, RecordAssertions
      <3> QED
        BY <1>5, <3>1, <3>2, StepKinds
    <2> QED
      BY <2>1, <2>2
  <1>6. CASE UNCHANGED walk
    BY <1>6 DEF walk
  <1> QED
    BY <1>1, <1>2, <1>3, <1>4, <1>5, <1>6

\* At the start there is nothing to add up.
LEMMA InitAccounting == Init => Visited /\ Accounting
  <1> SUFFICES ASSUME Init PROVE Visited /\ Accounting
    OBVIOUS
  <1>1. DOMAIN results = {} /\ DOMAIN groupRes = {} /\ configRes = NoTotals
    BY DEF Init
  <1>2. Sums(groupRes, {}) = NoTotals
    BY SumsNone
  <1> QED
    BY <1>1, <1>2 DEF Visited, Accounting

-----------------------------------------------------------------------------
(***************************************************************************)
(* The theorems.                                                           *)
(***************************************************************************)
\* The conjunction Inv is preserved by every step.
LEMMA InvStep == Inv /\ [Next]_vars => Inv'
  <1>1. Inv /\ [Next]_vars => TypeOK'
    <2>1. TypeOK' <=> /\ HardwareType' /\ PlaceType' /\ ItemType'
                      /\ ResultType' /\ GroupType' /\ ConfigType'
                      /\ CurrentType' /\ StuckType'
      BY TypeParts, PTL
    <2> QED
      BY <2>1, HardwareTypeStep, PlaceTypeStep, ItemTypeStep, ResultTypeStep,
         GroupTypeStep, ConfigTypeStep, CurrentTypeStep, StuckTypeStep,
         TypeParts DEF Inv
  <1> QED
    BY <1>1, ControlStep, GroupsStep, RegistersStep, RecordedStep, EarnedStep
    DEF Inv

\* The conjunction Inv holds in every reachable state.
THEOREM Invariance == Spec => []Inv
  BY InitInv, InvStep, PTL DEF Spec

\* Type correctness: in particular g_current_case_result points at the
\* running case whenever a callback can record into it, so that
\* teeio_record_assertion_result never hangs.
THEOREM TypeCorrect == Spec => []TypeOK
  <1>1. Inv => TypeOK
    BY DEF Inv
  <1> QED
    BY Invariance, <1>1, PTL

\* When a run function is called the registers hold the suite's
\* configuration, whatever was left in them (do_run_test_config_enable).
THEOREM ConfigInForceCorrect == Spec => []ConfigInForce
  <1>1. Inv => ConfigInForce
    BY InForce DEF Inv
  <1> QED
    BY Invariance, <1>1, PTL

\* A case the report calls PASS was set up, supported, enabled and run
\* (do_run_test_case, print_test_results).
THEOREM PassMeansTestedCorrect == Spec => []PassMeansTested
  <1>1. Inv => PassMeansTested
    BY PassEarned DEF Inv
  <1> QED
    BY Invariance, <1>1, PTL

\* The disable functions of a case leave no control bit of the configuration
\* in either port (do_run_test_config_disable).
THEOREM ControlsReleasedCorrect == Spec => ControlsReleased
  <1>1. Inv /\ [Next]_vars =>
           [pc = "disable" /\ pc' = "next" =>
               \A p \in Ports : ctrl'[p] = {}]_vars
    BY ReleaseStep
  <1> QED
    BY Invariance, <1>1, PTL DEF Spec, ControlsReleased

\* The three levels of the report agree: what the summary prints for a group
\* and for the suite is the sum over their cases, each assertion counted once
\* (teeio_record_assertion_result).
THEOREM AccountingCorrect == Spec => []Accounting
  <1>1. Init => Visited /\ Accounting
    BY InitAccounting
  <1>2. Inv /\ Visited /\ Accounting /\ [Next]_vars => Visited' /\ Accounting'
    BY VisitedStep, StepKinds, KeptAccounting, StartCaseAccounting,
       GroupSetupAccounting, CaseRunAccounting
  <1> QED
    BY Invariance, <1>1, <1>2, PTL DEF Spec

=============================================================================
