-------------------------- MODULE IdeStreamProofs ---------------------------
(***************************************************************************)
(* Invariance proofs for IdeStream, for every number of slot triples,      *)
(* cases and rounds.                                                       *)
(***************************************************************************)
EXTENDS IdeStream, TLAPS

\* Slots of different triples are different, and a triple's slots exist.
LEMMA TripleFacts ==
    /\ \A t \in Triples : t \in Nat /\ (t \div 3) * 3 = t
    /\ \A t \in Triples, s \in Subs : t + s \in Slots
    /\ \A t, u \in Triples, s, j \in Subs : t # u => t + s # u + j
  BY IdeStreamAssumption DEF Triples, Subs, Slots

LEMMA InitInv == Init => Inv
  <1> SUFFICES ASSUME Init PROVE Inv
    OBVIOUS
  <1>1. k_set \in Triples /\ k_set \notin others /\ known = others
    BY DEF Init, FreeTriples, UsedTriples
  <1>2. 0 \in Slots
    BY IdeStreamAssumption DEF Slots
  <1>3. TypeOK
    <2>1. /\ devKey \in [Places -> Nat] /\ keySet \in [Places -> Slots]
          /\ act \in [Subs -> KeySets \cup {NoKeySet}]
          /\ slotKey \in [Dirs \X Slots -> Int]
      BY <1>2 DEF Init
    <2>2. pc \in Steps /\ case \in Cases /\ dir \in Dirs /\ sub \in Subs
      BY DEF Init, Steps, Cases, Dirs, Subs
    <2>3. ks \in KeySets /\ mKeySet \in KeySets
      BY DEF Init, KeySets
    <2>4. rounds \in Nat /\ cases \in Nat /\ nextKey \in Nat \ {0}
      BY DEF Init
    <2>5. /\ went \in SUBSET Places /\ ready \in SUBSET (KeySets \X Dirs)
          /\ select \in KeySets \cup {NoKeySet} /\ others \in SUBSET Triples
          /\ known \in SUBSET Triples /\ opens \in Nat
      BY DEF Init
    <2>6. /\ auto \in BOOLEAN /\ switching \in BOOLEAN /\ dirty \in BOOLEAN
          /\ devEn \in BOOLEAN /\ rpEn \in BOOLEAN
      BY DEF Init
    <2> QED
      BY <1>1, <2>1, <2>2, <2>3, <2>4, <2>5, <2>6 DEF TypeOK
  <1>4. Enables /\ ProgProgress /\ GoProgress /\ OldKeySet /\ TrafficKeys
    BY DEF Init, Enables, ProgProgress, GoProgress, OldKeySet, TrafficKeys,
       SetUpSteps, TearDownSteps, AfterProg, Live
  <1>5. SlotsFree /\ StopProgress /\ Quiesced
    BY <1>1 DEF Init, SlotsFree, StopProgress, Quiesced
  <1> QED
    BY <1>3, <1>4, <1>5 DEF Inv

-----------------------------------------------------------------------------
LEMMA TypeStep == TypeOK /\ [Next]_vars => TypeOK'
  <1> SUFFICES ASSUME TypeOK, [Next]_vars PROVE TypeOK'
    OBVIOUS
  <1> USE DEF TypeOK, plan, place, dev, rp, env, Steps
  <1>1. CASE pci_ide_km_query
    BY <1>1 DEF pci_ide_km_query, Fail, Dirs, Subs
  <1>2. CASE ide_km_key_prog
    <2>1. k_set + sub \in Slots
      BY TripleFacts
    <2>2. <<ks, dir, sub>> \in Places /\ nextKey \in Nat
      BY DEF Places
    <2>3. -nextKey \in Int
      BY <2>2
    <2>4. devKey' \in [Places -> Nat] /\ went' \in SUBSET Places
      BY <1>2, <2>2 DEF ide_km_key_prog, DeviceTakesKey
    <2>5. slotKey' \in [Dirs \X Slots -> Int] /\ keySet' \in [Places -> Slots]
      BY <1>2, <2>1, <2>2, <2>3
      DEF ide_km_key_prog, cfg_rootport_ide_keys, pcie_construct_rp_keys
    <2>6. ready' \in SUBSET (KeySets \X Dirs)
      BY <1>2 DEF ide_km_key_prog, cfg_rootport_ide_keys
    <2>7. sub' \in Subs /\ dir' \in Dirs /\ pc' \in Steps
      BY <1>2 DEF ide_km_key_prog, Advance, Subs, Dirs
    <2> QED
      BY <1>2, <2>4, <2>5, <2>6, <2>7
      DEF ide_km_key_prog, Advance, DeviceTakesKey, cfg_rootport_ide_keys
  <1>3. CASE KeyProgFails
    <2>2. <<ks, dir, sub>> \in Places /\ nextKey \in Nat
      BY DEF Places
    <2>4. devKey' \in [Places -> Nat] /\ went' \in SUBSET Places
      BY <1>3, <2>2 DEF KeyProgFails, DeviceTakesKey
    <2> QED
      BY <1>3, <2>4 DEF KeyProgFails, Fail, DeviceTakesKey
  <1>4. CASE prime_rp_ide_key_set
    BY <1>4 DEF prime_rp_ide_key_set, Dirs, Subs
  <1>5. CASE ide_km_key_set_go
    <2>1. went' \in SUBSET Places
      BY <1>5 DEF ide_km_key_set_go, DeviceGoes, Places
    <2>2. act' \in [Subs -> KeySets \cup {NoKeySet}]
      BY <1>5 DEF ide_km_key_set_go, DeviceGoes
    <2>3. sub' \in Subs /\ dir' \in Dirs /\ pc' \in Steps
      BY <1>5 DEF ide_km_key_set_go, Advance, Subs, Dirs
    <2> QED
      BY <1>5, <2>1, <2>2, <2>3 DEF ide_km_key_set_go, DeviceGoes, Advance
  <1>6. CASE KSetGoFails
    <2>1. went' \in SUBSET Places
      BY <1>6 DEF KSetGoFails, DeviceGoes, Places
    <2>2. act' \in [Subs -> KeySets \cup {NoKeySet}]
      BY <1>6 DEF KSetGoFails, DeviceGoes
    <2> QED
      BY <1>6, <2>1, <2>2 DEF KSetGoFails, DeviceGoes, Fail
  <1>7. CASE set_rp_ide_key_set_select
    BY <1>7 DEF set_rp_ide_key_set_select, GoOn
  <1>8. CASE EnableDevice
    BY <1>8 DEF EnableDevice, GoOn
  <1>9. CASE enable_rootport_ide_stream
    BY <1>9 DEF enable_rootport_ide_stream, GoOn
  <1>10. CASE is_ide_stream_secure
    BY <1>10 DEF is_ide_stream_secure, Fail
  <1>11. CASE RoundsDone \/ OperatorQuits
    BY <1>11 DEF RoundsDone, OperatorQuits, GoOn
  <1>12. CASE KeyRefresh
    <2>1. rounds' \in Nat /\ ks' \in KeySets
      BY <1>12 DEF KeyRefresh, KeySets
    <2>2. switching' \in BOOLEAN
      BY <1>12, Zenon DEF KeyRefresh, Live
    <2>3. pc' \in Steps
      BY <1>12 DEF KeyRefresh
    <2> QED
      BY <1>12, <2>1, <2>2, <2>3 DEF KeyRefresh
  <1>13. CASE pcie_ide_alloc_slot_ids
    BY <1>13 DEF pcie_ide_alloc_slot_ids, FreeTriples, Dirs, Subs
  <1>14. CASE DisableDevice
    BY <1>14 DEF DisableDevice, GoOn
  <1>21. CASE DisableRootPort
    <2>1. sub' \in Subs /\ dir' \in Dirs
      BY <1>21 DEF DisableRootPort, Dirs, Subs
    <2> QED
      BY <1>21, <2>1 DEF DisableRootPort
  <1>15. CASE test_full_ide_km_key_set_stop
    <2>1. act' \in [Subs -> KeySets \cup {NoKeySet}] /\ went' \in SUBSET Places
      BY <1>15 DEF test_full_ide_km_key_set_stop, DeviceStops
    <2>2. sub' \in Subs /\ dir' \in Dirs /\ pc' \in Steps
      BY <1>15 DEF test_full_ide_km_key_set_stop, Advance, Subs, Dirs
    <2> QED
      BY <1>15, <2>1, <2>2
      DEF test_full_ide_km_key_set_stop, DeviceStops, Advance
  <1>16. CASE KSetStopFails
    <2>1. act' \in [Subs -> KeySets \cup {NoKeySet}] /\ went' \in SUBSET Places
      BY <1>16 DEF KSetStopFails, DeviceStops
    <2> QED
      BY <1>16, <2>1 DEF KSetStopFails, DeviceStops
  <1>17. CASE BeginCase
    <2>1. 0 \in Slots
      BY IdeStreamAssumption DEF Slots
    <2>2. case' \in Cases /\ mKeySet' \in KeySets /\ ks' \in KeySets
      BY <1>17 DEF BeginCase, KeySets
    <2>3. keySet' \in [Places -> Slots]
      BY <1>17, <2>1 DEF BeginCase
    <2>4. cases' \in Nat /\ rounds' \in Nat /\ pc' \in Steps
      BY <1>17 DEF BeginCase
    <2>5. /\ ready' \in SUBSET (KeySets \X Dirs)
          /\ select' \in KeySets \cup {NoKeySet}
          /\ devEn' \in BOOLEAN /\ rpEn' \in BOOLEAN /\ switching' \in BOOLEAN
      BY <1>17 DEF BeginCase
    <2> QED
      BY <1>17, <2>2, <2>3, <2>4, <2>5 DEF BeginCase
  <1>18. CASE AllocQuit
    BY <1>18 DEF AllocQuit, Fail
  <1>19. CASE OtherCloses
    BY <1>19 DEF OtherCloses
  <1>20. CASE UNCHANGED vars
    BY <1>20 DEF vars
  <1>22. CASE OtherOpens
    <2>1. slotKey' \in [Dirs \X Slots -> Int]
      BY <1>22 DEF OtherOpens, Foreign
    <2>2. others' \in SUBSET Triples /\ opens' \in Nat
      BY <1>22 DEF OtherOpens
    <2> QED
      BY <1>22, <2>1, <2>2 DEF OtherOpens
  <1> QED
    BY <1>1, <1>2, <1>3, <1>4, <1>5, <1>6, <1>7, <1>8, <1>9, <1>10, <1>11,
       <1>12, <1>13, <1>14, <1>15, <1>16, <1>17, <1>18, <1>19, <1>20, <1>21,
       <1>22
    DEF Next, Validator

-----------------------------------------------------------------------------
(***************************************************************************)
(* KEY_PROG.                                                               *)
(***************************************************************************)
\* What a KEY_PROG that succeeds writes, and that it writes nothing else.
LEMMA KeyProgFrame ==
    ASSUME TypeOK, ide_km_key_prog
    PROVE  /\ devKey'[<<ks, dir, sub>>] = nextKey /\ nextKey # 0
           /\ keySet'[<<ks, dir, sub>>] = k_set + sub
           /\ slotKey'[<<dir, k_set + sub>>] = -nextKey
           /\ \A p \in Places : p # <<ks, dir, sub>> =>
                 devKey'[p] = devKey[p] /\ keySet'[p] = keySet[p]
           /\ \A q \in Dirs \X Slots : q # <<dir, k_set + sub>> =>
                 slotKey'[q] = slotKey[q]
           /\ ready' = ready \ {<<ks, dir>>}
           /\ went' = went \ {<<ks, dir, sub>>}
           /\ UNCHANGED <<plan, dir, k_set, select, act, devEn, rpEn, env>>
           /\ pc = "prog"
           /\ \/ pc' = "prog" /\ sub' = sub + 1
              \/ pc' = "prime" /\ sub = 2
  <1>1. <<ks, dir, sub>> \in Places
    BY DEF TypeOK, Places
  <1>2. <<dir, k_set + sub>> \in Dirs \X Slots
    BY TripleFacts DEF TypeOK
  <1>3. /\ devKey \in [Places -> Nat] /\ keySet \in [Places -> Slots]
        /\ slotKey \in [Dirs \X Slots -> Int] /\ nextKey \in Nat \ {0}
        /\ sub \in 0 .. 2
    BY DEF TypeOK, Subs
  <1>4. /\ devKey' = [devKey EXCEPT ![<<ks, dir, sub>>] = nextKey]
        /\ keySet' = [keySet EXCEPT ![<<ks, dir, sub>>] = k_set + sub]
        /\ slotKey' = [slotKey EXCEPT ![<<dir, k_set + sub>>] = -nextKey]
        /\ went' = went \ {<<ks, dir, sub>>}
        /\ ready' = ready \ {<<ks, dir>>}
        /\ UNCHANGED <<k_set, select, act, devEn, rpEn, env>>
    BY DEF ide_km_key_prog, DeviceTakesKey, cfg_rootport_ide_keys,
       pcie_construct_rp_keys
  <1>5. /\ pc = "prog" /\ UNCHANGED <<plan, dir>>
        /\ \/ pc' = "prog" /\ sub' = sub + 1
           \/ pc' = "prime" /\ sub = 2
    BY <1>3 DEF ide_km_key_prog, Advance
  <1> QED
    BY <1>1, <1>2, <1>3, <1>4, <1>5

LEMMA KeyProgProgress ==
    ASSUME Inv, ide_km_key_prog
    PROVE  ProgProgress'
  <1>1. TypeOK
    BY DEF Inv
  <1>2. /\ ks' = ks /\ dir' = dir /\ k_set' = k_set
        /\ pc = "prog"
        /\ \/ pc' = "prog" /\ sub' = sub + 1
           \/ pc' = "prime" /\ sub = 2
    BY <1>1, KeyProgFrame DEF plan
  <1>3. ks \in KeySets /\ dir \in Dirs /\ sub \in 0 .. 2 /\ k_set \in Triples
    BY <1>1 DEF TypeOK, Subs
  <1>4. \A s \in Subs : s = sub => Programmed(dir, s)'
    BY <1>1, <1>2, <1>3, KeyProgFrame DEF Programmed, pcie_construct_rp_keys
  <1>5. ASSUME NEW d \in Dirs, NEW s \in Subs, Programmed(d, s),
               d # dir \/ s # sub
        PROVE  Programmed(d, s)'
    <2>1. <<ks, d, s>> \in Places /\ <<ks, d, s>> # <<ks, dir, sub>>
      BY <1>3, <1>5 DEF Places
    <2>2. k_set + s \in Slots /\ k_set \in Nat
      BY <1>3, TripleFacts
    <2>3. <<d, k_set + s>> # <<dir, k_set + sub>>
      BY <1>3, <1>5, <2>2 DEF Subs
    <2>4. /\ keySet'[<<ks, d, s>>] = keySet[<<ks, d, s>>]
          /\ devKey'[<<ks, d, s>>] = devKey[<<ks, d, s>>]
      BY <1>1, <2>1, KeyProgFrame
    <2>5. slotKey'[<<d, k_set + s>>] = slotKey[<<d, k_set + s>>]
      BY <1>1, <2>2, <2>3, KeyProgFrame
    <2> QED
      BY <1>2, <1>5, <2>4, <2>5 DEF Programmed, pcie_construct_rp_keys
  <1>6. /\ \A s \in Subs : s < sub => Programmed(dir, s)
        /\ dir = "TX" => /\ \A s \in Subs : Programmed("RX", s)
                         /\ <<ks, "RX">> \in ready
    BY <1>2 DEF Inv, ProgProgress
  <1>7. \A s \in Subs : s <= sub => Programmed(dir, s)'
    <2>1. \A s \in Subs : s <= sub => s < sub \/ s = sub
      BY <1>3 DEF Subs
    <2> QED
      BY <1>2, <1>3, <1>4, <1>5, <1>6, <2>1 DEF Subs
  <1>8. dir = "TX" => \A s \in Subs : Programmed("RX", s)'
    BY <1>5, <1>6 DEF Dirs
  <1>9. dir = "TX" => <<ks, "RX">> \in ready'
    BY <1>1, <1>6, KeyProgFrame
  <1>10. CASE pc' = "prog" /\ sub' = sub + 1
    <2>1. \A s \in Subs : s < sub' => Programmed(dir, s)'
      BY <1>3, <1>7, <1>10 DEF Subs
    <2> QED
      BY <1>2, <1>8, <1>9, <1>10, <2>1 DEF ProgProgress, AfterProg
  <1>11. CASE pc' = "prime" /\ sub = 2
    <2>1. \A s \in Subs : Programmed(dir, s)'
      BY <1>7, <1>11 DEF Subs
    <2> QED
      BY <1>2, <1>8, <1>9, <1>11, <2>1 DEF ProgProgress, AfterProg
  <1> QED
    BY <1>2, <1>10, <1>11

\* The key set in use during a switch is not the one being programmed, and
\* its slots are not the ones being written.
LEMMA KeyProgSwitching ==
    ASSUME Inv, pc = "prog", switching \/ rpEn
    PROVE  /\ Live /\ switching /\ mKeySet # ks
           /\ select = mKeySet
           /\ \A s \in Subs : act[s] = mKeySet
           /\ \A d \in Dirs, s, j \in Subs : keySet[<<mKeySet, d, s>>] # k_set + j
           /\ \A s \in Subs : /\ Keyed(mKeySet, "RX", s)
                              /\ Keyed(mKeySet, "TX", s)
                              /\ <<mKeySet, "RX", s>> \in went
  <1>1. switching
    BY DEF Inv, Enables, SetUpSteps
  <1>2. Live /\ ks = 1 - mKeySet /\ mKeySet \in KeySets
    BY <1>1 DEF Inv, Enables, TearDownSteps, TypeOK
  <1>3. mKeySet # ks
    BY <1>2 DEF KeySets
  <1>4. /\ select = mKeySet
        /\ \A s \in Subs : act[s] = mKeySet
        /\ \A d \in Dirs, s, j \in Subs : keySet[<<mKeySet, d, s>>] # k_set + j
    BY <1>1 DEF Inv, OldKeySet
  <1>5. \A s \in Subs : /\ Keyed(mKeySet, "RX", s)
                        /\ Keyed(mKeySet, "TX", s)
                        /\ <<mKeySet, "RX", s>> \in went
    BY <1>2, <1>4 DEF Inv, TrafficKeys
  <1> QED
    BY <1>1, <1>2, <1>3, <1>4, <1>5

LEMMA KeyProgOld ==
    ASSUME Inv, ide_km_key_prog
    PROVE  OldKeySet' /\ TrafficKeys'
  <1>1. TypeOK
    BY DEF Inv
  <1>2. /\ mKeySet' = mKeySet /\ switching' = switching /\ pc = "prog"
        /\ pc' \in {"prog", "prime"} /\ select' = select /\ act' = act
        /\ k_set' = k_set /\ Live' = Live
        /\ went' = went \ {<<ks, dir, sub>>} /\ ready' = ready \ {<<ks, dir>>}
    BY <1>1, KeyProgFrame DEF plan, Live
  <1>3. CASE ~switching /\ ~rpEn
    BY <1>2, <1>3 DEF OldKeySet, TrafficKeys, Live
  <1>4. CASE switching \/ rpEn
    <2>1. /\ Live /\ switching /\ mKeySet # ks
          /\ select = mKeySet
          /\ \A s \in Subs : act[s] = mKeySet
          /\ \A d \in Dirs, s, j \in Subs : keySet[<<mKeySet, d, s>>] # k_set + j
          /\ \A s \in Subs : /\ Keyed(mKeySet, "RX", s)
                             /\ Keyed(mKeySet, "TX", s)
                             /\ <<mKeySet, "RX", s>> \in went
      BY <1>2, <1>4, KeyProgSwitching
    <2>2. mKeySet \in KeySets /\ sub \in Subs /\ keySet \in [Places -> Slots]
      BY <1>1 DEF TypeOK
    <2>3. ASSUME NEW d \in Dirs, NEW s \in Subs
          PROVE  /\ keySet'[<<mKeySet, d, s>>] = keySet[<<mKeySet, d, s>>]
                 /\ devKey'[<<mKeySet, d, s>>] = devKey[<<mKeySet, d, s>>]
                 /\ slotKey'[<<d, keySet[<<mKeySet, d, s>>]>>]
                      = slotKey[<<d, keySet[<<mKeySet, d, s>>]>>]
      <3>1. <<mKeySet, d, s>> \in Places
            /\ <<mKeySet, d, s>> # <<ks, dir, sub>>
        BY <2>1, <2>2 DEF Places
      <3>2. /\ <<d, keySet[<<mKeySet, d, s>>]>> \in Dirs \X Slots
            /\ <<d, keySet[<<mKeySet, d, s>>]>> # <<dir, k_set + sub>>
        BY <2>1, <2>2, <3>1
      <3> QED
        BY <1>1, <3>1, <3>2, KeyProgFrame
    <2>4. ASSUME NEW d \in Dirs, NEW s \in Subs, Keyed(mKeySet, d, s)
          PROVE  Keyed(mKeySet, d, s)'
      BY <1>2, <2>1, <2>3, <2>4 DEF Keyed, pcie_construct_rp_keys
    <2>5. \A s \in Subs : <<mKeySet, "RX", s>> \in went'
      BY <1>2, <2>1
    <2>6. TrafficKeys'
      BY <1>2, <2>1, <2>2, <2>4, <2>5 DEF TrafficKeys, Dirs
    <2>7. OldKeySet'
      BY <1>2, <2>1, <2>3 DEF OldKeySet
    <2> QED
      BY <2>6, <2>7
  <1> QED
    BY <1>3, <1>4

LEMMA KeyProgFailsTraffic ==
    ASSUME Inv, KeyProgFails
    PROVE  TrafficKeys'
  <1>1. /\ mKeySet' = mKeySet /\ pc = "prog" /\ select' = select
        /\ act' = act /\ Live' = Live /\ keySet' = keySet
        /\ slotKey' = slotKey /\ ready' = ready
        /\ went \ {<<ks, dir, sub>>} \subseteq went'
    BY DEF KeyProgFails, DeviceTakesKey, Fail, Live, dev, rp
  <1>2. CASE ~rpEn
    BY <1>1, <1>2 DEF TrafficKeys, Live
  <1>3. CASE rpEn
    <2>1. /\ mKeySet # ks /\ select = mKeySet
          /\ \A s \in Subs : act[s] = mKeySet
          /\ \A s \in Subs : /\ Keyed(mKeySet, "RX", s)
                             /\ Keyed(mKeySet, "TX", s)
                             /\ <<mKeySet, "RX", s>> \in went
      BY <1>1, <1>3, KeyProgSwitching
    <2>2. mKeySet \in KeySets /\ devKey \in [Places -> Nat]
      BY DEF Inv, TypeOK
    <2>3. devKey' = [devKey EXCEPT ![<<ks, dir, sub>>] = nextKey]
          \/ devKey' = devKey
      BY DEF KeyProgFails, DeviceTakesKey, dev
    <2>4. \A d \in Dirs, s \in Subs :
             devKey'[<<mKeySet, d, s>>] = devKey[<<mKeySet, d, s>>]
      BY <2>1, <2>2, <2>3 DEF Places
    <2>5. ASSUME NEW d \in Dirs, NEW s \in Subs, Keyed(mKeySet, d, s)
          PROVE  Keyed(mKeySet, d, s)'
      BY <1>1, <2>4, <2>5 DEF Keyed, pcie_construct_rp_keys
    <2>6. \A s \in Subs : <<mKeySet, "RX", s>> \in went'
      BY <1>1, <2>1
    <2> QED
      BY <1>1, <2>1, <2>2, <2>5, <2>6 DEF TrafficKeys, Dirs
  <1> QED
    BY <1>2, <1>3 DEF Inv, TypeOK

-----------------------------------------------------------------------------
(***************************************************************************)
(* The other steps that change what the invariants are about.              *)
(***************************************************************************)
LEMMA PrimeProgress ==
    ASSUME Inv, prime_rp_ide_key_set
    PROVE  ProgProgress'
  <1>1. /\ ks' = ks /\ k_set' = k_set /\ ready' = ready \cup {<<ks, dir>>}
        /\ keySet' = keySet /\ devKey' = devKey /\ slotKey' = slotKey
        /\ pc = "prime" /\ sub' = 0
        /\ dir = "RX" => pc' = "prog" /\ dir' = "TX"
        /\ dir # "RX" => pc' = "go"
    BY DEF prime_rp_ide_key_set, plan, dev
  <1>2. \A d \in Dirs, s \in Subs : Programmed(d, s) => Programmed(d, s)'
    BY <1>1 DEF Programmed, pcie_construct_rp_keys
  <1>3. /\ \A s \in Subs : Programmed(dir, s)
        /\ dir = "TX" => /\ \A s \in Subs : Programmed("RX", s)
                         /\ <<ks, "RX">> \in ready
    BY <1>1 DEF Inv, ProgProgress
  <1>4. CASE dir = "RX"
    <2>1. \A s \in Subs : Programmed("RX", s)'
      BY <1>2, <1>3, <1>4 DEF Dirs
    <2>2. \A s \in Subs : ~(s < 0)
      BY DEF Subs
    <2> QED
      BY <1>1, <1>4, <2>1, <2>2 DEF ProgProgress, AfterProg
  <1>5. CASE dir = "TX"
    <2>1. \A d \in Dirs, s \in Subs : Programmed(d, s)'
      BY <1>2, <1>3, <1>5 DEF Dirs
    <2>2. \A d \in Dirs : <<ks', d>> \in ready'
      BY <1>1, <1>3, <1>5 DEF Dirs
    <2> QED
      BY <1>1, <1>5, <2>1, <2>2 DEF ProgProgress
  <1> QED
    BY <1>4, <1>5 DEF Inv, TypeOK, Dirs

LEMMA SetGoProgress ==
    ASSUME Inv, ide_km_key_set_go
    PROVE  GoProgress'
  <1>1. /\ ks' = ks /\ went' = went \cup {<<ks, dir, sub>>}
        /\ select' = select /\ pc = "go"
        /\ act' = IF dir = "TX" THEN [act EXCEPT ![sub] = ks] ELSE act
    BY DEF ide_km_key_set_go, DeviceGoes, Advance, plan, rp
  <1>2. sub \in Subs /\ dir \in Dirs /\ act \in [Subs -> KeySets \cup {NoKeySet}]
    BY DEF Inv, TypeOK
  <1>3. CASE dir = "RX"
    <2>1. \A s \in Subs : s <= sub => <<ks, "RX", s>> \in went'
      <3>1. \A s \in Subs : s < sub => <<ks, "RX", s>> \in went
        BY <1>1, <1>3 DEF Inv, GoProgress
      <3> QED
        BY <1>1, <1>2, <1>3, <3>1 DEF Subs
    <2>2. CASE sub < 2
      <3>1. pc' = "go" /\ dir' = "RX" /\ sub' = sub + 1
        BY <1>1, <1>3, <2>2 DEF ide_km_key_set_go, Advance
      <3>2. \A s \in Subs : s < sub' => <<ks, "RX", s>> \in went'
        BY <1>2, <2>1, <3>1 DEF Subs
      <3> QED
        BY <1>1, <3>1, <3>2 DEF GoProgress, AfterProg
    <2>3. CASE sub = 2
      <3>1. pc' = "select"
        BY <1>1, <1>3, <2>3 DEF ide_km_key_set_go, Advance
      <3>2. \A s \in Subs : <<ks, "RX", s>> \in went'
        BY <2>1, <2>3 DEF Subs
      <3> QED
        BY <1>1, <3>1, <3>2 DEF GoProgress, AfterProg
    <2> QED
      BY <1>2, <2>2, <2>3 DEF Subs
  <1>4. CASE dir = "TX"
    <2>1. \A s \in Subs : s <= sub => act'[s] = ks
      <3>1. \A s \in Subs : s < sub => act[s] = ks
        BY <1>1, <1>4 DEF Inv, GoProgress
      <3> QED
        BY <1>1, <1>2, <1>4, <3>1 DEF Subs
    <2>2. select' = ks /\ \A s \in Subs : <<ks, "RX", s>> \in went'
      BY <1>1, <1>4 DEF Inv, GoProgress
    <2>3. CASE sub < 2
      <3>1. pc' = "go" /\ dir' = "TX" /\ sub' = sub + 1
        BY <1>1, <1>4, <2>3 DEF ide_km_key_set_go, Advance
      <3>2. \A s \in Subs : s < sub' => act'[s] = ks
        BY <1>2, <2>1, <3>1 DEF Subs
      <3> QED
        BY <1>1, <2>2, <3>1, <3>2 DEF GoProgress, AfterProg
    <2>4. CASE sub = 2
      <3>1. pc' \in {"secure", "enable_dev"}
        BY <1>1, <1>4, <2>4 DEF ide_km_key_set_go, Advance
      <3>2. \A s \in Subs : act'[s] = ks
        BY <2>1, <2>4 DEF Subs
      <3> QED
        BY <1>1, <2>2, <3>1, <3>2 DEF GoProgress, AfterProg
    <2> QED
      BY <1>2, <2>3, <2>4 DEF Subs
  <1> QED
    BY <1>2, <1>3, <1>4 DEF Dirs

\* All six keys of ks are in place once the KEY_PROGs are done.
LEMMA AllKeyed ==
    ASSUME Inv, pc \in AfterProg
    PROVE  \A d \in Dirs, s \in Subs : Keyed(ks, d, s)
  <1>1. /\ \A d \in Dirs, s \in Subs : Programmed(d, s)
        /\ \A d \in Dirs : <<ks, d>> \in ready
    BY DEF Inv, ProgProgress
  <1> QED
    BY <1>1 DEF Programmed, Keyed

LEMMA GoTraffic ==
    ASSUME Inv, ide_km_key_set_go \/ KSetGoFails
    PROVE  TrafficKeys'
  <1>1. /\ ks \in KeySets /\ sub \in Subs
        /\ act \in [Subs -> KeySets \cup {NoKeySet}]
    BY DEF Inv, TypeOK
  <1>2. /\ Live' = Live /\ select' = select /\ keySet' = keySet
        /\ slotKey' = slotKey /\ ready' = ready /\ devKey' = devKey
        /\ went \subseteq went' /\ pc = "go"
        /\ \/ act' = act
           \/ act' = [act EXCEPT ![sub] = ks]
    BY DEF ide_km_key_set_go, KSetGoFails, DeviceGoes, dev, rp, Live
  <1>3. \A s \in Subs : act'[s] = act[s] \/ act'[s] = ks
    BY <1>1, <1>2
  <1>4. \A s \in Subs : Keyed(ks, "TX", s)
    BY <1>2, AllKeyed DEF AfterProg, Dirs
  <1>5. \A k \in KeySets, d \in Dirs, s \in Subs : Keyed(k, d, s) => Keyed(k, d, s)'
    BY <1>2 DEF Keyed, pcie_construct_rp_keys
  <1>6. SUFFICES ASSUME Live, NEW s \in Subs
        PROVE  /\ select \in KeySets
               /\ Keyed(select, "RX", s)'
               /\ <<select, "RX", s>> \in went'
               /\ act'[s] \in KeySets
               /\ Keyed(act[s], "TX", s)'
    BY <1>2 DEF TrafficKeys
  <1>7. /\ select \in KeySets /\ Keyed(select, "RX", s)
        /\ <<select, "RX", s>> \in went
        /\ act[s] \in KeySets /\ Keyed(act[s], "TX", s)
    BY <1>6 DEF Inv, TrafficKeys
  <1>8. Keyed(select, "RX", s)' /\ <<select, "RX", s>> \in went'
    BY <1>2, <1>5, <1>7 DEF Dirs
  <1>9. act'[s] \in KeySets /\ Keyed(act[s], "TX", s)'
    <2>1. CASE act'[s] = act[s]
      BY <1>5, <1>7, <2>1 DEF Dirs
    <2>2. CASE act'[s] = ks
      <3>1. Keyed(act'[s], "TX", s)
        BY <1>4, <2>2
      <3> QED
        BY <1>1, <1>5, <2>2, <3>1 DEF Dirs
    <2> QED
      BY <1>3, <2>1, <2>2
  <1> QED
    BY <1>7, <1>8, <1>9

LEMMA SelectTraffic ==
    ASSUME Inv, set_rp_ide_key_set_select
    PROVE  TrafficKeys'
  <1>1. /\ Live' = Live /\ select' = ks /\ keySet' = keySet
        /\ slotKey' = slotKey /\ ready' = ready /\ devKey' = devKey
        /\ went' = went /\ pc = "select" /\ act' = act /\ ks \in KeySets
    BY DEF set_rp_ide_key_set_select, dev, Live, Inv, TypeOK
  <1>2. \A s \in Subs : Keyed(ks, "RX", s) /\ <<ks, "RX", s>> \in went
    BY <1>1, AllKeyed DEF AfterProg, Dirs, Inv, GoProgress
  <1>3. \A k \in KeySets, d \in Dirs, s \in Subs : Keyed(k, d, s) => Keyed(k, d, s)'
    BY <1>1 DEF Keyed, pcie_construct_rp_keys
  <1>4. ks' = ks
    BY DEF set_rp_ide_key_set_select, GoOn, plan
  <1> QED
    BY <1>1, <1>2, <1>3, <1>4 DEF TrafficKeys, Dirs, Inv

LEMMA EnableTraffic ==
    ASSUME Inv, enable_rootport_ide_stream
    PROVE  TrafficKeys'
  <1>1. /\ select' = select /\ keySet' = keySet /\ ks' = ks
        /\ slotKey' = slotKey /\ ready' = ready /\ devKey' = devKey
        /\ went' = went /\ pc = "enable_rp" /\ act' = act /\ ks \in KeySets
    BY DEF enable_rootport_ide_stream, GoOn, plan, dev, Inv, TypeOK
  <1>2. \A d \in Dirs, s \in Subs : Keyed(ks, d, s)
    BY <1>1, AllKeyed DEF AfterProg
  <1>3. select = ks /\ \A s \in Subs : act[s] = ks /\ <<ks, "RX", s>> \in went
    BY <1>1 DEF AfterProg, Inv, GoProgress
  <1>4. \A d \in Dirs, s \in Subs : Keyed(ks, d, s)'
    BY <1>1, <1>2 DEF Keyed, pcie_construct_rp_keys
  <1> QED
    BY <1>1, <1>3, <1>4 DEF TrafficKeys, Dirs

LEMMA SecureOld ==
    ASSUME Inv, is_ide_stream_secure
    PROVE  OldKeySet'
  <1>1. CASE Fail
    BY <1>1 DEF Fail, OldKeySet
  <1>2. CASE pc' = "run" /\ mKeySet' = ks
    <2>1. /\ select' = select /\ act' = act /\ keySet' = keySet
          /\ pc = "secure"
      BY DEF is_ide_stream_secure, rp, dev
    <2>2. /\ select = ks /\ \A s \in Subs : act[s] = ks
          /\ \A d \in Dirs, s \in Subs : keySet[<<ks, d, s>>] = k_set + s
      BY <2>1 DEF Inv, GoProgress, ProgProgress, AfterProg, Programmed
    <2>3. k_set \in Triples
      BY DEF Inv, TypeOK
    <2> QED
      BY <1>2, <2>1, <2>2, <2>3 DEF OldKeySet
  <1> QED
    BY <1>1, <1>2 DEF is_ide_stream_secure

\* The slots found for a refresh are not the live ones, because both
\* directions of the key set in use lie in the triple that its PR slot names.
LEMMA AllocOld ==
    ASSUME Inv, pcie_ide_alloc_slot_ids
    PROVE  OldKeySet'
  <1>1. /\ pc = "alloc" /\ pc' = "prog" /\ k_set' \in FreeTriples
        /\ select' = select /\ act' = act /\ mKeySet' = mKeySet
        /\ keySet' = keySet
    BY DEF pcie_ide_alloc_slot_ids, plan, dev, rp
  <1>2. PICK t \in Triples : \A d \in Dirs, s \in Subs :
               keySet[<<mKeySet, d, s>>] = t + s
    BY <1>1 DEF Inv, OldKeySet
  <1>3. rpEn /\ select = mKeySet /\ \A s \in Subs : act[s] = mKeySet
    BY <1>1 DEF Inv, OldKeySet, Enables, Live
  <1>4. "RX" \in Dirs /\ 0 \in Subs /\ t \in Nat
    BY TripleFacts DEF Dirs, Subs
  <1>5. keySet[<<select, "RX", 0>>] = t
    BY <1>2, <1>3, <1>4
  <1>6. t \in UsedTriples
    BY <1>3, <1>5, TripleFacts DEF UsedTriples
  <1>7. k_set' # t /\ k_set' \in Triples
    BY <1>1, <1>6 DEF FreeTriples
  <1>8. \A d \in Dirs, s, j \in Subs : keySet[<<mKeySet, d, s>>] # k_set' + j
    BY <1>2, <1>7, TripleFacts
  <1> QED
    BY <1>1, <1>3, <1>8 DEF OldKeySet

LEMMA StopQuiet ==
    ASSUME Inv, test_full_ide_km_key_set_stop
    PROVE  StopProgress' /\ Quiesced'
  <1>1. /\ mKeySet' = mKeySet /\ select' = select /\ dirty' = dirty
        /\ switching' = switching /\ pc = "stop"
        /\ went' = went \ {<<mKeySet, dir, sub>>}
        /\ act' = IF dir = "TX" /\ act[sub] = mKeySet
                  THEN [act EXCEPT ![sub] = NoKeySet] ELSE act
    BY DEF test_full_ide_km_key_set_stop, Advance, DeviceStops, plan, rp
  <1>2. sub \in Subs /\ dir \in Dirs /\ act \in [Subs -> KeySets \cup {NoKeySet}]
    BY DEF Inv, TypeOK
  <1>3. switching => dirty
    BY <1>1 DEF Inv, StopProgress, TearDownSteps
  <1>4. CASE dirty
    BY <1>1, <1>4 DEF StopProgress, Quiesced
  <1>5. CASE ~dirty
    <2>1. /\ select \in {NoKeySet, mKeySet}
          /\ \A s \in Subs : act[s] \in {NoKeySet, mKeySet}
      BY <1>3, <1>5 DEF Inv, StopProgress
    <2>2. \A s \in Subs : act'[s] \in {NoKeySet, mKeySet}
      BY <1>1, <1>2, <2>1
    <2>3. CASE dir = "RX"
      <3>1. \A s \in Subs : s < sub => <<mKeySet, "RX", s>> \notin went
        BY <1>1, <1>5, <2>3 DEF Inv, StopProgress
      <3>2. \A s \in Subs : s <= sub => <<mKeySet, "RX", s>> \notin went'
        BY <1>1, <1>2, <2>3, <3>1 DEF Subs
      <3>3. \/ dir' = "RX" /\ sub' = sub + 1
            \/ dir' = "TX" /\ sub' = 0 /\ sub = 2
        BY <1>2, <2>3 DEF test_full_ide_km_key_set_stop, Advance, Subs
      <3>4. pc' = "stop"
        BY <1>1, <2>3 DEF test_full_ide_km_key_set_stop, Advance
      <3>5. /\ dir' = "RX" => \A s \in Subs : s < sub' => <<mKeySet, "RX", s>> \notin went'
            /\ dir' = "TX" => \A s \in Subs : <<mKeySet, "RX", s>> \notin went'
            /\ dir' = "TX" => \A s \in Subs : s < sub' => act'[s] = NoKeySet
        BY <1>2, <3>2, <3>3 DEF Subs
      <3> QED
        BY <1>1, <1>3, <1>5, <2>1, <2>2, <3>4, <3>5 DEF StopProgress, Quiesced
    <2>4. CASE dir = "TX"
      <3>1. /\ \A s \in Subs : <<mKeySet, "RX", s>> \notin went
            /\ \A s \in Subs : s < sub => act[s] = NoKeySet
        BY <1>1, <1>5, <2>4 DEF Inv, StopProgress
      <3>2. \A s \in Subs : <<mKeySet, "RX", s>> \notin went'
        BY <1>1, <3>1
      <3>3. \A s \in Subs : s <= sub => act'[s] = NoKeySet
        <4>1. \A s \in Subs : s = sub => act'[s] = NoKeySet
          BY <1>1, <1>2, <2>1, <2>4
        <4>2. \A s \in Subs : s < sub => act'[s] = NoKeySet
          BY <1>1, <1>2, <3>1
        <4> QED
          BY <1>2, <4>1, <4>2 DEF Subs
      <3>4. \/ pc' = "stop" /\ sub' = sub + 1
            \/ pc' = "idle" /\ sub = 2
        BY <1>1, <1>2, <2>4 DEF test_full_ide_km_key_set_stop, Advance, Subs
      <3>5. dir' = "TX"
        BY <2>4 DEF test_full_ide_km_key_set_stop, Advance
      <3>6. CASE pc' = "stop" /\ sub' = sub + 1
        <4>1. \A s \in Subs : s < sub' => act'[s] = NoKeySet
          BY <1>2, <3>3, <3>6 DEF Subs
        <4> QED
          BY <1>1, <1>3, <1>5, <2>1, <2>2, <3>2, <3>5, <3>6, <4>1
          DEF StopProgress, Quiesced
      <3>7. CASE pc' = "idle" /\ sub = 2
        <4>1. \A s \in Subs : act'[s] = NoKeySet
          BY <3>3, <3>7 DEF Subs
        <4> QED
          BY <1>1, <1>3, <1>5, <2>1, <3>2, <3>7, <4>1
          DEF StopProgress, Quiesced
      <3> QED
        BY <3>4, <3>6, <3>7
    <2> QED
      BY <1>2, <2>3, <2>4 DEF Dirs
  <1> QED
    BY <1>4, <1>5 DEF Inv, TypeOK

\* A stream that opens puts its keys where they do no harm to the invariants:
\* they allow for a slot that another stream has loaded.
LEMMA OpensKeeps ==
    ASSUME Inv, OtherOpens
    PROVE  ProgProgress' /\ TrafficKeys'
  <1>1. /\ UNCHANGED <<pc, dir, sub, ks, k_set, devKey, went, act, devEn>>
        /\ UNCHANGED <<keySet, ready, select, rpEn>>
    BY DEF OtherOpens, place, plan, dev
  <1>2. /\ ks \in KeySets /\ k_set \in Triples /\ keySet \in [Places -> Slots]
        /\ select \in KeySets \cup {NoKeySet}
    BY DEF Inv, TypeOK
  <1>3. \A d \in Dirs, x \in Slots :
           slotKey'[<<d, x>>] \in {slotKey[<<d, x>>], Foreign}
    BY DEF OtherOpens
  <1>4. ASSUME NEW d \in Dirs, NEW s \in Subs, Programmed(d, s)
        PROVE  Programmed(d, s)'
    <2>1. k_set + s \in Slots
      BY <1>2, TripleFacts
    <2>2. slotKey'[<<d, k_set + s>>] \in {slotKey[<<d, k_set + s>>], Foreign}
      BY <1>3, <2>1
    <2> QED
      BY <1>1, <1>4, <2>2 DEF Programmed, pcie_construct_rp_keys
  <1>5. ASSUME NEW k \in KeySets, NEW d \in Dirs, NEW s \in Subs, Keyed(k, d, s)
        PROVE  Keyed(k, d, s)'
    <2>1. keySet[<<k, d, s>>] \in Slots
      BY <1>2 DEF Places
    <2>2. slotKey'[<<d, keySet[<<k, d, s>>]>>]
             \in {slotKey[<<d, keySet[<<k, d, s>>]>>], Foreign}
      BY <1>3, <2>1
    <2> QED
      BY <1>1, <1>5, <2>2 DEF Keyed, pcie_construct_rp_keys
  <1>6. ProgProgress'
    <2>1. /\ pc = "prog" => \A s \in Subs : s < sub => Programmed(dir, s)'
          /\ pc = "prime" => \A s \in Subs : Programmed(dir, s)'
      BY <1>1, <1>4 DEF Inv, ProgProgress, TypeOK
    <2>2. pc \in {"prog", "prime"} /\ dir = "TX" =>
             /\ \A s \in Subs : Programmed("RX", s)'
             /\ <<ks, "RX">> \in ready
      BY <1>4 DEF Inv, ProgProgress, Dirs
    <2>3. pc \in AfterProg =>
             /\ \A d \in Dirs, s \in Subs : Programmed(d, s)'
             /\ \A d \in Dirs : <<ks, d>> \in ready
      BY <1>4 DEF Inv, ProgProgress
    <2> QED
      BY <1>1, <2>1, <2>2, <2>3 DEF ProgProgress
  <1>7. TrafficKeys'
    <2> SUFFICES ASSUME Live, NEW s \in Subs
                 PROVE  /\ select \in KeySets
                        /\ Keyed(select, "RX", s)'
                        /\ <<select, "RX", s>> \in went
                        /\ act[s] \in KeySets
                        /\ Keyed(act[s], "TX", s)'
      BY <1>1 DEF TrafficKeys, Live
    <2>1. /\ select \in KeySets /\ Keyed(select, "RX", s)
          /\ <<select, "RX", s>> \in went
          /\ act[s] \in KeySets /\ Keyed(act[s], "TX", s)
      BY DEF Inv, TrafficKeys
    <2>2. Keyed(select, "RX", s)' /\ Keyed(act[s], "TX", s)'
      BY <1>1, <1>5, <2>1 DEF Dirs
    <2> QED
      BY <2>1, <2>2
  <1> QED
    BY <1>6, <1>7

-----------------------------------------------------------------------------
(***************************************************************************)
(* One step preserves each part of the invariant.                          *)
(***************************************************************************)
LEMMA EnablesStep == Inv /\ [Next]_vars => Enables'
  <1> SUFFICES ASSUME Inv, [Next]_vars PROVE Enables'
    OBVIOUS
  <1>0. TypeOK /\ Enables /\ OldKeySet
    BY DEF Inv
  <1> USE DEF TypeOK, Enables, OldKeySet, SetUpSteps, TearDownSteps, Live,
          plan, place, dev, rp, env, vars
  <1>1. CASE pci_ide_km_query
    BY <1>0, <1>1 DEF pci_ide_km_query, Fail
  <1>2. CASE ide_km_key_prog
    BY <1>0, <1>2 DEF ide_km_key_prog, DeviceTakesKey, cfg_rootport_ide_keys, Advance
  <1>3. CASE KeyProgFails
    BY <1>0, <1>3 DEF KeyProgFails, DeviceTakesKey, Fail
  <1>4. CASE prime_rp_ide_key_set
    BY <1>0, <1>4 DEF prime_rp_ide_key_set
  <1>5. CASE ide_km_key_set_go
    BY <1>0, <1>5 DEF ide_km_key_set_go, DeviceGoes, Advance
  <1>6. CASE KSetGoFails
    BY <1>0, <1>6 DEF KSetGoFails, DeviceGoes, Fail
  <1>7. CASE set_rp_ide_key_set_select
    BY <1>0, <1>7 DEF set_rp_ide_key_set_select, GoOn
  <1>8. CASE EnableDevice
    BY <1>0, <1>8 DEF EnableDevice, GoOn
  <1>9. CASE enable_rootport_ide_stream
    BY <1>0, <1>9 DEF enable_rootport_ide_stream, GoOn
  <1>10. CASE is_ide_stream_secure
    BY <1>0, <1>10 DEF is_ide_stream_secure, Fail
  <1>11. CASE RoundsDone \/ OperatorQuits
    BY <1>0, <1>11 DEF RoundsDone, OperatorQuits, GoOn
  <1>12. CASE KeyRefresh
    BY <1>0, <1>12 DEF KeyRefresh
  <1>13. CASE pcie_ide_alloc_slot_ids
    BY <1>0, <1>13 DEF pcie_ide_alloc_slot_ids
  <1>14. CASE DisableDevice
    BY <1>0, <1>14 DEF DisableDevice, GoOn
  <1>15. CASE DisableRootPort
    BY <1>0, <1>15 DEF DisableRootPort
  <1>16. CASE test_full_ide_km_key_set_stop
    BY <1>0, <1>16 DEF test_full_ide_km_key_set_stop, DeviceStops, Advance
  <1>17. CASE KSetStopFails
    BY <1>0, <1>17 DEF KSetStopFails, DeviceStops
  <1>18. CASE BeginCase
    BY <1>0, <1>18 DEF BeginCase
  <1>19. CASE AllocQuit
    BY <1>0, <1>19 DEF AllocQuit, Fail
  <1>20. CASE OtherCloses
    BY <1>0, <1>20 DEF OtherCloses
  <1>21. CASE UNCHANGED vars
    BY <1>0, <1>21 DEF vars
  <1>22. CASE OtherOpens
    BY <1>0, <1>22 DEF OtherOpens
  <1> QED
    BY <1>1, <1>2, <1>3, <1>4, <1>5, <1>6, <1>7, <1>8, <1>9, <1>10, <1>11,
       <1>12, <1>13, <1>14, <1>15, <1>16, <1>17, <1>18, <1>19, <1>20, <1>21,
       <1>22
    DEF Next, Validator

LEMMA ProgStep == Inv /\ [Next]_vars => ProgProgress'
  <1> SUFFICES ASSUME Inv, [Next]_vars PROVE ProgProgress'
    OBVIOUS
  <1>0. TypeOK /\ ProgProgress
    BY DEF Inv
  <1> USE DEF TypeOK, ProgProgress, AfterProg, Programmed, Subs,
          plan, place, dev, rp, env, vars
  <1>1. CASE pci_ide_km_query
    BY <1>0, <1>1 DEF pci_ide_km_query, Fail
  <1>2. CASE ide_km_key_prog
    BY <1>2, KeyProgProgress
  <1>3. CASE KeyProgFails
    BY <1>0, <1>3 DEF KeyProgFails, DeviceTakesKey, Fail
  <1>4. CASE prime_rp_ide_key_set
    BY <1>4, PrimeProgress
  <1>5. CASE ide_km_key_set_go
    BY <1>0, <1>5 DEF ide_km_key_set_go, DeviceGoes, Advance
  <1>6. CASE KSetGoFails
    BY <1>0, <1>6 DEF KSetGoFails, DeviceGoes, Fail
  <1>7. CASE set_rp_ide_key_set_select
    BY <1>0, <1>7 DEF set_rp_ide_key_set_select, GoOn
  <1>8. CASE EnableDevice
    BY <1>0, <1>8 DEF EnableDevice, GoOn
  <1>9. CASE enable_rootport_ide_stream
    BY <1>0, <1>9 DEF enable_rootport_ide_stream, GoOn
  <1>10. CASE is_ide_stream_secure
    BY <1>0, <1>10 DEF is_ide_stream_secure, Fail
  <1>11. CASE RoundsDone \/ OperatorQuits
    BY <1>0, <1>11 DEF RoundsDone, OperatorQuits, GoOn
  <1>12. CASE KeyRefresh
    BY <1>0, <1>12 DEF KeyRefresh
  <1>13. CASE pcie_ide_alloc_slot_ids
    BY <1>0, <1>13 DEF pcie_ide_alloc_slot_ids
  <1>14. CASE DisableDevice
    BY <1>0, <1>14 DEF DisableDevice, GoOn
  <1>15. CASE DisableRootPort
    BY <1>0, <1>15 DEF DisableRootPort
  <1>16. CASE test_full_ide_km_key_set_stop
    BY <1>0, <1>16 DEF test_full_ide_km_key_set_stop, DeviceStops, Advance
  <1>17. CASE KSetStopFails
    BY <1>0, <1>17 DEF KSetStopFails, DeviceStops
  <1>18. CASE BeginCase
    BY <1>0, <1>18 DEF BeginCase
  <1>19. CASE AllocQuit
    BY <1>0, <1>19 DEF AllocQuit, Fail
  <1>20. CASE OtherCloses
    BY <1>0, <1>20 DEF OtherCloses
  <1>21. CASE UNCHANGED vars
    BY <1>0, <1>21 DEF vars
  <1>22. CASE OtherOpens
    BY <1>22, OpensKeeps
  <1> QED
    BY <1>1, <1>2, <1>3, <1>4, <1>5, <1>6, <1>7, <1>8, <1>9, <1>10, <1>11,
       <1>12, <1>13, <1>14, <1>15, <1>16, <1>17, <1>18, <1>19, <1>20, <1>21,
       <1>22
    DEF Next, Validator

LEMMA GoStep == Inv /\ [Next]_vars => GoProgress'
  <1> SUFFICES ASSUME Inv, [Next]_vars PROVE GoProgress'
    OBVIOUS
  <1>0. TypeOK /\ Enables /\ GoProgress
    BY DEF Inv
  <1> USE DEF TypeOK, Enables, GoProgress, AfterProg, Subs,
          plan, place, dev, rp, env, vars
  <1>1. CASE pci_ide_km_query
    BY <1>0, <1>1 DEF pci_ide_km_query, Fail
  <1>2. CASE ide_km_key_prog
    BY <1>0, <1>2 DEF ide_km_key_prog, DeviceTakesKey, cfg_rootport_ide_keys, Advance
  <1>3. CASE KeyProgFails
    BY <1>0, <1>3 DEF KeyProgFails, DeviceTakesKey, Fail
  <1>4. CASE prime_rp_ide_key_set
    BY <1>0, <1>4 DEF prime_rp_ide_key_set
  <1>5. CASE ide_km_key_set_go
    BY <1>5, SetGoProgress
  <1>6. CASE KSetGoFails
    BY <1>0, <1>6 DEF KSetGoFails, DeviceGoes, Fail
  <1>7. CASE set_rp_ide_key_set_select
    BY <1>0, <1>7 DEF set_rp_ide_key_set_select, GoOn
  <1>8. CASE EnableDevice
    BY <1>0, <1>8 DEF EnableDevice, GoOn
  <1>9. CASE enable_rootport_ide_stream
    BY <1>0, <1>9 DEF enable_rootport_ide_stream, GoOn
  <1>10. CASE is_ide_stream_secure
    BY <1>0, <1>10 DEF is_ide_stream_secure, Fail
  <1>11. CASE RoundsDone \/ OperatorQuits
    BY <1>0, <1>11 DEF RoundsDone, OperatorQuits, GoOn
  <1>12. CASE KeyRefresh
    BY <1>0, <1>12 DEF KeyRefresh
  <1>13. CASE pcie_ide_alloc_slot_ids
    BY <1>0, <1>13 DEF pcie_ide_alloc_slot_ids
  <1>14. CASE DisableDevice
    BY <1>0, <1>14 DEF DisableDevice, GoOn
  <1>15. CASE DisableRootPort
    BY <1>0, <1>15 DEF DisableRootPort
  <1>16. CASE test_full_ide_km_key_set_stop
    BY <1>0, <1>16 DEF test_full_ide_km_key_set_stop, DeviceStops, Advance
  <1>17. CASE KSetStopFails
    BY <1>0, <1>17 DEF KSetStopFails, DeviceStops
  <1>18. CASE BeginCase
    BY <1>0, <1>18 DEF BeginCase
  <1>19. CASE AllocQuit
    BY <1>0, <1>19 DEF AllocQuit, Fail
  <1>20. CASE OtherCloses
    BY <1>0, <1>20 DEF OtherCloses
  <1>21. CASE UNCHANGED vars
    BY <1>0, <1>21 DEF vars
  <1>22. CASE OtherOpens
    BY <1>0, <1>22 DEF OtherOpens
  <1> QED
    BY <1>1, <1>2, <1>3, <1>4, <1>5, <1>6, <1>7, <1>8, <1>9, <1>10, <1>11,
       <1>12, <1>13, <1>14, <1>15, <1>16, <1>17, <1>18, <1>19, <1>20, <1>21,
       <1>22
    DEF Next, Validator

LEMMA OldStep == Inv /\ [Next]_vars => OldKeySet'
  <1> SUFFICES ASSUME Inv, [Next]_vars PROVE OldKeySet'
    OBVIOUS
  <1>0. TypeOK /\ Enables /\ OldKeySet
    BY DEF Inv
  <1> USE DEF TypeOK, Enables, OldKeySet,
          plan, place, dev, rp, env, vars
  <1>1. CASE pci_ide_km_query
    BY <1>0, <1>1 DEF pci_ide_km_query, Fail
  <1>2. CASE ide_km_key_prog
    BY <1>2, KeyProgOld
  <1>3. CASE KeyProgFails
    BY <1>0, <1>3 DEF KeyProgFails, DeviceTakesKey, Fail
  <1>4. CASE prime_rp_ide_key_set
    BY <1>0, <1>4 DEF prime_rp_ide_key_set
  <1>5. CASE ide_km_key_set_go
    BY <1>0, <1>5 DEF ide_km_key_set_go, DeviceGoes, Advance
  <1>6. CASE KSetGoFails
    BY <1>0, <1>6 DEF KSetGoFails, DeviceGoes, Fail
  <1>7. CASE set_rp_ide_key_set_select
    BY <1>0, <1>7 DEF set_rp_ide_key_set_select, GoOn
  <1>8. CASE EnableDevice
    BY <1>0, <1>8 DEF EnableDevice, GoOn
  <1>9. CASE enable_rootport_ide_stream
    BY <1>0, <1>9 DEF enable_rootport_ide_stream, GoOn
  <1>10. CASE is_ide_stream_secure
    BY <1>10, SecureOld
  <1>11. CASE RoundsDone \/ OperatorQuits
    BY <1>0, <1>11 DEF RoundsDone, OperatorQuits, GoOn
  <1>12. CASE KeyRefresh
    BY <1>0, <1>12 DEF KeyRefresh
  <1>13. CASE pcie_ide_alloc_slot_ids
    BY <1>13, AllocOld
  <1>14. CASE DisableDevice
    BY <1>0, <1>14 DEF DisableDevice, GoOn
  <1>15. CASE DisableRootPort
    BY <1>0, <1>15 DEF DisableRootPort
  <1>16. CASE test_full_ide_km_key_set_stop
    BY <1>0, <1>16 DEF test_full_ide_km_key_set_stop, DeviceStops, Advance
  <1>17. CASE KSetStopFails
    BY <1>0, <1>17 DEF KSetStopFails, DeviceStops
  <1>18. CASE BeginCase
    BY <1>0, <1>18 DEF BeginCase
  <1>19. CASE AllocQuit
    BY <1>0, <1>19 DEF AllocQuit, Fail
  <1>20. CASE OtherCloses
    BY <1>0, <1>20 DEF OtherCloses
  <1>21. CASE UNCHANGED vars
    BY <1>0, <1>21 DEF vars
  <1>22. CASE OtherOpens
    BY <1>0, <1>22 DEF OtherOpens
  <1> QED
    BY <1>1, <1>2, <1>3, <1>4, <1>5, <1>6, <1>7, <1>8, <1>9, <1>10, <1>11,
       <1>12, <1>13, <1>14, <1>15, <1>16, <1>17, <1>18, <1>19, <1>20, <1>21,
       <1>22
    DEF Next, Validator

LEMMA StopStep == Inv /\ [Next]_vars => StopProgress'
  <1> SUFFICES ASSUME Inv, [Next]_vars PROVE StopProgress'
    OBVIOUS
  <1>0. TypeOK /\ Enables /\ GoProgress /\ StopProgress /\ Quiesced
    BY DEF Inv
  <1> USE DEF TypeOK, Enables, GoProgress, StopProgress, Quiesced, TearDownSteps, SetUpSteps, AfterProg, Subs,
          plan, place, dev, rp, env, vars
  <1>1. CASE pci_ide_km_query
    BY <1>0, <1>1 DEF pci_ide_km_query, Fail
  <1>2. CASE ide_km_key_prog
    BY <1>0, <1>2 DEF ide_km_key_prog, DeviceTakesKey, cfg_rootport_ide_keys, Advance
  <1>3. CASE KeyProgFails
    BY <1>0, <1>3 DEF KeyProgFails, DeviceTakesKey, Fail
  <1>4. CASE prime_rp_ide_key_set
    BY <1>0, <1>4 DEF prime_rp_ide_key_set
  <1>5. CASE ide_km_key_set_go
    BY <1>0, <1>5 DEF ide_km_key_set_go, DeviceGoes, Advance
  <1>6. CASE KSetGoFails
    BY <1>0, <1>6 DEF KSetGoFails, DeviceGoes, Fail
  <1>7. CASE set_rp_ide_key_set_select
    BY <1>0, <1>7 DEF set_rp_ide_key_set_select, GoOn
  <1>8. CASE EnableDevice
    BY <1>0, <1>8 DEF EnableDevice, GoOn
  <1>9. CASE enable_rootport_ide_stream
    BY <1>0, <1>9 DEF enable_rootport_ide_stream, GoOn
  <1>10. CASE is_ide_stream_secure
    BY <1>0, <1>10 DEF is_ide_stream_secure, Fail
  <1>11. CASE RoundsDone \/ OperatorQuits
    BY <1>0, <1>11 DEF RoundsDone, OperatorQuits, GoOn
  <1>12. CASE KeyRefresh
    BY <1>0, <1>12 DEF KeyRefresh
  <1>13. CASE pcie_ide_alloc_slot_ids
    BY <1>0, <1>13 DEF pcie_ide_alloc_slot_ids
  <1>14. CASE DisableDevice
    BY <1>0, <1>14 DEF DisableDevice, GoOn
  <1>15. CASE DisableRootPort
    BY <1>0, <1>15 DEF DisableRootPort
  <1>16. CASE test_full_ide_km_key_set_stop
    BY <1>16, StopQuiet
  <1>17. CASE KSetStopFails
    BY <1>0, <1>17 DEF KSetStopFails, DeviceStops
  <1>18. CASE BeginCase
    BY <1>0, <1>18 DEF BeginCase
  <1>19. CASE AllocQuit
    BY <1>0, <1>19 DEF AllocQuit, Fail
  <1>20. CASE OtherCloses
    BY <1>0, <1>20 DEF OtherCloses
  <1>21. CASE UNCHANGED vars
    BY <1>0, <1>21 DEF vars
  <1>22. CASE OtherOpens
    BY <1>0, <1>22 DEF OtherOpens
  <1> QED
    BY <1>1, <1>2, <1>3, <1>4, <1>5, <1>6, <1>7, <1>8, <1>9, <1>10, <1>11,
       <1>12, <1>13, <1>14, <1>15, <1>16, <1>17, <1>18, <1>19, <1>20, <1>21,
       <1>22
    DEF Next, Validator

LEMMA TrafficStep == Inv /\ [Next]_vars => TrafficKeys'
  <1> SUFFICES ASSUME Inv, [Next]_vars PROVE TrafficKeys'
    OBVIOUS
  <1>0. TrafficKeys
    BY DEF Inv
  <1> USE DEF TrafficKeys, Live, Keyed,
          plan, place, dev, rp, env, vars
  <1>1. CASE pci_ide_km_query
    BY <1>0, <1>1 DEF pci_ide_km_query, Fail
  <1>2. CASE ide_km_key_prog
    BY <1>2, KeyProgOld
  <1>3. CASE KeyProgFails
    BY <1>3, KeyProgFailsTraffic
  <1>4. CASE prime_rp_ide_key_set
    BY <1>0, <1>4 DEF prime_rp_ide_key_set
  <1>5. CASE ide_km_key_set_go
    BY <1>5, GoTraffic
  <1>6. CASE KSetGoFails
    BY <1>6, GoTraffic
  <1>7. CASE set_rp_ide_key_set_select
    BY <1>7, SelectTraffic
  <1>8. CASE EnableDevice
    BY <1>0, <1>8 DEF EnableDevice, GoOn, Inv, Enables, SetUpSteps
  <1>9. CASE enable_rootport_ide_stream
    BY <1>9, EnableTraffic
  <1>10. CASE is_ide_stream_secure
    BY <1>0, <1>10 DEF is_ide_stream_secure, Fail
  <1>11. CASE RoundsDone \/ OperatorQuits
    BY <1>0, <1>11 DEF RoundsDone, OperatorQuits, GoOn
  <1>12. CASE KeyRefresh
    BY <1>0, <1>12 DEF KeyRefresh
  <1>13. CASE pcie_ide_alloc_slot_ids
    BY <1>0, <1>13 DEF pcie_ide_alloc_slot_ids
  <1>14. CASE DisableDevice
    BY <1>0, <1>14 DEF DisableDevice, GoOn
  <1>15. CASE DisableRootPort
    BY <1>0, <1>15 DEF DisableRootPort
  <1>16. CASE test_full_ide_km_key_set_stop
    BY <1>0, <1>16 DEF test_full_ide_km_key_set_stop, DeviceStops, Advance, Inv, Enables, SetUpSteps
  <1>17. CASE KSetStopFails
    BY <1>0, <1>17 DEF KSetStopFails, DeviceStops, Inv, Enables, SetUpSteps
  <1>18. CASE BeginCase
    BY <1>0, <1>18 DEF BeginCase
  <1>19. CASE AllocQuit
    BY <1>0, <1>19 DEF AllocQuit, Fail
  <1>20. CASE OtherCloses
    BY <1>0, <1>20 DEF OtherCloses
  <1>21. CASE UNCHANGED vars
    BY <1>0, <1>21 DEF vars
  <1>22. CASE OtherOpens
    BY <1>22, OpensKeeps
  <1> QED
    BY <1>1, <1>2, <1>3, <1>4, <1>5, <1>6, <1>7, <1>8, <1>9, <1>10, <1>11,
       <1>12, <1>13, <1>14, <1>15, <1>16, <1>17, <1>18, <1>19, <1>20, <1>21,
       <1>22
    DEF Next, Validator

LEMMA QuietStep == Inv /\ [Next]_vars => Quiesced'
  <1> SUFFICES ASSUME Inv, [Next]_vars PROVE Quiesced'
    OBVIOUS
  <1>0. Quiesced
    BY DEF Inv
  <1> USE DEF Quiesced,
          plan, place, dev, rp, env, vars
  <1>1. CASE pci_ide_km_query
    BY <1>0, <1>1 DEF pci_ide_km_query, Fail
  <1>2. CASE ide_km_key_prog
    BY <1>0, <1>2 DEF ide_km_key_prog, DeviceTakesKey, cfg_rootport_ide_keys, Advance
  <1>3. CASE KeyProgFails
    BY <1>0, <1>3 DEF KeyProgFails, DeviceTakesKey, Fail
  <1>4. CASE prime_rp_ide_key_set
    BY <1>0, <1>4 DEF prime_rp_ide_key_set
  <1>5. CASE ide_km_key_set_go
    BY <1>0, <1>5 DEF ide_km_key_set_go, DeviceGoes, Advance
  <1>6. CASE KSetGoFails
    BY <1>0, <1>6 DEF KSetGoFails, DeviceGoes, Fail
  <1>7. CASE set_rp_ide_key_set_select
    BY <1>0, <1>7 DEF set_rp_ide_key_set_select, GoOn
  <1>8. CASE EnableDevice
    BY <1>0, <1>8 DEF EnableDevice, GoOn
  <1>9. CASE enable_rootport_ide_stream
    BY <1>0, <1>9 DEF enable_rootport_ide_stream, GoOn
  <1>10. CASE is_ide_stream_secure
    BY <1>0, <1>10 DEF is_ide_stream_secure, Fail
  <1>11. CASE RoundsDone \/ OperatorQuits
    BY <1>0, <1>11 DEF RoundsDone, OperatorQuits, GoOn
  <1>12. CASE KeyRefresh
    BY <1>0, <1>12 DEF KeyRefresh
  <1>13. CASE pcie_ide_alloc_slot_ids
    BY <1>0, <1>13 DEF pcie_ide_alloc_slot_ids
  <1>14. CASE DisableDevice
    BY <1>0, <1>14 DEF DisableDevice, GoOn
  <1>15. CASE DisableRootPort
    BY <1>0, <1>15 DEF DisableRootPort
  <1>16. CASE test_full_ide_km_key_set_stop
    BY <1>16, StopQuiet
  <1>17. CASE KSetStopFails
    BY <1>0, <1>17 DEF KSetStopFails, DeviceStops
  <1>18. CASE BeginCase
    BY <1>0, <1>18 DEF BeginCase
  <1>19. CASE AllocQuit
    BY <1>0, <1>19 DEF AllocQuit, Fail
  <1>20. CASE OtherCloses
    BY <1>0, <1>20 DEF OtherCloses
  <1>21. CASE UNCHANGED vars
    BY <1>0, <1>21 DEF vars
  <1>22. CASE OtherOpens
    BY <1>0, <1>22 DEF OtherOpens
  <1> QED
    BY <1>1, <1>2, <1>3, <1>4, <1>5, <1>6, <1>7, <1>8, <1>9, <1>10, <1>11,
       <1>12, <1>13, <1>14, <1>15, <1>16, <1>17, <1>18, <1>19, <1>20, <1>21,
       <1>22
    DEF Next, Validator

LEMMA SlotsStep == Inv /\ [Next]_vars => SlotsFree'
  <1> SUFFICES ASSUME Inv, [Next]_vars PROVE SlotsFree'
    OBVIOUS
  <1>0. known \subseteq others /\ k_set \notin known
    BY DEF Inv, SlotsFree
  <1>1. CASE pcie_ide_alloc_slot_ids
    BY <1>1 DEF pcie_ide_alloc_slot_ids, FreeTriples, UsedTriples, SlotsFree
  <1>2. CASE OtherCloses
    BY <1>0, <1>2 DEF OtherCloses, SlotsFree
  <1>3. CASE OtherOpens
    BY <1>0, <1>3 DEF OtherOpens, SlotsFree
  <1>4. CASE ~pcie_ide_alloc_slot_ids /\ ~OtherCloses /\ ~OtherOpens
    <2>1. k_set' = k_set /\ others' = others /\ known' = known
      BY <1>4 DEF Next, Validator, vars, env, pci_ide_km_query, ide_km_key_prog,
         KeyProgFails, prime_rp_ide_key_set, ide_km_key_set_go, KSetGoFails,
         set_rp_ide_key_set_select, EnableDevice, enable_rootport_ide_stream,
         is_ide_stream_secure, RoundsDone, KeyRefresh, DisableDevice,
         DisableRootPort, test_full_ide_km_key_set_stop, KSetStopFails,
         BeginCase, OperatorQuits, AllocQuit
    <2> QED
      BY <1>0, <2>1 DEF SlotsFree
  <1> QED
    BY <1>1, <1>2, <1>3, <1>4

-----------------------------------------------------------------------------
(***************************************************************************)
(* The theorems.                                                           *)
(***************************************************************************)
\* The conjunction Inv holds in every reachable state.
THEOREM Invariance == Spec => []Inv
  <1>1. Inv /\ [Next]_vars => Inv'
    BY TypeStep, EnablesStep, ProgStep, GoStep, OldStep, SlotsStep, StopStep,
       TrafficStep, QuietStep DEF Inv
  <1> QED
    BY InitInv, <1>1, PTL DEF Spec

\* Type correctness of the whole key programming, refresh and teardown.
THEOREM TypeCorrect == Spec => []TypeOK
  <1>1. Inv => TypeOK
    BY DEF Inv
  <1> QED
    BY Invariance, <1>1, PTL

\* Whatever exchange fails, at no moment of a live stream does an end send
\* with a key the other end does not hold, for any number of key slots, test
\* cases and refreshes.
THEOREM TrafficKeysCorrect == Spec => []TrafficKeys
  <1>1. Inv => TrafficKeys
    BY DEF Inv
  <1> QED
    BY Invariance, <1>1, PTL

\* Teardown stops the key set the stream runs on.
THEOREM QuiescedCorrect == Spec => []Quiesced
  <1>1. Inv => Quiesced
    BY DEF Inv
  <1> QED
    BY Invariance, <1>1, PTL

\* No step writes into a key slot of a stream that was enabled when the slots
\* were chosen.
THEOREM OthersUntouchedCorrect == Spec => OthersUntouched
  <1>1. ASSUME Inv, [Next]_vars
        PROVE  [\A t \in known' : \A d \in Dirs, s \in Subs :
                   slotKey'[<<d, t + s>>] = slotKey[<<d, t + s>>]]_vars
    <2>1. CASE ide_km_key_prog
      <3> SUFFICES ASSUME NEW t \in known', NEW d \in Dirs, NEW s \in Subs
                   PROVE  slotKey'[<<d, t + s>>] = slotKey[<<d, t + s>>]
        OBVIOUS
      <3>1. TypeOK /\ t \in known
        BY <1>1, <2>1, KeyProgFrame DEF Inv, env
      <3>2. t \in Triples /\ k_set \in Triples /\ t # k_set /\ sub \in Subs
        BY <1>1, <3>1 DEF Inv, SlotsFree, TypeOK
      <3>3. t + s \in Slots /\ t + s # k_set + sub
        BY <3>2, TripleFacts
      <3> QED
        BY <2>1, <3>1, <3>3, KeyProgFrame
    <2>2. CASE OtherOpens
      <3> SUFFICES ASSUME NEW t \in known', NEW d \in Dirs, NEW s \in Subs
                   PROVE  slotKey'[<<d, t + s>>] = slotKey[<<d, t + s>>]
        OBVIOUS
      <3>1. PICK u \in Triples \ UsedTriples :
               slotKey' = [q \in Dirs \X Slots |->
                              IF q[2] \in u .. u + 2 THEN Foreign ELSE slotKey[q]]
        BY <2>2 DEF OtherOpens
      <3>2. t \in Triples /\ t \in others
        BY <1>1, <2>2 DEF OtherOpens, Inv, SlotsFree, TypeOK
      <3>3. t # u
        BY <3>1, <3>2 DEF UsedTriples
      <3>4. t + s \in Slots /\ t + s \notin u .. u + 2
        <4>1. \A j \in Subs : t + s # u + j
          BY <3>1, <3>2, <3>3, TripleFacts
        <4>2. t \in Nat /\ u \in Nat /\ t + s \in Slots
          BY <3>1, <3>2, TripleFacts
        <4>3. \A x \in u .. u + 2 : x = u + 0 \/ x = u + 1 \/ x = u + 2
          BY <4>2
        <4> QED
          BY <4>1, <4>2, <4>3 DEF Subs
      <3> QED
        BY <3>1, <3>4
    <2>3. CASE ~ide_km_key_prog /\ ~OtherOpens
      <3>1. slotKey' = slotKey
        BY <1>1, <2>3 DEF Next, Validator, vars, pci_ide_km_query, KeyProgFails,
           prime_rp_ide_key_set, ide_km_key_set_go, KSetGoFails,
           set_rp_ide_key_set_select, EnableDevice, rp,
           enable_rootport_ide_stream, is_ide_stream_secure, RoundsDone,
           KeyRefresh, pcie_ide_alloc_slot_ids, DisableDevice,
           DisableRootPort, test_full_ide_km_key_set_stop, KSetStopFails,
           BeginCase, OperatorQuits, AllocQuit, OtherCloses
      <3> QED
        BY <3>1
    <2> QED
      BY <2>1, <2>2, <2>3
  <1> QED
    BY Invariance, <1>1, PTL DEF Spec, OthersUntouched
=============================================================================
