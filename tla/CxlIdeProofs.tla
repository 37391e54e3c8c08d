---------------------------- MODULE CxlIdeProofs ----------------------------
(***************************************************************************)
(* Invariance proofs for CxlIde, for every device, every number of ports,  *)
(* groups, cases and key refreshes.                                        *)
(***************************************************************************)
EXTENDS CxlIde, TLAPS

\* The type invariant in parts, each with the facts its proof needs.
ControlType ==
    /\ pc \in Steps /\ case \in Cases /\ setup \in Setups /\ dir \in Dirs
    /\ verdict \in {"none", "PASS", "FAILED"}
CountType ==
    /\ index \in 0 .. MaxPortIndex + 1 /\ last \in {0, MaxPortIndex}
    /\ port_index \in 0 .. MaxPortIndex
    /\ refreshes \in 0 .. MaxRefreshes
    /\ groups \in 0 .. MaxGroups /\ cases \in 0 .. MaxCases
    /\ nextKey \in Nat
KeyType ==
    /\ buffer \in [Dirs -> Keys] /\ useIv \in [Dirs -> {"default", "initial"}]
    /\ rpReg \in [Dirs -> Keys] /\ rpActive \in [Dirs -> Keys]
    /\ devPend \in [Dirs -> Keys] /\ devActive \in [Dirs -> Keys]
    /\ devArmed => devPend["RX"] # None
FlagType ==
    /\ key_refresh \in BOOLEAN /\ rpEn \in BOOLEAN /\ devArmed \in BOOLEAN
    /\ clean \in BOOLEAN
SetType == rpValid \subseteq Dirs /\ acked \subseteq Dirs /\ apart \subseteq Dirs

LEMMA TypeParts ==
    TypeOK <=> ControlType /\ CountType /\ KeyType /\ FlagType /\ SetType
  BY DEF TypeOK, ControlType, CountType, KeyType, FlagType, SetType

LEMMA InitInv == Init => Inv
  <1> SUFFICES ASSUME Init PROVE Inv
    OBVIOUS
  <1> USE CxlIdeAssumption DEF Init, Dirs, None
  <1>1. ControlType /\ CountType
    BY DEF ControlType, CountType, Steps, Cases
  <1>2. KeyType
    BY DEF KeyType, Keys
  <1>3. FlagType /\ SetType
    BY DEF FlagType, SetType
  <1>4. PortKnown /\ LinkEnabled /\ Generated /\ Programmed /\ Registers
    BY DEF PortKnown, LinkEnabled, Generated, Programmed, Registers, KeySteps,
       QuerySteps, HalfSwitched
  <1>5. Switches /\ Stopped /\ StaysClean
    BY DEF Switches, Stopped, StaysClean, KeySteps, QuerySteps, HalfSwitched
  <1>6. LinkTrafficKeys /\ LinkQuiesced /\ PassMeansActive
    BY DEF LinkTrafficKeys, LinkQuiesced, PassMeansActive
  <1> QED
    BY <1>1, <1>2, <1>3, <1>4, <1>5, <1>6, TypeParts DEF Inv

-----------------------------------------------------------------------------

\* The validator stays at one of its steps.
LEMMA ControlTypeStep == Inv /\ [Next]_vars => ControlType'
  <1> SUFFICES ASSUME Inv, [Next]_vars PROVE ControlType'
    OBVIOUS
  <1> USE CxlIdeAssumption DEF Inv, TypeOK, ControlType, caseVars, queryVars,
     keyVars, rp, dev, history, Steps, Dirs
  <1>1. CASE common_test_group_setup \/ GroupSetupFails \/
             common_test_group_teardown \/ Restart \/ BeginCase
    BY <1>1 DEF common_test_group_setup, GroupSetupFails,
       common_test_group_teardown, Restart, BeginCase, Query, Cases
  <1>2. CASE QueryPort0 \/ QueryPort
    BY <1>2 DEF QueryPort0, PortFound, PortNotFound, QueryPort
  <1>3. CASE cxl_ide_generate_key \/ GenerateFails
    BY <1>3 DEF cxl_ide_generate_key, IvToUse, Peer, FixedKey, Ivs,
       GenerateFails, SetupFails
  <1>4. CASE cxl_ide_km_key_prog \/ KeyProgFails
    BY <1>4 DEF cxl_ide_km_key_prog, DeviceTakesKey, Peer, KeyProgFails, Hang
  <1>5. CASE cxl_cfg_rp_link_enc_key_iv \/ cxl_cfg_rp_txrx_key_valid \/
             cxl_cfg_rp_linkenc_enable
    BY <1>5 DEF cxl_cfg_rp_link_enc_key_iv, cxl_construct_rp_iv, Peer,
       cxl_cfg_rp_txrx_key_valid, cxl_cfg_rp_linkenc_enable
  <1>6. CASE cxl_ide_km_key_set_go \/ KSetGoFails
    BY <1>6 DEF cxl_ide_km_key_set_go, DeviceGoes, Switched, KSetGoFails, Hang
  <1>7. CASE cxl_cfg_rp_start_trigger
    BY <1>7 DEF cxl_cfg_rp_start_trigger, Switched
  <1>8. CASE RunEnds \/ KeyRefresh
    BY <1>8 DEF RunEnds, KeyRefresh, Query
  <1>9. CASE cxl_teardown_ide_stream \/ cxl_ide_km_key_set_stop \/
             KSetStopFails \/ RootPortOff
    BY <1>9 DEF cxl_teardown_ide_stream, cxl_ide_km_key_set_stop, DeviceStops,
       Peer, KSetStopFails, RootPortOff
  <1>10. CASE UNCHANGED vars
    BY <1>10 DEF vars
  <1> QED
    BY <1>1, <1>2, <1>3, <1>4, <1>5, <1>6, <1>7, <1>8, <1>9, <1>10 DEF Next,
       Step

\* No counter leaves its range; the uint8_t index of the query loop wraps
\* around before it passes the highest port index by more than one.
LEMMA CountTypeStep == Inv /\ [Next]_vars => CountType'
  <1> SUFFICES ASSUME Inv, [Next]_vars PROVE CountType'
    OBVIOUS
  <1> USE CxlIdeAssumption DEF Inv, TypeOK, CountType, caseVars, queryVars,
     keyVars, rp, dev, history
  <1>1. CASE common_test_group_setup \/ GroupSetupFails \/
             common_test_group_teardown \/ Restart \/ BeginCase
    BY <1>1 DEF common_test_group_setup, GroupSetupFails,
       common_test_group_teardown, Restart, BeginCase, Query, Cases
  <1>2. CASE QueryPort0 \/ QueryPort
    BY <1>2 DEF QueryPort0, PortFound, PortNotFound, QueryPort
  <1>3. CASE cxl_ide_generate_key \/ GenerateFails
    BY <1>3 DEF cxl_ide_generate_key, IvToUse, Peer, FixedKey, Ivs,
       GenerateFails, SetupFails
  <1>4. CASE cxl_ide_km_key_prog \/ KeyProgFails
    BY <1>4 DEF cxl_ide_km_key_prog, DeviceTakesKey, Peer, KeyProgFails, Hang
  <1>5. CASE cxl_cfg_rp_link_enc_key_iv \/ cxl_cfg_rp_txrx_key_valid \/
             cxl_cfg_rp_linkenc_enable
    BY <1>5 DEF cxl_cfg_rp_link_enc_key_iv, cxl_construct_rp_iv, Peer,
       cxl_cfg_rp_txrx_key_valid, cxl_cfg_rp_linkenc_enable
  <1>6. CASE cxl_ide_km_key_set_go \/ KSetGoFails
    BY <1>6 DEF cxl_ide_km_key_set_go, DeviceGoes, Switched, KSetGoFails, Hang
  <1>7. CASE cxl_cfg_rp_start_trigger
    BY <1>7 DEF cxl_cfg_rp_start_trigger, Switched
  <1>8. CASE RunEnds \/ KeyRefresh
    BY <1>8 DEF RunEnds, KeyRefresh, Query
  <1>9. CASE cxl_teardown_ide_stream \/ cxl_ide_km_key_set_stop \/
             KSetStopFails \/ RootPortOff
    BY <1>9 DEF cxl_teardown_ide_stream, cxl_ide_km_key_set_stop, DeviceStops,
       Peer, KSetStopFails, RootPortOff
  <1>10. CASE UNCHANGED vars
    BY <1>10 DEF vars
  <1> QED
    BY <1>1, <1>2, <1>3, <1>4, <1>5, <1>6, <1>7, <1>8, <1>9, <1>10 DEF Next,
       Step

\* Keys stay keys, and RX is armed only for a key that was programmed.
LEMMA KeyTypeStep == Inv /\ [Next]_vars => KeyType'
  <1> SUFFICES ASSUME Inv, [Next]_vars PROVE KeyType'
    OBVIOUS
  <1> USE CxlIdeAssumption DEF Inv, TypeOK, KeyType, caseVars, queryVars,
     keyVars, rp, dev, history, Dirs, Keys, Ivs, None
  <1>1. CASE common_test_group_setup \/ GroupSetupFails \/
             common_test_group_teardown \/ Restart \/ BeginCase
    BY <1>1 DEF common_test_group_setup, GroupSetupFails,
       common_test_group_teardown, Restart, BeginCase, Query, Cases
  <1>2. CASE QueryPort0 \/ QueryPort
    BY <1>2 DEF QueryPort0, PortFound, PortNotFound, QueryPort
  <1>3. CASE cxl_ide_generate_key \/ GenerateFails
    BY <1>3 DEF cxl_ide_generate_key, IvToUse, Peer, FixedKey, GenerateFails,
       SetupFails
  <1>4. CASE cxl_ide_km_key_prog \/ KeyProgFails
    BY <1>4 DEF cxl_ide_km_key_prog, DeviceTakesKey, Peer, KeyProgFails, Hang,
       Generated
  <1>5. CASE cxl_cfg_rp_link_enc_key_iv \/ cxl_cfg_rp_txrx_key_valid \/
             cxl_cfg_rp_linkenc_enable
    BY <1>5 DEF cxl_cfg_rp_link_enc_key_iv, cxl_construct_rp_iv, Peer,
       cxl_cfg_rp_txrx_key_valid, cxl_cfg_rp_linkenc_enable
  <1>6. CASE cxl_ide_km_key_set_go \/ KSetGoFails
    BY <1>6 DEF cxl_ide_km_key_set_go, DeviceGoes, Switched, KSetGoFails, Hang
  <1>7. CASE cxl_cfg_rp_start_trigger
    BY <1>7 DEF cxl_cfg_rp_start_trigger, Switched
  <1>8. CASE RunEnds \/ KeyRefresh
    BY <1>8 DEF RunEnds, KeyRefresh, Query
  <1>9. CASE cxl_teardown_ide_stream
    BY <1>9 DEF cxl_teardown_ide_stream
  <1>10. CASE cxl_ide_km_key_set_stop
    <2>1. devPend' \in [Dirs -> Keys] /\ devActive' \in [Dirs -> Keys]
      BY <1>10 DEF cxl_ide_km_key_set_stop, DeviceStops
    <2>2. devArmed' => devPend'["RX"] # None
      BY <1>10 DEF cxl_ide_km_key_set_stop, DeviceStops
    <2> QED
      BY <1>10, <2>1, <2>2 DEF cxl_ide_km_key_set_stop
  <1>11. CASE KSetStopFails
    <2>1. devPend' \in [Dirs -> Keys] /\ devActive' \in [Dirs -> Keys]
      BY <1>11 DEF KSetStopFails, DeviceStops
    <2>2. devArmed' => devPend'["RX"] # None
      BY <1>11 DEF KSetStopFails, DeviceStops
    <2> QED
      BY <1>11, <2>1, <2>2 DEF KSetStopFails
  <1>12. CASE RootPortOff
    BY <1>12 DEF RootPortOff
  <1>13. CASE UNCHANGED vars
    BY <1>13 DEF vars
  <1> QED
    BY <1>1, <1>2, <1>3, <1>4, <1>5, <1>6, <1>7, <1>8, <1>9, <1>10, <1>11,
       <1>12, <1>13 DEF Next, Step

\* Flags stay Boolean.
LEMMA FlagTypeStep == Inv /\ [Next]_vars => FlagType'
  <1> SUFFICES ASSUME Inv, [Next]_vars PROVE FlagType'
    OBVIOUS
  <1> USE CxlIdeAssumption DEF Inv, TypeOK, FlagType, caseVars, queryVars,
     keyVars, rp, dev, history
  <1>1. CASE common_test_group_setup \/ GroupSetupFails \/
             common_test_group_teardown \/ Restart \/ BeginCase
    BY <1>1 DEF common_test_group_setup, GroupSetupFails,
       common_test_group_teardown, Restart, BeginCase, Query, Cases
  <1>2. CASE QueryPort0 \/ QueryPort
    BY <1>2 DEF QueryPort0, PortFound, PortNotFound, QueryPort
  <1>3. CASE cxl_ide_generate_key \/ GenerateFails
    BY <1>3 DEF cxl_ide_generate_key, IvToUse, Peer, FixedKey, Ivs,
       GenerateFails, SetupFails
  <1>4. CASE cxl_ide_km_key_prog \/ KeyProgFails
    BY <1>4 DEF cxl_ide_km_key_prog, DeviceTakesKey, Peer, KeyProgFails, Hang
  <1>5. CASE cxl_cfg_rp_link_enc_key_iv \/ cxl_cfg_rp_txrx_key_valid \/
             cxl_cfg_rp_linkenc_enable
    BY <1>5 DEF cxl_cfg_rp_link_enc_key_iv, cxl_construct_rp_iv, Peer,
       cxl_cfg_rp_txrx_key_valid, cxl_cfg_rp_linkenc_enable
  <1>6. CASE cxl_ide_km_key_set_go \/ KSetGoFails
    BY <1>6 DEF cxl_ide_km_key_set_go, DeviceGoes, Switched, KSetGoFails, Hang
  <1>7. CASE cxl_cfg_rp_start_trigger
    BY <1>7 DEF cxl_cfg_rp_start_trigger, Switched
  <1>8. CASE RunEnds \/ KeyRefresh
    BY <1>8 DEF RunEnds, KeyRefresh, Query
  <1>9. CASE cxl_teardown_ide_stream \/ cxl_ide_km_key_set_stop \/
             KSetStopFails \/ RootPortOff
    BY <1>9 DEF cxl_teardown_ide_stream, cxl_ide_km_key_set_stop, DeviceStops,
       Peer, KSetStopFails, RootPortOff
  <1>10. CASE UNCHANGED vars
    BY <1>10 DEF vars
  <1> QED
    BY <1>1, <1>2, <1>3, <1>4, <1>5, <1>6, <1>7, <1>8, <1>9, <1>10 DEF Next,
       Step

\* Sets of directions stay so.
LEMMA SetTypeStep == Inv /\ [Next]_vars => SetType'
  <1> SUFFICES ASSUME Inv, [Next]_vars PROVE SetType'
    OBVIOUS
  <1> USE CxlIdeAssumption DEF Inv, TypeOK, SetType, caseVars, queryVars,
     keyVars, rp, dev, history, Dirs
  <1>1. CASE common_test_group_setup \/ GroupSetupFails \/
             common_test_group_teardown \/ Restart \/ BeginCase
    BY <1>1 DEF common_test_group_setup, GroupSetupFails,
       common_test_group_teardown, Restart, BeginCase, Query, Cases
  <1>2. CASE QueryPort0 \/ QueryPort
    BY <1>2 DEF QueryPort0, PortFound, PortNotFound, QueryPort
  <1>3. CASE cxl_ide_generate_key \/ GenerateFails
    BY <1>3 DEF cxl_ide_generate_key, IvToUse, Peer, FixedKey, Ivs,
       GenerateFails, SetupFails
  <1>4. CASE cxl_ide_km_key_prog \/ KeyProgFails
    BY <1>4 DEF cxl_ide_km_key_prog, DeviceTakesKey, Peer, KeyProgFails, Hang
  <1>5. CASE cxl_cfg_rp_link_enc_key_iv \/ cxl_cfg_rp_txrx_key_valid \/
             cxl_cfg_rp_linkenc_enable
    BY <1>5 DEF cxl_cfg_rp_link_enc_key_iv, cxl_construct_rp_iv, Peer,
       cxl_cfg_rp_txrx_key_valid, cxl_cfg_rp_linkenc_enable
  <1>6. CASE cxl_ide_km_key_set_go \/ KSetGoFails
    BY <1>6 DEF cxl_ide_km_key_set_go, DeviceGoes, Switched, KSetGoFails, Hang
  <1>7. CASE cxl_cfg_rp_start_trigger
    BY <1>7 DEF cxl_cfg_rp_start_trigger, Switched
  <1>8. CASE RunEnds \/ KeyRefresh
    BY <1>8 DEF RunEnds, KeyRefresh, Query
  <1>9. CASE cxl_teardown_ide_stream \/ cxl_ide_km_key_set_stop \/
             KSetStopFails \/ RootPortOff
    BY <1>9 DEF cxl_teardown_ide_stream, cxl_ide_km_key_set_stop, DeviceStops,
       Peer, KSetStopFails, RootPortOff
  <1>10. CASE UNCHANGED vars
    BY <1>10 DEF vars
  <1> QED
    BY <1>1, <1>2, <1>3, <1>4, <1>5, <1>6, <1>7, <1>8, <1>9, <1>10 DEF Next,
       Step

\* The port index is right whenever keys are exchanged.
LEMMA PortStep == Inv /\ [Next]_vars => PortKnown'
  <1> SUFFICES ASSUME Inv, [Next]_vars PROVE PortKnown'
    OBVIOUS
  <1> USE CxlIdeAssumption DEF Inv, TypeOK, PortKnown, caseVars, queryVars,
     keyVars, rp, dev, history, QuerySteps, KeySteps, HalfSwitched, Dirs,
     Reaches
  <1>1. CASE common_test_group_setup \/ GroupSetupFails \/
             common_test_group_teardown \/ Restart \/ BeginCase
    BY <1>1 DEF common_test_group_setup, GroupSetupFails,
       common_test_group_teardown, Restart, BeginCase, Query, Cases
  <1>2. CASE QueryPort0 \/ QueryPort
    BY <1>2 DEF QueryPort0, PortFound, PortNotFound, QueryPort
  <1>3. CASE cxl_ide_generate_key \/ GenerateFails
    BY <1>3 DEF cxl_ide_generate_key, IvToUse, Peer, FixedKey, Ivs,
       GenerateFails, SetupFails
  <1>4. CASE cxl_ide_km_key_prog \/ KeyProgFails
    BY <1>4 DEF cxl_ide_km_key_prog, DeviceTakesKey, Peer, KeyProgFails, Hang
  <1>5. CASE cxl_cfg_rp_link_enc_key_iv \/ cxl_cfg_rp_txrx_key_valid \/
             cxl_cfg_rp_linkenc_enable
    BY <1>5 DEF cxl_cfg_rp_link_enc_key_iv, cxl_construct_rp_iv, Peer,
       cxl_cfg_rp_txrx_key_valid, cxl_cfg_rp_linkenc_enable
  <1>6. CASE cxl_ide_km_key_set_go \/ KSetGoFails
    BY <1>6 DEF cxl_ide_km_key_set_go, DeviceGoes, Switched, KSetGoFails, Hang
  <1>7. CASE cxl_cfg_rp_start_trigger
    BY <1>7 DEF cxl_cfg_rp_start_trigger, Switched
  <1>8. CASE RunEnds \/ KeyRefresh
    BY <1>8 DEF RunEnds, KeyRefresh, Query
  <1>9. CASE cxl_teardown_ide_stream \/ cxl_ide_km_key_set_stop \/
             KSetStopFails \/ RootPortOff
    BY <1>9 DEF cxl_teardown_ide_stream, cxl_ide_km_key_set_stop, DeviceStops,
       Peer, KSetStopFails, RootPortOff
  <1>10. CASE UNCHANGED vars
    BY <1>10 DEF vars
  <1> QED
    BY <1>1, <1>2, <1>3, <1>4, <1>5, <1>6, <1>7, <1>8, <1>9, <1>10 DEF Next,
       Step

\* No key is in use in a root port that is off.
LEMMA EnabledStep == Inv /\ [Next]_vars => LinkEnabled'
  <1> SUFFICES ASSUME Inv, [Next]_vars PROVE LinkEnabled'
    OBVIOUS
  <1> USE CxlIdeAssumption DEF Inv, TypeOK, LinkEnabled, caseVars, queryVars,
     keyVars, rp, dev, history, QuerySteps, KeySteps, HalfSwitched, Dirs,
     Reaches
  <1>1. CASE common_test_group_setup \/ GroupSetupFails \/
             common_test_group_teardown \/ Restart \/ BeginCase
    BY <1>1 DEF common_test_group_setup, GroupSetupFails,
       common_test_group_teardown, Restart, BeginCase, Query, Cases
  <1>2. CASE QueryPort0 \/ QueryPort
    BY <1>2 DEF QueryPort0, PortFound, PortNotFound, QueryPort
  <1>3. CASE cxl_ide_generate_key \/ GenerateFails
    BY <1>3 DEF cxl_ide_generate_key, IvToUse, Peer, FixedKey, Ivs,
       GenerateFails, SetupFails
  <1>4. CASE cxl_ide_km_key_prog \/ KeyProgFails
    BY <1>4 DEF cxl_ide_km_key_prog, DeviceTakesKey, Peer, KeyProgFails, Hang
  <1>5. CASE cxl_cfg_rp_link_enc_key_iv \/ cxl_cfg_rp_txrx_key_valid \/
             cxl_cfg_rp_linkenc_enable
    BY <1>5 DEF cxl_cfg_rp_link_enc_key_iv, cxl_construct_rp_iv, Peer,
       cxl_cfg_rp_txrx_key_valid, cxl_cfg_rp_linkenc_enable, PortKnown
  <1>6. CASE cxl_ide_km_key_set_go \/ KSetGoFails
    BY <1>6 DEF cxl_ide_km_key_set_go, DeviceGoes, Switched, KSetGoFails, Hang
  <1>7. CASE cxl_cfg_rp_start_trigger
    BY <1>7 DEF cxl_cfg_rp_start_trigger, Switched
  <1>8. CASE RunEnds \/ KeyRefresh
    BY <1>8 DEF RunEnds, KeyRefresh, Query
  <1>9. CASE cxl_teardown_ide_stream \/ cxl_ide_km_key_set_stop \/
             KSetStopFails \/ RootPortOff
    BY <1>9 DEF cxl_teardown_ide_stream, cxl_ide_km_key_set_stop, DeviceStops,
       Peer, KSetStopFails, RootPortOff
  <1>10. CASE UNCHANGED vars
    BY <1>10 DEF vars
  <1> QED
    BY <1>1, <1>2, <1>3, <1>4, <1>5, <1>6, <1>7, <1>8, <1>9, <1>10 DEF Next,
       Step

\* The IV that the root port cannot represent is not kept.
LEMMA GeneratedStep == Inv /\ [Next]_vars => Generated'
  <1> SUFFICES ASSUME Inv, [Next]_vars PROVE Generated'
    OBVIOUS
  <1> USE CxlIdeAssumption DEF Inv, TypeOK, Generated, Keys, Ivs, None,
     caseVars, queryVars, keyVars, rp, dev, history, QuerySteps, KeySteps,
     HalfSwitched, Dirs, Reaches
  <1>1. CASE common_test_group_setup \/ GroupSetupFails \/
             common_test_group_teardown \/ Restart \/ BeginCase
    BY <1>1 DEF common_test_group_setup, GroupSetupFails,
       common_test_group_teardown, Restart, BeginCase, Query, Cases
  <1>2. CASE QueryPort0 \/ QueryPort
    BY <1>2 DEF QueryPort0, PortFound, PortNotFound, QueryPort
  <1>3. CASE cxl_ide_generate_key \/ GenerateFails
    BY <1>3 DEF cxl_ide_generate_key, IvToUse, Peer, FixedKey, GenerateFails,
       SetupFails
  <1>4. CASE cxl_ide_km_key_prog \/ KeyProgFails
    BY <1>4 DEF cxl_ide_km_key_prog, DeviceTakesKey, Peer, KeyProgFails, Hang
  <1>5. CASE cxl_cfg_rp_link_enc_key_iv \/ cxl_cfg_rp_txrx_key_valid \/
             cxl_cfg_rp_linkenc_enable
    BY <1>5 DEF cxl_cfg_rp_link_enc_key_iv, cxl_construct_rp_iv, Peer,
       cxl_cfg_rp_txrx_key_valid, cxl_cfg_rp_linkenc_enable
  <1>6. CASE cxl_ide_km_key_set_go \/ KSetGoFails
    BY <1>6 DEF cxl_ide_km_key_set_go, DeviceGoes, Switched, KSetGoFails, Hang
  <1>7. CASE cxl_cfg_rp_start_trigger
    BY <1>7 DEF cxl_cfg_rp_start_trigger, Switched
  <1>8. CASE RunEnds \/ KeyRefresh
    BY <1>8 DEF RunEnds, KeyRefresh, Query
  <1>9. CASE cxl_teardown_ide_stream \/ cxl_ide_km_key_set_stop \/
             KSetStopFails \/ RootPortOff
    BY <1>9 DEF cxl_teardown_ide_stream, cxl_ide_km_key_set_stop, DeviceStops,
       Peer, KSetStopFails, RootPortOff
  <1>10. CASE UNCHANGED vars
    BY <1>10 DEF vars
  <1> QED
    BY <1>1, <1>2, <1>3, <1>4, <1>5, <1>6, <1>7, <1>8, <1>9, <1>10 DEF Next,
       Step

\* A key is its two fields.
LEMMA KeyFields ==
    \A r \in [key : Nat, iv : Ivs] : r = [key |-> r.key, iv |-> r.iv]
  OBVIOUS

\* KEY_PROG for one direction leaves the other direction's key alone.
LEMMA KeyProgProgrammed == Inv /\ cxl_ide_km_key_prog => Programmed'
  <1> SUFFICES ASSUME Inv, cxl_ide_km_key_prog PROVE Programmed'
    OBVIOUS
  <1> USE DEF Inv, TypeOK, Programmed, KeySteps, HalfSwitched, Dirs
  <1>1. Reaches /\ buffer[dir].iv # "none" /\ buffer' = buffer /\ pc = "prog"
    BY DEF PortKnown, Generated, cxl_ide_km_key_prog, keyVars
  <1>2. \/ devPend' = devPend /\ acked' = acked
        \/ /\ devPend' = [devPend EXCEPT ![dir] = buffer[dir]]
           /\ acked' = acked \cup {dir}
    <2>1. [key |-> buffer[dir].key,
           iv |-> IF useIv[dir] = "default" THEN "default" ELSE buffer[dir].iv]
          = buffer[dir]
      <3>1. dir \in Dirs /\ buffer[dir] \in [key : Nat, iv : Ivs]
        BY <1>1 DEF Keys, None
      <3>2. buffer[dir].iv \in {"default", "made"}
        BY <1>1, <3>1 DEF Generated, Ivs
      <3>3. (IF useIv[dir] = "default" THEN "default" ELSE buffer[dir].iv)
            = buffer[dir].iv
        BY <3>1, <3>2 DEF Generated
      <3>4. buffer[dir] = [key |-> buffer[dir].key, iv |-> buffer[dir].iv]
        BY <3>1, KeyFields
      <3> QED
        BY <3>3, <3>4
    <2> QED
      BY <1>1, <2>1 DEF cxl_ide_km_key_prog, DeviceTakesKey
  <1>3. pc' = (IF dir = "RX" THEN "prog" ELSE "rp_keys") /\ dir' = Peer(dir)
    BY DEF cxl_ide_km_key_prog
  <1> QED
    BY <1>1, <1>2, <1>3 DEF Peer


\* An accepted key waits in the device until the switch.
LEMMA ProgrammedStep == Inv /\ [Next]_vars => Programmed'
  <1> SUFFICES ASSUME Inv, [Next]_vars PROVE Programmed'
    OBVIOUS
  <1> USE CxlIdeAssumption DEF Inv, TypeOK, Programmed, caseVars, queryVars,
     keyVars, rp, dev, history, QuerySteps, KeySteps, HalfSwitched, Dirs,
     Reaches
  <1>1. CASE common_test_group_setup \/ GroupSetupFails \/
             common_test_group_teardown \/ Restart \/ BeginCase
    BY <1>1 DEF common_test_group_setup, GroupSetupFails,
       common_test_group_teardown, Restart, BeginCase, Query, Cases
  <1>2. CASE QueryPort0 \/ QueryPort
    BY <1>2 DEF QueryPort0, PortFound, PortNotFound, QueryPort
  <1>3. CASE cxl_ide_generate_key \/ GenerateFails
    BY <1>3 DEF cxl_ide_generate_key, IvToUse, Peer, FixedKey, Ivs,
       GenerateFails, SetupFails
  <1>4. CASE cxl_ide_km_key_prog
    BY <1>4, KeyProgProgrammed
  <1>5. CASE KeyProgFails
    BY <1>5 DEF KeyProgFails, DeviceTakesKey, Hang
  <1>6. CASE cxl_cfg_rp_link_enc_key_iv \/ cxl_cfg_rp_txrx_key_valid \/
             cxl_cfg_rp_linkenc_enable
    BY <1>6 DEF cxl_cfg_rp_link_enc_key_iv, cxl_construct_rp_iv, Peer,
       cxl_cfg_rp_txrx_key_valid, cxl_cfg_rp_linkenc_enable
  <1>7. CASE cxl_ide_km_key_set_go
    BY <1>7 DEF cxl_ide_km_key_set_go, DeviceGoes, Switched, PortKnown,
       Generated, None
  <1>8. CASE KSetGoFails
    BY <1>8 DEF KSetGoFails, DeviceGoes, Switched, Hang
  <1>9. CASE cxl_cfg_rp_start_trigger
    BY <1>9 DEF cxl_cfg_rp_start_trigger, Switched
  <1>10. CASE RunEnds \/ KeyRefresh
    BY <1>10 DEF RunEnds, KeyRefresh, Query
  <1>11. CASE cxl_teardown_ide_stream \/ cxl_ide_km_key_set_stop \/
             KSetStopFails \/ RootPortOff
    BY <1>11 DEF cxl_teardown_ide_stream, cxl_ide_km_key_set_stop,
       DeviceStops, Peer, KSetStopFails, RootPortOff
  <1>12. CASE UNCHANGED vars
    BY <1>12 DEF vars
  <1> QED
    BY <1>1, <1>2, <1>3, <1>4, <1>5, <1>6, <1>7, <1>8, <1>9, <1>10, <1>11,
       <1>12 DEF Next, Step

\* The root port registers hold the keys sent to the device.
LEMMA RegistersStep == Inv /\ [Next]_vars => Registers'
  <1> SUFFICES ASSUME Inv, [Next]_vars PROVE Registers'
    OBVIOUS
  <1> USE CxlIdeAssumption DEF Inv, TypeOK, Registers, Peer, caseVars,
     queryVars, keyVars, rp, dev, history, QuerySteps, KeySteps, HalfSwitched,
     Dirs, Reaches
  <1>1. CASE common_test_group_setup \/ GroupSetupFails \/
             common_test_group_teardown \/ Restart \/ BeginCase
    BY <1>1 DEF common_test_group_setup, GroupSetupFails,
       common_test_group_teardown, Restart, BeginCase, Query, Cases
  <1>2. CASE QueryPort0 \/ QueryPort
    BY <1>2 DEF QueryPort0, PortFound, PortNotFound, QueryPort
  <1>3. CASE cxl_ide_generate_key \/ GenerateFails
    BY <1>3 DEF cxl_ide_generate_key, IvToUse, FixedKey, Ivs, GenerateFails,
       SetupFails
  <1>4. CASE cxl_ide_km_key_prog \/ KeyProgFails
    BY <1>4 DEF cxl_ide_km_key_prog, DeviceTakesKey, KeyProgFails, Hang
  <1>5. CASE cxl_cfg_rp_link_enc_key_iv \/ cxl_cfg_rp_txrx_key_valid \/
             cxl_cfg_rp_linkenc_enable
    BY <1>5 DEF cxl_cfg_rp_link_enc_key_iv, cxl_construct_rp_iv,
       cxl_cfg_rp_txrx_key_valid, cxl_cfg_rp_linkenc_enable, Generated, Keys,
       None
  <1>6. CASE cxl_ide_km_key_set_go \/ KSetGoFails
    BY <1>6 DEF cxl_ide_km_key_set_go, DeviceGoes, Switched, KSetGoFails, Hang
  <1>7. CASE cxl_cfg_rp_start_trigger
    BY <1>7 DEF cxl_cfg_rp_start_trigger, Switched
  <1>8. CASE RunEnds \/ KeyRefresh
    BY <1>8 DEF RunEnds, KeyRefresh, Query
  <1>9. CASE cxl_teardown_ide_stream \/ cxl_ide_km_key_set_stop \/
             KSetStopFails \/ RootPortOff
    BY <1>9 DEF cxl_teardown_ide_stream, cxl_ide_km_key_set_stop, DeviceStops,
       KSetStopFails, RootPortOff
  <1>10. CASE UNCHANGED vars
    BY <1>10 DEF vars
  <1> QED
    BY <1>1, <1>2, <1>3, <1>4, <1>5, <1>6, <1>7, <1>8, <1>9, <1>10 DEF Next,
       Step

\* Unless a direction is apart, a stream that runs has both directions in
\* step.
LEMMA SwitchesStep == Inv /\ [Next]_vars => Switches'
  <1> SUFFICES ASSUME Inv, [Next]_vars PROVE Switches'
    OBVIOUS
  <1> USE CxlIdeAssumption DEF Inv, TypeOK, Switches, BothActive, Peer, None,
     caseVars, queryVars, keyVars, rp, dev, history, QuerySteps, KeySteps,
     HalfSwitched, Dirs, Reaches
  <1>1. CASE common_test_group_setup \/ GroupSetupFails \/
             common_test_group_teardown \/ Restart \/ BeginCase
    BY <1>1 DEF common_test_group_setup, GroupSetupFails,
       common_test_group_teardown, Restart, BeginCase, Query, Cases
  <1>2. CASE QueryPort0 \/ QueryPort
    BY <1>2 DEF QueryPort0, PortFound, PortNotFound, QueryPort
  <1>3. CASE cxl_ide_generate_key \/ GenerateFails
    BY <1>3 DEF cxl_ide_generate_key, IvToUse, FixedKey, Ivs, GenerateFails,
       SetupFails
  <1>4. CASE cxl_ide_km_key_prog \/ KeyProgFails
    BY <1>4 DEF cxl_ide_km_key_prog, DeviceTakesKey, KeyProgFails, Hang
  <1>5. CASE cxl_cfg_rp_link_enc_key_iv \/ cxl_cfg_rp_txrx_key_valid \/
             cxl_cfg_rp_linkenc_enable
    BY <1>5 DEF cxl_cfg_rp_link_enc_key_iv, cxl_construct_rp_iv,
       cxl_cfg_rp_txrx_key_valid, cxl_cfg_rp_linkenc_enable, PortKnown
  <1>6. CASE cxl_ide_km_key_set_go \/ KSetGoFails
    BY <1>6 DEF cxl_ide_km_key_set_go, DeviceGoes, Switched, KSetGoFails,
       Hang, PortKnown, LinkEnabled, Generated, Programmed, Registers
  <1>7. CASE cxl_cfg_rp_start_trigger
    BY <1>7 DEF cxl_cfg_rp_start_trigger, Switched, Programmed, Registers
  <1>8. CASE RunEnds \/ KeyRefresh
    BY <1>8 DEF RunEnds, KeyRefresh, Query
  <1>9. CASE cxl_teardown_ide_stream \/ cxl_ide_km_key_set_stop \/
             KSetStopFails \/ RootPortOff
    BY <1>9 DEF cxl_teardown_ide_stream, cxl_ide_km_key_set_stop, DeviceStops,
       KSetStopFails, RootPortOff
  <1>10. CASE UNCHANGED vars
    BY <1>10 DEF vars
  <1> QED
    BY <1>1, <1>2, <1>3, <1>4, <1>5, <1>6, <1>7, <1>8, <1>9, <1>10 DEF Next,
       Step

\* KSetStop takes the keys of the directions in turn.
LEMMA StoppedStep == Inv /\ [Next]_vars => Stopped'
  <1> SUFFICES ASSUME Inv, [Next]_vars PROVE Stopped'
    OBVIOUS
  <1> USE CxlIdeAssumption DEF Inv, TypeOK, Stopped, caseVars, queryVars,
     keyVars, rp, dev, history, QuerySteps, KeySteps, HalfSwitched, Dirs,
     Reaches
  <1>1. CASE common_test_group_setup \/ GroupSetupFails \/
             common_test_group_teardown \/ Restart \/ BeginCase
    BY <1>1 DEF common_test_group_setup, GroupSetupFails,
       common_test_group_teardown, Restart, BeginCase, Query, Cases
  <1>2. CASE QueryPort0 \/ QueryPort
    BY <1>2 DEF QueryPort0, PortFound, PortNotFound, QueryPort
  <1>3. CASE cxl_ide_generate_key \/ GenerateFails
    BY <1>3 DEF cxl_ide_generate_key, IvToUse, Peer, FixedKey, Ivs,
       GenerateFails, SetupFails
  <1>4. CASE cxl_ide_km_key_prog \/ KeyProgFails
    BY <1>4 DEF cxl_ide_km_key_prog, DeviceTakesKey, Peer, KeyProgFails, Hang
  <1>5. CASE cxl_cfg_rp_link_enc_key_iv \/ cxl_cfg_rp_txrx_key_valid \/
             cxl_cfg_rp_linkenc_enable
    BY <1>5 DEF cxl_cfg_rp_link_enc_key_iv, cxl_construct_rp_iv, Peer,
       cxl_cfg_rp_txrx_key_valid, cxl_cfg_rp_linkenc_enable
  <1>6. CASE cxl_ide_km_key_set_go \/ KSetGoFails
    BY <1>6 DEF cxl_ide_km_key_set_go, DeviceGoes, Switched, KSetGoFails, Hang
  <1>7. CASE cxl_cfg_rp_start_trigger
    BY <1>7 DEF cxl_cfg_rp_start_trigger, Switched
  <1>8. CASE RunEnds \/ KeyRefresh
    BY <1>8 DEF RunEnds, KeyRefresh, Query
  <1>9. CASE cxl_teardown_ide_stream \/ cxl_ide_km_key_set_stop \/
             KSetStopFails \/ RootPortOff
    BY <1>9 DEF cxl_teardown_ide_stream, cxl_ide_km_key_set_stop, DeviceStops,
       Peer, KSetStopFails, RootPortOff
  <1>10. CASE UNCHANGED vars
    BY <1>10 DEF vars
  <1> QED
    BY <1>1, <1>2, <1>3, <1>4, <1>5, <1>6, <1>7, <1>8, <1>9, <1>10 DEF Next,
       Step

\* Nothing happens to the link between two cases.
LEMMA CleanStep == Inv /\ [Next]_vars => StaysClean'
  <1> SUFFICES ASSUME Inv, [Next]_vars PROVE StaysClean'
    OBVIOUS
  <1> USE CxlIdeAssumption DEF Inv, TypeOK, StaysClean, caseVars, queryVars,
     keyVars, rp, dev, history, QuerySteps, KeySteps, HalfSwitched, Dirs,
     Reaches
  <1>1. CASE common_test_group_setup \/ GroupSetupFails \/
             common_test_group_teardown \/ Restart \/ BeginCase
    BY <1>1 DEF common_test_group_setup, GroupSetupFails,
       common_test_group_teardown, Restart, BeginCase, Query, Cases
  <1>2. CASE QueryPort0 \/ QueryPort
    BY <1>2 DEF QueryPort0, PortFound, PortNotFound, QueryPort
  <1>3. CASE cxl_ide_generate_key \/ GenerateFails
    BY <1>3 DEF cxl_ide_generate_key, IvToUse, Peer, FixedKey, Ivs,
       GenerateFails, SetupFails
  <1>4. CASE cxl_ide_km_key_prog \/ KeyProgFails
    BY <1>4 DEF cxl_ide_km_key_prog, DeviceTakesKey, Peer, KeyProgFails, Hang
  <1>5. CASE cxl_cfg_rp_link_enc_key_iv \/ cxl_cfg_rp_txrx_key_valid \/
             cxl_cfg_rp_linkenc_enable
    BY <1>5 DEF cxl_cfg_rp_link_enc_key_iv, cxl_construct_rp_iv, Peer,
       cxl_cfg_rp_txrx_key_valid, cxl_cfg_rp_linkenc_enable
  <1>6. CASE cxl_ide_km_key_set_go \/ KSetGoFails
    BY <1>6 DEF cxl_ide_km_key_set_go, DeviceGoes, Switched, KSetGoFails, Hang
  <1>7. CASE cxl_cfg_rp_start_trigger
    BY <1>7 DEF cxl_cfg_rp_start_trigger, Switched
  <1>8. CASE RunEnds \/ KeyRefresh
    BY <1>8 DEF RunEnds, KeyRefresh, Query
  <1>9. CASE cxl_teardown_ide_stream \/ cxl_ide_km_key_set_stop \/
             KSetStopFails \/ RootPortOff
    BY <1>9 DEF cxl_teardown_ide_stream, cxl_ide_km_key_set_stop, DeviceStops,
       Peer, KSetStopFails, RootPortOff, Stopped
  <1>10. CASE UNCHANGED vars
    BY <1>10 DEF vars
  <1> QED
    BY <1>1, <1>2, <1>3, <1>4, <1>5, <1>6, <1>7, <1>8, <1>9, <1>10 DEF Next,
       Step

\* IDE.Start moves both ends of the device's RX to the same key.
LEMMA TriggerTraffic == Inv /\ cxl_cfg_rp_start_trigger => LinkTrafficKeys'
  <1> SUFFICES ASSUME Inv, cxl_cfg_rp_start_trigger PROVE LinkTrafficKeys'
    OBVIOUS
  <1> USE DEF Inv, TypeOK, KeySteps, HalfSwitched, Dirs
  <1>1. /\ rpEn' = rpEn /\ pc = "trigger"
        /\ devActive'["TX"] = devActive["TX"]
        /\ rpActive'["RX"] = rpActive["RX"]
        /\ "TX" \in apart' <=> "TX" \in apart
    BY DEF cxl_cfg_rp_start_trigger, Switched
  <1>2. ASSUME "RX" \notin apart' PROVE devActive'["RX"] = rpActive'["TX"]
    <2>1. "RX" \in acked
      BY <1>2 DEF cxl_cfg_rp_start_trigger, Switched
    <2>2. devArmed /\ devPend["RX"] = buffer["RX"]
      BY <1>1, <2>1 DEF Programmed
    <2>3. "TX" \in rpValid /\ rpReg["TX"] = buffer["RX"]
      BY <1>1 DEF Registers, Peer
    <2> QED
      BY <2>2, <2>3 DEF cxl_cfg_rp_start_trigger
  <1> QED
    BY <1>1, <1>2 DEF LinkTrafficKeys, InTeardown

\* What KSetGo changes, whether its answer arrives or not: the device's RX is
\* armed, or its TX and the root port's RX go to the key that waits.
LEMMA GoesTraffic ==
    ASSUME Inv, pc = "go", DeviceGoes, rpEn' = rpEn, pc' # "stop",
           pc' # "rp_off",
           IF dir = "TX" THEN Switched("TX") ELSE UNCHANGED apart
    PROVE  LinkTrafficKeys'
  <1> USE DEF Inv, TypeOK, KeySteps, HalfSwitched, Dirs
  <1>1. /\ devActive'["RX"] = devActive["RX"]
        /\ rpActive'["TX"] = rpActive["TX"]
        /\ "RX" \in apart' <=> "RX" \in apart
    BY DEF DeviceGoes, Switched, dev
  <1>2. CASE dir = "RX"
    BY <1>2, <1>1 DEF DeviceGoes, dev, LinkTrafficKeys, InTeardown
  <1>3. CASE dir = "TX"
    <2>1. rpEn /\ "RX" \in rpValid /\ rpReg["RX"] = buffer["TX"]
      BY <1>3 DEF LinkEnabled, Registers, Peer
    <2>2. ASSUME "TX" \notin apart' PROVE rpActive'["RX"] = devActive'["TX"]
      <3>1. "TX" \in acked
        BY <1>3, <2>2 DEF Switched
      <3>2. devPend["TX"] = buffer["TX"] /\ devPend["TX"] # None /\ Reaches
        BY <1>3, <3>1 DEF Programmed, Generated, PortKnown, None
      <3> QED
        BY <1>3, <2>1, <3>2 DEF DeviceGoes
    <2> QED
      BY <1>1, <2>1, <2>2 DEF LinkTrafficKeys, InTeardown
  <1> QED
    BY <1>2, <1>3

\* LinkTrafficKeys is preserved; only a switch and the enabling can disturb it.
LEMMA TrafficStep == Inv /\ [Next]_vars => LinkTrafficKeys'
  <1> SUFFICES ASSUME Inv, [Next]_vars PROVE LinkTrafficKeys'
    OBVIOUS
  <1> USE CxlIdeAssumption DEF Inv, TypeOK, LinkTrafficKeys, InTeardown,
     caseVars, queryVars, keyVars, rp, dev, history, QuerySteps, KeySteps,
     HalfSwitched, Dirs, Reaches
  <1>1. CASE common_test_group_setup \/ GroupSetupFails \/
             common_test_group_teardown \/ Restart \/ BeginCase
    BY <1>1 DEF common_test_group_setup, GroupSetupFails,
       common_test_group_teardown, Restart, BeginCase, Query, Cases
  <1>2. CASE QueryPort0 \/ QueryPort
    BY <1>2 DEF QueryPort0, PortFound, PortNotFound, QueryPort
  <1>3. CASE cxl_ide_generate_key \/ GenerateFails
    BY <1>3 DEF cxl_ide_generate_key, IvToUse, Peer, FixedKey, Ivs,
       GenerateFails, SetupFails
  <1>4. CASE cxl_ide_km_key_prog \/ KeyProgFails
    BY <1>4 DEF cxl_ide_km_key_prog, DeviceTakesKey, Peer, KeyProgFails, Hang
  <1>5. CASE cxl_cfg_rp_link_enc_key_iv \/ cxl_cfg_rp_txrx_key_valid \/
             cxl_cfg_rp_linkenc_enable
    BY <1>5 DEF cxl_cfg_rp_link_enc_key_iv, cxl_construct_rp_iv, Peer,
       cxl_cfg_rp_txrx_key_valid, cxl_cfg_rp_linkenc_enable, LinkEnabled
  <1>6. CASE cxl_ide_km_key_set_go
    BY <1>6, GoesTraffic DEF cxl_ide_km_key_set_go
  <1>7. CASE KSetGoFails
    BY <1>7, GoesTraffic DEF KSetGoFails, Hang
  <1>8. CASE cxl_cfg_rp_start_trigger
    BY <1>8, TriggerTraffic
  <1>9. CASE RunEnds \/ KeyRefresh
    BY <1>9 DEF RunEnds, KeyRefresh, Query
  <1>10. CASE cxl_teardown_ide_stream \/ cxl_ide_km_key_set_stop \/
             KSetStopFails \/ RootPortOff
    BY <1>10 DEF cxl_teardown_ide_stream, cxl_ide_km_key_set_stop,
       DeviceStops, Peer, KSetStopFails, RootPortOff
  <1>11. CASE UNCHANGED vars
    BY <1>11 DEF vars
  <1> QED
    BY <1>1, <1>2, <1>3, <1>4, <1>5, <1>6, <1>7, <1>8, <1>9, <1>10, <1>11 DEF
       Next, Step

\* LinkQuiesced is preserved.
LEMMA QuiescedStep == Inv /\ [Next]_vars => LinkQuiesced'
  <1> SUFFICES ASSUME Inv, [Next]_vars PROVE LinkQuiesced'
    OBVIOUS
  <1> USE CxlIdeAssumption DEF Inv, TypeOK, LinkQuiesced, caseVars, queryVars,
     keyVars, rp, dev, history, QuerySteps, KeySteps, HalfSwitched, Dirs,
     Reaches
  <1>1. CASE common_test_group_setup \/ GroupSetupFails \/
             common_test_group_teardown \/ Restart \/ BeginCase
    BY <1>1 DEF common_test_group_setup, GroupSetupFails,
       common_test_group_teardown, Restart, BeginCase, Query, Cases,
       LinkEnabled, StaysClean
  <1>2. CASE QueryPort0 \/ QueryPort
    BY <1>2 DEF QueryPort0, PortFound, PortNotFound, QueryPort
  <1>3. CASE cxl_ide_generate_key \/ GenerateFails
    BY <1>3 DEF cxl_ide_generate_key, IvToUse, Peer, FixedKey, Ivs,
       GenerateFails, SetupFails
  <1>4. CASE cxl_ide_km_key_prog \/ KeyProgFails
    BY <1>4 DEF cxl_ide_km_key_prog, DeviceTakesKey, Peer, KeyProgFails, Hang
  <1>5. CASE cxl_cfg_rp_link_enc_key_iv \/ cxl_cfg_rp_txrx_key_valid \/
             cxl_cfg_rp_linkenc_enable
    BY <1>5 DEF cxl_cfg_rp_link_enc_key_iv, cxl_construct_rp_iv, Peer,
       cxl_cfg_rp_txrx_key_valid, cxl_cfg_rp_linkenc_enable
  <1>6. CASE cxl_ide_km_key_set_go \/ KSetGoFails
    BY <1>6 DEF cxl_ide_km_key_set_go, DeviceGoes, Switched, KSetGoFails, Hang
  <1>7. CASE cxl_cfg_rp_start_trigger
    BY <1>7 DEF cxl_cfg_rp_start_trigger, Switched
  <1>8. CASE RunEnds \/ KeyRefresh
    BY <1>8 DEF RunEnds, KeyRefresh, Query
  <1>9. CASE cxl_teardown_ide_stream \/ cxl_ide_km_key_set_stop \/
             KSetStopFails \/ RootPortOff
    BY <1>9 DEF cxl_teardown_ide_stream, cxl_ide_km_key_set_stop, DeviceStops,
       Peer, KSetStopFails, RootPortOff, StaysClean, Stopped
  <1>10. CASE UNCHANGED vars
    BY <1>10 DEF vars
  <1> QED
    BY <1>1, <1>2, <1>3, <1>4, <1>5, <1>6, <1>7, <1>8, <1>9, <1>10 DEF Next,
       Step

\* PassMeansActive is preserved.
LEMMA PassStep == Inv /\ [Next]_vars => PassMeansActive'
  <1> SUFFICES ASSUME Inv, [Next]_vars PROVE PassMeansActive'
    OBVIOUS
  <1> USE CxlIdeAssumption DEF Inv, TypeOK, PassMeansActive, BothActive,
     caseVars, queryVars, keyVars, rp, dev, history, QuerySteps, KeySteps,
     HalfSwitched, Dirs, Reaches
  <1>1. CASE common_test_group_setup \/ GroupSetupFails \/
             common_test_group_teardown \/ Restart \/ BeginCase
    BY <1>1 DEF common_test_group_setup, GroupSetupFails,
       common_test_group_teardown, Restart, BeginCase, Query, Cases
  <1>2. CASE QueryPort0 \/ QueryPort
    BY <1>2 DEF QueryPort0, PortFound, PortNotFound, QueryPort, Switches
  <1>3. CASE cxl_ide_generate_key \/ GenerateFails
    BY <1>3 DEF cxl_ide_generate_key, IvToUse, Peer, FixedKey, Ivs,
       GenerateFails, SetupFails, Switches
  <1>4. CASE cxl_ide_km_key_prog \/ KeyProgFails
    BY <1>4 DEF cxl_ide_km_key_prog, DeviceTakesKey, Peer, KeyProgFails, Hang
  <1>5. CASE cxl_cfg_rp_link_enc_key_iv \/ cxl_cfg_rp_txrx_key_valid \/
             cxl_cfg_rp_linkenc_enable
    BY <1>5 DEF cxl_cfg_rp_link_enc_key_iv, cxl_construct_rp_iv, Peer,
       cxl_cfg_rp_txrx_key_valid, cxl_cfg_rp_linkenc_enable
  <1>6. CASE cxl_ide_km_key_set_go \/ KSetGoFails
    BY <1>6 DEF cxl_ide_km_key_set_go, DeviceGoes, Switched, KSetGoFails, Hang
  <1>7. CASE cxl_cfg_rp_start_trigger
    BY <1>7 DEF cxl_cfg_rp_start_trigger, Switched
  <1>8. CASE RunEnds \/ KeyRefresh
    BY <1>8 DEF RunEnds, KeyRefresh, Query, Switches
  <1>9. CASE cxl_teardown_ide_stream \/ cxl_ide_km_key_set_stop \/
             KSetStopFails \/ RootPortOff
    BY <1>9 DEF cxl_teardown_ide_stream, cxl_ide_km_key_set_stop, DeviceStops,
       Peer, KSetStopFails, RootPortOff
  <1>10. CASE UNCHANGED vars
    BY <1>10 DEF vars
  <1> QED
    BY <1>1, <1>2, <1>3, <1>4, <1>5, <1>6, <1>7, <1>8, <1>9, <1>10 DEF Next,
       Step

-----------------------------------------------------------------------------
(***************************************************************************)
(* The theorems.                                                           *)
(***************************************************************************)
\* The conjunction Inv holds in every reachable state.
THEOREM Invariance == Spec => []Inv
  <1>1. Inv /\ [Next]_vars => TypeOK'
    <2>1. TypeOK' <=> /\ ControlType' /\ CountType' /\ KeyType' /\ FlagType'
                      /\ SetType'
      BY TypeParts, PTL
    <2> QED
      BY <2>1, ControlTypeStep, CountTypeStep, KeyTypeStep, FlagTypeStep,
         SetTypeStep
  <1>2. Inv /\ [Next]_vars => Inv'
    BY <1>1, PortStep, EnabledStep, GeneratedStep, ProgrammedStep,
       RegistersStep, SwitchesStep, StoppedStep, CleanStep, TrafficStep,
       QuiescedStep, PassStep DEF Inv
  <1> QED
    BY InitInv, <1>2, PTL DEF Spec

\* Type correctness: in particular the query loop of
\* cxl_ide_query_port_index never leaves the range of its uint8_t index.
THEOREM TypeCorrect == Spec => []TypeOK
  <1>1. Inv => TypeOK
    BY DEF Inv
  <1> QED
    BY Invariance, <1>1, PTL

\* Outside teardown both ends of a direction that is not apart hold the same
\* key and IV, while cxl_setup_ide_stream runs, while keys are replaced under
\* traffic, in a program that hangs and in the one started after it.
THEOREM LinkTrafficKeysCorrect == Spec => []LinkTrafficKeys
  <1>1. Inv => LinkTrafficKeys
    BY DEF Inv
  <1> QED
    BY Invariance, <1>1, PTL

\* After a cxl_teardown_ide_stream that went through no key is in use.
THEOREM LinkQuiescedCorrect == Spec => []LinkQuiesced
  <1>1. Inv => LinkQuiesced
    BY DEF Inv
  <1> QED
    BY Invariance, <1>1, PTL

\* A case passes only with both directions on and in step, unless the device
\* refused a key.
THEOREM PassMeansActiveCorrect == Spec => []PassMeansActive
  <1>1. Inv => PassMeansActive
    BY DEF Inv
  <1> QED
    BY Invariance, <1>1, PTL

=============================================================================
