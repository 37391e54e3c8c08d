----------------------------- MODULE TestRunner -----------------------------
(***************************************************************************)
(* The test runner of ide_test.c running one suite of the pcie-ide         *)
(* category: do_run_test_suite walks the groups, do_run_test_group the     *)
(* cases of a group and do_run_test_case the callbacks of one case.  Each  *)
(* callback (a group's setup and teardown, a case's setup, run and         *)
(* teardown, and one support, enable, check or disable function of one     *)
(* configuration item) is one action.  The configuration items are those   *)
(* of pcie_ide_test_lib/test_config, with the register bits they change    *)
(* in the two ports; the bodies of the cases are the test libraries' and   *)
(* show here only by their return value and by the assertions they record  *)
(* through teeio_common.c.                                                 *)
(***************************************************************************)
EXTENDS Integers, Sequences, FiniteSets, FiniteSetsExt, Functions

CONSTANTS
    CaseCount,   \* CaseCount[g]: the number of cases of the suite's group g
    Checked,     \* the cases <<g, c>> whose table entry has config_check_required
    MaxAsserts   \* bound on the assertions of one kind a case's run records

Groups == 1..Len(CaseCount)
CaseIds == UNION {{g} \X (1..CaseCount[g]) : g \in Groups}

ASSUME RunnerAssumption ==
    /\ CaseCount \in Seq(Nat \ {0})
    /\ CaseCount # <<>>
    /\ Checked \subseteq CaseIds
    /\ MaxAsserts \in Nat

Ports == {"upper", "lower"}

\* The configuration items a pcie-ide suite can select, in the order of their
\* bits; the others of the bitmask have no functions behind them.
ItemOrder == <<"default", "pcrc", "cfg_req", "flit">>
Items == {"default", "pcrc", "cfg_req", "flit"}
ControlBits == {"pcrc", "cfg_req"}   \* pcrc_en and cfg_sel_ide

Funcs == {"support", "enable", "disable", "check"}
Results == {"NOT_TESTED", "PASS", "FAILED"}
None == <<0, 0>>                     \* a NULL result pointer

VARIABLES
    bits,      \* the items of the suite's configuration
    caps,      \* the items both ports (and the switches between) can do
    ctrl,      \* ctrl[p]: the bits set in the stream control register of p
    link,      \* the upper port's link: its two disable bits, flit mode on
    pc,        \* the callback do_run_test_* calls next
    group,     \* run_test_group, as its place in the suite
    case,      \* test_case, as its place in the group
    item,      \* config_item, as its place in ItemOrder
    ready,     \* group_setup_result
    action,    \* case_context->action of every case
    current,   \* g_current_case_result: the case it belongs to
    results,   \* the case results allocated so far
    groupRes,  \* the group results
    configRes, \* the totals of the config result
    stuck      \* the callback that is running will never return

hardware == <<ctrl, link>>
report == <<results, groupRes, configRes>>
walk == <<bits, caps, ctrl, link, pc, group, case, item, ready, action,
          current, results, groupRes, configRes>>
vars == <<walk, stuck>>

NoTotals == [passed |-> 0, failed |-> 0]
NoItems == [t \in Items |-> [f \in Funcs |-> "NOT_TESTED"]]
EmptyResult == [totals |-> NoTotals, items |-> NoItems]
EmptyGroup == [totals |-> NoTotals, setup |-> "NOT_TESTED",
               teardown |-> "NOT_TESTED"]
AsResult(b) == IF b THEN "PASS" ELSE "FAILED"

-----------------------------------------------------------------------------
(* The list of configuration items and the registers they drive.           *)

\* alloc_run_test_config: the default bit is always in the bitmap, and the
\* items are appended in the order of their bits.
Selected == {n \in 1..Len(ItemOrder) :
                ItemOrder[n] = "default" \/ ItemOrder[n] \in bits}
LastItem == \A n \in Selected : n <= item
NextItem == Min({n \in Selected : n > item})

\* One port only: an easy slip in test_config_reset_ide_registers.
ResetControlsUpper == [ctrl EXCEPT !["upper"] = {}]

\* reset_ide_registers for the two ports: the control register is rewritten
\* with the stream id alone.
ResetControls == [p \in Ports |-> {}]

\* test_config_set_pcrc_common and test_config_set_sel_ide_for_cfg_req: a
\* read-modify-write of one bit in each port.
WriteControl(b, on) ==
    [p \in Ports |-> IF on THEN ctrl[p] \cup {b} ELSE ctrl[p] \ {b}]

\* set_flit_mode_disable on the upper port, with the link taken down and up
\* again, and what it leaves in the registers where it stops.  A link that
\* went down has reset the device, whose control bits are then clear; on
\* success reset_ide_registers has rewritten them as well.
FlitSwitch(dis, ret) ==
    \/ ~ret /\ UNCHANGED hardware              \* flit_mode_disable not taken
    \/ /\ ~ret                                 \* link_disable not taken
       /\ link' = [link EXCEPT !.flitDis = dis]
       /\ UNCHANGED ctrl
    \/ /\ ~ret                                 \* the link does not go down,
       /\ \E down \in BOOLEAN :                \* or comes back late, or never
             \E f \in {link.flit, ~dis} :
                link' = [flitDis |-> dis, linkDis |-> down, flit |-> f]
       /\ \E lost \in BOOLEAN :
             ctrl' = IF lost THEN [ctrl EXCEPT !["lower"] = {}] ELSE ctrl
    \/ /\ ~ret                                 \* up again in the same mode
       /\ link' = [link EXCEPT !.flitDis = dis, !.linkDis = FALSE]
       /\ ctrl' = [ctrl EXCEPT !["lower"] = {}]
    \/ /\ ret
       /\ link' = [flitDis |-> dis, linkDis |-> FALSE, flit |-> ~dis]
       /\ ctrl' = [ctrl EXCEPT !["lower"] = {}]

-----------------------------------------------------------------------------
(* Recording results, teeio_common.c.                                       *)

\* teeio_record_config_item_result: nothing enters the totals.
RecordItem(t, f, r) ==
    results' = [results EXCEPT ![current].items[t][f] = r]

Bump(totals, p, n) == [passed |-> totals.passed + p, failed |-> totals.failed + n]

\* The group's counter left out for a failed assertion.
RecordAssertionsNoGroupFail(p, n) ==
    /\ results' = [results EXCEPT ![current].totals = Bump(@, p, n)]
    /\ groupRes' = [groupRes EXCEPT ![group].totals = Bump(@, p, 0)]
    /\ configRes' = Bump(configRes, p, n)

\* teeio_record_assertion_result, called for p passed and n failed assertions
\* while g_current_case_result points at the case that is running.
RecordAssertions(p, n) ==
    /\ results' = [results EXCEPT ![current].totals = Bump(@, p, n)]
    /\ groupRes' = [groupRes EXCEPT ![group].totals = Bump(@, p, n)]
    /\ configRes' = Bump(configRes, p, n)

\* print_test_results: what the summary says of a case.
Verdict(k) ==
    CASE results[k].totals = NoTotals -> "NOT_TESTED"
      [] results[k].totals.failed = 0 /\ results[k].totals.passed > 0 -> "PASS"
      [] OTHER -> "FAILED"

-----------------------------------------------------------------------------
Init ==
    /\ bits \in SUBSET (Items \ {"default"})
    /\ caps \in SUBSET Items
    /\ ctrl \in [Ports -> SUBSET ControlBits]
    /\ link \in {[flitDis |-> FALSE, linkDis |-> FALSE, flit |-> f] :
                    f \in BOOLEAN}
    /\ pc = "group" /\ group = 1 /\ case = 1 /\ item = 1
    /\ ready = FALSE
    /\ action = [k \in CaseIds |-> "RUN"]
    /\ current = None
    /\ results = << >>
    /\ groupRes = << >>
    /\ configRes = NoTotals
    /\ stuck = FALSE

\* Go on with the next item of the list, or with the step after the list.
Advance(list, after) ==
    IF LastItem THEN pc' = after /\ item' = 1
                ELSE pc' = list /\ item' = NextItem

\* Leave do_run_test_case.
Return == pc' = "next" /\ item' = 1

\* Give the group up when its setup fails, with no result for its cases.
GroupSetupGivesUp ==
    /\ pc = "group" /\ group \in Groups
    /\ \E ok \in BOOLEAN :
          /\ ready' = ok
          /\ groupRes' = Append(groupRes, [EmptyGroup EXCEPT !.setup = AsResult(ok)])
          /\ pc' = IF ok THEN "case" ELSE "group_teardown"
    /\ case' = 1
    /\ UNCHANGED <<bits, caps, hardware, group, item, action, current, results,
                   configRes>>

\* alloc_run_test_group_result, then the group's setup function, which
\* records how it went.
GroupSetup ==
    /\ pc = "group" /\ group \in Groups
    /\ \E ok \in BOOLEAN :
          /\ ready' = ok
          /\ groupRes' = Append(groupRes, [EmptyGroup EXCEPT !.setup = AsResult(ok)])
    /\ pc' = "case" /\ case' = 1
    /\ UNCHANGED <<bits, caps, hardware, group, item, action, current, results,
                   configRes>>

\* alloc_run_test_case_result, and do_run_test_case up to the support
\* functions: only in a group that is set up, and not for a skipped case.
StartCase ==
    /\ pc = "case"
    /\ current' = <<group, case>>
    /\ results' = [k \in DOMAIN results \cup {<<group, case>>} |->
                      IF k = <<group, case>> THEN EmptyResult ELSE results[k]]
    /\ pc' = IF ready /\ action[<<group, case>>] = "RUN" THEN "support" ELSE "next"
    /\ UNCHANGED <<bits, caps, hardware, group, case, item, ready, action,
                   groupRes, configRes>>

\* One case too many.
NextCaseTooFar ==
    /\ pc = "next"
    /\ current' = None
    /\ IF case <= CaseCount[group]
         THEN pc' = "case" /\ case' = case + 1
         ELSE pc' = "group_teardown" /\ UNCHANGED case
    /\ UNCHANGED <<bits, caps, hardware, group, item, ready, action, report>>

NextCase ==
    /\ pc = "next"
    /\ current' = None
    /\ IF case < CaseCount[group]
         THEN pc' = "case" /\ case' = case + 1
         ELSE pc' = "group_teardown" /\ UNCHANGED case
    /\ UNCHANGED <<bits, caps, hardware, group, item, ready, action, report>>

\* The group's teardown function, only after a setup that succeeded, and the
\* step to the next group of the suite.
GroupTeardown ==
    /\ pc = "group_teardown"
    /\ groupRes' = IF ready THEN [groupRes EXCEPT ![group].teardown = "PASS"]
                            ELSE groupRes
    /\ pc' = IF group = Len(CaseCount) THEN "done" ELSE "group"
    /\ group' = IF group = Len(CaseCount) THEN group ELSE group + 1
    /\ UNCHANGED <<bits, caps, hardware, case, item, ready, action, current,
                   results, configRes>>

-----------------------------------------------------------------------------
(* do_run_test_config_support: one support function.                        *)

\* What the function of item t returns.  The pcrc function records that the
\* feature is missing and returns true all the same.
SupportReturns(t) ==
    CASE t = "pcrc" -> TRUE
      [] t = "flit" -> "flit" \in caps /\ link.flit
      [] OTHER      -> t \in caps

\* The loop's condition without the result: the answer of the last item only.
SupportLastOnly ==
    LET t == ItemOrder[item]
    IN  /\ pc = "support"
        /\ IF t = "flit" THEN UNCHANGED results
                         ELSE RecordItem(t, "support", AsResult(t \in caps))
        /\ IF SupportReturns(t) \/ ~LastItem THEN Advance("support", "enable")
                                             ELSE Return
        /\ UNCHANGED <<bits, caps, hardware, group, case, ready, action, current,
                       groupRes, configRes>>

Support ==
    LET t == ItemOrder[item]
    IN  /\ pc = "support"
        /\ IF t = "flit" THEN UNCHANGED results
                         ELSE RecordItem(t, "support", AsResult(t \in caps))
        /\ IF SupportReturns(t) THEN Advance("support", "enable") ELSE Return
        /\ UNCHANGED <<bits, caps, hardware, group, case, ready, action, current,
                       groupRes, configRes>>

(* do_run_test_config_enable: one enable function.                          *)

\* test_config_enable_common: flow-through is set in the switches on the way,
\* which may fail, then both ports' registers are reset.
EnableDefault ==
    /\ pc = "enable" /\ ItemOrder[item] = "default"
    /\ \E ok \in BOOLEAN :
          /\ RecordItem("default", "enable", AsResult(ok))
          /\ ctrl' = IF ok THEN ResetControls ELSE ctrl
          /\ IF ok THEN Advance("enable", "setup") ELSE Return
    /\ UNCHANGED <<bits, caps, link, group, case, ready, action, current,
                   groupRes, configRes>>

\* The enable function of pcrc and of cfg_req.
EnableControl ==
    LET t == ItemOrder[item]
    IN  /\ pc = "enable" /\ t \in ControlBits
        /\ ctrl' = WriteControl(t, TRUE)
        /\ RecordItem(t, "enable", "PASS")
        /\ Advance("enable", "setup")
        /\ UNCHANGED <<bits, caps, link, group, case, ready, action, current,
                       groupRes, configRes>>

EnableFlit ==
    /\ pc = "enable" /\ ItemOrder[item] = "flit"
    /\ \E ret \in BOOLEAN :
          /\ FlitSwitch(TRUE, ret)
          /\ IF ret THEN Advance("enable", "setup") ELSE Return
    /\ UNCHANGED <<bits, caps, group, case, ready, action, current, report>>

-----------------------------------------------------------------------------
(* The case itself.                                                         *)

\* setup_func: it fails and the runner marks the case to be skipped, or it
\* succeeds, possibly marking the case itself.
CaseSetup ==
    /\ pc = "setup"
    /\ \E a \in {"RUN", "SKIP"} :
          /\ action' = [action EXCEPT ![current] = a]
          /\ pc' = IF a = "RUN" THEN "run" ELSE "teardown"
    /\ UNCHANGED <<bits, caps, hardware, group, case, item, ready, current,
                   report>>

\* run_func, with whatever assertions it records.
CaseRun ==
    /\ pc = "run"
    /\ \E p, n \in 0..MaxAsserts : RecordAssertions(p, n)
    /\ pc' = IF current \in Checked THEN "check" ELSE "teardown"
    /\ UNCHANGED <<bits, caps, hardware, group, case, item, ready, action,
                   current>>

\* do_run_test_config_check: one check function.  test_config_check_common
\* reads the stream's state in both ports; what the loop returns is dropped.
Check ==
    LET t == ItemOrder[item]
    IN  /\ pc = "check"
        /\ \E ret \in BOOLEAN :
              /\ t = "cfg_req" => ret = (\A p \in Ports : t \in ctrl[p])
              /\ t \in {"pcrc", "flit"} => ret
              /\ IF t \in {"pcrc", "flit"}
                   THEN UNCHANGED results
                   ELSE RecordItem(t, "check", AsResult(ret))
              /\ IF ret THEN Advance("check", "teardown")
                        ELSE pc' = "teardown" /\ item' = 1
        /\ UNCHANGED <<bits, caps, hardware, group, case, ready, action, current,
                       groupRes, configRes>>

CaseTeardown ==
    /\ pc = "teardown"
    /\ pc' = "disable"
    /\ UNCHANGED <<bits, caps, hardware, group, case, item, ready, action,
                   current, report>>

(* do_run_test_config_disable: one disable function.                        *)

DisableDefault ==
    /\ pc = "disable" /\ ItemOrder[item] = "default"
    /\ Advance("disable", "next")
    /\ UNCHANGED <<bits, caps, hardware, group, case, ready, action, current,
                   report>>

\* The upper port only.
DisableControlUpper ==
    LET t == ItemOrder[item]
    IN  /\ pc = "disable" /\ t \in ControlBits
        /\ ctrl' = [ctrl EXCEPT !["upper"] = @ \ {t}]
        /\ RecordItem(t, "disable", "PASS")
        /\ Advance("disable", "next")
        /\ UNCHANGED <<bits, caps, link, group, case, ready, action, current,
                       groupRes, configRes>>

DisableControl ==
    LET t == ItemOrder[item]
    IN  /\ pc = "disable" /\ t \in ControlBits
        /\ ctrl' = WriteControl(t, FALSE)
        /\ RecordItem(t, "disable", "PASS")
        /\ Advance("disable", "next")
        /\ UNCHANGED <<bits, caps, link, group, case, ready, action, current,
                       groupRes, configRes>>

DisableFlit ==
    /\ pc = "disable" /\ ItemOrder[item] = "flit"
    /\ \E ret \in BOOLEAN : FlitSwitch(FALSE, ret)
    /\ Return
    /\ UNCHANGED <<bits, caps, group, case, ready, action, current, report>>

-----------------------------------------------------------------------------
\* A callback does not return: a TEEIO_ASSERT in it fails and loops for ever
\* (teeio_assert), its prompt is never answered (getchar in the Full and
\* KeyRefresh cases and after a failed slot allocation), or a loop over a
\* uint8_t that has to pass 255 goes round.  What the callback had changed by
\* then no later step sees, and no report is printed.
Callbacks == {"group", "support", "enable", "setup", "run", "check",
              "teardown", "disable", "group_teardown"}

CallbackHangs ==
    /\ ~stuck
    /\ pc \in Callbacks
    /\ stuck' = TRUE
    /\ UNCHANGED walk

Step ==
    \/ GroupSetup \/ StartCase \/ NextCase \/ GroupTeardown
    \/ Support
    \/ EnableDefault \/ EnableControl \/ EnableFlit
    \/ CaseSetup \/ CaseRun \/ Check \/ CaseTeardown
    \/ DisableDefault \/ DisableControl \/ DisableFlit

Next ==
    \/ ~stuck /\ Step /\ UNCHANGED stuck
    \/ CallbackHangs

Spec == Init /\ [][Next]_vars

\* The runner is one thread that goes on whenever a callback has returned;
\* that a callback returns is not assumed.
FairSpec == Spec /\ WF_vars(Next)

-----------------------------------------------------------------------------
(* Properties.                                                              *)

TotalsType == [passed : Nat, failed : Nat]

\* The state is well formed: results exist for cases of the suite only, and
\* g_current_case_result points at an allocated one whenever a callback that
\* records into it can run (teeio_record_assertion_result hangs otherwise).
TypeOK ==
    /\ bits \subseteq Items \ {"default"} /\ caps \subseteq Items
    /\ ctrl \in [Ports -> SUBSET ControlBits]
    /\ link \in [flitDis : BOOLEAN, linkDis : BOOLEAN, flit : BOOLEAN]
    /\ pc \in {"group", "case", "support", "enable", "setup", "run", "check",
               "teardown", "disable", "next", "group_teardown", "done"}
    /\ group \in Groups
    /\ <<group, case>> \in CaseIds \/ pc = "group"
    /\ item \in Selected
    /\ ready \in BOOLEAN /\ stuck \in BOOLEAN
    /\ action \in [CaseIds -> {"RUN", "SKIP"}]
    /\ DOMAIN results \subseteq CaseIds
    /\ \A k \in DOMAIN results :
          results[k] \in [totals : TotalsType, items : [Items -> [Funcs -> Results]]]
    /\ groupRes \in Seq([totals : TotalsType, setup : Results, teardown : Results])
    /\ configRes \in TotalsType
    /\ IF pc \in {"group", "case", "group_teardown", "done"}
         THEN current = None
         ELSE current = <<group, case>> /\ current \in DOMAIN results

\* When a case's run function is called, the registers hold the suite's
\* configuration and nothing else, whatever earlier software, earlier cases
\* and half-enabled configurations left in them: the upper port has the
\* control bits of exactly the selected items, and so has the lower port.  Only
\* with the flit item, whose retraining of the link comes last and resets the
\* lower port, has that port none of them; the link then runs without flits.
ConfigInForce ==
    pc = "run" =>
        /\ ctrl["upper"] = bits \cap ControlBits
        /\ IF "flit" \in bits
             THEN ctrl["lower"] = {} /\ ~link.flit /\ ~link.linkDis
             ELSE ctrl["lower"] = bits \cap ControlBits

Sums(res, S) ==
    [passed |-> SumFunctionOnSet([k \in S |-> res[k].totals.passed], S),
     failed |-> SumFunctionOnSet([k \in S |-> res[k].totals.failed], S)]
CasesOf(g) == {k \in DOMAIN results : k[1] = g}

\* The three levels of the report agree: a group's totals are the sum over
\* its cases and the configuration's, which the summary prints for the suite,
\* the sum over the groups.
Accounting ==
    /\ \A g \in DOMAIN groupRes : groupRes[g].totals = Sums(results, CasesOf(g))
    /\ configRes = Sums(groupRes, DOMAIN groupRes)

\* A case the report calls PASS really was tested: its group was set up, its
\* own setup did not skip it, the topology is supported, and the default item
\* and the cfg_req item (if selected) were supported and enabled for it.
PassMeansTested ==
    \A k \in DOMAIN results : Verdict(k) = "PASS" =>
        /\ groupRes[k[1]].setup = "PASS"
        /\ action[k] = "RUN"
        /\ \A t \in {"default"} \cup (bits \cap {"cfg_req"}) :
              /\ results[k].items[t]["support"] = "PASS"
              /\ results[k].items[t]["enable"] = "PASS"

\* The disable functions of a case, called after its teardown whether it ran
\* or not, leave no control bit of the configuration in either port.
ControlsReleased ==
    [][pc = "disable" /\ pc' = "next" => \A p \in Ports : ctrl'[p] = {}]_vars

\* Unless one of its callbacks never returns, the suite comes to an end, and
\* then every case of every group has a result to print, those of groups whose
\* setup failed as well (print_test_results reads the class name from a
\* group's first case result).
SuiteEnds == <>(stuck \/ (pc = "done" /\ DOMAIN results = CaseIds))

-----------------------------------------------------------------------------
(* The inductive invariant: how far the walk over the configuration items  *)
(* has come, in the registers and in the results.                          *)

\* The items the walk has left behind, and those whose results PASS is about.
Past(t) == \E n \in Selected : n < item /\ ItemOrder[n] = t
Required == {"default"} \cup (bits \cap {"cfg_req"})

\* A walk starts at the first item, and a case that is under way belongs to a
\* group that is set up.
Control ==
    /\ pc \notin {"support", "enable", "check", "disable"} => item = 1
    /\ pc \in {"support", "enable", "setup", "run"} =>
          ready /\ action[current] = "RUN" /\ results[current].totals = NoTotals

\* There is a result for every group begun, and for the cases of no other.
GroupsKnown ==
    /\ Len(groupRes) = IF pc = "group" THEN group - 1 ELSE group
    /\ pc # "group" /\ ready => groupRes[group].setup = "PASS"
    /\ \A k \in DOMAIN results : k[1] \in 1..Len(groupRes)

\* Enabling starts from reset registers and sets one bit after the other;
\* disabling takes them back one after the other.
Registers ==
    /\ pc = "enable" /\ item > 1 =>
          \A p \in Ports : ctrl[p] = {b \in ControlBits : Past(b)}
    /\ pc \in {"setup", "run", "check", "teardown"} =>
          /\ ctrl["upper"] = bits \cap ControlBits
          /\ IF "flit" \in bits
               THEN ctrl["lower"] = {} /\ ~link.flit /\ ~link.linkDis
               ELSE ctrl["lower"] = bits \cap ControlBits
    /\ pc = "disable" =>
          \A p \in Ports : ctrl[p] \subseteq {b \in bits \cap ControlBits : ~Past(b)}

\* What the walks of the running case have recorded.
Recorded ==
    /\ pc \in {"support", "enable", "setup", "run"} =>
          \A t \in Required : pc # "support" \/ Past(t) =>
              results[current].items[t]["support"] = "PASS"
    /\ pc \in {"enable", "setup", "run"} =>
          \A t \in Required : pc # "enable" \/ Past(t) =>
              results[current].items[t]["enable"] = "PASS"

\* A case with an assertion in its totals was set up, enabled and run.
Earned ==
    \A k \in DOMAIN results : results[k].totals # NoTotals =>
        /\ groupRes[k[1]].setup = "PASS"
        /\ action[k] = "RUN"
        /\ \A t \in Required : /\ results[k].items[t]["support"] = "PASS"
                               /\ results[k].items[t]["enable"] = "PASS"

\* No case is begun twice: the results of the group at hand are those of the
\* cases before this one, and of this one once it is begun.
Visited ==
    \A k \in DOMAIN results : k[1] = group =>
        pc # "group" /\ IF pc = "case" THEN k[2] < case ELSE k[2] <= case

Inv ==
    /\ TypeOK /\ Control /\ GroupsKnown /\ Registers /\ Recorded /\ Earned
=============================================================================
