---------------------------- MODULE RegisterWalk ----------------------------
(***************************************************************************)
(* The walks over register blocks of variable size.                        *)
(*                                                                         *)
(* In the IDE capability of a port, blocks of two dwords for the link      *)
(* streams are followed by blocks for the selective streams whose size     *)
(* depends on a field of their first dword.  Three functions of pcie_ide.c *)
(* walk them, each with its own arithmetic: init_root_port asks whether    *)
(* the stream id is in use (check_stream_id_used_in_rootport), looks for a *)
(* free block (find_free_rp_stream_index_and_ide_id), and every later      *)
(* access computes the place of that block anew                            *)
(* (get_ide_reg_block_offset).  Every turn of a loop is a step; offsets    *)
(* are in dwords from the capability header.                               *)
(*                                                                         *)
(* The walk of cxl_ide.c over the entries of the CXL register locator is a *)
(* second, separate walk with the same kind of arithmetic.                 *)
(***************************************************************************)
EXTENDS Integers, Sequences, SequencesExt

CONSTANTS
    MaxLink,      \* bound: link stream blocks of the port
    MaxSelective, \* bound: selective stream blocks
    MaxKcbar,     \* bound: streams of the key configuration unit
    AddrBlocks,   \* the numbers of address blocks a selective block has
    StreamIds,    \* the stream ids in use
    MaxEntries    \* bound: entries of the CXL register locator

ASSUME WalkAssumption ==
    /\ \A n \in {MaxLink, MaxSelective, MaxKcbar, MaxEntries} : n \in Nat
    /\ AddrBlocks \subseteq Nat
    /\ 0 \in StreamIds

Off == [en |-> FALSE, id |-> 0]
Streams == {Off} \cup [en : {TRUE}, id : StreamIds]

VARIABLES
    links, selective, kcbar,   \* what is there: the streams, block by block
    ecap,       \* the IDE capability, dword by dword
    stream_id,  \* the stream id of the topology
    type,       \* the topology's type: "link" or "sel"
    pc,         \* the walk
    i,          \* its loop counter
    offset,     \* where it is
    used,       \* what check_stream_id_used_in_rootport returned
    ide_id,     \* the block found, counted through both kinds
    entries,    \* the entries of the register locator
    mapped      \* the place of the entry whose block was mapped, or None

port == <<links, selective, kcbar, stream_id, type, entries>>
vars == <<links, selective, kcbar, ecap, stream_id, type, pc, i, offset, used,
          ide_id, entries, mapped>>

None == -1

-----------------------------------------------------------------------------
(* The registers.  A dword shows something as a stream capability (addr)   *)
(* and something as a stream control register (en, id), whatever it is.    *)

HeaderSize == 3    \* the capability's header, capability and control

Dword(block, field, addr, en, id) ==
    [block |-> block, field |-> field, addr |-> addr, en |-> en, id |-> id,
     written |-> FALSE]
Plain(block, field) == Dword(block, field, 0, FALSE, 0)

\* A capability read as a control register: bit 0 of its count is the enable
\* bit, and the reserved top byte is the id.
SelCap(b, n) == Dword(b, <<"cap", 0>>, n, n % 2 = 1, 0)
Control(b, s) == Dword(b, <<"ctrl", 0>>, 0, s.en, s.id)

\* A field that is neither: its name, and the number of the address block.
AddrFields == <<"addr1", "addr2", "addr3">>

LinkBlock(k) ==
    <<Control(<<"link", k>>, links[k]), Plain(<<"link", k>>, <<"status", 0>>)>>
SelBlock(k) ==
    LET b == <<"sel", k>>
    IN  <<SelCap(b, selective[k].addr), Control(b, selective[k]),
          Plain(b, <<"status", 0>>), Plain(b, <<"rid1", 0>>), Plain(b, <<"rid2", 0>>)>>
        \o FlattenSeq([n \in 1 .. selective[k].addr |->
              [f \in 1 .. 3 |-> Plain(b, <<AddrFields[f], n>>)]])

Layout ==
    [k \in 1 .. HeaderSize |-> Plain(<<"header", 0>>, <<"header", k>>)]
    \o FlattenSeq([k \in 1 .. Len(links) |-> LinkBlock(k)])
    \o FlattenSeq([k \in 1 .. Len(selective) |-> SelBlock(k)])

Beyond == Plain(<<"beyond", 0>>, <<"beyond", 0>>)
Read(o) == IF o < Len(ecap) THEN ecap[o + 1] ELSE Beyond

num_lnk_ide == Len(links)
num_sel_ide == Len(selective)
LinkSize == 2
IsStream(d) == d.en /\ d.id = stream_id

\* Slip: the address blocks are left out.
SelSizeFixed(cap) == 5

SelSize(cap) == 5 + 3 * cap.addr

-----------------------------------------------------------------------------
(* check_stream_id_used_in_rootport.                                       *)

Found ==
    /\ used' = TRUE
    /\ pc' = "refused"
    /\ UNCHANGED <<i, offset>>

\* First the key configuration unit.
CheckKcbar ==
    /\ pc = "check_kcbar"
    /\ IF i < Len(kcbar)
       THEN IF IsStream(kcbar[i + 1]) THEN Found
            ELSE i' = i + 1 /\ UNCHANGED <<pc, offset, used>>
       ELSE /\ pc' = "check_link"
            /\ i' = 0
            /\ offset' = IF num_lnk_ide > 0 THEN HeaderSize ELSE 2
            /\ UNCHANGED used
    /\ UNCHANGED <<port, ecap, ide_id, mapped>>

\* Then the link blocks.  The step over the IDE control register is inside
\* the test for link streams: without one the walk is a dword behind.
CheckLink ==
    /\ pc = "check_link"
    /\ IF i < num_lnk_ide
       THEN IF IsStream(Read(offset)) THEN Found
            ELSE /\ i' = i + 1
                 /\ offset' = offset + LinkSize
                 /\ UNCHANGED <<pc, used>>
       ELSE pc' = "check_sel" /\ i' = 0 /\ UNCHANGED <<offset, used>>
    /\ UNCHANGED <<port, ecap, ide_id, mapped>>

\* Then the selective blocks.  Nothing found: the search for a free block
\* starts, from the beginning.
CheckSel ==
    /\ pc = "check_sel"
    /\ IF i < num_sel_ide
       THEN IF IsStream(Read(offset + 1)) THEN Found
            ELSE /\ i' = i + 1
                 /\ offset' = offset + SelSize(Read(offset))
                 /\ UNCHANGED <<pc, used>>
       ELSE /\ used' = FALSE
            /\ pc' = "free_block"
            /\ IF type = "link"
               THEN i' = 0 /\ offset' = HeaderSize
               ELSE /\ i' = num_lnk_ide
                    /\ offset' = HeaderSize + LinkSize * num_lnk_ide
    /\ UNCHANGED <<port, ecap, ide_id, mapped>>

-----------------------------------------------------------------------------
(* find_free_rp_stream_index_and_ide_id.                                   *)

TakeBlock ==
    /\ ide_id' = i
    /\ pc' = "free_kcbar"
    /\ i' = 0
    /\ UNCHANGED offset

\* The blocks of the topology's type; a port without any is refused too.
FreeLink ==
    /\ pc = "free_block"
    /\ type = "link"
    /\ i < num_lnk_ide
    /\ IF ~Read(offset).en THEN TakeBlock
       ELSE /\ i' = i + 1
            /\ offset' = offset + LinkSize
            /\ UNCHANGED <<pc, ide_id>>
    /\ UNCHANGED <<port, ecap, used, mapped>>

FreeSel ==
    /\ pc = "free_block"
    /\ type = "sel"
    /\ i < num_lnk_ide + num_sel_ide
    /\ IF ~Read(offset + 1).en THEN TakeBlock
       ELSE /\ i' = i + 1
            /\ offset' = offset + SelSize(Read(offset))
            /\ UNCHANGED <<pc, ide_id>>
    /\ UNCHANGED <<port, ecap, used, mapped>>

NoneFree ==
    /\ pc = "free_block"
    /\ i = num_lnk_ide + (IF type = "sel" THEN num_sel_ide ELSE 0)
    /\ pc' = "refused"
    /\ UNCHANGED <<port, ecap, i, offset, used, ide_id, mapped>>

\* A free stream of the key configuration unit, for the root port.
FreeKcbar ==
    /\ pc = "free_kcbar"
    /\ IF i = Len(kcbar) THEN pc' = "refused" /\ UNCHANGED <<i, offset>>
       ELSE IF kcbar[i + 1].en THEN i' = i + 1 /\ UNCHANGED <<pc, offset>>
       ELSE /\ pc' = "locate"
            /\ i' = IF type = "link" THEN ide_id ELSE num_lnk_ide
            /\ offset' = HeaderSize
                 + LinkSize * (IF type = "link" THEN ide_id ELSE num_lnk_ide)
    /\ UNCHANGED <<port, ecap, used, ide_id, mapped>>

-----------------------------------------------------------------------------
(* Every access to the stream's registers: get_ide_reg_block_offset, here  *)
(* under setup_ide_ecap_regs.                                              *)

\* A block that is skipped is asserted to have one address block.
Locate ==
    /\ pc = "locate"
    /\ i < ide_id
    /\ IF Read(offset).addr # 1
       THEN pc' = "hung" /\ UNCHANGED <<i, offset>>
       ELSE /\ i' = i + 1
            /\ offset' = offset + SelSize(Read(offset))
            /\ UNCHANGED pc
    /\ UNCHANGED <<port, ecap, used, ide_id, mapped>>

\* Slip: the control register is taken for the first of the block.
RegsWrittenEarly ==
    IF type = "link" THEN {offset}
    ELSE {offset} \cup (offset + 2 .. offset + 6)

\* The association registers of the first address block and the control
\* register, which in a selective block comes after the capability.
RegsWritten ==
    IF type = "link" THEN {offset}
    ELSE {offset + 1} \cup (offset + 3 .. offset + 7)

setup_ide_ecap_regs ==
    /\ pc = "locate"
    /\ i = ide_id
    /\ ecap' = [k \in 1 .. Len(ecap) |->
                  [ecap[k] EXCEPT !.written = k - 1 \in RegsWritten]]
    /\ pc' = "done"
    /\ UNCHANGED <<port, i, offset, used, ide_id, mapped>>

-----------------------------------------------------------------------------
(* cxl_init_memcache_reg_block: the entry of the component registers.      *)

FirstEntry == 0

\* i * 8 is added to an offset that already holds the earlier steps, so the
\* entries 0, 1, 3, 6 ... are looked at; behind the last entry is another
\* capability, and anything may be read there.
Locator ==
    /\ pc = "locator"
    /\ i < Len(entries)
    /\ LET at == offset + i
           seen == IF at < Len(entries) THEN {entries[at + 1]}
                                        ELSE {"component", "other"}
       IN  \E id \in seen :
              /\ offset' = at
              /\ IF id = "component"
                 THEN pc' = "done" /\ mapped' = at /\ UNCHANGED i
                 ELSE i' = i + 1 /\ UNCHANGED <<pc, mapped>>
    /\ UNCHANGED <<port, ecap, used, ide_id>>

LocatorFails ==
    /\ pc = "locator"
    /\ i = Len(entries)
    /\ pc' = "refused"
    /\ UNCHANGED <<port, ecap, i, offset, used, ide_id, mapped>>

-----------------------------------------------------------------------------
\* Any port with at least one kind of stream and one stream in its key
\* configuration unit.
InitIde ==
    /\ links \in SeqOf(Streams, MaxLink)
    /\ selective \in SeqOf([en : BOOLEAN, id : StreamIds, addr : AddrBlocks],
                           MaxSelective)
    /\ Len(links) + Len(selective) > 0
    /\ kcbar \in SeqOf(Streams, MaxKcbar) \ {<<>>}
    /\ ecap = Layout
    /\ stream_id \in StreamIds
    /\ type \in {"link", "sel"}
    /\ entries = <<>>
    /\ pc = "check_kcbar"
    /\ i = 0

InitLocator ==
    /\ links = <<>> /\ selective = <<>> /\ kcbar = <<>> /\ ecap = <<>>
    /\ stream_id = 0
    /\ type = "sel"
    /\ entries \in SeqOf({"component", "other"}, MaxEntries)
    /\ pc = "locator"
    /\ i = FirstEntry

Init ==
    /\ InitIde \/ InitLocator
    /\ offset = 0
    /\ used = FALSE
    /\ ide_id = 0
    /\ mapped = None

Next ==
    \/ CheckKcbar \/ CheckLink \/ CheckSel
    \/ FreeLink \/ FreeSel \/ NoneFree \/ FreeKcbar
    \/ Locate \/ setup_ide_ecap_regs
    \/ Locator \/ LocatorFails

Spec == Init /\ [][Next]_vars

-----------------------------------------------------------------------------
(* Properties.                                                             *)

Checked == pc \in {"free_block", "free_kcbar", "locate", "refused", "done", "hung"}
InUse == \E s \in ToSet(links) \cup ToSet(selective) \cup ToSet(kcbar) :
            IsStream(s)

\* check_stream_id_used_in_rootport tells exactly whether an enabled stream
\* has the id: it reads every control register of the port and nothing else,
\* whatever the sizes of the blocks, provided that the port has link streams
\* or no selective ones.
StreamIdSeen ==
    Checked /\ (links # <<>> \/ selective = <<>>) => (used <=> InUse)

\* The same for every port, as the comment of the function has it.
StreamIdChecked == Checked => (used <=> InUse)

\* A block is chosen only if it was not enabled, and the later accesses stay
\* in that very block: of everything behind the capability header, exactly
\* its control register and its association registers are written, provided
\* that it has an address block.
OwnBlock ==
    pc = "done" /\ entries = <<>> =>
        LET block == IF type = "link" THEN <<"link", ide_id + 1>>
                     ELSE <<"sel", ide_id - num_lnk_ide + 1>>
            stream == IF type = "link" THEN links[block[2]]
                      ELSE selective[block[2]]
            writes == {k \in 1 .. Len(ecap) : ecap[k].written}
            fields == IF type = "link" THEN {<<"ctrl", 0>>}
                      ELSE {"ctrl", "rid1", "rid2"} \X {0}
                           \cup ToSet(AddrFields) \X {1}
        IN  /\ ~stream.en
            /\ (type = "sel" => stream.addr > 0) =>
                  {<<ecap[k].block, ecap[k].field>> : k \in writes}
                     = {<<block, f>> : f \in fields}

\* The CXL component registers that are mapped are those of the first entry
\* that has them, if it is one of the first two.
LocatorFinds ==
    LET first == {k \in 1 .. Len(entries) :
                    /\ entries[k] = "component"
                    /\ \A n \in 1 .. k - 1 : entries[n] # "component"}
    IN  entries # <<>> /\ pc \in {"done", "refused"} =>
            \A k \in first \cap {1, 2} : mapped = k - 1

\* Every walk ends at the block it is about.
RightBlock == OwnBlock /\ LocatorFinds

-----------------------------------------------------------------------------
(* The inductive invariant: where the walks are, and what they have passed. *)

\* The place of a block's first dword.
LinkStart(k) == HeaderSize + LinkSize * (k - 1)
SelStart(k) ==
    HeaderSize + LinkSize * num_lnk_ide
    + Len(FlattenSeq([n \in 1 .. k - 1 |-> SelBlock(n)]))

IdePort == Len(links) + Len(selective) > 0

\* What the port has, and what the program was called with.
PortType ==
    /\ links \in Seq(Streams) /\ kcbar \in Seq(Streams)
    /\ selective \in Seq([en : BOOLEAN, id : StreamIds, addr : AddrBlocks])
    /\ entries \in Seq({"component", "other"})
    /\ stream_id \in StreamIds /\ type \in {"link", "sel"} /\ used \in BOOLEAN
    /\ IdePort => entries = <<>>
    /\ pc \in IF IdePort
              THEN {"check_kcbar", "check_link", "check_sel", "free_block",
                    "free_kcbar", "locate", "refused", "done", "hung"}
              ELSE {"locator", "refused", "done"}

NoneIn(s, n) == \A k \in 1 .. n : ~IsStream(s[k])

\* The first function: nothing was found in what is behind it.  In a port
\* without link streams the walk over the selective blocks is astray.
Checking ==
    /\ pc \in {"check_kcbar", "check_link", "check_sel"} => ~used
    /\ pc = "check_kcbar" => i \in 0 .. Len(kcbar) /\ NoneIn(kcbar, i)
    /\ pc \in {"check_link", "check_sel"} => NoneIn(kcbar, Len(kcbar))
    /\ pc = "check_link" =>
          /\ i \in 0 .. num_lnk_ide /\ NoneIn(links, i)
          /\ num_lnk_ide > 0 => offset = LinkStart(i + 1)
    /\ pc = "check_sel" =>
          /\ i \in 0 .. num_sel_ide /\ NoneIn(links, num_lnk_ide)
          /\ num_lnk_ide > 0 => offset = SelStart(i + 1) /\ NoneIn(selective, i)

\* The two others: a block of the topology's kind at the counter, and the
\* block that was taken is one that was not enabled.
AtBlock ==
    IF type = "link" THEN i \in 0 .. num_lnk_ide /\ offset = LinkStart(i + 1)
    ELSE /\ i \in num_lnk_ide .. num_lnk_ide + num_sel_ide
         /\ offset = SelStart(i - num_lnk_ide + 1)
Taken ==
    IF type = "link"
    THEN ide_id \in 0 .. num_lnk_ide - 1 /\ ~links[ide_id + 1].en
    ELSE /\ ide_id \in num_lnk_ide .. num_lnk_ide + num_sel_ide - 1
         /\ ~selective[ide_id - num_lnk_ide + 1].en
Locating ==
    /\ pc \in {"free_block", "locate"} => AtBlock
    /\ pc = "free_kcbar" => i \in 0 .. Len(kcbar)
    /\ pc \in {"free_kcbar", "locate"} => Taken
    /\ pc = "locate" => i <= ide_id /\ (type = "link" => i = ide_id)
    /\ IdePort /\ pc # "done" => ecap = Layout

\* The register locator: the first two entries are looked at in their order.
Searching ==
    pc = "locator" =>
        /\ ~used /\ kcbar = <<>>
        /\ i \in 0 .. Len(entries) /\ offset \in Nat
        /\ i < 2 => offset = 0
        /\ \A k \in {1, 2} : k <= i => entries[k] = "other"

Inv ==
    /\ PortType /\ Checking /\ Locating /\ Searching
    /\ StreamIdSeen /\ RightBlock
    /\ pc = "done" => IdePort \/ entries # <<>>
=============================================================================
