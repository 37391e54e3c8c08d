---------------------------- MODULE DoeExchange -----------------------------
(***************************************************************************)
(* What pci_doe_send_receive_data promises its callers, libspdm above all, *)
(* without registers, polls or objects: exchanges happen one after the     *)
(* other, each of them returns, and a SUCCESS carries the whole answer to  *)
(* the request of that very exchange.  The promise lapses after a failure  *)
(* that leaves something in the mailbox (`dirty`) and is good again once   *)
(* the mailbox has been aborted.  DoeMailbox implements it.                *)
(***************************************************************************)
EXTENDS Naturals

CONSTANTS
    MaxExchanges,   \* bound: exchanges a caller starts
    Failures        \* the statuses other than SUCCESS

VARIABLES
    active,   \* an exchange is in progress
    request,  \* the number of the last request
    status,   \* status of the last finished exchange
    own,      \* between exchanges: SUCCESS came with the request's answer
    dirty     \* the mailbox may hold what an earlier exchange left

vars == <<active, request, status, own, dirty>>

Init ==
    /\ active = FALSE
    /\ request = 0
    /\ status = "SUCCESS"
    /\ own = FALSE
    /\ dirty = FALSE

Begin ==
    /\ ~active
    /\ request < MaxExchanges
    /\ active' = TRUE
    /\ request' = request + 1
    /\ own' = FALSE
    /\ UNCHANGED <<status, dirty>>

\* The mailbox is aborted inside an exchange, and the exchange goes on.
Abort ==
    /\ active
    /\ dirty' = FALSE
    /\ UNCHANGED <<active, request, status, own>>

Succeed ==
    /\ active
    /\ active' = FALSE
    /\ status' = "SUCCESS"
    /\ own' \in BOOLEAN
    /\ own' \/ dirty
    /\ UNCHANGED <<request, dirty>>

\* A failure that has aborted the mailbox, or one that has not.
Fail ==
    /\ active
    /\ active' = FALSE
    /\ status' \in Failures
    /\ dirty' \in BOOLEAN
    /\ UNCHANGED <<request, own>>

Next == Begin \/ Abort \/ Succeed \/ Fail

Return == Succeed \/ Fail

Spec == Init /\ [][Next]_vars

\* Every exchange returns.
FairSpec == Spec /\ WF_vars(Return)
=============================================================================
