----------------------------- MODULE DoeMailbox -----------------------------
(***************************************************************************)
(* The PCIe Data Object Exchange mailbox driver of library/spdmlib/        *)
(* pci_doe.c: device_doe_send_message, device_doe_receive_message and      *)
(* pci_doe_send_receive_data, run by the single-threaded validator against *)
(* a DOE instance that moves on its own between any two register accesses. *)
(*                                                                         *)
(* Requests are numbered in the order they are sent.  A dword is the pair  *)
(* of the request it answers and its position in the data object, so that  *)
(* "the answer to another request" and "the middle of an object" are seen. *)
(* The instance (busy, error, pending, box) is not part of the repository: *)
(* it is the least constrained device that obeys the register protocol the *)
(* driver relies on.                                                       *)
(***************************************************************************)
EXTENDS Integers, Sequences

CONSTANTS
    MaxExchanges,   \* bound: exchanges the validator starts
    SendTimeout,    \* the timeout of device_doe_send_message, microseconds
    RecvPolls,      \* the fixed poll budget of device_doe_receive_message
    MaxObject,      \* dwords of the largest data object (2^18 in the code)
    BufSizes        \* capacities, in dwords, of the callers' buffers

ASSUME DoeAssumption ==
    /\ MaxExchanges \in Nat
    /\ SendTimeout \in Nat
    /\ RecvPolls \in Nat \ {0}
    /\ MaxObject \in Nat /\ MaxObject > 2
    /\ BufSizes \subseteq Nat

VARIABLES
    pc,       \* where the driver is
    cur,      \* the number of the request in hand
    cap,      \* capacity of the response buffer, in dwords
    delay,    \* polls left
    count,    \* data_object_count of the object being read
    buf,      \* the dwords stored in the response buffer
    result,   \* status of the last finished exchange
    residue,  \* history: an exchange failed without an abort after it
    busy,     \* DOE Busy
    error,    \* DOE Error
    pending,  \* requests the instance has accepted and not answered
    box       \* the object behind Data Object Ready, or NoObject

driver == <<pc, cur, cap, delay, count, buf, result, residue>>
device == <<busy, error, pending, box>>
vars == <<pc, cur, cap, delay, count, buf, result, residue,
          busy, error, pending, box>>

Lengths == 2 .. MaxObject
Objects == [req : 1 .. MaxExchanges, len : Lengths, next : 1 .. MaxObject]
Dwords == (0 .. MaxExchanges) \X (0 .. MaxObject)
NoObject == [req |-> 0, len |-> 0, next |-> 1]

Steps == {"idle", "send_check", "send_poll", "send_end",
          "recv_check", "recv_poll", "recv_header", "recv_body", "recv_end"}
Statuses == {"SUCCESS", "SEND_FAIL", "RECEIVE_FAIL", "BUFFER_TOO_SMALL"}

(***************************************************************************)
(* Registers.                                                              *)
(***************************************************************************)
is_doe_data_object_ready_asserted == box # NoObject

\* What `n` reads of the read mailbox return: the rest of the object, then
\* zeroes once the mailbox has run dry.
Zero == <<0, 0>>
ReadMailbox(n) ==
    [i \in 1 .. n |-> IF box.next + i - 1 <= box.len
                      THEN <<box.req, box.next + i - 1>> ELSE Zero]

\* Each read is acknowledged by a write, which moves the mailbox on.
AckReads(n) ==
    box' = IF box.next + n <= box.len THEN [box EXCEPT !.next = @ + n]
                                      ELSE NoObject

\* The length field has 18 bits and holds 0 for an object of 2^18 dwords.
LengthField(len) == len % MaxObject
data_object_count(field) == IF field = 0 THEN MaxObject ELSE field

\* The length field the driver sees in the second dword it read.  A dword
\* from inside an object is payload: any value.
FieldsSeen(dword) ==
    IF dword = Zero THEN {0}
    ELSE IF dword[2] = 2 THEN {LengthField(box.len)}
    ELSE 0 .. MaxObject - 1

\* DOE Abort, and the one-second sleep after every one of them: the instance
\* drops what it holds and clears its status bits.
trigger_doe_abort ==
    /\ busy' = FALSE
    /\ error' = FALSE
    /\ pending' = <<>>
    /\ box' = NoObject
    /\ residue' = FALSE

\* Writing a whole request and DOE Go.  An instance in error drops it.
SendObject ==
    /\ pending' = IF error THEN pending ELSE Append(pending, cur)
    /\ UNCHANGED <<busy, error, box>>

-----------------------------------------------------------------------------
(***************************************************************************)
(* The driver.                                                             *)
(***************************************************************************)
SendPolls == SendTimeout \div 30 + 1

\* A return to the caller.  `residue` remembers a failure that was not
\* followed by an abort: a send or a receive that timed out, a caller without
\* room for a header, a response too large for its buffer.
Return(status) ==
    /\ pc' = "idle"
    /\ result' = status

ReturnDirty(status) ==
    /\ Return(status)
    /\ residue' = TRUE

\* pci_doe_send_receive_data is called: a request of at least one dword and
\* a buffer of any of the capacities callers use.
StartExchange(c) ==
    /\ pc = "idle"
    /\ cur < MaxExchanges
    /\ cur' = cur + 1
    /\ cap' = c
    /\ pc' = "send_check"
    /\ delay' = SendPolls
    /\ buf' = <<>>
    /\ UNCHANGED <<count, result, residue, device>>

\* DOE Error before sending: abort and wait.
SendCheck ==
    /\ pc = "send_check"
    /\ pc' = "send_poll"
    /\ IF error THEN trigger_doe_abort ELSE UNCHANGED <<residue, device>>
    /\ UNCHANGED <<cur, cap, delay, count, buf, result>>

\* One turn of the sending loop that finds DOE Busy clear.
SendWrite ==
    /\ pc = "send_poll"
    /\ ~busy
    /\ SendObject
    /\ pc' = "send_end"
    /\ UNCHANGED <<cur, cap, delay, count, buf, result, residue>>

\* Slip: the loop condition is tested before the decrement.
SendStallLatePollTest ==
    /\ pc = "send_poll"
    /\ busy
    /\ IF error
       THEN pc' = "send_end" /\ delay' = delay
       ELSE /\ delay' = delay - 1
            /\ pc' = IF delay = 0 THEN "send_end" ELSE "send_poll"
    /\ UNCHANGED <<cur, cap, count, buf, result, residue, device>>

\* Slip: a stall does not use up a poll.
SendStallNoCountdown ==
    /\ pc = "send_poll"
    /\ busy
    /\ pc' = IF error THEN "send_end" ELSE "send_poll"
    /\ UNCHANGED <<cur, cap, delay, count, buf, result, residue, device>>

\* One turn that finds it set: an error leaves the loop, and so does the last
\* poll, with delay = 0.
SendStall ==
    /\ pc = "send_poll"
    /\ busy
    /\ IF error
       THEN pc' = "send_end" /\ delay' = delay
       ELSE /\ delay' = delay - 1
            /\ pc' = IF delay = 1 THEN "send_end" ELSE "send_poll"
    /\ UNCHANGED <<cur, cap, count, buf, result, residue, device>>

SendTimedOut ==
    /\ pc = "send_end"
    /\ delay = 0
    /\ ReturnDirty("SEND_FAIL")
    /\ UNCHANGED <<cur, cap, delay, count, buf, device>>

\* Slip: the failed send returns without the abort.
SendErrorNoAbort ==
    /\ pc = "send_end"
    /\ delay # 0
    /\ error
    /\ Return("SEND_FAIL")
    /\ UNCHANGED <<cur, cap, delay, count, buf, residue, device>>

SendError ==
    /\ pc = "send_end"
    /\ delay # 0
    /\ error
    /\ trigger_doe_abort
    /\ Return("SEND_FAIL")
    /\ UNCHANGED <<cur, cap, delay, count, buf>>

SendDone ==
    /\ pc = "send_end"
    /\ delay # 0
    /\ ~error
    /\ pc' = "recv_check"
    /\ UNCHANGED <<cur, cap, delay, count, buf, result, residue, device>>

\* The receiver starts: a buffer too small for a header is refused before
\* the mailbox is looked at; DOE Error is aborted.
RecvNoHeader ==
    /\ pc = "recv_check"
    /\ cap < 2
    /\ ReturnDirty("BUFFER_TOO_SMALL")
    /\ UNCHANGED <<cur, cap, delay, count, buf, device>>

RecvCheck ==
    /\ pc = "recv_check"
    /\ cap >= 2
    /\ pc' = "recv_poll"
    /\ delay' = RecvPolls
    /\ IF error THEN trigger_doe_abort ELSE UNCHANGED <<residue, device>>
    /\ UNCHANGED <<cur, cap, count, buf, result>>

\* One turn of the receiving loop: Data Object Ready is set, or the driver
\* stalls, or an error or the last poll ends the loop.
RecvReady ==
    /\ pc = "recv_poll"
    /\ is_doe_data_object_ready_asserted
    /\ pc' = "recv_header"
    /\ UNCHANGED <<cur, cap, delay, count, buf, result, residue, device>>

RecvStall ==
    /\ pc = "recv_poll"
    /\ ~is_doe_data_object_ready_asserted
    /\ IF error
       THEN pc' = "recv_end" /\ delay' = delay
       ELSE /\ delay' = delay - 1
            /\ pc' = IF delay = 1 THEN "recv_end" ELSE "recv_poll"
    /\ UNCHANGED <<cur, cap, count, buf, result, residue, device>>

\* Slip: the two header dwords are left out of the size check.
RecvHeaderPayloadOnly ==
    /\ pc = "recv_header"
    /\ buf' = ReadMailbox(2)
    /\ AckReads(2)
    /\ \E field \in FieldsSeen(ReadMailbox(2)[2]) :
          /\ count' = data_object_count(field)
          /\ IF data_object_count(field) - 2 > cap
             THEN ReturnDirty("BUFFER_TOO_SMALL")
             ELSE pc' = "recv_body" /\ UNCHANGED <<result, residue>>
    /\ UNCHANGED <<cur, cap, delay, busy, error, pending>>

\* The two header dwords.  An object larger than the buffer is refused at
\* once, with the rest of it still in the mailbox.
RecvHeader ==
    /\ pc = "recv_header"
    /\ buf' = ReadMailbox(2)
    /\ AckReads(2)
    /\ \E field \in FieldsSeen(ReadMailbox(2)[2]) :
          /\ count' = data_object_count(field)
          /\ IF data_object_count(field) > cap
             THEN ReturnDirty("BUFFER_TOO_SMALL")
             ELSE pc' = "recv_body" /\ UNCHANGED <<result, residue>>
    /\ UNCHANGED <<cur, cap, delay, busy, error, pending>>

\* The rest of the object, if its length field says that there is one; the
\* caller is told a response of `count` dwords.
RecvBody ==
    /\ pc = "recv_body"
    /\ pc' = "recv_end"
    /\ buf' = [i \in 1 .. count |->
                 IF i <= 2 THEN buf[i] ELSE ReadMailbox(count - 2)[i - 2]]
    /\ IF count > 2 THEN AckReads(count - 2) ELSE UNCHANGED box
    /\ UNCHANGED <<cur, cap, delay, count, result, residue,
                   busy, error, pending>>

RecvTimedOut ==
    /\ pc = "recv_end"
    /\ delay = 0
    /\ ReturnDirty("RECEIVE_FAIL")
    /\ UNCHANGED <<cur, cap, delay, count, buf, device>>

RecvError ==
    /\ pc = "recv_end"
    /\ delay # 0
    /\ error
    /\ trigger_doe_abort
    /\ Return("RECEIVE_FAIL")
    /\ UNCHANGED <<cur, cap, delay, count, buf>>

\* Slip: DOE Error is not checked again after the loop.
RecvDoneUnchecked ==
    /\ pc = "recv_end"
    /\ delay # 0
    /\ Return("SUCCESS")
    /\ UNCHANGED <<cur, cap, delay, count, buf, residue, device>>

RecvDone ==
    /\ pc = "recv_end"
    /\ delay # 0
    /\ ~error
    /\ Return("SUCCESS")
    /\ UNCHANGED <<cur, cap, delay, count, buf, residue, device>>

Driver ==
    \/ SendCheck \/ SendWrite \/ SendStall \/ SendTimedOut \/ SendError
    \/ SendDone
    \/ RecvNoHeader \/ RecvCheck \/ RecvReady \/ RecvStall \/ RecvHeader
    \/ RecvBody \/ RecvTimedOut \/ RecvError \/ RecvDone

-----------------------------------------------------------------------------
(***************************************************************************)
(* The DOE instance.  It answers every request it accepted, in order, with *)
(* an object of any legal length; it may be busy for any time; it may      *)
(* raise DOE Error at any time, with or without losing the object it had   *)
(* posted.                                                                 *)
(***************************************************************************)
DeviceRespond ==
    /\ ~error
    /\ pending # <<>>
    /\ box = NoObject
    /\ \E len \in Lengths :
          box' = [req |-> Head(pending), len |-> len, next |-> 1]
    /\ pending' = Tail(pending)
    /\ UNCHANGED <<driver, busy, error>>

DeviceBusy ==
    /\ busy' = ~busy
    /\ UNCHANGED <<driver, error, pending, box>>

DeviceError ==
    /\ ~error
    /\ error' = TRUE
    /\ box' \in {box, NoObject}
    /\ UNCHANGED <<driver, busy, pending>>

Device == DeviceRespond \/ DeviceBusy \/ DeviceError

-----------------------------------------------------------------------------
Init ==
    /\ pc = "idle"
    /\ cur = 0
    /\ cap = 0
    /\ delay = 0
    /\ count = 0
    /\ buf = <<>>
    /\ result = "SUCCESS"
    /\ residue = FALSE
    /\ busy = FALSE
    /\ error \in BOOLEAN
    /\ pending = <<>>
    /\ box = NoObject

Next == (\E c \in BufSizes : StartExchange(c)) \/ Driver \/ Device

Spec == Init /\ [][Next]_vars

\* The driver is a loop that the operating system keeps running; nothing is
\* assumed of the device.
FairSpec == Spec /\ WF_vars(Driver)

-----------------------------------------------------------------------------
(***************************************************************************)
(* Properties.                                                             *)
(***************************************************************************)
\* The state is well formed; above all the two poll counters never pass below
\* zero, where the unsigned delay of the code would wrap, and the object count
\* taken from the length field is never more than the largest object.
TypeOK ==
    /\ pc \in Steps
    /\ cur \in 0 .. MaxExchanges
    /\ cap \in BufSizes \cup {0}
    /\ delay \in Nat
    /\ count \in 0 .. MaxObject
    /\ buf \in Seq(Dwords)
    /\ result \in Statuses
    /\ residue \in BOOLEAN
    /\ busy \in BOOLEAN
    /\ error \in BOOLEAN
    /\ pending \in Seq(1 .. MaxExchanges)
    /\ box \in Objects \cup {NoObject}

\* The response to request `r` is its dwords 1..n, in order.
IsResponse(b, r) ==
    \E n \in Lengths : b = [i \in 1 .. n |-> <<r, i>>]

\* SUCCESS means that the buffer holds one whole object, the answer to the
\* very request of this exchange, provided that no earlier exchange failed
\* without an abort behind it, in any of the four ways of ReturnDirty (pci_doe_send_receive_data's "The request is
\* sent and response is received").  Errors, aborts and retries in between
\* do not break it.
OwnResponse ==
    pc = "idle" /\ cur > 0 /\ result = "SUCCESS" /\ ~residue
        => IsResponse(buf, cur)

\* The same without the proviso.  It is what the comment of
\* pci_doe_send_receive_data says; a late answer to an exchange that timed
\* out breaks it.
SuccessIsOwnResponse ==
    pc = "idle" /\ cur > 0 /\ result = "SUCCESS" => IsResponse(buf, cur)

\* The receiver never stores past the end of the caller's buffer, whatever
\* the length field says, zero included (device_doe_receive_message compares
\* data_object_count with *response_size before the copy loop).
BufferBound == Len(buf) <= cap

\* Unless an exchange failed without an abort behind it (timeout of either
\* loop, no room for a header, BUFFER_TOO_SMALL), the instance holds
\* at most the request in hand, and nothing at all between exchanges, so that
\* requests and responses stay in step.
InStep ==
    ~residue =>
        /\ Len(pending) + (IF box = NoObject THEN 0 ELSE 1) <= 1
        /\ pc \in {"idle", "send_check", "send_poll"}
              => pending = <<>> /\ box = NoObject

\* What makes them inductive: where the request in hand and its answer can
\* be at every step of the driver.
ObjectInHand ==
    /\ pc \in {"send_check", "send_poll", "recv_poll"} => delay > 0
    /\ pc \in {"recv_poll", "recv_header", "recv_body"} => cap >= 2
    /\ pc \notin {"idle", "recv_body", "recv_end"} => buf = <<>>
    /\ pc = "recv_body" => Len(buf) = 2 /\ count <= cap
    /\ pc # "idle" => cur > 0

Outstanding ==
    ~residue =>
        /\ box # NoObject => box.req = cur /\ pending = <<>>
        /\ pending = <<>> \/ pending = <<cur>>
        /\ pc \in {"send_end", "recv_check", "recv_poll"} /\ box # NoObject
              => box.next = 1
        /\ pc = "recv_header" =>
              /\ pending = <<>>
              /\ error \/ box # NoObject
              /\ box # NoObject => box.next = 1
        /\ pc = "recv_body" =>
              /\ pending = <<>>
              /\ error \/ /\ buf = [i \in 1 .. 2 |-> <<cur, i>>]
                          /\ count \in Lengths
                          /\ \/ count = 2 /\ box = NoObject
                             \/ count > 2 /\ box # NoObject
                                /\ box.next = 3 /\ box.len = count
        /\ pc = "recv_end" /\ delay # 0 /\ ~error =>
              /\ pending = <<>>
              /\ box = NoObject
              /\ IsResponse(buf, cur)

Inv == TypeOK /\ BufferBound /\ ObjectInHand /\ InStep /\ Outstanding
          /\ OwnResponse

\* The exchange as its caller sees it.
Answered ==
    pc = "idle" /\ cur > 0 /\ result = "SUCCESS" /\ IsResponse(buf, cur)

Exchange == INSTANCE DoeExchange WITH
    active <- pc # "idle",
    request <- cur,
    status <- result,
    own <- Answered,
    dirty <- residue,
    Failures <- Statuses \ {"SUCCESS"}

\* The driver implements the exchange that its callers rely on: one request
\* at a time, an answer of its own on SUCCESS unless an earlier failure has
\* left something behind, the debt cleared by an abort and by nothing else,
\* and every call of pci_doe_send_receive_data returns, whatever the device
\* does: both loops are bounded by their poll budgets.
ImplementsExchange == Exchange!FairSpec
=============================================================================
