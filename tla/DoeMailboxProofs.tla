-------------------------- MODULE DoeMailboxProofs --------------------------
(***************************************************************************)
(* The invariants of DoeMailbox for every number of exchanges, every poll  *)
(* budget, object size and set of buffer capacities.                       *)
(***************************************************************************)
EXTENDS DoeMailbox, SequenceTheorems, TLAPS

\* The length field determines the length: data_object_count undoes the
\* 18-bit encoding, the zero that stands for the largest object included.
LEMMA LengthFieldExact ==
    ASSUME NEW len \in Lengths
    PROVE  data_object_count(LengthField(len)) = len
<1>1. CASE len = MaxObject
  <2>1. LengthField(len) = 0
    BY <1>1, DoeAssumption DEF LengthField
  <2> QED  BY <1>1, <2>1 DEF data_object_count
<1>2. CASE len < MaxObject
  <2>1. LengthField(len) = len
    BY <1>2, DoeAssumption DEF LengthField, Lengths
  <2> QED  BY <1>2, <2>1, DoeAssumption DEF data_object_count, Lengths
<1> QED  BY <1>1, <1>2, DoeAssumption DEF Lengths

\* Whatever the second header dword is, the count lies in 1..MaxObject.
LEMMA CountRange ==
    ASSUME NEW field \in 0 .. MaxObject - 1
    PROVE  data_object_count(field) \in 1 .. MaxObject
BY DoeAssumption DEF data_object_count

\* Mailbox reads return dwords.
LEMMA ReadMailboxType ==
    ASSUME TypeOK, NEW n \in Nat
    PROVE  /\ ReadMailbox(n) \in [1 .. n -> Dwords]
           /\ ReadMailbox(n) \in Seq(Dwords)
           /\ Len(ReadMailbox(n)) = n
<1>1. ReadMailbox(n) \in [1 .. n -> Dwords]
  BY DoeAssumption DEF ReadMailbox, TypeOK, Dwords, Objects, NoObject, Zero, Lengths
<1> QED  BY <1>1

\* Moving the mailbox on keeps it well formed.
LEMMA AckReadsType ==
    ASSUME TypeOK, NEW n \in Nat, AckReads(n)
    PROVE  box' \in Objects \cup {NoObject}
<1>1. CASE box = NoObject
  BY <1>1 DEF AckReads, NoObject
<1>2. CASE box \in Objects /\ box.next + n <= box.len
  <2>1. box.next + n \in 1 .. MaxObject
    BY <1>2, DoeAssumption DEF Objects, Lengths
  <2>2. box' = [box EXCEPT !.next = box.next + n]
    BY <1>2 DEF AckReads
  <2> QED  BY <1>2, <2>1, <2>2 DEF Objects
<1>3. CASE box \in Objects /\ ~(box.next + n <= box.len)
  BY <1>3 DEF AckReads
<1> QED  BY <1>1, <1>2, <1>3 DEF TypeOK

LEMMA FieldsSeenRange ==
    ASSUME TypeOK, NEW d, NEW field \in FieldsSeen(d)
    PROVE  field \in 0 .. MaxObject - 1
<1>1. box.len % MaxObject \in 0 .. MaxObject - 1
  BY DoeAssumption DEF TypeOK, Objects, NoObject, Lengths
<1> QED  BY <1>1, DoeAssumption DEF FieldsSeen, LengthField

LEMMA SendPollsPositive == SendPolls \in Nat /\ SendPolls > 0
BY DoeAssumption DEF SendPolls

\* After an abort the instance is empty and error-free.
LEMMA AbortType ==
    ASSUME trigger_doe_abort
    PROVE  /\ residue' \in BOOLEAN /\ busy' \in BOOLEAN /\ error' \in BOOLEAN
           /\ pending' \in Seq(1 .. MaxExchanges)
           /\ box' \in Objects \cup {NoObject}
BY EmptySeq DEF trigger_doe_abort

LEMMA InitInv == Init => Inv
<1> SUFFICES ASSUME Init PROVE Inv  OBVIOUS
<1>1. TypeOK
  <2>1. buf \in Seq(Dwords) /\ pending \in Seq(1 .. MaxExchanges)
    BY EmptySeq DEF Init
  <2>2. residue \in BOOLEAN /\ busy \in BOOLEAN /\ error \in BOOLEAN
    BY DEF Init
  <2>3. /\ pc \in Steps /\ result \in Statuses
        /\ cur \in 0 .. MaxExchanges /\ count \in 0 .. MaxObject
        /\ cap \in BufSizes \cup {0} /\ delay \in Nat
    BY DoeAssumption DEF Init, Steps, Statuses
  <2>4. box \in Objects \cup {NoObject}
    BY DEF Init
  <2> QED  BY <2>1, <2>2, <2>3, <2>4 DEF TypeOK
<1> QED
  BY <1>1 DEF Init, Inv, BufferBound, ObjectInHand, InStep, Outstanding, OwnResponse

\* One step per action; the cases that only move `pc` are left to one leaf.
LEMMA NextTypeOK == TypeOK /\ ObjectInHand /\ [Next]_vars => TypeOK'
<1> SUFFICES ASSUME TypeOK, ObjectInHand, [Next]_vars PROVE TypeOK'
  OBVIOUS
<1> USE DoeAssumption DEF TypeOK, Steps, Statuses, driver, device
<1>1. ASSUME NEW c \in BufSizes, StartExchange(c) PROVE TypeOK'
  BY <1>1, SendPollsPositive, EmptySeq DEF StartExchange
<1>2. CASE SendCheck
  <2>1. CASE error
    BY <1>2, <2>1, AbortType DEF SendCheck
  <2>2. CASE ~error
    BY <1>2, <2>2 DEF SendCheck
  <2> QED  BY <2>1, <2>2
<1>3. CASE SendWrite
  <2>1. cur \in 1 .. MaxExchanges
    BY <1>3 DEF SendWrite, ObjectInHand
  <2>2. pending' \in Seq(1 .. MaxExchanges)
    BY <1>3, <2>1, AppendProperties DEF SendWrite, SendObject
  <2> QED  BY <1>3, <2>2 DEF SendWrite, SendObject
<1>4. CASE SendStall
  <2>1. CASE error
    BY <1>4, <2>1 DEF SendStall
  <2>2. CASE ~error
    BY <1>4, <2>2 DEF SendStall, ObjectInHand
  <2> QED  BY <2>1, <2>2
<1>5. CASE SendTimedOut
  BY <1>5 DEF SendTimedOut, ReturnDirty, Return
<1>6. CASE SendError
  BY <1>6, AbortType DEF SendError, Return
<1>7. CASE SendDone
  BY <1>7 DEF SendDone
<1>8. CASE RecvNoHeader
  BY <1>8 DEF RecvNoHeader, ReturnDirty, Return
<1>9. CASE RecvCheck
  <2>1. CASE error
    BY <1>9, <2>1, AbortType DEF RecvCheck
  <2>2. CASE ~error
    BY <1>9, <2>2 DEF RecvCheck
  <2> QED  BY <2>1, <2>2
<1>10. CASE RecvReady
  BY <1>10 DEF RecvReady
<1>11. CASE RecvStall
  <2>1. CASE error
    BY <1>11, <2>1 DEF RecvStall
  <2>2. CASE ~error
    BY <1>11, <2>2 DEF RecvStall, ObjectInHand
  <2> QED  BY <2>1, <2>2
<1>12. CASE RecvHeader
  <2>1. buf' \in Seq(Dwords)
    BY <1>12, ReadMailboxType DEF RecvHeader, Dwords
  <2>2. box' \in Objects \cup {NoObject}
    BY <1>12, AckReadsType DEF RecvHeader
  <2>3. /\ count' \in 0 .. MaxObject
        /\ pc' \in Steps
        /\ result' \in Statuses
        /\ residue' \in BOOLEAN
    <3>1. PICK field \in FieldsSeen(ReadMailbox(2)[2]) :
             /\ count' = data_object_count(field)
             /\ IF data_object_count(field) > cap
                THEN ReturnDirty("BUFFER_TOO_SMALL")
                ELSE pc' = "recv_body" /\ UNCHANGED <<result, residue>>
      BY <1>12 DEF RecvHeader
    <3>2. data_object_count(field) \in 1 .. MaxObject
      BY FieldsSeenRange, CountRange
    <3>3. CASE data_object_count(field) > cap
      BY <3>1, <3>2, <3>3 DEF ReturnDirty, Return
    <3>4. CASE ~(data_object_count(field) > cap)
      BY <3>1, <3>2, <3>4
    <3> QED  BY <3>3, <3>4
  <2> QED  BY <1>12, <2>1, <2>2, <2>3 DEF RecvHeader
<1>13. CASE RecvBody
  <2>1. buf' \in Seq(Dwords)
    <3>1. \A i \in 1 .. count :
             (IF i <= 2 THEN buf[i] ELSE ReadMailbox(count - 2)[i - 2])
                 \in Dwords
      <4> SUFFICES ASSUME NEW i \in 1 .. count
                   PROVE  (IF i <= 2 THEN buf[i]
                           ELSE ReadMailbox(count - 2)[i - 2]) \in Dwords
        OBVIOUS
      <4>1. CASE i <= 2
        <5>1. buf \in Seq(Dwords) /\ Len(buf) = 2 /\ i \in 1 .. 2
          BY <4>1, <1>13 DEF RecvBody, ObjectInHand, Dwords
        <5>2. buf[i] \in Dwords
          BY <5>1, ElementOfSeq
        <5> QED  BY <4>1, <5>2
      <4>2. CASE i > 2
        <5>1. count - 2 \in Nat /\ i - 2 \in 1 .. count - 2
          BY <4>2
        <5>2. ReadMailbox(count - 2) \in [1 .. count - 2 -> Dwords]
          BY <5>1, ReadMailboxType
        <5>3. ReadMailbox(count - 2)[i - 2] \in Dwords
          BY <5>1, <5>2
        <5> QED  BY <4>2, <5>3
      <4> QED  BY <4>1, <4>2
    <3>2. buf' \in [1 .. count -> Dwords]
      BY <1>13, <3>1 DEF RecvBody
    <3> QED  BY <3>2
  <2>2. box' \in Objects \cup {NoObject}
    <3>1. CASE count > 2
      BY <1>13, <3>1, AckReadsType DEF RecvBody
    <3>2. CASE ~(count > 2)
      BY <1>13, <3>2 DEF RecvBody
    <3> QED  BY <3>1, <3>2
  <2> QED  BY <1>13, <2>1, <2>2 DEF RecvBody
<1>14. CASE RecvTimedOut
  BY <1>14 DEF RecvTimedOut, ReturnDirty, Return
<1>15. CASE RecvError
  BY <1>15, AbortType DEF RecvError, Return
<1>16. CASE RecvDone
  BY <1>16 DEF RecvDone, Return
<1>17. CASE DeviceRespond
  <2>1. box' \in Objects
    BY <1>17 DEF DeviceRespond, Objects, Lengths
  <2> QED  BY <1>17, <2>1 DEF DeviceRespond
<1>18. CASE DeviceBusy
  BY <1>18 DEF DeviceBusy
<1>19. CASE DeviceError
  BY <1>19 DEF DeviceError
<1>20. CASE UNCHANGED vars
  BY <1>20 DEF vars
<1> QED
  BY <1>1, <1>2, <1>3, <1>4, <1>5, <1>6, <1>7, <1>8, <1>9, <1>10, <1>11,
     <1>12, <1>13, <1>14, <1>15, <1>16, <1>17, <1>18, <1>19, <1>20
  DEF Next, Driver, Device

\* Where the driver is tells how much budget, buffer and object it has.
LEMMA NextObjectInHand ==
    TypeOK /\ ObjectInHand /\ [Next]_vars => ObjectInHand'
<1> SUFFICES ASSUME TypeOK, ObjectInHand, [Next]_vars PROVE ObjectInHand'
  OBVIOUS
<1> USE DoeAssumption DEF ObjectInHand, driver, device
<1>1. ASSUME NEW c \in BufSizes, StartExchange(c) PROVE ObjectInHand'
  BY <1>1, SendPollsPositive DEF StartExchange, TypeOK
<1>2. CASE SendCheck \/ SendWrite \/ SendTimedOut \/ SendError \/ SendDone
  <2>1. CASE SendCheck
    <3>1. delay > 0
      BY <2>1 DEF SendCheck
    <3> QED  BY <2>1, <3>1 DEF SendCheck
  <2> QED
    BY <1>2, <2>1 DEF SendWrite, SendTimedOut, SendError, SendDone,
                      ReturnDirty, Return
<1>3. CASE SendStall
  BY <1>3 DEF SendStall, TypeOK
<1>4. CASE RecvNoHeader \/ RecvReady \/ RecvTimedOut \/ RecvError \/ RecvDone
  BY <1>4 DEF RecvNoHeader, RecvReady, RecvTimedOut, RecvError, RecvDone,
              ReturnDirty, Return
<1>5. CASE RecvCheck
  BY <1>5 DEF RecvCheck
<1>6. CASE RecvStall
  BY <1>6 DEF RecvStall, TypeOK
<1>7. CASE RecvHeader
  <2>1. PICK field \in FieldsSeen(ReadMailbox(2)[2]) :
           /\ count' = data_object_count(field)
           /\ IF data_object_count(field) > cap
              THEN ReturnDirty("BUFFER_TOO_SMALL")
              ELSE pc' = "recv_body" /\ UNCHANGED <<result, residue>>
    BY <1>7 DEF RecvHeader
  <2>2. data_object_count(field) \in 1 .. MaxObject
    BY FieldsSeenRange, CountRange
  <2>3. Len(buf') = 2
    BY <1>7, ReadMailboxType DEF RecvHeader
  <2>4. CASE data_object_count(field) > cap
    BY <1>7, <2>1, <2>4 DEF RecvHeader, ReturnDirty, Return
  <2>5. CASE ~(data_object_count(field) > cap)
    BY <1>7, <2>1, <2>2, <2>3, <2>5 DEF RecvHeader, TypeOK
  <2> QED  BY <2>4, <2>5
<1>8. CASE RecvBody
  BY <1>8 DEF RecvBody
<1>9. CASE Device
  BY <1>9 DEF Device, DeviceRespond, DeviceBusy, DeviceError
<1>10. CASE UNCHANGED vars
  BY <1>10 DEF vars
<1> QED
  BY <1>1, <1>2, <1>3, <1>4, <1>5, <1>6, <1>7, <1>8, <1>9, <1>10
  DEF Next, Driver

\* The receiver's size check bounds every store.
LEMMA NextBufferBound ==
    TypeOK /\ ObjectInHand /\ BufferBound /\ [Next]_vars => BufferBound'
<1> SUFFICES ASSUME TypeOK, ObjectInHand, BufferBound, [Next]_vars
             PROVE  BufferBound'
  OBVIOUS
<1> USE DEF BufferBound
<1>1. ASSUME NEW c \in BufSizes, StartExchange(c) PROVE BufferBound'
  BY <1>1, EmptySeq, DoeAssumption DEF StartExchange
<1>2. CASE RecvHeader
  BY <1>2, ReadMailboxType DEF RecvHeader, ObjectInHand, TypeOK
<1>3. CASE RecvBody
  <2>1. Len(buf') = count
    BY <1>3, DoeAssumption DEF RecvBody, TypeOK
  <2> QED  BY <1>3, <2>1 DEF RecvBody, ObjectInHand
<1>4. CASE UNCHANGED <<buf, cap>>
  BY <1>4
<1> QED
  <2>1. CASE Driver
    BY <2>1, <1>2, <1>3, <1>4
    DEF Driver, SendCheck, SendWrite, SendStall, SendTimedOut, SendError,
        SendDone, RecvNoHeader, RecvCheck, RecvReady, RecvStall,
        RecvTimedOut, RecvError, RecvDone
  <2>2. CASE Device
    BY <2>2, <1>4 DEF Device, DeviceRespond, DeviceBusy, DeviceError, driver
  <2>3. CASE UNCHANGED vars
    BY <2>3, <1>4 DEF vars
  <2> QED  BY <1>1, <2>1, <2>2, <2>3 DEF Next

\* While no failure has gone without its abort, the one request in hand and
\* its answer are where Outstanding says.
LEMMA NextOutstanding ==
    TypeOK /\ ObjectInHand /\ InStep /\ Outstanding /\ [Next]_vars
        => Outstanding'
<1> SUFFICES ASSUME TypeOK, ObjectInHand, InStep, Outstanding, [Next]_vars
             PROVE  Outstanding'
  OBVIOUS
<1>1. ASSUME NEW c \in BufSizes, StartExchange(c) PROVE Outstanding'
  BY <1>1 DEF StartExchange, InStep, Outstanding, device
<1>2. CASE SendCheck
  <2>1. CASE error
    BY <1>2, <2>1 DEF SendCheck, trigger_doe_abort, Outstanding
  <2>2. CASE ~error
    BY <1>2, <2>2 DEF SendCheck, InStep, Outstanding, device
  <2> QED  BY <2>1, <2>2
<1>3. CASE SendWrite
  BY <1>3 DEF SendWrite, SendObject, InStep, Outstanding
<1>4. CASE SendStall
  BY <1>4 DEF SendStall, InStep, Outstanding, device
<1>5. CASE SendTimedOut \/ RecvNoHeader \/ RecvTimedOut
  BY <1>5 DEF SendTimedOut, RecvNoHeader, RecvTimedOut, ReturnDirty,
              Outstanding
<1>6. CASE SendError \/ RecvError
  BY <1>6 DEF SendError, RecvError, trigger_doe_abort, Return, Outstanding
<1>7. CASE SendDone
  BY <1>7 DEF SendDone, Outstanding, device
<1>8. CASE RecvCheck
  <2>1. CASE error
    BY <1>8, <2>1 DEF RecvCheck, trigger_doe_abort, Outstanding
  <2>2. CASE ~error
    BY <1>8, <2>2 DEF RecvCheck, Outstanding, device
  <2> QED  BY <2>1, <2>2
<1>9. CASE RecvReady
  BY <1>9 DEF RecvReady, Outstanding, device,
              is_doe_data_object_ready_asserted
<1>10. CASE RecvStall
  <2>1. CASE error
    BY <1>10, <2>1 DEF RecvStall, Outstanding, device
  <2>2. CASE ~error
    BY <1>10, <2>2 DEF RecvStall, Outstanding, device, TypeOK, ObjectInHand
  <2> QED  BY <2>1, <2>2
<1>11. CASE RecvHeader
  <2> SUFFICES ASSUME ~residue' PROVE Outstanding'
    BY DEF Outstanding
  <2>1. PICK field \in FieldsSeen(ReadMailbox(2)[2]) :
           /\ count' = data_object_count(field)
           /\ IF data_object_count(field) > cap
              THEN ReturnDirty("BUFFER_TOO_SMALL")
              ELSE pc' = "recv_body" /\ UNCHANGED <<result, residue>>
    BY <1>11 DEF RecvHeader
  <2>2. pc' = "recv_body" /\ ~residue /\ UNCHANGED <<cur, error, pending>>
    BY <1>11, <2>1 DEF RecvHeader, ReturnDirty
  <2>3. /\ pending = <<>>
        /\ error \/ box # NoObject
        /\ box # NoObject => box.req = cur /\ box.next = 1
    BY <1>11, <2>2 DEF RecvHeader, Outstanding
  <2>4. CASE box = NoObject
    <3>1. box' = NoObject
      BY <1>11, <2>4 DEF RecvHeader, AckReads, NoObject
    <3> QED  BY <2>2, <2>3, <2>4, <3>1 DEF Outstanding
  <2>5. CASE box # NoObject
    <3>1. /\ box \in Objects /\ box.len \in Lengths
          /\ box.req = cur /\ box.next = 1 /\ cur \in Nat \ {0}
      BY <1>11, <2>3, <2>5, DoeAssumption
      DEF TypeOK, Objects, ObjectInHand, RecvHeader
    <3>2. buf' = [i \in 1 .. 2 |-> <<cur, i>>]
      BY <1>11, <3>1, DoeAssumption DEF RecvHeader, ReadMailbox, Lengths
    <3>3. ReadMailbox(2)[2] = <<cur, 2>>
      BY <3>1, DoeAssumption DEF ReadMailbox, Lengths
    <3>4. count' = box.len
      BY <2>1, <3>1, <3>3, LengthFieldExact DEF FieldsSeen, Zero
    <3>5. CASE box.len = 2
      <4>1. box' = NoObject
        BY <1>11, <3>1, <3>5 DEF RecvHeader, AckReads
      <4> QED
        BY <2>2, <2>3, <3>1, <3>2, <3>4, <3>5, <4>1 DEF Outstanding
    <3>6. CASE box.len # 2
      <4>1. box' = [box EXCEPT !.next = 3]
        BY <1>11, <3>1, <3>6, DoeAssumption DEF RecvHeader, AckReads, Lengths
      <4>2. box'.req = cur /\ box'.next = 3 /\ box'.len = box.len
        BY <3>1, <4>1 DEF Objects
      <4>3. box' # NoObject
        BY <4>2 DEF NoObject
      <4> QED
        BY <2>2, <2>3, <3>1, <3>2, <3>4, <3>6, <4>2, <4>3, DoeAssumption
        DEF Outstanding, Lengths
    <3> QED  BY <3>5, <3>6
  <2> QED  BY <2>4, <2>5
<1>12. CASE RecvBody
  <2> SUFFICES ASSUME ~residue' PROVE Outstanding'
    BY DEF Outstanding
  <2>1. /\ pc' = "recv_end" /\ ~residue
        /\ UNCHANGED <<cur, delay, error, pending, count>>
    BY <1>12 DEF RecvBody
  <2>2. /\ pending = <<>>
        /\ box # NoObject => box.req = cur
        /\ error \/ /\ buf = [i \in 1 .. 2 |-> <<cur, i>>]
                    /\ count \in Lengths
                    /\ \/ count = 2 /\ box = NoObject
                       \/ count > 2 /\ box # NoObject
                          /\ box.next = 3 /\ box.len = count
    BY <1>12, <2>1 DEF RecvBody, Outstanding
  <2>3. box' # NoObject => box'.req = cur
    <3>1. CASE UNCHANGED box
      BY <2>2, <3>1
    <3>2. CASE box \in Objects /\ box' = [box EXCEPT !.next = box.next + (count - 2)]
      <4>1. box'.req = box.req
        BY <3>2 DEF Objects
      <4>2. box # NoObject
        BY <3>2, DoeAssumption DEF Objects, NoObject
      <4> QED  BY <2>2, <4>1, <4>2
    <3>3. CASE box' = NoObject
      BY <3>3
    <3>4. CASE box = NoObject /\ count > 2
      <4>1. box' = NoObject
        BY <1>12, <3>4 DEF RecvBody, AckReads, NoObject, TypeOK
      <4> QED  BY <4>1
    <3> QED
      BY <1>12, <3>1, <3>2, <3>3, <3>4 DEF RecvBody, AckReads, TypeOK
  <2>4. ~error => box' = NoObject
    <3> SUFFICES ASSUME ~error PROVE box' = NoObject
      OBVIOUS
    <3>1. CASE count = 2 /\ box = NoObject
      BY <1>12, <3>1 DEF RecvBody
    <3>2. CASE count > 2 /\ box # NoObject /\ box.next = 3 /\ box.len = count
      BY <1>12, <2>2, <3>2 DEF RecvBody, AckReads, Lengths
    <3> QED  BY <2>2, <3>1, <3>2
  <2>5. ~error => IsResponse(buf', cur)
    <3> SUFFICES ASSUME ~error PROVE IsResponse(buf', cur)
      OBVIOUS
    <3>1. count \in Lengths /\ buf = [i \in 1 .. 2 |-> <<cur, i>>]
      BY <2>2
    <3>2. ASSUME NEW i \in 1 .. count, ~(i <= 2)
          PROVE  ReadMailbox(count - 2)[i - 2] = <<cur, i>>
      <4>1. box.req = cur /\ box.next = 3 /\ box.len = count
        BY <2>2, <3>1, <3>2 DEF Lengths
      <4>2. i - 2 \in 1 .. count - 2 /\ 3 + (i - 2) - 1 = i /\ i <= count
        BY <3>1, <3>2 DEF Lengths
      <4> QED  BY <4>1, <4>2 DEF ReadMailbox
    <3>3. buf' = [i \in 1 .. count |-> <<cur, i>>]
      BY <1>12, <3>1, <3>2 DEF RecvBody
    <3> QED  BY <3>1, <3>3 DEF IsResponse
  <2> QED  BY <2>1, <2>2, <2>3, <2>4, <2>5 DEF Outstanding
<1>13. CASE RecvDone
  BY <1>13 DEF RecvDone, Return, Outstanding, device
<1>14. CASE DeviceRespond
  BY <1>14 DEF DeviceRespond, Outstanding, driver
<1>15. CASE DeviceBusy
  BY <1>15 DEF DeviceBusy, Outstanding, driver
<1>16. CASE DeviceError
  BY <1>16 DEF DeviceError, Outstanding, driver
<1>17. CASE UNCHANGED vars
  BY <1>17 DEF vars, Outstanding
<1> QED
  BY <1>1, <1>2, <1>3, <1>4, <1>5, <1>6, <1>7, <1>8, <1>9, <1>10, <1>11,
     <1>12, <1>13, <1>14, <1>15, <1>16, <1>17
  DEF Next, Driver, Device

\* Requests and responses stay in step.
LEMMA NextInStep ==
    TypeOK /\ ObjectInHand /\ InStep /\ Outstanding /\ [Next]_vars => InStep'
<1> SUFFICES ASSUME TypeOK, ObjectInHand, InStep, Outstanding, [Next]_vars
             PROVE  InStep'
  OBVIOUS
<1>1. Outstanding'
  BY NextOutstanding
<1>2. ~residue' => Len(pending') + (IF box' = NoObject THEN 0 ELSE 1) <= 1
  <2> SUFFICES ASSUME ~residue'
               PROVE  Len(pending') + (IF box' = NoObject THEN 0 ELSE 1) <= 1
    OBVIOUS
  <2>1. Len(pending') = 0 \/ Len(pending') = 1
    BY <1>1 DEF Outstanding
  <2>2. box' # NoObject => Len(pending') = 0
    BY <1>1 DEF Outstanding
  <2>3. CASE box' = NoObject
    BY <2>1, <2>3
  <2>4. CASE box' # NoObject
    BY <2>2, <2>4
  <2> QED  BY <2>3, <2>4
<1>3. ASSUME ~residue', pc' \in {"idle", "send_check", "send_poll"}
      PROVE  pending' = <<>> /\ box' = NoObject
  <2>1. ASSUME NEW c \in BufSizes, StartExchange(c)
        PROVE  pending' = <<>> /\ box' = NoObject
    BY <1>3, <2>1 DEF StartExchange, InStep, device
  <2>2. CASE SendCheck
    BY <1>3, <2>2 DEF SendCheck, trigger_doe_abort, InStep, device
  <2>3. CASE SendStall
    BY <1>3, <2>3 DEF SendStall, InStep, device
  <2>4. CASE SendTimedOut \/ RecvNoHeader \/ RecvTimedOut
    BY <1>3, <2>4 DEF SendTimedOut, RecvNoHeader, RecvTimedOut, ReturnDirty
  <2>5. CASE SendError \/ RecvError
    BY <2>5 DEF SendError, RecvError, trigger_doe_abort
  <2>6. CASE RecvHeader
    BY <1>3, <2>6 DEF RecvHeader, ReturnDirty
  <2>7. CASE RecvDone
    BY <1>3, <2>7 DEF RecvDone, Outstanding, device
  <2>8. CASE SendWrite \/ SendDone \/ RecvCheck \/ RecvReady \/ RecvStall
             \/ RecvBody
    BY <1>3, <2>8 DEF SendWrite, SendDone, RecvCheck, RecvReady, RecvStall,
                      RecvBody
  <2>9. CASE Device
    BY <1>3, <2>9 DEF Device, DeviceRespond, DeviceBusy, DeviceError, InStep,
                      driver
  <2>10. CASE UNCHANGED vars
    BY <1>3, <2>10 DEF vars, InStep
  <2> QED
    BY <2>1, <2>2, <2>3, <2>4, <2>5, <2>6, <2>7, <2>8, <2>9, <2>10
    DEF Next, Driver
<1> QED  BY <1>2, <1>3 DEF InStep

\* Only RecvDone reports SUCCESS, and then Outstanding says what was read.
LEMMA NextOwnResponse ==
    Outstanding /\ OwnResponse /\ [Next]_vars => OwnResponse'
<1> SUFFICES ASSUME Outstanding, OwnResponse, [Next]_vars, ~residue',
                    pc' = "idle", cur' > 0, result' = "SUCCESS"
             PROVE  IsResponse(buf', cur')
  BY DEF OwnResponse
<1>1. CASE RecvDone
  BY <1>1 DEF RecvDone, Outstanding
<1>2. CASE UNCHANGED driver
  BY <1>2 DEF driver, OwnResponse
<1>3. CASE SendError \/ RecvError
  BY <1>3 DEF SendError, RecvError, Return
<1>4. CASE SendTimedOut \/ RecvNoHeader \/ RecvTimedOut \/ RecvHeader
  BY <1>4 DEF SendTimedOut, RecvNoHeader, RecvTimedOut, RecvHeader, ReturnDirty
<1>5. CASE \/ \E c \in BufSizes : StartExchange(c)
           \/ SendCheck \/ SendWrite \/ SendStall \/ SendDone
           \/ RecvCheck \/ RecvReady \/ RecvStall \/ RecvBody
  BY <1>5 DEF StartExchange, SendCheck, SendWrite, SendStall, SendDone,
              RecvCheck, RecvReady, RecvStall, RecvBody
<1>6. CASE Device
  BY <1>2, <1>6 DEF Device, DeviceRespond, DeviceBusy, DeviceError
<1>7. CASE UNCHANGED vars
  BY <1>2, <1>7 DEF vars, driver
<1> QED
  BY <1>1, <1>3, <1>4, <1>5, <1>6, <1>7 DEF Next, Driver

\* The inductive invariant holds in every reachable state.
THEOREM Invariance == Spec => []Inv
<1>1. Init => Inv
  BY InitInv
<1>2. Inv /\ [Next]_vars => Inv'
  BY NextTypeOK, NextObjectInHand, NextBufferBound, NextOutstanding,
     NextInStep, NextOwnResponse DEF Inv
<1> QED  BY <1>1, <1>2, PTL DEF Spec

\* The variables of device_doe_send_message, device_doe_receive_message and
\* of the DOE instance keep their types.
THEOREM TypeCorrect == Spec => []TypeOK
BY Invariance, PTL DEF Inv

\* pci_doe_send_receive_data returns SUCCESS with the whole answer to its own
\* request, unless an earlier exchange failed without an abort behind it.
THEOREM OwnResponseCorrect == Spec => []OwnResponse
BY Invariance, PTL DEF Inv

\* device_doe_receive_message stores nothing past the caller's buffer.
THEOREM BufferBoundCorrect == Spec => []BufferBound
BY Invariance, PTL DEF Inv

\* The driver and the instance stay in step unless an exchange failed without
\* an abort behind it.
THEOREM InStepCorrect == Spec => []InStep
BY Invariance, PTL DEF Inv

-----------------------------------------------------------------------------
\* The initial mailbox is the initial exchange.
LEMMA InitExchange == Init => Exchange!Init
BY DEF Init, Exchange!Init, Answered

\* Every step of the driver or of the instance is a step of the exchange or
\* none: only a return moves it on, and only an abort clears the debt.
LEMMA StepExchange ==
    ASSUME Inv, Inv', [Next]_vars
    PROVE  [Exchange!Next]_Exchange!vars
<1> USE DEF Exchange!vars
<1>1. ASSUME UNCHANGED <<pc, cur, result, residue, buf>>
      PROVE  UNCHANGED Exchange!vars
  BY <1>1 DEF Answered
<1>2. ASSUME pc # "idle", pc' # "idle", UNCHANGED <<cur, result, residue>>
      PROVE  UNCHANGED Exchange!vars
  BY <1>2 DEF Answered
<1>3. ASSUME pc # "idle", pc' # "idle", UNCHANGED <<cur, result>>, residue' = FALSE
      PROVE  Exchange!Next
  BY <1>3 DEF Exchange!Next, Exchange!Abort, Answered
<1>4. ASSUME pc # "idle", pc' = "idle", UNCHANGED cur,
             result' \in Statuses \ {"SUCCESS"}, residue' \in BOOLEAN
      PROVE  Exchange!Next
  BY <1>4 DEF Exchange!Next, Exchange!Fail, Answered
<1>5. CASE \E c \in BufSizes : StartExchange(c)
  BY <1>5 DEF StartExchange, Exchange!Next, Exchange!Begin, Answered
<1>6. CASE SendCheck \/ RecvCheck
  <2>1. CASE error
    BY <1>3, <1>6, <2>1 DEF SendCheck, RecvCheck, trigger_doe_abort
  <2>2. CASE ~error
    BY <1>2, <1>6, <2>2 DEF SendCheck, RecvCheck
  <2> QED  BY <2>1, <2>2
<1>7. CASE SendWrite \/ SendStall \/ SendDone \/ RecvReady \/ RecvStall
           \/ RecvBody
  BY <1>2, <1>7 DEF SendWrite, SendStall, SendDone, RecvReady, RecvStall,
                    RecvBody
<1>8. CASE SendTimedOut \/ SendError \/ RecvNoHeader \/ RecvTimedOut
           \/ RecvError
  BY <1>4, <1>8 DEF SendTimedOut, SendError, RecvNoHeader, RecvTimedOut,
     RecvError, ReturnDirty, Return, trigger_doe_abort, Statuses
<1>9. CASE RecvHeader
  <2>1. CASE pc' = "idle"
    BY <1>4, <1>9, <2>1 DEF RecvHeader, ReturnDirty, Return, Statuses
  <2>2. CASE pc' # "idle"
    BY <1>2, <1>9, <2>2 DEF RecvHeader, ReturnDirty, Return
  <2> QED  BY <2>1, <2>2
<1>10. CASE RecvDone
  <2>1. /\ pc # "idle" /\ pc' = "idle" /\ result' = "SUCCESS"
        /\ UNCHANGED <<cur, residue>>
    BY <1>10 DEF RecvDone, Return
  <2>2. cur > 0
    BY <2>1 DEF Inv, ObjectInHand
  <2>3. residue \in BOOLEAN
    BY DEF Inv, TypeOK
  <2>4. Answered' \in BOOLEAN
    BY DEF Answered
  <2>5. ~residue => Answered'
    BY <2>1, <2>2 DEF Inv, OwnResponse, Answered
  <2>6. Exchange!Succeed
    BY <2>1, <2>3, <2>4, <2>5 DEF Exchange!Succeed
  <2> QED  BY <2>6 DEF Exchange!Next
<1>11. CASE Device
  BY <1>1, <1>11 DEF Device, DeviceRespond, DeviceBusy, DeviceError, driver
<1>12. CASE UNCHANGED vars
  BY <1>1, <1>12 DEF vars
<1> QED
  BY <1>5, <1>6, <1>7, <1>8, <1>9, <1>10, <1>11, <1>12 DEF Next, Driver

\* pci_doe_send_receive_data, polls, aborts and device included, implements
\* the exchange its callers rely on, for every bound (the safety part of
\* ImplementsExchange; that every exchange returns stays with TLC).
THEOREM ExchangeImplemented == Spec => Exchange!Spec
<1>1. Init => Exchange!Init
  BY InitExchange
<1>2. Inv /\ Inv' /\ [Next]_vars => [Exchange!Next]_Exchange!vars
  BY StepExchange
<1> QED  BY <1>1, <1>2, Invariance, PTL DEF Spec, Exchange!Spec

=============================================================================
