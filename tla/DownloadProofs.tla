--------------------------- MODULE DownloadProofs ---------------------------
(***************************************************************************)
(* Download is type correct, and IInv is an inductive invariant of it, for *)
(* every window, file and channel size.  One lemma per action, under the   *)
(* same sb but for AcceptAck; what the action does to the server's window  *)
(* is in SenderProofs.  At the end, what the invariant gives: each         *)
(* property that TLC checks on one instance, and that the download         *)
(* implements the abstract transfer.                                       *)
(***************************************************************************)
EXTENDS DownloadInv, SenderProofs

\* The first state is well typed.
LEMMA TypeInit == Init => TypeOK
BY SenderTypeInit, ReceiverTypeInit DEF Init, TypeOK

\* Every step keeps the types.
LEMMA TypeStep == TypeOK /\ [Next]_vars => TypeOK'
<1> SUFFICES ASSUME TypeOK, [Next]_vars
             PROVE  TypeOK'
  OBVIOUS
<1> USE Sizes DEF TypeOK, SenderTypeOK, ReceiverTypeOK, rcvVars
<1>1. CASE SenderNext /\ UNCHANGED rcvVars
  <2>1. SenderTypeOK'
    BY <1>1, SenderTypeStep
  <2> QED
    BY <1>1, <2>1
<1>2. CASE ReadReply
  BY <1>2 DEF ReadReply, sndVars
<1>3. CASE ReceiveOld
  <2>1. Head(dataCh) \in DataMsg /\ Tail(dataCh) \in Seq(DataMsg)
    BY <1>3 DEF ReceiveOld
  <2>2. Ack(Head(dataCh)) \in AckMsg
    BY <2>1, AckType
  <2>3. ackCh' \in Seq(AckMsg)
    BY <1>3, <2>2, TransmitResult DEF ReceiveOld
  <2> QED
    BY <1>3, <2>1, <2>2, <2>3, ReceiverAssumption DEF ReceiveOld, sndVars
<1>4. CASE ReceiveNew
  <2> DEFINE m == Head(dataCh)
             buf == [rcv_buf EXCEPT ![m.seq] = m.data]
  <2>1. m \in DataMsg /\ Tail(dataCh) \in Seq(DataMsg)
    BY <1>4 DEF ReceiveNew
  <2>2. Ack(m) \in AckMsg
    BY <2>1, AckType
  <2>3. ackCh' \in Seq(AckMsg)
    BY <1>4, <2>2, TransmitResult DEF ReceiveNew
  <2>4. buf \in [Slots -> Blocks \cup {NULL}]
    BY <2>1 DEF DataMsg
  <2> HIDE DEF m
  <2>5. /\ rcv_buf' \in [Slots -> Blocks \cup {NULL}]
        /\ rcv_base' \in Slots
        /\ written' \in Seq(Blocks)
    <3>1. CASE m.seq # rcv_base
      BY <1>4, <2>4, <3>1 DEF ReceiveNew, m
    <3>2. CASE m.seq = rcv_base
      <4> HIDE DEF buf
      <4>1. PICK k \in 1..N :
              /\ StoredRun(buf, rcv_base, k)
              /\ rcv_buf' = WriteRun(buf, rcv_base, k)
              /\ rcv_base' = (rcv_base + k) % N
              /\ written' = written \o [j \in 1..k |-> buf[(rcv_base + j - 1) % N]]
        BY <1>4, <3>2 DEF ReceiveNew, WriteStored, m, buf
      <4>2. rcv_base' \in Slots
        BY <4>1, NextPosition
      <4>3. rcv_buf' \in [Slots -> Blocks \cup {NULL}]
        BY <2>4, <4>1 DEF WriteRun
      <4>4. \A j \in 1..k : buf[(rcv_base + j - 1) % N] \in Blocks
        <5> TAKE j \in 1..k
        <5>1. j - 1 \in 0..k-1 /\ rcv_base + (j - 1) = rcv_base + j - 1
              /\ rcv_base + j - 1 \in Nat
          BY DEF Slots
        <5>2. buf[(rcv_base + (j - 1)) % N] # NULL
          BY <4>1, <5>1 DEF StoredRun
        <5>3. (rcv_base + j - 1) % N \in Slots
          BY <5>1, Position
        <5> QED
          BY <2>4, <5>1, <5>2, <5>3
      <4> DEFINE run == [j \in 1..k |-> buf[(rcv_base + j - 1) % N]]
      <4>5. run \in Seq(Blocks)
        BY <4>4
      <4> HIDE DEF run
      <4>6. written \o run \in Seq(Blocks)
        BY <4>5
      <4> QED
        BY <4>1, <4>2, <4>3, <4>6 DEF run
    <3> QED
      BY <3>1, <3>2
  <2> QED
    BY <1>4, <2>1, <2>2, <2>3, <2>5, ReceiverAssumption DEF ReceiveNew, sndVars, m
<1>5. CASE ReceiveFinal
  <2>1. Head(dataCh) \in DataMsg /\ Tail(dataCh) \in Seq(DataMsg)
    BY <1>5 DEF ReceiveFinal
  <2>2. Ack(Head(dataCh)) \in AckMsg
    BY <2>1, AckType
  <2>3. ackCh' \in Seq(AckMsg)
    BY <1>5, <2>2, TransmitResult DEF ReceiveFinal
  <2> QED
    BY <1>5, <2>1, <2>2, <2>3, ReceiverAssumption DEF ReceiveFinal, sndVars
<1>6. CASE RcvTimeout
  <2>1. ackCh' \in Seq(AckMsg)
    BY <1>6, TransmitResult DEF RcvTimeout
  <2> QED
    BY <1>6, <2>1, ReceiverAssumption DEF RcvTimeout, sndVars
<1>7. CASE GiveUp
  BY <1>7 DEF GiveUp, sndVars
<1>8. CASE Interrupted
  BY <1>8 DEF Interrupted, sndVars
<1>9. CASE UNCHANGED vars
  BY <1>9 DEF vars, sndVars
<1> QED
  BY <1>1, <1>2, <1>3, <1>4, <1>5, <1>6, <1>7, <1>8, <1>9
  DEF Next, PatientNext, Terminated, SenderNext

\* Every variable stays within its type: in particular no window ever points
\* outside its buffer and no sequence number reaches 2N.
THEOREM TypeCorrect == Spec => []TypeOK
<1>1. Init => TypeOK
  BY TypeInit
<1>2. TypeOK /\ [Next]_vars => TypeOK'
  BY TypeStep
<1> QED
  BY <1>1, <1>2, PTL DEF Spec

-----------------------------------------------------------------------------
\* The numbers of the invariant are natural numbers.
LEMMA InvNumbers ==
  ASSUME TypeOK, NEW sb \in 0..FileLen, WindowInv(sb)
  PROVE  /\ sb \in Nat /\ fileOff \in Nat /\ Len(written) \in Nat
         /\ sb <= fileOff /\ fileOff <= sb + WS /\ fileOff <= FileLen
         /\ sb <= Len(written) /\ Len(written) <= fileOff
         /\ fileOff < sb + N
BY Sizes DEF TypeOK, SenderTypeOK, ReceiverTypeOK, Blocks, WindowInv, SendWindow, RcvWindow,
             AckedAreStored

\* A block that was not read yet is not stored.
LEMMA NotYetStored ==
  ASSUME TypeOK, NEW sb \in 0..FileLen, WindowInv(sb), NEW i \in Blocks, Stored(i)
  PROVE  i < fileOff
<1>1. i \in Nat /\ i # NULL
  BY Sizes DEF Blocks
<1>2. i < Len(written) \/ rcv_buf[Slot(i)] = i
  BY DEF Stored
<1>3. CASE i < Len(written)
  BY <1>1, <1>3, InvNumbers
<1>4. CASE rcv_buf[Slot(i)] = i
  <2>1. Slot(i) \in Slots
    BY <1>1, SlotType
  <2> QED
    BY <1>1, <1>4, <2>1 DEF WindowInv, RcvWindow
<1> QED
  BY <1>2, <1>3, <1>4

\* A new packet may enter the channel, behind every block read before it.
LEMMA SendPacketStep ==
  ASSUME TypeOK, TypeOK', NEW sb \in 0..FileLen, WindowInv(sb),
         SendPacket, UNCHANGED rcvVars
  PROVE  WindowInv(sb)'
<1>1. /\ SendWindow(sb)' /\ Timers(sb)'
      /\ fileOff' = fileOff + 1 /\ ackJob = "acks" /\ ackJob' = "acks" /\ ackCh' = ackCh
      /\ \A i \in 0..fileOff'-1 : Acked(sb, i)' => i \in 0..fileOff-1 /\ Acked(sb, i)
      /\ \E m \in DataMsg : /\ m.seq = Slot(fileOff) /\ m.seq < N /\ m.data = fileOff
                           /\ dataCh' \in Transmit(dataCh, m)
  BY SendPacketKeeps DEF WindowInv, TypeOK
<1>2. /\ rcv_base' = rcv_base /\ rcv_buf' = rcv_buf /\ written' = written
      /\ ack_to_resend' = ack_to_resend /\ rcvJob' = rcvJob
  BY DEF rcvVars
<1>3. /\ sb \in Nat /\ fileOff \in Nat /\ Len(written) \in Nat
      /\ sb <= fileOff /\ fileOff <= sb + WS /\ fileOff < sb + N
      /\ sb <= Len(written) /\ Len(written) <= fileOff
      /\ WS \in Nat /\ WS > 0 /\ N \in Nat /\ WS < N
  BY InvNumbers, Sizes
<1>11. RcvWindow'
  <2>1. RcvWindow
    BY DEF WindowInv
  <2>2. ASSUME NEW p \in Slots, rcv_buf'[p] # NULL
        PROVE  rcv_buf'[p] \in Len(written')+1 .. Len(written')+WR-1 /\ rcv_buf'[p] < fileOff'
               /\ p = Slot(rcv_buf'[p])
    <3>1. rcv_buf[p] \in Len(written)+1 .. Len(written)+WR-1 /\ rcv_buf[p] < fileOff
          /\ p = Slot(rcv_buf[p])
      BY <2>1, <2>2, <1>2 DEF RcvWindow
    <3> QED
      BY <3>1, <1>1, <1>2, <1>3, Sizes
  <2> QED
    BY <2>1, <2>2, <1>1, <1>2, <1>3 DEF RcvWindow
<1>12. AckedAreStored(sb)'
  <2>1. ASSUME NEW i \in sb..fileOff'-1, snd_buf'[Slot(i)].acked
        PROVE  i < Len(written') \/ rcv_buf'[Slot(i)] = i
    <3>1. i \in 0..fileOff'-1 /\ Acked(sb, i)'
      BY <2>1, <1>1, <1>3 DEF Acked
    <3>2. i \in sb..fileOff-1 /\ Acked(sb, i)
      BY <3>1, <1>1, <1>3
    <3>3. Stored(i)
      BY <3>2, <1>3 DEF WindowInv, AckedAreStored, Acked
    <3> QED
      BY <3>3, <1>2 DEF Stored
  <2> QED
    BY <2>1, <1>2, <1>3 DEF AckedAreStored, Stored
<1>13. \A i \in 0..fileOff'-1 : Stored(i) => i < fileOff
  <2> SUFFICES ASSUME NEW i \in 0..fileOff'-1, Stored(i) PROVE i < fileOff
    OBVIOUS
  <2>1. i \in Blocks
    BY <1>1, <1>3, Sizes DEF TypeOK, SenderTypeOK, Blocks
  <2> QED
    BY <2>1, NotYetStored
<1>14. DataInFlight'
  <2>1. PICK new \in DataMsg : /\ new.seq = Slot(fileOff) /\ new.seq < N /\ new.data = fileOff
                              /\ dataCh' \in Transmit(dataCh, new)
    BY <1>1
  <2>2. dataCh \in Seq(DataMsg)
    BY DEF TypeOK, SenderTypeOK
  <2>4. /\ \A q \in DOMAIN dataCh' : (q \in DOMAIN dataCh /\ dataCh'[q] = dataCh[q]) \/ dataCh'[q] = new
        /\ \A q, r \in DOMAIN dataCh' : q < r =>
              /\ q \in DOMAIN dataCh /\ dataCh'[q] = dataCh[q]
              /\ (r \in DOMAIN dataCh /\ dataCh'[r] = dataCh[r]) \/ dataCh'[r] = new
    BY <2>1, <2>2, AfterSend
  <2>6. \A i \in 0..fileOff'-1 : (i < Len(written') \/ rcv_buf'[Slot(i)] = i) =>
          i \in 0..fileOff-1 /\ Stored(i)
    BY <1>1, <1>2, <1>3, <1>13 DEF Stored
  <2>7. ASSUME NEW q \in DOMAIN dataCh'
        PROVE  DataMsgOK(dataCh[q])'
    <3>1. CASE dataCh'[q] = new
      BY <3>1, <1>1, <1>3, <2>1, <2>6 DEF DataMsgOK, Stored
    <3>2. CASE q \in DOMAIN dataCh /\ dataCh'[q] = dataCh[q]
      <4>1. DataMsgOK(dataCh[q])
        BY <3>2 DEF WindowInv, DataInFlight
      <4>2. dataCh[q] \in DataMsg
        BY <2>2, <3>2
      <4> QED
        BY <3>2, <4>1, <4>2, <1>1, <1>3, <2>6 DEF DataMsgOK, Stored, DataMsg, Blocks
    <3> QED
      BY <2>4, <3>1, <3>2
  <2>8. ASSUME NEW q \in DOMAIN dataCh', NEW r \in DOMAIN dataCh', q < r,
               dataCh'[q].seq < N, dataCh'[r].seq < N
        PROVE  dataCh'[q].data < dataCh'[r].data + WS
    <3>1. q \in DOMAIN dataCh /\ dataCh'[q] = dataCh[q] /\ DataMsgOK(dataCh[q])
      BY <2>4, <2>8 DEF WindowInv, DataInFlight
    <3>2. dataCh[q] \in DataMsg
      BY <2>2, <3>1
    <3>3. CASE dataCh'[r] = new
      <4>1. dataCh[q].data < fileOff
        BY <3>1, <2>8, <1>1 DEF DataMsgOK
      <4> QED
        BY <4>1, <3>1, <3>2, <3>3, <2>1, <1>3 DEF DataMsg, Blocks
    <3>4. CASE r \in DOMAIN dataCh /\ dataCh'[r] = dataCh[r]
      BY <3>1, <3>4, <2>8 DEF WindowInv, DataInFlight
    <3> QED
      BY <2>4, <2>8, <3>3, <3>4
  <2> QED
    BY <2>7, <2>8 DEF DataInFlight
<1>15. AcksInFlight(sb)'
  <2>1. ASSUME NEW q \in DOMAIN ackCh'
        PROVE  AckMsgOK(sb, ackCh[q])'
    <3>1. AckMsgOK(sb, ackCh[q]) /\ ackCh[q] \in AckMsg
      BY <2>1, <1>1 DEF WindowInv, AcksInFlight, TypeOK, SenderTypeOK
    <3>2. \A i \in 0..fileOff'-1 : (i < sb \/ (i < fileOff' /\ snd_buf'[Slot(i)].acked)) =>
            i \in 0..fileOff-1 /\ Acked(sb, i)
      BY <1>1 DEF Acked
    <3>3. CASE ackCh[q].seq = -1
      BY <3>3, <1>1 DEF AckMsgOK
    <3>4. CASE ackCh[q].seq >= N /\ rcvJob = "done"
      BY <3>4, <1>1, <1>2 DEF AckMsgOK
    <3>5. CASE /\ ackCh[q].seq \in Slots /\ ackCh[q].blk \in 0..fileOff-1
               /\ ackCh[q].seq = Slot(ackCh[q].blk) /\ Stored(ackCh[q].blk)
               /\ \A i \in 0..fileOff-1 : Acked(sb, i) => i < ackCh[q].blk + WS
      <4>1. ackCh[q].blk \in 0..fileOff'-1
        BY <3>5, <1>1, <1>3
      <4>2. \A i \in 0..fileOff'-1 : (i < sb \/ (i < fileOff' /\ snd_buf'[Slot(i)].acked)) =>
              i < ackCh[q].blk + WS
        BY <3>2, <3>5
      <4>3. ackCh[q].blk < Len(written') \/ rcv_buf'[Slot(ackCh[q].blk)] = ackCh[q].blk
        BY <3>5, <1>2 DEF Stored
      <4> QED
        BY <3>5, <4>1, <4>2, <4>3, <1>1 DEF AckMsgOK, Acked, Stored
    <3> QED
      BY <3>1, <3>3, <3>4, <3>5 DEF AckMsgOK
  <2> QED
    BY <2>1, <1>1 DEF WindowInv, AcksInFlight
<1>16. LastAckOK'
  <2>1. LastAckOK
    BY DEF WindowInv
  <2> QED
    BY <2>1, <1>1, <1>2, <1>3, <1>13 DEF LastAckOK, Stored, TypeOK, ReceiverTypeOK, AckMsg
<1>17. Ending'
  BY <1>1, <1>2 DEF WindowInv, Ending
<1> QED
  BY <1>1, <1>11, <1>12, <1>14, <1>15, <1>16, <1>17 DEF WindowInv

-----------------------------------------------------------------------------
\* What a datagram in flight promises survives a step that stores nothing new,
\* or a block not too far ahead of it.
LEMMA DataMsgKept ==
  ASSUME fileOff' = fileOff, ackJob # "acks" => ackJob' # "acks",
         NEW m, DataMsgOK(m),
         m.seq < N => \A i \in 0..fileOff-1 : Stored(i)' => Stored(i) \/ i < m.data + WS
  PROVE  DataMsgOK(m)'
<1>1. CASE m = addSeqNum(FinalPacket) /\ ackJob # "acks"
  BY <1>1 DEF DataMsgOK
<1>2. CASE /\ m.seq < N /\ m.seq = Slot(m.data) /\ m.data < fileOff
           /\ \A i \in 0..fileOff-1 : Stored(i) => i < m.data + WS
  <2>1. \A i \in 0..fileOff'-1 : Stored(i)' => i < m.data + WS
    BY <1>2
  <2> QED
    BY <1>2, <2>1 DEF DataMsgOK
<1> QED
  BY <1>1, <1>2 DEF DataMsgOK

\* So it does when the step sends nothing, takes the first datagram, or sends
\* one that promises the same.
LEMMA DataKept ==
  ASSUME TypeOK, DataInFlight, fileOff' = fileOff,
         \A i \in 0..fileOff-1 : Stored(i)' => Stored(i),
         ackJob # "acks" => ackJob' # "acks",
         \/ dataCh' = dataCh
         \/ dataCh # <<>> /\ dataCh' = Tail(dataCh)
         \/ \E m \in DataMsg :
              /\ dataCh' \in Transmit(dataCh, m)
              /\ DataMsgOK(m)'
              /\ m.seq < N => \A q \in DOMAIN dataCh :
                                dataCh[q].seq < N => dataCh[q].data < m.data + WS
  PROVE  DataInFlight'
<1>1. dataCh \in Seq(DataMsg)
  BY DEF TypeOK, SenderTypeOK
<1>2. ASSUME NEW m, DataMsgOK(m)
      PROVE  DataMsgOK(m)'
  BY <1>2, DataMsgKept
<1>3. ASSUME \A q \in DOMAIN dataCh' : \E m : m = dataCh'[q] /\ DataMsgOK(m)',
             \A q, r \in DOMAIN dataCh' :
               q < r /\ dataCh'[q].seq < N /\ dataCh'[r].seq < N =>
                 dataCh'[q].data < dataCh'[r].data + WS
      PROVE  DataInFlight'
  <2>1. \A q \in DOMAIN dataCh' : DataMsgOK(dataCh[q])'
    BY <1>3 DEF DataMsgOK
  <2> QED
    BY <1>3, <2>1 DEF DataInFlight
<1>4. CASE dataCh' = dataCh
  <2>1. ASSUME NEW q \in DOMAIN dataCh' PROVE \E m : m = dataCh'[q] /\ DataMsgOK(m)'
    <3>1. PICK m : m = dataCh[q] /\ DataMsgOK(m)
      BY <1>4, <2>1 DEF DataInFlight
    <3> QED
      BY <1>2, <1>4, <3>1
  <2> QED
    BY <1>3, <1>4, <2>1 DEF DataInFlight
<1>5. CASE dataCh # <<>> /\ dataCh' = Tail(dataCh)
  <2>1. \A q \in DOMAIN dataCh' : q \in Int /\ q + 1 \in DOMAIN dataCh /\ dataCh'[q] = dataCh[q + 1]
    BY <1>1, <1>5, AfterRead
  <2>2. ASSUME NEW q \in DOMAIN dataCh' PROVE \E m : m = dataCh'[q] /\ DataMsgOK(m)'
    <3>1. PICK m : m = dataCh[q + 1] /\ DataMsgOK(m)
      BY <2>1, <2>2 DEF DataInFlight
    <3> QED
      BY <1>2, <2>1, <3>1
  <2>3. ASSUME NEW q \in DOMAIN dataCh', NEW r \in DOMAIN dataCh', q < r,
               dataCh'[q].seq < N, dataCh'[r].seq < N
        PROVE  dataCh'[q].data < dataCh'[r].data + WS
    <3>1. q + 1 < r + 1
      BY <2>1, <2>3
    <3> QED
      BY <2>1, <2>3, <3>1 DEF DataInFlight
  <2> QED
    BY <1>3, <2>2, <2>3
<1>6. CASE \E m \in DataMsg :
              /\ dataCh' \in Transmit(dataCh, m)
              /\ DataMsgOK(m)'
              /\ m.seq < N => \A q \in DOMAIN dataCh :
                                dataCh[q].seq < N => dataCh[q].data < m.data + WS
  <2>1. PICK m \in DataMsg :
              /\ dataCh' \in Transmit(dataCh, m)
              /\ DataMsgOK(m)'
              /\ m.seq < N => \A q \in DOMAIN dataCh :
                                dataCh[q].seq < N => dataCh[q].data < m.data + WS
    BY <1>6
  <2>2. /\ \A q \in DOMAIN dataCh' : (q \in DOMAIN dataCh /\ dataCh'[q] = dataCh[q]) \/ dataCh'[q] = m
        /\ \A q, r \in DOMAIN dataCh' : q < r =>
              /\ q \in DOMAIN dataCh /\ dataCh'[q] = dataCh[q]
              /\ (r \in DOMAIN dataCh /\ dataCh'[r] = dataCh[r]) \/ dataCh'[r] = m
    BY <1>1, <2>1, AfterSend
  <2>3. ASSUME NEW q \in DOMAIN dataCh' PROVE \E msg : msg = dataCh'[q] /\ DataMsgOK(msg)'
    <3>1. CASE dataCh'[q] = m
      BY <2>1, <3>1
    <3>2. CASE q \in DOMAIN dataCh /\ dataCh'[q] = dataCh[q]
      <4>1. PICK msg : msg = dataCh[q] /\ DataMsgOK(msg)
        BY <3>2 DEF DataInFlight
      <4> QED
        BY <1>2, <3>2, <4>1
    <3> QED
      BY <2>2, <3>1, <3>2
  <2>4. ASSUME NEW q \in DOMAIN dataCh', NEW r \in DOMAIN dataCh', q < r,
               dataCh'[q].seq < N, dataCh'[r].seq < N
        PROVE  dataCh'[q].data < dataCh'[r].data + WS
    BY <2>1, <2>2, <2>4 DEF DataInFlight
  <2> QED
    BY <1>3, <2>3, <2>4
<1> QED
  BY <1>4, <1>5, <1>6

\* The same for the acknowledgements, if the step acknowledges nothing new, or
\* a block not too far ahead.
LEMMA AckMsgKept ==
  ASSUME NEW sb, NEW sb2, fileOff' = fileOff, rcvJob = "done" => rcvJob' = "done",
         \A i \in 0..fileOff-1 : Stored(i) => Stored(i)',
         NEW a, AckMsgOK(sb, a),
         a.seq \in Slots => \A i \in 0..fileOff-1 :
                              Acked(sb2, i)' => Acked(sb, i) \/ i < a.blk + WS
  PROVE  AckMsgOK(sb2, a)'
<1>1. CASE a.seq = -1
  BY <1>1 DEF AckMsgOK
<1>2. CASE /\ a.seq \in Slots /\ a.blk \in 0..fileOff-1 /\ a.seq = Slot(a.blk)
           /\ Stored(a.blk)
           /\ \A i \in 0..fileOff-1 : Acked(sb, i) => i < a.blk + WS
  <2>1. \A i \in 0..fileOff'-1 : Acked(sb2, i)' => i < a.blk + WS
    BY <1>2
  <2>2. Stored(a.blk)'
    BY <1>2
  <2> QED
    BY <1>2, <2>1, <2>2 DEF AckMsgOK
<1>3. CASE a.seq >= N /\ rcvJob = "done"
  BY <1>3 DEF AckMsgOK
<1> QED
  BY <1>1, <1>2, <1>3 DEF AckMsgOK

\* Nothing, or the head of the channel, leaves the ACKs in flight.
LEMMA AcksKept ==
  ASSUME TypeOK, NEW sb, AcksInFlight(sb),
         fileOff' = fileOff, rcvJob = "done" => rcvJob' = "done",
         \A i \in 0..fileOff-1 : Stored(i) => Stored(i)',
         \A i \in 0..fileOff-1 : Acked(sb, i)' => Acked(sb, i),
         \/ ackCh' = ackCh
         \/ ackCh # <<>> /\ ackCh' = Tail(ackCh)
         \/ \E a \in AckMsg :
              /\ ackCh' \in Transmit(ackCh, a)
              /\ AckMsgOK(sb, a)'
              /\ a.seq \in Slots => \A q \in DOMAIN ackCh :
                                      ackCh[q].seq \in Slots => ackCh[q].blk < a.blk + WS
  PROVE  AcksInFlight(sb)'
<1>1. ackCh \in Seq(AckMsg)
  BY DEF TypeOK, SenderTypeOK
<1>2. ASSUME NEW a, AckMsgOK(sb, a)
      PROVE  AckMsgOK(sb, a)'
  BY <1>2, AckMsgKept
<1>3. ASSUME \A q \in DOMAIN ackCh' : \E a : a = ackCh'[q] /\ AckMsgOK(sb, a)',
             \A q, r \in DOMAIN ackCh' :
               q < r /\ ackCh'[q].seq \in Slots /\ ackCh'[r].seq \in Slots =>
                 ackCh'[q].blk < ackCh'[r].blk + WS
      PROVE  AcksInFlight(sb)'
  <2>1. \A q \in DOMAIN ackCh' : AckMsgOK(sb, ackCh[q])'
    BY <1>3 DEF AckMsgOK
  <2> QED
    BY <1>3, <2>1 DEF AcksInFlight
<1>4. CASE ackCh' = ackCh
  <2>1. ASSUME NEW q \in DOMAIN ackCh' PROVE \E a : a = ackCh'[q] /\ AckMsgOK(sb, a)'
    <3>1. PICK a : a = ackCh[q] /\ AckMsgOK(sb, a)
      BY <1>4, <2>1 DEF AcksInFlight
    <3> QED
      BY <1>2, <1>4, <3>1
  <2> QED
    BY <1>3, <1>4, <2>1 DEF AcksInFlight
<1>5. CASE ackCh # <<>> /\ ackCh' = Tail(ackCh)
  <2>1. \A q \in DOMAIN ackCh' : q \in Int /\ q + 1 \in DOMAIN ackCh /\ ackCh'[q] = ackCh[q + 1]
    BY <1>1, <1>5, AfterRead
  <2>2. ASSUME NEW q \in DOMAIN ackCh' PROVE \E a : a = ackCh'[q] /\ AckMsgOK(sb, a)'
    <3>1. PICK a : a = ackCh[q + 1] /\ AckMsgOK(sb, a)
      BY <2>1, <2>2 DEF AcksInFlight
    <3> QED
      BY <1>2, <2>1, <3>1
  <2>3. ASSUME NEW q \in DOMAIN ackCh', NEW r \in DOMAIN ackCh', q < r,
               ackCh'[q].seq \in Slots, ackCh'[r].seq \in Slots
        PROVE  ackCh'[q].blk < ackCh'[r].blk + WS
    <3>1. q + 1 < r + 1
      BY <2>1, <2>3
    <3> QED
      BY <2>1, <2>3, <3>1 DEF AcksInFlight
  <2> QED
    BY <1>3, <2>2, <2>3
<1>6. CASE \E a \in AckMsg :
              /\ ackCh' \in Transmit(ackCh, a)
              /\ AckMsgOK(sb, a)'
              /\ a.seq \in Slots => \A q \in DOMAIN ackCh :
                                      ackCh[q].seq \in Slots => ackCh[q].blk < a.blk + WS
  <2>1. PICK a \in AckMsg :
              /\ ackCh' \in Transmit(ackCh, a)
              /\ AckMsgOK(sb, a)'
              /\ a.seq \in Slots => \A q \in DOMAIN ackCh :
                                      ackCh[q].seq \in Slots => ackCh[q].blk < a.blk + WS
    BY <1>6
  <2>2. /\ \A q \in DOMAIN ackCh' : (q \in DOMAIN ackCh /\ ackCh'[q] = ackCh[q]) \/ ackCh'[q] = a
        /\ \A q, r \in DOMAIN ackCh' : q < r =>
              /\ q \in DOMAIN ackCh /\ ackCh'[q] = ackCh[q]
              /\ (r \in DOMAIN ackCh /\ ackCh'[r] = ackCh[r]) \/ ackCh'[r] = a
    BY <1>1, <2>1, AfterSend
  <2>3. ASSUME NEW q \in DOMAIN ackCh' PROVE \E msg : msg = ackCh'[q] /\ AckMsgOK(sb, msg)'
    <3>1. CASE ackCh'[q] = a
      BY <2>1, <3>1
    <3>2. CASE q \in DOMAIN ackCh /\ ackCh'[q] = ackCh[q]
      <4>1. PICK msg : msg = ackCh[q] /\ AckMsgOK(sb, msg)
        BY <3>2 DEF AcksInFlight
      <4> QED
        BY <1>2, <3>2, <4>1
    <3> QED
      BY <2>2, <3>1, <3>2
  <2>4. ASSUME NEW q \in DOMAIN ackCh', NEW r \in DOMAIN ackCh', q < r,
               ackCh'[q].seq \in Slots, ackCh'[r].seq \in Slots
        PROVE  ackCh'[q].blk < ackCh'[r].blk + WS
    BY <2>1, <2>2, <2>4 DEF AcksInFlight
  <2> QED
    BY <1>3, <2>3, <2>4
<1> QED
  BY <1>4, <1>5, <1>6

-----------------------------------------------------------------------------
\* Most steps leave the client's file and buffer alone.
LEMMA FileUnchanged ==
  ASSUME NEW sb, WindowInv(sb), fileOff' = fileOff,
         UNCHANGED <<rcv_base, rcv_buf, written>>
  PROVE  RcvWindow' /\ \A i : Stored(i)' <=> Stored(i)
<1>1. RcvWindow'
  BY DEF WindowInv, RcvWindow
<1> QED
  BY <1>1 DEF Stored

\* A step of the client that writes nothing: what is left to show is what it
\* does to the channels, to its last ACK and to the end of the transfer.
LEMMA ClientStep ==
  ASSUME NEW sb, WindowInv(sb), UNCHANGED sndVars, UNCHANGED <<rcv_base, rcv_buf, written>>
  PROVE  /\ SendWindow(sb)' /\ Timers(sb)' /\ RcvWindow' /\ AckedAreStored(sb)'
         /\ fileOff' = fileOff /\ ackJob' = ackJob
         /\ \A i : (Acked(sb, i)' <=> Acked(sb, i)) /\ (Stored(i)' <=> Stored(i))
<1>1. fileOff' = fileOff /\ snd_buf' = snd_buf /\ written' = written
  BY DEF sndVars
<1>2. \A i : Stored(i)' <=> Stored(i)
  BY <1>1, FileUnchanged
<1>3. AckedAreStored(sb)'
  BY <1>1, <1>2 DEF WindowInv, AckedAreStored
<1> QED
  BY <1>1, <1>2, <1>3, SenderUnchanged, FileUnchanged DEF WindowInv

\* The last ACK of the client outlives every step that stores no less.
LEMMA LastAckKept ==
  ASSUME LastAckOK, ack_to_resend' = ack_to_resend, fileOff' = fileOff,
         \A i : Stored(i)' <=> Stored(i), rcvJob = "done" => rcvJob' = "done"
  PROVE  LastAckOK'
BY DEF LastAckOK

\* The client throws away the datagram that answers `get`.
LEMMA ReadReplyStep ==
  ASSUME TypeOK, NEW sb \in 0..FileLen, WindowInv(sb), ReadReply
  PROVE  WindowInv(sb)'
<1>1. /\ dataCh # <<>> /\ dataCh' = Tail(dataCh) /\ ackCh' = ackCh /\ rcvJob = "reply"
      /\ rcvJob' = "recv" /\ ack_to_resend' = ack_to_resend
      /\ UNCHANGED sndVars /\ UNCHANGED <<rcv_base, rcv_buf, written>>
  BY DEF ReadReply
<1>2. /\ SendWindow(sb)' /\ Timers(sb)' /\ RcvWindow' /\ AckedAreStored(sb)'
      /\ fileOff' = fileOff /\ ackJob' = ackJob
      /\ \A i : (Acked(sb, i)' <=> Acked(sb, i)) /\ (Stored(i)' <=> Stored(i))
  BY <1>1, ClientStep
<1>3. DataInFlight'
  BY <1>1, <1>2, DataKept DEF WindowInv
<1>4. AcksInFlight(sb)'
  BY <1>1, <1>2, AcksKept DEF WindowInv
<1>5. LastAckOK' /\ Ending'
  BY <1>1, <1>2, LastAckKept DEF WindowInv, Ending
<1> QED
  BY <1>2, <1>3, <1>4, <1>5 DEF WindowInv

\* The client gives up or is interrupted.
LEMMA LeaveStep ==
  ASSUME TypeOK, NEW sb \in 0..FileLen, WindowInv(sb), GiveUp \/ Interrupted
  PROVE  WindowInv(sb)'
<1>1. /\ dataCh' = dataCh /\ ackCh' = ackCh /\ rcvJob # "done" /\ rcvJob' # "done"
      /\ ack_to_resend' = ack_to_resend
      /\ UNCHANGED sndVars /\ UNCHANGED <<rcv_base, rcv_buf, written>>
  BY DEF GiveUp, Interrupted
<1>2. /\ SendWindow(sb)' /\ Timers(sb)' /\ RcvWindow' /\ AckedAreStored(sb)'
      /\ fileOff' = fileOff /\ ackJob' = ackJob
      /\ \A i : (Acked(sb, i)' <=> Acked(sb, i)) /\ (Stored(i)' <=> Stored(i))
  BY <1>1, ClientStep
<1>3. DataInFlight'
  BY <1>1, <1>2, DataKept DEF WindowInv
<1>4. AcksInFlight(sb)'
  BY <1>1, <1>2, AcksKept DEF WindowInv
<1>5. LastAckOK' /\ Ending'
  BY <1>1, <1>2, LastAckKept DEF WindowInv, Ending
<1> QED
  BY <1>2, <1>3, <1>4, <1>5 DEF WindowInv

\* The probe repeats the last ACK, which no later datagram overtook by WS.
LEMMA RcvTimeoutStep ==
  ASSUME TypeOK, NEW sb \in 0..FileLen, WindowInv(sb), RcvTimeout
  PROVE  WindowInv(sb)'
<1>1. /\ dataCh' = dataCh /\ ackCh' \in Transmit(ackCh, ack_to_resend)
      /\ rcvJob' = rcvJob /\ ack_to_resend' = ack_to_resend
      /\ UNCHANGED sndVars /\ UNCHANGED <<rcv_base, rcv_buf, written>>
  BY DEF RcvTimeout
<1>2. /\ SendWindow(sb)' /\ Timers(sb)' /\ RcvWindow' /\ AckedAreStored(sb)'
      /\ fileOff' = fileOff /\ ackJob' = ackJob
      /\ \A i : (Acked(sb, i)' <=> Acked(sb, i)) /\ (Stored(i)' <=> Stored(i))
  BY <1>1, ClientStep
<1>3. DataInFlight'
  BY <1>1, <1>2, DataKept DEF WindowInv
<1>4. AcksInFlight(sb)'
  <2>1. PICK a : a = ack_to_resend
    OBVIOUS
  <2>2. a \in AckMsg
    BY <2>1 DEF TypeOK, ReceiverTypeOK
  <2>3. CASE a.seq = -1
    <3>1. AckMsgOK(sb, a)' /\ a.seq \notin Slots
      BY <2>3 DEF AckMsgOK, Slots
    <3> QED
      BY <1>1, <1>2, <2>1, <2>2, <3>1, AcksKept DEF WindowInv
  <2>4. CASE a.seq >= N /\ rcvJob = "done"
    <3>1. AckMsgOK(sb, a)' /\ a.seq \notin Slots
      BY <1>1, <2>2, <2>4, Sizes DEF AckMsgOK, Slots, AckMsg
    <3> QED
      BY <1>1, <1>2, <2>1, <2>2, <3>1, AcksKept DEF WindowInv
  <2>5. CASE /\ a.seq \in Slots /\ a.blk \in 0..fileOff-1 /\ a.seq = Slot(a.blk)
             /\ Stored(a.blk)
             /\ \A i \in 0..fileOff-1 : Stored(i) => i < a.blk + WS
    <3>1. \A i \in 0..fileOff-1 : Acked(sb, i) => Stored(i)
      BY InvNumbers DEF WindowInv, AckedAreStored, Acked, Stored
    <3>2. AckMsgOK(sb, a)
      BY <2>5, <3>1 DEF AckMsgOK
    <3>3. AckMsgOK(sb, a)'
      BY <1>1, <1>2, <3>2, AckMsgKept
    <3>4. ASSUME NEW q \in DOMAIN ackCh, ackCh[q].seq \in Slots
          PROVE  ackCh[q].blk < a.blk + WS
      <4>1. AckMsgOK(sb, ackCh[q])
        BY DEF WindowInv, AcksInFlight
      <4>2. ackCh[q].blk \in 0..fileOff-1 /\ Stored(ackCh[q].blk)
        BY <3>4, <4>1, Sizes DEF AckMsgOK, Slots
      <4> QED
        BY <2>5, <4>2
    <3> QED
      BY <1>1, <1>2, <2>1, <2>2, <3>3, <3>4, AcksKept DEF WindowInv
  <2> QED
    BY <2>1, <2>3, <2>4, <2>5 DEF WindowInv, LastAckOK
<1>5. LastAckOK' /\ Ending'
  BY <1>1, <1>2, LastAckKept DEF WindowInv, Ending
<1> QED
  BY <1>2, <1>3, <1>4, <1>5 DEF WindowInv

\* What the client knows of a data packet it may read: a block of the file,
\* told by the window test from the blocks it has written.
LEMMA PacketRead ==
  ASSUME TypeOK, NEW sb \in 0..FileLen, WindowInv(sb),
         NEW m \in DataMsg, DataMsgOK(m), m.seq < N
  PROVE  /\ m.data \in 0..fileOff-1 /\ m.seq = Slot(m.data) /\ m.seq \in Slots
         /\ \A i \in 0..fileOff-1 : Stored(i) => i < m.data + WS
         /\ m.data < Len(written) + WR
         /\ InRcvWindow(m.seq, rcv_base) <=> m.data >= Len(written)
<1>1. m.seq \in Nat /\ m.data \in Nat
  BY Sizes DEF DataMsg, Blocks
<1>2. m # addSeqNum(FinalPacket)
  <2>1. addSeqNum(FinalPacket).seq = Slot(FileLen) + N
    BY DEF addSeqNum, FinalPacket
  <2>2. Slot(FileLen) \in Slots
    BY Sizes, SlotType
  <2> QED
    BY <2>1, <2>2, Sizes DEF Slots
<1>3. /\ m.seq = Slot(m.data) /\ m.data < fileOff
      /\ \A i \in 0..fileOff-1 : Stored(i) => i < m.data + WS
  BY <1>2 DEF DataMsgOK
<1>4. /\ Len(written) \in Nat /\ sb \in Nat /\ fileOff \in Nat
      /\ fileOff <= sb + WS /\ sb <= Len(written) /\ Len(written) <= fileOff
  BY InvNumbers
<1>5. m.data < Len(written) + WR
  BY <1>1, <1>3, <1>4, Sizes
<1>6. Len(written) <= m.data + (N - WR)
  <2>1. CASE Len(written) = 0
    BY <2>1, <1>1, Sizes
  <2>2. CASE Len(written) > 0
    <3>1. Len(written) - 1 \in 0..fileOff-1 /\ Stored(Len(written) - 1)
      BY <2>2, <1>4 DEF Stored
    <3>2. Len(written) - 1 < m.data + WS
      BY <3>1, <1>3
    <3> QED
      BY <3>2, <1>1, <1>4, Sizes
  <2> QED
    BY <2>1, <2>2, <1>4
<1>7. rcv_base = Slot(Len(written))
  BY DEF WindowInv, RcvWindow
<1>8. InRcvWindow(Slot(m.data), Slot(Len(written))) <=> m.data >= Len(written)
  BY <1>1, <1>4, <1>5, <1>6, RcvWindowTest
<1>9. m.seq \in Slots
  BY <1>1, <1>3, SlotType
<1> QED
  BY <1>1, <1>3, <1>4, <1>5, <1>7, <1>8, <1>9

\* What the client reads is a datagram of the invariant.
LEMMA DataHead ==
  ASSUME TypeOK, NEW sb, WindowInv(sb), dataCh # <<>>, NEW m, m = Head(dataCh)
  PROVE  /\ m \in DataMsg /\ DataMsgOK(m)
         /\ \A q \in DOMAIN Tail(dataCh) :
              m.seq < N /\ Tail(dataCh)[q].seq < N => m.data < Tail(dataCh)[q].data + WS
<1>1. dataCh \in Seq(DataMsg)
  BY DEF TypeOK, SenderTypeOK
<1>2. /\ 1 \in DOMAIN dataCh /\ m = dataCh[1] /\ m \in DataMsg
      /\ \A q \in DOMAIN Tail(dataCh) : 1 < q + 1 /\ q + 1 \in DOMAIN dataCh
                                        /\ Tail(dataCh)[q] = dataCh[q + 1]
  BY <1>1, AfterRead
<1>3. DataMsgOK(m)
  BY <1>2 DEF WindowInv, DataInFlight
<1> QED
  BY <1>2, <1>3 DEF WindowInv, DataInFlight

\* A place of the client's buffer holds no other block of its window than the
\* one whose slot it is.
LEMMA RcvSlot ==
  ASSUME TypeOK, NEW sb \in 0..FileLen, WindowInv(sb), NEW d \in Nat,
         Len(written) <= d, d < Len(written) + N, rcv_buf[Slot(d)] # NULL
  PROVE  rcv_buf[Slot(d)] = d /\ d > Len(written) /\ d < fileOff /\ d < Len(written) + WR
<1>1. Slot(d) \in Slots /\ Len(written) \in Nat
  BY SlotType, InvNumbers
<1>2. PICK v : v = rcv_buf[Slot(d)]
  OBVIOUS
<1>3. v \in Len(written)+1 .. Len(written)+WR-1 /\ v < fileOff /\ Slot(d) = Slot(v)
  BY <1>1, <1>2 DEF WindowInv, RcvWindow
<1>4. v \in Nat /\ v < d + N /\ d < v + N
  BY <1>1, <1>3, Sizes
<1>5. v = d
  BY <1>3, <1>4, SlotInjective
<1> QED
  BY <1>1, <1>2, <1>3, <1>5, Sizes

\* The answer to a packet: an ACK for a block that is now stored, and that no
\* stored block was ahead of by WS.
LEMMA AckSent ==
  ASSUME TypeOK, NEW sb \in 0..FileLen, WindowInv(sb),
         fileOff' = fileOff, rcvJob = "done" => rcvJob' = "done",
         \A i \in 0..fileOff-1 : Stored(i) => Stored(i)',
         \A i \in 0..fileOff-1 : Acked(sb, i)' => Acked(sb, i),
         NEW a \in AckMsg, a.seq \in Slots, a.blk \in 0..fileOff-1, a.seq = Slot(a.blk),
         Stored(a.blk)', \A i \in 0..fileOff-1 : Stored(i) => i < a.blk + WS,
         ackCh' \in Transmit(ackCh, a)
  PROVE  AcksInFlight(sb)'
<1>1. \A i \in 0..fileOff-1 : Acked(sb, i) => Stored(i)
  BY InvNumbers DEF WindowInv, AckedAreStored, Acked, Stored
<1>2. \A i \in 0..fileOff'-1 : Acked(sb, i)' => i < a.blk + WS
  BY <1>1
<1>3. AckMsgOK(sb, a)'
  BY <1>2 DEF AckMsgOK
<1>4. ASSUME NEW q \in DOMAIN ackCh, ackCh[q].seq \in Slots
      PROVE  ackCh[q].blk < a.blk + WS
  <2>1. AckMsgOK(sb, ackCh[q])
    BY DEF WindowInv, AcksInFlight
  <2>2. ackCh[q].blk \in 0..fileOff-1 /\ Stored(ackCh[q].blk)
    BY <1>4, <2>1, Sizes DEF AckMsgOK, Slots
  <2> QED
    BY <2>2
<1> QED
  BY <1>3, <1>4, AcksKept DEF WindowInv

\* A packet the client has is acknowledged again.
LEMMA ReceiveOldStep ==
  ASSUME TypeOK, NEW sb \in 0..FileLen, WindowInv(sb), ReceiveOld
  PROVE  WindowInv(sb)'
<1>1. PICK m : m = Head(dataCh)
  OBVIOUS
<1>2. PICK a : a = Ack(m)
  OBVIOUS
<1>3. /\ dataCh # <<>> /\ dataCh' = Tail(dataCh) /\ m.seq < N
      /\ InRcvWindow(m.seq, rcv_base) => rcv_buf[m.seq] # NULL
      /\ ack_to_resend' = a /\ ackCh' \in Transmit(ackCh, a)
      /\ rcvJob' = rcvJob
      /\ UNCHANGED sndVars /\ UNCHANGED <<rcv_base, rcv_buf, written>>
  BY <1>1, <1>2 DEF ReceiveOld
<1>4. /\ SendWindow(sb)' /\ Timers(sb)' /\ RcvWindow' /\ AckedAreStored(sb)'
      /\ fileOff' = fileOff /\ ackJob' = ackJob
      /\ \A i : (Acked(sb, i)' <=> Acked(sb, i)) /\ (Stored(i)' <=> Stored(i))
  BY <1>3, ClientStep
<1>5. m \in DataMsg /\ DataMsgOK(m)
  BY <1>1, <1>3, DataHead
<1>6. /\ m.data \in 0..fileOff-1 /\ m.seq = Slot(m.data) /\ m.seq \in Slots
      /\ \A i \in 0..fileOff-1 : Stored(i) => i < m.data + WS
      /\ m.data < Len(written) + WR
      /\ InRcvWindow(m.seq, rcv_base) <=> m.data >= Len(written)
  BY <1>3, <1>5, PacketRead
<1>7. Stored(m.data)
  <2>1. CASE m.data < Len(written)
    BY <2>1 DEF Stored
  <2>2. CASE m.data >= Len(written)
    <3>1. /\ rcv_buf[Slot(m.data)] # NULL /\ m.data \in Nat
          /\ Len(written) <= m.data /\ m.data < Len(written) + N
      BY <2>2, <1>3, <1>6, InvNumbers, Sizes
    <3> QED
      BY <3>1, RcvSlot DEF Stored
  <2> QED
    BY <2>1, <2>2, <1>6, InvNumbers
<1>8. a \in AckMsg /\ a.seq = m.seq /\ a.blk = m.data
  BY <1>2, <1>5, AckType DEF Ack
<1>9. AcksInFlight(sb)'
  <2>1. Stored(a.blk)'
    BY <1>4, <1>7, <1>8
  <2> QED
    BY <2>1, <1>3, <1>4, <1>6, <1>8, AckSent
<1>10. DataInFlight'
  BY <1>3, <1>4, DataKept DEF WindowInv
<1>11. LastAckOK'
  <2>1. \A i \in 0..fileOff'-1 : Stored(i)' => i < m.data + WS
    BY <1>4, <1>6
  <2>2. Stored(m.data)'
    BY <1>4, <1>7
  <2> QED
    BY <2>1, <2>2, <1>3, <1>4, <1>6, <1>8 DEF LastAckOK
<1>12. Ending'
  BY <1>3, <1>4 DEF WindowInv, Ending
<1> QED
  BY <1>4, <1>9, <1>10, <1>11, <1>12 DEF WindowInv

\* The final packet ends the client.
LEMMA ReceiveFinalStep ==
  ASSUME TypeOK, NEW sb \in 0..FileLen, WindowInv(sb), ReceiveFinal
  PROVE  WindowInv(sb)'
<1>1. PICK m : m = Head(dataCh)
  OBVIOUS
<1>2. PICK a : a = Ack(m)
  OBVIOUS
<1>3. /\ dataCh # <<>> /\ dataCh' = Tail(dataCh) /\ m.seq >= N
      /\ ack_to_resend' = a /\ ackCh' \in Transmit(ackCh, a) /\ rcvJob' = "done"
      /\ UNCHANGED sndVars /\ UNCHANGED <<rcv_base, rcv_buf, written>>
  BY <1>1, <1>2 DEF ReceiveFinal
<1>4. /\ SendWindow(sb)' /\ Timers(sb)' /\ RcvWindow' /\ AckedAreStored(sb)'
      /\ fileOff' = fileOff /\ ackJob' = ackJob
      /\ \A i : (Acked(sb, i)' <=> Acked(sb, i)) /\ (Stored(i)' <=> Stored(i))
  BY <1>3, ClientStep
<1>5. m \in DataMsg /\ DataMsgOK(m)
  BY <1>1, <1>3, DataHead
<1>6. ackJob # "acks"
  BY <1>3, <1>5, Sizes DEF DataMsgOK, DataMsg
<1>7. a \in AckMsg /\ a.seq >= N /\ a.seq \notin Slots
  BY <1>2, <1>3, <1>5, AckType, Sizes DEF Ack, DataMsg, Slots
<1>8. AcksInFlight(sb)'
  <2>1. AckMsgOK(sb, a)'
    BY <1>3, <1>7 DEF AckMsgOK
  <2> QED
    BY <2>1, <1>3, <1>4, <1>7, AcksKept DEF WindowInv
<1>9. DataInFlight'
  BY <1>3, <1>4, DataKept DEF WindowInv
<1>10. LastAckOK'
  BY <1>3, <1>7 DEF LastAckOK
<1>11. Ending'
  BY <1>3, <1>4, <1>6 DEF Ending
<1> QED
  BY <1>4, <1>8, <1>9, <1>10, <1>11 DEF WindowInv

\* Storing a packet ahead of rcv_base adds its block to those stored.
LEMMA StoreAhead ==
  ASSUME TypeOK, NEW sb \in 0..FileLen, WindowInv(sb), fileOff' = fileOff,
         NEW d \in 0..fileOff-1, Len(written) < d, d < Len(written) + WR,
         rcv_buf[Slot(d)] = NULL,
         rcv_buf' = [rcv_buf EXCEPT ![Slot(d)] = d],
         rcv_base' = rcv_base, written' = written
  PROVE  RcvWindow' /\ \A i \in 0..fileOff-1 : Stored(i)' <=> Stored(i) \/ i = d
<1>1. Slot(d) \in Slots /\ Len(written) \in Nat /\ d \in Nat /\ fileOff \in Nat
  BY SlotType, InvNumbers
<1>2. rcv_buf'[Slot(d)] = d /\ \A p \in Slots : p # Slot(d) => rcv_buf'[p] = rcv_buf[p]
  BY <1>1 DEF TypeOK, ReceiverTypeOK
<1>3. RcvWindow
  BY DEF WindowInv
<1>4. ASSUME NEW p \in Slots, rcv_buf'[p] # NULL
      PROVE  rcv_buf'[p] \in Len(written)+1 .. Len(written)+WR-1
             /\ rcv_buf'[p] < fileOff /\ p = Slot(rcv_buf'[p])
  <2>1. CASE p = Slot(d)
    BY <2>1, <1>1, <1>2, Sizes
  <2>2. CASE p # Slot(d)
    BY <2>2, <1>2, <1>3, <1>4 DEF RcvWindow
  <2> QED
    BY <2>1, <2>2
<1>5. RcvWindow'
  BY <1>3, <1>4 DEF RcvWindow
<1>6. ASSUME NEW i \in 0..fileOff-1
      PROVE  (i < Len(written) \/ rcv_buf'[Slot(i)] = i) <=>
               (i < Len(written) \/ rcv_buf[Slot(i)] = i) \/ i = d
  <2>1. Slot(i) \in Slots /\ i # NULL
    BY <1>1, SlotType, Sizes DEF TypeOK, SenderTypeOK, Blocks
  <2>2. CASE Slot(i) = Slot(d)
    BY <2>1, <2>2, <1>2
  <2>3. CASE Slot(i) # Slot(d)
    BY <2>1, <2>3, <1>2
  <2> QED
    BY <2>2, <2>3
<1> QED
  BY <1>5, <1>6 DEF Stored

\* Storing the packet rcv_base waits for writes the run of blocks it heads,
\* and frees their places only.
LEMMA StoreNext ==
  ASSUME TypeOK, NEW sb \in 0..FileLen, WindowInv(sb), fileOff' = fileOff,
         NEW d \in 0..fileOff-1, d = Len(written),
         NEW buf, buf = [rcv_buf EXCEPT ![Slot(d)] = d],
         rcv_buf[Slot(d)] = NULL,
         WriteStored(buf)
  PROVE  /\ RcvWindow' /\ \A i \in 0..fileOff-1 : Stored(i)' <=> Stored(i) \/ i = d
         /\ Len(written) <= Len(written')
<1>0. PICK k \in 1..N :
         /\ StoredRun(buf, rcv_base, k)
         /\ rcv_buf' = WriteRun(buf, rcv_base, k)
         /\ rcv_base' = (rcv_base + k) % N
         /\ written' = written \o [j \in 1..k |-> buf[(rcv_base + j - 1) % N]]
  BY DEF WriteStored
<1>1. /\ Slot(d) \in Slots /\ d \in Nat /\ fileOff \in Nat /\ k \in Nat /\ k <= N /\ k > 0
      /\ N \in Nat /\ WR \in Nat /\ d < fileOff /\ WR < N
      /\ fileOff <= FileLen /\ FileLen \in Nat
      /\ \A i \in 0..fileOff : i # NULL
  BY SlotType, InvNumbers, Sizes DEF Blocks
<1>2. /\ buf[Slot(d)] = d /\ \A p \in Slots : p # Slot(d) => buf[p] = rcv_buf[p]
      /\ \A p \in Slots : p \in DOMAIN buf
  BY <1>1 DEF TypeOK, ReceiverTypeOK
<1>3. rcv_base = Slot(d) /\ \A j \in 0..N : (rcv_base + j) % N = Slot(d + j)
  BY <1>1, SlotMove DEF WindowInv, RcvWindow
<1>4. /\ \A j \in 0..k-1 : buf[Slot(d + j)] # NULL
      /\ buf[Slot(d + k)] = NULL
  <2>1. /\ \A j \in 0..k-1 : buf[(rcv_base + j) % N] # NULL
        /\ buf[(rcv_base + k) % N] = NULL
    BY <1>0 DEF StoredRun
  <2>2. k \in 0..N /\ \A j \in 0..k-1 : j \in 0..N
    BY <1>1
  <2>3. (rcv_base + k) % N = Slot(d + k)
    BY <1>3, <2>2
  <2>4. \A j \in 0..k-1 : (rcv_base + j) % N = Slot(d + j)
    BY <1>3, <2>2
  <2> QED
    BY <2>1, <2>3, <2>4
<1>5. ASSUME NEW j \in 0..k-1
      PROVE  /\ buf[Slot(d + j)] = d + j /\ d + j < fileOff
             /\ j # 0 => rcv_buf[Slot(d + j)] = d + j
  <2>1. CASE j = 0
    <3>1. d + j = d
      BY <2>1, <1>1
    <3> QED
      BY <2>1, <3>1, <1>1, <1>2
  <2>2. CASE j # 0
    <3>1. j \in 1..N-1 /\ d + j \in Nat /\ d <= d + j /\ d + j < d + N /\ d + j # d
      BY <2>2, <1>1
    <3>2. Slot(d + j) \in Slots /\ Slot(d + j) # Slot(d)
      BY <3>1, <1>1, SlotType, SlotInjective
    <3>3. rcv_buf[Slot(d + j)] # NULL
      BY <3>2, <1>2, <1>4
    <3>4. rcv_buf[Slot(d + j)] = d + j /\ d + j < fileOff
      BY <3>1, <3>3, RcvSlot
    <3> QED
      BY <3>2, <3>4, <1>2
  <2> QED
    BY <2>1, <2>2
<1>6. d + k <= fileOff
  <2>1. k - 1 \in 0..k-1
    BY <1>1
  <2>2. d + (k - 1) < fileOff
    BY <2>1, <1>5
  <2> QED
    BY <2>2, <1>1
<1>7. /\ written' \in Seq(Blocks) /\ Len(written') = d + k
      /\ \A i \in 1..d+k : written'[i] = i - 1
  <2> DEFINE run == [j \in 1..k |-> buf[(rcv_base + j - 1) % N]]
  <2>1. ASSUME NEW j \in 1..k
        PROVE  run[j] = d + j - 1
    <3>1. j - 1 \in 0..k-1 /\ j - 1 \in 0..N /\ (rcv_base + j - 1) = (rcv_base + (j - 1))
      BY <1>1, <1>3 DEF Slots
    <3>2. run[j] = buf[Slot(d + (j - 1))]
      BY <3>1, <1>3
    <3>3. run[j] = d + (j - 1)
      BY <3>1, <3>2, <1>5
    <3> QED
      BY <3>3, <1>1
  <2>2. \A j \in 1..k : run[j] \in Blocks
    BY <2>1, <1>1, <1>6 DEF Blocks
  <2>3. run \in Seq(Blocks) /\ Len(run) = k
    BY <2>2, <1>1
  <2> HIDE DEF run
  <2>4. written \in Seq(Blocks) /\ \A i \in 1..d : written[i] = i - 1
    <3>1. written \in Seq(Blocks)
      BY DEF TypeOK, ReceiverTypeOK
    <3>2. DOMAIN written = 1..d
      BY <3>1
    <3> QED
      BY <3>1, <3>2 DEF WindowInv, RcvWindow
  <2>5. /\ written' \in Seq(Blocks) /\ Len(written') = d + k
        /\ \A i \in 1..d : written'[i] = written[i]
        /\ \A j \in 1..k : written'[d + j] = run[j]
    BY <1>0, <2>3, <2>4 DEF run
  <2>6. ASSUME NEW i \in 1..d+k
        PROVE  written'[i] = i - 1
    <3>1. CASE i <= d
      BY <3>1, <2>4, <2>5, <1>1
    <3>2. CASE i > d
      <4>1. i - d \in 1..k /\ d + (i - d) = i
        BY <3>2, <1>1
      <4>2. written'[i] = run[i - d] /\ run[i - d] = d + (i - d) - 1
        BY <4>1, <2>1, <2>5
      <4> QED
        BY <4>2, <1>1
    <3> QED
      BY <3>1, <3>2, <1>1
  <2> QED
    BY <2>5, <2>6
<1>8. /\ \A j \in 0..k-1 : rcv_buf'[Slot(d + j)] = NULL
      /\ \A p \in Slots : (\A j \in 0..k-1 : p # Slot(d + j)) => rcv_buf'[p] = buf[p]
  <2>1. rcv_buf' = [p \in Slots |-> IF \E j \in 0..k-1 : p = (rcv_base + j) % N THEN NULL ELSE buf[p]]
    BY <1>0 DEF WriteRun
  <2>2. \A j \in 0..k-1 : (rcv_base + j) % N = Slot(d + j) /\ Slot(d + j) \in Slots
    BY <1>1, <1>3, SlotType
  <2>3. \A p \in Slots : rcv_buf'[p] = IF \E j \in 0..k-1 : p = (rcv_base + j) % N
                                       THEN NULL ELSE buf[p]
    BY <2>1
  <2>4. ASSUME NEW j \in 0..k-1
        PROVE  rcv_buf'[Slot(d + j)] = NULL
    <3>1. Slot(d + j) \in Slots /\ \E l \in 0..k-1 : Slot(d + j) = (rcv_base + l) % N
      BY <2>2
    <3> QED
      BY <3>1, <2>3
  <2>5. ASSUME NEW p \in Slots, \A j \in 0..k-1 : p # Slot(d + j)
        PROVE  rcv_buf'[p] = buf[p]
    <3>1. ~ \E l \in 0..k-1 : p = (rcv_base + l) % N
      BY <2>2, <2>5
    <3> QED
      BY <3>1, <2>3
  <2> QED
    BY <2>4, <2>5
<1>9. ASSUME NEW p \in Slots, rcv_buf'[p] # NULL
      PROVE  /\ rcv_buf'[p] = rcv_buf[p] /\ p = Slot(rcv_buf[p])
             /\ rcv_buf[p] \in d+k+1 .. d+k+WR-1 /\ rcv_buf[p] < fileOff
  <2>1. (\A j \in 0..k-1 : p # Slot(d + j)) /\ rcv_buf'[p] = buf[p]
    BY <1>8, <1>9
  <2>2. p # Slot(d)
    <3>1. 0 \in 0..k-1 /\ d + 0 = d
      BY <1>1
    <3> QED
      BY <2>1, <3>1
  <2>3. rcv_buf'[p] = rcv_buf[p]
    BY <1>2, <2>1, <2>2
  <2>4. PICK v : v = rcv_buf[p]
    OBVIOUS
  <2>5. v \in d+1 .. d+WR-1 /\ v < fileOff /\ p = Slot(v)
    BY <1>9, <2>3, <2>4 DEF WindowInv, RcvWindow
  <2>6. ~(v < d + k)
    <3>1. SUFFICES ASSUME v < d + k PROVE FALSE
      OBVIOUS
    <3>2. v - d \in 0..k-1 /\ d + (v - d) = v
      BY <3>1, <2>5, <1>1
    <3> QED
      BY <3>2, <2>1, <2>5
  <2>7. v # d + k
    BY <1>4, <1>9, <2>1, <2>5
  <2>8. v \in d+k+1 .. d+k+WR-1
    BY <2>5, <2>6, <2>7, <1>1
  <2> QED
    BY <2>3, <2>4, <2>5, <2>8
<1>10. RcvWindow'
  <2>1. rcv_base' = Slot(d + k)
    <3>1. k \in 0..N
      BY <1>1
    <3> QED
      BY <1>0, <1>3, <3>1
  <2>2. DOMAIN written' = 1..d+k
    BY <1>7
  <2>3. \A p \in Slots : rcv_buf'[p] # NULL =>
          /\ rcv_buf'[p] \in Len(written')+1 .. Len(written')+WR-1
          /\ rcv_buf'[p] < fileOff'
          /\ p = Slot(rcv_buf'[p])
    BY <1>7, <1>9
  <2> QED
    BY <1>6, <1>7, <2>1, <2>2, <2>3 DEF RcvWindow
<1>11. ASSUME NEW i \in 0..fileOff-1
       PROVE  (i < d + k \/ rcv_buf'[Slot(i)] = i) <=> (i < d \/ rcv_buf[Slot(i)] = i) \/ i = d
  <2>1. Slot(i) \in Slots /\ i # NULL /\ i \in Nat
    BY <1>1, SlotType
  <2>2. CASE i < d
    BY <2>2, <1>1
  <2>3. CASE i = d
    BY <2>3, <1>1
  <2>4. CASE i > d /\ i < d + k
    <3>1. i - d \in 0..k-1 /\ d + (i - d) = i /\ i - d # 0
      BY <2>4, <2>1, <1>1
    <3> QED
      BY <3>1, <2>4, <1>5
  <2>5. CASE i >= d + k
    <3>1. rcv_buf'[Slot(i)] = i => rcv_buf[Slot(i)] = i
      BY <2>1, <1>9
    <3>2. ASSUME rcv_buf[Slot(i)] = i
          PROVE  rcv_buf'[Slot(i)] = i
      <4>1. i < d + WR
        <5>1. rcv_buf[Slot(i)] # NULL /\ Slot(i) \in Slots
          BY <2>1, <3>2
        <5>2. rcv_buf[Slot(i)] \in d+1 .. d+WR-1
          BY <5>1 DEF WindowInv, RcvWindow
        <5> QED
          BY <5>2, <3>2, <1>1
      <4>2. ASSUME NEW j \in 0..k-1 PROVE Slot(i) # Slot(d + j)
        <5>1. i # d + j /\ i < (d + j) + N /\ d + j < i + N /\ d + j \in Nat
          BY <4>1, <2>1, <2>5, <1>1
        <5> QED
          BY <5>1, <2>1, SlotInjective
      <4>3. Slot(i) # Slot(d)
        <5>1. 0 \in 0..k-1 /\ d + 0 = d
          BY <1>1
        <5> QED
          BY <4>2, <5>1
      <4> QED
        BY <2>1, <3>2, <4>2, <4>3, <1>2, <1>8
    <3> QED
      BY <3>1, <3>2, <2>5, <1>1
  <2> QED
    BY <2>1, <2>2, <2>3, <2>4, <2>5, <1>1
<1>12. \A i \in 0..fileOff-1 : Stored(i)' <=> Stored(i) \/ i = d
  BY <1>7, <1>11 DEF Stored
<1> QED
  BY <1>1, <1>7, <1>10, <1>12

\* A new packet is stored, and the run it heads written.
LEMMA ReceiveNewStep ==
  ASSUME TypeOK, NEW sb \in 0..FileLen, WindowInv(sb), ReceiveNew
  PROVE  WindowInv(sb)'
<1>1. PICK m : m = Head(dataCh)
  OBVIOUS
<1>2. PICK a : a = Ack(m)
  OBVIOUS
<1>3. PICK d : d = m.data
  OBVIOUS
<1>4. /\ dataCh # <<>> /\ dataCh' = Tail(dataCh) /\ m.seq < N
      /\ InRcvWindow(m.seq, rcv_base) /\ rcv_buf[m.seq] = NULL
      /\ ack_to_resend' = a /\ ackCh' \in Transmit(ackCh, a)
      /\ rcvJob' = rcvJob
      /\ UNCHANGED sndVars
  BY <1>1, <1>2 DEF ReceiveNew
<1>5. /\ SendWindow(sb)' /\ Timers(sb)' /\ fileOff' = fileOff /\ ackJob' = ackJob
      /\ snd_buf' = snd_buf
      /\ \A i : Acked(sb, i)' <=> Acked(sb, i)
  BY <1>4, SenderUnchanged DEF WindowInv, sndVars
<1>6. /\ m \in DataMsg /\ DataMsgOK(m)
      /\ \A q \in DOMAIN Tail(dataCh) :
              m.seq < N /\ Tail(dataCh)[q].seq < N => m.data < Tail(dataCh)[q].data + WS
  BY <1>1, <1>4, DataHead
<1>7. /\ d \in 0..fileOff-1 /\ m.seq = Slot(d) /\ m.seq \in Slots
      /\ \A i \in 0..fileOff-1 : Stored(i) => i < d + WS
      /\ Len(written) <= d /\ d < Len(written) + WR
  BY <1>3, <1>4, <1>6, PacketRead
<1>8. a \in AckMsg /\ a.seq = Slot(d) /\ a.blk = d
  BY <1>2, <1>3, <1>6, <1>7, AckType DEF Ack
<1>9. /\ sb \in Nat /\ fileOff \in Nat /\ Len(written) \in Nat /\ d \in Nat
      /\ sb <= Len(written) /\ Len(written) <= fileOff
  BY <1>7, InvNumbers
<1>10. /\ RcvWindow' /\ \A i \in 0..fileOff-1 : Stored(i)' <=> Stored(i) \/ i = d
       /\ Len(written) <= Len(written')
  <2>1. CASE /\ m.seq # rcv_base
             /\ rcv_buf' = [rcv_buf EXCEPT ![m.seq] = m.data]
             /\ UNCHANGED <<rcv_base, written>>
    <3>1. d # Len(written)
      BY <2>1, <1>7 DEF WindowInv, RcvWindow
    <3>2. Len(written) < d
      BY <3>1, <1>7, <1>9
    <3>3. /\ rcv_buf' = [rcv_buf EXCEPT ![Slot(d)] = d] /\ rcv_buf[Slot(d)] = NULL
          /\ rcv_base' = rcv_base /\ written' = written
      BY <2>1, <1>3, <1>4, <1>7
    <3>4. RcvWindow' /\ \A i \in 0..fileOff-1 : Stored(i)' <=> Stored(i) \/ i = d
      BY <3>2, <3>3, <1>5, <1>7, StoreAhead
    <3> QED
      BY <3>3, <3>4, <1>9
  <2>2. CASE /\ m.seq = rcv_base
             /\ WriteStored([rcv_buf EXCEPT ![m.seq] = m.data])
    <3>1. d = Len(written)
      <4>1. Slot(d) = Slot(Len(written)) /\ d < Len(written) + N /\ Len(written) < d + N
        BY <2>2, <1>7, <1>9, Sizes DEF WindowInv, RcvWindow
      <4> QED
        BY <4>1, <1>9, SlotInjective
    <3>2. PICK buf : buf = [rcv_buf EXCEPT ![Slot(d)] = d]
      OBVIOUS
    <3>3. WriteStored(buf)
      BY <2>2, <3>2, <1>3, <1>7
    <3>4. rcv_buf[Slot(d)] = NULL
      BY <1>4, <1>7
    <3> QED
      BY <3>1, <3>2, <3>3, <3>4, <1>5, <1>7, StoreNext
  <2> QED
    BY <2>1, <2>2, <1>1 DEF ReceiveNew
<1>11. AckedAreStored(sb)'
  <2>1. \A i \in sb..fileOff-1 : i \in 0..fileOff-1
    BY <1>9
  <2>2. sb <= Len(written')
    BY <1>9, <1>10 DEF RcvWindow
  <2> QED
    BY <2>1, <2>2, <1>5, <1>10 DEF WindowInv, AckedAreStored
<1>12. AcksInFlight(sb)'
  <2>1. Stored(a.blk)' /\ \A i \in 0..fileOff-1 : Stored(i) => Stored(i)'
    BY <1>7, <1>8, <1>10
  <2> QED
    BY <2>1, <1>4, <1>5, <1>7, <1>8, AckSent
<1>13. DataInFlight'
  <2>1. dataCh \in Seq(DataMsg)
    BY DEF TypeOK, SenderTypeOK
  <2>2. \A q \in DOMAIN dataCh' : q \in Int /\ q + 1 \in DOMAIN dataCh /\ dataCh'[q] = dataCh[q + 1]
    BY <2>1, <1>4, AfterRead
  <2>3. ASSUME NEW q \in DOMAIN dataCh', NEW msg, msg = dataCh'[q]
        PROVE  DataMsgOK(msg)'
    <3>1. DataMsgOK(msg)
      BY <2>2, <2>3 DEF WindowInv, DataInFlight
    <3>2. msg.seq < N => d < msg.data + WS
      BY <2>3, <1>3, <1>4, <1>6
    <3>3. msg.seq < N => \A i \in 0..fileOff-1 : Stored(i)' => Stored(i) \/ i < msg.data + WS
      BY <3>2, <1>10
    <3> QED
      BY <3>1, <3>3, <1>5, DataMsgKept
  <2>4. \A q \in DOMAIN dataCh' : DataMsgOK(dataCh[q])'
    BY <2>3 DEF DataMsgOK
  <2>5. ASSUME NEW q \in DOMAIN dataCh', NEW r \in DOMAIN dataCh', q < r,
               dataCh'[q].seq < N, dataCh'[r].seq < N
        PROVE  dataCh'[q].data < dataCh'[r].data + WS
    <3>1. q + 1 < r + 1
      BY <2>2, <2>5
    <3> QED
      BY <2>2, <2>5, <3>1 DEF WindowInv, DataInFlight
  <2> QED
    BY <2>4, <2>5 DEF DataInFlight
<1>14. LastAckOK'
  <2>1. \A i \in 0..fileOff'-1 : Stored(i)' => i < d + WS
    BY <1>5, <1>7, <1>9, <1>10, Sizes
  <2>2. Stored(d)'
    BY <1>7, <1>10
  <2> QED
    BY <2>1, <2>2, <1>4, <1>5, <1>7, <1>8 DEF LastAckOK
<1>15. Ending'
  BY <1>4, <1>5 DEF WindowInv, Ending
<1> QED
  BY <1>5, <1>10, <1>11, <1>12, <1>13, <1>14, <1>15 DEF WindowInv

-----------------------------------------------------------------------------
\* The server's steps leave the client's variables alone.
LEMMA ServerStep ==
  ASSUME NEW sb, WindowInv(sb), UNCHANGED rcvVars, fileOff' = fileOff
  PROVE  /\ RcvWindow' /\ LastAckOK' /\ rcvJob' = rcvJob /\ written' = written
         /\ \A i : Stored(i)' <=> Stored(i)
<1>1. /\ rcv_base' = rcv_base /\ rcv_buf' = rcv_buf /\ written' = written
      /\ ack_to_resend' = ack_to_resend /\ rcvJob' = rcvJob
  BY DEF rcvVars
<1>2. RcvWindow' /\ \A i : Stored(i)' <=> Stored(i)
  BY <1>1, FileUnchanged
<1> QED
  BY <1>1, <1>2, LastAckKept DEF WindowInv

\* What is acknowledged is stored, when nothing new is acknowledged but a block
\* that is stored.
LEMMA AckedKept ==
  ASSUME TypeOK, NEW sb \in 0..FileLen, WindowInv(sb), fileOff' = fileOff, written' = written,
         \A i : Stored(i)' <=> Stored(i),
         NEW sb2 \in 0..FileLen, SendWindow(sb2)',
         \A i \in 0..fileOff-1 : Acked(sb2, i)' => Acked(sb, i) \/ Stored(i)
  PROVE  AckedAreStored(sb2)'
<1>1. /\ sb \in Nat /\ fileOff \in Nat /\ Len(written) \in Nat /\ sb <= Len(written)
      /\ fileOff <= FileLen /\ FileLen \in Nat /\ sb2 \in Nat
  BY InvNumbers, Sizes
<1>2. sb2 <= fileOff
  BY DEF SendWindow
<1>3. \A i \in 0..fileOff-1 : Acked(sb2, i)' => Stored(i)
  BY <1>1 DEF WindowInv, AckedAreStored, Acked, Stored
<1>4. sb2 <= Len(written)
  <2> SUFFICES ASSUME Len(written) < sb2 PROVE FALSE
    BY <1>1
  <2>1. Len(written) \in 0..fileOff-1 /\ Acked(sb2, Len(written))'
    BY <1>1, <1>2 DEF Acked
  <2>2. Stored(Len(written)) /\ Slot(Len(written)) \in Slots
    BY <2>1, <1>1, <1>3, SlotType
  <2>3. rcv_buf[Slot(Len(written))] = Len(written)
    BY <2>2, <1>1 DEF Stored
  <2>4. Len(written) # NULL
    BY <2>1, <1>1, Sizes DEF Blocks
  <2>5. rcv_buf[Slot(Len(written))] \in Len(written)+1 .. Len(written)+WR-1
    BY <2>2, <2>3, <2>4 DEF WindowInv, RcvWindow
  <2> QED
    BY <2>3, <2>5, <1>1
<1>5. ASSUME NEW i \in sb2..fileOff-1, snd_buf'[Slot(i)].acked
      PROVE  Stored(i)'
  <2>1. i \in 0..fileOff-1 /\ Acked(sb2, i)'
    BY <1>5, <1>1 DEF Acked
  <2> QED
    BY <2>1, <1>3
<1> QED
  BY <1>4, <1>5 DEF AckedAreStored

\* The final packet enters the buffer, and nothing else changes.
LEMMA SendEofStep ==
  ASSUME TypeOK, NEW sb \in 0..FileLen, WindowInv(sb), SendEof, UNCHANGED rcvVars
  PROVE  WindowInv(sb)'
<1>1. /\ SendWindow(sb)' /\ Timers(sb)'
      /\ fileOff' = fileOff /\ ackJob' = ackJob /\ dataCh' = dataCh /\ ackCh' = ackCh
      /\ \A i \in 0..fileOff-1 : Acked(sb, i)' <=> Acked(sb, i)
  BY SendEofKeeps DEF WindowInv, TypeOK
<1>2. /\ RcvWindow' /\ LastAckOK' /\ rcvJob' = rcvJob /\ written' = written
      /\ \A i : Stored(i)' <=> Stored(i)
  BY <1>1, ServerStep
<1>3. AckedAreStored(sb)'
  BY <1>1, <1>2, AckedKept
<1>4. DataInFlight'
  BY <1>1, <1>2, DataKept DEF WindowInv
<1>5. AcksInFlight(sb)'
  BY <1>1, <1>2, AcksKept DEF WindowInv
<1>6. Ending'
  BY <1>1, <1>2 DEF WindowInv, Ending
<1> QED
  BY <1>1, <1>2, <1>3, <1>4, <1>5, <1>6 DEF WindowInv

\* An ACK that changes nothing leaves the channel.
LEMMA IgnoreAckStep ==
  ASSUME TypeOK, NEW sb \in 0..FileLen, WindowInv(sb),
         ackCh # <<>>, ackCh' = Tail(ackCh), UNCHANGED sndVars, dataCh' = dataCh,
         UNCHANGED rcvVars
  PROVE  WindowInv(sb)'
<1>1. /\ UNCHANGED <<rcv_base, rcv_buf, written>> /\ rcvJob' = rcvJob
      /\ ack_to_resend' = ack_to_resend
  BY DEF rcvVars
<1>2. /\ SendWindow(sb)' /\ Timers(sb)' /\ RcvWindow' /\ AckedAreStored(sb)'
      /\ fileOff' = fileOff /\ ackJob' = ackJob
      /\ \A i : (Acked(sb, i)' <=> Acked(sb, i)) /\ (Stored(i)' <=> Stored(i))
  BY <1>1, ClientStep
<1>3. DataInFlight'
  BY <1>2, DataKept DEF WindowInv
<1>4. AcksInFlight(sb)'
  BY <1>1, <1>2, AcksKept DEF WindowInv
<1>5. LastAckOK' /\ Ending'
  BY <1>1, <1>2, LastAckKept DEF WindowInv, Ending
<1> QED
  BY <1>2, <1>3, <1>4, <1>5 DEF WindowInv

\* The packet of the oldest timer may enter the channel again.
LEMMA TimeoutExpiredStep ==
  ASSUME TypeOK, NEW sb \in 0..FileLen, WindowInv(sb), TimeoutExpired, UNCHANGED rcvVars
  PROVE  WindowInv(sb)'
<1>1. /\ SendWindow(sb)' /\ Timers(sb)'
      /\ fileOff' = fileOff /\ ackJob' = ackJob /\ ackCh' = ackCh
      /\ \A i : Acked(sb, i)' <=> Acked(sb, i)
      /\ \E m \in DataMsg : SentAgain(sb, m) /\ dataCh' \in Transmit(dataCh, m)
  BY TimeoutExpiredKeeps DEF WindowInv, TypeOK
<1>2. /\ RcvWindow' /\ LastAckOK' /\ rcvJob' = rcvJob /\ written' = written
      /\ \A i : Stored(i)' <=> Stored(i)
  BY <1>1, ServerStep
<1>3. AckedAreStored(sb)'
  BY <1>1, <1>2, AckedKept
<1>4. DataInFlight'
  <2>1. PICK m \in DataMsg : SentAgain(sb, m) /\ dataCh' \in Transmit(dataCh, m)
    BY <1>1
  <2>2. CASE ackJob = "final" /\ m = addSeqNum(FinalPacket) /\ m.seq >= N
    <3>1. DataMsgOK(m)
      BY <2>2 DEF DataMsgOK
    <3>2. ~ (m.seq < N)
      BY <2>2, Sizes DEF DataMsg
    <3>3. DataMsgOK(m)'
      BY <3>1, <3>2, <1>1, DataMsgKept
    <3> QED
      BY <2>1, <3>2, <3>3, <1>1, <1>2, DataKept DEF WindowInv
  <2>3. CASE \E i \in sb..fileOff-1 : m.seq = Slot(i) /\ m.seq < N /\ m.data = i
    <3>1. PICK i \in sb..fileOff-1 : m.seq = Slot(i) /\ m.seq < N /\ m.data = i
      BY <2>3
    <3>2. i \in Nat /\ sb \in Nat /\ fileOff \in Nat /\ fileOff <= i + WS
      BY InvNumbers, Sizes
    <3>3. DataMsgOK(m)
      BY <3>1, <3>2, Sizes DEF DataMsgOK
    <3>4. DataMsgOK(m)'
      BY <3>3, <1>1, <1>2, DataMsgKept
    <3>5. ASSUME NEW q \in DOMAIN dataCh, dataCh[q].seq < N
          PROVE  dataCh[q].data < m.data + WS
      <4>1. DataMsgOK(dataCh[q]) /\ dataCh[q] \in DataMsg
        BY DEF WindowInv, DataInFlight, TypeOK, SenderTypeOK
      <4>2. dataCh[q].data \in 0..fileOff-1
        BY <3>5, <4>1, PacketRead
      <4> QED
        BY <4>2, <3>1, <3>2, Sizes
    <3> QED
      BY <2>1, <3>4, <3>5, <1>1, <1>2, DataKept DEF WindowInv
  <2> QED
    BY <2>1, <2>2, <2>3 DEF SentAgain
<1>5. AcksInFlight(sb)'
  BY <1>1, <1>2, AcksKept DEF WindowInv
<1>6. Ending'
  BY <1>1, <1>2 DEF WindowInv, Ending
<1> QED
  BY <1>1, <1>2, <1>3, <1>4, <1>5, <1>6 DEF WindowInv

\* The window is empty, and the final packet goes out.
LEMMA StartFinalStep ==
  ASSUME TypeOK, NEW sb \in 0..FileLen, WindowInv(sb), StartFinal, UNCHANGED rcvVars
  PROVE  WindowInv(sb)'
<1>1. /\ SendWindow(sb)' /\ Timers(sb)'
      /\ fileOff' = fileOff /\ ackJob = "acks" /\ ackJob' = "final" /\ ackCh' = ackCh
      /\ \A i : Acked(sb, i)' <=> Acked(sb, i)
      /\ dataCh' \in Transmit(dataCh, addSeqNum(FinalPacket))
  BY StartFinalKeeps DEF WindowInv, TypeOK
<1>2. /\ RcvWindow' /\ LastAckOK' /\ rcvJob' = rcvJob /\ written' = written
      /\ \A i : Stored(i)' <=> Stored(i)
  BY <1>1, ServerStep
<1>3. AckedAreStored(sb)'
  BY <1>1, <1>2, AckedKept
<1>4. DataInFlight'
  <2>1. PICK m : m = addSeqNum(FinalPacket)
    OBVIOUS
  <2>2. m \in DataMsg /\ ~ (m.seq < N)
    BY <2>1, FinalMsg, Sizes DEF DataMsg
  <2>3. DataMsgOK(m)'
    BY <2>1, <1>1 DEF DataMsgOK
  <2> QED
    BY <2>1, <2>2, <2>3, <1>1, <1>2, DataKept DEF WindowInv
<1>5. AcksInFlight(sb)'
  BY <1>1, <1>2, AcksKept DEF WindowInv
<1>6. Ending'
  BY <1>1, <1>2 DEF WindowInv, Ending
<1> QED
  BY <1>1, <1>2, <1>3, <1>4, <1>5, <1>6 DEF WindowInv

\* What the server reads is an ACK of the invariant.
LEMMA AckHead ==
  ASSUME TypeOK, NEW sb, WindowInv(sb), ackCh # <<>>, NEW a, a = Head(ackCh)
  PROVE  /\ a \in AckMsg /\ AckMsgOK(sb, a)
         /\ \A q \in DOMAIN Tail(ackCh) :
              a.seq \in Slots /\ Tail(ackCh)[q].seq \in Slots => a.blk < Tail(ackCh)[q].blk + WS
<1>1. ackCh \in Seq(AckMsg)
  BY DEF TypeOK, SenderTypeOK
<1>2. /\ 1 \in DOMAIN ackCh /\ a = ackCh[1] /\ a \in AckMsg
      /\ \A q \in DOMAIN Tail(ackCh) : 1 < q + 1 /\ q + 1 \in DOMAIN ackCh
                                       /\ Tail(ackCh)[q] = ackCh[q + 1]
  BY <1>1, AfterRead
<1>3. AckMsgOK(sb, a)
  BY <1>2 DEF WindowInv, AcksInFlight
<1> QED
  BY <1>2, <1>3 DEF WindowInv, AcksInFlight

\* A final ACK ends the transfer, for only a client that is done sends one.
LEMMA ReadFinalAckStep ==
  ASSUME TypeOK, NEW sb \in 0..FileLen, WindowInv(sb), ReadFinalAck, UNCHANGED rcvVars
  PROVE  WindowInv(sb)'
<1>1. /\ SendWindow(sb)' /\ Timers(sb)'
      /\ fileOff' = fileOff /\ ackJob' # "acks"
      /\ ackCh # <<>> /\ ackCh' = Tail(ackCh) /\ dataCh' = dataCh
      /\ \A i \in 0..fileOff-1 : Acked(sb, i)' => Acked(sb, i)
  BY ReadFinalAckKeeps DEF WindowInv, TypeOK
<1>2. /\ RcvWindow' /\ LastAckOK' /\ rcvJob' = rcvJob /\ written' = written
      /\ \A i : Stored(i)' <=> Stored(i)
  BY <1>1, ServerStep
<1>3. AckedAreStored(sb)'
  BY <1>1, <1>2, AckedKept
<1>4. DataInFlight'
  BY <1>1, <1>2, DataKept DEF WindowInv
<1>5. AcksInFlight(sb)'
  BY <1>1, <1>2, AcksKept DEF WindowInv
<1>6. Ending'
  <2>1. PICK a : a = Head(ackCh)
    OBVIOUS
  <2>2. a.seq >= N => rcvJob = "done"
    <3>1. a \in AckMsg /\ AckMsgOK(sb, a)
      BY <2>1, <1>1, AckHead
    <3> QED
      BY <3>1, Sizes DEF AckMsgOK, AckMsg, Slots
  <2>3. ackJob' = ackJob \/ a.seq >= N
    BY <2>1 DEF ReadFinalAck
  <2> QED
    BY <2>2, <2>3, <1>1, <1>2 DEF WindowInv, Ending
<1> QED
  BY <1>1, <1>2, <1>3, <1>4, <1>5, <1>6 DEF WindowInv

-----------------------------------------------------------------------------
\* What the server knows of an ACK it may read before the end: a block that is
\* stored, told by the window test from the blocks it has freed.
LEMMA AckRead ==
  ASSUME TypeOK, NEW sb \in 0..FileLen, WindowInv(sb), rcvJob # "done",
         NEW a \in AckMsg, AckMsgOK(sb, a), a.seq # -1
  PROVE  /\ a.blk \in 0..fileOff-1 /\ a.seq = Slot(a.blk) /\ a.seq \in Slots
         /\ Stored(a.blk)
         /\ \A i \in 0..fileOff-1 : Acked(sb, i) => i < a.blk + WS
         /\ InSendWindow(a.seq, send_base) <=> a.blk >= sb
<1>1. /\ a.blk \in 0..fileOff-1 /\ a.seq = Slot(a.blk) /\ a.seq \in Slots
      /\ Stored(a.blk)
      /\ \A i \in 0..fileOff-1 : Acked(sb, i) => i < a.blk + WS
  BY DEF AckMsgOK
<1> QED
  BY <1>1, AckInWindow DEF WindowInv, TypeOK

\* The one action that moves the server's window: to sb2, for some sb2.
LEMMA AcceptAckStep ==
  ASSUME TypeOK, NEW sb \in 0..FileLen, WindowInv(sb), AcceptAck, UNCHANGED rcvVars
  PROVE  \E sb2 \in 0..FileLen : WindowInv(sb2)'
<1>1. PICK a : a = Head(ackCh)
  OBVIOUS
<1>2. PICK d : d = a.blk
  OBVIOUS
<1>3. /\ ackJob = "acks" /\ ackCh # <<>> /\ ackCh' = Tail(ackCh)
      /\ a.seq # -1 /\ InSendWindow(a.seq, send_base)
      /\ phead' = remove_nodo(phead, a.seq)
      /\ UNCHANGED <<next_tosend, fileOff, sendJob, ackJob, dataCh>>
      /\ \/ a.seq # send_base /\ snd_buf' = MarkAcked(a.seq) /\ send_base' = send_base
         \/ a.seq = send_base /\ FreeAcked(MarkAcked(a.seq))
  BY <1>1 DEF AcceptAck, AwaitsAcks
<1>4. fileOff' = fileOff /\ ackJob' = ackJob /\ dataCh' = dataCh
  BY <1>3
<1>5. /\ RcvWindow' /\ LastAckOK' /\ rcvJob' = rcvJob /\ written' = written
      /\ rcv_buf' = rcv_buf
      /\ \A i : Stored(i)' <=> Stored(i)
  BY <1>4, ServerStep DEF rcvVars
<1>6. rcvJob # "done"
  BY <1>3 DEF WindowInv, Ending
<1>7. /\ a \in AckMsg /\ AckMsgOK(sb, a)
      /\ \A q \in DOMAIN Tail(ackCh) :
           a.seq \in Slots /\ Tail(ackCh)[q].seq \in Slots => a.blk < Tail(ackCh)[q].blk + WS
  BY <1>1, <1>3, AckHead
<1>8. /\ d \in 0..fileOff-1 /\ a.seq = Slot(d) /\ a.seq \in Slots /\ Stored(d) /\ d >= sb
  BY <1>2, <1>3, <1>6, <1>7, AckRead
<1>9. /\ d \in sb..fileOff-1 /\ d \in Nat /\ sb \in Nat /\ fileOff \in Nat
      /\ send_base = Slot(sb) /\ d < sb + N /\ sb < d + N
  <2>1. sb \in Nat /\ fileOff \in Nat /\ fileOff < sb + N /\ N \in Nat /\ N > 0
    BY InvNumbers, Sizes
  <2>2. send_base = Slot(sb)
    BY DEF WindowInv, SendWindow
  <2> QED
    BY <2>1, <2>2, <1>8
<1>10. PICK sb2 \in 0..FileLen :
         /\ SendWindow(sb2)' /\ Timers(sb2)' /\ AckedAreStored(sb2)'
         /\ \A i \in 0..fileOff-1 : Acked(sb2, i)' => Acked(sb, i) \/ i = d
  <2>1. PICK sb2 \in 0..FileLen :
          /\ SendWindow(sb2)' /\ Timers(sb2)'
          /\ \A i \in 0..fileOff-1 : Acked(sb2, i)' => Acked(sb, i) \/ i = d
    BY <1>1, <1>8, <1>9, AcceptAckKeeps DEF WindowInv, TypeOK
  <2>2. AckedAreStored(sb2)'
    BY <2>1, <1>4, <1>5, <1>8, AckedKept
  <2> QED
    BY <2>1, <2>2
<1>11. DataInFlight'
  BY <1>4, <1>5, DataKept DEF WindowInv
<1>12. AcksInFlight(sb2)'
  <2>1. ackCh \in Seq(AckMsg)
    BY DEF TypeOK, SenderTypeOK
  <2>2. \A q \in DOMAIN ackCh' : q \in Int /\ q + 1 \in DOMAIN ackCh /\ ackCh'[q] = ackCh[q + 1]
    BY <2>1, <1>3, AfterRead
  <2>3. ASSUME NEW q \in DOMAIN ackCh', NEW msg, msg = ackCh'[q]
        PROVE  AckMsgOK(sb2, msg)'
    <3>1. AckMsgOK(sb, msg)
      BY <2>2, <2>3 DEF WindowInv, AcksInFlight
    <3>2. msg.seq \in Slots => d < msg.blk + WS
      BY <2>3, <1>2, <1>3, <1>7, <1>8
    <3>3. msg.seq \in Slots => \A i \in 0..fileOff-1 :
                                 Acked(sb2, i)' => Acked(sb, i) \/ i < msg.blk + WS
      BY <3>2, <1>10
    <3> QED
      BY <3>1, <3>3, <1>4, <1>5, AckMsgKept
  <2>4. \A q \in DOMAIN ackCh' : AckMsgOK(sb2, ackCh[q])'
    BY <2>3 DEF AckMsgOK
  <2>5. ASSUME NEW q \in DOMAIN ackCh', NEW r \in DOMAIN ackCh', q < r,
               ackCh'[q].seq \in Slots, ackCh'[r].seq \in Slots
        PROVE  ackCh'[q].blk < ackCh'[r].blk + WS
    <3>1. q + 1 < r + 1
      BY <2>2, <2>5
    <3> QED
      BY <2>2, <2>5, <3>1 DEF WindowInv, AcksInFlight
  <2> QED
    BY <2>4, <2>5 DEF AcksInFlight
<1>13. Ending'
  BY <1>4, <1>5 DEF WindowInv, Ending
<1> QED
  BY <1>5, <1>10, <1>11, <1>12, <1>13 DEF WindowInv

-----------------------------------------------------------------------------
\* Nothing is sent yet.
LEMMA InvInit == Init => IInv
<1> SUFFICES ASSUME Init PROVE IInv
  OBVIOUS
<1>1. TypeOK
  BY TypeInit
<1>2. /\ send_base = 0 /\ next_tosend = 0 /\ snd_buf = [p \in Slots |-> NULL]
      /\ phead = <<>> /\ fileOff = 0 /\ sendJob = "run" /\ ackJob = "acks"
      /\ dataCh = <<>> /\ ackCh = <<>> /\ rcv_base = 0
      /\ rcv_buf = [p \in Slots |-> NULL] /\ written = <<>>
      /\ ack_to_resend = [seq |-> -1, blk |-> -1] /\ rcvJob = "reply"
  BY DEF Init, SenderInit, ReceiverInit
<1>3. SendWindow(0) /\ Timers(0)
  BY SenderInitWindow DEF Init
<1>5. RcvWindow
  BY <1>2, SlotZero DEF RcvWindow
<1>6. AckedAreStored(0)
  BY <1>2 DEF AckedAreStored
<1>7. DataInFlight /\ AcksInFlight(0) /\ LastAckOK /\ Ending
  BY <1>2 DEF DataInFlight, AcksInFlight, LastAckOK, Ending
<1>8. 0 \in 0..FileLen
  BY Sizes
<1> QED
  BY <1>1, <1>3, <1>5, <1>6, <1>7, <1>8 DEF IInv, WindowInv

\* Each action by its lemma; only AcceptAck moves sb.
LEMMA InvStep == IInv /\ [Next]_vars => IInv'
<1> SUFFICES ASSUME IInv, [Next]_vars PROVE IInv'
  OBVIOUS
<1>1. TypeOK /\ TypeOK'
  BY TypeStep DEF IInv
<1>2. PICK sb \in 0..FileLen : WindowInv(sb)
  BY DEF IInv
<1> SUFFICES \E sb2 \in 0..FileLen : WindowInv(sb2)'
  BY <1>1 DEF IInv
<1>3. CASE SendPacket /\ UNCHANGED rcvVars
  BY <1>1, <1>2, <1>3, SendPacketStep
<1>4. CASE SendEof /\ UNCHANGED rcvVars
  BY <1>1, <1>2, <1>4, SendEofStep
<1>5. CASE TimeoutExpired /\ UNCHANGED rcvVars
  BY <1>1, <1>2, <1>5, TimeoutExpiredStep
<1>6. CASE IgnoreAck /\ UNCHANGED rcvVars
  <2>1. ackCh # <<>> /\ ackCh' = Tail(ackCh) /\ UNCHANGED sndVars /\ dataCh' = dataCh
    BY <1>6 DEF IgnoreAck
  <2> QED
    BY <1>1, <1>2, <1>6, <2>1, IgnoreAckStep
<1>7. CASE AcceptAck /\ UNCHANGED rcvVars
  BY <1>1, <1>2, <1>7, AcceptAckStep
<1>8. CASE StartFinal /\ UNCHANGED rcvVars
  BY <1>1, <1>2, <1>8, StartFinalStep
<1>9. CASE ReadFinalAck /\ UNCHANGED rcvVars
  BY <1>1, <1>2, <1>9, ReadFinalAckStep
<1>10. CASE ReadReply
  BY <1>1, <1>2, <1>10, ReadReplyStep
<1>11. CASE ReceiveOld
  BY <1>1, <1>2, <1>11, ReceiveOldStep
<1>12. CASE ReceiveNew
  BY <1>1, <1>2, <1>12, ReceiveNewStep
<1>13. CASE ReceiveFinal
  BY <1>1, <1>2, <1>13, ReceiveFinalStep
<1>14. CASE RcvTimeout
  BY <1>1, <1>2, <1>14, RcvTimeoutStep
<1>15. CASE GiveUp \/ Interrupted
  BY <1>1, <1>2, <1>15, LeaveStep
<1>16. CASE UNCHANGED vars
  <2>1. /\ UNCHANGED sndVars /\ dataCh' = dataCh /\ ackCh' = ackCh
        /\ rcvJob' = rcvJob /\ ack_to_resend' = ack_to_resend
        /\ UNCHANGED <<rcv_base, rcv_buf, written>>
    BY <1>16 DEF vars, rcvVars
  <2>2. /\ SendWindow(sb)' /\ Timers(sb)' /\ RcvWindow' /\ AckedAreStored(sb)'
        /\ fileOff' = fileOff /\ ackJob' = ackJob
        /\ \A i : (Acked(sb, i)' <=> Acked(sb, i)) /\ (Stored(i)' <=> Stored(i))
    BY <1>2, <2>1, ClientStep
  <2>3. DataInFlight'
    BY <1>1, <1>2, <2>1, <2>2, DataKept DEF WindowInv
  <2>4. AcksInFlight(sb)'
    BY <1>1, <1>2, <2>1, <2>2, AcksKept DEF WindowInv
  <2>5. LastAckOK' /\ Ending'
    BY <1>2, <2>1, <2>2, LastAckKept DEF WindowInv, Ending
  <2> QED
    BY <2>2, <2>3, <2>4, <2>5 DEF WindowInv
<1> QED
  BY <1>3, <1>4, <1>5, <1>6, <1>7, <1>8, <1>9, <1>10, <1>11, <1>12, <1>13, <1>14,
     <1>15, <1>16 DEF Next, PatientNext, Terminated

\* What TLC checks as IInv in one instance holds in every one.
THEOREM InvariantCorrect == Spec => []IInv
<1>1. Init => IInv
  BY InvInit
<1>2. IInv /\ [Next]_vars => IInv'
  BY InvStep
<1> QED
  BY <1>1, <1>2, PTL DEF Spec

-----------------------------------------------------------------------------
\* The client wrote the blocks in order.
LEMMA InvInOrder == IInv => WrittenInOrder
BY DEF IInv, WindowInv, RcvWindow, WrittenInOrder

\* When the client ends, sb, its own base and the end of the file meet.
LEMMA InvComplete == IInv => CompleteWhenDone
<1> SUFFICES ASSUME IInv, rcvJob = "done" PROVE Len(written) = FileLen
  BY DEF CompleteWhenDone
<1>1. PICK sb \in 0..FileLen : WindowInv(sb)
  BY DEF IInv
<1>2. sb = FileLen
  BY <1>1 DEF WindowInv, Ending, SendWindow
<1> QED
  BY <1>1, <1>2, InvNumbers, Sizes DEF IInv

\* A packet in flight is at most a window from the client's base.
LEMMA InvPackets == IInv => NoPacketMistaken
<1> SUFFICES ASSUME IInv, NEW q \in DOMAIN dataCh, dataCh[q].seq < N
             PROVE  IF InRcvWindow(dataCh[q].seq, rcv_base)
                    THEN dataCh[q].data \in Len(written) .. Len(written) + WR - 1
                    ELSE dataCh[q].data < Len(written)
  BY DEF NoPacketMistaken
<1>1. PICK sb \in 0..FileLen : WindowInv(sb)
  BY DEF IInv
<1>2. PICK m : m = dataCh[q]
  OBVIOUS
<1>3. m \in DataMsg /\ DataMsgOK(m)
  BY <1>1, <1>2 DEF IInv, TypeOK, SenderTypeOK, WindowInv, DataInFlight
<1>4. /\ m.data \in 0..fileOff-1 /\ m.data < Len(written) + WR
      /\ InRcvWindow(m.seq, rcv_base) <=> m.data >= Len(written)
  BY <1>1, <1>2, <1>3, PacketRead DEF IInv
<1>5. Len(written) \in Nat /\ fileOff \in Nat
  BY <1>1, InvNumbers DEF IInv
<1> QED
  BY <1>2, <1>4, <1>5, Sizes

\* An ACK in flight is at most a window from the server's base.
LEMMA InvAcks == IInv => NoAckMistaken
<1> SUFFICES ASSUME IInv, ackJob = "acks", NEW q \in DOMAIN ackCh, ackCh[q].seq # -1,
                    InSendWindow(ackCh[q].seq, send_base)
             PROVE  /\ ackCh[q].seq < N /\ snd_buf[ackCh[q].seq] # NULL
                    /\ snd_buf[ackCh[q].seq].data = ackCh[q].blk
  BY DEF NoAckMistaken
<1>1. PICK sb \in 0..FileLen : WindowInv(sb)
  BY DEF IInv
<1>2. PICK a : a = ackCh[q]
  OBVIOUS
<1>3. a \in AckMsg /\ AckMsgOK(sb, a)
  BY <1>1, <1>2 DEF IInv, TypeOK, SenderTypeOK, WindowInv, AcksInFlight
<1>4. rcvJob # "done"
  BY <1>1 DEF WindowInv, Ending
<1>5. /\ a.blk \in 0..fileOff-1 /\ a.seq = Slot(a.blk) /\ a.seq \in Slots
      /\ InSendWindow(a.seq, send_base) <=> a.blk >= sb
  BY <1>1, <1>2, <1>3, <1>4, AckRead DEF IInv
<1>6. a.blk \in sb..fileOff-1
  BY <1>1, <1>2, <1>5, InvNumbers DEF IInv
<1> QED
  BY <1>1, <1>2, <1>5, <1>6, Sizes DEF WindowInv, SendWindow, IsPacketOf, Slots

\* AckedAreStored, said of slots.
LEMMA InvStored == IInv => AckedIsStored
<1> SUFFICES ASSUME IInv, NEW p \in Slots, snd_buf[p] # NULL, snd_buf[p].acked
             PROVE  snd_buf[p].data < Len(written) \/ rcv_buf[p] = snd_buf[p].data
  BY DEF AckedIsStored
<1>1. PICK sb \in 0..FileLen : WindowInv(sb)
  BY DEF IInv
<1>2. PICK i \in sb..fileOff-1 : p = Slot(i)
  <2>1. ~ FinalPacket.acked
    BY DEF FinalPacket
  <2> QED
    BY <1>1, <2>1 DEF WindowInv, SendWindow
<1> QED
  BY <1>1, <1>2 DEF WindowInv, SendWindow, IsPacketOf, AckedAreStored, Stored

\* The server's timers match its window.
LEMMA InvTimers == IInv => TimersMatchWindow
BY TimersMatch DEF IInv, WindowInv, TypeOK

-----------------------------------------------------------------------------
\* The write loop of rcvFile never skips, repeats or swaps a block.
THEOREM InOrderCorrect == Spec => []WrittenInOrder
BY InvariantCorrect, InvInOrder, PTL

\* "Download completato!" is said only of a whole file.
THEOREM CompleteCorrect == Spec => []CompleteWhenDone
BY InvariantCorrect, InvComplete, PTL

\* rcvFile never takes an old packet for one N blocks further on.
THEOREM PacketsCorrect == Spec => []NoPacketMistaken
BY InvariantCorrect, InvPackets, PTL

\* thread_ack_job never takes an old ACK for one of its window, and never
\* dereferences an empty slot.
THEOREM AcksCorrect == Spec => []NoAckMistaken
BY InvariantCorrect, InvAcks, PTL

\* What the server will never send again, the client has.
THEOREM StoredCorrect == Spec => []AckedIsStored
BY InvariantCorrect, InvStored, PTL

\* The timer list names each unacknowledged packet once, and nothing else.
THEOREM TimersCorrect == Spec => []TimersMatchWindow
BY InvariantCorrect, InvTimers, PTL

-----------------------------------------------------------------------------
\* The client's file is the first Len(written) blocks.
WrittenIsPrefix ==
  /\ Len(written) \in 0..FileLen
  /\ written = Transfer!FirstBlocks(Len(written))

\* From WrittenInOrder and the length of the file.
LEMMA InvPrefix == IInv => WrittenIsPrefix
<1> SUFFICES ASSUME IInv PROVE WrittenIsPrefix
  OBVIOUS
<1>1. Len(written) \in 0..FileLen
  BY InvNumbers, Sizes DEF IInv
<1>2. written \in Seq(Blocks) /\ WrittenInOrder
  BY InvInOrder DEF IInv, TypeOK, ReceiverTypeOK
<1>3. DOMAIN written = 1..Len(written) /\ written = [i \in 1..Len(written) |-> written[i]]
  BY <1>2
<1>4. \A i \in 1..Len(written) : written[i] = i - 1
  BY <1>2, <1>3 DEF WrittenInOrder
<1> QED
  BY <1>1, <1>3, <1>4 DEF WrittenIsPrefix, Transfer!FirstBlocks

\* A datagram that is no new packet leaves the abstract transfer as it was.
LEMMA StutterStep ==
  ASSUME UNCHANGED <<written, rcvJob, ackJob>>
  PROVE  UNCHANGED Transfer!ftVars
BY DEF Transfer!ftVars

\* The buffer's next run of blocks goes to the file: Deliver, or nothing.
LEMMA DeliverStep ==
  ASSUME IInv, IInv', ReceiveNew
  PROVE  [Transfer!FTNext]_(Transfer!ftVars)
<1>1. rcvJob = "recv" /\ rcvJob' = rcvJob /\ ackJob' = ackJob
  BY DEF ReceiveNew, sndVars
<1>2. CASE written' = written
  BY <1>1, <1>2, StutterStep
<1>3. CASE written' # written
  <2>1. PICK n : n = Len(written')
    OBVIOUS
  <2>2. n \in 0..FileLen /\ written' = Transfer!FirstBlocks(n)
    <3>1. WrittenIsPrefix'
      BY InvPrefix, PTL
    <3> QED
      BY <2>1, <3>1 DEF WrittenIsPrefix, Transfer!FirstBlocks
  <2>3. n > Len(written)
    <3>1. PICK m : m = Head(dataCh)
      OBVIOUS
    <3>2. PICK buf : buf = [rcv_buf EXCEPT ![m.seq] = m.data]
      OBVIOUS
    <3>3. WriteStored(buf)
      BY <1>3, <3>1, <3>2 DEF ReceiveNew
    <3>4. PICK k \in 1..N :
            written' = written \o [j \in 1..k |-> buf[(rcv_base + j - 1) % N]]
      BY <3>3 DEF WriteStored
    <3>5. PICK g : g = [j \in 1..k |-> buf[(rcv_base + j - 1) % N]]
      OBVIOUS
    <3>6. Len(g) = k /\ k \in Nat /\ k > 0
      BY <3>5, Sizes
    <3>7. Len(written \o g) = Len(written) + Len(g)
      BY <3>5 DEF IInv, TypeOK, ReceiverTypeOK
    <3> QED
      BY <2>1, <3>4, <3>5, <3>6, <3>7, Sizes DEF IInv, TypeOK, ReceiverTypeOK
  <2>4. Len(written) \in 0..FileLen
    BY InvPrefix DEF WrittenIsPrefix
  <2>5. Transfer!Deliver
    BY <1>1, <2>2, <2>3, <2>4, Sizes DEF Transfer!Deliver
  <2> QED
    BY <2>5 DEF Transfer!FTNext
<1> QED
  BY <1>2, <1>3

\* The client ends with the final packet, and then its file is whole.
LEMMA CompleteStep ==
  ASSUME IInv, IInv', ReceiveFinal
  PROVE  Transfer!ReceiverCompletes
<1>1. rcvJob = "recv" /\ rcvJob' = "done" /\ ackJob' = ackJob /\ written' = written
  BY DEF ReceiveFinal, sndVars
<1>2. Len(written) = FileLen
  <2>1. CompleteWhenDone'
    BY InvComplete, PTL
  <2> QED
    BY <1>1, <2>1 DEF CompleteWhenDone
<1>3. written = Transfer!FirstBlocks(FileLen)
  BY <1>2, InvPrefix DEF WrittenIsPrefix
<1> QED
  BY <1>1, <1>3 DEF Transfer!ReceiverCompletes

\* The client gives up or is interrupted.
LEMMA FailStep ==
  ASSUME GiveUp \/ Interrupted
  PROVE  Transfer!ReceiverFails
<1>1. rcvJob \in {"reply", "recv"} /\ rcvJob' \in {"gaveup", "dead"}
      /\ ackJob' = ackJob /\ written' = written
  BY DEF GiveUp, Interrupted, sndVars
<1> QED
  BY <1>1 DEF Transfer!ReceiverFails

\* The end of the server, after the end of the client.
EndsAfterClient == ackJob = "done" => rcvJob = "done"

\* The server ends after the client.
LEMMA InvEnds == IInv => EndsAfterClient
BY DEF IInv, WindowInv, Ending, EndsAfterClient

\* The server leaves sendFile on a final ACK, which answers a final packet.
LEMMA FinalAckStep ==
  ASSUME IInv', ReadFinalAck, UNCHANGED rcvVars
  PROVE  [Transfer!FTNext]_(Transfer!ftVars)
<1>1. ackJob = "final" /\ ackJob' \in {"final", "done"}
      /\ rcvJob' = rcvJob /\ written' = written
  BY DEF ReadFinalAck, rcvVars
<1>2. CASE ackJob' = "final"
  BY <1>1, <1>2, StutterStep
<1>3. CASE ackJob' = "done"
  <2>1. rcvJob = "done"
    <3>1. EndsAfterClient'
      BY InvEnds, PTL
    <3> QED
      BY <1>1, <1>3, <3>1 DEF EndsAfterClient
  <2>2. Transfer!SenderCompletes
    BY <1>1, <1>3, <2>1 DEF Transfer!SenderCompletes
  <2> QED
    BY <2>2 DEF Transfer!FTNext
<1> QED
  BY <1>1, <1>2, <1>3

\* Every other step of either side is none of the abstract transfer.
LEMMA OtherStep ==
  ASSUME TypeOK,
         \/ SendPacket /\ UNCHANGED rcvVars
         \/ SendEof /\ UNCHANGED rcvVars
         \/ TimeoutExpired /\ UNCHANGED rcvVars
         \/ IgnoreAck /\ UNCHANGED rcvVars
         \/ AcceptAck /\ UNCHANGED rcvVars
         \/ StartFinal /\ UNCHANGED rcvVars
         \/ ReadReply
         \/ ReceiveOld
         \/ RcvTimeout
         \/ UNCHANGED vars
  PROVE  UNCHANGED Transfer!ftVars
<1>1. CASE \/ SendPacket /\ UNCHANGED rcvVars
           \/ SendEof /\ UNCHANGED rcvVars
           \/ TimeoutExpired /\ UNCHANGED rcvVars
           \/ IgnoreAck /\ UNCHANGED rcvVars
           \/ AcceptAck /\ UNCHANGED rcvVars
  <2>1. UNCHANGED <<written, rcvJob, ackJob>>
    BY <1>1 DEF SendPacket, SendEof, TimeoutExpired, IgnoreAck, AcceptAck, sndVars, rcvVars
  <2> QED
    BY <2>1, StutterStep
<1>2. CASE StartFinal /\ UNCHANGED rcvVars
  BY <1>2 DEF StartFinal, rcvVars, Transfer!ftVars
<1>3. CASE ReadReply
  BY <1>3 DEF ReadReply, sndVars, Transfer!ftVars
<1>4. CASE ReceiveOld \/ RcvTimeout \/ UNCHANGED vars
  <2>1. UNCHANGED <<written, rcvJob, ackJob>>
    BY <1>4 DEF ReceiveOld, RcvTimeout, vars, sndVars, rcvVars
  <2> QED
    BY <2>1, StutterStep
<1> QED
  BY <1>1, <1>2, <1>3, <1>4

\* The first state is that of the abstract transfer.
LEMMA TransferInit == Init => Transfer!FTInit
BY DEF Init, SenderInit, ReceiverInit, Transfer!FTInit

\* Each action is one of the abstract transfer, or none.
LEMMA TransferStep ==
  IInv /\ IInv' /\ [Next]_vars => [Transfer!FTNext]_(Transfer!ftVars)
<1> SUFFICES ASSUME IInv, IInv', [Next]_vars
             PROVE  [Transfer!FTNext]_(Transfer!ftVars)
  OBVIOUS
<1>1. CASE ReceiveNew
  BY <1>1, DeliverStep
<1>2. CASE ReceiveFinal
  BY <1>2, CompleteStep DEF Transfer!FTNext
<1>3. CASE GiveUp \/ Interrupted
  BY <1>3, FailStep DEF Transfer!FTNext
<1>4. CASE ReadFinalAck /\ UNCHANGED rcvVars
  BY <1>4, FinalAckStep
<1>5. TypeOK
  BY DEF IInv
<1> QED
  BY <1>1, <1>2, <1>3, <1>4, <1>5, OtherStep DEF Next, PatientNext, Terminated

\* The download implements the abstract transfer: the client's file only grows
\* by the server's next blocks, the client ends well only with the whole file,
\* and the server only after the client.
THEOREM DownloadImplementsTransfer == Spec => ImplementsTransfer
<1>1. Init => Transfer!FTInit
  BY TransferInit
<1>2. IInv /\ IInv' /\ [Next]_vars => [Transfer!FTNext]_(Transfer!ftVars)
  BY TransferStep
<1> QED
  BY <1>1, <1>2, InvariantCorrect, PTL DEF Spec, ImplementsTransfer, Transfer!FTSpec
=============================================================================
