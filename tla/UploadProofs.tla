---------------------------- MODULE UploadProofs ----------------------------
(***************************************************************************)
(* Upload is type correct, and IInv is an inductive invariant of it, for   *)
(* every window, file and channel size; the safety properties follow.      *)
(* What an action of the client does to its window is in SenderProofs.     *)
(***************************************************************************)
EXTENDS UploadInv, SenderProofs, SequenceTheorems

\* The first state is well typed.
LEMMA TypeInit == Init => TypeOK
BY SenderTypeInit, ReceiverTypeInit DEF Init, TypeOK

\* What a server that opens its socket again finds there is a channel.
LEMMA RebindType ==
  ASSUME NEW S, NEW ch \in Seq(S), NEW ch2 \in AfterRebind(ch)
  PROVE  ch2 \in Seq(S)
<1>1. PICK k \in 1..Len(ch)+1 : ch2 = SubSeq(ch, k, Len(ch))
  BY DEF AfterRebind
<1>2. \A i \in k..Len(ch) : ch[i] \in S
  OBVIOUS
<1> QED
  BY <1>1, <1>2, SubSeqProperties

\* The server's answer is a datagram of the ACK channel.
LEMMA CommandNonValidoType ==
  CommandNonValido \in AckMsg /\ CommandNonValido.seq = 0 /\ CommandNonValido.seq < N
BY Sizes DEF CommandNonValido, AckMsg

\* Every step keeps the types.
LEMMA TypeStep == TypeOK /\ [Next]_vars => TypeOK'
<1> SUFFICES ASSUME TypeOK, [Next]_vars
             PROVE  TypeOK'
  OBVIOUS
<1> USE Sizes DEF TypeOK, SenderTypeOK, ReceiverTypeOK, rcvVars
<1>1. CASE SenderNext /\ UNCHANGED <<rcvVars, ahead>>
  <2>1. SenderTypeOK'
    BY <1>1, SenderTypeStep
  <2> QED
    BY <1>1, <2>1
<1>2. CASE ClientCrashes
  BY <1>2 DEF ClientCrashes
<1>3. CASE ReadSize
  BY <1>3 DEF ReadSize, sndVars
<1>4. CASE ReceiveOld
  <2>1. Head(dataCh) \in DataMsg /\ Tail(dataCh) \in Seq(DataMsg)
    BY <1>4 DEF ReceiveOld
  <2>2. Ack(Head(dataCh)) \in AckMsg
    BY <2>1, AckType
  <2>3. ackCh' \in Seq(AckMsg)
    BY <1>4, <2>2, TransmitResult DEF ReceiveOld
  <2> QED
    BY <1>4, <2>1, <2>2, <2>3, ReceiverAssumption DEF ReceiveOld, sndVars
<1>5. CASE ReceiveNew
  <2> DEFINE m == Head(dataCh)
             buf == [rcv_buf EXCEPT ![m.seq] = m.data]
  <2>1. m \in DataMsg /\ Tail(dataCh) \in Seq(DataMsg)
    BY <1>5 DEF ReceiveNew
  <2>2. Ack(m) \in AckMsg
    BY <2>1, AckType
  <2>3. ackCh' \in Seq(AckMsg)
    BY <1>5, <2>2, TransmitResult DEF ReceiveNew
  <2>4. buf \in [Slots -> Blocks \cup {NULL}] /\ m.data \in Blocks
    BY <2>1 DEF DataMsg
  <2>5. (rcv_base + 1) % N \in Slots
    BY NextPosition
  <2>6. /\ rcv_buf' \in [Slots -> Blocks \cup {NULL}]
        /\ rcv_base' \in Slots
        /\ written' \in Seq(Blocks)
        /\ ahead' \in BOOLEAN
    <3>1. CASE /\ rcv_buf' = buf /\ ahead' = TRUE
               /\ UNCHANGED <<rcv_base, written>>
      BY <2>4, <3>1
    <3>2. CASE /\ rcv_buf' = ClearedBuf(buf) /\ rcv_base' = (rcv_base + 1) % N
               /\ written' = Append(written, m.data) /\ ahead' = ahead
      BY <2>4, <2>5, <3>2 DEF ClearedBuf
    <3> QED
      BY <1>5, <3>1, <3>2 DEF ReceiveNew
  <2> QED
    BY <1>5, <2>1, <2>2, <2>3, <2>6, ReceiverAssumption DEF ReceiveNew, sndVars
<1>6. CASE ReceiveFinal
  <2>1. Head(dataCh) \in DataMsg /\ Tail(dataCh) \in Seq(DataMsg)
    BY <1>6 DEF ReceiveFinal
  <2>2. PICK a : a = Ack(Head(dataCh))
    OBVIOUS
  <2>3. a \in AckMsg
    BY <2>1, <2>2, AckType
  <2>4. PICK c1 \in Transmit(ackCh, a) : \E c2 \in Transmit(c1, a) : ackCh' \in Transmit(c2, a)
    BY <1>6, <2>2 DEF ReceiveFinal
  <2>5. PICK c2 \in Transmit(c1, a) : ackCh' \in Transmit(c2, a)
    BY <2>4
  <2>6. c1 \in Seq(AckMsg)
    BY <2>3, TransmitResult
  <2>7. c2 \in Seq(AckMsg)
    BY <2>3, <2>6, TransmitResult
  <2>8. ackCh' \in Seq(AckMsg)
    BY <2>3, <2>5, <2>7, TransmitResult
  <2> QED
    BY <1>6, <2>1, <2>2, <2>3, <2>8, ReceiverAssumption DEF ReceiveFinal, sndVars
<1>7. CASE RcvTimeout /\ UNCHANGED ahead
  <2>1. ackCh' \in Seq(AckMsg)
    BY <1>7, TransmitResult DEF RcvTimeout
  <2> QED
    BY <1>7, <2>1, ReceiverAssumption DEF RcvTimeout, sndVars
<1>8. CASE GiveUp
  BY <1>8 DEF GiveUp, sndVars
<1>9. CASE EndPut
  <2>1. ackCh' \in Seq(AckMsg)
    BY <1>9, CommandNonValidoType, TransmitResult DEF EndPut
  <2>2. dataCh' \in Seq(DataMsg)
    BY <1>9, RebindType DEF EndPut
  <2> QED
    BY <1>9, <2>1, <2>2 DEF EndPut, sndVars
<1>10. CASE AnswerCommand
  <2>1. ackCh' \in Seq(AckMsg)
    BY <1>10, CommandNonValidoType, TransmitResult DEF AnswerCommand
  <2>2. Tail(dataCh) \in Seq(DataMsg)
    BY <1>10 DEF AnswerCommand
  <2>3. dataCh' \in Seq(DataMsg)
    BY <1>10, <2>2, RebindType DEF AnswerCommand
  <2> QED
    BY <1>10, <2>1, <2>3 DEF AnswerCommand, sndVars
<1>11. CASE UNCHANGED vars
  BY <1>11 DEF vars, sndVars
<1> QED
  BY <1>1, <1>2, <1>3, <1>4, <1>5, <1>6, <1>7, <1>8, <1>9, <1>10, <1>11
  DEF Next, PatientNext, Terminated, SenderNext, ClientSendPacket, ClientSendEof,
      ClientTimeoutExpired, ClientReadAck, ClientStartFinal, ClientReadFinalAck

\* Every variable stays within its type, whatever the server answers and
\* whichever socket hears it.
THEOREM TypeCorrect == Spec => []TypeOK
<1>1. Init => TypeOK
  BY TypeInit
<1>2. TypeOK /\ [Next]_vars => TypeOK'
  BY TypeStep
<1> QED
  BY <1>1, <1>2, PTL DEF Spec

-----------------------------------------------------------------------------
\* FinalAcks holds after a step that sends no final ACK before its time.
LEMMA FinalAcksKept ==
  ASSUME TypeOK, FinalAcks, Received => Received',
         rcvJob' \in {"size", "recv", "gaveup"} => ack_to_resend'.seq < N,
         rcvJob' = "done" => ack_to_resend'.seq >= N,
         ackJob' = "done" => ackJob = "done" \/ Received',
         \/ ackCh' = ackCh
         \/ ackCh # <<>> /\ ackCh' = Tail(ackCh)
         \/ \E a \in AckMsg : ackCh' \in Transmit(ackCh, a) /\ (a.seq >= N => Received')
  PROVE  FinalAcks'
<1>1. ackCh \in Seq(AckMsg) /\ \A q \in DOMAIN ackCh : ackCh[q].seq >= N => Received'
  BY DEF FinalAcks, TypeOK, SenderTypeOK
<1>2. \A q \in DOMAIN ackCh' : ackCh'[q].seq >= N => Received'
  <2>1. CASE ackCh' = ackCh
    BY <2>1, <1>1
  <2>2. CASE ackCh # <<>> /\ ackCh' = Tail(ackCh)
    BY <2>2, <1>1, AfterRead
  <2>3. CASE \E a \in AckMsg : ackCh' \in Transmit(ackCh, a) /\ (a.seq >= N => Received')
    BY <2>3, <1>1, AfterSend
  <2> QED
    BY <2>1, <2>2, <2>3
<1>3. ackJob' = "done" => Received'
  BY DEF FinalAcks
<1> QED
  BY <1>2, <1>3 DEF FinalAcks

\* The client ends on a final ACK, and sends none.
LEMMA ClientFinalAcks ==
  ASSUME TypeOK, FinalAcks, SenderNext \/ ClientCrashes, UNCHANGED <<rcvVars, ahead>>
  PROVE  FinalAcks'
<1>1. ack_to_resend' = ack_to_resend /\ rcvJob' = rcvJob
  BY DEF rcvVars
<1>2. Received' <=> Received
  BY <1>1 DEF Received
<1>3. CASE ackCh' = ackCh /\ ackJob' # "done"
  BY <1>1, <1>2, <1>3, FinalAcksKept DEF FinalAcks
<1>4. CASE ackCh # <<>> /\ ackCh' = Tail(ackCh) /\ (ackJob' = "done" => Head(ackCh).seq >= N \/ ackJob = "done")
  <2>1. 1 \in DOMAIN ackCh /\ Head(ackCh) = ackCh[1]
    BY <1>4, AfterRead DEF TypeOK, SenderTypeOK
  <2>2. Head(ackCh).seq >= N => Received
    BY <2>1 DEF FinalAcks
  <2> QED
    BY <1>1, <1>2, <1>4, <2>2, FinalAcksKept DEF FinalAcks
<1>5. CASE ackCh' = ackCh /\ ackJob' = ackJob
  BY <1>1, <1>2, <1>5, FinalAcksKept DEF FinalAcks
<1> QED
  BY <1>3, <1>4, <1>5
  DEF SenderNext, ClientCrashes, SendPacket, SendEof, TimeoutExpired, IgnoreAck, AcceptAck,
      StartFinal, ReadFinalAck, sndVars

\* The server sends one when it returns with the file, and then repeats none.
LEMMA ServerFinalAcks ==
  ASSUME TypeOK, FinalAcks,
         \/ ReadSize \/ ReceiveOld \/ ReceiveNew \/ ReceiveFinal
         \/ RcvTimeout \/ GiveUp \/ EndPut \/ AnswerCommand
  PROVE  FinalAcks'
<1>0. ackJob' = ackJob
  BY DEF ReadSize, ReceiveOld, ReceiveNew, ReceiveFinal, RcvTimeout, GiveUp, EndPut,
         AnswerCommand, sndVars
<1>1. CASE ReadSize \/ GiveUp
  <2>1. /\ ackCh' = ackCh /\ rcvJob \in {"size", "recv"} /\ rcvJob' \in {"recv", "gaveup"}
        /\ ack_to_resend' = ack_to_resend
    BY <1>1 DEF ReadSize, GiveUp
  <2> QED
    BY <2>1, <1>0, FinalAcksKept DEF FinalAcks, Received
<1>2. CASE ReceiveOld \/ ReceiveNew
  <2>1. PICK a : a = Ack(Head(dataCh))
    OBVIOUS
  <2>2. /\ dataCh # <<>> /\ rcvJob = "recv" /\ rcvJob' = "recv" /\ Head(dataCh).seq < N
        /\ ack_to_resend' = a /\ ackCh' \in Transmit(ackCh, a)
    BY <1>2, <2>1 DEF ReceiveOld, ReceiveNew
  <2>3. a \in AckMsg /\ a.seq < N /\ a.seq \in Int
    <3>1. Head(dataCh) \in DataMsg
      BY <2>2, AfterRead DEF TypeOK, SenderTypeOK
    <3>2. a \in AckMsg
      BY <2>1, <3>1, AckType
    <3>3. a.seq = Head(dataCh).seq /\ Head(dataCh).seq \in Int
      BY <2>1, <3>1, Sizes DEF Ack, DataMsg
    <3> QED
      BY <2>2, <3>2, <3>3
  <2> QED
    BY <2>2, <2>3, <1>0, FinalAcksKept, Sizes DEF FinalAcks, Received
<1>3. CASE ReceiveFinal
  <2>1. rcvJob' = "done" /\ ack_to_resend'.seq >= N
    BY <1>3 DEF ReceiveFinal, Ack
  <2> QED
    BY <2>1 DEF FinalAcks, Received
<1>4. CASE RcvTimeout
  <2>1. /\ rcvJob = "recv" /\ rcvJob' = "recv" /\ ack_to_resend' = ack_to_resend
        /\ ackCh' \in Transmit(ackCh, ack_to_resend)
    BY <1>4 DEF RcvTimeout
  <2>2. ack_to_resend \in AckMsg /\ ack_to_resend.seq < N /\ ack_to_resend.seq \in Int
    BY <2>1, Sizes DEF FinalAcks, TypeOK, ReceiverTypeOK, AckMsg
  <2> QED
    BY <2>1, <2>2, <1>0, FinalAcksKept, Sizes DEF FinalAcks, Received
<1>5. CASE EndPut \/ AnswerCommand
  <2>1. /\ rcvJob \in {"done", "gaveup", "command"} /\ rcvJob' = "command"
        /\ ack_to_resend' = ack_to_resend /\ ackCh' \in Transmit(ackCh, CommandNonValido)
    BY <1>5 DEF EndPut, AnswerCommand, rcvVars
  <2>2. Received => Received'
    BY <2>1 DEF Received
  <2>3. CommandNonValido \in AckMsg /\ ~ (CommandNonValido.seq >= N)
    BY CommandNonValidoType, Sizes
  <2> QED
    BY <2>1, <2>2, <2>3, <1>0, FinalAcksKept
<1> QED
  BY <1>1, <1>2, <1>3, <1>4, <1>5

-----------------------------------------------------------------------------
\* A packet in flight stays good when the file is read on, and when nothing
\* much higher than it arrives.
LEMMA DataMsgKept ==
  ASSUME fileOff \in Nat, fileOff' \in Nat, fileOff <= fileOff',
         ackJob # "acks" => ackJob' # "acks",
         NEW top, NEW top2, NEW m \in DataMsg, DataMsgOK(top, m),
         m.seq < N => top2 <= m.data + WS
  PROVE  DataMsgOK(top2, m)'
<1>1. CASE m = addSeqNum(FinalPacket) /\ ackJob # "acks"
  BY <1>1 DEF DataMsgOK
<1>2. CASE m.seq < N /\ m.seq = Slot(m.data) /\ m.data < fileOff
  <2>1. m.data \in Nat
    BY Sizes DEF DataMsg, Blocks
  <2>2. m.data < fileOff'
    BY <1>2, <2>1
  <2> QED
    BY <1>2, <2>2 DEF DataMsgOK
<1> QED
  BY <1>1, <1>2 DEF DataMsgOK

\* The packets in flight stay good after a step that sends nothing, or a packet
\* that is not far behind any of them.
LEMMA DataKept ==
  ASSUME SenderTypeOK, fileOff \in Nat, fileOff' \in Nat, fileOff <= fileOff',
         ackJob # "acks" => ackJob' # "acks",
         NEW top, DataInFlight(top),
         \/ dataCh' = dataCh
         \/ \E m \in DataMsg :
              /\ dataCh' \in Transmit(dataCh, m)
              /\ DataMsgOK(top, m)'
              /\ m.seq < N => \A q \in DOMAIN dataCh :
                                dataCh[q].seq < N => dataCh[q].data < m.data + WS
  PROVE  DataInFlight(top)'
<1>1. dataCh \in Seq(DataMsg)
  BY DEF SenderTypeOK
<1>2. ASSUME NEW q \in DOMAIN dataCh, NEW m, m = dataCh[q] PROVE DataMsgOK(top, m)'
  <2>1. m \in DataMsg /\ DataMsgOK(top, m)
    BY <1>1, <1>2 DEF DataInFlight
  <2>2. m.seq < N => top <= m.data + WS
    <3>1. ~ (addSeqNum(FinalPacket).seq < N)
      BY FinalMsg, Sizes DEF DataMsg
    <3> QED
      BY <2>1, <3>1 DEF DataMsgOK
  <2> QED
    BY <2>1, <2>2, DataMsgKept
<1>3. CASE dataCh' = dataCh
  <2>1. \A q \in DOMAIN dataCh' : DataMsgOK(top, dataCh[q])'
    BY <1>2, <1>3 DEF DataMsgOK
  <2> QED
    BY <1>3, <2>1 DEF DataInFlight
<1>4. CASE \E m \in DataMsg :
              /\ dataCh' \in Transmit(dataCh, m)
              /\ DataMsgOK(top, m)'
              /\ m.seq < N => \A q \in DOMAIN dataCh :
                                dataCh[q].seq < N => dataCh[q].data < m.data + WS
  <2>1. PICK m \in DataMsg :
              /\ dataCh' \in Transmit(dataCh, m)
              /\ DataMsgOK(top, m)'
              /\ m.seq < N => \A q \in DOMAIN dataCh :
                                dataCh[q].seq < N => dataCh[q].data < m.data + WS
    BY <1>4
  <2>2. /\ \A q \in DOMAIN dataCh' : (q \in DOMAIN dataCh /\ dataCh'[q] = dataCh[q]) \/ dataCh'[q] = m
        /\ \A q, r \in DOMAIN dataCh' : q < r =>
              /\ q \in DOMAIN dataCh /\ dataCh'[q] = dataCh[q]
              /\ (r \in DOMAIN dataCh /\ dataCh'[r] = dataCh[r]) \/ dataCh'[r] = m
    BY <1>1, <2>1, AfterSend
  <2>3. ASSUME NEW q \in DOMAIN dataCh' PROVE \E msg : msg = dataCh'[q] /\ DataMsgOK(top, msg)'
    BY <1>2, <2>1, <2>2
  <2>4. \A q \in DOMAIN dataCh' : DataMsgOK(top, dataCh[q])'
    BY <2>3 DEF DataMsgOK
  <2>5. ASSUME NEW q \in DOMAIN dataCh', NEW r \in DOMAIN dataCh', q < r,
               dataCh'[q].seq < N, dataCh'[r].seq < N
        PROVE  dataCh'[q].data < dataCh'[r].data + WS
    BY <2>1, <2>2, <2>5 DEF DataInFlight
  <2> QED
    BY <2>4, <2>5 DEF DataInFlight
<1> QED
  BY <1>3, <1>4

\* So do those behind the one that is read, if it is not far ahead of them.
LEMMA DataRead ==
  ASSUME SenderTypeOK, fileOff \in Nat, fileOff' = fileOff, ackJob' = ackJob,
         NEW top, NEW top2, DataInFlight(top), dataCh # <<>>, dataCh' = Tail(dataCh),
         \A q \in DOMAIN Tail(dataCh) :
           Tail(dataCh)[q].seq < N => top2 <= Tail(dataCh)[q].data + WS
  PROVE  DataInFlight(top2)'
<1>1. \A q \in DOMAIN dataCh' : q \in Int /\ q + 1 \in DOMAIN dataCh /\ dataCh'[q] = dataCh[q + 1]
  BY AfterRead DEF SenderTypeOK
<1>2. ASSUME NEW q \in DOMAIN dataCh', NEW m, m = dataCh'[q] PROVE DataMsgOK(top2, m)'
  <2>1. m \in DataMsg /\ DataMsgOK(top, m)
    BY <1>1, <1>2 DEF DataInFlight, SenderTypeOK
  <2> QED
    BY <2>1, <1>2, DataMsgKept
<1>3. \A q \in DOMAIN dataCh' : DataMsgOK(top2, dataCh[q])'
  BY <1>2 DEF DataMsgOK
<1>4. ASSUME NEW q \in DOMAIN dataCh', NEW r \in DOMAIN dataCh', q < r,
             dataCh'[q].seq < N, dataCh'[r].seq < N
      PROVE  dataCh'[q].data < dataCh'[r].data + WS
  <2>1. q + 1 < r + 1
    BY <1>1, <1>4
  <2> QED
    BY <1>1, <1>4, <2>1 DEF DataInFlight
<1> QED
  BY <1>3, <1>4 DEF DataInFlight

\* The same for the acknowledgements.
LEMMA AckMsgKept ==
  ASSUME fileOff \in Nat, fileOff' \in Nat, fileOff <= fileOff',
         NEW sb, NEW sb2, NEW top \in Nat, NEW top2 \in Nat, top <= top2,
         NEW a, AckMsgOK(sb, top, a),
         a.seq \in Slots => \A i \in 0..fileOff'-1 :
                              Acked(sb2, i)' => i \in 0..fileOff-1 /\ (Acked(sb, i) \/ i < a.blk + WS)
  PROVE  AckMsgOK(sb2, top2, a)'
<1>1. CASE a.seq = -1
  BY <1>1 DEF AckMsgOK
<1>2. CASE /\ IsAckOf(a) /\ a.blk < top
           /\ \A i \in 0..fileOff-1 : Acked(sb, i) => i < a.blk + WS
  <2>1. IsAckOf(a)' /\ a.blk < top2
    BY <1>2 DEF IsAckOf
  <2>2. \A i \in 0..fileOff'-1 : Acked(sb2, i)' => i < a.blk + WS
    BY <1>2 DEF IsAckOf
  <2> QED
    BY <2>1, <2>2 DEF AckMsgOK
<1> QED
  BY <1>1, <1>2 DEF AckMsgOK

\* The ACKs in flight stay good after a step that acknowledges nothing.
LEMMA AcksKept ==
  ASSUME SenderTypeOK, fileOff \in Nat, fileOff' \in Nat, fileOff <= fileOff',
         NEW sb, NEW top \in Nat, NEW top2 \in Nat, top <= top2, AcksInFlight(sb, top),
         \A i \in 0..fileOff'-1 : Acked(sb, i)' => i \in 0..fileOff-1 /\ Acked(sb, i),
         \/ ackCh' = ackCh
         \/ ackCh # <<>> /\ ackCh' = Tail(ackCh)
         \/ \E a \in AckMsg :
              /\ ackCh' \in Transmit(ackCh, a)
              /\ AckMsgOK(sb, top2, a)'
              /\ a.seq \in Slots => \A q \in DOMAIN ackCh :
                                      ackCh[q].seq \in Slots => ackCh[q].blk < a.blk + WS
  PROVE  AcksInFlight(sb, top2)'
<1>1. ackCh \in Seq(AckMsg)
  BY DEF SenderTypeOK
<1>2. ASSUME NEW q \in DOMAIN ackCh, NEW a, a = ackCh[q] PROVE AckMsgOK(sb, top2, a)'
  <2>1. AckMsgOK(sb, top, a)
    BY <1>2 DEF AcksInFlight
  <2> QED
    BY <2>1, AckMsgKept
<1>3. ASSUME \A q \in DOMAIN ackCh' : \E a : a = ackCh'[q] /\ AckMsgOK(sb, top2, a)',
             \A q, r \in DOMAIN ackCh' :
               q < r /\ ackCh'[q].seq \in Slots /\ ackCh'[r].seq \in Slots =>
                 ackCh'[q].blk < ackCh'[r].blk + WS
      PROVE  AcksInFlight(sb, top2)'
  <2>1. \A q \in DOMAIN ackCh' : AckMsgOK(sb, top2, ackCh[q])'
    BY <1>3 DEF AckMsgOK, IsAckOf
  <2> QED
    BY <1>3, <2>1 DEF AcksInFlight
<1>4. CASE ackCh' = ackCh
  BY <1>2, <1>3, <1>4 DEF AcksInFlight
<1>5. CASE ackCh # <<>> /\ ackCh' = Tail(ackCh)
  <2>1. \A q \in DOMAIN ackCh' : q \in Int /\ q + 1 \in DOMAIN ackCh /\ ackCh'[q] = ackCh[q + 1]
    BY <1>1, <1>5, AfterRead
  <2>2. \A q \in DOMAIN ackCh' : \E a : a = ackCh'[q] /\ AckMsgOK(sb, top2, a)'
    BY <1>2, <2>1
  <2>3. ASSUME NEW q \in DOMAIN ackCh', NEW r \in DOMAIN ackCh', q < r,
               ackCh'[q].seq \in Slots, ackCh'[r].seq \in Slots
        PROVE  ackCh'[q].blk < ackCh'[r].blk + WS
    <3>1. q + 1 < r + 1
      BY <2>1, <2>3
    <3> QED
      BY <2>1, <2>3, <3>1 DEF AcksInFlight
  <2> QED
    BY <1>3, <2>2, <2>3
<1>6. CASE \E a \in AckMsg :
              /\ ackCh' \in Transmit(ackCh, a)
              /\ AckMsgOK(sb, top2, a)'
              /\ a.seq \in Slots => \A q \in DOMAIN ackCh :
                                      ackCh[q].seq \in Slots => ackCh[q].blk < a.blk + WS
  <2>1. PICK a \in AckMsg :
              /\ ackCh' \in Transmit(ackCh, a)
              /\ AckMsgOK(sb, top2, a)'
              /\ a.seq \in Slots => \A q \in DOMAIN ackCh :
                                      ackCh[q].seq \in Slots => ackCh[q].blk < a.blk + WS
    BY <1>6
  <2>2. /\ \A q \in DOMAIN ackCh' : (q \in DOMAIN ackCh /\ ackCh'[q] = ackCh[q]) \/ ackCh'[q] = a
        /\ \A q, r \in DOMAIN ackCh' : q < r =>
              /\ q \in DOMAIN ackCh /\ ackCh'[q] = ackCh[q]
              /\ (r \in DOMAIN ackCh /\ ackCh'[r] = ackCh[r]) \/ ackCh'[r] = a
    BY <1>1, <2>1, AfterSend
  <2>3. \A q \in DOMAIN ackCh' : \E msg : msg = ackCh'[q] /\ AckMsgOK(sb, top2, msg)'
    BY <1>2, <2>1, <2>2
  <2>4. ASSUME NEW q \in DOMAIN ackCh', NEW r \in DOMAIN ackCh', q < r,
               ackCh'[q].seq \in Slots, ackCh'[r].seq \in Slots
        PROVE  ackCh'[q].blk < ackCh'[r].blk + WS
    BY <2>1, <2>2, <2>4 DEF AcksInFlight
  <2> QED
    BY <1>3, <2>3, <2>4
<1> QED
  BY <1>4, <1>5, <1>6
-----------------------------------------------------------------------------
\* What the client's steps leave alone of Receiving, and what is left to show.
LEMMA ReceivingKept ==
  ASSUME NEW sb2, NEW top, LastAckOK(top), NothingAhead(top),
         UNCHANGED <<rcvVars, ahead>>,
         fileOff \in Nat, fileOff' \in Nat, fileOff <= fileOff',
         \A i \in 0..fileOff'-1 : Acked(sb2, i)' => i < top,
         DataInFlight(top)', AcksInFlight(sb2, top)'
  PROVE  Receiving(sb2, top)'
<1>1. /\ ack_to_resend' = ack_to_resend /\ rcv_base' = rcv_base /\ rcv_buf' = rcv_buf
      /\ written' = written /\ ahead' = ahead
  BY DEF rcvVars
<1>2. LastAckOK(top)' /\ NothingAhead(top)'
  BY <1>1 DEF LastAckOK, NothingAhead, IsAckOf
<1> QED
  BY <1>2 DEF Receiving

\* The client's steps but for AcceptAck, while the server receives.
LEMMA ClientReceiving ==
  ASSUME TypeOK, FinalAcks, NEW sb \in 0..FileLen, SendWindow(sb), Timers(sb),
         rcvJob \in {"size", "recv"}, NEW top \in 0..fileOff, Receiving(sb, top),
         UNCHANGED <<rcvVars, ahead>>,
         \/ SendPacket \/ SendEof \/ TimeoutExpired \/ IgnoreAck \/ StartFinal \/ ReadFinalAck
  PROVE  SendWindow(sb)' /\ Timers(sb)' /\ top \in 0..fileOff' /\ Receiving(sb, top)'
<1>1. /\ sb \in Nat /\ fileOff \in Nat /\ fileOff <= sb + WS /\ top \in Nat /\ top <= fileOff
      /\ WS \in Nat /\ WS > 0
  BY SenderNumbers, Sizes DEF TypeOK
<1>2. \A i \in 0..fileOff-1 : Acked(sb, i) => i < top
  BY DEF Receiving
<1>3. \A q \in DOMAIN dataCh :
         dataCh[q] \in DataMsg /\ (dataCh[q].seq < N => dataCh[q].data \in 0..fileOff-1)
  <2>1. \A q \in DOMAIN dataCh : dataCh[q] \in DataMsg /\ DataMsgOK(top, dataCh[q])
    BY DEF TypeOK, SenderTypeOK, Receiving, DataInFlight
  <2>2. ~ (addSeqNum(FinalPacket).seq < N)
    BY FinalMsg, Sizes DEF DataMsg
  <2> QED
    BY <2>1, <2>2, <1>1, Sizes DEF DataMsgOK, DataMsg, Blocks
<1>4. CASE SendPacket
  <2>1. /\ SendWindow(sb)' /\ Timers(sb)'
        /\ fileOff' = fileOff + 1 /\ ackJob = "acks" /\ ackJob' = "acks" /\ ackCh' = ackCh
        /\ \A i \in 0..fileOff'-1 : Acked(sb, i)' => i \in 0..fileOff-1 /\ Acked(sb, i)
        /\ \E m \in DataMsg : /\ m.seq = Slot(fileOff) /\ m.seq < N /\ m.data = fileOff
                             /\ dataCh' \in Transmit(dataCh, m)
    BY <1>4, SendPacketKeeps DEF TypeOK
  <2>2. fileOff' \in Nat /\ fileOff <= fileOff' /\ top \in 0..fileOff'
    BY <2>1, <1>1
  <2>3. DataInFlight(top)'
    <3>1. PICK m \in DataMsg : /\ m.seq = Slot(fileOff) /\ m.seq < N /\ m.data = fileOff
                               /\ dataCh' \in Transmit(dataCh, m)
      BY <2>1
    <3>2. DataMsgOK(top, m)'
      BY <3>1, <2>1, <1>1 DEF DataMsgOK
    <3>3. \A q \in DOMAIN dataCh : dataCh[q].seq < N => dataCh[q].data < m.data + WS
      BY <3>1, <1>1, <1>3
    <3> QED
      BY <3>1, <3>2, <3>3, <2>1, <2>2, <1>1, DataKept DEF TypeOK, Receiving
  <2>4. AcksInFlight(sb, top)'
    BY <2>1, <2>2, <1>1, AcksKept DEF TypeOK, Receiving
  <2>5. \A i \in 0..fileOff'-1 : Acked(sb, i)' => i < top
    BY <2>1, <1>2
  <2> QED
    BY <2>1, <2>2, <2>3, <2>4, <2>5, <1>1, ReceivingKept DEF Receiving
<1>5. ASSUME /\ SendWindow(sb)' /\ Timers(sb)' /\ fileOff' = fileOff
             /\ \A i \in 0..fileOff-1 : Acked(sb, i)' => Acked(sb, i)
             /\ ackCh' = ackCh \/ (ackCh # <<>> /\ ackCh' = Tail(ackCh)),
             DataInFlight(top)'
      PROVE  SendWindow(sb)' /\ Timers(sb)' /\ top \in 0..fileOff' /\ Receiving(sb, top)'
  <2>1. AcksInFlight(sb, top)'
    BY <1>1, <1>5, AcksKept DEF TypeOK, Receiving
  <2>2. \A i \in 0..fileOff'-1 : Acked(sb, i)' => i < top
    BY <1>2, <1>5
  <2> QED
    BY <2>1, <2>2, <1>1, <1>5, ReceivingKept DEF Receiving
<1>6. CASE SendEof
  <2>1. /\ SendWindow(sb)' /\ Timers(sb)'
        /\ fileOff' = fileOff /\ ackJob' = ackJob /\ dataCh' = dataCh /\ ackCh' = ackCh
        /\ \A i \in 0..fileOff-1 : Acked(sb, i)' <=> Acked(sb, i)
    BY <1>6, SendEofKeeps DEF TypeOK
  <2>2. DataInFlight(top)'
    BY <2>1, <1>1, DataKept DEF TypeOK, Receiving
  <2> QED
    BY <2>1, <2>2, <1>5
<1>7. CASE TimeoutExpired
  <2>1. /\ SendWindow(sb)' /\ Timers(sb)'
        /\ fileOff' = fileOff /\ ackJob' = ackJob /\ ackCh' = ackCh
        /\ \A i : Acked(sb, i)' <=> Acked(sb, i)
        /\ \E m \in DataMsg : SentAgain(sb, m) /\ dataCh' \in Transmit(dataCh, m)
    BY <1>7, TimeoutExpiredKeeps DEF TypeOK
  <2>2. PICK m \in DataMsg : SentAgain(sb, m) /\ dataCh' \in Transmit(dataCh, m)
    BY <2>1
  <2>3. /\ DataMsgOK(top, m)'
        /\ m.seq < N => \A q \in DOMAIN dataCh : dataCh[q].seq < N => dataCh[q].data < m.data + WS
    <3>1. CASE ackJob = "final" /\ m = addSeqNum(FinalPacket) /\ m.seq >= N
      <4>1. ~ (m.seq < N)
        BY <3>1, Sizes DEF DataMsg
      <4> QED
        BY <3>1, <4>1, <2>1 DEF DataMsgOK
    <3>2. CASE \E i \in sb..fileOff-1 : m.seq = Slot(i) /\ m.seq < N /\ m.data = i
      <4>1. PICK i \in sb..fileOff-1 : m.seq = Slot(i) /\ m.seq < N /\ m.data = i
        BY <3>2
      <4>2. i \in Nat /\ fileOff <= i + WS
        BY <1>1
      <4>3. DataMsgOK(top, m)'
        BY <4>1, <4>2, <2>1, <1>1 DEF DataMsgOK
      <4> QED
        BY <4>1, <4>2, <4>3, <1>1, <1>3
    <3> QED
      BY <3>1, <3>2, <2>2 DEF SentAgain
  <2>4. DataInFlight(top)'
    BY <2>1, <2>2, <2>3, <1>1, DataKept DEF TypeOK, Receiving
  <2> QED
    BY <2>1, <2>4, <1>5
<1>8. CASE IgnoreAck
  <2>1. /\ UNCHANGED sndVars /\ dataCh' = dataCh /\ ackCh # <<>> /\ ackCh' = Tail(ackCh)
    BY <1>8 DEF IgnoreAck
  <2>2. /\ SendWindow(sb)' /\ Timers(sb)'
        /\ fileOff' = fileOff /\ ackJob' = ackJob
        /\ \A i : Acked(sb, i)' <=> Acked(sb, i)
    BY <2>1, SenderUnchanged
  <2>3. DataInFlight(top)'
    BY <2>1, <2>2, <1>1, DataKept DEF TypeOK, Receiving
  <2> QED
    BY <2>1, <2>2, <2>3, <1>5
<1>9. CASE StartFinal
  <2>1. /\ SendWindow(sb)' /\ Timers(sb)'
        /\ fileOff' = fileOff /\ ackJob = "acks" /\ ackJob' = "final" /\ ackCh' = ackCh
        /\ \A i : Acked(sb, i)' <=> Acked(sb, i)
        /\ dataCh' \in Transmit(dataCh, addSeqNum(FinalPacket))
    BY <1>9, StartFinalKeeps DEF TypeOK
  <2>2. PICK m : m = addSeqNum(FinalPacket)
    OBVIOUS
  <2>3. m \in DataMsg /\ ~ (m.seq < N)
    BY <2>2, FinalMsg, Sizes DEF DataMsg
  <2>4. DataMsgOK(top, m)'
    BY <2>1, <2>2 DEF DataMsgOK
  <2>5. DataInFlight(top)'
    BY <2>1, <2>2, <2>3, <2>4, <1>1, DataKept DEF TypeOK, Receiving
  <2> QED
    BY <2>1, <2>5, <1>5
<1>10. CASE ReadFinalAck
  <2>1. /\ SendWindow(sb)' /\ Timers(sb)'
        /\ fileOff' = fileOff /\ ackJob' # "acks"
        /\ ackCh # <<>> /\ ackCh' = Tail(ackCh) /\ dataCh' = dataCh
        /\ \A i \in 0..fileOff-1 : Acked(sb, i)' => Acked(sb, i)
    BY <1>10, ReadFinalAckKeeps DEF TypeOK
  <2>2. DataInFlight(top)'
    BY <2>1, <1>1, DataKept DEF TypeOK, Receiving
  <2> QED
    BY <2>1, <2>2, <1>5
<1> QED
  BY <1>4, <1>6, <1>7, <1>8, <1>9, <1>10

\* What the client reads is good, and not far ahead of what it will read.
LEMMA AckHead ==
  ASSUME TypeOK, NEW sb, NEW top, AcksInFlight(sb, top), ackCh # <<>>, NEW a, a = Head(ackCh)
  PROVE  /\ a \in AckMsg /\ AckMsgOK(sb, top, a)
         /\ \A q \in DOMAIN Tail(ackCh) :
              /\ q \in Int /\ q + 1 \in DOMAIN ackCh /\ Tail(ackCh)[q] = ackCh[q + 1]
              /\ a.seq \in Slots /\ Tail(ackCh)[q].seq \in Slots =>
                   a.blk < Tail(ackCh)[q].blk + WS
<1>1. /\ 1 \in DOMAIN ackCh /\ a = ackCh[1] /\ a \in AckMsg
      /\ \A q \in DOMAIN Tail(ackCh) : q \in Int /\ 1 < q + 1 /\ q + 1 \in DOMAIN ackCh
                                       /\ Tail(ackCh)[q] = ackCh[q + 1]
  BY AfterRead DEF TypeOK, SenderTypeOK
<1> QED
  BY <1>1 DEF AcksInFlight

\* The client's window moves by the ACK of a block that was received.
LEMMA AcceptAckReceiving ==
  ASSUME TypeOK, NEW sb \in 0..FileLen, SendWindow(sb), Timers(sb),
         NEW top \in 0..fileOff, Receiving(sb, top),
         AcceptAck, UNCHANGED <<rcvVars, ahead>>
  PROVE  \E sb2 \in 0..FileLen :
           SendWindow(sb2)' /\ Timers(sb2)' /\ top \in 0..fileOff' /\ Receiving(sb2, top)'
<1>1. PICK a : a = Head(ackCh)
  OBVIOUS
<1>2. PICK d : d = a.blk
  OBVIOUS
<1>3. /\ ackCh # <<>> /\ ackCh' = Tail(ackCh) /\ dataCh' = dataCh
      /\ fileOff' = fileOff /\ ackJob' = ackJob
      /\ a.seq # -1 /\ InSendWindow(a.seq, send_base)
  BY <1>1 DEF AcceptAck
<1>4. /\ a \in AckMsg /\ AckMsgOK(sb, top, a)
      /\ \A q \in DOMAIN Tail(ackCh) :
           /\ q \in Int /\ q + 1 \in DOMAIN ackCh /\ Tail(ackCh)[q] = ackCh[q + 1]
           /\ a.seq \in Slots /\ Tail(ackCh)[q].seq \in Slots => a.blk < Tail(ackCh)[q].blk + WS
  BY <1>1, <1>3, AckHead DEF Receiving
<1>5. /\ IsAckOf(a) /\ d < top
      /\ \A i \in 0..fileOff-1 : Acked(sb, i) => i < a.blk + WS
  BY <1>2, <1>3, <1>4 DEF AckMsgOK
<1>6. /\ sb \in Nat /\ fileOff \in Nat /\ top \in Nat /\ top <= fileOff
  BY SenderNumbers DEF TypeOK
<1>7. d \in sb..fileOff-1 /\ a.seq = Slot(d) /\ a.seq \in Slots
  <2>1. a.blk >= sb
    BY <1>3, <1>5, AckInWindow DEF TypeOK, IsAckOf
  <2> QED
    BY <2>1, <1>2, <1>5, <1>6 DEF IsAckOf
<1>8. PICK sb2 \in 0..FileLen :
        /\ SendWindow(sb2)' /\ Timers(sb2)'
        /\ \A i \in 0..fileOff-1 : Acked(sb2, i)' => Acked(sb, i) \/ i = d
  BY <1>1, <1>7, AcceptAckKeeps DEF TypeOK
<1>9. DataInFlight(top)'
  BY <1>3, <1>6, DataKept DEF TypeOK, Receiving
<1>10. AcksInFlight(sb2, top)'
  <2>1. ASSUME NEW q \in DOMAIN ackCh', NEW msg, msg = ackCh'[q]
        PROVE  AckMsgOK(sb2, top, msg)'
    <3>1. AckMsgOK(sb, top, msg)
      BY <1>3, <1>4, <2>1 DEF Receiving, AcksInFlight
    <3>2. msg.seq \in Slots => d < msg.blk + WS
      BY <2>1, <1>2, <1>3, <1>4, <1>7
    <3>3. msg.seq \in Slots => \A i \in 0..fileOff'-1 :
            Acked(sb2, i)' => i \in 0..fileOff-1 /\ (Acked(sb, i) \/ i < msg.blk + WS)
      BY <3>2, <1>3, <1>8
    <3> QED
      BY <3>1, <3>3, <1>3, <1>6, AckMsgKept
  <2>2. \A q \in DOMAIN ackCh' : AckMsgOK(sb2, top, ackCh[q])'
    BY <2>1 DEF AckMsgOK, IsAckOf
  <2>3. ASSUME NEW q \in DOMAIN ackCh', NEW r \in DOMAIN ackCh', q < r,
               ackCh'[q].seq \in Slots, ackCh'[r].seq \in Slots
        PROVE  ackCh'[q].blk < ackCh'[r].blk + WS
    <3>1. q + 1 < r + 1
      BY <1>3, <1>4, <2>3
    <3> QED
      BY <1>3, <1>4, <2>3, <3>1 DEF Receiving, AcksInFlight
  <2> QED
    BY <2>2, <2>3 DEF AcksInFlight
<1>11. \A i \in 0..fileOff'-1 : Acked(sb2, i)' => i < top
  BY <1>3, <1>5, <1>8 DEF Receiving
<1>12. Receiving(sb2, top)'
  BY <1>3, <1>6, <1>9, <1>10, <1>11, ReceivingKept DEF Receiving
<1> QED
  BY <1>3, <1>8, <1>12
-----------------------------------------------------------------------------
\* The client's steps, whether the server receives or has the file.
LEMMA ClientStep ==
  ASSUME TypeOK, FinalAcks, NEW sb \in 0..FileLen, WindowInv(sb),
         SenderNext, UNCHANGED <<rcvVars, ahead>>
  PROVE  \E sb2 \in 0..FileLen : WindowInv(sb2)'
<1>1. rcvJob' = rcvJob
  BY DEF rcvVars
<1>2. CASE rcvJob \in {"size", "recv"}
  <2>1. PICK top \in 0..fileOff : Receiving(sb, top)
    BY <1>2 DEF WindowInv
  <2>2. CASE AcceptAck
    <3>1. \E sb2 \in 0..FileLen :
            SendWindow(sb2)' /\ Timers(sb2)' /\ top \in 0..fileOff' /\ Receiving(sb2, top)'
      BY <2>1, <2>2, AcceptAckReceiving DEF WindowInv
    <3> QED
      BY <3>1, <1>1, <1>2 DEF WindowInv
  <2>3. CASE SendPacket \/ SendEof \/ TimeoutExpired \/ IgnoreAck \/ StartFinal \/ ReadFinalAck
    <3>1. SendWindow(sb)' /\ Timers(sb)' /\ top \in 0..fileOff' /\ Receiving(sb, top)'
      BY <1>2, <2>1, <2>3, ClientReceiving DEF WindowInv
    <3> QED
      BY <3>1, <1>1, <1>2 DEF WindowInv
  <2> QED
    BY <2>2, <2>3 DEF SenderNext
<1>3. CASE rcvJob \notin {"size", "recv"}
  <2>1. SendWindow(sb) /\ Timers(sb) /\ ackJob # "acks" /\ sendJob = "done"
    BY <1>3 DEF WindowInv, SendWindow
  <2>2. TimeoutExpired \/ ReadFinalAck
    BY <2>1 DEF SenderNext, SendPacket, SendEof, IgnoreAck, AcceptAck, AwaitsAcks, StartFinal
  <2>3. SendWindow(sb)' /\ Timers(sb)' /\ ackJob' # "acks"
    <3>1. CASE TimeoutExpired
      BY <3>1, <2>1, TimeoutExpiredKeeps DEF TypeOK
    <3>2. CASE ReadFinalAck
      BY <3>2, <2>1, ReadFinalAckKeeps DEF TypeOK
    <3> QED
      BY <2>2, <3>1, <3>2
  <2> QED
    BY <2>3, <1>1, <1>3 DEF WindowInv
<1> QED
  BY <1>2, <1>3

\* Until the server gives up, the slot of every ACK that passes the window test
\* holds the packet that it answers.
LEMMA AckedSlot ==
  ASSUME TypeOK, NEW sb \in 0..FileLen, SendWindow(sb), NEW top, AcksInFlight(sb, top),
         NEW q \in DOMAIN ackCh, NEW a, a = ackCh[q],
         a.seq # -1, InSendWindow(a.seq, send_base)
  PROVE  a.seq < N /\ snd_buf[a.seq] # NULL /\ snd_buf[a.seq].data = a.blk
<1>1. /\ IsAckOf(a) /\ \A i \in 0..fileOff-1 : Acked(sb, i) => i < a.blk + WS
  BY DEF AcksInFlight, AckMsgOK
<1>2. a.blk >= sb
  BY <1>1, AckInWindow DEF TypeOK, IsAckOf
<1>3. a.blk \in sb..fileOff-1 /\ a.seq = Slot(a.blk) /\ a.seq \in Slots
  BY <1>1, <1>2, SenderNumbers DEF IsAckOf, TypeOK
<1>4. IsPacketOf(snd_buf[Slot(a.blk)], a.blk)
  BY <1>3 DEF SendWindow
<1> QED
  BY <1>3, <1>4, Sizes DEF IsPacketOf, Slots

\* So the client does not crash.
LEMMA NoCrash ==
  ASSUME TypeOK, NEW sb \in 0..FileLen, WindowInv(sb), ClientCrashes
  PROVE  FALSE
<1>1. ackJob = "acks" /\ ackCh # <<>>
  BY DEF ClientCrashes, AwaitsAcks
<1>2. PICK top \in 0..fileOff : Receiving(sb, top)
  BY <1>1 DEF WindowInv
<1>3. 1 \in DOMAIN ackCh /\ Head(ackCh) = ackCh[1]
  BY <1>1, AfterRead DEF TypeOK, SenderTypeOK
<1> QED
  BY <1>2, <1>3, AckedSlot DEF ClientCrashes, WindowInv, Receiving

-----------------------------------------------------------------------------
\* What the server reads, and the code's window test on it.
LEMMA PacketRead ==
  ASSUME TypeOK, NEW sb \in 0..FileLen, SendWindow(sb),
         NEW top \in 0..fileOff, Receiving(sb, top), dataCh # <<>>,
         NEW m, m = Head(dataCh), m.seq < N
  PROVE  /\ m \in DataMsg /\ m.data \in 0..fileOff-1 /\ m.seq = Slot(m.data) /\ m.seq \in Slots
         /\ top <= m.data + WS /\ m.data < top + WR
         /\ InRcvWindow(m.seq, Slot(top)) <=> m.data >= top
         /\ \A q \in DOMAIN Tail(dataCh) : Tail(dataCh)[q].seq < N =>
              /\ Tail(dataCh)[q].data \in Nat
              /\ top <= Tail(dataCh)[q].data + WS /\ m.data < Tail(dataCh)[q].data + WS
<1>1. /\ 1 \in DOMAIN dataCh /\ m = dataCh[1] /\ m \in DataMsg
      /\ \A q \in DOMAIN Tail(dataCh) : q \in Int /\ 1 < q + 1 /\ q + 1 \in DOMAIN dataCh
                                        /\ Tail(dataCh)[q] = dataCh[q + 1]
  BY AfterRead DEF TypeOK, SenderTypeOK
<1>2. ASSUME NEW q \in DOMAIN dataCh, NEW x, x = dataCh[q], x.seq < N
      PROVE  x.data \in Nat /\ x.seq = Slot(x.data) /\ x.data < fileOff /\ top <= x.data + WS
  <2>1. x \in DataMsg /\ DataMsgOK(top, x)
    BY <1>2 DEF TypeOK, SenderTypeOK, Receiving, DataInFlight
  <2>2. ~ (addSeqNum(FinalPacket).seq < N)
    BY FinalMsg, Sizes DEF DataMsg
  <2> QED
    BY <1>2, <2>1, <2>2, Sizes DEF DataMsgOK, DataMsg, Blocks
<1>3. /\ sb \in Nat /\ fileOff \in Nat /\ fileOff <= sb + WS /\ sb <= fileOff /\ top \in Nat
  BY SenderNumbers DEF TypeOK
<1>4. sb <= top
  <2>1. CASE sb = 0
    BY <2>1, <1>3
  <2>2. CASE sb > 0
    <3>1. sb-1 \in 0..fileOff-1 /\ Acked(sb, sb-1)
      BY <2>2, <1>3 DEF Acked
    <3> QED
      BY <3>1, <1>3 DEF Receiving
  <2> QED
    BY <2>1, <2>2, <1>3
<1>5. m.data \in Nat /\ m.seq = Slot(m.data) /\ m.data < fileOff /\ top <= m.data + WS
  BY <1>1, <1>2
<1>6. m.data < top + WR /\ top <= m.data + (N - WR)
  BY <1>3, <1>4, <1>5, Sizes
<1>7. InRcvWindow(m.seq, Slot(top)) <=> m.data >= top
  BY <1>3, <1>5, <1>6, RcvWindowTest
<1>8. ASSUME NEW q \in DOMAIN Tail(dataCh), Tail(dataCh)[q].seq < N
      PROVE  /\ Tail(dataCh)[q].data \in Nat
             /\ top <= Tail(dataCh)[q].data + WS /\ m.data < Tail(dataCh)[q].data + WS
  BY <1>1, <1>2, <1>8 DEF Receiving, DataInFlight
<1> QED
  BY <1>1, <1>3, <1>5, <1>6, <1>7, <1>8, SlotType

\* A data packet is read and acknowledged: top rises when it is new.
LEMMA PacketAcked ==
  ASSUME TypeOK, NEW sb \in 0..FileLen, SendWindow(sb), Timers(sb),
         NEW top \in 0..fileOff, Receiving(sb, top), dataCh # <<>>,
         NEW m, m = Head(dataCh), m.seq < N,
         NEW top2, top2 = IF m.data < top THEN top ELSE m.data + 1,
         UNCHANGED sndVars, dataCh' = Tail(dataCh),
         ack_to_resend' = Ack(m), ackCh' \in Transmit(ackCh, Ack(m)),
         NothingAhead(top2)'
  PROVE  top2 \in 0..fileOff' /\ Receiving(sb, top2)'
<1>1. /\ m \in DataMsg /\ m.data \in 0..fileOff-1 /\ m.seq = Slot(m.data) /\ m.seq \in Slots
      /\ top <= m.data + WS
      /\ \A q \in DOMAIN Tail(dataCh) : Tail(dataCh)[q].seq < N =>
           /\ Tail(dataCh)[q].data \in Nat
           /\ top <= Tail(dataCh)[q].data + WS /\ m.data < Tail(dataCh)[q].data + WS
  BY PacketRead
<1>2. /\ fileOff' = fileOff /\ ackJob' = ackJob
      /\ \A i : Acked(sb, i)' <=> Acked(sb, i)
  BY SenderUnchanged
<1>3. fileOff \in Nat /\ top \in Nat /\ WS \in Nat /\ WS > 0
  BY SenderNumbers, Sizes DEF TypeOK
<1>4. /\ top2 \in Nat /\ top2 <= fileOff /\ top <= top2 /\ m.data < top2 /\ top2 <= m.data + WS
  BY <1>1, <1>3
<1>5. PICK a : a = Ack(m)
  OBVIOUS
<1>6. a \in AckMsg /\ a.seq = m.seq /\ a.blk = m.data
  BY <1>1, <1>5, AckType DEF Ack
<1>7. IsAckOf(a)'
  BY <1>1, <1>2, <1>6 DEF IsAckOf
<1>8. LastAckOK(top2)'
  BY <1>4, <1>5, <1>6, <1>7 DEF LastAckOK, IsAckOf
<1>9. \A i \in 0..fileOff'-1 : Acked(sb, i)' => i < top /\ i < top2
  BY <1>2, <1>3, <1>4 DEF Receiving
<1>10. DataInFlight(top2)'
  <2>1. \A q \in DOMAIN Tail(dataCh) : Tail(dataCh)[q].seq < N => top2 <= Tail(dataCh)[q].data + WS
    BY <1>1, <1>3
  <2> QED
    BY <2>1, <1>2, <1>3, DataRead DEF TypeOK, Receiving
<1>11. AcksInFlight(sb, top2)'
  <2>1. AckMsgOK(sb, top2, a)'
    <3>1. \A i \in 0..fileOff'-1 : Acked(sb, i)' => i < a.blk + WS
      BY <1>1, <1>2, <1>3, <1>6, <1>9
    <3> QED
      BY <3>1, <1>4, <1>6, <1>7 DEF AckMsgOK
  <2>2. \A q \in DOMAIN ackCh : ackCh[q].seq \in Slots => ackCh[q].blk < a.blk + WS
    <3>1. ASSUME NEW q \in DOMAIN ackCh, NEW b, b = ackCh[q], b.seq \in Slots
          PROVE  b.blk < a.blk + WS
      <4>1. b.seq # -1 /\ AckMsgOK(sb, top, b)
        BY <3>1, Sizes DEF Receiving, AcksInFlight, Slots
      <4>2. b.blk < top /\ b.blk \in 0..fileOff-1
        BY <4>1 DEF AckMsgOK, IsAckOf
      <4> QED
        BY <4>2, <1>1, <1>3, <1>6
    <3> QED
      BY <3>1
  <2>3. \A i \in 0..fileOff'-1 : Acked(sb, i)' => i \in 0..fileOff-1 /\ Acked(sb, i)
    BY <1>2
  <2> QED
    BY <2>1, <2>2, <2>3, <1>2, <1>3, <1>4, <1>5, <1>6, AcksKept DEF TypeOK, Receiving
<1> QED
  BY <1>2, <1>4, <1>8, <1>9, <1>10, <1>11 DEF Receiving
-----------------------------------------------------------------------------
\* The final packet is sent when every block was received, and then, if no
\* packet ever arrived ahead of its turn, every block is written.
LEMMA FinalRead ==
  ASSUME TypeOK, NEW sb \in 0..FileLen, SendWindow(sb),
         NEW top \in 0..fileOff, Receiving(sb, top), dataCh # <<>>, Head(dataCh).seq >= N
  PROVE  /\ ackJob # "acks"
         /\ ~ahead => written = [i \in 1..FileLen |-> i - 1]
<1>1. PICK m : m = Head(dataCh)
  OBVIOUS
<1>2. m \in DataMsg /\ DataMsgOK(top, m)
  BY <1>1, AfterRead DEF TypeOK, SenderTypeOK, Receiving, DataInFlight
<1>3. ~ (m.seq < N)
  BY <1>1, <1>2, Sizes DEF DataMsg
<1>4. ackJob # "acks"
  BY <1>2, <1>3 DEF DataMsgOK
<1>5. sb = FileLen /\ fileOff = FileLen /\ FileLen \in Nat /\ top \in Nat
  BY <1>4, SenderNumbers, Sizes DEF SendWindow, TypeOK
<1>6. top = FileLen
  <2>1. CASE FileLen = 0
    BY <1>5, <2>1
  <2>2. CASE FileLen > 0
    <3>1. FileLen-1 \in 0..fileOff-1 /\ Acked(sb, FileLen-1)
      BY <1>5, <2>2 DEF Acked
    <3>2. FileLen-1 < top
      BY <3>1 DEF Receiving
    <3> QED
      BY <3>2, <1>5
  <2> QED
    BY <1>5, <2>1, <2>2
<1> QED
  BY <1>4, <1>6 DEF Receiving, NothingAhead

\* rcvFile reads a data packet.
LEMMA PacketStep ==
  ASSUME TypeOK, NEW sb \in 0..FileLen, SendWindow(sb), Timers(sb),
         NEW top \in 0..fileOff, Receiving(sb, top), ReceiveOld \/ ReceiveNew
  PROVE  \E top2 \in 0..fileOff' : Receiving(sb, top2)'
<1>1. PICK m : m = Head(dataCh)
  OBVIOUS
<1>2. PICK top2 : top2 = IF m.data < top THEN top ELSE m.data + 1
  OBVIOUS
<1>3. /\ dataCh # <<>> /\ m.seq < N /\ UNCHANGED sndVars /\ dataCh' = Tail(dataCh)
      /\ ack_to_resend' = Ack(m) /\ ackCh' \in Transmit(ackCh, Ack(m))
  BY <1>1 DEF ReceiveOld, ReceiveNew
<1>4. /\ m.data \in 0..fileOff-1 /\ m.seq = Slot(m.data) /\ m.seq \in Slots
      /\ top <= m.data + WS /\ m.data < top + WR
      /\ InRcvWindow(m.seq, Slot(top)) <=> m.data >= top
  BY <1>1, <1>3, PacketRead
<1>5. fileOff \in Nat /\ top \in Nat /\ m.data \in Nat
  BY <1>4, SenderNumbers DEF TypeOK
<1>6. ASSUME ~ahead
      PROVE  /\ rcv_base = Slot(top) /\ rcv_buf = [p \in Slots |-> NULL]
             /\ written = [i \in 1..top |-> i - 1]
  BY <1>6 DEF Receiving, NothingAhead
<1>7. NothingAhead(top2)'
  <2>1. CASE ReceiveOld
    <3>1. /\ rcv_base' = rcv_base /\ rcv_buf' = rcv_buf /\ written' = written /\ ahead' = ahead
          /\ InRcvWindow(m.seq, rcv_base) => rcv_buf[m.seq] # NULL
      BY <2>1, <1>1 DEF ReceiveOld
    <3>2. ~ahead => top2 = top
      BY <3>1, <1>2, <1>4, <1>5, <1>6
    <3> QED
      BY <3>1, <3>2, <1>6 DEF NothingAhead
  <2>2. CASE ReceiveNew /\ m.seq # rcv_base
    <3>1. ahead' = TRUE
      BY <2>2, <1>1 DEF ReceiveNew
    <3> QED
      BY <3>1 DEF NothingAhead
  <2>3. CASE ReceiveNew /\ m.seq = rcv_base
    <3>1. /\ rcv_base' = (rcv_base + 1) % N /\ rcv_buf' = [p \in Slots |-> NULL]
          /\ written' = Append(written, m.data) /\ ahead' = ahead
      BY <2>3, <1>1 DEF ReceiveNew, ClearedBuf
    <3>2. SUFFICES ASSUME ~ahead
                   PROVE  /\ rcv_base' = Slot(top2)
                          /\ written' = [i \in 1..top2 |-> i - 1]
      BY <3>1 DEF NothingAhead
    <3>3. m.data = top
      <4>1. m.data < top + N /\ top < m.data + N
        BY <1>4, <1>5, Sizes
      <4> QED
        BY <4>1, <2>3, <3>2, <1>4, <1>5, <1>6, SlotInjective
    <3>4. top2 = top + 1
      BY <3>3, <1>2, <1>5
    <3>5. (Slot(top) + 1) % N = Slot(top + 1)
      BY <1>5, SlotMove, Sizes
    <3>6. Append([i \in 1..top |-> i - 1], top) = [i \in 1..top+1 |-> i - 1]
      BY <1>5
    <3> QED
      BY <3>1, <3>2, <3>3, <3>4, <3>5, <3>6, <1>6
  <2> QED
    BY <2>1, <2>2, <2>3
<1> QED
  BY <1>1, <1>2, <1>3, <1>7, PacketAcked

\* rcvFile's timer fires: the ACK that it repeats is not far behind.
LEMMA TimeoutStep ==
  ASSUME TypeOK, NEW sb \in 0..FileLen, SendWindow(sb), Timers(sb),
         NEW top \in 0..fileOff, Receiving(sb, top), RcvTimeout, UNCHANGED ahead
  PROVE  top \in 0..fileOff' /\ Receiving(sb, top)'
<1>1. PICK a : a = ack_to_resend
  OBVIOUS
<1>2. /\ UNCHANGED sndVars /\ dataCh' = dataCh /\ ackCh' \in Transmit(ackCh, a)
      /\ ack_to_resend' = a /\ rcv_base' = rcv_base /\ rcv_buf' = rcv_buf
      /\ written' = written /\ ahead' = ahead
  BY <1>1 DEF RcvTimeout
<1>3. /\ fileOff' = fileOff /\ ackJob' = ackJob
      /\ \A i : Acked(sb, i)' <=> Acked(sb, i)
  BY <1>2, SenderUnchanged
<1>4. fileOff \in Nat /\ top \in Nat /\ WS \in Nat
  BY SenderNumbers, Sizes DEF TypeOK
<1>5. a \in AckMsg /\ (a.seq = -1 \/ (IsAckOf(a) /\ a.blk < top /\ top <= a.blk + WS))
  BY <1>1 DEF TypeOK, ReceiverTypeOK, Receiving, LastAckOK
<1>6. LastAckOK(top)' /\ NothingAhead(top)'
  BY <1>1, <1>2, <1>3 DEF Receiving, LastAckOK, IsAckOf, NothingAhead
<1>7. DataInFlight(top)'
  BY <1>2, <1>3, <1>4, DataKept DEF TypeOK, Receiving
<1>8. AcksInFlight(sb, top)'
  <2>1. a.seq \in Slots => IsAckOf(a) /\ a.blk < top /\ top <= a.blk + WS /\ a.blk \in Nat
    BY <1>4, <1>5, Sizes DEF Slots, IsAckOf
  <2>2. AckMsgOK(sb, top, a)'
    <3>1. CASE a.seq = -1
      BY <3>1 DEF AckMsgOK
    <3>2. CASE IsAckOf(a) /\ a.blk < top /\ top <= a.blk + WS
      <4>1. \A i \in 0..fileOff'-1 : Acked(sb, i)' => i < a.blk + WS
        BY <3>2, <1>3, <1>4 DEF Receiving, IsAckOf
      <4>2. IsAckOf(a)'
        BY <3>2, <1>3 DEF IsAckOf
      <4> QED
        BY <3>2, <4>1, <4>2 DEF AckMsgOK
    <3> QED
      BY <1>5, <3>1, <3>2
  <2>3. ASSUME NEW q \in DOMAIN ackCh, NEW b, b = ackCh[q], b.seq \in Slots, a.seq \in Slots
        PROVE  b.blk < a.blk + WS
    <3>1. b.seq # -1 /\ AckMsgOK(sb, top, b)
      BY <2>3, Sizes DEF Receiving, AcksInFlight, Slots
    <3>2. b.blk < top /\ b.blk \in 0..fileOff-1
      BY <3>1 DEF AckMsgOK, IsAckOf
    <3> QED
      BY <3>2, <2>1, <2>3, <1>4
  <2>4. \A i \in 0..fileOff'-1 : Acked(sb, i)' => i \in 0..fileOff-1 /\ Acked(sb, i)
    BY <1>3
  <2> QED
    BY <2>2, <2>3, <2>4, <1>2, <1>3, <1>4, <1>5, AcksKept DEF TypeOK, Receiving
<1> QED
  BY <1>3, <1>4, <1>6, <1>7, <1>8 DEF Receiving

\* The datagram taken for the file's size may be any.
LEMMA SizeStep ==
  ASSUME TypeOK, NEW sb \in 0..FileLen, SendWindow(sb), Timers(sb),
         NEW top \in 0..fileOff, Receiving(sb, top), ReadSize
  PROVE  top \in 0..fileOff' /\ Receiving(sb, top)'
<1>1. /\ UNCHANGED sndVars /\ dataCh # <<>> /\ dataCh' = Tail(dataCh) /\ ackCh' = ackCh
      /\ ack_to_resend' = ack_to_resend /\ rcv_base' = rcv_base /\ rcv_buf' = rcv_buf
      /\ written' = written /\ ahead' = ahead
  BY DEF ReadSize
<1>2. /\ fileOff' = fileOff /\ ackJob' = ackJob
      /\ \A i : Acked(sb, i)' <=> Acked(sb, i)
  BY <1>1, SenderUnchanged
<1>3. fileOff \in Nat /\ top \in Nat
  BY SenderNumbers DEF TypeOK
<1>4. LastAckOK(top)' /\ NothingAhead(top)'
  BY <1>1, <1>2 DEF Receiving, LastAckOK, IsAckOf, NothingAhead
<1>5. DataInFlight(top)'
  <2>1. ASSUME NEW q \in DOMAIN Tail(dataCh), NEW m, m = Tail(dataCh)[q], m.seq < N
        PROVE  top <= m.data + WS
    <3>1. m \in DataMsg /\ DataMsgOK(top, m)
      BY <2>1, <1>1, AfterRead DEF TypeOK, SenderTypeOK, Receiving, DataInFlight
    <3>2. ~ (addSeqNum(FinalPacket).seq < N)
      BY FinalMsg, Sizes DEF DataMsg
    <3> QED
      BY <2>1, <3>1, <3>2 DEF DataMsgOK
  <2> QED
    BY <2>1, <1>1, <1>2, <1>3, DataRead DEF TypeOK, Receiving
<1>6. AcksInFlight(sb, top)'
  BY <1>1, <1>2, <1>3, AcksKept DEF TypeOK, Receiving
<1> QED
  BY <1>2, <1>3, <1>4, <1>5, <1>6 DEF Receiving

-----------------------------------------------------------------------------
\* The server's steps, until it gives up.
LEMMA ServerStep ==
  ASSUME TypeOK, FinalAcks, ~GaveUp, NEW sb \in 0..FileLen, WindowInv(sb),
         \/ ReadSize \/ ReceiveOld \/ ReceiveNew \/ ReceiveFinal
         \/ RcvTimeout /\ UNCHANGED ahead
         \/ EndPut \/ AnswerCommand
  PROVE  WindowInv(sb)'
<1>1. UNCHANGED sndVars
  BY DEF ReadSize, ReceiveOld, ReceiveNew, ReceiveFinal, RcvTimeout, EndPut, AnswerCommand
<1>2. SendWindow(sb)' /\ Timers(sb)' /\ ackJob' = ackJob
  BY <1>1, SenderUnchanged DEF WindowInv
<1>3. CASE ReadSize \/ ReceiveOld \/ ReceiveNew \/ (RcvTimeout /\ UNCHANGED ahead)
  <2>1. rcvJob \in {"size", "recv"} /\ rcvJob' \in {"size", "recv"}
    BY <1>3 DEF ReadSize, ReceiveOld, ReceiveNew, RcvTimeout
  <2>2. PICK top \in 0..fileOff : Receiving(sb, top)
    BY <2>1 DEF WindowInv
  <2>3. \E top2 \in 0..fileOff' : Receiving(sb, top2)'
    BY <1>3, <2>2, SizeStep, PacketStep, TimeoutStep DEF WindowInv
  <2> QED
    BY <1>2, <2>1, <2>3 DEF WindowInv
<1>4. CASE ReceiveFinal
  <2>1. rcvJob = "recv" /\ rcvJob' = "done" /\ dataCh # <<>> /\ Head(dataCh).seq >= N
    BY <1>4 DEF ReceiveFinal
  <2>2. ackJob # "acks"
    BY <2>1, FinalRead DEF WindowInv
  <2> QED
    BY <1>2, <2>1, <2>2 DEF WindowInv
<1>5. CASE EndPut \/ AnswerCommand
  <2>1. rcvJob \notin {"size", "recv"} /\ rcvJob' \notin {"size", "recv"}
    BY <1>5 DEF EndPut, AnswerCommand, rcvVars
  <2> QED
    BY <1>2, <2>1 DEF WindowInv
<1> QED
  BY <1>3, <1>4, <1>5

\* A server that gave up does not take it back.
LEMMA GaveUpStays ==
  ASSUME TypeOK, FinalAcks, GaveUp, [Next]_vars
  PROVE  GaveUp' /\ rcvJob' # "done"
<1>1. rcvJob \in {"gaveup", "command"} /\ ack_to_resend.seq < N
  BY DEF GaveUp, FinalAcks
<1>2. rcvJob' \in {"gaveup", "command"} /\ ack_to_resend' = ack_to_resend
  BY <1>1
  DEF Next, PatientNext, Terminated, ClientSendPacket, ClientSendEof, ClientTimeoutExpired,
      ClientReadAck, ClientStartFinal, ClientReadFinalAck, ClientCrashes, ReadSize, ReceiveOld,
      ReceiveNew, ReceiveFinal, RcvTimeout, GiveUp, EndPut, AnswerCommand, vars, rcvVars
<1> QED
  BY <1>1, <1>2 DEF GaveUp

\* The invariant holds at first: nothing was received.
LEMMA InvInit == Init => IInv
<1> SUFFICES ASSUME Init
             PROVE  IInv
  OBVIOUS
<1>1. TypeOK
  BY TypeInit
<1>2. SendWindow(0) /\ Timers(0)
  BY SenderInitWindow DEF Init
<1>3. /\ rcvJob \in {"size", "recv"} /\ ack_to_resend = [seq |-> -1, blk |-> -1]
      /\ dataCh = <<>> /\ ackCh = <<>> /\ fileOff = 0 /\ ackJob = "acks"
      /\ rcv_base = 0 /\ rcv_buf = [p \in Slots |-> NULL] /\ written = <<>>
  BY DEF Init, SenderInit, ReceiverInit
<1>4. FinalAcks /\ WholeIfNeverAhead
  BY <1>3, Sizes DEF FinalAcks, WholeIfNeverAhead, UploadedFileIsWhole
<1>5. Receiving(0, 0)
  <2>1. LastAckOK(0)
    BY <1>3 DEF LastAckOK
  <2>2. NothingAhead(0)
    <3>1. written = [i \in 1..0 |-> i - 1]
      BY <1>3
    <3> QED
      BY <1>3, <3>1, SlotZero DEF NothingAhead
  <2>3. DataInFlight(0) /\ AcksInFlight(0, 0)
    BY <1>3 DEF DataInFlight, AcksInFlight
  <2> QED
    BY <1>3, <2>1, <2>2, <2>3 DEF Receiving
<1>6. 0 \in 0..FileLen /\ WindowInv(0)
  BY <1>2, <1>3, <1>5, Sizes DEF WindowInv
<1> QED
  BY <1>1, <1>4, <1>6 DEF IInv

\* Every step keeps it.
LEMMA InvStep == IInv /\ [Next]_vars => IInv'
<1> SUFFICES ASSUME IInv, [Next]_vars
             PROVE  IInv'
  OBVIOUS
<1>1. TypeOK /\ FinalAcks /\ WholeIfNeverAhead /\ TypeOK'
  BY TypeStep DEF IInv
<1>2. CASE GaveUp
  <2>1. GaveUp' /\ rcvJob' # "done"
    BY <1>1, <1>2, GaveUpStays
  <2>2. FinalAcks'
    <3>1. CASE (SenderNext \/ ClientCrashes) /\ UNCHANGED <<rcvVars, ahead>>
      BY <1>1, <3>1, ClientFinalAcks
    <3>2. CASE \/ ReadSize \/ ReceiveOld \/ ReceiveNew \/ ReceiveFinal
               \/ RcvTimeout \/ GiveUp \/ EndPut \/ AnswerCommand
      BY <1>1, <3>2, ServerFinalAcks
    <3>3. CASE UNCHANGED vars
      BY <1>1, <3>3 DEF FinalAcks, Received, vars, sndVars, rcvVars
    <3> QED
      BY <3>1, <3>2, <3>3
      DEF Next, PatientNext, Terminated, SenderNext, ClientSendPacket, ClientSendEof,
          ClientTimeoutExpired, ClientReadAck, ClientStartFinal, ClientReadFinalAck,
          ClientCrashes, rcvVars
  <2>3. WholeIfNeverAhead'
    BY <2>1 DEF WholeIfNeverAhead, UploadedFileIsWhole
  <2> QED
    BY <1>1, <2>1, <2>2, <2>3 DEF IInv
<1>3. CASE ~GaveUp
  <2>1. PICK sb \in 0..FileLen : WindowInv(sb)
    BY <1>3 DEF IInv
  <2>2. CASE SenderNext /\ UNCHANGED <<rcvVars, ahead>>
    <3>1. \E sb2 \in 0..FileLen : WindowInv(sb2)'
      BY <1>1, <2>1, <2>2, ClientStep
    <3>2. FinalAcks'
      BY <1>1, <2>2, ClientFinalAcks
    <3>3. WholeIfNeverAhead'
      BY <1>1, <2>2 DEF WholeIfNeverAhead, UploadedFileIsWhole, rcvVars
    <3> QED
      BY <1>1, <3>1, <3>2, <3>3 DEF IInv
  <2>3. CASE ClientCrashes
    BY <1>1, <2>1, <2>3, NoCrash
  <2>4. CASE \/ ReadSize \/ ReceiveOld \/ ReceiveNew \/ ReceiveFinal
             \/ RcvTimeout /\ UNCHANGED ahead
             \/ EndPut \/ AnswerCommand
    <3>1. WindowInv(sb)'
      BY <1>1, <1>3, <2>1, <2>4, ServerStep
    <3>2. FinalAcks'
      BY <1>1, <2>4, ServerFinalAcks
    <3>3. WholeIfNeverAhead'
      <4>1. CASE ReceiveFinal
        <5>1. /\ rcvJob = "recv" /\ dataCh # <<>> /\ Head(dataCh).seq >= N
              /\ written' = written /\ ahead' = ahead
          BY <4>1 DEF ReceiveFinal
        <5>2. ~ahead => written = [i \in 1..FileLen |-> i - 1]
          BY <1>1, <2>1, <5>1, FinalRead DEF WindowInv
        <5> QED
          BY <5>1, <5>2 DEF WholeIfNeverAhead, UploadedFileIsWhole
      <4>2. CASE \/ ReadSize \/ ReceiveOld \/ ReceiveNew
                 \/ RcvTimeout /\ UNCHANGED ahead
                 \/ EndPut \/ AnswerCommand
        <5>1. rcvJob' # "done"
          BY <4>2 DEF ReadSize, ReceiveOld, ReceiveNew, RcvTimeout, EndPut, AnswerCommand, rcvVars
        <5> QED
          BY <5>1 DEF WholeIfNeverAhead, UploadedFileIsWhole
      <4> QED
        BY <2>4, <4>1, <4>2
    <3> QED
      BY <1>1, <2>1, <3>1, <3>2, <3>3 DEF IInv
  <2>5. CASE GiveUp
    <3>1. rcvJob' = "gaveup"
      BY <2>5 DEF GiveUp
    <3>2. FinalAcks'
      BY <1>1, <2>5, ServerFinalAcks
    <3>3. GaveUp' /\ WholeIfNeverAhead'
      BY <3>1 DEF GaveUp, WholeIfNeverAhead, UploadedFileIsWhole
    <3> QED
      BY <1>1, <3>2, <3>3 DEF IInv
  <2>6. CASE UNCHANGED vars
    <3>1. UNCHANGED sndVars /\ UNCHANGED <<dataCh, ackCh, rcv_base, rcv_buf, written,
                                          ack_to_resend, rcvJob, ahead>>
      BY <2>6 DEF vars, rcvVars
    <3>2. SendWindow(sb)' /\ Timers(sb)' /\ fileOff' = fileOff /\ ackJob' = ackJob
          /\ \A i : Acked(sb, i)' <=> Acked(sb, i)
      BY <2>1, <3>1, SenderUnchanged DEF WindowInv
    <3>3. ASSUME NEW top \in 0..fileOff, Receiving(sb, top)
          PROVE  Receiving(sb, top)'
      BY <3>1, <3>2, <3>3
      DEF Receiving, DataInFlight, DataMsgOK, AcksInFlight, AckMsgOK, IsAckOf, LastAckOK,
          NothingAhead
    <3>4. WindowInv(sb)'
      BY <2>1, <3>1, <3>2, <3>3 DEF WindowInv
    <3>5. FinalAcks' /\ WholeIfNeverAhead'
      BY <1>1, <3>1, <3>2 DEF FinalAcks, Received, WholeIfNeverAhead, UploadedFileIsWhole
    <3> QED
      BY <1>1, <2>1, <3>4, <3>5 DEF IInv
  <2> QED
    BY <2>2, <2>3, <2>4, <2>5, <2>6
    DEF Next, PatientNext, Terminated, SenderNext, ClientSendPacket, ClientSendEof,
        ClientTimeoutExpired, ClientReadAck, ClientStartFinal, ClientReadFinalAck
<1> QED
  BY <1>2, <1>3

\* IInv is an invariant of Upload.
THEOREM InvariantCorrect == Spec => []IInv
<1>1. Init => IInv
  BY InvInit
<1>2. IInv /\ [Next]_vars => IInv'
  BY InvStep
<1> QED
  BY <1>1, <1>2, PTL DEF Spec

-----------------------------------------------------------------------------
\* The client prints "File sent" only after the server has taken the final
\* packet, whatever the server's command loop answers to strays.
THEOREM SentOnlyWhenReceivedCorrect == Spec => []SentOnlyWhenReceived
<1>1. IInv => SentOnlyWhenReceived
  BY DEF IInv, FinalAcks, Received, SentOnlyWhenReceived
<1> QED
  BY <1>1, InvariantCorrect, PTL

\* A finished upload that nothing ever arrived ahead of its turn in is whole,
\* whatever was lost or sent again.
THEOREM WholeIfNeverAheadCorrect == Spec => []WholeIfNeverAhead
<1>1. IInv => WholeIfNeverAhead
  BY DEF IInv
<1> QED
  BY <1>1, InvariantCorrect, PTL

\* Until the server gives up, the client takes no ACK for that of another packet
\* and its timer list names what is unacknowledged.
THEOREM RightUnlessGivenUpCorrect == Spec => []RightUnlessGivenUp
<1>1. ASSUME IInv, ~GaveUp PROVE NoAckMistaken /\ TimersMatchWindow
  <2>1. PICK sb \in 0..FileLen : WindowInv(sb)
    BY <1>1 DEF IInv
  <2>2. TimersMatchWindow
    BY <1>1, <2>1, TimersMatch DEF IInv, TypeOK, WindowInv
  <2>3. NoAckMistaken
    <3>1. SUFFICES ASSUME ackJob = "acks", NEW q \in DOMAIN ackCh, NEW a, a = ackCh[q],
                          a.seq # -1, InSendWindow(a.seq, send_base)
                   PROVE  a.seq < N /\ snd_buf[a.seq] # NULL /\ snd_buf[a.seq].data = a.blk
      BY DEF NoAckMistaken
    <3>2. PICK top \in 0..fileOff : Receiving(sb, top)
      BY <2>1, <3>1 DEF WindowInv
    <3> QED
      BY <1>1, <2>1, <3>1, <3>2, AckedSlot DEF IInv, WindowInv, Receiving
  <2> QED
    BY <2>2, <2>3
<1>2. IInv => RightUnlessGivenUp
  BY <1>1 DEF RightUnlessGivenUp
<1> QED
  BY <1>2, InvariantCorrect, PTL
=============================================================================
