----------------------------- MODULE UploadInv -----------------------------
(***************************************************************************)
(* The inductive invariant of Upload.  The server's receiver forgets       *)
(* packets, so what it has stored says nothing of what it has acknowledged *)
(* (unlike in Download).  What does is top: one more than the highest      *)
(* block that it ever received.  Until the server gives up, no datagram in *)
(* flight lags more than WS behind top, and every ACK is of a block below  *)
(* it.                                                                     *)
(***************************************************************************)
EXTENDS Upload, SenderInv

Received == rcvJob \in {"done", "command"} /\ ack_to_resend.seq >= N

\* A final ACK is sent by a server that has returned with the file, only.
FinalAcks ==
  /\ rcvJob \in {"size", "recv", "gaveup"} => ack_to_resend.seq < N
  /\ rcvJob = "done" => ack_to_resend.seq >= N
  /\ \A q \in DOMAIN ackCh : ackCh[q].seq >= N => Received
  /\ ackJob = "done" => Received

DataMsgOK(top, m) ==
  \/ m.seq < N /\ m.seq = Slot(m.data) /\ m.data < fileOff /\ top <= m.data + WS
  \/ m = addSeqNum(FinalPacket) /\ ackJob # "acks"

DataInFlight(top) ==
  /\ \A q \in DOMAIN dataCh : DataMsgOK(top, dataCh[q])
  /\ \A q, r \in DOMAIN dataCh :
       q < r /\ dataCh[q].seq < N /\ dataCh[r].seq < N =>
         dataCh[q].data < dataCh[r].data + WS

IsAckOf(a) == a.seq \in Slots /\ a.blk \in 0..fileOff-1 /\ a.seq = Slot(a.blk)

AckMsgOK(sb, top, a) ==
  \/ a.seq = -1
  \/ /\ IsAckOf(a) /\ a.blk < top
     /\ \A i \in 0..fileOff-1 : Acked(sb, i) => i < a.blk + WS

AcksInFlight(sb, top) ==
  /\ \A q \in DOMAIN ackCh : AckMsgOK(sb, top, ackCh[q])
  /\ \A q, r \in DOMAIN ackCh :
       q < r /\ ackCh[q].seq \in Slots /\ ackCh[r].seq \in Slots =>
         ackCh[q].blk < ackCh[r].blk + WS

LastAckOK(top) ==
  LET a == ack_to_resend
  IN  a.seq = -1 \/ (IsAckOf(a) /\ a.blk < top /\ top <= a.blk + WS)

\* As long as nothing arrived ahead of its turn, nothing is stored, and what was
\* received is written.
NothingAhead(top) ==
  ~ahead =>
    /\ rcv_base = Slot(top) /\ rcv_buf = [p \in Slots |-> NULL]
    /\ written = [i \in 1..top |-> i - 1]

Receiving(sb, top) ==
  /\ \A i \in 0..fileOff-1 : Acked(sb, i) => i < top
  /\ DataInFlight(top)
  /\ AcksInFlight(sb, top)
  /\ LastAckOK(top)
  /\ NothingAhead(top)

WindowInv(sb) ==
  /\ SendWindow(sb)
  /\ Timers(sb)
  /\ IF rcvJob \in {"size", "recv"}
     THEN \E top \in 0..fileOff : Receiving(sb, top)
     ELSE ackJob # "acks"

IInv ==
  /\ TypeOK /\ FinalAcks /\ WholeIfNeverAhead
  /\ ~GaveUp => \E sb \in 0..FileLen : WindowInv(sb)
=============================================================================
