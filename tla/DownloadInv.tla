---------------------------- MODULE DownloadInv ----------------------------
(***************************************************************************)
(* The inductive invariant of Download.  The program keeps every position  *)
(* modulo N; the invariant speaks of blocks by their place in the file.    *)
(* The server's window starts at block sb (send_base = Slot(sb)) and ends    *)
(* before block fileOff; the client's starts at block Len(written).        *)
(***************************************************************************)
EXTENDS Download, SenderInv

\* The client's buffer holds blocks it may not write yet, each in its slot.
RcvWindow ==
  /\ rcv_base = Slot(Len(written)) /\ Len(written) <= fileOff
  /\ \A i \in DOMAIN written : written[i] = i - 1
  /\ \A p \in Slots : rcv_buf[p] # NULL =>
       /\ rcv_buf[p] \in Len(written)+1 .. Len(written)+WR-1
       /\ rcv_buf[p] < fileOff
       /\ p = Slot(rcv_buf[p])

Stored(i) == i < Len(written) \/ rcv_buf[Slot(i)] = i

AckedAreStored(sb) ==
  /\ sb <= Len(written)
  /\ \A i \in sb..fileOff-1 : snd_buf[Slot(i)].acked => Stored(i)

\* No datagram lags more than WS behind what its receiver already has: the
\* channels are queues, so a block overtaken by WS others is not in them.
DataMsgOK(m) ==
  \/ /\ m.seq < N /\ m.seq = Slot(m.data) /\ m.data < fileOff
     /\ \A i \in 0..fileOff-1 : Stored(i) => i < m.data + WS
  \/ m = addSeqNum(FinalPacket) /\ ackJob # "acks"

AckMsgOK(sb, a) ==
  \/ a.seq = -1
  \/ /\ a.seq \in Slots /\ a.blk \in 0..fileOff-1 /\ a.seq = Slot(a.blk)
     /\ Stored(a.blk)
     /\ \A i \in 0..fileOff-1 : Acked(sb, i) => i < a.blk + WS
  \/ a.seq >= N /\ rcvJob = "done"

LastAckOK ==
  LET a == ack_to_resend
  IN  \/ a.seq = -1
      \/ /\ a.seq \in Slots /\ a.blk \in 0..fileOff-1 /\ a.seq = Slot(a.blk)
         /\ Stored(a.blk)
         /\ \A i \in 0..fileOff-1 : Stored(i) => i < a.blk + WS
      \/ a.seq >= N /\ rcvJob = "done"

DataInFlight ==
  /\ \A q \in DOMAIN dataCh : DataMsgOK(dataCh[q])
  /\ \A q, r \in DOMAIN dataCh :
       q < r /\ dataCh[q].seq < N /\ dataCh[r].seq < N =>
         dataCh[q].data < dataCh[r].data + WS

AcksInFlight(sb) ==
  /\ \A q \in DOMAIN ackCh : AckMsgOK(sb, ackCh[q])
  /\ \A q, r \in DOMAIN ackCh :
       q < r /\ ackCh[q].seq \in Slots /\ ackCh[r].seq \in Slots =>
         ackCh[q].blk < ackCh[r].blk + WS

\* The server ends after the client, which ends after the last block.
Ending ==
  /\ rcvJob = "done" => ackJob # "acks"
  /\ ackJob = "done" => rcvJob = "done"

WindowInv(sb) ==
  /\ SendWindow(sb)
  /\ Timers(sb)
  /\ RcvWindow
  /\ AckedAreStored(sb)
  /\ DataInFlight
  /\ AcksInFlight(sb)
  /\ LastAckOK
  /\ Ending

IInv == TypeOK /\ \E sb \in 0..FileLen : WindowInv(sb)
=============================================================================
