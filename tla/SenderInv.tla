----------------------------- MODULE SenderInv -----------------------------
(***************************************************************************)
(* What holds of the sender in every transfer.  The program keeps every    *)
(* position modulo N; here blocks are named by their place in the file.    *)
(* The sender's window starts at block sb (send_base = Slot(sb)) and ends  *)
(* before block fileOff.                                                   *)
(***************************************************************************)
EXTENDS SRReceiver

Slot(i) == i % N

FinalPacket == [data |-> FileLen, seqnum |-> Slot(FileLen) + N,
                acked |-> FALSE, finished |-> TRUE]

IsPacketOf(pkt, i) ==
  pkt # NULL /\ pkt.data = i /\ pkt.seqnum = Slot(i) /\ ~pkt.finished

\* The sender's buffer holds blocks sb..fileOff-1, each in its slot, then the
\* final packet from the end of the file to the end of the transfer.
SendWindow(sb) ==
  /\ sb <= fileOff /\ fileOff <= sb + WS
  /\ send_base = Slot(sb) /\ next_tosend = Slot(fileOff)
  /\ \A i \in sb..fileOff-1 : IsPacketOf(snd_buf[Slot(i)], i)
  /\ \A p \in Slots : snd_buf[p] # NULL =>
       \/ \E i \in sb..fileOff-1 : p = Slot(i)
       \/ sendJob = "done" /\ ackJob # "done" /\ p = Slot(fileOff)
  /\ sendJob = "done" => fileOff = FileLen /\ fileOff < sb + WS
  /\ sendJob = "done" /\ ackJob # "done" => snd_buf[Slot(fileOff)] = FinalPacket
  /\ ackJob # "acks" => sb = FileLen /\ sendJob = "done"
  /\ ackJob # "crashed"

\* Each unacknowledged block has one timer, and nothing else has.
Timers(sb) ==
  /\ \A j, k \in DOMAIN phead : phead[j] = phead[k] => j = k
  /\ ackJob = "acks" =>
       /\ \A x \in ToSet(phead) : \E i \in sb..fileOff-1 :
            x = Slot(i) /\ ~snd_buf[Slot(i)].acked
       /\ \A i \in sb..fileOff-1 : ~snd_buf[Slot(i)].acked => Slot(i) \in ToSet(phead)
  /\ ackJob = "final" => phead = <<Slot(FileLen) + N>>
  /\ ackJob = "done" => phead = <<>>

Acked(sb, i) == i < sb \/ (i < fileOff /\ snd_buf[Slot(i)].acked)
=============================================================================
