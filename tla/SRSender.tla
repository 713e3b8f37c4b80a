------------------------------ MODULE SRSender ------------------------------
(***************************************************************************)
(* The selective-repeat sender of Server/ServerSender.h, which is          *)
(* Client/ClientSender.h but for its printouts, and the two datagram       *)
(* channels that join it to a receiver.  Three threads share one           *)
(* snd_thread_info under snd->mtx: thread_send_job reads the file and      *)
(* sends, thread_timeout_job retransmits the head of the timer list,       *)
(* thread_ack_job consumes the acknowledgements and slides the window.     *)
(* Each takes the mutex for one pass of its loop, so one pass is one       *)
(* action.  A pass that finds nothing to do (window full, list empty, no   *)
(* ACK before the socket timeout) changes nothing and is no action.        *)
(*                                                                         *)
(* A file is FileLen blocks of at most DATA_SIZE bytes; a block is known   *)
(* by its position, and block FileLen is the empty one read at the end.    *)
(* Timers, TIMEOUT and the RTT estimate are abstracted: the head's timer   *)
(* may have expired whenever the timeout thread looks.                     *)
(***************************************************************************)
EXTENDS TimerList

CONSTANTS
  N,        \* sequence numbers of data packets, and slots of both buffers
  WS,       \* sender window
  FileLen,  \* data blocks in the file
  ChanCap,  \* datagrams one socket buffer holds; the kernel drops the excess
  NULL      \* an empty slot of a packet buffer

VARIABLES
  send_base,    \* snd->send_base: first slot of the window
  next_tosend,  \* snd->next_tosend: slot of the next packet
  snd_buf,      \* snd->buf: the sent packets not yet freed, by slot
  phead,        \* the list of running retransmission timers
  fileOff,      \* blocks thread_send_job has read from snd->fd
  sendJob,      \* "run", or "done" once it has stored the final packet
  ackJob,       \* "acks", "final" in proceduraFinale, "done" once it returned,
                \* "crashed" after a null dereference (see Upload)
  dataCh,       \* datagrams on their way to the receiver, oldest first
  ackCh         \* datagrams on their way to the sender, oldest first

sndVars == <<send_base, next_tosend, snd_buf, phead, fileOff, sendJob, ackJob>>

Slots == 0..N-1
Blocks == 0..FileLen
Packet == [data: Blocks, seqnum: 0..2*N-1, acked: BOOLEAN, finished: BOOLEAN]

ASSUME SenderAssumption ==
  /\ N \in Nat /\ WS \in Nat \ {0} /\ WS + WS <= N
  /\ FileLen \in Nat /\ ChanCap \in Nat
  /\ NULL \notin Blocks /\ NULL \notin Packet

DataMsg == [seq: 0..2*N-1, data: Blocks]
\* blk names the block an ACK answers for.  It is a history annotation that
\* no guard reads: the datagram carries seq alone.
AckMsg == [seq: -1..2*N-1, blk: -1..FileLen]

SenderTypeOK ==
  /\ send_base \in Slots
  /\ next_tosend \in Slots
  /\ snd_buf \in [Slots -> Packet \cup {NULL}]
  /\ phead \in Seq(0..2*N-1)
  /\ fileOff \in Blocks
  /\ sendJob \in {"run", "done"}
  /\ ackJob \in {"acks", "final", "done", "crashed"}
  /\ dataCh \in Seq(DataMsg)
  /\ ackCh \in Seq(AckMsg)

SenderInit ==
  /\ send_base = 0
  /\ next_tosend = 0
  /\ snd_buf = [p \in Slots |-> NULL]
  /\ phead = <<>>
  /\ fileOff = 0
  /\ sendJob = "run"
  /\ ackJob = "acks"
  /\ dataCh = <<>>
  /\ ackCh = <<>>

-----------------------------------------------------------------------------
\* What sendto leaves in a channel: the datagram arrives, or is lost, by the
\* draw of `ran` against P, in the network, or at a full socket buffer.
Transmit(ch, m) ==
  {ch} \cup IF Len(ch) < ChanCap THEN {Append(ch, m)} ELSE {}

\* addSeqNum: a sequence number >= N travels without its data.
addSeqNum(pkt) ==
  [seq |-> pkt.seqnum, data |-> IF pkt.seqnum >= N THEN FileLen ELSE pkt.data]

\* A slip of WindowFull: one packet too many.
WindowFullSlip == (send_base + WS + 1) % N = next_tosend

WindowFull == (send_base + WS) % N = next_tosend

\* A slip of InSendWindow: the slot after the window counts as inside.
InSendWindowSlip(ACK_num, base) ==
  LET top == (base + WS) % N
  IN  \/ base < top /\ ACK_num >= base /\ ACK_num <= base + WS
      \/ base >= top /\ (ACK_num >= base \/ ACK_num <= top)

\* The three-way test of thread_ack_job on a window that may wrap around the
\* end of the buffer.
InSendWindow(ACK_num, base) ==
  LET top == (base + WS) % N
  IN  \/ base < top /\ ACK_num >= base /\ ACK_num < base + WS
      \/ base >= top /\ (ACK_num >= base \/ ACK_num < top)

MarkAcked(s) == [snd_buf EXCEPT ![s].acked = TRUE]

\* The loop that frees acknowledged packets from send_base on runs k times.
AckedRun(buf, base, k) ==
  LET acked(j) == buf[(base + j) % N] # NULL /\ buf[(base + j) % N].acked
  IN  (\A j \in 0..k-1 : acked(j)) /\ ~acked(k)

FreeRun(buf, base, k) ==
  [p \in Slots |-> IF \E j \in 0..k-1 : p = (base + j) % N THEN NULL ELSE buf[p]]

FreeAcked(buf) ==
  \E k \in 1..N :
    /\ AckedRun(buf, send_base, k)
    /\ snd_buf' = FreeRun(buf, send_base, k)
    /\ send_base' = (send_base + k) % N

-----------------------------------------------------------------------------
\* thread_send_job, one pass that sends a block.
SendPacket ==
  LET pkt == [data |-> fileOff, seqnum |-> next_tosend,
              acked |-> FALSE, finished |-> FALSE]
  IN  /\ sendJob = "run" /\ fileOff < FileLen
      /\ ~WindowFull
      /\ dataCh' \in Transmit(dataCh, addSeqNum(pkt))
      /\ phead' = insert_in_queue(phead, pkt.seqnum)
      /\ snd_buf' = [snd_buf EXCEPT ![next_tosend] = pkt]
      /\ next_tosend' = (next_tosend + 1) % N
      /\ fileOff' = fileOff + 1
      /\ UNCHANGED <<send_base, sendJob, ackJob, ackCh>>

\* thread_send_job at end of file: the final packet is stored, not sent, under
\* a sequence number >= N, and the thread exits.
SendEof ==
  /\ sendJob = "run" /\ fileOff = FileLen
  /\ ~WindowFull
  /\ snd_buf' = [snd_buf EXCEPT ![next_tosend] =
                   [data |-> FileLen, seqnum |-> next_tosend + N,
                    acked |-> FALSE, finished |-> TRUE]]
  /\ sendJob' = "done"
  /\ UNCHANGED <<send_base, next_tosend, phead, fileOff, ackJob, dataCh, ackCh>>

\* A slip of TimeoutExpired: the retransmitted packet is not queued again.
TimeoutExpiredSlip ==
  /\ phead # <<>>
  /\ LET pkt == snd_buf[Head(phead) % N]
     IN  /\ pkt # NULL
         /\ dataCh' \in Transmit(dataCh, addSeqNum(pkt))
         /\ phead' = delete_node_in_head(phead)
  /\ UNCHANGED <<send_base, next_tosend, snd_buf, fileOff, sendJob, ackJob, ackCh>>

\* thread_timeout_job, one pass that finds the head expired: retransmit its
\* packet and queue it again at the tail.  Nothing stops a pass after the ack
\* job cancelled the thread: a cancelled thread still blocked on the mutex
\* completes it.  The guard on NULL is where the code would dereference a null
\* pointer (see TimersMatchWindow).
TimeoutExpired ==
  /\ phead # <<>>
  /\ LET pkt == snd_buf[Head(phead) % N]
     IN  /\ pkt # NULL
         /\ dataCh' \in Transmit(dataCh, addSeqNum(pkt))
         /\ phead' = insert_in_queue(delete_node_in_head(phead), pkt.seqnum)
  /\ UNCHANGED <<send_base, next_tosend, snd_buf, fileOff, sendJob, ackJob, ackCh>>

AwaitsAcks ==
  /\ ackJob = "acks"
  /\ snd_buf[send_base] # NULL /\ ~snd_buf[send_base].finished

\* thread_ack_job reads an ACK it has no use for: "-1", outside the window, or
\* of a packet already acknowledged.
IgnoreAck ==
  /\ AwaitsAcks /\ ackCh # <<>>
  /\ LET s == Head(ackCh).seq
     IN  \/ s = -1
         \/ s # -1 /\ ~InSendWindow(s, send_base)
         \/ s # -1 /\ InSendWindow(s, send_base) /\ snd_buf[s] # NULL /\ snd_buf[s].acked
  /\ ackCh' = Tail(ackCh)
  /\ UNCHANGED <<sndVars, dataCh>>

\* thread_ack_job reads the first ACK of a packet of the window: stop its timer
\* and, if it is the oldest, free the run of acknowledged packets it heads.
AcceptAck ==
  /\ AwaitsAcks /\ ackCh # <<>>
  /\ LET s == Head(ackCh).seq
         buf == MarkAcked(s)
     IN  /\ s # -1 /\ InSendWindow(s, send_base)
         /\ snd_buf[s] # NULL /\ ~snd_buf[s].acked
         /\ phead' = remove_nodo(phead, s)
         /\ \/ /\ s # send_base
               /\ snd_buf' = buf
               /\ UNCHANGED send_base
            \/ /\ s = send_base
               /\ FreeAcked(buf)
  /\ ackCh' = Tail(ackCh)
  /\ UNCHANGED <<next_tosend, fileOff, sendJob, ackJob, dataCh>>

\* A slip of StartFinal: the final packet goes out at the end of file, before
\* the window is empty.
StartFinalSlip ==
  /\ ackJob = "acks" /\ sendJob = "done"
  /\ LET pkt == snd_buf[next_tosend]
     IN  /\ dataCh' \in Transmit(dataCh, addSeqNum(pkt))
         /\ phead' = insert_in_queue(phead, pkt.seqnum)
  /\ ackJob' = "final"
  /\ UNCHANGED <<send_base, next_tosend, snd_buf, fileOff, sendJob, ackCh>>

\* thread_ack_job finds the final packet at send_base: proceduraFinale sends it
\* and starts its timer.
StartFinal ==
  /\ ackJob = "acks"
  /\ snd_buf[send_base] # NULL /\ snd_buf[send_base].finished
  /\ LET pkt == snd_buf[send_base]
     IN  /\ dataCh' \in Transmit(dataCh, addSeqNum(pkt))
         /\ phead' = insert_in_queue(phead, pkt.seqnum)
  /\ ackJob' = "final"
  /\ UNCHANGED <<send_base, next_tosend, snd_buf, fileOff, sendJob, ackCh>>

\* A slip of ReadFinalAck: any ACK but "-1" ends the transfer.
ReadFinalAckSlip ==
  /\ ackJob = "final" /\ ackCh # <<>>
  /\ \/ /\ Head(ackCh).seq # -1
        /\ phead' = delete_node_in_head(phead)
        /\ snd_buf' = [snd_buf EXCEPT ![send_base] = NULL]
        /\ ackJob' = "done"
     \/ /\ Head(ackCh).seq = -1
        /\ UNCHANGED <<phead, snd_buf, ackJob>>
  /\ ackCh' = Tail(ackCh)
  /\ UNCHANGED <<send_base, next_tosend, fileOff, sendJob, dataCh>>

\* The loop of proceduraFinale: a final ACK ends the transfer, deletes whatever
\* node heads the list and cancels the timeout thread; any other is dropped.
ReadFinalAck ==
  /\ ackJob = "final" /\ ackCh # <<>>
  /\ \/ /\ Head(ackCh).seq >= N
        /\ phead' = delete_node_in_head(phead)
        /\ snd_buf' = [snd_buf EXCEPT ![send_base] = NULL]
        /\ ackJob' = "done"
     \/ /\ Head(ackCh).seq < N
        /\ UNCHANGED <<phead, snd_buf, ackJob>>
  /\ ackCh' = Tail(ackCh)
  /\ UNCHANGED <<send_base, next_tosend, fileOff, sendJob, dataCh>>

-----------------------------------------------------------------------------
\* An ACK that thread_ack_job takes for one of its window answers the packet
\* now in that slot (there is one: the code reads buf[ACK_num]->acked
\* unchecked), never the packet that had the number N packets before.
NoAckMistaken ==
  ackJob = "acks" =>
    \A q \in DOMAIN ackCh :
      LET a == ackCh[q]
      IN  a.seq # -1 /\ InSendWindow(a.seq, send_base) =>
            /\ a.seq < N /\ snd_buf[a.seq] # NULL
            /\ snd_buf[a.seq].data = a.blk

\* The timer list names each unacknowledged packet once, and nothing else, so
\* that no lost packet is forgotten, the timeout thread never dereferences an
\* empty slot, and proceduraFinale, which deletes the head whatever it is,
\* deletes the final packet's node and leaves the list empty.
TimersMatchWindow ==
  /\ \A i, j \in DOMAIN phead : phead[i] = phead[j] => i = j
  /\ ToSet(phead) =
       CASE ackJob = "acks"  -> {snd_buf[p].seqnum : p \in
                 {p \in Slots : snd_buf[p] # NULL /\ ~snd_buf[p].acked /\ ~snd_buf[p].finished}}
         [] ackJob = "final" -> {snd_buf[send_base].seqnum}
         [] ackJob = "done"  -> {}
=============================================================================
