----------------------------- MODULE SRReceiver -----------------------------
(***************************************************************************)
(* What the two receivers share: the state of rcvFile in                   *)
(* Client/ClientReceiver.h and in Server/ServerReceiver.h, its test of the *)
(* receive window, and the reply to a silent sender.  They differ in what  *)
(* they do with a packet of the window, and in how they end: see Download  *)
(* (the client receives) and Upload (the server receives).                 *)
(***************************************************************************)
EXTENDS SRSender

CONSTANTS
  WR,         \* receiver window
  MaxAttempt  \* MAXIMUM_ATTEMPT, silent timeouts before rcvFile gives up

ASSUME ReceiverAssumption ==
  /\ WR \in Nat /\ WS <= WR /\ WS + WR <= N
  /\ MaxAttempt \in Nat

VARIABLES
  rcv_base,       \* slot of the next block to write
  rcv_buf,        \* by slot, the packet received ahead of rcv_base, or NULL
  written,        \* blocks written to the file, in order
  attempt,        \* receive timeouts since the last datagram
  ack_to_resend,  \* the last ACK, repeated when the receive timer fires
  rcvJob          \* where the receiving process stands

rcvVars == <<rcv_base, rcv_buf, written, attempt, ack_to_resend, rcvJob>>

ReceiverTypeOK ==
  /\ rcv_base \in Slots
  /\ rcv_buf \in [Slots -> Blocks \cup {NULL}]
  /\ written \in Seq(Blocks)
  /\ attempt \in 0..MaxAttempt
  /\ ack_to_resend \in AckMsg

ReceiverInit ==
  /\ rcv_base = 0
  /\ rcv_buf = [p \in Slots |-> NULL]
  /\ written = <<>>
  /\ attempt = 0
  /\ ack_to_resend = [seq |-> -1, blk |-> -1]

-----------------------------------------------------------------------------
Ack(m) == [seq |-> m.seq, blk |-> m.data]

\* A slip of InRcvWindow: one slot too many.
InRcvWindowSlip(seqnum, base) ==
  LET last_pos == (base + WR + 1) % N
  IN  \/ base < last_pos /\ seqnum >= base /\ seqnum < last_pos
      \/ base >= last_pos /\ (seqnum >= base \/ seqnum < last_pos)

\* The three-way test of rcvFile on a window that may wrap around the end of
\* the buffer.
InRcvWindow(seqnum, base) ==
  LET last_pos == (base + WR) % N
  IN  \/ base < last_pos /\ seqnum >= base /\ seqnum < last_pos
      \/ base >= last_pos /\ (seqnum >= base \/ seqnum < last_pos)

\* A slip of RcvTimeout: the counter passes its limit.
RcvTimeoutSlip ==
  /\ rcvJob = "recv" /\ attempt <= MaxAttempt
  /\ attempt' = attempt + 1
  /\ ackCh' \in Transmit(ackCh, ack_to_resend)
  /\ UNCHANGED <<sndVars, dataCh, rcv_base, rcv_buf, written, ack_to_resend, rcvJob>>

\* recvfrom gives up waiting: repeat the last ACK ("-1" before the first
\* packet) to probe the sender.
RcvTimeout ==
  /\ rcvJob = "recv" /\ attempt < MaxAttempt
  /\ attempt' = attempt + 1
  /\ ackCh' \in Transmit(ackCh, ack_to_resend)
  /\ UNCHANGED <<sndVars, dataCh, rcv_base, rcv_buf, written, ack_to_resend, rcvJob>>

-----------------------------------------------------------------------------
\* For the fairness of the two compositions: a datagram enters the channel; the
\* retransmission of one sequence number does, all final packets counting as one;
\* and the numbers that the blocks of the file have.
Delivered(ch) == Len(ch') > Len(ch)

Numbers == {k % N : k \in 0..FileLen-1}
Counted(seqnum) == IF seqnum < N THEN seqnum ELSE N

\* The head's timer always fires again while TIMEOUT is sound.  The sample of an
\* ACK that meets a split window may be none, and "negative" (see RttTimer):
\* TIMEOUT is then beyond any wait, or 0, and with 0 recvfrom holds the mutex for
\* ever.  No block before N - WS is acknowledged in a split window.
ClockIsSound == fileOff <= N - WS

ResendDelivered(s) ==
  /\ ClockIsSound
  /\ phead # <<>> /\ Counted(Head(phead)) = s
  /\ TimeoutExpired
  /\ Delivered(dataCh)
=============================================================================
