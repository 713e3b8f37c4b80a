------------------------------ MODULE RttTimer ------------------------------
(***************************************************************************)
(* The clock of sendFile: the start times in the list of timers, the       *)
(* estimate of the round-trip time and the retransmission timeout they     *)
(* lead to.  The three threads are those of SRSender; here their steps     *)
(* take place at a time, and what they send is left out.  A packet is      *)
(* unacknowledged as long as it has a timer, and an ACK is that of such a  *)
(* packet: both hold by TimersMatchWindow and NoAckMistaken in Download.   *)
(*                                                                         *)
(* Times are integers, in microseconds since sendFile began.  Sample and   *)
(* timeout are C long unsigned, so they wrap; abs() takes a C int.         *)
(***************************************************************************)
EXTENDS Integers, Sequences

CONSTANTS
  N,               \* sequence numbers, and slots of the ring
  WS,              \* packets in the window
  Packets,         \* packets of the file
  InitialTimeout,  \* 1000000
  MinRtt,          \* the shortest round trip
  Delays,          \* by how much time passes at once
  MaxTime,         \* bound on the time of a transfer
  Long,            \* 2^64
  Int32            \* 2^32

ASSUME RttAssumption ==
  /\ N \in Nat /\ WS \in Nat /\ 0 < WS /\ 2 * WS <= N
  /\ Packets \in Nat /\ InitialTimeout \in Nat \ {0} /\ MinRtt \in Nat /\ MinRtt >= 4
  /\ Delays \subseteq Nat \ {0} /\ MaxTime \in Nat
  /\ Int32 \in Nat /\ Long \in Nat
  /\ 2 * MaxTime < Int32 /\ 5 * MaxTime < Long /\ InitialTimeout < Long

VARIABLES
  now,
  sent,           \* packets sent so far, the final one included
  send_base, next_tosend,
  acked, retransmitted,  \* slots of buf by their packet's flags
  phead,          \* the list of timers: sequence number and start
  t2,             \* *t2 of thread_ack_job, NotSet until it is written
  EstimatedRTT, DevRTT, TIMEOUT,
  sentAt,         \* history: when the packet of a slot was first sent
  trip,           \* history: the last sample and what it should have been
  odd             \* history: samples that were "negative" or too "short"

ring == <<send_base, next_tosend, acked, retransmitted>>
estimate == <<EstimatedRTT, DevRTT, TIMEOUT, trip, odd>>
vars == <<now, sent, ring, phead, t2, estimate, sentAt>>

Slots == 0..N-1
NotSet == -1
Final == N  \* the final packet has a number from N on

TypeOK ==
  /\ now \in 0..MaxTime /\ sent \in 0..Packets+1
  /\ send_base \in Slots /\ next_tosend \in Slots
  /\ acked \subseteq Slots /\ retransmitted \subseteq Slots
  /\ phead \in Seq([seq_num: 0..N, start: 0..MaxTime])
  /\ t2 \in {NotSet} \cup 0..MaxTime
  /\ EstimatedRTT \in Nat /\ DevRTT \in Nat /\ TIMEOUT \in Nat
  /\ sentAt \in [Slots -> 0..MaxTime]
  /\ trip \in [sample: Nat, real: 0..MaxTime, split: BOOLEAN]
  /\ odd \subseteq {"negative", "short"}

Init ==
  /\ now = 0 /\ sent = 0
  /\ send_base = 0 /\ next_tosend = 0 /\ acked = {} /\ retransmitted = {}
  /\ phead = <<>> /\ t2 = NotSet
  /\ EstimatedRTT = 0 /\ DevRTT = 0 /\ TIMEOUT = InitialTimeout
  /\ sentAt = [s \in Slots |-> 0]
  /\ trip = [sample |-> 0, real |-> 0, split |-> FALSE] /\ odd = {}

-----------------------------------------------------------------------------
Tick ==
  /\ \E d \in Delays : now + d <= MaxTime /\ now' = now + d
  /\ UNCHANGED <<sent, ring, phead, t2, estimate, sentAt>>

insert_in_queue(list, s) == Append(list, [seq_num |-> s, start |-> now])

\* thread_send_job sends a packet if the window is not full.
Send ==
  /\ sent < Packets /\ (send_base + WS) % N # next_tosend
  /\ sent' = sent + 1
  /\ next_tosend' = (next_tosend + 1) % N
  /\ acked' = acked \ {next_tosend} /\ retransmitted' = retransmitted \ {next_tosend}
  /\ phead' = insert_in_queue(phead, next_tosend)
  /\ sentAt' = [sentAt EXCEPT ![next_tosend] = now]
  /\ UNCHANGED <<now, send_base, t2, estimate>>

\* A slip of Expire: the packet stays at the head.
ExpireSlip ==
  /\ phead # <<>> /\ now - Head(phead).start >= TIMEOUT
  /\ TIMEOUT' = (2 * TIMEOUT) % Long
  /\ retransmitted' = retransmitted \cup ({Head(phead).seq_num} \cap Slots)
  /\ phead' = <<[Head(phead) EXCEPT !.start = now]>> \o Tail(phead)
  /\ UNCHANGED <<now, sent, send_base, next_tosend, acked, t2, EstimatedRTT, DevRTT,
                 sentAt, trip, odd>>

\* A slip of Expire: the age of the head is not looked at.
ExpireEarlySlip ==
  /\ phead # <<>>
  /\ TIMEOUT' = (2 * TIMEOUT) % Long
  /\ retransmitted' = retransmitted \cup ({Head(phead).seq_num} \cap Slots)
  /\ phead' = insert_in_queue(Tail(phead), Head(phead).seq_num)
  /\ UNCHANGED <<now, sent, send_base, next_tosend, acked, t2, EstimatedRTT, DevRTT,
                 sentAt, trip, odd>>

\* thread_timeout_job looks at the head only.
Expire ==
  /\ phead # <<>> /\ now - Head(phead).start >= TIMEOUT
  /\ TIMEOUT' = (2 * TIMEOUT) % Long
  /\ retransmitted' = retransmitted \cup ({Head(phead).seq_num} \cap Slots)
  /\ phead' = insert_in_queue(Tail(phead), Head(phead).seq_num)
  /\ UNCHANGED <<now, sent, send_base, next_tosend, acked, t2, EstimatedRTT, DevRTT,
                 sentAt, trip, odd>>

-----------------------------------------------------------------------------
\* abs() of a long unsigned: of its low half, as a signed number.
abs(x) == LET m == x % Int32 IN IF 2 * m < Int32 THEN m ELSE Int32 - m

NewEstimate(E, S) == (7 * E + S) \div 8

\* A slip of NewDev: it is given the weight of the estimate.
NewDevSlip(D, E, S) == (7 * D + abs(S - E)) \div 8

NewDev(D, E, S) == (3 * D + abs(S - E)) \div 4

estimateTimeout(S) ==
  /\ EstimatedRTT' = NewEstimate(EstimatedRTT, S)
  /\ DevRTT' = NewDev(DevRTT, EstimatedRTT', S)
  /\ TIMEOUT' = (EstimatedRTT' + 4 * DevRTT') % Long

\* The rest of the list behind the removed node.
Rest(list, j) == SubSeq(list, 1, j - 1) \o SubSeq(list, j + 1, Len(list))

\* A slip of Split: the first part of the test is left out.
SplitSlip(s) == s >= send_base

\* Case (2) of the window test: the window is split, the number in its first part.
Split(s) == send_base >= (send_base + WS) % N /\ s >= send_base

Oddity(x) == IF x < 0 THEN {"negative"} ELSE IF x < MinRtt THEN {"short"} ELSE {}

\* A slip of TakeSample: retransmitted packets are measured too.
TakeSampleSlip(s, t1, t2_) ==
  /\ estimateTimeout((t1 - t2_) % Long)
  /\ trip' = [sample |-> (t1 - t2_) % Long, real |-> now - sentAt[s], split |-> Split(s)]
  /\ odd' = odd \cup Oddity(t1 - t2_)

\* The sample of a packet that was sent once.
TakeSample(s, t1, t2_) ==
  IF s \in retransmitted THEN UNCHANGED estimate
  ELSE /\ estimateTimeout((t1 - t2_) % Long)
       /\ trip' = [sample |-> (t1 - t2_) % Long, real |-> now - sentAt[s], split |-> Split(s)]
       /\ odd' = odd \cup Oddity(t1 - t2_)

\* send_base moves over the acknowledged packets if got has its own.
Slide(got) ==
  \E k \in 0..N-1 :
    LET Freed == {(send_base + j) % N : j \in 0..k-1}
    IN  /\ Freed \subseteq got /\ (send_base + k) % N \notin got
        /\ send_base' = (send_base + k) % N
        /\ acked' = got \ Freed

\* thread_ack_job: the ACK of the packet of node j.  In case (2) remove_nodo
\* stores the node's start in t1, which held the time of the ACK, not in t2.
Ack(j) ==
  LET s == phead[j].seq_num  start == phead[j].start
  IN  /\ s # Final
      /\ s \in retransmitted \/ now - start >= MinRtt
      /\ t2' = IF Split(s) THEN t2 ELSE start
      /\ TakeSample(s, IF Split(s) THEN start ELSE now, t2')
      /\ phead' = Rest(phead, j)
      /\ Slide(acked \cup {s})
      /\ UNCHANGED <<now, sent, next_tosend, retransmitted, sentAt>>

\* A slip of SendFinal: it is entered again and again.
SendFinalSlip ==
  /\ sent >= Packets /\ send_base = next_tosend
  /\ sent' = sent + 1
  /\ phead' = insert_in_queue(phead, Final)
  /\ UNCHANGED <<now, ring, t2, estimate, sentAt>>

\* proceduraFinale sends the final packet when nothing is unacknowledged.
SendFinal ==
  /\ sent = Packets /\ send_base = next_tosend
  /\ sent' = sent + 1
  /\ phead' = insert_in_queue(phead, Final)
  /\ UNCHANGED <<now, ring, t2, estimate, sentAt>>

\* proceduraFinale: the final ACK; the timeout thread is cancelled.
ReadFinalAck ==
  /\ sent > Packets /\ phead # <<>>
  /\ phead' = Tail(phead)
  /\ UNCHANGED <<now, sent, ring, t2, estimate, sentAt>>

Next ==
  \/ Tick \/ Send \/ Expire \/ (\E j \in DOMAIN phead : Ack(j))
  \/ SendFinal \/ ReadFinalAck

Spec == Init /\ [][Next]_vars

-----------------------------------------------------------------------------
\* thread_timeout_job's comment: the packet at the head is the only one whose
\* timeout can have expired.  So it is: no node is older than the head.
HeadIsOldest ==
  \A j, k \in DOMAIN phead : j < k => phead[j].start <= phead[k].start

\* TIMEOUT is doubled without a limit, and estimated from samples that are no
\* round-trip times in case (2).  Still it stays below five times the age of the
\* transfer, so it never wraps, unless a sample was negative: t2 was the time of
\* a later retransmission then.
TimeoutIsBounded ==
  "negative" \notin odd => TIMEOUT <= InitialTimeout \/ TIMEOUT <= 5 * now

\* TIMEOUT is never 0, with which recvfrom would wait for ever and hold the mutex,
\* unless a sample was shorter than any round trip: in case (2) it may be.
TimeoutIsPositive == odd = {} => TIMEOUT > 0

\* No sample is taken from a t2 that was never written: the window is split only
\* after an ACK in case (1).
T2IsSet == send_base >= (send_base + WS) % N => t2 # NotSet

\* Outside case (2), a sample is the time from the first transmission of a packet
\* to its ACK, and never that of a retransmission, as the comment has it.
SampleIsRoundTrip == trip.split \/ trip.sample = trip.real
=============================================================================
