------------------------------ MODULE Download ------------------------------
(***************************************************************************)
(* The command `get`: the server's sendFile (SRSender) sends a file to the *)
(* client's rcvFile (Client/ClientReceiver.h).  The client first waits for *)
(* one datagram (Client.c, "reply"), to see whether the server refuses;    *)
(* when it does not, that datagram is a data packet and is thrown away.    *)
(* An empty file is refused by the server, so FileLen > 0.                 *)
(***************************************************************************)
EXTENDS SRReceiver

ASSUME DownloadAssumption == FileLen > 0

vars == <<sndVars, dataCh, ackCh, rcvVars>>

TypeOK ==
  /\ SenderTypeOK
  /\ ReceiverTypeOK
  /\ rcvJob \in {"reply", "recv", "done", "gaveup", "dead"}

Init ==
  /\ SenderInit
  /\ ReceiverInit
  /\ rcvJob = "reply"

-----------------------------------------------------------------------------
\* The loop that writes from rcv_base on, freeing each slot, writes k packets.
StoredRun(buf, base, k) ==
  /\ \A j \in 0..k-1 : buf[(base + j) % N] # NULL
  /\ buf[(base + k) % N] = NULL

\* A slip of WriteRun: the whole buffer is emptied, as the server's rcvFile does
\* (see Upload).
WriteRunSlip(buf, base, k) == [p \in Slots |-> NULL]

WriteRun(buf, base, k) ==
  [p \in Slots |-> IF \E j \in 0..k-1 : p = (base + j) % N THEN NULL ELSE buf[p]]

WriteStored(buf) ==
  \E k \in 1..N :
    /\ StoredRun(buf, rcv_base, k)
    /\ rcv_buf' = WriteRun(buf, rcv_base, k)
    /\ rcv_base' = (rcv_base + k) % N
    /\ written' = written \o [j \in 1..k |-> buf[(rcv_base + j - 1) % N]]

\* main's recvfrom of the server's answer to `get`.
ReadReply ==
  /\ rcvJob = "reply" /\ dataCh # <<>>
  /\ dataCh' = Tail(dataCh)
  /\ rcvJob' = "recv"
  /\ UNCHANGED <<sndVars, ackCh, rcv_base, rcv_buf, written, attempt, ack_to_resend>>

\* A slip of ReceiveOld: an old packet is dropped without an answer.
ReceiveOldSlip ==
  /\ rcvJob = "recv" /\ dataCh # <<>>
  /\ LET m == Head(dataCh)
     IN  /\ m.seq < N
         /\ InRcvWindow(m.seq, rcv_base) => rcv_buf[m.seq] # NULL
         /\ ack_to_resend' = Ack(m)
  /\ dataCh' = Tail(dataCh)
  /\ attempt' = 0
  /\ UNCHANGED <<sndVars, ackCh, rcv_base, rcv_buf, written, rcvJob>>

\* rcvFile, a packet already stored or outside the window: acknowledge it again.
ReceiveOld ==
  /\ rcvJob = "recv" /\ dataCh # <<>>
  /\ LET m == Head(dataCh)
     IN  /\ m.seq < N
         /\ InRcvWindow(m.seq, rcv_base) => rcv_buf[m.seq] # NULL
         /\ ack_to_resend' = Ack(m)
         /\ ackCh' \in Transmit(ackCh, Ack(m))
  /\ dataCh' = Tail(dataCh)
  /\ attempt' = 0
  /\ UNCHANGED <<sndVars, rcv_base, rcv_buf, written, rcvJob>>

\* rcvFile, a new packet of the window: store and acknowledge it, then, if it is
\* the one rcv_base waits for, write the run of stored packets it heads.
ReceiveNew ==
  /\ rcvJob = "recv" /\ dataCh # <<>>
  /\ LET m == Head(dataCh)
         buf == [rcv_buf EXCEPT ![m.seq] = m.data]
     IN  /\ m.seq < N
         /\ InRcvWindow(m.seq, rcv_base) /\ rcv_buf[m.seq] = NULL
         /\ ack_to_resend' = Ack(m)
         /\ ackCh' \in Transmit(ackCh, Ack(m))
         /\ \/ /\ m.seq # rcv_base
               /\ rcv_buf' = buf
               /\ UNCHANGED <<rcv_base, written>>
            \/ /\ m.seq = rcv_base
               /\ WriteStored(buf)
  /\ dataCh' = Tail(dataCh)
  /\ attempt' = 0
  /\ UNCHANGED <<sndVars, rcvJob>>

\* rcvFile, the final packet: acknowledge it once and close the socket.
ReceiveFinal ==
  /\ rcvJob = "recv" /\ dataCh # <<>>
  /\ LET m == Head(dataCh)
     IN  /\ m.seq >= N
         /\ ack_to_resend' = Ack(m)
         /\ ackCh' \in Transmit(ackCh, Ack(m))
  /\ dataCh' = Tail(dataCh)
  /\ attempt' = 0
  /\ rcvJob' = "done"
  /\ UNCHANGED <<sndVars, rcv_base, rcv_buf, written>>

\* rcvFile, MAXIMUM_ATTEMPT silent timeouts in a row: return without the file.
GiveUp ==
  /\ rcvJob = "recv" /\ attempt = MaxAttempt
  /\ rcvJob' = "gaveup"
  /\ UNCHANGED <<sndVars, dataCh, ackCh, rcv_base, rcv_buf, written, attempt, ack_to_resend>>

\* SIGINT makes the blocked recvfrom fail with EINTR, and the client exits.
Interrupted ==
  /\ rcvJob \in {"reply", "recv"}
  /\ rcvJob' = "dead"
  /\ UNCHANGED <<sndVars, dataCh, ackCh, rcv_base, rcv_buf, written, attempt, ack_to_resend>>

\* Both sides are out of sendFile and rcvFile.
Terminated ==
  /\ ackJob = "done" /\ rcvJob \notin {"reply", "recv"}
  /\ UNCHANGED vars

\* The download while the client stays up and is never made to give up.
PatientNext ==
  \/ SendPacket /\ UNCHANGED rcvVars
  \/ SendEof /\ UNCHANGED rcvVars
  \/ TimeoutExpired /\ UNCHANGED rcvVars
  \/ IgnoreAck /\ UNCHANGED rcvVars
  \/ AcceptAck /\ UNCHANGED rcvVars
  \/ StartFinal /\ UNCHANGED rcvVars
  \/ ReadFinalAck /\ UNCHANGED rcvVars
  \/ ReadReply
  \/ ReceiveOld
  \/ ReceiveNew
  \/ ReceiveFinal
  \/ RcvTimeout
  \/ Terminated

Next == PatientNext \/ GiveUp \/ Interrupted

Spec == Init /\ [][Next]_vars

-----------------------------------------------------------------------------
\* Fairness.  Each thread polls with usleep(1) between two holds of the mutex,
\* so none starves: weak fairness.  A datagram sent again and again is at last
\* delivered, per sequence number and in both directions: strong fairness on
\* the sends that succeed.  All final packets count as one number.
AckDelivered(s) ==
  /\ dataCh # <<>> /\ Head(dataCh).seq = s
  /\ ReceiveOld \/ ReceiveNew
  /\ Delivered(ackCh)

Fairness ==
  /\ WF_vars((SendPacket \/ SendEof) /\ UNCHANGED rcvVars)
  /\ WF_vars((IgnoreAck \/ AcceptAck \/ StartFinal \/ ReadFinalAck) /\ UNCHANGED rcvVars)
  /\ WF_vars(ReadReply \/ ReceiveOld \/ ReceiveNew \/ ReceiveFinal)
  /\ \A s \in Numbers \cup {N} : SF_vars(ResendDelivered(s) /\ UNCHANGED rcvVars)
  /\ \A s \in Numbers : SF_vars(AckDelivered(s))

PatientSpec == Init /\ [][PatientNext]_vars /\ Fairness

-----------------------------------------------------------------------------
\* The blocks written to the client's file are the server's blocks, in order:
\* the write loop of rcvFile never skips, repeats or swaps a block although
\* packets arrive lost, repeated and ahead of rcv_base.
WrittenInOrder == \A i \in DOMAIN written : written[i] = i - 1

\* "Download completato!" is said only of a whole file: rcvFile believes the
\* final packet without counting blocks, so proceduraFinale must not send it
\* while the client still misses one.
CompleteWhenDone == rcvJob = "done" => Len(written) = FileLen

\* Sequence numbers are reused every N packets.  Whatever is still on its way,
\* rcvFile takes for new exactly the blocks it has not written, each in the
\* window of its own turn, and never an old block for one N further on.
NoPacketMistaken ==
  rcvJob = "recv" =>
    \A q \in DOMAIN dataCh :
      LET m == dataCh[q]
      IN  m.seq < N =>
            IF InRcvWindow(m.seq, rcv_base)
            THEN m.data \in Len(written) .. Len(written) + WR - 1
            ELSE m.data < Len(written)

\* A packet the server counts as acknowledged, and will never send again, is
\* in the client's file or in its buffer.
AckedIsStored ==
  \A p \in Slots :
    snd_buf[p] # NULL /\ snd_buf[p].acked =>
      snd_buf[p].data < Len(written) \/ rcv_buf[p] = snd_buf[p].data

\* The download implements the abstract transfer.
Transfer == INSTANCE FileTransfer WITH
  file     <- written,
  receiver <- CASE rcvJob = "done" -> "complete"
                [] rcvJob \in {"gaveup", "dead"} -> "failed"
                [] OTHER -> "open",
  sender   <- IF ackJob = "done" THEN "complete" ELSE "open"

\* What FileTransfer promises of any transfer, of this one: in particular the
\* server leaves sendFile only after the client has the whole file.
ImplementsTransfer == Transfer!FTSpec

\* A client that stays up gets the file, however many datagrams are lost: the
\* three threads never wait on each other with a packet lost for good.
DownloadFinishes == <>(rcvJob = "done")
=============================================================================
