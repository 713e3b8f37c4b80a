------------------------------- MODULE Upload -------------------------------
(***************************************************************************)
(* The command `put`: the client's sendFile (Client/ClientSender.h, the    *)
(* same code as SRSender) sends a file to the server's rcvFile             *)
(* (Server/ServerReceiver.h).  The server first waits for one datagram,    *)
(* the file's size; when that one was lost it takes the first data packet  *)
(* for it.  After rcvFile it closes its socket and opens another on the    *)
(* same port, tells the client "Attenzione : comando non valido!" (the     *)
(* test that should exclude `put` is always true) and goes back to wait    *)
(* for commands, where it answers every packet of the transfer the same    *)
(* way.  The client's parseAck reads that answer as ACK 0.                 *)
(***************************************************************************)
EXTENDS SRReceiver

VARIABLE ahead  \* history: rcvFile has stored a packet ahead of rcv_base

vars == <<sndVars, dataCh, ackCh, rcvVars, ahead>>

TypeOK ==
  /\ SenderTypeOK
  /\ ReceiverTypeOK
  /\ rcvJob \in {"size", "recv", "done", "gaveup", "command"}
  /\ ahead \in BOOLEAN

Init ==
  /\ SenderInit
  /\ ReceiverInit
  /\ rcvJob \in {"size", "recv"}
  /\ ahead = FALSE

-----------------------------------------------------------------------------
\* The client's threads.  They share one process, and crash with it.
ClientUp == ackJob # "crashed"

ClientSendPacket == ClientUp /\ SendPacket /\ UNCHANGED <<rcvVars, ahead>>
ClientSendEof == ClientUp /\ SendEof /\ UNCHANGED <<rcvVars, ahead>>
ClientTimeoutExpired == ClientUp /\ TimeoutExpired /\ UNCHANGED <<rcvVars, ahead>>
ClientReadAck == (IgnoreAck \/ AcceptAck) /\ UNCHANGED <<rcvVars, ahead>>
ClientStartFinal == StartFinal /\ UNCHANGED <<rcvVars, ahead>>
ClientReadFinalAck == ReadFinalAck /\ UNCHANGED <<rcvVars, ahead>>

\* thread_ack_job reads buf[ACK_num]->acked for a slot of its window that no
\* packet was sent from yet.
ClientCrashes ==
  /\ AwaitsAcks /\ ackCh # <<>>
  /\ LET s == Head(ackCh).seq
     IN  s # -1 /\ InSendWindow(s, send_base) /\ snd_buf[s] = NULL
  /\ ackJob' = "crashed"
  /\ ackCh' = Tail(ackCh)
  /\ UNCHANGED <<send_base, next_tosend, snd_buf, phead, fileOff, sendJob, dataCh,
                 rcvVars, ahead>>

-----------------------------------------------------------------------------
\* handle_request's recv of the size, after the datagram with it was lost.
ReadSize ==
  /\ rcvJob = "size" /\ dataCh # <<>>
  /\ dataCh' = Tail(dataCh)
  /\ rcvJob' = "recv"
  /\ UNCHANGED <<sndVars, ackCh, rcv_base, rcv_buf, written, attempt, ack_to_resend, ahead>>

\* A slip of ReceiveOld: an old packet is dropped without an answer.
ReceiveOldSlip ==
  /\ rcvJob = "recv" /\ dataCh # <<>>
  /\ LET m == Head(dataCh)
     IN  /\ m.seq < N
         /\ InRcvWindow(m.seq, rcv_base) => rcv_buf[m.seq] # NULL
         /\ ack_to_resend' = Ack(m)
  /\ dataCh' = Tail(dataCh)
  /\ attempt' = 0
  /\ UNCHANGED <<sndVars, ackCh, rcv_base, rcv_buf, written, rcvJob, ahead>>

\* rcvFile, a packet already stored or outside the window: acknowledge it again.
ReceiveOld ==
  /\ rcvJob = "recv" /\ dataCh # <<>>
  /\ LET m == Head(dataCh)
     IN  /\ m.seq < N
         /\ InRcvWindow(m.seq, rcv_base) => rcv_buf[m.seq] # NULL
         /\ ack_to_resend' = Ack(m)
         /\ ackCh' \in Transmit(ackCh, Ack(m))
  /\ dataCh' = Tail(dataCh)
  /\ attempt' = 0
  /\ UNCHANGED <<sndVars, rcv_base, rcv_buf, written, rcvJob, ahead>>

\* The body of the loop that writes a packet: rcvBufInit(buf) empties the whole
\* buffer, so the loop ends after one block.
ClearedBuf(buf) == [p \in Slots |-> NULL]

\* rcvFile, a new packet of the window: store and acknowledge it and, if it is
\* the one rcv_base waits for, write it.
ReceiveNew ==
  /\ rcvJob = "recv" /\ dataCh # <<>>
  /\ LET m == Head(dataCh)
         buf == [rcv_buf EXCEPT ![m.seq] = m.data]
     IN  /\ m.seq < N
         /\ InRcvWindow(m.seq, rcv_base) /\ rcv_buf[m.seq] = NULL
         /\ ack_to_resend' = Ack(m)
         /\ ackCh' \in Transmit(ackCh, Ack(m))
         /\ \/ /\ m.seq # rcv_base
               /\ rcv_buf' = buf
               /\ ahead' = TRUE
               /\ UNCHANGED <<rcv_base, written>>
            \/ /\ m.seq = rcv_base
               /\ rcv_buf' = ClearedBuf(buf)
               /\ rcv_base' = (rcv_base + 1) % N
               /\ written' = Append(written, m.data)
               /\ UNCHANGED ahead
  /\ dataCh' = Tail(dataCh)
  /\ attempt' = 0
  /\ UNCHANGED <<sndVars, rcvJob>>

\* rcvFile, the final packet: acknowledge it three times and return.
ReceiveFinal ==
  /\ rcvJob = "recv" /\ dataCh # <<>>
  /\ LET m == Head(dataCh)
     IN  /\ m.seq >= N
         /\ ack_to_resend' = Ack(m)
         /\ \E c1 \in Transmit(ackCh, Ack(m)) : \E c2 \in Transmit(c1, Ack(m)) :
              ackCh' \in Transmit(c2, Ack(m))
  /\ dataCh' = Tail(dataCh)
  /\ attempt' = 0
  /\ rcvJob' = "done"
  /\ UNCHANGED <<sndVars, rcv_base, rcv_buf, written, ahead>>

\* A slip of GiveUp: it reports the file as received.
GiveUpSlip ==
  /\ rcvJob = "recv" /\ attempt = MaxAttempt
  /\ rcvJob' = "done"
  /\ UNCHANGED <<sndVars, dataCh, ackCh, rcv_base, rcv_buf, written, attempt, ack_to_resend, ahead>>

\* rcvFile, MAXIMUM_ATTEMPT silent timeouts in a row: return without the file.
GiveUp ==
  /\ rcvJob = "recv" /\ attempt = MaxAttempt
  /\ rcvJob' = "gaveup"
  /\ UNCHANGED <<sndVars, dataCh, ackCh, rcv_base, rcv_buf, written, attempt, ack_to_resend, ahead>>

\* close, socket and bind again: the datagrams queued at the old socket are
\* discarded, those still in the network find the new one.
AfterRebind(ch) == {SubSeq(ch, k, Len(ch)) : k \in 1..Len(ch)+1}

CommandNonValido == [seq |-> 0, blk |-> -1]

\* handle_request after rcvFile, whatever came of it.
EndPut ==
  /\ rcvJob \in {"done", "gaveup"}
  /\ ackCh' \in Transmit(ackCh, CommandNonValido)
  /\ dataCh' \in AfterRebind(dataCh)
  /\ rcvJob' = "command"
  /\ UNCHANGED <<sndVars, rcv_base, rcv_buf, written, attempt, ack_to_resend, ahead>>

\* handle_request takes a packet of the transfer for a command.
AnswerCommand ==
  /\ rcvJob = "command" /\ dataCh # <<>>
  /\ ackCh' \in Transmit(ackCh, CommandNonValido)
  /\ dataCh' \in AfterRebind(Tail(dataCh))
  /\ UNCHANGED <<sndVars, rcvVars, ahead>>

\* The client is out of sendFile and the server waits for its next command.
Terminated ==
  /\ ackJob = "done" /\ rcvJob = "command" /\ dataCh = <<>>
  /\ UNCHANGED vars

\* The upload while the server is never made to give up.
PatientNext ==
  \/ ClientSendPacket \/ ClientSendEof \/ ClientTimeoutExpired
  \/ ClientReadAck \/ ClientStartFinal \/ ClientReadFinalAck
  \/ ReadSize \/ ReceiveOld \/ ReceiveNew \/ ReceiveFinal
  \/ RcvTimeout /\ UNCHANGED ahead
  \/ EndPut \/ AnswerCommand
  \/ Terminated

\* A server that gave up answers ACK 0, and may crash the client.
Next == PatientNext \/ GiveUp \/ ClientCrashes

Spec == Init /\ [][Next]_vars

-----------------------------------------------------------------------------
\* Fairness, as for Download: threads that poll are weakly fair, a datagram
\* sent again and again is at last delivered.
AckDelivered(s) ==
  /\ dataCh # <<>> /\ Head(dataCh).seq = s
  /\ ReceiveOld \/ ReceiveNew
  /\ Delivered(ackCh)

Fairness ==
  /\ WF_vars(ClientSendPacket \/ ClientSendEof)
  /\ WF_vars(ClientReadAck \/ ClientStartFinal \/ ClientReadFinalAck)
  /\ WF_vars(ReadSize \/ ReceiveOld \/ ReceiveNew \/ ReceiveFinal)
  /\ WF_vars(EndPut \/ AnswerCommand)
  /\ SF_vars(AnswerCommand /\ Delivered(ackCh))
  /\ \A s \in Numbers \cup {N} : SF_vars(ResendDelivered(s) /\ UNCHANGED <<rcvVars, ahead>>)
  /\ \A s \in Numbers : SF_vars(AckDelivered(s))

PatientSafeSpec == Init /\ [][PatientNext]_vars
PatientSpec == PatientSafeSpec /\ Fairness

-----------------------------------------------------------------------------
\* The server takes an upload for finished only when its copy is the file.
UploadedFileIsWhole == rcvJob = "done" => written = [i \in 1..FileLen |-> i - 1]

\* It is, however many packets are lost or repeated, as long as none of them
\* made a later packet arrive ahead of its turn: then rcvBufInit in the write
\* loop has nothing to lose.
WholeIfNeverAhead == ~ahead => UploadedFileIsWhole

\* The client leaves sendFile, and so prints "File sent", only after the server
\* has taken the final packet: no ACK of another packet, and no answer of the
\* command loop, ends the upload early.
SentOnlyWhenReceived == ackJob = "done" => rcvJob \in {"done", "command"} /\ ack_to_resend.seq >= N

\* rcvFile returned without the final packet.
GaveUp == rcvJob = "gaveup" \/ (rcvJob = "command" /\ ack_to_resend.seq < N)

\* Until the server gives up, no ACK in flight will be taken for that of another
\* packet, although its receiver forgets packets and its answers read as ACK 0;
\* and the client's window and its timers match, as in a download.
RightUnlessGivenUp == ~GaveUp => NoAckMistaken /\ TimersMatchWindow

\* The server's answer to a failed upload is for the user to read; it does not
\* make the client fail.
ReplyNeverCrashesClient == ackJob # "crashed"

\* The server's rcvFile comes to an end.
ServerFinishes == <>(rcvJob = "command")

\* The client's sendFile comes to an end.
ClientFinishes == <>(ackJob = "done")
=============================================================================
