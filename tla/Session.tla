------------------------------ MODULE Session ------------------------------
(***************************************************************************)
(* One client and its thread of the server through several commands: the   *)
(* main loop of Client.c against handle_request of Server.c.  The client   *)
(* opens a new socket for each command, so a socket is the number of its   *)
(* command.  The server answers the sender of the last command, but        *)
(* sendFile and rcvFile reply to whoever sent them the last datagram, and  *)
(* after most commands the server closes its socket and binds a new one.   *)
(*                                                                         *)
(* No datagram says which command it belongs to.  What a text means to the *)
(* side that reads it is modelled here: parseAck takes any text without a  *)
(* leading number for ACK 0; parseLine ends the process on one.            *)
(*                                                                         *)
(* A file is one block or empty, and a list one name: windows and blocks   *)
(* are in Download and Upload.  Neither receiver gives up, as there.       *)
(***************************************************************************)
EXTENDS Integers, Sequences

CONSTANTS
  MaxCmds,  \* commands the user types
  ChanCap   \* datagrams a socket buffer holds

ASSUME SessionAssumption == MaxCmds \in Nat \ {0} /\ ChanCap \in Nat \ {0}

VARIABLES
  cpc,      \* client: "prompt", the reply it waits for ("count", "name", "first",
            \* "reply", "bye"), "recv" in rcvFile, "snd" or "fin" in sendFile,
            \* "exited", or "dead" by parseLine
  cmd,      \* its last command
  sock,     \* the number of that command, and of its socket
  inbox,    \* datagrams queued at that socket
  cack,     \* rcvFile's ack_to_resend
  cfile,    \* the block in the file being downloaded: of which command's get
  spc,      \* server: "cmd", "size", "rcv" in rcvFile, "snd" or "fin" in sendFile,
            \* "tail" and "close" on the way back to START, "gone", or "dead"
  srvIn,    \* datagrams queued at the client's port
  from,     \* clinf->from
  si_other, \* the address sendFile, or rcvFile, replies to
  job,      \* the command the server works on
  sack,     \* its rcvFile's ack_to_resend
  sfile,    \* the put whose block it has written, if any
  received, \* history: the puts it took to the end, and whose block it had then
  faults    \* history: what went wrong so far: a datagram was lost ("loss"),
            \* the user typed before the server waited for a command ("haste"),
            \* or a packet was retransmitted before its answer came ("early")

clVars == <<cpc, cmd, sock, inbox, cack, cfile>>
srvVars == <<spc, srvIn, from, si_other, job, sack, sfile>>
vars == <<clVars, srvVars, received, faults>>

\* get: of a file, an empty file, one not in the list, or without a name.
\* put: by the size of the file as a number (below N or not), of an empty file,
\* of one the client does not have, or without a name.
Commands ==
  [op: {"get"}, arg: {"file", "void", "missing", "noname"}] \cup
  [op: {"put"}, arg: {"small", "large", "empty", "absent", "noname"}] \cup
  [op: {"list", "exit", "other"}, arg: {"none"}]

Sockets == 1..MaxCmds
ToSrv == [from: Sockets, op: {"get", "put", "list", "exit", "other", "size", "Error_path",
                             "data", "final", "ack", "finack", "probe"}, arg: STRING]
ToCl == [of: Sockets, op: {"count", "name", "warn", "FAIL", "invalid", "bye",
                          "data", "final", "ack", "finack", "probe"}]

TypeOK ==
  /\ cpc \in {"prompt", "count", "name", "drain", "first", "reply", "bye", "recv",
              "snd", "fin", "exited", "dead"}
  /\ cmd \in Commands /\ sock \in 0..MaxCmds
  /\ \A i \in DOMAIN inbox : inbox[i] \in ToCl
  /\ Len(inbox) <= ChanCap /\ Len(srvIn) <= ChanCap
  /\ cack \in {"probe", "ack"} /\ sack \in {"probe", "ack"}
  /\ cfile \in 0..MaxCmds /\ sfile \in 0..MaxCmds
  /\ spc \in {"cmd", "size", "rcv", "snd", "fin", "tail", "close", "gone", "dead"}
  /\ \A i \in DOMAIN srvIn : srvIn[i].from \in 1..sock /\ srvIn[i].op # "none"
  /\ from \in 0..sock /\ job \in 0..sock
  /\ si_other \in IF spc \in {"snd", "fin", "rcv"} THEN job..sock ELSE 0..sock
  /\ received \subseteq [put: Sockets, block: 0..MaxCmds]
  /\ faults \subseteq {"loss", "haste", "early"}

Init ==
  /\ cpc = "prompt" /\ cmd = [op |-> "list", arg |-> "none"] /\ sock = 0 /\ inbox = <<>>
  /\ cack = "probe" /\ cfile = 0
  /\ spc = "cmd" /\ srvIn = <<>> /\ from = 0 /\ si_other = 0 /\ job = 0
  /\ sack = "probe" /\ sfile = 0
  /\ received = {} /\ faults = {}

-----------------------------------------------------------------------------
\* What the queue q may be after the datagrams ms, at most two, were sent.
Sent(q, ms) ==
  LET Arrived == {ms, <<>>} \cup {<<ms[i]>> : i \in DOMAIN ms}
  IN  {q \o t : t \in {u \in Arrived : Len(q) + Len(u) <= ChanCap}}
Fault(new, q, ms) == IF new = q \o ms THEN {} ELSE {"loss"}

\* Datagrams to the server; f is what else went wrong in this step.
ToServer(ms, f) ==
  /\ srvIn' \in Sent(srvIn, ms)
  /\ faults' = faults \cup f \cup Fault(srvIn', srvIn, ms)

Dgram(k, op, arg) == [from |-> k, op |-> op, arg |-> arg]

\* A slip of ToClient: the client has one socket for all commands.
ToClientSlip(k, of, ops, f) ==
  LET ms == [i \in DOMAIN ops |-> [of |-> of, op |-> ops[i]]]
  IN  inbox' \in Sent(inbox, ms) /\ faults' = faults \cup f \cup Fault(inbox', inbox, ms)

\* Datagrams to socket k, sent for command of.  Nobody reads the socket of an
\* earlier command.
ToClient(k, of, ops, f) ==
  LET ms == IF k = sock THEN [i \in DOMAIN ops |-> [of |-> of, op |-> ops[i]]] ELSE <<>>
  IN  inbox' \in Sent(inbox, ms) /\ faults' = faults \cup f \cup Fault(inbox', inbox, ms)

-----------------------------------------------------------------------------
\* Client main: the user types command c.  A put also sends the size of the
\* file, or "Error_path", at once.
HasFile(c) == c.op = "put" /\ c.arg \in {"small", "large", "empty"}
Name(c) == IF c.op = "put" /\ c.arg # "noname" THEN "name" ELSE c.arg

FirstWait(c) ==
  CASE c.op = "get"   -> "first"
    [] c.op = "list"  -> "count"
    [] c.op = "exit"  -> "bye"
    [] c.op = "other" -> "reply"
    [] c.op = "put"   -> IF c.arg = "empty" THEN "fin"
                         ELSE IF HasFile(c) THEN "snd" ELSE "prompt"

Command(c) ==
  /\ cpc = "prompt" /\ sock < MaxCmds
  /\ cmd' = c /\ sock' = sock + 1 /\ inbox' = <<>>
  /\ cack' = "probe" /\ cfile' = 0
  /\ ToServer(<<Dgram(sock', c.op, Name(c))>> \o
                 CASE HasFile(c)         -> <<Dgram(sock', "size", c.arg)>>
                   [] c.arg = "absent"   -> <<Dgram(sock', "Error_path", "none")>>
                   [] OTHER              -> <<>>,
              IF spc = "cmd" /\ srvIn = <<>> THEN {} ELSE {"haste"})
  /\ cpc' = FirstWait(c)
  /\ UNCHANGED <<spc, from, si_other, job, sack, sfile, received>>

Read == inbox # <<>> /\ inbox' = Tail(inbox)
In == Head(inbox).op

\* list: a number of names and the names.  Any datagram is read as the number;
\* the bytes of a text are one that no list ever reaches.
ReadList ==
  /\ cpc \in {"count", "name", "drain"} /\ Read
  /\ cpc' = CASE cpc = "count" -> IF In = "count" THEN "name" ELSE "drain"
              [] cpc = "name"  -> "prompt"
              [] cpc = "drain" -> "drain"
  /\ UNCHANGED <<cmd, sock, cack, cfile, srvVars, received, faults>>

\* A slip of ReadFirst: "FAIL" is not recognised.
ReadFirstSlip ==
  /\ cpc = "first" /\ Read
  /\ cpc' = IF In = "warn" \/ cmd.arg = "noname" THEN "prompt" ELSE "recv"
  /\ UNCHANGED <<cmd, sock, cack, cfile, srvVars, received, faults>>

\* get: the first datagram is the answer; if it is no refusal, it is thrown
\* away, be it the first block, and rcvFile empties the file and starts.
ReadFirst ==
  /\ cpc = "first" /\ Read
  /\ cpc' = IF In \in {"warn", "FAIL"} \/ cmd.arg = "noname" THEN "prompt" ELSE "recv"
  /\ UNCHANGED <<cmd, sock, cack, cfile, srvVars, received, faults>>

\* An unknown command, and exit: any datagram is the answer.
ReadReply ==
  /\ cpc \in {"reply", "bye"} /\ Read
  /\ cpc' = IF cpc = "bye" THEN "exited" ELSE "prompt"
  /\ UNCHANGED <<cmd, sock, cack, cfile, srvVars, received, faults>>

\* rcvFile, the block: write and acknowledge it.
RecvData ==
  /\ cpc = "recv" /\ Read /\ In = "data"
  /\ cfile' = Head(inbox).of /\ cack' = "ack"
  /\ ToServer(<<Dgram(sock, "ack", "none")>>, {})
  /\ UNCHANGED <<cpc, cmd, sock, spc, from, si_other, job, sack, sfile, received>>

\* rcvFile, the final packet: acknowledge it and report the download.
RecvFinal ==
  /\ cpc = "recv" /\ Read /\ In = "final"
  /\ ToServer(<<Dgram(sock, "finack", "none")>>, {})
  /\ cpc' = "prompt"
  /\ UNCHANGED <<cmd, sock, cack, cfile, spc, from, si_other, job, sack, sfile, received>>

\* rcvFile, anything else: parseLine finds no number with a space behind it.
RecvText ==
  /\ cpc = "recv" /\ Read /\ In \notin {"data", "final"}
  /\ cpc' = "dead"
  /\ UNCHANGED <<cmd, sock, cack, cfile, srvVars, received, faults>>

\* rcvFile hears nothing for TIMEOUT_FILE_RCV, in which the server has read
\* what was queued: it sends its last ACK again.
ProbeServer ==
  /\ cpc = "recv" /\ inbox = <<>> /\ srvIn = <<>>
  /\ ToServer(<<Dgram(sock, cack, "none")>>, {})
  /\ UNCHANGED <<clVars, spc, from, si_other, job, sack, sfile, received>>

\* A timer that expires while something of the transfer is under way.
UnderWay(q) == \E i \in DOMAIN q : q[i].op \in {"data", "final", "ack", "finack"}
Early == IF UnderWay(srvIn) \/ UnderWay(inbox) THEN {"early"} ELSE {}

\* sendFile sends its block, or its final packet, for the first time or again.
SendToServer ==
  /\ cpc \in {"snd", "fin"}
  /\ ToServer(<<Dgram(sock, IF cpc = "snd" THEN "data" ELSE "final", "none")>>, Early)
  /\ UNCHANGED <<clVars, spc, from, si_other, job, sack, sfile, received>>

\* thread_ack_job: what reads as ACK 0 acknowledges the block; a number from N
\* on is outside the window.
ReadAck ==
  /\ cpc = "snd" /\ Read
  /\ cpc' = IF In \in {"probe", "final", "finack"} THEN "snd" ELSE "fin"
  /\ UNCHANGED <<cmd, sock, cack, cfile, srvVars, received, faults>>

\* A slip of ReadFinalAck: any ACK but "-1" ends the upload.
ReadFinalAckSlip ==
  /\ cpc = "fin" /\ Read
  /\ cpc' = IF In # "probe" THEN "prompt" ELSE "fin"
  /\ UNCHANGED <<cmd, sock, cack, cfile, srvVars, received, faults>>

\* proceduraFinale: a number from N on ends the upload, whatever sent it.
ReadFinalAck ==
  /\ cpc = "fin" /\ Read
  /\ cpc' = IF In \in {"final", "finack"} THEN "prompt" ELSE "fin"
  /\ UNCHANGED <<cmd, sock, cack, cfile, srvVars, received, faults>>

ClientNext ==
  \/ ReadList \/ ReadFirst \/ ReadReply
  \/ RecvData \/ RecvFinal \/ RecvText \/ ProbeServer
  \/ SendToServer \/ ReadAck \/ ReadFinalAck

-----------------------------------------------------------------------------
Taken == srvIn # <<>> /\ srvIn' = Tail(srvIn)
Src == Head(srvIn).from
Op == Head(srvIn).op
Arg == Head(srvIn).arg

\* handle_request at START: from and job name the sender from now on.
TakeCommand == spc = "cmd" /\ Taken /\ from' = Src /\ job' = Src

\* A command that is answered with one datagram.  exit ends the thread; a FAIL
\* is followed by "comando non valido", like everything but an empty file.
Answer ==
  /\ TakeCommand
  /\ \E answer \in {<<"get", "missing", "FAIL", "tail">>, <<"get", "void", "warn", "close">>,
                    <<"get", "noname", "warn", "cmd">>, <<"put", "noname", "warn", "cmd">>,
                    <<"exit", "none", "bye", "gone">>} :
       /\ answer[1] = Op /\ answer[2] = Arg
       /\ ToClient(Src, Src, <<answer[3]>>, {})
       /\ spc' = answer[4]
  /\ UNCHANGED <<cpc, cmd, sock, cack, cfile, si_other, sack, sfile, received>>

\* list: the number and the name.
AnswerList ==
  /\ TakeCommand /\ Op = "list"
  /\ ToClient(Src, Src, <<"count", "name">>, {})
  /\ spc' = "tail"
  /\ UNCHANGED <<cpc, cmd, sock, cack, cfile, si_other, sack, sfile, received>>

\* A slip of StartGet: sendFile keeps the address of the last transfer.
StartGetSlip ==
  /\ TakeCommand /\ Op = "get" /\ Arg = "file"
  /\ spc' = "snd"
  /\ UNCHANGED <<clVars, si_other, sack, sfile, received, faults>>

\* get of a file: sendFile starts.
StartGet ==
  /\ TakeCommand /\ Op = "get" /\ Arg = "file"
  /\ si_other' = Src /\ spc' = "snd"
  /\ UNCHANGED <<clVars, sack, sfile, received, faults>>

\* put: the file is emptied, then the size awaited.
StartPut ==
  /\ TakeCommand /\ Op = "put" /\ Arg # "noname"
  /\ spc' = "size" /\ sfile' = 0 /\ sack' = "probe"
  /\ UNCHANGED <<clVars, si_other, received, faults>>

\* Anything else, a datagram of a transfer included, is no command.
AnswerInvalid ==
  /\ TakeCommand /\ Op \notin {"get", "put", "list", "exit"}
  /\ ToClient(Src, Src, <<"invalid">>, {})
  /\ spc' = "close"
  /\ UNCHANGED <<cpc, cmd, sock, cack, cfile, si_other, sack, sfile, received>>

\* The recv of the size takes any datagram but "Error_path" for it; rcvFile
\* starts with the address of the put.
ReadSize ==
  /\ spc = "size" /\ Taken
  /\ IF Op = "Error_path" THEN spc' = "close" /\ si_other' = si_other
                          ELSE spc' = "rcv" /\ si_other' = from
  /\ UNCHANGED <<clVars, from, job, sack, sfile, received, faults>>

\* rcvFile, the block: write it, unless one is written, and acknowledge it to
\* its sender.
StoreData ==
  /\ spc = "rcv" /\ Taken /\ Op = "data"
  /\ si_other' = Src
  /\ sfile' = (IF sfile = 0 THEN Src ELSE sfile) /\ sack' = "ack"
  /\ ToClient(Src, job, <<"ack">>, {})
  /\ UNCHANGED <<cpc, cmd, sock, cack, cfile, spc, from, job, received>>

\* A slip of StoreFinal: the final packet is not acknowledged.
StoreFinalSlip ==
  /\ spc = "rcv" /\ Taken /\ Op = "final"
  /\ si_other' = Src
  /\ received' = received \cup {[put |-> job, block |-> sfile]}
  /\ spc' = "tail"
  /\ UNCHANGED <<cpc, cmd, sock, cack, cfile, inbox, from, job, sack, sfile, faults>>

\* rcvFile, the final packet: the three ACKs, to its sender, are lost together
\* or are not.
StoreFinal ==
  /\ spc = "rcv" /\ Taken /\ Op = "final"
  /\ si_other' = Src
  /\ ToClient(Src, job, <<"finack">>, {})
  /\ received' = received \cup {[put |-> job, block |-> sfile]}
  /\ spc' = "tail"
  /\ UNCHANGED <<cpc, cmd, sock, cack, cfile, from, job, sack, sfile>>

\* rcvFile, a text that parseLine cannot read: the server exits.
StoreText ==
  /\ spc = "rcv" /\ Taken /\ Op \notin {"data", "final"}
  /\ si_other' = Src /\ spc' = "dead"
  /\ UNCHANGED <<clVars, from, job, sack, sfile, received, faults>>

\* rcvFile hears nothing for TIMEOUT_FILE_RCV.
ProbeClient ==
  /\ spc = "rcv" /\ srvIn = <<>> /\ inbox = <<>>
  /\ ToClient(si_other, job, <<sack>>, {})
  /\ UNCHANGED <<cpc, cmd, sock, cack, cfile, srvVars, received>>

\* sendFile sends its block, or its final packet, to whoever wrote last.
SendToClient ==
  /\ spc \in {"snd", "fin"}
  /\ ToClient(si_other, job, IF spc = "snd" THEN <<"data">> ELSE <<"final">>, Early)
  /\ UNCHANGED <<cpc, cmd, sock, cack, cfile, srvVars, received>>

\* A slip of TakeAck: "-1" is read as ACK 0 too.
TakeAckSlip ==
  /\ spc = "snd" /\ Taken /\ Op # "size"
  /\ si_other' = Src
  /\ spc' = IF Op \in {"final", "finack"} THEN "snd" ELSE "fin"
  /\ UNCHANGED <<clVars, from, job, sack, sfile, received, faults>>

\* thread_ack_job: any text but "-1" and a number from N on reads as ACK 0.  No
\* size is ever read here.
TakeAck ==
  /\ spc = "snd" /\ Taken /\ Op # "size"
  /\ si_other' = Src
  /\ spc' = IF Op \in {"probe", "final", "finack"} THEN "snd" ELSE "fin"
  /\ UNCHANGED <<clVars, from, job, sack, sfile, received, faults>>

\* proceduraFinale: a number from N on ends the transfer, be it the size of the
\* next upload; the rest, be it the next command, is dropped.
TakeFinalAck ==
  /\ spc = "fin" /\ Taken
  /\ si_other' = Src
  /\ spc' = IF Op \in {"final", "finack"} \/ (Op = "size" /\ Arg = "large")
            THEN "close" ELSE "fin"
  /\ UNCHANGED <<clVars, from, job, sack, sfile, received, faults>>

\* The test that should spare list, get and put the answer is always true.
AnswerTail ==
  /\ spc = "tail"
  /\ ToClient(from, job, <<"invalid">>, {})
  /\ spc' = "close"
  /\ UNCHANGED <<cpc, cmd, sock, cack, cfile, srvIn, from, si_other, job, sack, sfile, received>>

\* close, socket and bind: what is queued is discarded, what is still under way
\* finds the new socket.  Then goto START.
Rebind ==
  /\ spc = "close"
  /\ \E k \in 1..Len(srvIn)+1 : srvIn' = SubSeq(srvIn, k, Len(srvIn))
  /\ spc' = "cmd"
  /\ UNCHANGED <<clVars, from, si_other, job, sack, sfile, received, faults>>

ServerNext ==
  \/ Answer \/ AnswerList \/ StartGet \/ StartPut \/ AnswerInvalid
  \/ ReadSize \/ StoreData \/ StoreFinal \/ StoreText \/ ProbeClient
  \/ SendToClient \/ TakeAck \/ TakeFinalAck
  \/ AnswerTail \/ Rebind

Next == (\E c \in Commands : Command(c)) \/ ClientNext \/ ServerNext

Spec == Init /\ [][Next]_vars

\* Each side goes on while it has something to read or to retransmit.
FairSpec ==
  /\ Spec
  /\ WF_vars(ReadList \/ ReadFirst \/ ReadReply \/ RecvData \/ RecvFinal \/ ReadAck \/ ReadFinalAck)
  /\ WF_vars(Answer \/ AnswerList \/ StartGet \/ StartPut \/ AnswerInvalid \/ ReadSize
             \/ StoreData \/ StoreFinal \/ TakeAck \/ TakeFinalAck \/ AnswerTail \/ Rebind)
  /\ SF_vars(SendToServer /\ faults' = faults) /\ SF_vars(SendToClient /\ faults' = faults)

-----------------------------------------------------------------------------
\* While the client is at a command, what reaches its socket on account of an
\* earlier one is the final packet of a get, for sendFile follows the client to
\* its new socket in proceduraFinale; or, at a client that uploads, ACKs of a
\* rcvFile started by an earlier put that its packets reached.  Never a block, and
\* never a text of the command loop.
OnlyTransferStrays ==
  \A i \in DOMAIN inbox : inbox[i].of # sock =>
    inbox[i].op = "final" \/ (HasFile(cmd) /\ inbox[i].op \in {"ack", "finack", "probe"})

\* A put of a file that is not empty is reported sent only when a rcvFile of the
\* server had its block, and took a final packet after it; perhaps that of another
\* put, and in the file of that one.
SentIsReceived ==
  cpc = "prompt" /\ cmd.op = "put" /\ cmd.arg \in {"small", "large"} =>
    \E r \in received : r.block = sock

\* Nothing was lost, and the user waited for the server.
Calm == faults \subseteq {"early"}

\* A get that the client reports done left the requested file, whole, and a put
\* that it reports sent was received whole, and as that put.  A lost final ACK is
\* enough to break this: the next command takes what it left behind.
ReportsAreTrue ==
  Calm /\ cpc = "prompt" =>
    /\ cmd.op = "get" /\ cmd.arg = "file" => cfile = sock
    /\ HasFile(cmd) => \E r \in received : r.put = sock /\ (cmd.arg = "empty" \/ r.block = sock)

\* No text of the command loop reaches a rcvFile: parseLine would end the client,
\* or the server with all its clients.
NoParseExit == Calm => cpc # "dead" /\ spc # "dead"

\* Every command comes to an end, the client prompts again or exits, unless
\* something went wrong on the way.
EveryCommandEnds == cpc # "prompt" ~> cpc \in {"prompt", "exited"} \/ faults # {}
=============================================================================
