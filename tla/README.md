# Transfer-file-over-UDP in TLA+

A verification development beside the C code of *Transfer-file-over-UDP*: a
server and its clients that exchange files over UDP, made reliable by a
selective-repeat protocol of their own. This directory holds TLA+ modules that
model the code, TLC configurations that check them on small instances, and
proofs that TLAPS checks for every instance. `PROJECT.json` lists components,
runs, the source lines each definition models, hazards, findings and theorems.

    tlc -workers 2 -config MCDownload.cfg MCDownload     # model-check
    tlapm DownloadProofs.tla                             # check the proofs of a module

## 1. The system

### Components

| Component | Code | State | Operations |
|---|---|---|---|
| Sender | `sendFile` in `Server/ServerSender.h`, the same in `Client/ClientSender.h` | `snd_thread_info`: window `send_base`, `next_tosend`, ring `buf[N]`, timeouts; the global timer list `phead` | `thread_send_job`, `thread_timeout_job`, `thread_ack_job`, `proceduraFinale` |
| Timer list | `Server/timerlist.h`, `Client/timeoutlist.h` | linked list of (sequence number, start time) | `insert_in_queue`, `delete_node_in_head`, `remove_nodo` |
| Client's receiver | `rcvFile` in `Client/ClientReceiver.h` | `rcv_base`, ring `buf[N]`, `attempt`, `ack_to_resend`, the file | receive, time out, give up |
| Server's receiver | `rcvFile` in `Server/ServerReceiver.h` | the same | the same, with three final ACKs |
| Server command loop | `handle_request` in `Server/Server.c`, one thread per client | the client's socket and port | `list`, `get`, `put`, `exit`, invalid |
| Client command loop | `main` in `Client/Client.c` | socket, port | the same commands, SIGINT |
| Handshake | `main` of both, `servreliablemsg.h`, `clientreliablemsg.h` | number of clients, port, thread table | hello, `sndMsg`, `rcvMsg`, bind, `pthread_create` |
| RTT estimate | `estimateTimeout`, `setRcvTimeout` | `EstimatedRTT`, `DevRTT`, `TIMEOUT` | sample, double |
| Catalogue | `Lista.txt` and `read_file_list`, `aggiorna_lista`, `controllo_se_esiste_in_lista` | the file, `Number_file`, `static int i` | look up, append |
| File helpers | `clientfileoperation.h`, `serverfileoperation.h` | none | paths, tokens, directories |
| Ports file | `scrivi_su_file` in `Server/Server.c` | `porte_attive.txt` | written and read back at start |

### How they interact

A client says hello on port 7777; the server's main thread answers with a port
of the client's own, and starts a thread that binds it and serves commands one
by one. `get` runs the server's sender against the client's receiver, `put` the
client's sender against the server's receiver, over the same sockets as the
commands. A sender is three threads over one structure: each takes `snd->mtx`
for one pass of its loop. The ack thread holds the mutex while it waits for a
datagram, at most `TIMEOUT` microseconds. Both directions may lose datagrams:
by the simulated draw against `P`, in the network, or at a full socket buffer.

### What is hard, and what would make each part correct

* *Two windows over a ring of N slots*, numbers reused every N packets: late
  packets and late ACKs must never be taken for those N further on; what was
  written is the file, in order; what was acknowledged is kept.
* *Three threads and a timer list* whose head, middle and tail each belong to
  another thread: every unacknowledged packet has exactly one timer.
* *The end of a transfer*: the final packet carries no length, so it must come
  after all the others; its ACK may be lost, and the peer gone.
* *Two protocols over one socket*: data packets can reach a command loop, and
  answers of the command loop can reach a sender, which reads text as ACK 0.
* *Liveness*: a transfer ends when the network is not always down, as far as the
  timeout of its sender stays sound.
* *Several clients*: the timer list, `Number_file` and a loop index are global
  and shared by threads that hold different locks, or none; `Lista.txt` is read
  and appended by all of them.
* *Connecting*: the server binds the port it has announced only after the
  exchange, and ends altogether when the exchange fails.
* *One socket per command* on the client, one address (`si_other`) that follows
  the last sender on the server: what one command leaves behind meets the next.
* *Time*: samples are C unsigned differences of start times that a
  retransmission renews; the timeout they lead to must neither be 0 nor wrap.

All hazards, each at its line, are in `PROJECT.json`.

## 2. Modules

| Module | What it is | Code |
|---|---|---|
| `TimerList` | the list operations, a list being a sequence of numbers | `Server/timerlist.h` |
| `SRSender` | the three sender threads and the two channels | `Server/ServerSender.h` |
| `SRReceiver` | what both receivers share: state, window test, probe | `Client/ClientReceiver.h` |
| `FileTransfer` | abstract: the file only grows, by the right blocks; the receiver ends well only with all of it, the sender only after the receiver | — |
| `Download` | `get`: sender + client's `rcvFile`; implements `FileTransfer` | `Client/ClientReceiver.h`, `Client/Client.c` |
| `Upload` | `put`: client's sender + server's `rcvFile` + the command loop after it | `Client/ClientSender.h`, `Server/ServerReceiver.h`, `Server/Server.c` |
| `RttTimer` | the sender's clock: start times, samples, estimate, `TIMEOUT` | `Client/ClientSender.h`, `Server/ServerSender.h`, `timerlist.h` |
| `PortAllocation` | abstract: every client gets a port of its own, and is served only if it connects | — |
| `Handshake` | both `main`s until a client has its port; implements `PortAllocation` | `servreliablemsg.h`, `clientreliablemsg.h`, `Server/Server.c`, `Client/Client.c` |
| `Session` | the commands of one client, one after the other, over one port | `Server/Server.c`, `Client/Client.c`, both ends of a transfer in short |
| `FileCatalog` | `list`, `get` and `put` of several threads over `Lista.txt` and the files | `Server/Server.c`, `serverfileoperation.h` |
| `SenderInv`, `DownloadInv`, `UploadInv` | the inductive invariants: what both transfers have of the sender, and the rest of each | |
| `MC...` | for TLC | |
| `ModArith` | lemmas: arithmetic modulo N and the window test | |
| `SenderProofs` | what the list operations do, and each action of the sender to its window and timers, for both transfers | |
| `DownloadProofs` | `Download`: the invariant is inductive; the safety properties and the refinement | |
| `UploadProofs` | `Upload`: the invariant is inductive; the safety properties | |
| `RttTimerProofs` | `RttTimer`: types and safety | |
| `HandshakeProofs` | `Handshake`: inductive invariants, safety and refinement | |
| `SessionProofs` | `Session`: inductive invariants and safety, of any session and of a calm one | |
| `FileCatalogProofs` | `FileCatalog`: inductive invariants and safety | |

`Download` and `Upload` both extend `SRReceiver`, which extends `SRSender`, which
extends `TimerList`. `RttTimer`, `Handshake`, `Session` and `FileCatalog` stand
beside them: each keeps one aspect in full and takes the others from the modules
above, as its first comment says.

### State and code

The variables of `SRSender` and `SRReceiver` have the names of the C fields.
A block of the file is its position, 0 to FileLen-1; `FileLen` is the empty
block read at the end. `dataCh` and `ackCh` are the datagrams in flight, oldest
first. The network loses and repeats (through retransmission) but does not
reorder: both ends run on one host (`SERVER` is 127.0.0.1). `blk` in an ACK and
`ahead` in `Upload` are history that no guard reads.

One pass of a thread's loop under the mutex is one action; a pass that changes
nothing (window full, list empty, timer not expired, receive timeout of the
sender) is none. `thread_ack_job`'s pass is `IgnoreAck`, `AcceptAck` or
`StartFinal`, by what it reads. `rcvFile`'s is `ReceiveOld`, `ReceiveNew`,
`ReceiveFinal`, `RcvTimeout` or `GiveUp`; on the server, `EndPut` and
`AnswerCommand` follow. The loops that free acknowledged packets and that write
stored packets run k times in one step (`AckedRun`, `StoredRun`).
Every action's `Transmit` may lose the datagram.

`RttTimer` gives the timers their start times and lets time pass (`Tick`); a
packet is unacknowledged while it has a timer, and an ACK is that of such a
packet, both of which are `TimersMatchWindow` and `NoAckMistaken` of `Download`.
Samples and `TIMEOUT` are taken modulo `Long` (`long unsigned`), `abs()` has an
`int` argument and so looks at the low half only (`Int32`).

In `Handshake` time passes in ticks of 0.1 s, so that "three timeouts of 0.3 s"
against "one second without a datagram" are compared as in the code. `srv` and
`cl` are the places where the server's main thread and a client stand; `cont`,
`numero_client` and `numero_client_for_port` have the code's names. `lost` and
`busy` are history.

In `Session` each command of the client is a socket of its own (`sock`); the
client's `cpc` and the thread's `spc` name the receive call they are at; `from`
is where a command came from, `si_other` the address that `sendFile` or `rcvFile`
replies to, which every `recvfrom` of theirs overwrites; so ACKs and final packets go
to the last sender, texts of the command loop to `from`. `received` is history: the
puts that `rcvFile` took to the end, each with the command whose block it had.
A file is one block and the final packet: the windows are in `Download` and `Upload`.
What matters is how a text of one protocol reads in the other: any text is ACK 0 to `parseAck`, a size of N or more is a final ACK, and
`parseLine` ends the process on a text without a number and a space. `faults`
records what went wrong so far: a lost datagram, a user who typed the next command
before the server was ready (`haste`), a timer that expired although something of
the transfer was under way (`early`).

In `FileCatalog` one step is one access to shared memory or to a file, so `i++`
is `LoadIndex` and `StoreIndex`. What an array holds behind the names that were
read (stack memory nobody initialised) is a choice in `Garbage`: a NULL, bytes
that are no pointer, or an old pointer, whose string is sent before the loop goes on
(at most `MaxStale` of them). `Spell` gives names their letters, since
`controllo_se_esiste_in_lista` looks for a name as a substring of all names.

The slips (`...Slip`) next to some definitions are plausible bugs of the code;
each is there because some property fails when it replaces the definition.

## 3. Runs

The code has N = 100 and WS = WR = 50, the tightest numbering that selective
repeat allows; the instances keep that proportion, except the two liveness runs that
pass: they concern files of N - WS blocks, and a larger ring lets such a file still
fill the window. `MaxAttempt = 1` (10 in the
code) still separates a probe from a give-up.

| Run | N, WS = WR | Blocks | Channel | Shows |
|---|---|---|---|---|
| `download` | 6, 3 | 7 | 2 | `get` under loss, give-up and interruption: `WrittenInOrder`, `CompleteWhenDone`, `NoPacketMistaken`, `NoAckMistaken`, `AckedIsStored`, `TimersMatchWindow`; that `IInv`, from which they are proved, is an invariant; and that it implements `FileTransfer` |
| `download_live` | 6, 2 | 4 | 2 | `DownloadFinishes`, if the client stays, for a file of at most N - WS blocks |
| `upload` | 6, 3 | 7 | 2 | `put` whose server may give up: the client never announces success early (`SentOnlyWhenReceived`); until the server gives up, ACKs and timers match the client's window although the receiver empties its buffer (`RightUnlessGivenUp`); what the server takes for finished is whole if nothing ever arrived ahead of its turn (`WholeIfNeverAhead`) |
| `upload_server_live` | 5, 2 | 3 | 2 | the server's `rcvFile` ends, for a file of at most N - WS blocks (`ServerFinishes`) |
| `upload_lossy` | 4, 2 | 3 | 2 | *violated*: an upload taken for finished is whole |
| `upload_client_live` | 4, 2 | 1 | 2 | *violated*: the client's `sendFile` ends |
| `upload_crash` | 4, 2 | 5 | 3 | *violated*: the server's answer never crashes the client |

| Run | Instance | Shows |
|---|---|---|
| `handshake` | 3 clients; 3 ticks `SND_MSG_TIMEOUT`, 10 ticks `RCV_MSG_TIMEOUT` and the `usleep` | every client that connects holds the port reserved for it and for no other (`ImplementsConnection`); the port is bound before its client uses it (`BoundInTime`); a client crashes only after a loss or when the server was busy (`CrashHasCause`); `sndMsg` and `rcvMsg` return (`SndMsgReturns`, `RcvMsgReturns`) |
| `handshake_retry` | 2 clients | *violated*: `sndMsg` gives up only after three losses |
| `session` | 3 commands of every kind, channels of 3 | of an earlier command only the final packet of a `get` reaches the socket of the next or, if that uploads, ACKs of an earlier `put`'s `rcvFile` (`OnlyTransferStrays`); a `put` of a file that is not empty is reported only when some `rcvFile` had its block and took a final packet (`SentIsReceived`); without losses and haste, reports are true and no text ends a process (`ReportsAreTrue`, `NoParseExit`); without losses, haste or an early retransmission, commands end (`EveryCommandEnds`) |
| `file_catalog` | 2 threads, names "b" and "ab", files of 2 blocks, 3 requests, up to 2 old pointers behind the names | `ListedOnce`, `FileIsListed`, `AnswerIsRight`, `CrashIsExplained`, `FilesNotMixed`, `LookupEnds` |
| `rtt_timer` | N = 4, WS = 2, 5 packets, steps of 1 and 5 up to time 16, first timeout 6, round trips of 4 or more, 12-bit `long`, 6-bit `int` | the head of the timer list is the oldest (`HeadIsOldest`); `t2` is written before it is read (`T2IsSet`); samples outside case (2) are round trips (`SampleIsRoundTrip`); `TIMEOUT` stays below five times the age of the transfer and above 0 (`TimeoutIsBounded`, `TimeoutIsPositive`) |

Why the bounds are enough. A file longer than N makes a sequence number stand
for two blocks, so a late datagram of the first round meets the window of the
second. Windows of 3 are the least in which a run is written while a packet
stays stored beyond a gap; with 2 the write loop always empties the buffer. A
channel of 2 holds an old packet in front of a new one, and the three final ACKs
of an upload overflow it; a channel of 1 would hide every overtaking. What is
proved (section 5) does not depend on any of these bounds.

`handshake`: a third client is what it takes for a hello to be dropped by
`sndMsg` while another waits in the queue; the ticks are the code's own times.
`session`: a command, what it leaves behind, the command that meets it, and one
more that shows the damage; a channel of 3 holds a command, a size
and a block behind them. `file_catalog`: two uploads and a look at what they
leave, or one lookup that starts anew under another; "b" is hidden in "ab".
`rtt_timer`: a window of two splits, and 5 packets go around a ring of 4; the
first timeout is above the shortest round trip, so a packet is retransmitted
once or not at all before its ACK, and the widths stand to
`MaxTime` as in the program for any transfer of less than 36 minutes, when half
of an `int`'s values no longer hold the age of a packet.

### What the conditions in the properties leave out

Some properties hold only while a history variable says that nothing of a certain
kind happened. What happens otherwise is a limit of the program, and is listed
among the hazards:

* `Session`, `Calm` (no loss, no haste): after a lost final ACK the server's
  `proceduraFinale` takes the next command for an ACK and drops it
  (`Server.c:323`); its final packets follow `si_other` to the client's next
  socket (`ServerSender.h:416`), where a `get` is then complete without a byte. A
  size of N or more ends `proceduraFinale` (`ServerSender.h:416`). An empty `put`
  whose final packet the command loop took for the size is reported sent. A text
  in `rcvFile` ends the server with all its clients (`ServerReceiver.h:134`).
  When the `Error_path` of a `put` is lost, the command of the next `put` is taken
  for the size: its block goes into the file of the first one, the ACKs follow
  `si_other` to the new socket (`ServerReceiver.h:171`, 231, 214), and the client
  reports an upload that was never stored under its name. `SentIsReceived`, which
  assumes no calm, therefore speaks of some `rcvFile`, and `ReportsAreTrue`, which
  does, of the one of this `put`.
* `Session`, `early`: a timer that expires while the block, the final packet or an
  ACK is still under way sends a copy that the next command meets. `EveryCommandEnds`
  excuses it, beside losses and haste; the other two do not.
* `FileCatalog`, `alone`: two lookups at a time share `i` and `Number_file`; a
  get may be answered FAIL and then the file, and the server may crash.
* `FileCatalog`, `clash`: two uploads of one name mix their blocks and may list
  the name twice; a `get` under an upload sends what there is.
* `FileCatalog`, `strstr`: a file whose name occurs in the listed names, "b" in
  "ab", is never listed. A listed name without a file ends the server on `get`.
* `Handshake`, `busy` and `lost`: a hello that arrives during a handshake is lost,
  and so is one queued when port 7777 is opened anew: `rcvMsg` returns NULL to
  `atoi`.
* `RttTimer`, `odd`: in case (2) of the window test `remove_nodo` writes the start
  time into `t1` and `t2` is an older packet's; the sample is then no round trip,
  may be as short as 0, and is "negative", so huge, when the older packet was
  retransmitted since.
* `Download` and `Upload`, `ClockIsSound`: after such a sample nothing may ever be
  retransmitted, so the liveness of a transfer is claimed only for a file whose ACKs
  meet no split window (see Fairness).

Deadlock is checked, except where the system may really stop: in `MCUpload.cfg`
(a client that crashed, or spins on an acknowledged final packet), `MCSession.cfg`
(a session ends, and a side may wait for ever for a lost datagram),
`MCFileCatalog.cfg` (the requests end, or the server has crashed) and
`MCRttTimer.cfg` (time is bounded). In the others a system that has ended stutters
by `Terminated`, or time goes on.

### Fairness

In `Download` and `Upload` each thread polls with `usleep(1)` between two holds of
the mutex and does not wait for another: weak fairness per thread. A datagram sent
again and again is delivered at last: strong fairness on the *delivered*
retransmission of each sequence number, and on the delivered ACK of each. All
final packets count as one number, since only one exists. No fairness is assumed
of `RcvTimeout`, `GiveUp` or `Interrupted`, and the liveness runs exclude the last
two: a receiver that is made to give up does not get its file.

That the head's timer fires again is assumed only while `ClockIsSound`: no more than
N - WS blocks have been sent. An ACK of a later block may meet a split window, and
the sample taken there may be none (`RttTimer`, `odd`): a "negative" one makes
`TIMEOUT` about 2^61 microseconds, and a `TIMEOUT` of 0 makes `recvfrom` wait for
ever; either way the ack thread holds the mutex, and a packet lost then stays lost.
So `DownloadFinishes` and `ServerFinishes` are claims about files of at most N - WS
blocks, and `RttTimer` (`TimeoutIsBounded`, `TimeoutIsPositive`) says why they hold
there. A longer file has no such guarantee in the code: with 3 blocks, N = 4 and windows
of 2, TLC finds a `get` that never ends.

`Handshake` assumes that system calls return and that time passes (weak fairness
of both ends and of `Tick`), and nothing of the network: `sndMsg` and `rcvMsg` end
by their timeouts. `Session` has weak fairness of each side that has something to
read and strong fairness of its retransmissions; the user types when he likes.
`FileCatalog` has weak fairness of a thread in a lookup, which touches only memory
and local files, and none of what waits for a client.

## 4. What disagrees with the code's documents

1. *An upload can lose data* (`upload_lossy`). `ServerReceiver.h:237` (and 263,
   285) calls `rcvBufInit(buf)` inside the loop that writes a packet: packets
   stored ahead of `rcv_base` and already acknowledged are forgotten. One lost
   packet followed by a later one is enough. The README promises "File transfer
   reliably". The client's receiver has no such call and is correct.
2. *An upload can go on for ever* (`upload_client_live`). If the three final
   ACKs are lost the server is already in its command loop and answers the final
   packet with "Attenzione : comando non valido!", ACK 0 to the client.
3. *An answer can crash the client* (`upload_crash`): the same text after a
   failed upload is ACK 0 to `thread_ack_job`, and `buf[0]` may be empty.
4. *One lost datagram ends the server* (`handshake_retry`). The comment of
   `sndMsg` promises up to three transmissions; its `continue` repeats only the
   `recvfrom`. After three timeouts `main` returns, with all its clients.

## 5. Proofs

### Download

From the assumptions `SenderAssumption`, `ReceiverAssumption` (windows with
WS <= WR, WS + WR <= N and 2 WS <= N, any N, any file and channel size) and
`DownloadAssumption` (a file that is not empty):

| Theorem | Says of every behaviour of `Download!Spec` |
|---|---|
| `TypeCorrect` (DownloadProofs) | `TypeOK` |
| `InvariantCorrect` (DownloadProofs) | `IInv` |
| `InOrderCorrect`, `CompleteCorrect` (DownloadProofs) | the file is right, and whole when the client says so |
| `PacketsCorrect`, `AcksCorrect` (DownloadProofs) | no datagram is taken for the one N further on |
| `StoredCorrect`, `TimersCorrect` (DownloadProofs) | what is acknowledged is kept; what is not has exactly one timer |
| `DownloadImplementsTransfer` (DownloadProofs) | it implements `FileTransfer` |

The argument. The program keeps every position modulo N, and no property of
numbers modulo N is inductive: whether a packet with number s is new depends on
which round of the numbers it belongs to. `IInv` (DownloadInv) therefore tells
the same state in blocks of the file. It says that for some `sb`, the first
block of the server's window:

* `SendWindow(sb)`: `send_base` is the slot of `sb`, `next_tosend` that of
  `fileOff`, and the buffer holds exactly the blocks between them, then the final
  packet; at most WS blocks, and room is left for the final packet;
* `RcvWindow`: `rcv_base` is the slot of `Len(written)`, and the buffer holds only
  blocks behind a gap, each in its slot;
* `AckedAreStored(sb)`: what is acknowledged is stored, so `sb` is never ahead of
  the client;
* `Timers(sb)`: one timer for each unacknowledged block;
* `DataInFlight`, `AcksInFlight(sb)`, `LastAckOK`: no datagram in a channel lags
  WS or more blocks behind what its receiver has, nor behind a datagram sent
  before it. This is the part that is not visible in the code. The channels are
  queues, so a packet that WS later blocks have overtaken cannot be in one, and
  with WS + WR <= N what is left can be told apart by its number. The same bound
  on `ack_to_resend` is what makes a repeated ACK harmless;
* `Ending`: the final packet is not sent before the window is empty, and the
  server ends after the client.

`NoPacketMistaken` and `NoAckMistaken` speak of the datagrams in flight now, and
are not inductive without the order between them.

`ModArith` proves the window test of both programs for any ring: of two
positions less than a window apart the three-way test tells which comes first
(`WindowTest`). `SenderProofs` begins with what the three list operations do to
the set of numbers in the list. It (for the sender) and
`DownloadProofs` have one lemma per action, in which slots are opaque but for a
few facts (`SlotInjective`, `SndWindowTest`, `RcvWindowTest`); every step keeps the same `sb`, except the ACK of the oldest
packet (`AckOldest`), which moves it by the length of the run it frees.

The prover needs a queue where the code uses a local UDP socket; a network that
reorders datagrams would break the protocol itself once a packet arrives more than
N - WR blocks late, and no theorem covers it.

### Upload

From `SenderAssumption` and `ReceiverAssumption` (the file may be empty):

| Theorem (UploadProofs) | Says of every behaviour of `Upload!Spec` |
|---|---|
| `TypeCorrect` | `TypeOK` |
| `InvariantCorrect` | `IInv` (UploadInv) |
| `SentOnlyWhenReceivedCorrect` | "File sent" is printed only when the server has taken the final packet |
| `WholeIfNeverAheadCorrect` | without a packet ahead of its turn, what is taken for finished is the file |
| `RightUnlessGivenUpCorrect` | until the server gives up, no ACK is mistaken and timers match the window |

The argument of `Download` rests on what the client has written and stored. It
fails here: `rcvBufInit` empties the buffer, so the server's `rcv_base` may fall
behind what it acknowledged, and even behind the client's window. `IInv` speaks of
`top` instead, one more than the highest block that ever arrived. No variable holds
it, so it is under an existential quantifier, as `sb` is. `Receiving(sb, top)` says:
the client counts nothing at or above `top` as acknowledged; no datagram in a channel
lags more than WS behind `top`, nor WS or more behind one sent before it; the ACK
that is repeated does not either; and as long as nothing came ahead of its turn
(`NothingAhead`), `rcv_base` is the slot of `top` and what is written is the file up
to there. None of it mentions `rcv_base` once something was forgotten, which is why
the ACKs stay right while the file does not. A server that gave up answers ACK 0 to
everything, so nothing but `FinalAcks` is claimed from then on: a final ACK exists
only when `rcvFile` has returned with the file.

The `upload` run was also made with `IInv` as an invariant before it was proved; it
is not in `MCUpload.cfg`, whose properties are consequences of it.

The sender's code is the same in both programs, and so are its lemmas
(`SenderProofs`): each says what one action does to `SendWindow(sb)` and `Timers(sb)`,
given that the ACK it reads is of a block of the window (`AckInWindow`).

### RttTimer

From `RttAssumption`: any window of at most half the ring, a shortest round trip
of 4 or more, and a transfer of less than 36 minutes, when differences of times still fit an `int`.

| Theorem (RttTimerProofs) | Says of every behaviour of `RttTimer!Spec` |
|---|---|
| `TypeCorrect` | `TypeOK` |
| `HeadIsOldestCorrect` | no timer is older than the head, the only one looked at |
| `T2IsSetCorrect` | case (2) never reads a `t2` that was not written |
| `TimeoutBounded` | no sample "negative": `TIMEOUT` is the first one or at most 5 times the age of the transfer, and does not wrap |
| `TimeoutPositive` | no sample odd: `TIMEOUT` is not 0 |
| `SampleCorrect` | outside case (2) a sample is the time from the first transmission to the ACK |

`TIMEOUT <= 5 * now` is not inductive: the estimate is `EstimatedRTT + 4 DevRTT`,
and nothing in it bounds the two parts. The invariant (`EstimatesInAge`) is that
each of them is at most `now`, which the weighted means keep because a sample that
is not "negative" and its distance from the estimate are at most `now`; doubling
takes place only when a timer is older than `TIMEOUT`. `T2IsSet` holds since
only an ACK moves the window, and the ACK in a window that is not split writes `t2`.

`SampleIsRoundTrip` is about the list as a whole, so it has an invariant of its own,
`TripInv`: the window in places of the file (`Window`), no number twice in the list,
and `FirstStart`, that a packet sent once has in its node the time at which it was
sent first. A retransmission breaks the last, and then the code takes no sample.

### Handshake

From `HandshakeAssumption`: any number of clients, any timeouts that are not 0; and,
for `BoundInTimeCorrect` only, from `TimingAssumption`: the server's `usleep` is no
longer than the client's wait for a datagram (both are 1000000 microseconds,
`servreliablemsg.h:183` and `:7`).

| Theorem (HandshakeProofs) | Says of every behaviour of `Handshake!Spec` |
|---|---|
| `TypeCorrect` | `TypeOK` |
| `CrashHasCauseCorrect` | a client crashes only after a loss of its own, or when the server was busy |
| `BoundInTimeCorrect` | a client that goes on finds its port bound, unless the server still waits or has ended |
| `HandshakeImplementsConnection` | it implements `PortAllocation` |

The refinement maps a client to "in" at the moment it gets the FIN. To show that
a thread is started only for such a client, and that no port is reserved twice,
the invariant `HInv` says: the exchange is a token. For the client the server
answers there is at most one datagram of the four, in either direction (`OneEach`,
`Progress`), and what has been passed on shows in what the client holds (`Delivery`:
its port once the ACK is out; its `fin` once the FINACK is). A hello is queued only
of a client without a port (`Arrivals`), every reserved port is below the next one
or belongs to the client being answered (`Bounded`), and a served client has its
`fin` (`Serving`).

The other two compare clocks that nobody synchronises. For `CrashHasCause`,
`CauseInv`: while nothing has disturbed the exchange of a client that waits, its one
datagram is in a queue that is read before time passes, so that its wait is still
whole (`Underway`). For `BoundInTime`, `BoundInv`: the FINACK is read in the tick in
which it was sent (`FinackIsFresh`), so the server's sleep starts no later than the
client's last wait; from there on it has no more left than the client, and it has
ended when the client goes on (`Attended`). Without `TimingAssumption` that is false.

### FileCatalog

From `CatalogAssumption` and `SpellAssumption`: any number of threads, files, blocks
and requests, and any spelling of the names (there is one, and names are strings).

| Theorem (FileCatalogProofs) | Says of every behaviour of `FileCatalog!Spec` |
|---|---|
| `TypeCorrect` | `TypeOK` |
| `AnswerIsRightCorrect`, `CrashIsExplainedCorrect` | a lookup that no other meets answers for the list, and crashes only on a name without a file |
| `ListedOnceCorrect`, `FileIsListedCorrect` | an upload that no other of its name meets lists it, once; or the name is hidden in others |
| `FilesNotMixedCorrect` | a file is the blocks of one upload, and is sent as it is |

`TypeInv` holds whatever the threads do, and says of the list that what a thread has
read of it is its beginning: the list only grows. It leaves `i` unbounded, since a
thread whose `Number_file` another resets runs on. The rest is three invariants that
do not depend on one another. `LookupInv` follows one lookup through its twelve
places and claims something only while it is alone: then `Number_file` and `i` are as
it left them, and every name up to `i` is another one (`Searched`), so that the loop
stops at the name or at the end. `ListInv`: one upload of a name at a time
(`OneUpload`), a listed name is found in the string of all names (`ListHolds`), and a
file with contents is found there or its upload has still to look (`FileHolds`); that
`strstr` keeps finding when names are added is proved for all names. `BlockInv`: the
blocks that an upload has written are its own, and what a get has sent is the
beginning of the file.

The string of all names is `FlattenSeq` of the community modules, a recursive
function. That it is the old string with the new name behind it (`FlattenAppend`) calls
for induction, whose library theorems take an operator that the backends cannot
instantiate; `FlattenIsFlat` and `FlattenLonger` take instead the least place at which
it could go wrong (`LeastOfSet`).

### Session

From `SessionAssumption`: any number of commands and any socket buffers.

| Theorem (SessionProofs) | Says of every behaviour of `Session!Spec` |
|---|---|
| `TypeCorrect` | `TypeOK` |
| `InvariantCorrect` | `IInv` |
| `OnlyTransferStraysCorrect` | of an earlier command only the final packet of a get or, at a client that uploads, ACKs of a `rcvFile` reach the socket of the next |
| `SentIsReceivedCorrect` | a file that is not empty is reported sent only when some `rcvFile` had its block and took a final packet after it |
| `CalmCorrect` | without losses and haste, `CalmInv` |
| `ReportsAreTrueCorrect`, `NoParseExitCorrect` | without losses and haste, reports are true and no text ends a process |

No datagram says which command it belongs to, so `IInv` says how far the order of the
queues makes up for it, with any losses and any haste. The datagrams to the server are
in the order of their sockets, none from before the last one read (`OrderInv`); a
command that is queued is the first of its socket, and its client has read nothing
and waits for the answer (`CommandsWait`). So the server sends blocks only to the client that asked
for them (`StageInv`: at "snd" `job` and `si_other` are the client's socket). What
goes astray is of two kinds (`StrayInv`): the final packet of a get, and the ACKs of a
`rcvFile` that an earlier put started and the packets of this upload have reached. The
second kind is harmless for `SentIsReceived`, since a `rcvFile` that runs has the block
of the last command or none, whichever put it is for (`RcvInv`, from `DataInv`: only
blocks of the last command come after a put in the queue), and answers a client only
once it has heard from it (`StartInv`). So a client whose block no `rcvFile` had has
seen nothing that reads as an ACK of it (`PutInv`): this is why `SentIsReceived` needs
no calm, although any text is ACK 0. That the block is in the file of its own name
takes calm, and is in `ReportsAreTrue`.

In a calm session much more is true, and `CalmInv` says it: all that is queued is of
the client's command. The server has first to read what is left of the command
itself, which is `Ahead` datagrams, then only datagrams that this transfer has
(`CalmSrv`); a get that cannot be served has a refusal as its first answer, and the
final packet, the ACK of the block and the final ACK each say what has happened before
(`CalmGet`, `CalmPut`). `Calm => CalmInv` is inductive beside `IInv`: calm once broken
does not return (`CalmOnlyEnds`). Both were checked with TLC on sessions of three and
four commands and channels of 3 to 5 before they were proved.

### Only model-checked

Liveness: with ENABLED, it is out of the prover's reach. These are `DownloadFinishes`,
`ServerFinishes`, `SndMsgReturns`, `RcvMsgReturns`, `EveryCommandEnds` and `LookupEnds`.
Every invariant, and both refinements, that a run checks are proved. The four violated
properties are counterexamples of TLC.

## 6. Not modelled

Left for later, in order of importance:

1. Two transfers of the server over the one global `phead`, with a mutex each
   (`ServerSender.h:139`): `SRSender` and `RttTimer` have one transfer per process,
   as the client does. List operations that are torn by another thread, and one
   transfer's timeouts taken from another's nodes, are therefore in no run. The
   late cancel of `timeoutManager` belongs to the same model.
2. `thread_no`, which counts every client that ever connected and indexes
   `threads[MAX_THREADS]` (`Server.c:532`): the 51st write is undefined behaviour.
3. A receiver that gives up inside a `Session` (it is in `Download` and `Upload`),
   and SIGINT at the prompt.

Not modelled, and why: the client's `sndMsg` and the server's `rcvMsg` (never
called); "Errore 4" and "Errore 5" (no server sends them); `abs()` of the one value
whose magnitude is no `int`; blocks with a zero byte and names longer than the 18
bytes of a line (data, not control); `setRcvTimeout` (how long a receive waits is
left open in every module but `Handshake`); paths, tokens, printing, colours, the
progress bar, directory listings and `porte_attive.txt` (I/O that does not touch
the protocol); failures of `malloc`, of files and of the mutex calls (each exits
the process).
