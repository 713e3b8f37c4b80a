--------------------------- MODULE PortAllocation ---------------------------
(***************************************************************************)
(* What the connection of a client promises, without datagrams and timers: *)
(* every client is given a port of its own; a client that connects holds   *)
(* the port that was reserved for it; and the server only starts to serve  *)
(* a client that is sure to connect.  A client may also fail, as long as   *)
(* the server does not serve it.                                           *)
(***************************************************************************)
EXTENDS Naturals

CONSTANTS
  Clients,
  NoPort   \* no port yet

VARIABLES
  reserved,  \* the port the server reserved for a client
  held,      \* the port a client holds
  status,    \* "out", "in", "failed" or "left"
  serving    \* clients with a thread

paVars == <<reserved, held, status, serving>>

PAInit ==
  /\ reserved = [c \in Clients |-> NoPort]
  /\ held = [c \in Clients |-> NoPort]
  /\ status = [c \in Clients |-> "out"]
  /\ serving = {}

Reserve(c) ==
  /\ reserved[c] = NoPort
  /\ reserved'[c] \in Nat /\ \A d \in Clients : reserved[d] # reserved'[c]
  /\ reserved' = [reserved EXCEPT ![c] = reserved'[c]]
  /\ UNCHANGED <<held, status, serving>>

Connect(c) ==
  /\ reserved[c] # NoPort /\ status[c] = "out"
  /\ status' = [status EXCEPT ![c] = "in"]
  /\ held' = [held EXCEPT ![c] = reserved[c]]
  /\ UNCHANGED <<reserved, serving>>

Fail(c) ==
  /\ status[c] = "out"
  /\ status' = [status EXCEPT ![c] = "failed"]
  /\ UNCHANGED <<reserved, held, serving>>

Serve(c) ==
  /\ status[c] = "in" /\ c \notin serving
  /\ serving' = serving \cup {c}
  /\ UNCHANGED <<reserved, held, status>>

Leave(c) ==
  /\ status[c] = "in" /\ c \in serving
  /\ status' = [status EXCEPT ![c] = "left"]
  /\ serving' = serving \ {c}
  /\ UNCHANGED <<reserved, held>>

PANext == \E c \in Clients : Reserve(c) \/ Connect(c) \/ Fail(c) \/ Serve(c) \/ Leave(c)

PASpec == PAInit /\ [][PANext]_paVars
=============================================================================
