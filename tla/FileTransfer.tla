---------------------------- MODULE FileTransfer ----------------------------
(***************************************************************************)
(* What a file transfer promises, whatever carries it: the receiver's file *)
(* only ever grows by the next blocks of the sender's, the receiver ends   *)
(* well only with the whole file, and the sender ends well only after it.  *)
(* This is the README's "File transfer reliably" without the network.      *)
(***************************************************************************)
EXTENDS Integers, Sequences

CONSTANT FileLen  \* blocks 0..FileLen-1 make the file

VARIABLES
  file,      \* blocks the receiver has written
  receiver,  \* "open", "complete" or "failed"
  sender     \* "open" or "complete"

ftVars == <<file, receiver, sender>>

FirstBlocks(n) == [i \in 1..n |-> i - 1]

FTInit == file = <<>> /\ receiver = "open" /\ sender = "open"

Deliver ==
  /\ receiver = "open"
  /\ \E n \in Len(file)+1 .. FileLen : file' = FirstBlocks(n)
  /\ UNCHANGED <<receiver, sender>>

ReceiverCompletes ==
  /\ receiver = "open" /\ file = FirstBlocks(FileLen)
  /\ receiver' = "complete"
  /\ UNCHANGED <<file, sender>>

\* The user interrupts it, or it hears nothing for too long.
ReceiverFails ==
  /\ receiver = "open"
  /\ receiver' = "failed"
  /\ UNCHANGED <<file, sender>>

SenderCompletes ==
  /\ sender = "open" /\ receiver = "complete"
  /\ sender' = "complete"
  /\ UNCHANGED <<file, receiver>>

FTNext == Deliver \/ ReceiverCompletes \/ ReceiverFails \/ SenderCompletes

FTSpec == FTInit /\ [][FTNext]_ftVars
=============================================================================
