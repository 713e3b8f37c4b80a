----------------------------- MODULE TimerList -----------------------------
(***************************************************************************)
(* The linked list of Server/timerlist.h (and its twin                     *)
(* Client/timeoutlist.h): the queue of packets whose retransmission timer  *)
(* is running.  A node stands for its sequence number.  The list is the    *)
(* TLA+ sequence of its nodes, head first, so NULL is the empty sequence.  *)
(* Nodes are only ever appended, each stamped with the current time, so    *)
(* the head always carries the oldest timer.                               *)
(***************************************************************************)
EXTENDS Integers, SequencesExt

insert_in_queue(head, seq_num) == Append(head, seq_num)

delete_node_in_head(head) == IF head = <<>> THEN head ELSE Tail(head)

\* A slip of remove_nodo: unlink the head, whatever it carries.
RemoveHeadSlip(head, seq_num) == IF head = <<>> THEN head ELSE Tail(head)

\* Unlinks the first node that carries seq_num, if there is one.
remove_nodo(head, seq_num) == RemoveFirst(head, seq_num)
=============================================================================
