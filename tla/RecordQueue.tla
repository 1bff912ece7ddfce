---------------------------- MODULE RecordQueue ----------------------------
(***************************************************************************)
(* What a BPF ring buffer promises: records are handed to the reader in    *)
(* the order in which their space was reserved, each one once, when it is  *)
(* committed and not before; a discarded record is passed over.            *)
(***************************************************************************)
EXTENDS Integers, Sequences

CONSTANT Ids  \* names of records

VARIABLES
  queue,  \* the records not yet taken, oldest first: [id, status]
  out     \* the records handed to the reader

Reserve(id) ==
  /\ queue' = Append(queue, [id |-> id, status |-> "busy"])
  /\ UNCHANGED out

Finish(i, status) ==
  /\ queue[i].status = "busy"
  /\ queue' = [queue EXCEPT ![i].status = status]
  /\ UNCHANGED out

Deliver ==
  /\ queue # <<>> /\ Head(queue).status = "committed"
  /\ queue' = Tail(queue)
  /\ out' = Append(out, Head(queue).id)

PassOver ==
  /\ queue # <<>> /\ Head(queue).status = "discarded"
  /\ queue' = Tail(queue)
  /\ UNCHANGED out

Init == queue = <<>> /\ out = <<>>

Next ==
  \/ \E id \in Ids : Reserve(id)
  \/ \E i \in DOMAIN queue, s \in {"committed", "discarded"} : Finish(i, s)
  \/ Deliver \/ PassOver

Spec == Init /\ [][Next]_<<queue, out>>

=============================================================================
