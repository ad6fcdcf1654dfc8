---------------------------- MODULE DurableQueue ----------------------------
(***************************************************************************)
(* What the mobile outbox promises: a durable FIFO queue.  An entry joins  *)
(* at the back, at most once, and leaves only from the front, once the     *)
(* server has it.  Outbox, where joining and leaving are a read and a      *)
(* write of one stored list, is shown to implement this when its jobs do   *)
(* not overlap.                                                            *)
(***************************************************************************)
EXTENDS Sequences

CONSTANT Entry

VARIABLES
  pending,   \* the entries waiting, oldest first
  accepted,  \* the entries that ever joined
  delivered  \* the entries the server has

Init ==
  /\ pending = <<>>
  /\ accepted = {}
  /\ delivered = {}

Accept(e) ==
  /\ e \notin accepted
  /\ accepted' = accepted \union {e}
  /\ pending' = Append(pending, e)
  /\ UNCHANGED delivered

Deliver(e) ==
  /\ delivered' = delivered \union {e}
  /\ UNCHANGED <<pending, accepted>>

Retire ==
  /\ pending # <<>>
  /\ Head(pending) \in delivered
  /\ pending' = Tail(pending)
  /\ UNCHANGED <<accepted, delivered>>

Next ==
  \/ \E e \in Entry : Accept(e) \/ Deliver(e)
  \/ Retire

Spec == Init /\ [][Next]_<<pending, accepted, delivered>>
=============================================================================
