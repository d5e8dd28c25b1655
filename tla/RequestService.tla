--------------------------- MODULE RequestService ---------------------------
(***************************************************************************)
(* What the gateway promises its clients, with no threads and no channels: *)
(* an accepted request is performed exactly once and then finished, and    *)
(* the requests of write routes are performed one after another in the     *)
(* order in which they were accepted.  WorkerPool implements it.           *)
(***************************************************************************)
EXTENDS Sequences

CONSTANTS Requests,     \* one slot per client; a slot is used again and again
          WriteRoutes   \* the slots that ask for a write route

VARIABLES phase,        \* "new", "accepted" (owed) or "performed"
          order         \* the write requests owed, in order of acceptance

vars == <<phase, order>>

Init ==
    /\ phase = [r \in Requests |-> "new"]
    /\ order = <<>>

\* The request is queued for the threads that will perform it.
Accept(r) ==
    /\ phase[r] = "new"
    /\ phase' = [phase EXCEPT ![r] = "accepted"]
    /\ order' = IF r \in WriteRoutes THEN Append(order, r) ELSE order

\* The handler has run and its transaction, if any, is over.
Perform(r) ==
    /\ phase[r] = "accepted"
    /\ r \in WriteRoutes => r = Head(order)
    /\ phase' = [phase EXCEPT ![r] = "performed"]
    /\ order' = IF r \in WriteRoutes THEN Tail(order) ELSE order

\* The answer is sent, or dropped because the client has left.
Finish(r) ==
    /\ phase[r] = "performed"
    /\ phase' = [phase EXCEPT ![r] = "new"]
    /\ UNCHANGED order

Next == \E r \in Requests : Accept(r) \/ Perform(r) \/ Finish(r)

Spec == Init /\ [][Next]_vars
=============================================================================
