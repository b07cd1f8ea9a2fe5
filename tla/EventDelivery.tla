---------------------------- MODULE EventDelivery ----------------------------
(***************************************************************************)
(* What the event registry of internal/app/event promises to the handlers  *)
(* of the application, without channels, locks or workers: an event is     *)
(* accepted or rejected when it is pushed; an accepted event is taken up   *)
(* at most once, by one worker, and finished at most once.  Nothing is     *)
(* said about the order in which events are taken up: the registry gives   *)
(* none.                                                                   *)
(***************************************************************************)
CONSTANT Events

VARIABLE status    \* status[e]: where the event e is in its life

Statuses == {"new", "accepted", "running", "done", "rejected"}

Move(e, from, to) ==
    /\ status[e] = from
    /\ status' = [status EXCEPT ![e] = to]

Init == status = [e \in Events |-> "new"]

Accept(e) == Move(e, "new", "accepted")

Reject(e) == Move(e, "new", "rejected")

Take(e) == Move(e, "accepted", "running")

Finish(e) == Move(e, "running", "done")

Next == \E e \in Events : Accept(e) \/ Reject(e) \/ Take(e) \/ Finish(e)

Spec == Init /\ [][Next]_status
=============================================================================
