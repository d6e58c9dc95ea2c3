------------------------------ MODULE Mailbox ------------------------------
(***************************************************************************)
(* What unoq_source promises the agent that polls it in notify mode, with  *)
(* no thread, socket or lock in sight: a bounded box of messages.  A       *)
(* message is put in at most once, in the order sent; a take empties the   *)
(* box in that order; a full box gives up its oldest message or refuses    *)
(* the new one, and loses nothing else; and the agent is told of a failure *)
(* of the producer only when there is nothing left to take.                *)
(***************************************************************************)
EXTENDS Integers, Sequences

VARIABLES
  cap,             \* how many messages the box holds
  keep,            \* "drop_oldest" or "drop_newest": what a full box does
  box,             \* the numbers of the messages, oldest first
  seen,            \* the numbers of the messages ever put in
  taken,           \* the messages taken since the last renewal, in order
  state            \* "on", "failed" (nothing more comes) or "told"

vars == <<cap, keep, box, seen, taken, state>>

Init ==
  /\ cap \in Nat \ {0}
  /\ keep \in {"drop_oldest", "drop_newest"}
  /\ box = <<>>
  /\ seen = {}
  /\ taken = <<>>
  /\ state = "on"

\* The agent sets the parameters: the box starts afresh.
Renew ==
  /\ cap' \in Nat \ {0}
  /\ keep' \in {"drop_oldest", "drop_newest"}
  /\ box' = <<>>
  /\ taken' = <<>>
  /\ state' = "on"
  /\ UNCHANGED seen

Put ==
  /\ state = "on"
  /\ Len(box') > 0
  /\ LET msg == box'[Len(box')] IN
       /\ \A m \in seen : msg > m
       /\ seen' = seen \cup {msg}
       /\ \/ Len(box) < cap /\ box' = Append(box, msg)
          \/ Len(box) = cap /\ keep = "drop_oldest" /\ box' = Append(Tail(box), msg)
  /\ UNCHANGED <<cap, keep, taken, state>>

TakeAll ==
  /\ box # <<>>
  /\ taken' = taken \o box
  /\ box' = <<>>
  /\ UNCHANGED <<cap, keep, seen, state>>

Fail ==
  /\ state = "on"
  /\ state' = "failed"
  /\ UNCHANGED <<cap, keep, box, seen, taken>>

Tell ==
  /\ state = "failed"
  /\ box = <<>>
  /\ state' = "told"
  /\ UNCHANGED <<cap, keep, box, seen, taken>>

Next == Renew \/ Put \/ TakeAll \/ Fail \/ Tell

Spec == Init /\ [][Next]_vars
============================================================================
