--------------------------- MODULE MCDummyRouter ---------------------------
(***************************************************************************)
(* The instances of DummyRouter that TLC checks.                           *)
(***************************************************************************)
EXTENDS DummyRouter

CONSTANT m1

Of(kinds) == [kind : kinds, method : {m1}]

\* Everything a client may send.
MCFrames == Of(Kinds)

\* What takes a descriptor from the registry and writes to it.
MCRouted == Of({"register", "call", "emit"})

\* Bound: SIGINT comes with at most one frame sent, and none is sent after it.
SigintEarly ==
  /\ running' # running => frames <= 1
  /\ running \/ frames' = frames

\* Bound: a client sends these before anything else.
OddFirst ==
  frames = 1 /\ frames' = 2 =>
    \E r \in Of(Kinds \ {"misregister", "ignored", "bad"}), c \in Conns :
      inbox' = [inbox EXCEPT ![c] = Append(@, r)]

MCSpec == Init /\ [][Next /\ SigintEarly /\ OddFirst]_vars /\ Fairness
============================================================================
