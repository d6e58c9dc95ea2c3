---------------------------- MODULE NotifySketch ----------------------------
(***************************************************************************)
(* The sketch of arduino/rpc_notify: loop() is called again and again, at  *)
(* times nobody promises, and sends a notification when Period             *)
(* microseconds have gone by on a clock, micros(), that wraps.             *)
(***************************************************************************)
EXTENDS Integers

CONSTANTS
  Word,            \* values of a uint32_t: 2^32 in the code
  Period,          \* 500 in the code
  Gaps,            \* microseconds that may pass between two calls of loop()
  MaxClock         \* bound: microseconds since the board started

ASSUME SketchAssumption ==
  /\ Word \in Nat \ {0}
  /\ Period \in 1 .. Word - 1
  /\ Gaps \subseteq Nat
  /\ MaxClock \in Nat

VARIABLES
  clock,           \* microseconds since the board started
  last,            \* LastNotifyMicros
  counter,         \* Counter
  at               \* when the latest notification was sent, or the board
                   \* started (history)

sketchVars == <<clock, last, counter, at>>

Words == 0 .. Word - 1

SketchTypeOK ==
  /\ clock \in Nat
  /\ last \in Words
  /\ counter \in Words
  /\ at \in Nat

SketchInit ==
  /\ clock = 0
  /\ last = 0
  /\ counter = 0
  /\ at = 0
----------------------------------------------------------------------------
\* micros() at time t.
Micros(t) == t % Word

\* Mutant: the times are compared, not their difference.
DueAfter(t) == Micros(t) >= (last + Period) % Word

\* Mutant: the difference is not taken modulo the width of the clock.
DueSigned(t) == Micros(t) - last >= Period

\* !(now - LastNotifyMicros < 500), in uint32_t.
Due(t) == (Micros(t) - last) % Word >= Period

\* Bridge.notify("mads_notify", Counter++, now).
Notify(t) ==
  /\ last' = Micros(t)
  /\ counter' = (counter + 1) % Word
  /\ at' = t

\* loop(), called at time t.
Loop(t) ==
  /\ clock' = t
  /\ IF Due(t) THEN Notify(t) ELSE UNCHANGED <<last, counter, at>>

SketchNext ==
  \E gap \in Gaps :
    /\ clock + gap <= MaxClock
    /\ Loop(clock + gap)

SketchSpec == SketchInit /\ [][SketchNext]_sketchVars
----------------------------------------------------------------------------
(* Properties.                                                             *)

Sent == counter' # counter

\* Notifications are never closer than the period, though the clock may wrap
\* any number of times between them, or in the middle of one period.
Paced == [][Sent => clock' - at >= Period]_sketchVars

\* No call of loop() that comes a period or more after the latest notification
\* is let pass, wrap or no wrap; but for a sketch held up for a whole turn of
\* the clock, which takes the time for shorter than it is.
Prompt ==
  [][clock' - at >= Period /\ clock' - at < Word => Sent]_sketchVars
=============================================================================
