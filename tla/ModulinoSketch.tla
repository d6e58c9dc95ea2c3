--------------------------- MODULE ModulinoSketch ---------------------------
(***************************************************************************)
(* The sketch of arduino/rpc_server_modulino: loop() pushes samples of the *)
(* sensor into a ring, a RingArray; get_fft, which the Bridge runs beside  *)
(* loop() (it is provided with provide(), not provide_safe()), reads the   *)
(* ring slot by slot from index 0, wherever its head is.                   *)
(*                                                                         *)
(* Samples are numbered from 1 in the order they were taken; 0 stands for  *)
(* the zero a slot is initialized with.                                    *)
(***************************************************************************)
EXTENDS Integers

CONSTANTS
  SIZE,            \* 512 in the code
  MaxPushes        \* bound: samples taken

ASSUME RingAssumption == SIZE \in Nat \ {0} /\ MaxPushes \in Nat

Slots == 0 .. SIZE - 1

VARIABLES
  data,            \* Buffer.data
  head,            \* Buffer.head
  pushed,          \* samples pushed (history)
  slot,            \* the slot get_fft reads next; SIZE: it is not running
  values,          \* what KickFFT has read of each slot; in its last call, for
                   \* the slots not yet read
  since            \* samples pushed when get_fft began (history)

ringVars == <<data, head, pushed, slot, values, since>>

RingTypeOK ==
  /\ data \in [Slots -> Nat]
  /\ head \in Slots
  /\ pushed \in Nat
  /\ slot \in 0 .. SIZE
  /\ values \in [Slots -> Nat]
  /\ since \in Nat

RingInit ==
  /\ data = [i \in Slots |-> 0]
  /\ head = 0
  /\ pushed = 0
  /\ slot = SIZE
  /\ values = [i \in Slots |-> 0]
  /\ since = 0
----------------------------------------------------------------------------
\* Mutant: the last slot is never used.
NextHeadShort == IF head + 1 >= SIZE - 1 THEN 0 ELSE head + 1

\* ++head; if (head == SIZE) head = 0.
NextHead == IF head + 1 = SIZE THEN 0 ELSE head + 1

\* Mutant: the head is moved before the sample is written.
PushAhead ==
  /\ pushed < MaxPushes
  /\ pushed' = pushed + 1
  /\ data' = [data EXCEPT ![NextHead] = pushed + 1]
  /\ head' = NextHead
  /\ UNCHANGED <<slot, values, since>>

\* task_acquire: Buffer.push of a new sample.
Push ==
  /\ pushed < MaxPushes
  /\ pushed' = pushed + 1
  /\ data' = [data EXCEPT ![head] = pushed + 1]
  /\ head' = NextHead
  /\ UNCHANGED <<slot, values, since>>

\* get_fft is called; there is one call at a time.
GetFft ==
  /\ slot = SIZE
  /\ slot' = 0
  /\ since' = pushed
  /\ UNCHANGED <<data, head, pushed, values>>

\* KickFFT, a library, reads the next slot: in order, and each once, is assumed.
ReadSlot ==
  /\ slot < SIZE
  /\ values' = [values EXCEPT ![slot] = data[slot]]
  /\ slot' = slot + 1
  /\ UNCHANGED <<data, head, pushed, since>>

RingNext == Push \/ GetFft \/ ReadSlot

RingSpec == RingInit /\ [][RingNext]_ringVars
----------------------------------------------------------------------------
(* Properties.                                                             *)

\* k is a sample that belongs in slot i and was among the latest SIZE at some time
\* from when there were first to when there were last samples; 0: slot i was
\* empty when there were first.
InSlot(i, k, first, last) ==
  IF k = 0 THEN first <= i
  ELSE (k - 1) % SIZE = i /\ first - SIZE < k /\ k <= last

\* The ring holds the latest SIZE samples, each once.
HoldsLatest == \A i \in Slots : InSlot(i, data[i], pushed, pushed)

\* What get_fft has read, though loop() may push before any of its reads: no
\* sample twice, each in the slot of its turn, none that was out of the ring
\* when get_fft began.  With no push in between it is the latest SIZE, rotated;
\* with some, samples that were never together in the ring, but no further
\* apart than SIZE and the pushes in between.
WindowRecent == \A i \in Slots : i < slot => InSlot(i, values[i], since, pushed)
=============================================================================
