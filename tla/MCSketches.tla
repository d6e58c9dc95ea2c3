----------------------------- MODULE MCSketches -----------------------------
(***************************************************************************)
(* One instance of each model of a sketch.  They share no state: part says *)
(* which runs, and the others stay as they begin.                          *)
(***************************************************************************)
EXTENDS NotifySketch, ModulinoSketch, FloodedRequest

CONSTANTS m1, m2

VARIABLE part

mcVars == <<sketchVars, ringVars, floodVars, part>>

MCInit ==
  /\ part \in {"notify", "modulino", "flood"}
  /\ SketchInit /\ RingInit /\ FloodInit

MCNext ==
  \/ part = "notify" /\ SketchNext /\ UNCHANGED <<ringVars, floodVars, part>>
  \/ part = "modulino" /\ RingNext /\ UNCHANGED <<sketchVars, floodVars, part>>
  \/ part = "flood" /\ FloodNext /\ UNCHANGED <<sketchVars, ringVars, part>>

MCSpec == MCInit /\ [][MCNext]_mcVars /\ (part = "flood" => FloodFairness)
=============================================================================
