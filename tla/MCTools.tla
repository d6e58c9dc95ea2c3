------------------------------ MODULE MCTools ------------------------------
(***************************************************************************)
(* An instance of each model of a command-line tool.  part says which tool *)
(* runs; a run has one client, and what is not of its tool stays as it     *)
(* begins.                                                                 *)
(***************************************************************************)
EXTENDS Throughput, QrpcCall, LatencyStats

VARIABLE part

mcVars == <<runVars, prog, latencies, part>>

MCNum(type, n) == [type |-> type, num |-> n]
MCAbsent == MCNum("absent", 0)

MCTest(func, args, iterations) ==
  [func |-> func, args |-> args, iterations |-> iterations]

\* A test with its own count, one without, one of an empty name, and tests in
\* error.
MCOnce == MCTest("name", TRUE, MCNum("int", 1))
MCDefault == MCTest("name", TRUE, MCAbsent)
MCNameless == MCTest("empty", TRUE, MCNum("int", 2))
MCErrors ==
  {MCTest("bad", TRUE, MCAbsent), MCTest("name", FALSE, MCAbsent),
   MCTest("name", TRUE, MCNum("int", 0)), MCTest("name", TRUE, MCNum("other", 0))}

MCDescription(warm, iterations, tests) ==
  [warmup |-> warm, iterations |-> iterations, tests |-> tests]

MCDescriptions ==
  {MCDescription(MCNum("int", 1), MCNum("other", 0), <<MCDefault>>),
   MCDescription(MCNum("int", -1), MCNum("int", 2), <<MCOnce, MCDefault>>),
   MCDescription(MCNum("other", 0), MCNum("int", 0), <<MCTest("name", TRUE, MCNum("float", 1))>>),
   MCDescription(MCNum("int", 1), MCNum("int", 0), <<MCDefault>>),
   MCDescription(MCAbsent, MCNum("int", 1), <<MCOnce, MCNameless, MCOnce>>),
   MCDescription(MCAbsent, MCAbsent, <<>>)}
  \cup {MCDescription(MCAbsent, MCNum("int", 1), s) :
          s \in UNION {{<<e, MCOnce>>, <<MCOnce, e>>} : e \in MCErrors}}

MCInit ==
  /\ part \in {"throughput", "call", "stats"}
  /\ ProgInit /\ StatsInit
  /\ IF part = "throughput" THEN RunInit
     ELSE RunInit /\ description = MCDescription(MCAbsent, MCAbsent, <<>>)

MCNext ==
  \/ part = "throughput" /\ RunNext /\ UNCHANGED <<prog, latencies, part>>
  \/ part = "call" /\ ProgNext /\ UNCHANGED <<run, latencies, part>>
  \/ part = "stats" /\ Collect /\ UNCHANGED <<runVars, prog, part>>

\* RunFairness, of the runs of qrpc_throughput.
MCStep ==
  /\ part = "throughput"
  /\ Load \/ Begin \/ Call \/ InCall
  /\ UNCHANGED <<prog, latencies, part>>

MCSpec == MCInit /\ [][MCNext]_mcVars /\ WF_mcVars(MCStep)
=============================================================================
