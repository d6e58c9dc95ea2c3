---------------------------- MODULE MCUnoqSource ----------------------------
(***************************************************************************)
(* The instances of UnoqSource that TLC checks.                            *)
(***************************************************************************)
EXTENDS UnoqSource

CONSTANTS m1, m2

Notify(policy, methods) ==
  [mode |-> "notify", valid |-> TRUE, policy |-> policy, max_queue |-> 2,
   methods |-> methods]

\* Both overflow policies with a queue that overflows, and a source in call
\* mode, whose connect() may fail.
MCConfigs ==
  {Notify("drop_oldest", <<m1, m2>>), Notify("drop_newest", <<m1>>),
   DefaultConfig}

\* One method is in service while the other is registered.
MCTwoMethods == {Notify("drop_oldest", <<m1, m2>>)}
============================================================================
