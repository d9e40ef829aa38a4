----------------------------- MODULE MCStorage -----------------------------
(* TLC instances of Storage.  A scenario fixes the mode, how many entries  *)
(* are written and to which keys, whether tables are compacted, and        *)
(* what readers do; faults and restarts happen in those without readers.   *)
EXTENDS Storage

\* Sizes around the header and the block: empty fragments, paddings, and
\* records over several blocks.
Shapes ==
  {[block |-> b, header |-> 3, sizes |-> <<i, j, k>>] : b \in {4, 5, 7}, i \in {0, 1, 2}, j \in {1, 3, 6}, k \in {0, 5}}

VARIABLE scenario

\* Readers capture views while the writer is at work, or they read tables
\* once everything is flushed.
Scenarios ==
  {[mode |-> "standalone", reads |-> "views", compacts |-> TRUE, entries |-> 2, keys |-> {1}],
   [mode |-> "standalone", reads |-> "tables", compacts |-> TRUE, entries |-> 2, keys |-> {1}],
   [mode |-> "standalone", reads |-> "tables", compacts |-> FALSE, entries |-> 2, keys |-> {1}],
   [mode |-> "standalone", reads |-> "none", compacts |-> TRUE, entries |-> 2, keys |-> Keys],
   [mode |-> "standalone", reads |-> "none", compacts |-> FALSE, entries |-> 3, keys |-> {1}],
   [mode |-> "replicated", reads |-> "none", compacts |-> FALSE, entries |-> 3, keys |-> {1}]}

FirstReader == CHOOSE r \in Readers : TRUE

InScenario ==
  /\ Len(log') <= scenario.entries
  /\ \A i \in DOMAIN log' : log'[i].key \in scenario.keys \cup {NoOp}
  /\ IF pc[Writer] = "idle" /\ nextSeq > scenario.entries THEN pc'[Writer] = "idle" ELSE TRUE
  /\ IF scenario.reads = "none" THEN view' = view ELSE faults' = faults /\ up' = up
  /\ IF scenario.reads = "views" /\ view' # view
     THEN cache' = cache /\ \A r \in Readers : view'[r].keys \in {{}, Keys} ELSE TRUE
  /\ IF scenario.reads = "tables" /\ view' # view
     THEN /\ visible = scenario.entries /\ active.ents = {} /\ imms = <<>>
          /\ \A r \in Readers : view'[r].keys # Keys \ scenario.keys
     ELSE TRUE
  /\ IF scenario.compacts THEN \A r \in Readers \ {FirstReader} : view'[r] = NoView ELSE TRUE
  /\ IF scenario.compacts THEN TRUE ELSE job' = job

MCInit == Init /\ scenario \in Scenarios /\ mode = scenario.mode
MCNext == Next /\ InScenario /\ UNCHANGED scenario
MCSpec == MCInit /\ [][MCNext]_<<vars, scenario>>
===========================================================================
