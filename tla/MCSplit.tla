------------------------------ MODULE MCSplit ------------------------------
(* TLC instances of Split: two keys, one on each side of the split key.    *)
EXTENDS Split, TLC

CONSTANTS n1, m1, m2

OneRange ==
  [r \in {1} |-> [id |-> 1, gen |-> 1, lo |-> 0, hi |-> 2, reps |-> <<[id |-> 1, node |-> n1]>>]]

\* No call, writes and a change of leader; one call, with a write and a change
\* of leader, of the parent or of a child; with two writes in flight; with a
\* transaction of either home, and a change of leader around the drain; two
\* calls, with a write once the image is copied.
Budget == [puts |-> 0, txns |-> 0, calls |-> 1, elections |-> 0, elect |-> {}, skew |-> 0,
           remote |-> FALSE]
Scenarios ==
  {[Budget EXCEPT !.puts = 2, !.calls = 0, !.elections = 1, !.elect = {1}],
   [Budget EXCEPT !.puts = 1, !.elections = 1, !.elect = {1}, !.skew = 1],
   [Budget EXCEPT !.puts = 1, !.elections = 1, !.elect = {2}],
   [Budget EXCEPT !.puts = 2],
   [Budget EXCEPT !.txns = 1, !.elections = 1, !.elect = {1}],
   [Budget EXCEPT !.txns = 1],
   [Budget EXCEPT !.txns = 1, !.remote = TRUE],
   [Budget EXCEPT !.puts = 1, !.calls = 2]}

VARIABLE scenario

Started == \E i \in DOMAIN meta.splits : meta.splits[i].boot # 0
Draining == \E m \in Managers : mgr[m].pc \in {"Records", "Drained", "Barrier"}
Copied == \E i \in DOMAIN meta.splits : meta.splits[i].state \notin {Preparing, Copying, Aborted}

\* The ranges where a proposal is applied before anything else happens: the
\* children, and the parent where several managers act or once a transaction's
\* fate is settled by the barrier.
Eager ==
  IF scenario.calls > 1 \/ (scenario.txns > 0 /\ Started) THEN RangeIds
  ELSE RangeIds \ (scenario.elect \cup {Parent})
Behind == {q \in Eager : ~st[q].dead /\ st[q].n < Len(log[q])}

\* A call or a client learns of the outcome at once: the step is its own, and a
\* caller that never learns is one that stops.
Told == \/ \E w \in cli : st[w.q].n >= w.i
        \/ \E m \in Managers : mgr[m].wi # 0 /\ st[mgr[m].wq].n >= mgr[m].wi
Learns == \/ cli' # cli /\ cli' \subseteq cli /\ left' = left
          \/ \E m \in Managers : mgr[m].wi # 0 /\ mgr'[m].wi = 0 /\ left' = left

InScenario ==
  /\ IF Told THEN Learns
     ELSE IF Behind = {} THEN TRUE ELSE log' = log /\ \E q \in Behind : st'[q] # st[q]
  /\ IF scenario.txns > 0 /\ Started
       THEN scenario.elections = 0 /\ left' = left /\ txn' = txn ELSE TRUE
  /\ IF scenario.txns = 0 \/ Draining THEN TRUE ELSE left'.elections = left.elections
  /\ IF scenario.calls > 1 /\ ~Copied THEN left'.puts = left.puts ELSE TRUE

ManagerSymmetry == Permutations(Managers)

MCInit == SplitInit /\ scenario = left
MCNext == SplitNext /\ InScenario /\ UNCHANGED scenario
MCSpec == MCInit /\ [][MCNext]_<<svars, scenario>>
===========================================================================
