---------------------------- MODULE MCRebalance ----------------------------
(* TLC instances of Rebalance: three ranges of two keys each, with replicas *)
(* on nodes 1 and 2; node 3 has just been added.                            *)
EXTENDS Rebalance

ThreeRanges ==
  [r \in 1 .. 3 |-> [id |-> r, gen |-> 1, lo |-> IF r = 1 THEN 0 ELSE 2 * r - 1, hi |-> 2 * r + 1,
                     reps |-> [j \in 1 .. 2 |-> [id |-> 2 * r + j - 2, node |-> j]]]]

Policy ==
  [moves |-> TRUE, splits |-> FALSE, leaders |-> TRUE, minSamples |-> 2,
   start |-> 24, recovery |-> 12, bytesWeight |-> 4, leaderWeight |-> 2, replicaWeight |-> 1, rangeWeight |-> 4,
   maxBytes |-> 0, maxReplicas |-> 0, maxLeaders |-> 0, splitBytes |-> 4, maxRanges |-> 4, minGain |-> 1,
   maxActions |-> 1, maxMigrations |-> 1, maxSplits |-> 1, maxOut |-> 1, maxIn |-> 1, maxSplitsNode |-> 1,
   cooldown |-> 2, splitCooldown |-> 3, failureCooldown |-> 2, historyLimit |-> 2]

Budget == [settles |-> FALSE, starts |-> <<1, 0>>, stops |-> 0, crashes |-> 0, actions |-> 3, ticks |-> 0, faults |-> 0,
           outages |-> 0, elections |-> 0]
Scenario == [policy |-> Policy, size |-> <<1, 0, 1, 0, 1, 0>>, leads |-> <<1, 1, 2>>, budget |-> Budget]

With(budget, rules, sizes, leads) ==
  {[policy |-> rules, size |-> z, leads |-> l, budget |-> budget] : z \in sizes, l \in leads}

Single == <<1, 0, 1, 0, 1, 0>>
Double == <<2, 2, 2, 2, 1, 0>>
AllAction == [Policy EXCEPT !.splits = TRUE]

Uncooled == [Policy EXCEPT !.cooldown = 0, !.splitCooldown = 0, !.failureCooldown = 0]

SomeScenarios ==
  \* Left alone, from many placements.
  With([Budget EXCEPT !.settles = TRUE, !.actions = 8], Uncooled,
       {<<a, b, c, 1, d, 0>> : a \in 0 .. 2, b \in {1, 3}, c \in {0, 3}, d \in 0 .. 2}, {<<1, 1, 1>>, <<1, 2, 2>>})
  \cup With([Budget EXCEPT !.settles = TRUE, !.actions = 14], [Uncooled EXCEPT !.splits = TRUE],
            {<<2, 3, 0, 1, 1, 0>>, <<2, 2, 1, 0, 1, 0>>}, {<<1, 1, 1>>, <<1, 2, 2>>})
  \* Splits up to the limit, one and two in a cycle; a limit on the leaders.
  \cup With([Budget EXCEPT !.settles = TRUE], [AllAction EXCEPT !.moves = FALSE, !.leaders = FALSE], {Double}, {<<1, 1, 2>>})
  \cup With([Budget EXCEPT !.actions = 4], [AllAction EXCEPT !.maxActions = 2, !.maxSplits = 2, !.maxSplitsNode = 2],
            {Double}, {<<1, 1, 2>>})
  \cup With(Budget, [Policy EXCEPT !.maxLeaders = 1, !.moves = FALSE], {Single}, {<<1, 1, 1>>})
  \* A failure whose cooldown is shorter.
  \cup With([Budget EXCEPT !.faults = 1, !.ticks = 2], [Policy EXCEPT !.failureCooldown = 1], {Single}, {<<1, 1, 2>>})
  \* Crashes and failures.
  \cup With([Budget EXCEPT !.starts = <<2, 0>>, !.crashes = 1, !.faults = 1, !.ticks = 2, !.actions = 2],
            AllAction, {Single, Double}, {<<1, 1, 2>>})
  \* A node that cannot be reached.
  \cup With([Budget EXCEPT !.outages = 1, !.actions = 1], AllAction, {Single, Double}, {<<1, 1, 2>>})
  \* A controller that is stopped and started again, and elections.
  \cup With([Budget EXCEPT !.starts = <<2, 0>>, !.stops = 1, !.elections = 1, !.actions = 1], Policy, {Single}, {<<1, 1, 1>>})
  \* A controller that is replaced while it runs.
  \cup With([Budget EXCEPT !.starts = <<1, 1>>, !.actions = 2], [Policy EXCEPT !.moves = FALSE, !.historyLimit = 1],
            {Single}, {<<1, 1, 1>>})
  \cup With([Budget EXCEPT !.starts = <<1, 1>>, !.actions = 2], [Policy EXCEPT !.leaders = FALSE], {Single}, {<<1, 1, 2>>})

\* In the middle of its work an operation goes on before anything else happens.
Midway(c) ==
  /\ ctl[c].pc = "run"
  /\ CASE ctl[c].a.type = "move" -> meta.moves[ctl[c].op].state \in MBootstrapping .. MPromoted
       [] ctl[c].a.type = "split" -> meta.splits[ctl[c].op].state \in Copying .. Ready
       [] ctl[c].a.type = "lead" -> FALSE

InScenario ==
  IF down = {} /\ \E c \in Controllers : Midway(c) /\ ~Superseded(c)
  THEN \E c \in Controllers : Midway(c) /\ ~Superseded(c) /\ (RunsMove(c) \/ RunsSplit(c)) ELSE TRUE

MCNext == RebalanceNext /\ InScenario
\* A range without a leader elects one.
Elections == \E r \in Ranges, n \in Nodes : leader[r] = 0 /\ Elect(r, n)

MCSpec ==
  /\ RebalanceInit /\ [][MCNext]_rvars
  /\ \A c \in Controllers : WF_rvars(~halted /\ Pursues(c) /\ InScenario)
  /\ WF_rvars(~halted /\ Elections /\ InScenario)
===========================================================================
