----------------------------- MODULE Rebalance -----------------------------
(***************************************************************************)
(* The rebalancing controller (internal/multiraft/rebalance_controller.go, *)
(* rebalance_planner.go, rebalance_collector.go, metarange.go).            *)
(*                                                                         *)
(* A controller repeats a cycle: finish the action the metadata shows as   *)
(* unfinished, observe the cluster, plan, observe again, validate, and     *)
(* then, for each action of the plan, record it, execute it as a           *)
(* migration, a split or a leadership transfer, and record the outcome     *)
(* with a cooldown.  Controllers may crash at any point, and a new one     *)
(* may take over while an old one still runs.                              *)
(*                                                                         *)
(* Sizes are those of the keys and do not change; read and write rates are *)
(* zero.  A migration or split runs through the states of its record; what *)
(* the managers do in between is in Migration and Split.                   *)
(***************************************************************************)
EXTENDS MetaRange, FiniteSets

Sets == INSTANCE FiniteSetsExt

CONSTANTS Controllers,
          RateScale, \* one, in the fixed-point scores
          RangeIds,  \* the identities ranges may get
          Scenarios  \* a policy, sizes, the first leaders, and how many actions, ticks,
                     \* failures, crashes and changes from outside there may be

VARIABLES policy,    \* RebalancePolicy, the same for every controller
          size,      \* bytes stored under each key, 0 if it is absent
          control,   \* RebalanceControlSnapshot
          halted,    \* metaMachine.Apply has refused an entry: the end of the metadata
          leader,    \* the node that leads each range, 0 for none
          down,      \* the nodes that are not reachable
          watch,     \* per controller: samples seen of nodes that were away
          ctl,       \* the cycle each controller is in
          overlap,   \* two controllers have been in a cycle at once
          now,
          left       \* what is left of the scenario's budget

rvars == <<meta, policy, size, control, halted, leader, down, watch, ctl, overlap, now, left>>
---------------------------------------------------------------------------
(* What the collector reports *)

Ranges == DOMAIN meta.ranges
NodesOf(r) == {meta.ranges[r].reps[j].node : j \in 1 .. RF}
ReplicaOn(r, n) == (CHOOSE j \in 1 .. RF : meta.ranges[r].reps[j].node = n)

LiveMoves == {i \in DOMAIN meta.moves : MoveLive(meta.moves[i])}
LiveSplits == {i \in DOMAIN meta.splits : SplitLive(meta.splits[i])}

Migrating(r) == \E i \in LiveMoves : meta.moves[i].range = r
Splitting(r) == \E i \in LiveSplits : meta.splits[i].parent = r
MigrationsIn(n) == Cardinality({i \in LiveMoves : meta.moves[i].dstNode = n})
MigrationsOut(n) == Cardinality({i \in LiveMoves : meta.moves[i].srcNode = n})
SplitsInFlight(n) ==
  Cardinality({i \in LiveSplits : \E j \in 1 .. RF : meta.splits[i].left.reps[j].node = n})

\* The user keys of a range and what they take; nothing when no replica is reachable.
UserKeys(r) ==
  IF NodesOf(r) \subseteq down THEN {} ELSE {k \in Keys : size[k] # 0 /\ Contains(meta.ranges[r], k)}
Bytes(r) == Sets!MapThenSumSet(LAMBDA k : size[k], UserKeys(r))

\* RebalanceNodeMetric: what a reachable node hosts and leads.
Hosted(n) == IF n \in down THEN {} ELSE {r \in Ranges : n \in NodesOf(r)}
Leading(n) == {r \in Hosted(n) : leader[r] = n}
Metric(n) ==
  [bytes |-> Sets!MapThenSumSet(Bytes, Hosted(n)), leaders |-> Cardinality(Leading(n)),
   replicas |-> Cardinality(Hosted(n))]
Metrics == [n \in Nodes |-> Metric(n)]

\* Collect also counts the samples of a node that has come back; it is warming
\* until there are enough.
Watched(w) ==
  [n \in Nodes |->
     IF n \in down THEN [away |-> TRUE, seen |-> 0]
     ELSE IF w[n].away THEN [away |-> w[n].seen + 1 < policy.minSamples, seen |-> w[n].seen + 1]
     ELSE w[n]]
Warming(w) == {n \in Nodes \ down : w[n].away}
---------------------------------------------------------------------------
(* Scores *)

Total(f(_), metrics) == Sets!MapThenSumSet(LAMBDA n : f(metrics[n]), Nodes)

WeightedRatio(value, total, weight) ==
  IF value = 0 \/ total = 0 THEN 0 ELSE ((value * Cardinality(Nodes) * RateScale) \div total) * weight

\* placementScore of every node.
Scores(metrics) ==
  LET bytes == Total(LAMBDA x : x.bytes, metrics)
      leaders == Total(LAMBDA x : x.leaders, metrics)
      replicas == Total(LAMBDA x : x.replicas, metrics)
  IN [n \in Nodes |->
        WeightedRatio(metrics[n].bytes, bytes, policy.bytesWeight)
        + WeightedRatio(metrics[n].leaders, leaders, policy.leaderWeight)
        + WeightedRatio(metrics[n].replicas, replicas, policy.replicaWeight)]

\* loadPotential: the squared distances from the mean.
Potential(scores) ==
  LET mean == Sets!MapThenSumSet(LAMBDA n : scores[n], Nodes) \div Cardinality(Nodes)
  IN Sets!MapThenSumSet(LAMBDA n : (scores[n] - mean) * (scores[n] - mean), Nodes)

Clamped(a, b) == IF b > a THEN 0 ELSE a - b

\* Mutant: the source keeps what it gives away.
ProjectedOnTop(metrics, r, src, dst, leaderOnly) ==
  [metrics EXCEPT ![dst].replicas = @ + 1, ![dst].bytes = @ + (IF leaderOnly THEN 0 ELSE Bytes(r))]

\* projectedNode: the metrics after range r has moved, or only its leadership.
\* The leadership is taken to go to the target.
Projected(metrics, r, src, dst, leaderOnly) ==
  LET led == IF leaderOnly \/ leader[r] = src THEN 1 ELSE 0
      moved == IF leaderOnly THEN 0 ELSE Bytes(r)
      held == IF leaderOnly THEN 0 ELSE 1
      less(x) == [bytes |-> Clamped(x.bytes, moved), leaders |-> Clamped(x.leaders, led),
                  replicas |-> Clamped(x.replicas, held)]
      more(x) == [bytes |-> x.bytes + moved, leaders |-> x.leaders + led, replicas |-> x.replicas + held]
  IN [metrics EXCEPT ![src] = less(@), ![dst] = more(@)]

Improvement(metrics, r, src, dst, leaderOnly) ==
  Clamped(Potential(Scores(metrics)),
          Potential(Scores(Projected(metrics, r, src, dst, leaderOnly))))
---------------------------------------------------------------------------
(* The planner *)

Action(type, r) ==
  [type |-> type, range |-> r, rgen |-> meta.ranges[r].gen, src |-> 0, srcNode |-> 0, dstNode |-> 0,
   key |-> 0, cost |-> 1, gain |-> 0]

\* Mutant: the cooldown of the node is not looked at.
CooledRangeOnly(r, n) == now >= control.rangeUntil[r]

Cooled(r, n) == now >= control.rangeUntil[r] /\ (n = 0 \/ now >= control.nodeUntil[n])
Busy(r) == Splitting(r) \/ Migrating(r)

\* medianSplitKey, 0 if there is none.
Median(r) ==
  LET keys == UserKeys(r)
      n == Cardinality(keys)
  IN IF n < 2 THEN 0 ELSE CHOOSE k \in keys : Cardinality({j \in keys : j < k}) = n \div 2

SplitNodesHaveCapacity(r) ==
  \A n \in NodesOf(r) : n \notin down /\ SplitsInFlight(n) < policy.maxSplitsNode

\* Mutant: one range too many.
MaySplitOneMore ==
  Cardinality({r \in Ranges : Splitting(r)}) < policy.maxSplits /\ Cardinality(Ranges) <= policy.maxRanges

MaySplitMore ==
  Cardinality({r \in Ranges : Splitting(r)}) < policy.maxSplits /\ Cardinality(Ranges) < policy.maxRanges

SplitCandidates ==
  {[Action("split", r) EXCEPT !.key = Median(r), !.cost = Larger(1, Bytes(r)), !.gain = Bytes(r) * policy.rangeWeight] :
     r \in {q \in Ranges : /\ policy.splits /\ ~Busy(q) /\ Cooled(q, 0) /\ MaySplitMore
                           /\ SplitNodesHaveCapacity(q) /\ Bytes(q) >= policy.splitBytes
                           /\ Median(q) # 0 /\ StrictInterior(meta.ranges[q], Median(q))}}

\* leaderCandidate: from the node that leads most, the first range and the
\* first of its replicas that improve the balance.
LeaderCandidates(metrics) ==
  LET leads(n) == metrics[n].leaders
      source == CHOOSE n \in Nodes : \A k \in Nodes : leads(n) > leads(k) \/ (leads(n) = leads(k) /\ n <= k)
      pairs == {x \in Ranges \X (1 .. RF) : LET n == meta.ranges[x[1]].reps[x[2]].node IN
                  /\ leader[x[1]] = source /\ ~Busy(x[1]) /\ Cooled(x[1], source)
                  /\ n # source /\ n \notin down /\ leads(n) < leads(source)
                  /\ Improvement(metrics, x[1], source, n, TRUE) # 0}
      id(x) == meta.ranges[x[1]].reps[x[2]].id
      first == CHOOSE x \in pairs : \A y \in pairs : x[1] < y[1] \/ (x[1] = y[1] /\ id(x) <= id(y))
      target == meta.ranges[first[1]].reps[first[2]].node
  IN IF ~policy.leaders \/ (\A n \in Nodes : leads(source) <= leads(n) + 1) \/ pairs = {} THEN {}
     ELSE {[Action("lead", first[1]) EXCEPT !.srcNode = source, !.dstNode = target,
              !.gain = Improvement(metrics, first[1], source, target, TRUE)]}

EligibleMoveTarget(metrics, warming, r, src, dst) ==
  /\ src # dst /\ src \notin down /\ dst \notin down \cup warming /\ dst \notin NodesOf(r)
  /\ MigrationsIn(dst) < policy.maxIn /\ MigrationsOut(src) < policy.maxOut
  /\ policy.maxReplicas # 0 => metrics[dst].replicas < policy.maxReplicas
  /\ policy.maxBytes # 0 => metrics[dst].bytes <= Clamped(policy.maxBytes, Bytes(r))
  /\ policy.maxLeaders # 0 /\ leader[r] = src => metrics[dst].leaders < policy.maxLeaders

\* moveOverloaded: the highest score is over the threshold, which is lower for
\* a node that was part of an action before.
MoveOverloaded(metrics) ==
  LET scores == Scores(metrics)
      top == CHOOSE n \in Nodes : \A k \in Nodes : scores[n] > scores[k] \/ (scores[n] = scores[k] /\ n <= k)
      weight == policy.bytesWeight + policy.leaderWeight + policy.replicaWeight
      part == IF control.nodeUntil[top] # 0 THEN policy.recovery ELSE policy.start
  IN scores[top] > weight * (RateScale + part)

MoveCandidates(metrics, warming) ==
  IF ~policy.moves \/ Cardinality(LiveMoves) >= policy.maxMigrations \/ ~MoveOverloaded(metrics) THEN {}
  ELSE {[Action("move", x[1]) EXCEPT !.src = meta.ranges[x[1]].reps[ReplicaOn(x[1], x[2])].id,
           !.srcNode = x[2], !.dstNode = x[3], !.cost = Larger(1, Bytes(x[1])),
           !.gain = Improvement(metrics, x[1], x[2], x[3], FALSE)] :
          x \in {y \in Ranges \X Nodes \X Nodes :
                   /\ ~Busy(y[1]) /\ Cooled(y[1], y[2]) /\ y[2] \in NodesOf(y[1])
                   /\ EligibleMoveTarget(metrics, warming, y[1], y[2], y[3])}}

Order(a) == CASE a.type = "split" -> 0 [] a.type = "lead" -> 1 [] a.type = "move" -> 2

\* candidateLess: the better gain for the cost, then fixed orders.
Precedes(a, b) ==
  LET x == a.gain * b.cost
      y == b.gain * a.cost
      ranks(c) == <<Order(c), c.range, c.srcNode, c.dstNode, c.key>>
  IN x > y \/ (x = y /\ \E i \in 1 .. 5 :
                  ranks(a)[i] < ranks(b)[i] /\ \A j \in 1 .. i - 1 : ranks(a)[j] = ranks(b)[j])

Touched(a) == {a.srcNode, a.dstNode} \ {0}

\* The best candidates that share neither a range nor a node.
RECURSIVE Selected(_, _)
Selected(candidates, n) ==
  IF n = 0 \/ candidates = {} THEN <<>>
  ELSE LET best == CHOOSE a \in candidates : \A b \in candidates \ {a} : Precedes(a, b)
       IN <<best>> \o Selected({b \in candidates : b.range # best.range /\ Touched(b) \cap Touched(best) = {}}, n - 1)

\* Mutant: nodes that have just come back are targets.
PlanRebalanceUnwarmed(warming) ==
  LET metrics == Metrics
      candidates == SplitCandidates \cup LeaderCandidates(metrics) \cup MoveCandidates(metrics, {})
  IN [gen |-> meta.gen, epoch |-> control.epoch,
      actions |-> Selected({a \in candidates : a.gain >= policy.minGain}, policy.maxActions)]

\* PlanRebalance.
PlanRebalance(warming) ==
  LET metrics == Metrics
      candidates == SplitCandidates \cup LeaderCandidates(metrics) \cup MoveCandidates(metrics, warming)
  IN [gen |-> meta.gen, epoch |-> control.epoch,
      actions |-> Selected({a \in candidates : a.gain >= policy.minGain}, policy.maxActions)]

\* ValidateRebalancePlan, on a new observation.
ValidAction(a, metrics, warming) ==
  /\ a.range \in Ranges /\ meta.ranges[a.range].gen = a.rgen /\ ~Busy(a.range)
  /\ CASE a.type = "move" ->
            /\ a.srcNode \in NodesOf(a.range) \ down
            /\ meta.ranges[a.range].reps[ReplicaOn(a.range, a.srcNode)].id = a.src
            /\ EligibleMoveTarget(metrics, warming, a.range, a.srcNode, a.dstNode)
            /\ Cardinality(LiveMoves) < policy.maxMigrations
       [] a.type = "split" ->
            Median(a.range) = a.key /\ SplitNodesHaveCapacity(a.range) /\ MaySplitMore
       [] a.type = "lead" ->
            /\ leader[a.range] = a.srcNode /\ a.dstNode \in NodesOf(a.range) \ down
            /\ policy.maxLeaders # 0 => metrics[a.dstNode].leaders < policy.maxLeaders

ValidPlan(plan, warming) ==
  /\ plan.gen = meta.gen /\ plan.epoch = control.epoch
  /\ \A i \in DOMAIN plan.actions : ValidAction(plan.actions[i], Metrics, warming)
---------------------------------------------------------------------------
(* The control record of the metadata *)

Terminal(rec) == rec.state \in {"Succeeded", "Failed"}
LastRecord == control.history[Len(control.history)]

LegalAction(from, to) ==
  \/ from = "Planned" /\ to \in {"Executing", "Failed"}
  \/ from = "Executing" /\ to \in {"Succeeded", "Failed"}

\* validRebalanceControlTransition: what metaMachine.Apply accepts.
LegalUpdate(x, y) ==
  /\ y.id = x.id /\ y.a = x.a /\ y.epoch = x.epoch /\ y.at >= x.at
  /\ \/ LegalAction(x.state, y.state)
     \/ x.state = "Executing" /\ y.state = "Executing" /\ x.op \in {0, y.op}

ValidControl(old, new) ==
  LET n == Len(old.history)
      k == Len(new.history)
      fresh == /\ new.next = old.next + 1 /\ new.history[k].id = old.next
               /\ new.history[k].state = "Planned" /\ new.history[k].epoch = new.epoch
  IN
  /\ new.epoch \in {old.epoch, old.epoch + 1} /\ new.next \in {old.next, old.next + 1}
  /\ new.epoch # old.epoch => new.next = old.next /\ k = n
  /\ \/ /\ n > 0 /\ k = n /\ fresh
        /\ \A i \in 2 .. n : new.history[i - 1] = old.history[i]
     \/ k = n + 1 /\ fresh /\ SubSeq(new.history, 1, n) = old.history
     \/ /\ k = n /\ new.next = old.next
        /\ \A i \in 1 .. n : new.history[i] = old.history[i]
                            \/ (i = n /\ LegalUpdate(old.history[i], new.history[i]))
  /\ \A r \in DOMAIN old.rangeUntil : new.rangeUntil[r] >= old.rangeUntil[r]
  /\ \A m \in Nodes : new.nodeUntil[m] >= old.nodeUntil[m]

Idle(c) == [on |-> ctl[c].on, pc |-> "idle", plan |-> <<>>, a |-> <<>>, id |-> 0, at |-> 0,
            op |-> 0, epoch |-> 0, state |-> ""]
Goes(c, x) == ctl' = [ctl EXCEPT ![c] = x]
Stands == UNCHANGED <<policy, size, leader, down, now>>

\* MetaRange.mutate with a new control record: proposed if it differs, and the
\* end of the metadata group if Apply refuses it.
Mutates(c, new, x) ==
  IF new = control \/ ValidControl(control, new)
  THEN control' = new /\ Goes(c, x) /\ UNCHANGED halted
  ELSE halted' = TRUE /\ Goes(c, Idle(c)) /\ UNCHANGED control

\* BeginRebalanceActionWithLimit.
MayBegin == Len(control.history) >= policy.historyLimit => Terminal(control.history[1])
BegunOverNewest(a) ==
  [control EXCEPT
     !.history = Append(IF Len(@) >= policy.historyLimit THEN SubSeq(@, 1, Len(@) - 1) ELSE @,
                        [id |-> control.next, a |-> a, epoch |-> control.epoch, state |-> "Planned",
                         at |-> now, op |-> 0, by |-> ""]),
     !.next = @ + 1]

Begun(a) ==
  [control EXCEPT
     !.history = Append(IF Len(@) >= policy.historyLimit THEN Tail(@) ELSE @,
                        [id |-> control.next, a |-> a, epoch |-> control.epoch, state |-> "Planned",
                         at |-> now, op |-> 0, by |-> ""]),
     !.next = @ + 1]

\* AdvanceRebalanceAction.  op: the migration or the split; by: which part of
\* the controller reported the error kept in LastError.
MayAdvance(id, state) ==
  /\ control.history # <<>> /\ LastRecord.id = id
  /\ LastRecord.state = state \/ LegalAction(LastRecord.state, state)

AdvancedControl(state, op, by, at, until) ==
  LET rec == LastRecord
      same == [rec EXCEPT !.op = IF op # 0 THEN op ELSE @, !.by = IF by # "" THEN by ELSE @,
                          !.at = Larger(@, at)]
      next == [rec EXCEPT !.state = state, !.op = op, !.by = by, !.at = at]
      n == Len(control.history)
  IN IF rec.state = state THEN [control EXCEPT !.history[n] = same]
     ELSE IF ~Terminal(next) THEN [control EXCEPT !.history[n] = next]
     ELSE [control EXCEPT !.history[n] = next, !.rangeUntil[rec.a.range] = until,
             !.nodeUntil = [m \in Nodes |-> IF m \in Touched(rec.a) THEN until ELSE @[m]]]

Advances(c, state, op, by, at, until, x) ==
  IF MayAdvance(ctl[c].id, state) THEN Mutates(c, AdvancedControl(state, op, by, at, until), x)
  ELSE Goes(c, Idle(c)) /\ UNCHANGED <<control, halted>>
---------------------------------------------------------------------------
(* The controller *)

Activate(c) ==
  /\ ~ctl[c].on /\ ctl[c].pc = "idle" /\ left.starts[c] > 0
  /\ Mutates(c, [control EXCEPT !.epoch = @ + 1], [Idle(c) EXCEPT !.on = TRUE])
  /\ left' = [left EXCEPT !.starts[c] = @ - 1]
  /\ Stands /\ UNCHANGED <<meta, watch, overlap>>

Stop(c) ==
  /\ ctl[c].on /\ left.stops > 0
  /\ Goes(c, [ctl[c] EXCEPT !.on = FALSE]) /\ left' = [left EXCEPT !.stops = @ - 1]
  /\ Stands /\ UNCHANGED <<meta, control, halted, watch, overlap>>

\* The process ends, with the calls it is in.
Crash(c) ==
  /\ ctl[c].on /\ left.crashes > 0
  /\ Goes(c, [Idle(c) EXCEPT !.on = FALSE]) /\ left' = [left EXCEPT !.crashes = @ - 1]
  /\ watch' = [watch EXCEPT ![c] = [n \in Nodes |-> [away |-> FALSE, seen |-> 0]]]
  /\ Stands /\ UNCHANGED <<meta, control, halted, overlap>>

\* Mutant: an action that was only planned is not resumed.
RunCycleUnplanned(c) ==
  /\ ctl[c].on /\ ctl[c].pc = "idle"
  /\ LET rec == LastRecord IN
     IF control.history = <<>> \/ rec.state # "Executing" THEN Goes(c, [Idle(c) EXCEPT !.pc = "plan"])
     ELSE Goes(c, [Idle(c) EXCEPT !.pc = "look", !.a = rec.a, !.id = rec.id, !.at = Larger(now, rec.at)])
  /\ overlap' = (overlap \/ \E d \in Controllers \ {c} : ctl[d].pc # "idle")
  /\ Stands /\ UNCHANGED <<meta, control, halted, watch, left>>

\* RunCycle begins, and Reconcile reads the last record.
RunCycle(c) ==
  /\ ctl[c].on /\ ctl[c].pc = "idle"
  /\ LET rec == LastRecord IN
     IF control.history = <<>> \/ Terminal(rec) THEN Goes(c, [Idle(c) EXCEPT !.pc = "plan"])
     ELSE Goes(c, [Idle(c) EXCEPT !.pc = IF rec.state = "Planned" THEN "resume" ELSE "look",
                                  !.a = rec.a, !.id = rec.id, !.at = Larger(now, rec.at)])
  /\ overlap' = (overlap \/ \E d \in Controllers \ {c} : ctl[d].pc # "idle")
  /\ Stands /\ UNCHANGED <<meta, control, halted, watch, left>>

Resume(c) ==
  /\ ctl[c].pc = "resume"
  /\ Advances(c, "Executing", 0, "", ctl[c].at, 0, [ctl[c] EXCEPT !.pc = "look"])
  /\ Stands /\ UNCHANGED <<meta, watch, overlap, left>>

\* The operations that were started for an action; the last one counts.
Operations(a) ==
  CASE a.type = "move" -> {i \in DOMAIN meta.moves : LET x == meta.moves[i] IN
                             x.range = a.range /\ x.src = a.src /\ x.dstNode = a.dstNode}
    [] a.type = "split" -> {i \in DOMAIN meta.splits :
                              meta.splits[i].parent = a.range /\ meta.splits[i].key = a.key}
    [] a.type = "lead" -> {}
Operation(a) == IF Operations(a) = {} THEN 0 ELSE Sets!Max(Operations(a))
OperationLive(a, i) ==
  i # 0 /\ IF a.type = "move" THEN MoveLive(meta.moves[i]) ELSE SplitLive(meta.splits[i])
OperationDone(a, i) ==
  i # 0 /\ IF a.type = "move" THEN meta.moves[i].state = MSourceRetired
           ELSE meta.splits[i].state = Committed

\* Mutant: the error of the call is ignored.
EndedWell(c, ok) == [ctl[c] EXCEPT !.pc = "record", !.state = "Succeeded"]

Ended(c, ok) ==
  [ctl[c] EXCEPT !.pc = IF ok \/ ctl[c].at # 0 THEN "record" ELSE "judge",
                 !.state = IF ok THEN "Succeeded" ELSE "Failed"]

\* reconcileAction.
Look(c) ==
  LET a == ctl[c].a
      i == Operation(a)
      x == [ctl[c] EXCEPT !.op = i]
  IN
  /\ ctl[c].pc = "look"
  /\ Goes(c, CASE i # 0 /\ OperationLive(a, i) -> [x EXCEPT !.pc = "recover"]
               [] i # 0 /\ ~OperationLive(a, i) ->
                    [x EXCEPT !.pc = "record", !.state = IF OperationDone(a, i) THEN "Succeeded" ELSE "Failed"]
               [] i = 0 /\ a.type = "lead" /\ leader[a.range] = a.dstNode -> Ended(c, TRUE)
               [] OTHER -> [x EXCEPT !.pc = "start"])
  /\ Stands /\ UNCHANGED <<meta, control, halted, watch, overlap, left>>

\* RecoverMigration and RecoverSplit take the operation over, unless it has
\* ended in the meantime.
Recover(c) ==
  LET x == ctl[c] IN
  /\ x.pc = "recover"
  /\ \/ /\ x.a.type = "move" /\ TakeoverMigration(x.op, meta.moves[x.op].epoch)
        /\ Goes(c, [x EXCEPT !.pc = "run", !.epoch = meta.moves[x.op].epoch + 1])
     \/ /\ x.a.type = "split" /\ TakeoverSplit(x.op, meta.splits[x.op].epoch)
        /\ Goes(c, [x EXCEPT !.pc = "run", !.epoch = meta.splits[x.op].epoch + 1])
     \/ /\ ~OperationLive(x.a, x.op) /\ UNCHANGED meta
        /\ Goes(c, Ended(c, OperationDone(x.a, x.op)))
  /\ Stands /\ UNCHANGED <<control, halted, watch, overlap, left>>

\* Plan, and then the second observation with the validation.
Plan(c) ==
  LET seen == Watched(watch[c]) IN
  /\ ctl[c].pc = "plan"
  /\ watch' = [watch EXCEPT ![c] = seen]
  /\ Goes(c, [ctl[c] EXCEPT !.pc = "validate", !.plan = PlanRebalance(Warming(seen))])
  /\ Stands /\ UNCHANGED <<meta, control, halted, overlap, left>>

Validate(c) ==
  LET seen == Watched(watch[c])
      plan == ctl[c].plan
  IN
  /\ ctl[c].pc = "validate"
  /\ watch' = [watch EXCEPT ![c] = seen]
  /\ Goes(c, IF plan.actions # <<>> /\ ValidPlan(plan, Warming(seen))
             THEN [ctl[c] EXCEPT !.pc = "begin", !.plan = plan.actions] ELSE Idle(c))
  /\ Stands /\ UNCHANGED <<meta, control, halted, overlap, left>>

\* The next action of the plan.
Begin(c) ==
  LET a == ctl[c].plan[1] IN
  /\ ctl[c].pc = "begin" /\ left.actions > 0
  /\ IF MayBegin
       THEN Mutates(c, Begun(a), [Idle(c) EXCEPT !.pc = "executing", !.plan = Tail(ctl[c].plan),
                                                 !.a = a, !.id = control.next])
       ELSE Goes(c, Idle(c)) /\ UNCHANGED <<control, halted>>
  /\ left' = [left EXCEPT !.actions = @ - 1]
  /\ Stands /\ UNCHANGED <<meta, watch, overlap>>

Executing(c) ==
  /\ ctl[c].pc = "executing"
  /\ Advances(c, "Executing", 0, "", now, 0, [ctl[c] EXCEPT !.pc = "start"])
  /\ Stands /\ UNCHANGED <<meta, watch, overlap, left>>

\* execute: the operation begins, or goes on if it is under way, or is refused.
Joins(a) ==
  {i \in Operations(a) :
     /\ OperationLive(a, i) /\ a.range \in Ranges
     /\ a.type = "move" => \E j \in 1 .. RF : meta.ranges[a.range].reps[j].id = a.src}

MayStart(a) ==
  /\ a.range \in Ranges
  /\ CASE a.type = "move" -> \E j \in 1 .. RF : /\ meta.ranges[a.range].reps[j].id = a.src
                                                /\ MayBeginMigration(a.range, j, a.dstNode)
       [] a.type = "split" -> MayBeginSplit(a.range, a.key)
       [] a.type = "lead" -> /\ a.srcNode \notin down /\ leader[a.range] = a.srcNode
                             /\ a.dstNode \in NodesOf(a.range)

Start(c) ==
  LET x == ctl[c]
      a == x.a
  IN
  /\ x.pc = "start"
  /\ \/ /\ a.type = "move" /\ MayStart(a)
        /\ BeginMigration(a.range, ReplicaOn(a.range, a.srcNode), a.dstNode)
        /\ Goes(c, [x EXCEPT !.pc = "run", !.op = Len(meta.moves) + 1, !.epoch = 1])
     \/ /\ a.type = "split" /\ MayStart(a) /\ BeginSplit(a.range, a.key)
        /\ Goes(c, [x EXCEPT !.pc = "run", !.op = Len(meta.splits) + 1, !.epoch = 1])
     \/ /\ a.type = "lead" /\ MayStart(a) /\ UNCHANGED meta
        /\ Goes(c, [x EXCEPT !.pc = "run"])
     \/ /\ \E i \in Joins(a) :
             Goes(c, [x EXCEPT !.pc = "run", !.op = i,
                        !.epoch = IF a.type = "move" THEN meta.moves[i].epoch ELSE meta.splits[i].epoch])
        /\ UNCHANGED meta
     \/ /\ ~MayStart(a) /\ Joins(a) = {} /\ UNCHANGED meta
        /\ Goes(c, Ended(c, FALSE))
  /\ Stands /\ UNCHANGED <<control, halted, watch, overlap, left>>

\* The managers' work: the record goes through its states as long as it
\* belongs to this call and the nodes concerned are reachable.
FirstKept(r, n) ==
  LET kept == {j \in 1 .. RF : meta.ranges[r].reps[j].node # n} IN meta.ranges[r].reps[Sets!Min(kept)].node

RunsMove(c) ==
  LET i == ctl[c].op
      x == meta.moves[i]
      e == ctl[c].epoch
      hands == x.state = MPromoted /\ leader[x.range] = x.srcNode
  IN
  /\ ctl[c].pc = "run" /\ ctl[c].a.type = "move" /\ x.epoch = e /\ {x.srcNode, x.dstNode} \cap down = {}
  /\ \/ /\ x.state \notin {MSourceRemoving, MSourceRetired}
        /\ AdvanceMigration(i, e, x.state + 1, 1) /\ UNCHANGED ctl
     \/ x.state = MSourceRemoving /\ CommitMigration(i, e) /\ UNCHANGED ctl
     \/ x.state = MSourceRetired /\ UNCHANGED meta /\ Goes(c, Ended(c, TRUE))
  /\ leader' = IF hands THEN [leader EXCEPT ![x.range] = IF RF = 1 THEN x.dstNode ELSE FirstKept(x.range, x.srcNode)]
               ELSE leader
  /\ UNCHANGED <<policy, size, down, now, control, halted, watch, overlap, left>>

RunsSplit(c) ==
  LET i == ctl[c].op
      s == meta.splits[i]
      e == ctl[c].epoch
  IN
  /\ ctl[c].pc = "run" /\ ctl[c].a.type = "split" /\ s.epoch = e
  /\ \/ /\ s.state < Fenced /\ leader[s.parent] # 0 /\ AdvanceSplit(i, e, s.state + 1, 1)
        /\ UNCHANGED <<ctl, leader>>
     \/ /\ s.state = Fenced /\ CommitSplit(i, e) /\ UNCHANGED ctl
        /\ \E n, k \in NodesOf(s.parent) \ down :
             leader' = [leader EXCEPT ![s.parent] = 0, ![s.left.id] = n, ![s.right.id] = k]
     \/ s.state = Committed /\ UNCHANGED <<meta, leader>> /\ Goes(c, Ended(c, TRUE))
  /\ UNCHANGED <<policy, size, down, now, control, halted, watch, overlap, left>>

RunsTransfer(c) ==
  LET a == ctl[c].a IN
  /\ ctl[c].pc = "run" /\ a.type = "lead" /\ leader[a.range] # 0 /\ a.dstNode \notin down
  /\ leader' = [leader EXCEPT ![a.range] = a.dstNode] /\ Goes(c, Ended(c, TRUE))
  /\ UNCHANGED <<policy, size, down, now, meta, control, halted, watch, overlap, left>>

\* The call ends with an error: another manager has the operation, a node is
\* out of reach, or anything else.
Superseded(c) ==
  CASE ctl[c].a.type = "move" -> meta.moves[ctl[c].op].epoch # ctl[c].epoch
    [] ctl[c].a.type = "split" -> meta.splits[ctl[c].op].epoch # ctl[c].epoch
    [] ctl[c].a.type = "lead" -> FALSE

Fails(c) ==
  /\ ctl[c].pc = "run"
  /\ \/ Superseded(c) /\ UNCHANGED left
     \/ down # {} /\ UNCHANGED left
     \/ left.faults > 0 /\ left' = [left EXCEPT !.faults = @ - 1]
  /\ Goes(c, Ended(c, FALSE))
  /\ Stands /\ UNCHANGED <<meta, control, halted, watch, overlap>>

\* After an error RunCycle looks the operation up: one that lives on keeps the
\* action executing.
Judge(c) ==
  LET i == IF ctl[c].op # 0 THEN ctl[c].op ELSE Operation(ctl[c].a) IN
  /\ ctl[c].pc = "judge"
  /\ Goes(c, [ctl[c] EXCEPT !.pc = "record", !.op = i,
                !.state = IF OperationLive(ctl[c].a, i) THEN "Executing" ELSE "Failed"])
  /\ Stands /\ UNCHANGED <<meta, control, halted, watch, overlap, left>>

\* The outcome is recorded with its cooldown.  After a success the cycle goes
\* on: with the plan if the action was resumed, with the next action if not.
Record(c) ==
  LET x == ctl[c]
      resumed == x.at # 0
      at == IF resumed THEN x.at ELSE now
      cooldown == IF x.state = "Failed" THEN policy.failureCooldown
                  ELSE IF x.a.type = "split" /\ ~resumed THEN policy.splitCooldown ELSE policy.cooldown
      by == IF x.state = "Succeeded" THEN "" ELSE IF resumed THEN "Reconcile" ELSE "RunCycle"
      goesOn == x.state = "Succeeded" /\ (resumed \/ x.plan # <<>>)
      next == IF ~goesOn THEN Idle(c)
              ELSE [Idle(c) EXCEPT !.pc = IF resumed THEN "plan" ELSE "begin", !.plan = x.plan]
  IN
  /\ x.pc = "record"
  /\ Advances(c, x.state, x.op, by, at, at + cooldown, next)
  /\ Stands /\ UNCHANGED <<meta, watch, overlap, left>>
---------------------------------------------------------------------------
(* The cluster *)

Tick ==
  /\ left.ticks > 0 /\ left' = [left EXCEPT !.ticks = @ - 1] /\ now' = now + 1
  /\ UNCHANGED <<meta, policy, size, control, halted, leader, down, watch, ctl, overlap>>

NodeDown(n) ==
  /\ left.outages > 0 /\ n \notin down
  /\ down' = down \cup {n} /\ left' = [left EXCEPT !.outages = @ - 1]
  /\ leader' = [r \in DOMAIN leader |-> IF leader[r] = n THEN 0 ELSE leader[r]]
  /\ UNCHANGED <<meta, policy, size, control, halted, watch, ctl, overlap, now>>

NodeUp(n) ==
  /\ n \in down /\ down' = down \ {n}
  /\ UNCHANGED <<meta, policy, size, control, halted, leader, watch, ctl, overlap, now, left>>

\* An election: a range without a leader gets one, and any range may change it.
Elect(r, n) ==
  /\ n \in NodesOf(r) \ down /\ leader[r] # n
  /\ 2 * Cardinality(NodesOf(r) \ down) > RF
  /\ leader' = [leader EXCEPT ![r] = n]
  /\ \/ leader[r] = 0 /\ UNCHANGED left
     \/ leader[r] # 0 /\ left.elections > 0 /\ left' = [left EXCEPT !.elections = @ - 1]
  /\ UNCHANGED <<meta, policy, size, control, halted, down, watch, ctl, overlap, now>>

RebalanceInit ==
  /\ MetaInit
  /\ \E s \in Scenarios :
       /\ policy = s.policy /\ size = s.size /\ left = s.budget
       /\ leader = [r \in RangeIds |-> IF r \in Ranges THEN s.leads[r] ELSE 0]
  /\ halted = FALSE /\ down = {} /\ overlap = FALSE /\ now = 1
  /\ control = [epoch |-> 0, next |-> 1, history |-> <<>>,
                rangeUntil |-> [r \in RangeIds |-> 0], nodeUntil |-> [n \in Nodes |-> 0]]
  /\ watch = [c \in Controllers |-> [n \in Nodes |-> [away |-> FALSE, seen |-> 0]]]
  /\ ctl = [c \in Controllers |->
              [on |-> FALSE, pc |-> "idle", plan |-> <<>>, a |-> <<>>, id |-> 0, at |-> 0,
               op |-> 0, epoch |-> 0, state |-> ""]]

\* The steps of a cycle that finish an action; they go on as long as the
\* process lives.
Pursues(c) ==
  \/ RunCycle(c) \/ Resume(c) \/ Look(c) \/ Recover(c) \/ Executing(c) \/ Start(c)
  \/ RunsMove(c) \/ RunsSplit(c) \/ RunsTransfer(c) \/ Fails(c) \/ Judge(c) \/ Record(c)

RebalanceNext ==
  /\ ~halted
  /\ \/ \E c \in Controllers :
          \/ Activate(c) \/ Stop(c) \/ Crash(c)
          \/ Plan(c) \/ Validate(c) \/ Begin(c) \/ Pursues(c)
     \/ Tick
     \/ \E n \in Nodes : NodeDown(n) \/ NodeUp(n) \/ \E r \in Ranges : Elect(r, n)

RebalanceSpec == RebalanceInit /\ [][RebalanceNext]_rvars
---------------------------------------------------------------------------
(* Properties *)

\* No more operations are under way than the policy allows (REBALANCE-5), as
\* long as no two controllers have been in a cycle at once.
WithinLimits ==
  ~overlap =>
    /\ Cardinality(LiveMoves) <= policy.maxMigrations /\ Cardinality(LiveSplits) <= policy.maxSplits
    /\ \A n \in Nodes : /\ MigrationsIn(n) <= policy.maxIn /\ MigrationsOut(n) <= policy.maxOut
                        /\ SplitsInFlight(n) <= policy.maxSplitsNode
    /\ Cardinality(Ranges) <= policy.maxRanges + policy.maxActions - 1

\* The history tells what became of every operation: one that is recorded as
\* succeeded is finished under the identity recorded (REBALANCE-9), and one
\* that is under way belongs to the last action, which is not finished, so that
\* a later cycle goes on with it.  What Reconcile itself fails to finish is the
\* exception.
HistoryFollowsOperations ==
  \A i \in DOMAIN control.history : LET rec == control.history[i] IN
    /\ rec.state = "Succeeded" /\ rec.a.type # "lead" =>
         rec.op # 0 /\ rec.op = Operation(rec.a) /\ OperationDone(rec.a, rec.op)
    /\ ~overlap /\ OperationLive(rec.a, Operation(rec.a)) =>
         (i = Len(control.history) /\ ~Terminal(rec)) \/ rec.by = "Reconcile"

\* No action begins before the cooldown of an earlier one is over that had to
\* do with the same range, or with the node that it burdens (REBALANCE-7), as
\* far back as the history goes.
CooldownHonoured ==
  [][control'.next > control.next /\ ~overlap =>
       LET a == control'.history[Len(control'.history)].a IN
       \A i \in DOMAIN control.history : LET old == control.history[i] IN
         Terminal(old) /\ (a.range = old.a.range \/ a.srcNode \in Touched(old.a)) =>
           now >= old.at + IF old.state = "Failed" THEN policy.failureCooldown ELSE policy.cooldown]_rvars

\* The planner proposes nothing that the validation refuses in the same state,
\* unless there is a limit on leaders, which the planner does not look at for
\* a transfer.
PlanIsValid ==
  \A c \in Controllers : ctl[c].pc = "plan" =>
    LET warming == Warming(Watched(watch[c])) IN
    ValidPlan(PlanRebalance(warming), warming) \/ policy.maxLeaders # 0

\* Apply refuses a control record only after two controllers have been in a
\* cycle at once, or when a failure has another cooldown than a success, which
\* makes the deadline of a target go back.
RefusedOnlyIf == halted => overlap \/ policy.failureCooldown # policy.cooldown

\* Left alone the controller comes to rest: its moves, splits and transfers do
\* not undo one another for ever, although the leadership of a moved range goes
\* to another node than the projection assumes.  (A scenario that has to settle
\* allows more actions than there is any use for.)
Settles == left.settles => left.actions > 0

\* An action does not stay unfinished while a controller runs: it is recorded
\* as succeeded or failed, also after a crash, an error or an outage.
ActionEnds ==
  []<>(control.history = <<>> \/ Terminal(LastRecord) \/ overlap \/ halted \/ \A c \in Controllers : ~ctl[c].on)
============================================================================
