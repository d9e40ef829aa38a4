------------------------------ MODULE MetaRange ------------------------------
(***************************************************************************)
(* The placement metadata (internal/multiraft/metadata.go, metarange.go,   *)
(* migration_metadata.go, catalog.go).                                     *)
(*                                                                         *)
(* One replicated record holds the catalog (the ranges, their key bounds   *)
(* and replicas), the split records and the migration records.  Managers   *)
(* change it through MetaRange.mutate: clone the leader's state, change    *)
(* the clone, propose it whole.  mutate holds one lock from the read to    *)
(* the apply, so each operation below is one step.  An operation that      *)
(* returns an error changes nothing and is not a step.                     *)
(*                                                                         *)
(* Keys are the numbers between 0 and Top; a start bound of 0 and an end   *)
(* bound of Top stand for KeyBound.Unbounded.                              *)
(***************************************************************************)
EXTENDS Integers, Sequences

CONSTANTS Top,       \* upper end of the key space
          Nodes,     \* Catalog.nodes
          RF,        \* Catalog.replicationFactor
          Indexes,   \* log indexes and configuration versions the managers report
          Bootstrap, \* ranges of the first catalog, by identity
          FirstRange, FirstReplica   \* one above the largest identity in it

VARIABLE meta

Keys == 1 .. Top - 1
---------------------------------------------------------------------------
(* SplitState and MigrationState keep the source's numbers: a transition is *)
(* legal when it adds one.                                                  *)

Preparing == 1
Copying == 2
CatchingUp == 3
Ready == 4
Fenced == 5
Committed == 6
Aborted == 7

MPlanned == 1
MBootstrapping == 2
MLearner == 3
MCatchingUp == 4
MReady == 5
MJoint == 6
MPromoted == 7
MSourceRemoving == 8
MCommitted == 9
MSourceRetired == 10
MAborted == 11

Replicas == [id : Nat, node : Nodes]
Descriptors == [id : Nat, gen : Nat, lo : 0 .. Top, hi : 0 .. Top, reps : [1 .. RF -> Replicas]]

\* SplitRecord.  The two children are always reported replayed through one
\* index, thru.
SplitRecords ==
  [parent : Nat, pgen : Nat, key : Keys, left : Descriptors, right : Descriptors,
   epoch : Nat, state : Preparing .. Aborted, boot : Nat, fence : Nat, thru : Nat]

\* MigrationRecord.  The state digest is recorded together with boot.
MigrationRecords ==
  [range : Nat, rgen : Nat, src : Nat, srcNode : Nodes, dst : Nat, dstNode : Nodes,
   epoch : Nat, state : MPlanned .. MAborted, boot : Nat, barrier : Nat, conf : Nat]

\* RangeDescriptor.Contains and strictInterior.
Contains(d, k) == d.lo <= k /\ k < d.hi
StrictInterior(d, k) == d.lo < k /\ k < d.hi

\* NewCatalog: the ranges cover the key space without overlap, under the
\* identities they are looked up by, and each has distinct replicas.
IsPartition(ranges) ==
  \A k \in 0 .. Top - 1 : \E r \in DOMAIN ranges :
    Contains(ranges[r], k) /\ \A q \in DOMAIN ranges : Contains(ranges[q], k) => q = r

DistinctReplicas(d) ==
  \A i, j \in 1 .. RF : i # j => d.reps[i].id # d.reps[j].id /\ d.reps[i].node # d.reps[j].node

ASSUME MetaAssumption ==
  /\ Top \in Nat /\ RF \in Nat /\ Indexes \subseteq Nat
  /\ FirstRange \in Nat /\ FirstReplica \in Nat
  /\ DOMAIN Bootstrap \subseteq Nat
  /\ \A r \in DOMAIN Bootstrap :
       /\ Bootstrap[r] \in Descriptors /\ Bootstrap[r].id = r /\ r < FirstRange
       /\ DistinctReplicas(Bootstrap[r])
       /\ \A j \in 1 .. RF : Bootstrap[r].reps[j].id < FirstReplica
  /\ IsPartition(Bootstrap)

SplitLive(s) == s.state # Committed /\ s.state # Aborted
MoveLive(x) == x.state # MSourceRetired /\ x.state # MAborted

LegalSplitTransition(from, to) ==
  \/ to = Aborted /\ from \in Preparing .. Ready
  \/ to = from + 1 /\ from \in Preparing .. Fenced

LegalMigrationTransition(from, to) ==
  \/ to = MAborted /\ from \in MPlanned .. MReady
  \/ to = from + 1 /\ from \in MPlanned .. MCommitted

Larger(i, j) == IF i > j THEN i ELSE j
---------------------------------------------------------------------------
(* Splits *)

\* Mutant: the left child keeps the parent's end bound.
NewSplitUncut(p, k) ==
  LET d == meta.ranges[p] IN
  [parent |-> p, pgen |-> d.gen, key |-> k,
   left |-> [d EXCEPT !.id = meta.nextRange, !.gen = 1],
   right |-> [d EXCEPT !.id = meta.nextRange + 1, !.gen = 1, !.lo = k],
   epoch |-> 1, state |-> Preparing, boot |-> 0, fence |-> 0, thru |-> 0]

\* metadataState.begin.  The children are copies of the parent cut at the key.
NewSplit(p, k) ==
  LET d == meta.ranges[p] IN
  [parent |-> p, pgen |-> d.gen, key |-> k,
   left |-> [d EXCEPT !.id = meta.nextRange, !.gen = 1, !.hi = k],
   right |-> [d EXCEPT !.id = meta.nextRange + 1, !.gen = 1, !.lo = k],
   epoch |-> 1, state |-> Preparing, boot |-> 0, fence |-> 0, thru |-> 0]

MayBeginSplit(p, k) ==
  /\ p \in DOMAIN meta.ranges /\ StrictInterior(meta.ranges[p], k)
  /\ \A i \in DOMAIN meta.splits : LET s == meta.splits[i] IN
       s.parent = p /\ s.pgen = meta.ranges[p].gen => ~SplitLive(s)
  /\ \A i \in DOMAIN meta.moves : meta.moves[i].range = p => ~MoveLive(meta.moves[i])

BeginSplit(p, k) ==
  /\ MayBeginSplit(p, k)
  /\ meta' = [meta EXCEPT !.splits = Append(@, NewSplit(p, k)), !.nextRange = @ + 2]

\* metadataState.advance with the evidence the manager passes for each state:
\* the barrier's index for Copying, the index replayed through for CatchingUp
\* and Ready, the fence for Fenced, nothing for Aborted.
MayAdvanceSplit(i, e, to) ==
  /\ i \in DOMAIN meta.splits /\ meta.splits[i].epoch = e
  /\ LegalSplitTransition(meta.splits[i].state, to)

Advanced(s, to, n) ==
  [s EXCEPT !.state = to,
            !.boot = IF to = Copying /\ n # 0 THEN n ELSE @,
            !.fence = IF to = Fenced /\ n # 0 THEN n ELSE @,
            !.thru = IF to \in {CatchingUp, Ready, Fenced} THEN Larger(@, n) ELSE @]

AdvanceSplit(i, e, to, n) ==
  /\ MayAdvanceSplit(i, e, to)
  /\ meta' = [meta EXCEPT !.splits[i] = Advanced(@, to, n)]

\* metadataState.takeover.
TakeoverSplit(i, e) ==
  /\ i \in DOMAIN meta.splits
  /\ SplitLive(meta.splits[i]) /\ meta.splits[i].epoch = e
  /\ meta' = [meta EXCEPT !.splits[i].epoch = @ + 1]

\* The catalog after the cutover: the parent's place is taken by the children.
Divided(ranges, s) ==
  IF s.parent \in DOMAIN ranges
  THEN [r \in (DOMAIN ranges \ {s.parent}) \cup {s.left.id, s.right.id} |->
          IF r = s.left.id THEN s.left ELSE IF r = s.right.id THEN s.right ELSE ranges[r]]
  ELSE ranges

\* The lineage edge of a parent is there exactly when a split of it committed.
HasLineage(p, g) ==
  \E i \in DOMAIN meta.splits :
    meta.splits[i].state = Committed /\ meta.splits[i].parent = p /\ meta.splits[i].pgen = g

MayCommitSplit(i, e) ==
  /\ i \in DOMAIN meta.splits
  /\ LET s == meta.splits[i] IN
     /\ s.epoch = e /\ s.state = Fenced /\ s.fence # 0 /\ s.thru = s.fence
     /\ ~HasLineage(s.parent, s.pgen)

\* metadataState.commit.  NewCatalog and validateLineage check the result;
\* CatalogIsValid says that they never refuse it, so they are no guard.
CommitSplit(i, e) ==
  /\ MayCommitSplit(i, e)
  /\ meta' = [meta EXCEPT !.gen = @ + 1,
                          !.ranges = Divided(@, meta.splits[i]),
                          !.splits[i].state = Committed]
---------------------------------------------------------------------------
(* Migrations *)

\* metadataState.beginMigration, of the replica in place j to node n.
MayBeginMigration(r, j, n) ==
  /\ r \in DOMAIN meta.ranges /\ j \in 1 .. RF /\ n \in Nodes
  /\ \A k \in 1 .. RF : meta.ranges[r].reps[k].node # n
  /\ \A i \in DOMAIN meta.splits : meta.splits[i].parent = r => ~SplitLive(meta.splits[i])
  /\ \A i \in DOMAIN meta.moves : meta.moves[i].range = r => ~MoveLive(meta.moves[i])

NewMigration(r, j, n) ==
  LET d == meta.ranges[r] IN
  [range |-> r, rgen |-> d.gen, src |-> d.reps[j].id, srcNode |-> d.reps[j].node,
   dst |-> meta.nextReplica, dstNode |-> n, epoch |-> 1, state |-> MPlanned,
   boot |-> 0, barrier |-> 0, conf |-> 0]

BeginMigration(r, j, n) ==
  /\ MayBeginMigration(r, j, n)
  /\ meta' = [meta EXCEPT !.moves = Append(@, NewMigration(r, j, n)), !.nextReplica = @ + 1]

\* metadataState.advanceMigration with the manager's evidence: the snapshot's
\* index for Learner, the promotion barrier for Ready, the version of the
\* configuration for CatchingUp, Joint and SourceRemoving.
MovedOn(x, to, n) ==
  [x EXCEPT !.state = to,
            !.boot = IF to = MLearner THEN Larger(@, n) ELSE @,
            !.barrier = IF to = MReady THEN Larger(@, n) ELSE @,
            !.conf = IF to \in {MCatchingUp, MJoint, MSourceRemoving} THEN Larger(@, n) ELSE @]

AdvanceMigration(i, e, to, n) ==
  /\ i \in DOMAIN meta.moves /\ meta.moves[i].epoch = e
  /\ LegalMigrationTransition(meta.moves[i].state, to)
  /\ meta' = [meta EXCEPT !.moves[i] = MovedOn(@, to, n)]

\* Mutant: the new owner starts the migration over.
TakeoverMigrationResets(i, e) ==
  /\ i \in DOMAIN meta.moves
  /\ MoveLive(meta.moves[i]) /\ meta.moves[i].epoch = e
  /\ meta' = [meta EXCEPT !.moves[i].epoch = @ + 1, !.moves[i].state = MPlanned]

\* metadataState.takeoverMigration.
TakeoverMigration(i, e) ==
  /\ i \in DOMAIN meta.moves
  /\ MoveLive(meta.moves[i]) /\ meta.moves[i].epoch = e
  /\ meta' = [meta EXCEPT !.moves[i].epoch = @ + 1]

MayCommitMigration(i, e) ==
  /\ i \in DOMAIN meta.moves
  /\ LET x == meta.moves[i] IN
     /\ x.epoch = e /\ x.state = MSourceRemoving /\ x.barrier # 0 /\ x.boot # 0
     /\ x.range \in DOMAIN meta.ranges /\ meta.ranges[x.range].gen = x.rgen
     /\ \E j \in 1 .. RF : meta.ranges[x.range].reps[j].id = x.src

\* The descriptor with the source's place taken by the target.
Relocated(d, x) ==
  [d EXCEPT !.gen = @ + 1,
            !.reps = [j \in 1 .. RF |-> IF d.reps[j].id = x.src
                                        THEN [id |-> x.dst, node |-> x.dstNode] ELSE d.reps[j]]]

\* metadataState.commitMigration.
CommitMigration(i, e) ==
  /\ MayCommitMigration(i, e)
  /\ LET x == meta.moves[i] IN
     meta' = [meta EXCEPT !.gen = @ + 1,
                          !.ranges[x.range] = Relocated(@, x),
                          !.moves[i].state = MCommitted]
---------------------------------------------------------------------------
(* The state machine: every operation, by any manager, in any order.  The  *)
(* managers reach Committed only through the commits.                      *)

MetaInit ==
  meta = [gen |-> 1, ranges |-> Bootstrap, splits |-> <<>>, moves |-> <<>>,
          nextRange |-> FirstRange, nextReplica |-> FirstReplica]

MetaNext ==
  \/ \E p \in DOMAIN meta.ranges, k \in Keys : BeginSplit(p, k)
  \/ \E i \in DOMAIN meta.splits : LET e == meta.splits[i].epoch IN
       \/ \E to \in {meta.splits[i].state + 1, Aborted} \ {Committed}, n \in Indexes :
            AdvanceSplit(i, e, to, n)
       \/ TakeoverSplit(i, e)
       \/ CommitSplit(i, e)
  \/ \E r \in DOMAIN meta.ranges, j \in 1 .. RF, n \in Nodes : BeginMigration(r, j, n)
  \/ \E i \in DOMAIN meta.moves : LET e == meta.moves[i].epoch IN
       \/ \E to \in {meta.moves[i].state + 1, MAborted} \ {MCommitted}, n \in Indexes :
            AdvanceMigration(i, e, to, n)
       \/ TakeoverMigration(i, e)
       \/ CommitMigration(i, e)

MetaSpec == MetaInit /\ [][MetaNext]_meta
---------------------------------------------------------------------------
(* Properties *)

\* The record has its type: what metadataState's decoding accepts.
MetaTypeOK ==
  /\ DOMAIN meta = {"gen", "ranges", "splits", "moves", "nextRange", "nextReplica"}
  /\ meta.gen \in Nat /\ meta.nextRange \in Nat /\ meta.nextReplica \in Nat
  /\ DOMAIN meta.ranges \subseteq Nat
  /\ \A r \in DOMAIN meta.ranges : meta.ranges[r] \in Descriptors
  /\ meta.splits \in Seq(SplitRecords)
  /\ meta.moves \in Seq(MigrationRecords)

\* What NewCatalog validates stays true through any mix of splits, takeovers,
\* aborts and migrations: every key belongs to exactly one range, and no range
\* has two replicas on one node or two replicas of one identity.
CatalogIsValid ==
  IsPartition(meta.ranges) /\ \A r \in DOMAIN meta.ranges : DistinctReplicas(meta.ranges[r])

\* validateMetadataTransition: records are only added at the end, or one of
\* them changes; with them the counters and the catalog.
Added(s, t) == Len(t) = Len(s) + 1 /\ \A j \in DOMAIN s : t[j] = s[j]
OneChanged(s, t, i) == Len(t) = Len(s) /\ \A j \in DOMAIN s : j # i => t[j] = s[j]

Counters(m) == <<m.nextRange, m.nextReplica>>

ValidTransition(m, n) ==
  \/ /\ Added(m.splits, n.splits) /\ n.moves = m.moves /\ n.gen = m.gen
     /\ Counters(n) = <<m.nextRange + 2, m.nextReplica>>
  \/ /\ Added(m.moves, n.moves) /\ n.splits = m.splits /\ n.gen = m.gen
     /\ Counters(n) = <<m.nextRange, m.nextReplica + 1>>
  \/ /\ Counters(n) = Counters(m)
     /\ n.gen = m.gen + 1 \/ (n.gen = m.gen /\ n.ranges = m.ranges)
     /\ \/ n.moves = m.moves /\ \E i \in DOMAIN m.splits :
             /\ OneChanged(m.splits, n.splits, i)
             /\ \/ n.splits[i].epoch = m.splits[i].epoch + 1 /\ n.splits[i].state = m.splits[i].state
                \/ /\ n.splits[i].epoch = m.splits[i].epoch
                   /\ LegalSplitTransition(m.splits[i].state, n.splits[i].state)
        \/ n.splits = m.splits /\ \E i \in DOMAIN m.moves :
             /\ OneChanged(m.moves, n.moves, i)
             /\ \/ n.moves[i].epoch = m.moves[i].epoch + 1 /\ n.moves[i].state = m.moves[i].state
                \/ /\ n.moves[i].epoch = m.moves[i].epoch
                   /\ LegalMigrationTransition(m.moves[i].state, n.moves[i].state)

\* No operation proposes a state that metaMachine.Apply refuses: a refused
\* entry would stop the metadata group for good.
EveryProposalApplies == [][ValidTransition(meta, meta')]_meta
============================================================================
