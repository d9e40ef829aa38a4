----------------------------- MODULE MetaProofs -----------------------------
(***************************************************************************)
(* Proofs about MetaRange, for any key space, nodes, replication factor    *)
(* and bootstrap catalog, and any number of splits and migrations.         *)
(*                                                                         *)
(* A cutover is right because of what was true when its record was made    *)
(* and stays true until then: the parent is still in the catalog with the  *)
(* bounds the children were cut from, the children's identities are still  *)
(* free, the target's node and identity are not among the replicas.  That  *)
(* it stays true is due to the rule that a range has at most one operation *)
(* at a time.                                                              *)
(***************************************************************************)
EXTENDS MetaRange, TLAPS

LiveSplits == {i \in DOMAIN meta.splits : SplitLive(meta.splits[i])}
LiveMoves == {i \in DOMAIN meta.moves : MoveLive(meta.moves[i])}
OpenMoves == {i \in DOMAIN meta.moves : meta.moves[i].state \in MPlanned .. MSourceRemoving}

RangeInv ==
  \A r \in DOMAIN meta.ranges :
    /\ meta.ranges[r].id = r /\ r < meta.nextRange
    /\ DistinctReplicas(meta.ranges[r])
    /\ \A j \in 1 .. RF : meta.ranges[r].reps[j].id < meta.nextReplica

\* The identities of children are handed out in order.
ChildInv ==
  /\ \A i \in DOMAIN meta.splits :
       /\ meta.splits[i].right.id = meta.splits[i].left.id + 1
       /\ meta.splits[i].right.id < meta.nextRange
  /\ \A i, j \in DOMAIN meta.splits : i < j => meta.splits[i].right.id < meta.splits[j].left.id

\* The children of split s are the descriptor d cut at the key.
Cuts(s, d) ==
  /\ s.pgen = d.gen /\ d.lo < s.key /\ s.key < d.hi
  /\ s.left.lo = d.lo /\ s.left.hi = s.key /\ s.right.lo = s.key /\ s.right.hi = d.hi
  /\ s.left.reps = d.reps /\ s.right.reps = d.reps

SplitOK(s) ==
  /\ s.parent \in DOMAIN meta.ranges /\ Cuts(s, meta.ranges[s.parent])
  /\ s.left.id \notin DOMAIN meta.ranges /\ s.right.id \notin DOMAIN meta.ranges

SplitInv == \A i \in LiveSplits : SplitOK(meta.splits[i])

\* The target of migration x is not yet among the replicas of d.
Adds(x, d) ==
  /\ x.rgen = d.gen
  /\ \A j \in 1 .. RF : d.reps[j].node # x.dstNode /\ d.reps[j].id # x.dst

MoveOK(x) ==
  x.range \in DOMAIN meta.ranges /\ Adds(x, meta.ranges[x.range]) /\ x.dst < meta.nextReplica

MoveInv == \A i \in OpenMoves : MoveOK(meta.moves[i])

OneOperation ==
  /\ \A i, j \in LiveSplits : meta.splits[i].parent = meta.splits[j].parent => i = j
  /\ \A i, j \in LiveMoves : meta.moves[i].range = meta.moves[j].range => i = j
  /\ \A i \in LiveSplits, j \in LiveMoves : meta.splits[i].parent # meta.moves[j].range

MetaInv ==
  /\ MetaTypeOK /\ IsPartition(meta.ranges)
  /\ RangeInv /\ ChildInv /\ SplitInv /\ MoveInv /\ OneOperation
---------------------------------------------------------------------------
(* Facts about the records *)

\* Changing one record of a list leaves the others.
LEMMA ChangedElems ==
  ASSUME NEW S, NEW s \in Seq(S), NEW i \in DOMAIN s, NEW x \in S, NEW t,
         t = [s EXCEPT ![i] = x]
  PROVE  /\ t \in Seq(S) /\ Len(t) = Len(s) /\ DOMAIN t = DOMAIN s
         /\ t[i] = x /\ \A j \in DOMAIN s : j # i => t[j] = s[j]
  OBVIOUS

\* A new record goes to the end of the list.
LEMMA AddedElems ==
  ASSUME NEW S, NEW s \in Seq(S), NEW x \in S, NEW t, t = Append(s, x)
  PROVE  /\ t \in Seq(S) /\ Len(t) = Len(s) + 1 /\ DOMAIN t = DOMAIN s \cup {Len(s) + 1}
         /\ t[Len(s) + 1] = x /\ \A j \in DOMAIN s : t[j] = s[j] /\ j < Len(s) + 1
  OBVIOUS

\* An operation that leaves the catalog alone and changes one split's progress.
SplitStep(i, x) ==
  /\ meta'.splits = [meta.splits EXCEPT ![i] = x] /\ DOMAIN meta' = DOMAIN meta
  /\ meta'.gen = meta.gen /\ meta'.ranges = meta.ranges /\ meta'.moves = meta.moves
  /\ meta'.nextRange = meta.nextRange /\ meta'.nextReplica = meta.nextReplica

\* An operation that leaves the catalog alone and changes one migration's progress.
MoveStep(i, x) ==
  /\ meta'.moves = [meta.moves EXCEPT ![i] = x] /\ DOMAIN meta' = DOMAIN meta
  /\ meta'.gen = meta.gen /\ meta'.ranges = meta.ranges /\ meta'.splits = meta.splits
  /\ meta'.nextRange = meta.nextRange /\ meta'.nextReplica = meta.nextReplica

\* What each operation does to the fields of the record.
LEMMA BeginSplitShape ==
  ASSUME MetaTypeOK, NEW p, NEW k, BeginSplit(p, k)
  PROVE  /\ meta'.splits = Append(meta.splits, NewSplit(p, k))
         /\ meta'.nextRange = meta.nextRange + 2 /\ DOMAIN meta' = DOMAIN meta
         /\ meta'.gen = meta.gen /\ meta'.ranges = meta.ranges /\ meta'.moves = meta.moves
         /\ meta'.nextReplica = meta.nextReplica
  BY DEF BeginSplit, MetaTypeOK

LEMMA AdvanceSplitShape ==
  ASSUME MetaTypeOK, NEW i, NEW e, NEW to, NEW n, AdvanceSplit(i, e, to, n)
  PROVE  SplitStep(i, Advanced(meta.splits[i], to, n))
  BY DEF AdvanceSplit, MetaTypeOK, SplitStep

LEMMA TakeoverSplitShape ==
  ASSUME MetaTypeOK, NEW i, NEW e, TakeoverSplit(i, e)
  PROVE  SplitStep(i, [meta.splits[i] EXCEPT !.epoch = @ + 1])
  BY DEF TakeoverSplit, MetaTypeOK, SplitStep

LEMMA CommitSplitShape ==
  ASSUME MetaTypeOK, NEW i, NEW e, CommitSplit(i, e)
  PROVE  /\ meta'.splits = [meta.splits EXCEPT ![i] = [meta.splits[i] EXCEPT !.state = Committed]]
         /\ meta'.ranges = Divided(meta.ranges, meta.splits[i])
         /\ meta'.gen = meta.gen + 1 /\ DOMAIN meta' = DOMAIN meta /\ meta'.moves = meta.moves
         /\ meta'.nextRange = meta.nextRange /\ meta'.nextReplica = meta.nextReplica
  BY DEF CommitSplit, MetaTypeOK

LEMMA BeginMigrationShape ==
  ASSUME MetaTypeOK, NEW r, NEW j, NEW n, BeginMigration(r, j, n)
  PROVE  /\ meta'.moves = Append(meta.moves, NewMigration(r, j, n))
         /\ meta'.nextReplica = meta.nextReplica + 1 /\ DOMAIN meta' = DOMAIN meta
         /\ meta'.gen = meta.gen /\ meta'.ranges = meta.ranges /\ meta'.splits = meta.splits
         /\ meta'.nextRange = meta.nextRange
  BY DEF BeginMigration, MetaTypeOK

LEMMA AdvanceMigrationShape ==
  ASSUME MetaTypeOK, NEW i, NEW e, NEW to, NEW n, AdvanceMigration(i, e, to, n)
  PROVE  MoveStep(i, MovedOn(meta.moves[i], to, n))
  BY DEF AdvanceMigration, MetaTypeOK, MoveStep

LEMMA TakeoverMigrationShape ==
  ASSUME MetaTypeOK, NEW i, NEW e, TakeoverMigration(i, e)
  PROVE  MoveStep(i, [meta.moves[i] EXCEPT !.epoch = @ + 1])
  BY DEF TakeoverMigration, MetaTypeOK, MoveStep

LEMMA CommitMigrationShape ==
  ASSUME MetaTypeOK, NEW i, NEW e, CommitMigration(i, e)
  PROVE  /\ meta'.moves = [meta.moves EXCEPT ![i] = [meta.moves[i] EXCEPT !.state = MCommitted]]
         /\ meta'.ranges = [meta.ranges EXCEPT ![meta.moves[i].range] =
                              Relocated(meta.ranges[meta.moves[i].range], meta.moves[i])]
         /\ meta'.gen = meta.gen + 1 /\ DOMAIN meta' = DOMAIN meta /\ meta'.splits = meta.splits
         /\ meta'.nextRange = meta.nextRange /\ meta'.nextReplica = meta.nextReplica
  BY DEF CommitMigration, MetaTypeOK

\* monotonicUint64 yields an index.
LEMMA LargerNat == ASSUME NEW i \in Nat, NEW j \in Nat PROVE Larger(i, j) \in Nat
  BY DEF Larger

\* Progress of a split changes nothing about what is split.
LEMMA AdvancedRecord ==
  ASSUME NEW s \in SplitRecords, NEW to \in Preparing .. Aborted, NEW n \in Nat
  PROVE  /\ Advanced(s, to, n) \in SplitRecords /\ Advanced(s, to, n).state = to
         /\ Advanced(s, to, n).parent = s.parent /\ Advanced(s, to, n).pgen = s.pgen
         /\ Advanced(s, to, n).key = s.key /\ Advanced(s, to, n).left = s.left
         /\ Advanced(s, to, n).right = s.right /\ Advanced(s, to, n).epoch = s.epoch
<1> DEFINE a == [s EXCEPT !.state = to]
           b == [a EXCEPT !.boot = IF to = Copying /\ n # 0 THEN n ELSE @]
           c == [b EXCEPT !.fence = IF to = Fenced /\ n # 0 THEN n ELSE @]
           d == [c EXCEPT !.thru = IF to \in {CatchingUp, Ready, Fenced} THEN Larger(@, n) ELSE @]
<1>1. a \in SplitRecords
  BY DEF SplitRecords
<1>2. b \in SplitRecords
  <2> HIDE DEF a
  <2> QED
    BY <1>1 DEF SplitRecords
<1>3. c \in SplitRecords
  <2> HIDE DEF b
  <2> QED
    BY <1>2 DEF SplitRecords
<1>4. d \in SplitRecords
  <2> HIDE DEF c
  <2> QED
    BY <1>3, LargerNat DEF SplitRecords
<1>5. Advanced(s, to, n) = d
  BY DEF Advanced
<1>6. /\ Advanced(s, to, n).state = to
      /\ Advanced(s, to, n).parent = s.parent /\ Advanced(s, to, n).pgen = s.pgen
      /\ Advanced(s, to, n).key = s.key /\ Advanced(s, to, n).left = s.left
      /\ Advanced(s, to, n).right = s.right /\ Advanced(s, to, n).epoch = s.epoch
  BY DEF Advanced, SplitRecords
<1> QED
  BY <1>4, <1>5, <1>6

\* Progress of a migration changes nothing about what is moved.
LEMMA MovedOnRecord ==
  ASSUME NEW x \in MigrationRecords, NEW to \in MPlanned .. MAborted, NEW n \in Nat
  PROVE  /\ MovedOn(x, to, n) \in MigrationRecords /\ MovedOn(x, to, n).state = to
         /\ MovedOn(x, to, n).range = x.range /\ MovedOn(x, to, n).rgen = x.rgen
         /\ MovedOn(x, to, n).dst = x.dst /\ MovedOn(x, to, n).dstNode = x.dstNode
         /\ MovedOn(x, to, n).epoch = x.epoch
<1> DEFINE a == [x EXCEPT !.state = to]
           b == [a EXCEPT !.boot = IF to = MLearner THEN Larger(@, n) ELSE @]
           c == [b EXCEPT !.barrier = IF to = MReady THEN Larger(@, n) ELSE @]
           d == [c EXCEPT !.conf = IF to \in {MCatchingUp, MJoint, MSourceRemoving}
                                   THEN Larger(@, n) ELSE @]
<1>1. a \in MigrationRecords
  BY DEF MigrationRecords
<1>2. b \in MigrationRecords
  <2> HIDE DEF a
  <2> QED
    BY <1>1, LargerNat DEF MigrationRecords
<1>3. c \in MigrationRecords
  <2> HIDE DEF b
  <2> QED
    BY <1>2, LargerNat DEF MigrationRecords
<1>4. d \in MigrationRecords
  <2> HIDE DEF c
  <2> QED
    BY <1>3, LargerNat DEF MigrationRecords
<1>5. MovedOn(x, to, n) = d
  BY DEF MovedOn
<1>6. /\ MovedOn(x, to, n).state = to
      /\ MovedOn(x, to, n).range = x.range /\ MovedOn(x, to, n).rgen = x.rgen
      /\ MovedOn(x, to, n).dst = x.dst /\ MovedOn(x, to, n).dstNode = x.dstNode
      /\ MovedOn(x, to, n).epoch = x.epoch
  BY DEF MovedOn, MigrationRecords
<1> QED
  BY <1>4, <1>5, <1>6

\* The commits change the state of the record and nothing else.
LEMMA CommittedRecord ==
  ASSUME NEW s \in SplitRecords
  PROVE  LET x == [s EXCEPT !.state = Committed] IN
         /\ x \in SplitRecords /\ x.state = Committed /\ x.parent = s.parent /\ x.pgen = s.pgen
         /\ x.key = s.key /\ x.left = s.left /\ x.right = s.right /\ x.epoch = s.epoch
<1>1. Committed \in Preparing .. Aborted
  BY DEF Preparing, Committed, Aborted
<1> QED
  BY <1>1 DEF SplitRecords

LEMMA CommittedMove ==
  ASSUME NEW m \in MigrationRecords
  PROVE  LET x == [m EXCEPT !.state = MCommitted] IN
         /\ x \in MigrationRecords /\ x.state = MCommitted /\ x.range = m.range
         /\ x.epoch = m.epoch
<1>1. MCommitted \in MPlanned .. MAborted
  BY DEF MPlanned, MCommitted, MAborted
<1> QED
  BY <1>1 DEF MigrationRecords

\* The takeovers raise the epoch of the record and change nothing else.
LEMMA TakenOverRecord ==
  ASSUME NEW s \in SplitRecords
  PROVE  LET x == [s EXCEPT !.epoch = @ + 1] IN
         /\ x \in SplitRecords /\ x.state = s.state /\ x.parent = s.parent /\ x.pgen = s.pgen
         /\ x.key = s.key /\ x.left = s.left /\ x.right = s.right /\ x.epoch = s.epoch + 1
<1>1. s.epoch + 1 \in Nat
  BY DEF SplitRecords
<1> QED
  BY <1>1 DEF SplitRecords

LEMMA TakenOverMove ==
  ASSUME NEW m \in MigrationRecords
  PROVE  LET x == [m EXCEPT !.epoch = @ + 1] IN
         /\ x \in MigrationRecords /\ x.state = m.state /\ x.range = m.range /\ x.rgen = m.rgen
         /\ x.dst = m.dst /\ x.dstNode = m.dstNode /\ x.epoch = m.epoch + 1
<1>1. m.epoch + 1 \in Nat
  BY DEF MigrationRecords
<1> QED
  BY <1>1 DEF MigrationRecords
---------------------------------------------------------------------------
(* The steps that leave the catalog alone *)

\* A split that moves on, is taken over or gives up.
LEMMA SplitStepInv ==
  ASSUME MetaInv, NEW i \in DOMAIN meta.splits, NEW x \in SplitRecords, SplitStep(i, x),
         x.parent = meta.splits[i].parent, x.pgen = meta.splits[i].pgen,
         x.key = meta.splits[i].key, x.left = meta.splits[i].left, x.right = meta.splits[i].right,
         SplitLive(x) => SplitLive(meta.splits[i])
  PROVE  MetaInv'
<1>1. meta.splits \in Seq(SplitRecords)
  BY DEF MetaInv, MetaTypeOK
<1>2. /\ meta'.splits \in Seq(SplitRecords) /\ DOMAIN meta'.splits = DOMAIN meta.splits
      /\ meta'.splits[i] = x
      /\ \A j \in DOMAIN meta.splits : j # i => meta'.splits[j] = meta.splits[j]
  BY <1>1, ChangedElems DEF SplitStep
<1>3. MetaTypeOK'
  BY <1>2 DEF MetaInv, MetaTypeOK, SplitStep
<1>4. \A j \in DOMAIN meta.splits :
        /\ meta'.splits[j].parent = meta.splits[j].parent
        /\ meta'.splits[j].pgen = meta.splits[j].pgen /\ meta'.splits[j].key = meta.splits[j].key
        /\ meta'.splits[j].left = meta.splits[j].left /\ meta'.splits[j].right = meta.splits[j].right
        /\ SplitLive(meta'.splits[j]) => SplitLive(meta.splits[j])
  BY <1>2
<1>5. LiveSplits' \subseteq LiveSplits
  BY <1>2, <1>4 DEF LiveSplits
<1>6. LiveMoves' = LiveMoves /\ OpenMoves' = OpenMoves
  BY DEF LiveMoves, OpenMoves, SplitStep
<1>7. (IsPartition(meta.ranges) /\ RangeInv /\ MoveInv)'
  BY <1>6 DEF MetaInv, RangeInv, MoveInv, MoveOK, SplitStep
<1>8. ChildInv'
  <2>1. ChildInv /\ meta'.nextRange = meta.nextRange
    BY DEF MetaInv, SplitStep
  <2>2. /\ DOMAIN meta'.splits = DOMAIN meta.splits
        /\ \A j \in DOMAIN meta.splits :
             /\ meta'.splits[j].left.id = meta.splits[j].left.id
             /\ meta'.splits[j].right.id = meta.splits[j].right.id
    BY <1>2, <1>4
  <2> QED
    BY <2>1, <2>2 DEF ChildInv
<1>9. LiveSplits \subseteq DOMAIN meta.splits
  BY DEF LiveSplits
<1>10. SplitInv'
  <2>1. ASSUME NEW j \in LiveSplits' PROVE SplitOK(meta.splits[j])'
    <3>1. j \in DOMAIN meta.splits /\ meta'.ranges = meta.ranges /\ SplitOK(meta.splits[j])
      BY <1>5, <1>9 DEF SplitStep, MetaInv, SplitInv
    <3> QED
      BY <1>4, <3>1 DEF SplitOK, Cuts
  <2> QED
    BY <2>1 DEF SplitInv
<1>11. OneOperation'
  BY <1>4, <1>5, <1>6, <1>9 DEF MetaInv, OneOperation, SplitStep
<1> QED
  BY <1>3, <1>7, <1>8, <1>10, <1>11 DEF MetaInv

\* A migration that moves on, is taken over or gives up.
LEMMA MoveStepInv ==
  ASSUME MetaInv, NEW i \in DOMAIN meta.moves, NEW x \in MigrationRecords, MoveStep(i, x),
         x.range = meta.moves[i].range, x.rgen = meta.moves[i].rgen,
         x.dst = meta.moves[i].dst, x.dstNode = meta.moves[i].dstNode,
         MoveLive(x) => MoveLive(meta.moves[i]),
         x.state \in MPlanned .. MSourceRemoving => meta.moves[i].state \in MPlanned .. MSourceRemoving
  PROVE  MetaInv'
<1>1. meta.moves \in Seq(MigrationRecords)
  BY DEF MetaInv, MetaTypeOK
<1>2. /\ meta'.moves \in Seq(MigrationRecords) /\ DOMAIN meta'.moves = DOMAIN meta.moves
      /\ meta'.moves[i] = x
      /\ \A j \in DOMAIN meta.moves : j # i => meta'.moves[j] = meta.moves[j]
  BY <1>1, ChangedElems DEF MoveStep
<1>3. MetaTypeOK'
  BY <1>2 DEF MetaInv, MetaTypeOK, MoveStep
<1>4. \A j \in DOMAIN meta.moves :
        /\ meta'.moves[j].range = meta.moves[j].range /\ meta'.moves[j].rgen = meta.moves[j].rgen
        /\ meta'.moves[j].dst = meta.moves[j].dst /\ meta'.moves[j].dstNode = meta.moves[j].dstNode
        /\ MoveLive(meta'.moves[j]) => MoveLive(meta.moves[j])
        /\ meta'.moves[j].state \in MPlanned .. MSourceRemoving =>
             meta.moves[j].state \in MPlanned .. MSourceRemoving
  BY <1>2
<1>5. LiveMoves' \subseteq LiveMoves /\ OpenMoves' \subseteq OpenMoves
  BY <1>2, <1>4 DEF LiveMoves, OpenMoves
<1>6. LiveSplits' = LiveSplits
  BY DEF LiveSplits, MoveStep
<1>7. (IsPartition(meta.ranges) /\ RangeInv /\ ChildInv /\ SplitInv)'
  BY <1>6 DEF MetaInv, RangeInv, ChildInv, SplitInv, SplitOK, MoveStep
<1>8. OpenMoves \subseteq DOMAIN meta.moves /\ LiveMoves \subseteq DOMAIN meta.moves
  BY DEF OpenMoves, LiveMoves
<1>9. MoveInv'
  <2>1. ASSUME NEW j \in OpenMoves' PROVE MoveOK(meta.moves[j])'
    <3>1. /\ j \in DOMAIN meta.moves /\ MoveOK(meta.moves[j])
          /\ meta'.ranges = meta.ranges /\ meta'.nextReplica = meta.nextReplica
      BY <1>5, <1>8 DEF MoveStep, MetaInv, MoveInv
    <3> QED
      BY <1>4, <3>1, ZenonT(60) DEF MoveOK, Adds
  <2> QED
    BY <2>1 DEF MoveInv
<1>10. OneOperation'
  BY <1>4, <1>5, <1>6, <1>8 DEF MetaInv, OneOperation, MoveStep
<1> QED
  BY <1>3, <1>7, <1>9, <1>10 DEF MetaInv

\* A new split takes two fresh range identities.
LEMMA BeginSplitInv ==
  ASSUME MetaInv, NEW p \in DOMAIN meta.ranges, NEW k \in Keys, BeginSplit(p, k)
  PROVE  MetaInv'
<1>x. PICK d, x, n : d = meta.ranges[p] /\ x = NewSplit(p, k) /\ n = Len(meta.splits) + 1
  OBVIOUS
<1>1. /\ meta'.splits = Append(meta.splits, x)
      /\ meta'.nextRange = meta.nextRange + 2 /\ DOMAIN meta' = DOMAIN meta
      /\ meta'.gen = meta.gen /\ meta'.ranges = meta.ranges /\ meta'.moves = meta.moves
      /\ meta'.nextReplica = meta.nextReplica
  BY <1>x, BeginSplitShape DEF MetaInv
<1>2. /\ d \in Descriptors /\ p \in Nat /\ meta.nextRange \in Nat /\ MayBeginSplit(p, k)
      /\ meta.splits \in Seq(SplitRecords) /\ k \in 0 .. Top
  BY <1>x, MetaAssumption DEF MetaInv, MetaTypeOK, BeginSplit, Keys
<1>3. /\ x.left = [id |-> meta.nextRange, gen |-> 1, lo |-> d.lo, hi |-> k, reps |-> d.reps]
      /\ x.right = [id |-> meta.nextRange + 1, gen |-> 1, lo |-> k, hi |-> d.hi, reps |-> d.reps]
      /\ x.parent = p /\ x.pgen = d.gen /\ x.key = k
      /\ x = [parent |-> p, pgen |-> d.gen, key |-> k, left |-> x.left, right |-> x.right,
              epoch |-> 1, state |-> Preparing, boot |-> 0, fence |-> 0, thru |-> 0]
  BY <1>2, <1>x, Zenon DEF NewSplit, Descriptors
<1>4. x.left \in Descriptors /\ x.right \in Descriptors
  BY <1>2, <1>3 DEF Descriptors
<1>5. x \in SplitRecords
  BY <1>2, <1>3, <1>4 DEF SplitRecords, Preparing, Aborted, Descriptors
<1>6. /\ meta'.splits \in Seq(SplitRecords) /\ DOMAIN meta'.splits = DOMAIN meta.splits \cup {n}
      /\ meta'.splits[n] = x /\ n \notin DOMAIN meta.splits
      /\ \A j \in DOMAIN meta.splits : meta'.splits[j] = meta.splits[j] /\ j < n
      /\ n \in Nat /\ DOMAIN meta.splits \subseteq Nat
  BY <1>1, <1>2, <1>5, <1>x, AddedElems
<1>7. MetaTypeOK'
  BY <1>1, <1>6 DEF MetaInv, MetaTypeOK
<1>8. LiveSplits' \subseteq LiveSplits \cup {n} /\ LiveSplits \subseteq DOMAIN meta.splits
  BY <1>6 DEF LiveSplits
<1>9. LiveMoves' = LiveMoves /\ OpenMoves' = OpenMoves
  BY <1>1 DEF LiveMoves, OpenMoves
<1>10. IsPartition(meta.ranges)' /\ MoveInv'
  BY <1>1, <1>9 DEF MetaInv, MoveInv, MoveOK
<1>11. RangeInv'
  BY <1>1, <1>2 DEF MetaInv, RangeInv, MetaTypeOK
<1>12. ChildInv'
  <2>1. x.left.id = meta.nextRange /\ x.right.id = meta.nextRange + 1
    BY <1>3
  <2>2. \A j \in DOMAIN meta.splits : meta.splits[j] \in SplitRecords
    BY <1>2
  <2>3. \A j \in DOMAIN meta.splits :
          meta.splits[j].left.id \in Nat /\ meta.splits[j].right.id \in Nat
    BY <2>2, Zenon DEF SplitRecords, Descriptors
  <2>4. ChildInv
    BY DEF MetaInv
  <2>5. ASSUME NEW j \in DOMAIN meta'.splits
        PROVE  /\ meta'.splits[j].right.id = meta'.splits[j].left.id + 1
               /\ meta'.splits[j].right.id < meta'.nextRange
    <3>1. CASE j = n
      <4>1. meta'.splits[j] = x
        BY <1>6, <3>1
      <4> QED
        BY <1>1, <1>2, <2>1, <4>1
    <3>2. CASE j \in DOMAIN meta.splits
      <4>1. meta'.splits[j] = meta.splits[j]
        BY <1>6, <3>2
      <4>2. /\ meta.splits[j].right.id = meta.splits[j].left.id + 1
            /\ meta.splits[j].right.id < meta.nextRange
        BY <2>4, <3>2 DEF ChildInv
      <4>3. meta'.nextRange = meta.nextRange + 2 /\ meta.nextRange \in Nat
        BY <1>1, <1>2
      <4> QED
        BY <2>3, <3>2, <4>1, <4>2, <4>3
    <3> QED
      BY <1>6, <3>1, <3>2
  <2>6. ASSUME NEW i \in DOMAIN meta'.splits, NEW j \in DOMAIN meta'.splits, i < j
        PROVE  meta'.splits[i].right.id < meta'.splits[j].left.id
    <3>1. i \in DOMAIN meta.splits /\ meta'.splits[i] = meta.splits[i]
      BY <1>6, <2>6
    <3>2. CASE j = n
      BY <1>2, <1>6, <2>1, <2>3, <2>4, <3>1, <3>2 DEF ChildInv
    <3>3. CASE j \in DOMAIN meta.splits
      BY <1>6, <2>4, <2>6, <3>1, <3>3 DEF ChildInv
    <3> QED
      BY <1>6, <3>2, <3>3
  <2> QED
    BY <2>5, <2>6 DEF ChildInv
<1>13. SplitInv'
  <2>1. ASSUME NEW j \in LiveSplits, meta'.splits[j] = meta.splits[j]
        PROVE  SplitOK(meta.splits[j])'
    BY <1>1, <2>1 DEF MetaInv, SplitInv, SplitOK
  <2>2. SplitOK(meta.splits[n])'
    <3>1. Cuts(x, d)
      BY <1>x, <1>2, <1>3 DEF Cuts, MayBeginSplit, StrictInterior
    <3>2. meta.nextRange \notin DOMAIN meta.ranges /\ meta.nextRange + 1 \notin DOMAIN meta.ranges
      BY <1>2 DEF MetaInv, RangeInv, MetaTypeOK
    <3>3. x.parent = p /\ x.left.id = meta.nextRange /\ x.right.id = meta.nextRange + 1
      BY <1>3
    <3> QED
      BY <1>x, <1>1, <1>6, <3>1, <3>2, <3>3 DEF SplitOK
  <2> QED
    BY <1>6, <1>8, <2>1, <2>2 DEF SplitInv
<1>14. OneOperation'
  <2>1. \A j \in LiveSplits : meta.splits[j].parent # p
    BY <1>2 DEF MetaInv, SplitInv, SplitOK, Cuts, LiveSplits, MayBeginSplit
  <2>2. \A j \in LiveMoves : meta.moves[j].range # p
    BY <1>2 DEF LiveMoves, MayBeginSplit
  <2>3. meta'.splits[n].parent = p
    BY <1>3, <1>6
  <2> QED
    BY <1>1, <1>6, <1>8, <1>9, <2>1, <2>2, <2>3 DEF MetaInv, OneOperation
<1> QED
  BY <1>7, <1>10, <1>11, <1>12, <1>13, <1>14 DEF MetaInv

\* A new migration takes a fresh replica identity and a node the range is not on.
LEMMA BeginMigrationInv ==
  ASSUME MetaInv, NEW r \in DOMAIN meta.ranges, NEW j \in 1 .. RF, NEW m \in Nodes,
         BeginMigration(r, j, m)
  PROVE  MetaInv'
<1>x. PICK d, x, n : d = meta.ranges[r] /\ x = NewMigration(r, j, m) /\ n = Len(meta.moves) + 1
  OBVIOUS
<1>1. /\ meta'.moves = Append(meta.moves, x)
      /\ meta'.nextReplica = meta.nextReplica + 1 /\ DOMAIN meta' = DOMAIN meta
      /\ meta'.gen = meta.gen /\ meta'.ranges = meta.ranges /\ meta'.splits = meta.splits
      /\ meta'.nextRange = meta.nextRange
  BY <1>x, BeginMigrationShape DEF MetaInv
<1>2. /\ d \in Descriptors /\ r \in Nat /\ meta.nextReplica \in Nat /\ MayBeginMigration(r, j, m)
      /\ meta.moves \in Seq(MigrationRecords) /\ MetaTypeOK /\ RangeInv
  BY <1>x DEF MetaInv, MetaTypeOK, BeginMigration
<1>3. d.reps[j].id \in Nat /\ d.reps[j].node \in Nodes /\ d.gen \in Nat
  BY <1>2, Zenon DEF Descriptors, Replicas
<1>4. /\ x \in MigrationRecords /\ x.range = r /\ x.rgen = d.gen /\ x.dst = meta.nextReplica
      /\ x.dstNode = m
  BY <1>x, <1>2, <1>3 DEF NewMigration, MigrationRecords, MPlanned, MAborted
<1>5. /\ meta'.moves \in Seq(MigrationRecords) /\ DOMAIN meta'.moves = DOMAIN meta.moves \cup {n}
      /\ meta'.moves[n] = x /\ n \notin DOMAIN meta.moves
      /\ \A i \in DOMAIN meta.moves : meta'.moves[i] = meta.moves[i]
  BY <1>1, <1>2, <1>4, <1>x, AddedElems
<1>6. MetaTypeOK'
  BY <1>1, <1>2, <1>5 DEF MetaTypeOK
<1>7. /\ LiveMoves' \subseteq LiveMoves \cup {n} /\ LiveMoves \subseteq DOMAIN meta.moves
      /\ OpenMoves' \subseteq OpenMoves \cup {n} /\ OpenMoves \subseteq DOMAIN meta.moves
  BY <1>5 DEF LiveMoves, OpenMoves
<1>8. LiveSplits' = LiveSplits
  BY <1>1 DEF LiveSplits
<1>9. IsPartition(meta.ranges)' /\ ChildInv' /\ SplitInv'
  BY <1>1, <1>8 DEF MetaInv, ChildInv, SplitInv, SplitOK
<1>10. \A q \in DOMAIN meta.ranges : \A k \in 1 .. RF :
         meta.ranges[q].reps[k].id \in Nat /\ meta.ranges[q].reps[k].id < meta.nextReplica
  <2>1. ASSUME NEW q \in DOMAIN meta.ranges, NEW k \in 1 .. RF
        PROVE  meta.ranges[q].reps[k].id \in Nat
    <3>1. meta.ranges[q].reps[k] \in Replicas
      BY <1>2, Zenon DEF MetaTypeOK, Descriptors
    <3> QED
      BY <3>1 DEF Replicas
  <2> QED
    BY <1>2, <2>1 DEF RangeInv
<1>11. RangeInv'
  BY <1>1, <1>2, <1>10 DEF RangeInv
<1>12. MoveInv'
  <2>1. ASSUME NEW i \in OpenMoves PROVE MoveOK(meta.moves[i])'
    <3>1. /\ MoveOK(meta.moves[i]) /\ meta'.moves[i] = meta.moves[i]
          /\ meta.moves[i] \in MigrationRecords
      BY <1>2, <1>5, <1>7 DEF MetaInv, MoveInv
    <3>2. meta.moves[i].dst \in Nat
      BY <3>1 DEF MigrationRecords
    <3> QED
      BY <1>1, <1>2, <3>1, <3>2 DEF MoveOK
  <2>2. MoveOK(meta.moves[n])'
    <3>1. \A k \in 1 .. RF : d.reps[k].node # m /\ d.reps[k].id # meta.nextReplica
      BY <1>x, <1>2, <1>10 DEF MayBeginMigration
    <3>2. Adds(x, d)
      BY <1>4, <3>1 DEF Adds
    <3> QED
      BY <1>x, <1>1, <1>2, <1>4, <1>5, <3>2 DEF MoveOK
  <2> QED
    BY <1>7, <2>1, <2>2 DEF MoveInv
<1>13. OneOperation'
  <2>1. \A i \in LiveSplits : meta.splits[i].parent # r
    BY <1>2 DEF LiveSplits, MayBeginMigration
  <2>2. \A i \in LiveMoves : meta.moves[i].range # r
    BY <1>2 DEF LiveMoves, MayBeginMigration
  <2>3. meta'.moves[n].range = r
    BY <1>4, <1>5
  <2> QED
    BY <1>1, <1>5, <1>7, <1>8, <2>1, <2>2, <2>3 DEF MetaInv, OneOperation
<1> QED
  BY <1>6, <1>9, <1>11, <1>12, <1>13 DEF MetaInv
---------------------------------------------------------------------------
(* The cutovers *)

\* Cutting a range of a partition in two under free identities leaves a partition.
LEMMA DividedIsPartition ==
  ASSUME NEW ranges, NEW s \in SplitRecords, IsPartition(ranges), DOMAIN ranges \subseteq Nat,
         \A r \in DOMAIN ranges : ranges[r] \in Descriptors,
         s.parent \in DOMAIN ranges, Cuts(s, ranges[s.parent]),
         s.left.id \notin DOMAIN ranges, s.right.id \notin DOMAIN ranges, s.left.id # s.right.id
  PROVE  IsPartition(Divided(ranges, s))
<1> DEFINE new == Divided(ranges, s)
           d == ranges[s.parent]
<1>1. /\ DOMAIN new = (DOMAIN ranges \ {s.parent}) \cup {s.left.id, s.right.id}
      /\ new[s.left.id] = s.left /\ new[s.right.id] = s.right
      /\ \A r \in DOMAIN ranges \ {s.parent} : new[r] = ranges[r]
  BY DEF Divided
<1>2. /\ d.lo \in Int /\ d.hi \in Int /\ s.key \in Int
      /\ \A k \in Int : Contains(d, k) <=> Contains(s.left, k) \/ Contains(s.right, k)
      /\ \A k \in Int : ~(Contains(s.left, k) /\ Contains(s.right, k))
  <2>1. d \in Descriptors /\ s.key \in 1 .. Top - 1
    BY DEF SplitRecords, Keys
  <2>2. d.lo \in 0 .. Top /\ d.hi \in 0 .. Top
    BY <2>1 DEF Descriptors
  <2>3. /\ d.lo < s.key /\ s.key < d.hi /\ s.left.lo = d.lo /\ s.left.hi = s.key
        /\ s.right.lo = s.key /\ s.right.hi = d.hi
    BY DEF Cuts
  <2> HIDE DEF d
  <2> QED
    BY <2>1, <2>2, <2>3 DEF Contains
<1> HIDE DEF new, d
<1>3. ASSUME NEW k \in 0 .. Top - 1
      PROVE  \E r \in DOMAIN new :
               Contains(new[r], k) /\ \A q \in DOMAIN new : Contains(new[q], k) => q = r
  <2>1. PICK r \in DOMAIN ranges :
          Contains(ranges[r], k) /\ \A q \in DOMAIN ranges : Contains(ranges[q], k) => q = r
    BY DEF IsPartition
  <2>2. CASE r # s.parent
    <3>1. ~Contains(s.left, k) /\ ~Contains(s.right, k)
      BY <1>2, <2>1, <2>2 DEF d
    <3> QED
      BY <1>1, <2>1, <2>2, <3>1
  <2>3. CASE r = s.parent
    <3>1. \A q \in DOMAIN ranges \ {s.parent} : ~Contains(new[q], k)
      BY <1>1, <2>1, <2>3
    <3>2. Contains(s.left, k) \/ Contains(s.right, k)
      BY <1>2, <2>1, <2>3 DEF d
    <3> QED
      BY <1>1, <1>2, <3>1, <3>2
  <2> QED
    BY <2>2, <2>3
<1> QED
  BY <1>3 DEF IsPartition, new

\* The cutover of a split: the parent is the range its children were cut from.
LEMMA CommitSplitInv ==
  ASSUME MetaInv, NEW i \in DOMAIN meta.splits, NEW e, CommitSplit(i, e)
  PROVE  MetaInv'
<1>x. PICK s, x, d : /\ s = meta.splits[i] /\ x = [s EXCEPT !.state = Committed]
                     /\ d = meta.ranges[s.parent]
  BY Zenon
<1>1. /\ meta'.splits = [meta.splits EXCEPT ![i] = x]
      /\ meta'.ranges = Divided(meta.ranges, s)
      /\ meta'.gen = meta.gen + 1 /\ DOMAIN meta' = DOMAIN meta /\ meta'.moves = meta.moves
      /\ meta'.nextRange = meta.nextRange /\ meta'.nextReplica = meta.nextReplica
  BY <1>x, CommitSplitShape DEF MetaInv
<1>2. /\ meta.splits \in Seq(SplitRecords) /\ s \in SplitRecords /\ s.state = Fenced
      /\ MetaTypeOK /\ RangeInv /\ ChildInv /\ OneOperation
  BY <1>x DEF MetaInv, MetaTypeOK, CommitSplit, MayCommitSplit
<1>3. i \in LiveSplits /\ SplitOK(s)
  BY <1>x, <1>2 DEF LiveSplits, SplitLive, MetaInv, SplitInv, Fenced, Committed, Aborted
<1>4. /\ x \in SplitRecords /\ x.state = Committed /\ x.parent = s.parent /\ x.pgen = s.pgen
      /\ x.key = s.key /\ x.left = s.left /\ x.right = s.right
  BY <1>x, <1>2, CommittedRecord
<1>5. /\ meta'.splits \in Seq(SplitRecords) /\ DOMAIN meta'.splits = DOMAIN meta.splits
      /\ meta'.splits[i] = x
      /\ \A j \in DOMAIN meta.splits : j # i => meta'.splits[j] = meta.splits[j]
  BY <1>1, <1>2, <1>4, ChangedElems
<1>6. LiveSplits' = LiveSplits \ {i} /\ LiveSplits \subseteq DOMAIN meta.splits
  BY <1>4, <1>5 DEF LiveSplits, SplitLive
<1>7. LiveMoves' = LiveMoves /\ OpenMoves' = OpenMoves /\ OpenMoves \subseteq LiveMoves
  BY <1>1 DEF LiveMoves, OpenMoves, MoveLive, MPlanned, MSourceRemoving, MSourceRetired, MAborted
<1>8. /\ s.left \in Descriptors /\ s.right \in Descriptors /\ s.left.id \in Nat /\ s.right.id \in Nat
      /\ s.right.id = s.left.id + 1 /\ s.right.id < meta.nextRange /\ meta.nextRange \in Nat
  <2>1. s.left \in Descriptors /\ s.right \in Descriptors
    BY <1>2 DEF SplitRecords
  <2> QED
    BY <1>x, <1>2, <2>1, Zenon DEF Descriptors, ChildInv, MetaTypeOK
<1>9. /\ DOMAIN meta'.ranges = (DOMAIN meta.ranges \ {s.parent}) \cup {s.left.id, s.right.id}
      /\ meta'.ranges[s.left.id] = s.left /\ meta'.ranges[s.right.id] = s.right
      /\ \A r \in DOMAIN meta.ranges \ {s.parent} : meta'.ranges[r] = meta.ranges[r]
  <2>1. /\ s.parent \in DOMAIN meta.ranges /\ s.left.id \notin DOMAIN meta.ranges
        /\ s.right.id \notin DOMAIN meta.ranges /\ s.left.id # s.right.id
    BY <1>3, <1>8 DEF SplitOK
  <2> QED
    BY <1>1, <2>1 DEF Divided
<1>10. MetaTypeOK'
  <2>1. \A r \in DOMAIN meta'.ranges : r \in Nat /\ meta'.ranges[r] \in Descriptors
    BY <1>2, <1>8, <1>9 DEF MetaTypeOK
  <2>2. /\ DOMAIN meta' = {"gen", "ranges", "splits", "moves", "nextRange", "nextReplica"}
        /\ meta'.gen \in Nat /\ meta'.nextRange \in Nat /\ meta'.nextReplica \in Nat
        /\ meta'.splits \in Seq(SplitRecords) /\ meta'.moves \in Seq(MigrationRecords)
    BY <1>1, <1>2, <1>5 DEF MetaTypeOK
  <2> QED
    BY <2>1, <2>2 DEF MetaTypeOK
<1>11. IsPartition(meta.ranges)'
  <2>1. s.left.id # s.right.id
    BY <1>8
  <2> QED
    BY <1>1, <1>2, <1>3, <2>1, DividedIsPartition DEF MetaInv, MetaTypeOK, SplitOK
<1>12. RangeInv'
  <2>1. s.left.reps = d.reps /\ s.right.reps = d.reps /\ s.parent \in DOMAIN meta.ranges
    BY <1>x, <1>3 DEF SplitOK, Cuts
  <2>2. DistinctReplicas(d) /\ \A j \in 1 .. RF : d.reps[j].id < meta.nextReplica
    BY <1>x, <1>2, <2>1, Zenon DEF RangeInv
  <2>3. DistinctReplicas(s.left) /\ DistinctReplicas(s.right)
    BY <2>1, <2>2 DEF DistinctReplicas
  <2>4. ASSUME NEW r \in DOMAIN meta'.ranges
        PROVE  /\ meta'.ranges[r].id = r /\ r < meta'.nextRange
               /\ DistinctReplicas(meta'.ranges[r])
               /\ \A j \in 1 .. RF : meta'.ranges[r].reps[j].id < meta'.nextReplica
    <3>1. CASE r = s.left.id
      BY <1>1, <1>8, <1>9, <2>1, <2>2, <2>3, <3>1
    <3>2. CASE r = s.right.id
      BY <1>1, <1>8, <1>9, <2>1, <2>2, <2>3, <3>2
    <3>3. CASE r \in DOMAIN meta.ranges \ {s.parent}
      BY <1>1, <1>2, <1>9, <3>3 DEF RangeInv
    <3> QED
      BY <1>9, <3>1, <3>2, <3>3
  <2> QED
    BY <2>4 DEF RangeInv
<1>13. ChildInv'
  BY <1>1, <1>2, <1>4, <1>5, <1>x DEF ChildInv
<1>14. SplitInv'
  <2>1. ASSUME NEW j \in LiveSplits, j # i PROVE SplitOK(meta.splits[j])'
    <3>1. PICK t : t = meta.splits[j]
      OBVIOUS
    <3>2. /\ j \in DOMAIN meta.splits /\ SplitOK(t) /\ t.parent # s.parent /\ meta'.splits[j] = t
          /\ t \in SplitRecords
      BY <1>x, <1>2, <1>3, <1>5, <1>6, <2>1, <3>1 DEF MetaInv, SplitInv, OneOperation
    <3>3. t.left.id \in Nat /\ t.right.id \in Nat /\ t.right.id = t.left.id + 1
      BY <1>2, <3>1, <3>2, Zenon DEF SplitRecords, Descriptors, ChildInv
    <3>4. s.right.id < t.left.id \/ t.right.id < s.left.id
      <4>1. i \in Nat /\ j \in Nat
        BY <1>2, <3>2
      <4>2. i < j \/ j < i
        BY <2>1, <4>1
      <4> QED
        BY <1>x, <1>2, <3>1, <3>2, <4>2 DEF ChildInv
    <3>5. {t.left.id, t.right.id} \cap {s.left.id, s.right.id} = {}
      BY <1>8, <3>3, <3>4
    <3>6. t.parent \in DOMAIN meta.ranges /\ Cuts(t, meta.ranges[t.parent])
          /\ t.left.id \notin DOMAIN meta.ranges /\ t.right.id \notin DOMAIN meta.ranges
      BY <3>2 DEF SplitOK
    <3>7. t.parent \in DOMAIN meta'.ranges /\ meta'.ranges[t.parent] = meta.ranges[t.parent]
          /\ t.left.id \notin DOMAIN meta'.ranges /\ t.right.id \notin DOMAIN meta'.ranges
      BY <1>9, <3>2, <3>5, <3>6, Zenon
    <3> QED
      BY <3>2, <3>6, <3>7 DEF SplitOK
  <2> QED
    BY <1>6, <2>1 DEF SplitInv
<1>15. MoveInv'
  <2>1. ASSUME NEW j \in OpenMoves PROVE MoveOK(meta.moves[j])'
    <3>1. /\ MoveOK(meta.moves[j]) /\ meta.moves[j].range # s.parent
          /\ meta'.moves[j] = meta.moves[j]
      BY <1>x, <1>1, <1>2, <1>3, <1>7 DEF MetaInv, MoveInv, OneOperation
    <3>2. /\ meta.moves[j].range \in DOMAIN meta'.ranges
          /\ meta'.ranges[meta.moves[j].range] = meta.ranges[meta.moves[j].range]
      BY <1>9, <3>1 DEF MoveOK
    <3> QED
      BY <1>1, <3>1, <3>2 DEF MoveOK
  <2> QED
    BY <1>7, <2>1 DEF MoveInv
<1>16. OneOperation'
  BY <1>1, <1>2, <1>5, <1>6, <1>7 DEF OneOperation
<1> QED
  BY <1>10, <1>11, <1>12, <1>13, <1>14, <1>15, <1>16 DEF MetaInv

\* Putting the target in the source's place keeps the replicas distinct.
LEMMA RelocatedDescriptor ==
  ASSUME NEW d \in Descriptors, NEW x \in MigrationRecords, Adds(x, d), DistinctReplicas(d)
  PROVE  /\ Relocated(d, x) \in Descriptors /\ DistinctReplicas(Relocated(d, x))
         /\ Relocated(d, x).id = d.id /\ Relocated(d, x).lo = d.lo /\ Relocated(d, x).hi = d.hi
         /\ \A j \in 1 .. RF : Relocated(d, x).reps[j] \in {d.reps[j], [id |-> x.dst, node |-> x.dstNode]}
<1>x. PICK t, reps : /\ t = [id |-> x.dst, node |-> x.dstNode]
                     /\ reps = [j \in 1 .. RF |-> IF d.reps[j].id = x.src THEN t ELSE d.reps[j]]
  BY Zenon
<1>1. t \in Replicas /\ t.id = x.dst /\ t.node = x.dstNode
  BY <1>x DEF Replicas, MigrationRecords
<1>2. \A j \in 1 .. RF : d.reps[j] \in Replicas
  BY Zenon DEF Descriptors
<1>3. /\ reps \in [1 .. RF -> Replicas] /\ \A j \in 1 .. RF : reps[j] \in {d.reps[j], t}
      /\ \A j \in 1 .. RF : reps[j] = IF d.reps[j].id = x.src THEN t ELSE d.reps[j]
  BY <1>x, <1>1, <1>2
<1> DEFINE a == [d EXCEPT !.gen = @ + 1]
           b == [a EXCEPT !.reps = reps]
<1>4. /\ Relocated(d, x) = b
  BY <1>x DEF Relocated
<1>5. /\ b \in Descriptors /\ b.reps = reps /\ b.id = d.id /\ b.lo = d.lo /\ b.hi = d.hi
  <2>1. a \in Descriptors /\ a.id = d.id /\ a.lo = d.lo /\ a.hi = d.hi
    BY DEF Descriptors
  <2> HIDE DEF a
  <2> QED
    BY <1>3, <2>1 DEF Descriptors
<1> HIDE DEF b
<1>6. \A i, j \in 1 .. RF : i # j => reps[i].id # reps[j].id /\ reps[i].node # reps[j].node
  BY <1>1, <1>3 DEF DistinctReplicas, Adds
<1> QED
  BY <1>x, <1>3, <1>4, <1>5, <1>6 DEF DistinctReplicas

\* The cutover of a migration: no split and no other migration is at work on
\* the range, so nothing else was computed from the descriptor it replaces.
LEMMA CommitMigrationInv ==
  ASSUME MetaInv, NEW i \in DOMAIN meta.moves, NEW e, CommitMigration(i, e)
  PROVE  MetaInv'
<1>x. PICK m, x, d, r : /\ m = meta.moves[i] /\ x = [m EXCEPT !.state = MCommitted]
                        /\ r = m.range /\ d = meta.ranges[r]
  BY Zenon
<1>1. /\ meta'.moves = [meta.moves EXCEPT ![i] = x]
      /\ meta'.ranges = [meta.ranges EXCEPT ![r] = Relocated(d, m)]
      /\ meta'.gen = meta.gen + 1 /\ DOMAIN meta' = DOMAIN meta /\ meta'.splits = meta.splits
      /\ meta'.nextRange = meta.nextRange /\ meta'.nextReplica = meta.nextReplica
  BY <1>x, CommitMigrationShape DEF MetaInv
<1>2. /\ meta.moves \in Seq(MigrationRecords) /\ m \in MigrationRecords
      /\ m.state = MSourceRemoving /\ r \in DOMAIN meta.ranges /\ d \in Descriptors
      /\ MetaTypeOK /\ RangeInv /\ OneOperation
  BY <1>x DEF MetaInv, MetaTypeOK, CommitMigration, MayCommitMigration
<1>3. i \in OpenMoves /\ MoveOK(m) /\ i \in LiveMoves
  BY <1>x, <1>2 DEF OpenMoves, LiveMoves, MoveLive, MetaInv, MoveInv, MPlanned, MSourceRemoving,
                    MSourceRetired, MAborted
<1>4. x \in MigrationRecords /\ x.state = MCommitted /\ x.range = r
  BY <1>x, <1>2, CommittedMove
<1>5. /\ meta'.moves \in Seq(MigrationRecords) /\ DOMAIN meta'.moves = DOMAIN meta.moves
      /\ meta'.moves[i] = x
      /\ \A j \in DOMAIN meta.moves : j # i => meta'.moves[j] = meta.moves[j]
  BY <1>1, <1>2, <1>4, ChangedElems
<1>6. /\ OpenMoves' = OpenMoves \ {i} /\ LiveMoves' = LiveMoves /\ OpenMoves \subseteq LiveMoves
      /\ LiveMoves \subseteq DOMAIN meta.moves
  <2>1. x.state \notin MPlanned .. MSourceRemoving /\ MoveLive(x)
    BY <1>4 DEF MoveLive, MPlanned, MSourceRemoving, MCommitted, MSourceRetired, MAborted
  <2>2. \A j \in DOMAIN meta.moves : meta.moves[j].state \in MPlanned .. MSourceRemoving => MoveLive(meta.moves[j])
    BY DEF MoveLive, MPlanned, MSourceRemoving, MSourceRetired, MAborted
  <2> QED
    BY <1>3, <1>5, <2>1, <2>2 DEF OpenMoves, LiveMoves
<1>7. LiveSplits' = LiveSplits
  BY <1>1 DEF LiveSplits
<1>8. Adds(m, d) /\ DistinctReplicas(d) /\ m.dst < meta.nextReplica /\ d.id = r
  BY <1>x, <1>2, <1>3 DEF MoveOK, RangeInv
<1>9. /\ Relocated(d, m) \in Descriptors /\ DistinctReplicas(Relocated(d, m))
      /\ Relocated(d, m).id = r /\ Relocated(d, m).lo = d.lo /\ Relocated(d, m).hi = d.hi
      /\ \A j \in 1 .. RF : Relocated(d, m).reps[j] \in {d.reps[j], [id |-> m.dst, node |-> m.dstNode]}
  BY <1>2, <1>8, RelocatedDescriptor
<1>10. /\ DOMAIN meta'.ranges = DOMAIN meta.ranges /\ meta'.ranges[r] = Relocated(d, m)
       /\ \A q \in DOMAIN meta.ranges : q # r => meta'.ranges[q] = meta.ranges[q]
  BY <1>1, <1>2
<1>11. MetaTypeOK'
  BY <1>1, <1>2, <1>5, <1>9, <1>10 DEF MetaTypeOK
<1>12. IsPartition(meta.ranges)'
  <2>1. \A q \in DOMAIN meta.ranges : \A k : Contains(meta'.ranges[q], k) <=> Contains(meta.ranges[q], k)
    BY <1>x, <1>9, <1>10, ZenonT(60) DEF Contains
  <2> QED
    BY <1>10, <2>1 DEF MetaInv, IsPartition
<1>13. RangeInv'
  <2>1. \A j \in 1 .. RF : Relocated(d, m).reps[j].id < meta.nextReplica
    <3>1. \A j \in 1 .. RF : d.reps[j].id < meta.nextReplica
      BY <1>x, <1>2 DEF RangeInv
    <3> QED
      BY <1>8, <1>9, <3>1
  <2> QED
    BY <1>1, <1>2, <1>9, <1>10, <2>1 DEF RangeInv
<1>14. ChildInv'
  BY <1>1 DEF MetaInv, ChildInv
<1>15. SplitInv'
  <2>1. ASSUME NEW j \in LiveSplits PROVE SplitOK(meta.splits[j])'
    <3>1. SplitOK(meta.splits[j]) /\ meta.splits[j].parent # r
      BY <1>x, <1>2, <1>3 DEF MetaInv, SplitInv, OneOperation
    <3> QED
      BY <1>1, <1>10, <3>1 DEF SplitOK
  <2> QED
    BY <1>7, <2>1 DEF SplitInv
<1>16. MoveInv'
  <2>1. ASSUME NEW j \in OpenMoves, j # i PROVE MoveOK(meta.moves[j])'
    <3>1. /\ MoveOK(meta.moves[j]) /\ meta.moves[j].range # r /\ meta'.moves[j] = meta.moves[j]
      BY <1>x, <1>2, <1>3, <1>5, <1>6, <2>1 DEF MetaInv, MoveInv, OneOperation
    <3> QED
      BY <1>1, <1>10, <3>1 DEF MoveOK
  <2> QED
    BY <1>6, <2>1 DEF MoveInv
<1>17. OneOperation'
  <2>1. \A j \in DOMAIN meta.moves : meta'.moves[j].range = meta.moves[j].range
    BY <1>x, <1>4, <1>5, ZenonT(60)
  <2> QED
    BY <1>1, <1>2, <1>6, <1>7, <2>1 DEF OneOperation
<1> QED
  BY <1>11, <1>12, <1>13, <1>14, <1>15, <1>16, <1>17 DEF MetaInv
---------------------------------------------------------------------------
(* The theorems *)

\* advance takes a split that is not over to a legal state.
LEMMA AdvanceSplitInv ==
  ASSUME MetaInv, NEW i \in DOMAIN meta.splits, NEW e, NEW to, NEW n \in Indexes,
         AdvanceSplit(i, e, to, n)
  PROVE  MetaInv' /\ ValidTransition(meta, meta')
<1>x. PICK s, x : s = meta.splits[i] /\ x = Advanced(s, to, n)
  OBVIOUS
<1>1. SplitStep(i, x)
  BY <1>x, AdvanceSplitShape DEF MetaInv
<1>2. s \in SplitRecords /\ meta.splits \in Seq(SplitRecords) /\ s.state \in Preparing .. Aborted
  <2>1. s \in SplitRecords /\ meta.splits \in Seq(SplitRecords)
    BY <1>x DEF MetaInv, MetaTypeOK
  <2> QED
    BY <2>1 DEF SplitRecords
<1>3. LegalSplitTransition(s.state, to)
  BY <1>x DEF AdvanceSplit, MayAdvanceSplit
<1>4. to \in Preparing .. Aborted /\ SplitLive(s)
  BY <1>2, <1>3 DEF LegalSplitTransition, SplitLive, Preparing, Ready, Fenced, Committed, Aborted
<1>5. /\ x \in SplitRecords /\ x.state = to /\ x.parent = s.parent /\ x.pgen = s.pgen
      /\ x.key = s.key /\ x.left = s.left /\ x.right = s.right /\ x.epoch = s.epoch
  <2>1. n \in Nat
    BY MetaAssumption
  <2>2. /\ Advanced(s, to, n) \in SplitRecords /\ Advanced(s, to, n).state = to
        /\ Advanced(s, to, n).parent = s.parent /\ Advanced(s, to, n).pgen = s.pgen
        /\ Advanced(s, to, n).key = s.key /\ Advanced(s, to, n).left = s.left
        /\ Advanced(s, to, n).right = s.right /\ Advanced(s, to, n).epoch = s.epoch
    BY <1>2, <1>4, <2>1, AdvancedRecord, Zenon
  <2> QED
    BY <1>x, <2>2, Zenon
<1>6. MetaInv'
  BY <1>x, <1>1, <1>4, <1>5, SplitStepInv
<1>7. OneChanged(meta.splits, meta'.splits, i) /\ meta'.splits[i] = x
  BY <1>1, <1>2, <1>5, ChangedElems DEF SplitStep, OneChanged
<1> QED
  BY <1>x, <1>1, <1>3, <1>5, <1>6, <1>7 DEF ValidTransition, Counters, SplitStep

\* takeover only raises the epoch of a split.
LEMMA TakeoverSplitInv ==
  ASSUME MetaInv, NEW i \in DOMAIN meta.splits, NEW e, TakeoverSplit(i, e)
  PROVE  MetaInv' /\ ValidTransition(meta, meta')
<1>x. PICK s, x : s = meta.splits[i] /\ x = [s EXCEPT !.epoch = @ + 1]
  BY Zenon
<1>1. SplitStep(i, x)
  BY <1>x, TakeoverSplitShape DEF MetaInv
<1>2. s \in SplitRecords /\ meta.splits \in Seq(SplitRecords)
  BY <1>x DEF MetaInv, MetaTypeOK
<1>4. /\ x \in SplitRecords /\ x.state = s.state /\ x.parent = s.parent /\ x.pgen = s.pgen
      /\ x.key = s.key /\ x.left = s.left /\ x.right = s.right /\ x.epoch = s.epoch + 1
  BY <1>x, <1>2, TakenOverRecord
<1>5. MetaInv'
  BY <1>x, <1>1, <1>4, SplitStepInv, Zenon DEF SplitLive
<1>6. OneChanged(meta.splits, meta'.splits, i) /\ meta'.splits[i] = x
  BY <1>1, <1>2, <1>4, ChangedElems DEF SplitStep, OneChanged
<1> QED
  BY <1>x, <1>1, <1>4, <1>5, <1>6 DEF ValidTransition, Counters, SplitStep

\* advanceMigration takes a migration that is not over to a legal state.
LEMMA AdvanceMigrationInv ==
  ASSUME MetaInv, NEW i \in DOMAIN meta.moves, NEW e, NEW to, NEW n \in Indexes,
         AdvanceMigration(i, e, to, n)
  PROVE  MetaInv' /\ ValidTransition(meta, meta')
<1>x. PICK m, x : m = meta.moves[i] /\ x = MovedOn(m, to, n)
  OBVIOUS
<1>1. MoveStep(i, x)
  BY <1>x, AdvanceMigrationShape DEF MetaInv
<1>2. m \in MigrationRecords /\ meta.moves \in Seq(MigrationRecords) /\ m.state \in MPlanned .. MAborted
  <2>1. m \in MigrationRecords /\ meta.moves \in Seq(MigrationRecords)
    BY <1>x DEF MetaInv, MetaTypeOK
  <2> QED
    BY <2>1 DEF MigrationRecords
<1>3. LegalMigrationTransition(m.state, to)
  BY <1>x DEF AdvanceMigration
<1>4. /\ to \in MPlanned .. MAborted /\ MoveLive(m)
      /\ to \in MPlanned .. MSourceRemoving => m.state \in MPlanned .. MSourceRemoving
  BY <1>2, <1>3 DEF LegalMigrationTransition, MoveLive, MPlanned, MReady, MSourceRemoving,
                    MCommitted, MSourceRetired, MAborted
<1>5. /\ x \in MigrationRecords /\ x.state = to /\ x.range = m.range /\ x.rgen = m.rgen
      /\ x.dst = m.dst /\ x.dstNode = m.dstNode /\ x.epoch = m.epoch
  <2>1. n \in Nat
    BY MetaAssumption
  <2>2. m \in MigrationRecords /\ to \in MPlanned .. MAborted
    BY <1>2, <1>4
  <2> QED
    BY <1>x, <2>1, <2>2, MovedOnRecord
<1>6. MetaInv'
  BY <1>x, <1>1, <1>4, <1>5, MoveStepInv
<1>7. OneChanged(meta.moves, meta'.moves, i) /\ meta'.moves[i] = x
  BY <1>1, <1>2, <1>5, ChangedElems DEF MoveStep, OneChanged
<1>8. /\ Counters(meta') = Counters(meta) /\ meta'.gen = meta.gen /\ meta'.ranges = meta.ranges
      /\ meta'.splits = meta.splits
  BY <1>1 DEF Counters, MoveStep
<1>9. /\ meta'.moves[i].epoch = meta.moves[i].epoch
      /\ LegalMigrationTransition(meta.moves[i].state, meta'.moves[i].state)
  BY <1>x, <1>3, <1>5, <1>7
<1> QED
  BY <1>6, <1>7, <1>8, <1>9, Zenon DEF ValidTransition

\* takeoverMigration only raises the epoch of a migration.
LEMMA TakeoverMigrationInv ==
  ASSUME MetaInv, NEW i \in DOMAIN meta.moves, NEW e, TakeoverMigration(i, e)
  PROVE  MetaInv' /\ ValidTransition(meta, meta')
<1>x. PICK m, x : m = meta.moves[i] /\ x = [m EXCEPT !.epoch = @ + 1]
  BY Zenon
<1>1. MoveStep(i, x)
  BY <1>x, TakeoverMigrationShape DEF MetaInv
<1>2. m \in MigrationRecords /\ meta.moves \in Seq(MigrationRecords)
  BY <1>x DEF MetaInv, MetaTypeOK
<1>4. /\ x \in MigrationRecords /\ x.state = m.state /\ x.range = m.range /\ x.rgen = m.rgen
      /\ x.dst = m.dst /\ x.dstNode = m.dstNode /\ x.epoch = m.epoch + 1
  BY <1>x, <1>2, TakenOverMove
<1>5. MetaInv'
  BY <1>x, <1>1, <1>4, MoveStepInv, Zenon DEF MoveLive
<1>6. OneChanged(meta.moves, meta'.moves, i) /\ meta'.moves[i] = x
  BY <1>1, <1>2, <1>4, ChangedElems DEF MoveStep, OneChanged
<1> QED
  BY <1>x, <1>1, <1>4, <1>5, <1>6 DEF ValidTransition, Counters, MoveStep

\* The operations that add a record or cut over.
LEMMA BeginSplitValid ==
  ASSUME MetaTypeOK, NEW p, NEW k, BeginSplit(p, k)
  PROVE  ValidTransition(meta, meta')
<1>1. Added(meta.splits, meta'.splits)
  <2>1. meta.splits \in Seq(SplitRecords) /\ meta'.splits = Append(meta.splits, NewSplit(p, k))
    BY BeginSplitShape DEF MetaTypeOK
  <2> QED
    BY <2>1 DEF Added
<1> QED
  BY <1>1, BeginSplitShape DEF ValidTransition, Counters

LEMMA BeginMigrationValid ==
  ASSUME MetaTypeOK, NEW r, NEW j, NEW n, BeginMigration(r, j, n)
  PROVE  ValidTransition(meta, meta')
<1>1. Added(meta.moves, meta'.moves)
  <2>1. meta.moves \in Seq(MigrationRecords) /\ meta'.moves = Append(meta.moves, NewMigration(r, j, n))
    BY BeginMigrationShape DEF MetaTypeOK
  <2> QED
    BY <2>1 DEF Added
<1> QED
  BY <1>1, BeginMigrationShape DEF ValidTransition, Counters

LEMMA CommitSplitValid ==
  ASSUME MetaTypeOK, NEW i \in DOMAIN meta.splits, NEW e, CommitSplit(i, e)
  PROVE  ValidTransition(meta, meta')
<1>1. PICK s, x : s = meta.splits[i] /\ x = [s EXCEPT !.state = Committed]
  BY Zenon
<1>2. s \in SplitRecords /\ meta.splits \in Seq(SplitRecords) /\ s.state = Fenced
  BY <1>1 DEF MetaTypeOK, CommitSplit, MayCommitSplit
<1>3. x \in SplitRecords /\ x.state = Committed /\ x.epoch = s.epoch
  BY <1>1, <1>2, CommittedRecord
<1>4. OneChanged(meta.splits, meta'.splits, i) /\ meta'.splits[i] = x
  <2>1. meta'.splits = [meta.splits EXCEPT ![i] = x]
    BY <1>1, CommitSplitShape
  <2> QED
    BY <1>2, <1>3, <2>1, ChangedElems DEF OneChanged
<1>5. LegalSplitTransition(s.state, x.state)
  BY <1>2, <1>3 DEF LegalSplitTransition, Preparing, Fenced, Committed
<1> QED
  BY <1>1, <1>3, <1>4, <1>5, CommitSplitShape, Zenon DEF ValidTransition, Counters

LEMMA CommitMigrationValid ==
  ASSUME MetaTypeOK, NEW i \in DOMAIN meta.moves, NEW e, CommitMigration(i, e)
  PROVE  ValidTransition(meta, meta')
<1>1. PICK m, x : m = meta.moves[i] /\ x = [m EXCEPT !.state = MCommitted]
  BY ZenonT(60)
<1>2. m \in MigrationRecords /\ meta.moves \in Seq(MigrationRecords) /\ m.state = MSourceRemoving
  BY <1>1 DEF MetaTypeOK, CommitMigration, MayCommitMigration
<1>3. x \in MigrationRecords /\ x.state = MCommitted /\ x.epoch = m.epoch
  BY <1>1, <1>2, CommittedMove
<1>4. OneChanged(meta.moves, meta'.moves, i) /\ meta'.moves[i] = x
  <2>1. meta'.moves = [meta.moves EXCEPT ![i] = x]
    BY <1>1, CommitMigrationShape, Zenon
  <2> QED
    BY <1>2, <1>3, <2>1, ChangedElems DEF OneChanged
<1>5. LegalMigrationTransition(m.state, x.state)
  BY <1>2, <1>3 DEF LegalMigrationTransition, MPlanned, MSourceRemoving, MCommitted
<1> QED
  BY <1>1, <1>3, <1>4, <1>5, CommitMigrationShape, Zenon DEF ValidTransition, Counters

\* Every operation keeps the invariant and proposes what Apply accepts.
LEMMA MetaStep == MetaInv /\ MetaNext => MetaInv' /\ ValidTransition(meta, meta')
<1> SUFFICES ASSUME MetaInv, MetaNext PROVE MetaInv' /\ ValidTransition(meta, meta')
  OBVIOUS
<1>1. MetaTypeOK
  BY DEF MetaInv
<1>2. ASSUME NEW p \in DOMAIN meta.ranges, NEW k \in Keys, BeginSplit(p, k)
      PROVE  MetaInv' /\ ValidTransition(meta, meta')
  BY <1>1, <1>2, BeginSplitInv, BeginSplitValid
<1>3. ASSUME NEW i \in DOMAIN meta.splits, NEW e, NEW to, NEW n \in Indexes, AdvanceSplit(i, e, to, n)
      PROVE  MetaInv' /\ ValidTransition(meta, meta')
  BY <1>3, AdvanceSplitInv
<1>4. ASSUME NEW i \in DOMAIN meta.splits, NEW e, TakeoverSplit(i, e) \/ CommitSplit(i, e)
      PROVE  MetaInv' /\ ValidTransition(meta, meta')
  BY <1>1, <1>4, TakeoverSplitInv, CommitSplitInv, CommitSplitValid
<1>5. ASSUME NEW r \in DOMAIN meta.ranges, NEW j \in 1 .. RF, NEW n \in Nodes, BeginMigration(r, j, n)
      PROVE  MetaInv' /\ ValidTransition(meta, meta')
  BY <1>1, <1>5, BeginMigrationInv, BeginMigrationValid
<1>6. ASSUME NEW i \in DOMAIN meta.moves, NEW e, NEW to, NEW n \in Indexes, AdvanceMigration(i, e, to, n)
      PROVE  MetaInv' /\ ValidTransition(meta, meta')
  BY <1>6, AdvanceMigrationInv
<1>7. ASSUME NEW i \in DOMAIN meta.moves, NEW e, TakeoverMigration(i, e) \/ CommitMigration(i, e)
      PROVE  MetaInv' /\ ValidTransition(meta, meta')
  BY <1>1, <1>7, TakeoverMigrationInv, CommitMigrationInv, CommitMigrationValid
<1> QED
  BY <1>2, <1>3, <1>4, <1>5, <1>6, <1>7 DEF MetaNext

\* The bootstrap catalog satisfies the invariant.
LEMMA MetaInitInv == MetaInit => MetaInv
<1> SUFFICES ASSUME MetaInit PROVE MetaInv
  OBVIOUS
<1>1. /\ meta.gen = 1 /\ meta.ranges = Bootstrap /\ meta.splits = <<>> /\ meta.moves = <<>>
      /\ meta.nextRange = FirstRange /\ meta.nextReplica = FirstReplica
      /\ DOMAIN meta = {"gen", "ranges", "splits", "moves", "nextRange", "nextReplica"}
  BY DEF MetaInit
<1>2. MetaTypeOK /\ IsPartition(meta.ranges) /\ RangeInv
  BY <1>1, MetaAssumption DEF MetaTypeOK, RangeInv
<1>3. LiveSplits = {} /\ LiveMoves = {} /\ OpenMoves = {} /\ ChildInv
  BY <1>1 DEF LiveSplits, LiveMoves, OpenMoves, ChildInv
<1> QED
  BY <1>2, <1>3 DEF MetaInv, SplitInv, MoveInv, OneOperation

\* metaMachine.Apply: the record keeps its shape, the operations in progress
\* still describe the ranges they were begun on, and a range has at most one.
THEOREM MetaInvariant == MetaSpec => []MetaInv
<1>1. MetaInv /\ [MetaNext]_meta => MetaInv'
  <2>1. CASE UNCHANGED meta
    <3>1. MetaTypeOK => MetaTypeOK'
      BY <2>1 DEF MetaTypeOK
    <3>2. IsPartition(meta.ranges) => IsPartition(meta.ranges)'
      BY <2>1
    <3>3. RangeInv /\ ChildInv => RangeInv' /\ ChildInv'
      BY <2>1 DEF RangeInv, ChildInv
    <3>4. LiveSplits' = LiveSplits /\ LiveMoves' = LiveMoves /\ OpenMoves' = OpenMoves
      BY <2>1 DEF LiveSplits, LiveMoves, OpenMoves
    <3>5. SplitInv /\ MoveInv /\ OneOperation => SplitInv' /\ MoveInv' /\ OneOperation'
      BY <2>1, <3>4 DEF SplitInv, SplitOK, MoveInv, MoveOK, OneOperation
    <3> QED
      BY <3>1, <3>2, <3>3, <3>5 DEF MetaInv
  <2> QED
    BY <2>1, MetaStep
<1> QED
  BY <1>1, MetaInitInv, PTL DEF MetaSpec

\* NewCatalog never refuses the catalog of a cutover, whatever the splits and
\* migrations before it: every key has exactly one range, with distinct replicas.
THEOREM CatalogStaysValid == MetaSpec => []CatalogIsValid
<1>1. MetaInv => CatalogIsValid
  BY DEF MetaInv, RangeInv, CatalogIsValid
<1> QED
  BY <1>1, MetaInvariant, PTL

\* validateMetadataTransition accepts what every operation proposes, so that no
\* operation stops the metadata group.
THEOREM ProposalsApply == MetaSpec => EveryProposalApplies
<1>1. MetaInv /\ [MetaNext]_meta => [ValidTransition(meta, meta')]_meta
  BY MetaStep
<1> QED
  BY <1>1, MetaInvariant, PTL DEF MetaSpec, EveryProposalApplies
=============================================================================
