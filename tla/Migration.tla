----------------------------- MODULE Migration -----------------------------
(***************************************************************************)
(* Moving a replica of a range to another node while the range serves      *)
(* (internal/multiraft/migration_manager.go, node.go, snapshot_transfer.go;*)
(* internal/replicatedrange/replica.go).                                   *)
(*                                                                         *)
(* The range is one Raft group.  What Raft shows of a group is used here:  *)
(* grp.log is the log of the leader and of everyone who agrees with it, a  *)
(* replica holds a prefix of it, and a configuration takes effect at the   *)
(* replica that applies it.  Who may be elected and what may be committed  *)
(* is decided by the configuration of the replica concerned.               *)
(*                                                                         *)
(* Managers run MoveReplica and RecoverMigration concurrently, one call    *)
(* each, a step at a time; one that crashes or gives up takes no more.     *)
(***************************************************************************)
EXTENDS MetaRange, FiniteSets

CONSTANTS Range,       \* the range whose replicas move
          ReplicaIds,  \* the identities of its replicas, old and new
          Moves,       \* the moves asked for: of which replica, to which node
          Managers,
          Budgets      \* how many calls, writes, elections and restarts

VARIABLES grp,    \* the Raft group
          disk,   \* the directory of every replica that has one
          node,   \* what is open on each node, and the descriptors it knows
          router, \* the generation of the range in the router's catalog
          tomb,   \* the replicas with a durable tombstone
          staged, \* the partial snapshot file of each migration
          mgr,    \* the call each manager is in
          left    \* what is left of the budget

mvars == <<meta, grp, disk, node, router, tomb, staged, mgr, left>>
---------------------------------------------------------------------------
(* Configurations (raft/membership.go) *)

Conf(v, old, new, learners) ==
  [version |-> v, old |-> old, new |-> new, learners |-> learners]

Voters(c) == c.old \cup c.new
Members(c) == Voters(c) \cup c.learners
Majority(voters, acks) == 2 * Cardinality(voters \cap acks) > Cardinality(voters)

\* Mutant: a joint configuration asks its new voters only.
QuorumOfNew(c, acks) == Majority(IF c.new # {} THEN c.new ELSE c.old, acks)

Quorum(c, acks) == Majority(c.old, acks) /\ (c.new # {} => Majority(c.new, acks))

ValidChange(from, to) ==
  /\ to.version = from.version + 1
  /\ to.learners \cap Voters(to) = {}
  /\ IF from.new # {} THEN to.new = {} /\ to.old = from.new ELSE to.old = from.old

NoConf == Conf(0, {}, {}, {})

\* An entry: a configuration, a user write or a no-op.  seen: what the leader
\* had committed when it sent the entry out, which its holders know.
Entry(kind, c, seen) == [kind |-> kind, conf |-> c, seen |-> seen]
---------------------------------------------------------------------------
(* Replicas *)

Open(n) == node[n].id # 0
Data(n) == disk[node[n].id]

\* The configuration of a replica with c that applies the entries through k.
ConfigAt(c, k) ==
  LET newer == {i \in 1 .. k : grp.log[i].conf.version > c.version} IN
  IF newer = {} THEN c ELSE grp.log[CHOOSE i \in newer : \A j \in newer : j <= i].conf

Applied(d, k) == [d EXCEPT !.app = k, !.conf = ConfigAt(@, k)]

\* logicalDigest: the writes in the applied prefix.
Digest(d) == Cardinality({i \in 1 .. d.app : grp.log[i].kind = "Write"})

\* wrapMessages and Step: both ends know the same descriptor, with both nodes.
On(reps, n) == \E j \in DOMAIN reps : reps[j].node = n
Talks(a, b) == node[a].desc = node[b].desc /\ On(node[a].desc.reps, a) /\ On(node[a].desc.reps, b)

\* Everybody who waits on node n fails (failWaitersLocked).
Fails(calls, n) ==
  [m \in Managers |-> IF calls[m].wi # 0 /\ calls[m].wn = n
                        THEN [calls[m] EXCEPT !.pc = "failed", !.wi = 0] ELSE calls[m]]

\* A fault happens during every call that is under way.
Disturbed(calls) == [m \in Managers |-> [calls[m] EXCEPT !.clean = FALSE]]
---------------------------------------------------------------------------
(* The Raft group *)

\* A follower or a learner gets entries, or a snapshot, from the leader, and
\* learns how far they are committed.
Replicate(n) ==
  /\ grp.lead \notin {0, n} /\ Open(n) /\ Talks(grp.lead, n)
  /\ n \in Members(Data(grp.lead).conf) /\ grp.lead \in Members(Data(n).conf)
  /\ \E k \in Larger(Data(n).have, 1) .. Len(grp.log) :
       \E a \in {Larger(Data(n).app, grp.log[k].seen),
                 Larger(Data(n).app, IF k < Data(grp.lead).app THEN k ELSE Data(grp.lead).app)} :
         /\ k > Data(n).have \/ a > Data(n).app
         /\ disk' = [disk EXCEPT ![node[n].id] = [Applied(@, a) EXCEPT !.have = k]]
  /\ UNCHANGED <<meta, grp, node, router, tomb, staged, mgr, left>>

\* advanceCommit and applyCommitted: an entry of the leader's term, and all
\* before it.  A leader that applies its own removal steps down.
Commit ==
  /\ grp.lead # 0
  /\ LET d == Data(grp.lead)
         acks(i) == {n \in Members(d.conf) : Open(n) /\ Data(n).have >= i}
     IN
     \E i \in Larger(d.app + 1, grp.start) .. Len(grp.log) :
       /\ Quorum(d.conf, acks(i))
       /\ disk' = [disk EXCEPT ![node[grp.lead].id] = Applied(@, i)]
       /\ grp' = [grp EXCEPT !.comm = Larger(@, i),
                             !.lead = IF @ \in Voters(ConfigAt(d.conf, i)) THEN @ ELSE 0]
  /\ UNCHANGED <<meta, node, router, tomb, staged, mgr, left>>

\* A voter is elected by a quorum of its own configuration, among voters that
\* count it as one, have no more entries than it and can be reached.
Grants(n) ==
  {v \in Nodes : Open(v) /\ \/ v = n
                            \/ /\ Talks(n, v) /\ {n, v} \subseteq Voters(Data(v).conf)
                               /\ Data(v).have <= Data(n).have}

Elect(n) ==
  /\ n # grp.lead /\ Open(n) /\ n \in Voters(Data(n).conf)
  /\ left.elections > 0 \/ grp.lead = 0 \/ grp.transfer = n
  /\ Quorum(Data(n).conf, Grants(n))
  /\ LET h == Data(n).have IN
     /\ grp' = [grp EXCEPT !.log = Append(SubSeq(@, 1, h), Entry("NoOp", NoConf, Data(n).app)),
                           !.lead = n, !.start = h + 1, !.transfer = 0]
     /\ disk' = [d \in DOMAIN disk |->
                   [disk[d] EXCEPT !.have = IF d = node[n].id THEN h + 1 ELSE IF @ > h THEN h ELSE @]]
  /\ LET calls == Fails(mgr, grp.lead) IN
     mgr' = [m \in Managers |-> IF grp.transfer = n /\ calls[m].pc = "handedOver" THEN calls[m]
                                ELSE Disturbed(calls)[m]]
  /\ left' = [left EXCEPT !.elections = IF @ > 0 /\ grp.lead # 0 /\ grp.transfer # n THEN @ - 1 ELSE @]
  /\ UNCHANGED <<meta, node, router, tomb, staged>>

\* Tick gives up on a transfer.
TransferExpires ==
  /\ grp.transfer # 0
  /\ grp' = [grp EXCEPT !.transfer = 0] /\ mgr' = Disturbed(mgr)
  /\ UNCHANGED <<meta, disk, node, router, tomb, staged, left>>

\* The leader's log and disk after it admits an entry.
Admitted(e) ==
  /\ grp' = [grp EXCEPT !.log = Append(@, [e EXCEPT !.seen = Data(grp.lead).app])]
  /\ disk' = [disk EXCEPT ![node[grp.lead].id].have = Len(grp.log) + 1]

\* A user write, routed to the leader: the generation in its node's catalog is
\* the router's, and the replica serves.
Write ==
  /\ left.writes > 0 /\ grp.lead # 0 /\ grp.transfer = 0
  /\ node[grp.lead].cat = router /\ node[grp.lead].life = "Active"
  /\ Admitted(Entry("Write", NoConf, 0))
  /\ left' = [left EXCEPT !.writes = @ - 1] /\ mgr' = Disturbed(mgr)
  /\ UNCHANGED <<meta, node, router, tomb, staged>>

\* Router.refreshMetadata, when a node answers with a newer generation.
RefreshMetadata ==
  /\ router # meta.ranges[Range].gen
  /\ router' = meta.ranges[Range].gen
  /\ UNCHANGED <<meta, grp, disk, node, tomb, staged, mgr, left>>
---------------------------------------------------------------------------
(* Nodes *)

Descriptor(d) == [gen |-> d.gen, reps |-> d.reps]

\* A replica that never had a directory starts empty, with the configuration
\* it is opened with.
Fresh(c) == [have |-> 0, app |-> 0, conf |-> c]

\* AddLearnerRange on node n: whatever is open there for the range is kept.
AddLearnerRange(n, d, c, id) ==
  /\ node' = [k \in Nodes |->
                IF k # n THEN node[k]
                ELSE IF Open(n) THEN [node[n] EXCEPT !.desc = d]
                ELSE [node[n] EXCEPT !.desc = d, !.id = id, !.life = "Learner"]]
  /\ disk' = IF Open(n) \/ id \in DOMAIN disk THEN disk
             ELSE [k \in DOMAIN disk \cup {id} |-> IF k = id THEN Fresh(c) ELSE disk[k]]

\* The node process ends and OpenNode starts it again, with the catalog of its
\* first start or with the one of the metadata (AuthoritativeCatalog).  A
\* replica whose configuration leaves its node out is not opened (NewNode).
Restart(n) ==
  /\ left.restarts > 0
  /\ \E d \in {Bootstrap[Range], meta.ranges[Range]} :
       LET mine == {j \in 1 .. RF : d.reps[j].node = n}
           id == IF mine = {} THEN 0 ELSE d.reps[CHOOSE j \in mine : TRUE].id
           opens == id \in DOMAIN disk /\ n \in Members(disk[id].conf)
       IN node' = [node EXCEPT ![n] = [id |-> IF opens THEN id ELSE 0, life |-> "Active",
                                       desc |-> Descriptor(d), cat |-> d.gen]]
  /\ grp' = [grp EXCEPT !.lead = IF @ = n THEN 0 ELSE @, !.transfer = IF grp.lead = n THEN 0 ELSE @]
  /\ mgr' = Disturbed(Fails(mgr, n))
  /\ left' = [left EXCEPT !.restarts = @ - 1]
  /\ UNCHANGED <<meta, disk, router, tomb, staged>>
---------------------------------------------------------------------------
(* The migration manager.  r is the record as the call last saw it, desc the *)
(* descriptor it read at its start, lead the leader it found then, conf the  *)
(* learner configuration it works out, idx and dig what it has measured; wi  *)
(* is the index of the proposal it waits for on node wn.                     *)

NoRecord == [range |-> 0]
Idle == [pc |-> "idle", i |-> 0, r |-> NoRecord, desc |-> <<>>, lead |-> 0, conf |-> NoConf,
         idx |-> 0, dig |-> 0, wi |-> 0, wn |-> 0, clean |-> FALSE]

\* Call m goes on as x; every other call is disturbed.
Goes(m, x) == mgr' = [k \in Managers |-> IF k = m THEN x ELSE [mgr[k] EXCEPT !.clean = FALSE]]
Then(m, pc) == Goes(m, [mgr[m] EXCEPT !.pc = pc])
Fail(m) == Goes(m, [Idle EXCEPT !.pc = "failed", !.i = mgr[m].i, !.clean = mgr[m].clean])
Done(m) == Goes(m, [Idle EXCEPT !.pc = "done", !.i = mgr[m].i])

Old(m) == {mgr[m].desc.reps[j].node : j \in 1 .. RF}

\* Mutant: the source stays a voter.
NewVotersAll(m) == Old(m) \cup {mgr[m].r.dstNode}

NewVoters(m) == (Old(m) \ {mgr[m].r.srcNode}) \cup {mgr[m].r.dstNode}
Target(m) == mgr[m].r.dstNode
Base(m) == Conf(mgr[m].conf.version - 1, Old(m), {}, {})
JointConf(m) == Conf(mgr[m].conf.version + 1, Old(m), NewVoters(m), {})
FinalConf(m) == Conf(mgr[m].conf.version + 2, NewVoters(m), {}, {})

Transition(m) ==
  Descriptor([mgr[m].desc EXCEPT
    !.reps = Append(@, [id |-> mgr[m].r.dst, node |-> mgr[m].r.dstNode])])

\* The calls.  MoveReplica joins a migration of the same replica to the same
\* node that is under way, in its epoch.
Called(m, i, r, pc) ==
  /\ mgr[m].pc = "idle" /\ left.calls > 0
  /\ Goes(m, [Idle EXCEPT !.pc = pc, !.i = i, !.r = r, !.clean = TRUE])
  /\ left' = [left EXCEPT !.calls = @ - 1]
  /\ UNCHANGED <<grp, disk, node, router, tomb, staged>>

MoveReplica(m, move) ==
  \/ \E j \in 1 .. RF :
       /\ meta.ranges[Range].reps[j].id = move.src /\ BeginMigration(Range, j, move.to)
       /\ Called(m, Len(meta.moves) + 1, NewMigration(Range, j, move.to), "describe")
  \/ \E i \in DOMAIN meta.moves : LET x == meta.moves[i] IN
       /\ MoveLive(x) /\ x.src = move.src /\ x.dstNode = move.to
       /\ \E j \in 1 .. RF : meta.ranges[Range].reps[j].id = move.src
       /\ ~On(meta.ranges[Range].reps, move.to)
       /\ Called(m, i, x, "describe") /\ UNCHANGED meta

RecoverMigration(m, i) ==
  LET x == meta.moves[i] IN
  \/ TakeoverMigration(i, x.epoch) /\ Called(m, i, [x EXCEPT !.epoch = @ + 1], "describe")
  \/ x.state = MSourceRetired /\ Called(m, i, x, "reconcile") /\ UNCHANGED meta

\* run reads the published descriptor, then installs it with the target added
\* on every node.  A target that is gone while the source is being removed is
\* opened again.
Describes(m) ==
  /\ mgr[m].pc = "describe"
  /\ Goes(m, [mgr[m] EXCEPT !.pc = "install", !.desc = meta.ranges[Range]])
  /\ UNCHANGED <<meta, grp, disk, node, router, tomb, staged, left>>

InstallTransition(m) ==
  /\ mgr[m].pc = "install" /\ Then(m, "base")
  /\ LET r == mgr[m].r
         opens(k) == k = r.dstNode /\ r.state = MSourceRemoving /\ ~Open(k)
     IN
     /\ node' = [k \in Nodes |->
          IF opens(k) THEN [node[k] EXCEPT !.desc = Transition(m), !.id = r.dst, !.life = "Learner"]
          ELSE [node[k] EXCEPT !.desc = Transition(m)]]
     /\ disk' = IF opens(r.dstNode) /\ r.dst \notin DOMAIN disk
                THEN [k \in DOMAIN disk \cup {r.dst} |->
                        IF k = r.dst THEN Fresh(Conf(r.conf, NewVoters(m), {}, {})) ELSE disk[k]]
                ELSE disk
  /\ UNCHANGED <<meta, grp, router, tomb, staged, left>>

\* Mutant: a promoted learner is taken for the version in the record.
LearnerConfAhead(m) ==
  LET r == mgr[m].r
      base == Data(grp.lead).conf
      version == CASE r.state >= MSourceRemoving -> r.conf - 2
                   [] r.state \in MCatchingUp .. MPromoted -> r.conf
                   [] OTHER -> base.version + 1
  IN IF r.state < MCatchingUp /\ r.dstNode \in base.learners THEN base
     ELSE Conf(version, Old(m), {}, {r.dstNode})

\* The learner configuration is worked out from the leader's one or from the
\* version in the record.
LearnerConf(m) ==
  LET r == mgr[m].r
      base == Data(grp.lead).conf
      version == CASE r.state >= MSourceRemoving -> r.conf - 2
                   [] r.state \in {MJoint, MPromoted} -> r.conf - 1
                   [] r.state \in {MCatchingUp, MReady} -> r.conf
                   [] OTHER -> base.version + 1
  IN IF r.state < MCatchingUp /\ r.dstNode \in base.learners THEN base
     ELSE Conf(version, Old(m), {}, {r.dstNode})

\* Where run goes on with a record in each state.
Resume(state) ==
  <<"bootstrap", "open", "learner", "catchUp", "joint", "promote", "transfer", "commit", "publish">>[state]

FindBase(m) ==
  /\ mgr[m].pc = "base" /\ grp.lead # 0
  /\ LET r == mgr[m].r
         x == [mgr[m] EXCEPT !.pc = Resume(r.state), !.lead = grp.lead, !.conf = LearnerConf(m)]
     IN
     /\ Goes(m, x)
     /\ IF r.state > MBootstrapping /\ r.state < MCommitted /\ ~Open(r.dstNode)
          THEN AddLearnerRange(r.dstNode, Transition(m),
                               Conf(x.conf.version - 1, Old(m), {}, {}), r.dst)
          ELSE UNCHANGED <<node, disk>>
  /\ UNCHANGED <<meta, grp, router, tomb, staged, left>>

\* AdvanceMigration: a record that is in the state already is returned.
Records(m, pc, to, n, next) ==
  /\ mgr[m].pc = pc
  /\ LET x == mgr[m].i
         e == mgr[m].r.epoch
     IN
     \/ /\ AdvanceMigration(x, e, to, n)
        /\ Goes(m, [mgr[m] EXCEPT !.pc = next, !.r = MovedOn(meta.moves[x], to, n)])
     \/ /\ meta.moves[x].epoch = e /\ meta.moves[x].state = to
        /\ Goes(m, [mgr[m] EXCEPT !.pc = next, !.r = meta.moves[x]]) /\ UNCHANGED meta
     \/ /\ meta.moves[x].epoch # e
           \/ (meta.moves[x].state # to /\ ~LegalMigrationTransition(meta.moves[x].state, to))
        /\ Fail(m) /\ UNCHANGED meta
  /\ UNCHANGED <<grp, disk, node, router, tomb, staged, left>>

Advances(m) ==
  LET x == mgr[m] IN
  \/ Records(m, "bootstrap", MBootstrapping, 0, "open")
  \/ Records(m, "staged", MLearner, x.idx, "learner")
  \/ Records(m, "added", MCatchingUp, x.conf.version, "catchUp")
  \/ Records(m, "ready", MReady, x.idx, "joint")
  \/ Records(m, "jointed", MJoint, JointConf(m).version, "promote")
  \/ Records(m, "promote", MPromoted, 0, "transfer")
  \/ Records(m, "finished", MSourceRemoving, FinalConf(m).version, "commit")
  \/ Records(m, "retired", MSourceRetired, 0, "done")
---------------------------------------------------------------------------
(* Bootstrapping: the snapshot is taken from the leader found at the start  *)
(* and staged at the target in chunks, under a header that names it.        *)

Chunks == 2
NoFile == [idx |-> 0, n |-> 0]

OpensTarget(m) ==
  /\ mgr[m].pc = "open" /\ Then(m, "snapshot")
  /\ AddLearnerRange(Target(m), Transition(m), Base(m), mgr[m].r.dst)
  /\ UNCHANGED <<meta, grp, router, tomb, staged, left>>

CreateRaftSnapshot(m) ==
  /\ mgr[m].pc = "snapshot"
  /\ IF Open(mgr[m].lead)
       THEN Goes(m, [mgr[m] EXCEPT !.pc = "stage", !.idx = Data(mgr[m].lead).app, !.dig = 1])
       ELSE Fail(m)
  /\ UNCHANGED <<meta, grp, disk, node, router, tomb, staged, left>>

\* stageSnapshotChunk, of chunk dig.  An abandoned file of another snapshot is
\* discarded by the first chunk; a later chunk that does not follow what is
\* there is refused, and leaves the header in a file that was gone.
StageChunk(m) ==
  LET x == mgr[m]
      file == staged[x.i]
      next == [x EXCEPT !.dig = @ + 1, !.pc = IF x.dig = Chunks THEN "finalize" ELSE "stage"]
      writes(f) == staged' = [staged EXCEPT ![x.i] = f]
  IN
  /\ x.pc = "stage"
  /\ \/ /\ x.dig = 1 /\ file.idx # x.idx
        /\ Goes(m, next) /\ writes([idx |-> x.idx, n |-> 1])
     \/ /\ file.idx = x.idx /\ file.n >= x.dig
        /\ Goes(m, next) /\ UNCHANGED staged
     \/ /\ file.idx = x.idx /\ file.n = x.dig - 1
        /\ Goes(m, next) /\ writes([file EXCEPT !.n = x.dig])
     \/ /\ x.dig # 1 /\ (file.idx # x.idx \/ file.n < x.dig - 1)
        /\ Fail(m) /\ writes(IF file = NoFile THEN [idx |-> x.idx, n |-> 0] ELSE file)
  /\ UNCHANGED <<meta, grp, disk, node, router, tomb, left>>

\* finalizeStagedSnapshot: the file is published when it is whole and is this
\* snapshot's.
FinalizeStagedSnapshot(m) ==
  /\ mgr[m].pc = "finalize"
  /\ IF staged[mgr[m].i] = [idx |-> mgr[m].idx, n |-> Chunks]
       THEN Then(m, "staged") /\ staged' = [staged EXCEPT ![mgr[m].i] = NoFile]
       ELSE Fail(m) /\ UNCHANGED staged
  /\ UNCHANGED <<meta, grp, disk, node, router, tomb, left>>
---------------------------------------------------------------------------
(* Proposals *)

\* Node.ProposeConfiguration refuses a change that does not follow from the
\* leader's configuration or that comes before another one is committed.
MayChange(c) ==
  /\ ValidChange(Data(grp.lead).conf, c)
  /\ \A i \in Data(grp.lead).app + 1 .. Len(grp.log) : grp.log[i].kind # "Conf"

Proposes(m, e) ==
  /\ Admitted(e)
  /\ Goes(m, [mgr[m] EXCEPT !.wi = Len(grp.log) + 1, !.wn = grp.lead])

\* The learner configuration may be refused, because it is there already; the
\* other two may not.
ProposeConfig(m) ==
  /\ mgr[m].pc \in {"learner", "joint", "final"} /\ mgr[m].wi = 0 /\ grp.lead # 0
  /\ LET c == CASE mgr[m].pc = "learner" -> mgr[m].conf
                [] mgr[m].pc = "joint" -> JointConf(m)
                [] mgr[m].pc = "final" -> FinalConf(m)
         waiters == Fails(mgr, grp.lead)
     IN
     IF grp.transfer = 0 /\ MayChange(c) THEN Proposes(m, Entry("Conf", c, 0))
     ELSE /\ mgr' = [Disturbed(waiters) EXCEPT ![m] =
                IF grp.transfer = 0 /\ mgr[m].pc = "learner" THEN [mgr[m] EXCEPT !.pc = "added"]
                ELSE [Idle EXCEPT !.pc = "failed", !.i = mgr[m].i, !.clean = mgr[m].clean]]
          /\ UNCHANGED <<grp, disk>>
  /\ UNCHANGED <<meta, node, router, tomb, staged, left>>

ProposeBarrier(m) ==
  /\ mgr[m].pc = "barrier" /\ mgr[m].wi = 0 /\ grp.lead # 0 /\ grp.transfer = 0
  /\ Proposes(m, Entry("NoOp", NoConf, 0))
  /\ UNCHANGED <<meta, node, router, tomb, staged, left>>

\* The proposal is applied where it was made.
ProposalApplied(m) ==
  LET x == mgr[m] IN
  /\ x.wi # 0 /\ Open(x.wn) /\ Data(x.wn).app >= x.wi
  /\ Goes(m, [x EXCEPT !.wi = 0, !.wn = 0, !.idx = IF x.pc = "barrier" THEN x.wi ELSE @,
                       !.pc = CASE x.pc = "learner" -> "added" [] x.pc = "barrier" -> "caughtUp"
                                [] x.pc = "joint" -> "jointed" [] x.pc = "final" -> "finaled"])
  /\ UNCHANGED <<meta, grp, disk, node, router, tomb, staged, left>>

\* Mutant: the catch-up with the barrier is not waited for.
CaughtUpAnyway(n, i) == Open(n)

\* waitCaughtUp.
CaughtUp(n, i) == Open(n) /\ Data(n).app >= i

\* CatchingUp: the target has the snapshot; it has the barrier; it has the
\* state of the leader found at the start.
Waits(m) ==
  LET x == mgr[m] IN
  /\ \/ x.pc = "catchUp" /\ CaughtUp(Target(m), x.r.boot) /\ Then(m, "barrier")
     \/ x.pc = "caughtUp" /\ CaughtUp(Target(m), x.idx) /\ Then(m, "digest")
     \/ /\ x.pc = "digest"
        /\ IF Open(x.lead) THEN Goes(m, [x EXCEPT !.pc = "compare", !.dig = Digest(Data(x.lead))])
           ELSE Fail(m)
     \/ /\ x.pc = "compare"
        /\ IF Open(Target(m)) /\ Digest(Data(Target(m))) = x.dig THEN Then(m, "ready") ELSE Fail(m)
     \/ /\ x.pc = "finaled" /\ Open(Target(m))
        /\ Data(Target(m)).conf.version >= FinalConf(m).version /\ Then(m, "finished")
  /\ UNCHANGED <<meta, grp, disk, node, router, tomb, staged, left>>

\* Promoted: a source that leads hands over to the first of the new voters,
\* once that has applied the leader's log.
FirstNewVoter(m) ==
  LET reps == mgr[m].desc.reps
      kept == {j \in 1 .. RF : reps[j].node # mgr[m].r.srcNode}
  IN IF kept = {} THEN Target(m)
     ELSE reps[CHOOSE j \in kept : \A k \in kept : j <= k].node

Transfers(m) ==
  LET x == mgr[m]
      to == FirstNewVoter(m)
  IN
  /\ \/ /\ x.pc = "transfer" /\ grp.lead # 0 /\ UNCHANGED grp
        /\ Goes(m, [x EXCEPT !.pc = IF grp.lead = x.r.srcNode THEN "handOver" ELSE "final",
                             !.idx = Len(grp.log)])
     \/ /\ x.pc = "handOver" /\ CaughtUp(to, x.idx)
        /\ IF grp.lead = x.r.srcNode /\ to \in Voters(Data(grp.lead).conf) /\ Data(to).have = Len(grp.log)
             THEN grp' = [grp EXCEPT !.transfer = to] /\ Then(m, "handedOver")
             ELSE Fail(m) /\ UNCHANGED grp
     \/ /\ x.pc = "handedOver" /\ grp.lead \notin {0, x.r.srcNode}
        /\ Then(m, "final") /\ UNCHANGED grp
  /\ UNCHANGED <<meta, disk, node, router, tomb, staged, left>>
---------------------------------------------------------------------------
(* Cutover and retirement *)

\* Mutant: the record is not read again before the catalog is changed.
CommitsBlind(m) ==
  LET x == mgr[m].r IN
  /\ mgr[m].pc = "commit"
  /\ meta' = [meta EXCEPT !.gen = @ + 1, !.ranges[Range] = Relocated(@, x),
                          !.moves[mgr[m].i].state = MCommitted]
  /\ Goes(m, [mgr[m] EXCEPT !.pc = "publish", !.r = [@ EXCEPT !.state = MCommitted]])
  /\ UNCHANGED <<grp, disk, node, router, tomb, staged, left>>

Commits(m) ==
  /\ mgr[m].pc = "commit"
  /\ \/ /\ CommitMigration(mgr[m].i, mgr[m].r.epoch)
        /\ Goes(m, [mgr[m] EXCEPT !.pc = "publish", !.r = [meta.moves[mgr[m].i] EXCEPT !.state = MCommitted]])
     \/ ~MayCommitMigration(mgr[m].i, mgr[m].r.epoch) /\ Fail(m) /\ UNCHANGED meta
  /\ UNCHANGED <<grp, disk, node, router, tomb, staged, left>>

\* InstallDynamicCatalog on every node; the target is opened if it is gone,
\* with the published voters, and serves from now on (ActivateMigration).
Published(m) ==
  LET d == meta.ranges[Range]
      r == mgr[m].r
      opens == ~Open(r.dstNode)
      known(k) == [node[k] EXCEPT !.desc = Descriptor(d), !.cat = d.gen]
  IN
  /\ node' = [k \in Nodes |->
       IF k = r.dstNode
         THEN [known(k) EXCEPT !.life = "Active", !.id = IF opens THEN r.dst ELSE @]
         ELSE known(k)]
  /\ disk' = IF opens /\ r.dst \notin DOMAIN disk
             THEN [k \in DOMAIN disk \cup {r.dst} |->
                     IF k = r.dst THEN Fresh(Conf(r.conf, {d.reps[j].node : j \in 1 .. RF}, {}, {}))
                     ELSE disk[k]]
             ELSE disk

Publishes(m) ==
  /\ mgr[m].pc = "publish" /\ Then(m, "retire")
  /\ Published(m) /\ router' = meta.ranges[Range].gen
  /\ UNCHANGED <<meta, grp, tomb, staged, left>>

\* RetireReplica: the tombstone is written, then the replica is closed.
Retired(n, id) ==
  /\ tomb' = tomb \cup {id}
  /\ node' = [node EXCEPT ![n].id = 0]
  /\ grp' = [grp EXCEPT !.lead = IF @ = n THEN 0 ELSE @]

Retires(m) ==
  /\ mgr[m].pc = "retire"
  /\ IF node[mgr[m].r.srcNode].id = mgr[m].r.src
       THEN Retired(mgr[m].r.srcNode, mgr[m].r.src) /\ Then(m, "retired")
       ELSE Fail(m) /\ UNCHANGED <<tomb, node, grp>>
  /\ UNCHANGED <<meta, disk, router, staged, left>>

\* reconcileRetired: as in Publishes, and the source is retired again if it
\* is open.
Reconciles(m) ==
  /\ \/ /\ mgr[m].pc = "reconcile" /\ Then(m, "retireAgain")
        /\ Published(m) /\ router' = meta.ranges[Range].gen
        /\ UNCHANGED <<tomb, grp>>
     \/ /\ mgr[m].pc = "retireAgain" /\ Done(m)
        /\ IF node[mgr[m].r.srcNode].id = mgr[m].r.src
             THEN Retired(mgr[m].r.srcNode, mgr[m].r.src)
             ELSE UNCHANGED <<tomb, node, grp>>
        /\ UNCHANGED <<disk, router>>
  /\ UNCHANGED <<meta, staged, left>>

\* The replica of the first catalog lives in the range's own directory, later
\* ones in directories below it.
Legacy(n) == {Bootstrap[Range].reps[j].id : j \in {k \in 1 .. RF : Bootstrap[Range].reps[k].node = n}}
Below(n) ==
  {meta.moves[i].dst : i \in {k \in DOMAIN meta.moves : meta.moves[k].dstNode = n}} \cap DOMAIN disk

\* Mutant: a tombstone is enough.
MayDeleteAlways(n, id) == id \in tomb

\* DeleteRetiredReplica: the range's directory goes only when nothing is below.
MayDelete(n, id) == id \in tomb /\ (id \in Below(n) \/ Below(n) = {})
Deleted(n, id) == IF id \in Below(n) THEN {id} ELSE Legacy(n) \cup Below(n)

DeleteSource(i) ==
  LET x == meta.moves[i] IN
  /\ left.deletes > 0 /\ x.state = MSourceRetired
  /\ ~On(meta.ranges[Range].reps, x.srcNode) /\ MayDelete(x.srcNode, x.src)
  /\ disk' = [d \in DOMAIN disk \ Deleted(x.srcNode, x.src) |-> disk[d]]
  /\ left' = [left EXCEPT !.deletes = @ - 1]
  /\ UNCHANGED <<meta, grp, node, router, tomb, staged, mgr>>
---------------------------------------------------------------------------
Nodes0 == {Bootstrap[Range].reps[j].node : j \in 1 .. RF}
Conf0 == Conf(1, Nodes0, {}, {})

MigrationInit ==
  /\ MetaInit
  /\ \E n \in Nodes0 :
       grp = [log |-> <<Entry("NoOp", NoConf, 0)>>, comm |-> 1, lead |-> n, start |-> 1, transfer |-> 0]
  /\ disk = [id \in UNION {Legacy(n) : n \in Nodes} |-> [have |-> 1, app |-> 1, conf |-> Conf0]]
  /\ node = [n \in Nodes |-> [id |-> IF Legacy(n) = {} THEN 0 ELSE CHOOSE id \in Legacy(n) : TRUE,
                              life |-> "Active", desc |-> Descriptor(Bootstrap[Range]),
                              cat |-> Bootstrap[Range].gen]]
  /\ router = Bootstrap[Range].gen /\ tomb = {}
  /\ staged = [i \in 1 .. Cardinality(Moves) |-> NoFile]
  /\ mgr = [m \in Managers |-> Idle] /\ left \in Budgets

MigrationNext ==
  \/ \E n \in Nodes : Replicate(n) \/ Elect(n) \/ Restart(n)
  \/ Commit \/ TransferExpires \/ Write \/ RefreshMetadata
  \/ \E i \in DOMAIN meta.moves : DeleteSource(i)
  \/ \E m \in Managers :
       \/ \E move \in Moves : MoveReplica(m, move)
       \/ \E i \in DOMAIN meta.moves : RecoverMigration(m, i)
       \/ Describes(m) \/ InstallTransition(m) \/ FindBase(m) \/ Advances(m)
       \/ OpensTarget(m) \/ CreateRaftSnapshot(m) \/ StageChunk(m) \/ FinalizeStagedSnapshot(m)
       \/ ProposeConfig(m) \/ ProposeBarrier(m) \/ ProposalApplied(m) \/ Waits(m) \/ Transfers(m)
       \/ Commits(m) \/ Publishes(m) \/ Retires(m) \/ Reconciles(m)

MigrationSpec == MigrationInit /\ [][MigrationNext]_mvars
---------------------------------------------------------------------------
(* Properties *)

\* No change of leader or of membership loses a committed entry
\* (RAFT-CONFIG-5): the old and the new voters overlap through the joint
\* configuration, although each replica goes by what it has applied.
CommittedEntriesStay ==
  [][SubSeq(grp'.log, 1, grp.comm) = SubSeq(grp.log, 1, grp.comm)]_mvars

\* The configuration that the committed entries determine.
Membership == ConfigAt(Conf0, grp.comm)

\* The target becomes a voter of the group only when its replica has applied
\* everything through the promotion barrier (MIGRATE-4).
VoterHasTheBarrier ==
  \A i \in DOMAIN meta.moves : LET x == meta.moves[i] IN
    MoveLive(x) /\ x.dstNode \in Voters(Membership) =>
      x.barrier # 0 /\ x.dst \in DOMAIN disk /\ disk[x.dst].app >= x.barrier

\* The metadata publishes a target after the group has made it a voter, and
\* drops a source after the group has removed it (MIGRATE-9, MIGRATE-10).
PublishedMatchesGroup ==
  LET published == {meta.ranges[Range].reps[j].node : j \in 1 .. RF}
      pending == {i \in DOMAIN meta.moves : meta.moves[i].state < MCommitted}
  IN
  /\ published \ {meta.moves[i].srcNode : i \in pending} \subseteq Voters(Membership)
  /\ Voters(Membership) \ {meta.moves[i].dstNode : i \in pending} \subseteq published

\* Every open replica and every voter of the group has its files, whatever was
\* retired and deleted on its node before (MIGRATE-13).
VotersKeepTheirFiles ==
  /\ \A n \in Nodes : Open(n) => node[n].id \in DOMAIN disk
  /\ \A n \in Voters(Membership) : \E id \in DOMAIN disk \ tomb :
       id \in Legacy(n) \cup Below(n) /\ (n \in Voters(disk[id].conf) \/ disk[id].app < grp.comm)

\* The two places where a stop leaves a migration that no call can finish: the
\* group has a configuration that the record does not know of yet, so that it
\* is proposed again and refused; the record is committed and the source is
\* closed, retired already or left out when its node restarted with the new
\* catalog, so that retiring it is refused.
Gap(i) ==
  LET x == meta.moves[i] IN
  \/ x.state \in {MReady, MPromoted} /\ Membership.version > x.conf
  \/ x.state = MCommitted /\ node[x.srcNode].id # x.src

\* A call during which nothing goes wrong fails only in one of the two gaps:
\* from everywhere else a recovery finishes forward.
RecoveryFailsOnlyInGaps ==
  \A m \in Managers : mgr[m].pc = "failed" /\ mgr[m].clean => Gap(mgr[m].i)
============================================================================
