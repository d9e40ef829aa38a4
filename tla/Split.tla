------------------------------- MODULE Split -------------------------------
(***************************************************************************)
(* An online range split (internal/multiraft/split_manager.go, router.go,  *)
(* node.go; internal/replicatedrange/state_machine.go applySplit,          *)
(* replica.go), with the user writes and the transaction that go on during *)
(* it.                                                                     *)
(*                                                                         *)
(* Every range is a Raft group of its own; what Raft and RaftReplica show  *)
(* of a group is used here: log[q] is the log of the range's leader,       *)
(* comm[q] the length of the prefix that is committed, st[q] the state     *)
(* machine of the leader after the st[q].n entries it has applied.  A new  *)
(* leader has every committed entry and may have applied fewer than the    *)
(* old one had.  A command the machine refuses is an apply error: the      *)
(* replica is stopped for good (dead), and so is every other one that      *)
(* reaches the entry.                                                      *)
(*                                                                         *)
(* Managers run SplitRange, RecoverSplit and AbortSplit concurrently, one  *)
(* call each.  A call, a write or a coordinator that times out or crashes  *)
(* takes no more steps, at any point; what it proposed stays in the logs.  *)
(***************************************************************************)
EXTENDS MetaRange, TxnMachine

Seqs == INSTANCE SequencesExt

CONSTANTS Parent,       \* the range that is split
          SplitKey,     \* where
          TxnKey,       \* the key the transaction writes
          RangeIds,     \* Parent and the children of every split attempted
          Managers,     \* the calls of the split manager, concurrent or not
          Budgets,      \* how many writes, transactions, calls and elections, where,
                        \* and how far clocks may run ahead of their floors
          MaxTime       \* bound on the clocks

VARIABLES log, st, comm,
          cat,      \* the catalogs of the nodes and of the router
          mgr,      \* the call each manager is in
          cli, txn, \* the writes and the transaction under way
          acked,    \* the versions reported written
          left      \* what is left of the budget

svars == <<meta, log, st, comm, cat, mgr, cli, txn, acked, left>>
---------------------------------------------------------------------------
(* Commands *)

SplitOps == {"Begin", "Barrier", "Version", "Replay", "Advance", "Fence",
             "Activate", "Retire", "AbortSplit"}
TxnOps == Commands \cup {"TxnBarrier"}

\* A command of any type.  at: SplitOperation.ParentIndex; img: ImageDigest, a
\* sequence of at most one image; seen: what the leader had committed when it
\* proposed the command, which every replica holding it has learned.
Command == [type |-> "NoOp", id |-> 0, epoch |-> 0, at |-> 0, key |-> 0, ts |-> 0,
            kind |-> "value", img |-> <<>>, ct |-> 0, rt |-> 0, seen |-> 0]

VersionOf(c) == [key |-> c.key, ts |-> c.ts, kind |-> c.kind]

\* maximumCommandTimestamp of the retained entries.
MaxTimestamp(entries) ==
  LET stamps == {entries[i].ts : i \in DOMAIN entries} \cup {0}
  IN CHOOSE t \in stamps : \A u \in stamps : u <= t

\* stateMachine and the replica's clock, when the replica is opened: a child
\* as a shadow, the parent as an active range.
Machine0(q) ==
  [n |-> 0, life |-> IF q = Parent THEN "Active" ELSE "Shadow", split |-> 0, epoch |-> 0,
   txnFence |-> FALSE, userFence |-> FALSE, boot |-> 0, image |-> <<>>, through |-> 0,
   prov |-> {}, data |-> {}, rec |-> NoRecord, part |-> NoParticipant, maxts |-> 0,
   clk |-> 0, start |-> 1, dead |-> FALSE]
---------------------------------------------------------------------------
(* stateMachine.Apply *)

\* applySplit returns an error.
SplitRefused(s, c) ==
  \/ s.split # 0 /\ (s.split # c.id \/ c.epoch < s.epoch)
  \/ c.type = "Begin" /\ (s.life # "Active" \/ (s.userFence /\ s.split # c.id))
  \/ c.type = "Barrier" /\
       \/ s.life = "Active" /\ ~s.txnFence
       \/ s.life = "Shadow" /\ s.boot = 0 /\ (c.at = 0 \/ c.ts = 0 \/ c.img = <<>>)
       \/ s.life = "Shadow" /\ s.boot # 0 /\ (c.at # s.boot \/ c.img \notin {<<>>, s.image})
       \/ s.life = "Retired"
  \/ c.type = "Version" /\ (s.life # "Shadow" \/ c.img # s.image)
  \/ c.type = "Replay" /\ (s.life # "Shadow" \/ (c.at # s.through + 1 /\ c.at \notin s.prov))
  \/ c.type = "Advance" /\ (s.life # "Shadow" \/ c.at # s.through + 1)
  \/ c.type = "Fence" /\ (s.life # "Active" \/ ~s.txnFence)
  \/ c.type = "Activate" /\ ~(s.life = "Active" /\ s.split = 0)
                         /\ (s.life # "Shadow" \/ s.through = 0)
  \/ c.type = "Retire" /\ s.life # "Retired" /\ ~(s.life = "Active" /\ s.userFence)
  \/ c.type = "AbortSplit" /\ (s.userFence \/ s.life # "Active")

\* What applySplit does otherwise.  A version that was applied before is in
\* data already; a replayed entry that was applied before changes nothing.
SplitApplied(s, c) ==
  LET t == [s EXCEPT !.epoch = Larger(@, c.epoch)]
      timed == [t EXCEPT !.clk = Larger(@, c.ts)]
      written == [timed EXCEPT !.data = @ \cup {VersionOf(c)}, !.maxts = Larger(@, c.ts)]
  IN
  CASE c.type = "Begin" -> [t EXCEPT !.split = c.id, !.txnFence = TRUE]
    [] c.type = "Barrier" /\ s.life = "Active" -> [timed EXCEPT !.boot = s.n + 1]
    [] c.type = "Barrier" /\ s.life = "Shadow" ->
         [timed EXCEPT !.split = c.id, !.boot = c.at, !.through = Larger(@, c.at),
                       !.image = IF s.boot = 0 THEN c.img ELSE @]
    [] c.type = "Version" -> written
    [] c.type = "Replay" ->
         IF c.at = s.through + 1
           THEN [written EXCEPT !.prov = @ \cup {c.at}, !.through = c.at] ELSE t
    [] c.type = "Advance" -> [timed EXCEPT !.through = c.at]
    [] c.type = "Fence" -> [t EXCEPT !.userFence = TRUE]
    [] c.type = "Activate" ->
         IF s.life = "Active" THEN t
           ELSE [t EXCEPT !.life = "Active", !.split = 0, !.epoch = 0]
    [] c.type = "Retire" -> [t EXCEPT !.life = "Retired"]
    [] c.type = "AbortSplit" ->
         [t EXCEPT !.split = 0, !.epoch = 0, !.boot = 0, !.txnFence = FALSE]

\* A user or transaction command is refused by a range that does not serve,
\* Create and Prepare also under the transaction fence.
UserRefused(s, c) ==
  \/ s.life # "Active" \/ s.userFence
  \/ c.type \in {"Create", "Prepare"} /\ s.txnFence
  \/ c.type = "Put" /\ c.ts <= s.maxts
  \/ c.type = "Create" /\ CreateConflicts(s.rec, c)
  \/ c.type \in {"Commit", "Abort"} /\ DecisionConflicts(s.rec, c)
  \/ c.type = "Takeover" /\ TakeoverConflicts(s.rec, c)
  \/ c.type = "Prepare" /\ PrepareConflicts(s.part, c)
  \/ c.type \in {"ResolveCommit", "ResolveAbort"} /\ ResolutionConflicts(s.part, c)

Clash(s, c) == \E v \in s.data : v.key = c.key /\ v.kind = "value" /\ v.ts > c.rt

UserApplied(s, c) ==
  LET seen == [s EXCEPT !.clk = Larger(@, c.ts)]
      mark(kind) == IF kind = "none" THEN {} ELSE {[key |-> c.key, ts |-> c.ct, kind |-> kind]}
  IN
  CASE c.type = "Put" -> [seen EXCEPT !.data = @ \cup {VersionOf(c)}, !.maxts = c.ts]
    [] c.type = "TxnBarrier" -> seen
    [] c.type = "Create" -> [seen EXCEPT !.rec = Created(@, c)]
    [] c.type \in {"Commit", "Abort"} -> [seen EXCEPT !.rec = Decided(@, c)]
    [] c.type = "Takeover" -> [seen EXCEPT !.rec = TakenOver(@, c)]
    [] c.type = "Prepare" ->
         LET kind == PreparedMark(s.part, "none", Clash(s, c)) IN
         [seen EXCEPT !.part = PreparedAs(@, c, Clash(s, c)), !.data = @ \cup mark(kind),
                      !.maxts = IF kind = "intent" THEN Larger(@, c.ct) ELSE @]
    [] c.type \in {"ResolveCommit", "ResolveAbort"} ->
         [seen EXCEPT !.part = Resolved(@, c),
                      !.data = @ \cup mark(ResolvedMark(s.part, "none", c))]

\* Mutant: Apply does not look at the final fence.
RefusedUnfenced(s, c) ==
  IF c.type \in SplitOps THEN SplitRefused(s, c) ELSE UserRefused([s EXCEPT !.userFence = FALSE], c)

\* One entry, applied by a replica.
Refused(s, c) == IF c.type \in SplitOps THEN SplitRefused(s, c) ELSE UserRefused(s, c)

Step(s, c) ==
  IF s.dead THEN s
  ELSE IF c.type = "NoOp" THEN [s EXCEPT !.n = @ + 1]
  ELSE IF Refused(s, c) THEN [s EXCEPT !.dead = TRUE]
  ELSE [(IF c.type \in SplitOps THEN SplitApplied(s, c) ELSE UserApplied(s, c))
          EXCEPT !.n = @ + 1]

\* The state machine of a replica that has applied the first n entries.
MachineAt(q, n) == Seqs!FoldLeft(Step, Machine0(q), SubSeq(log[q], 1, n))
---------------------------------------------------------------------------
(* The Raft group of a range *)

\* The leader appends a proposal.
Proposed(q, c) == log' = [log EXCEPT ![q] = Append(@, [c EXCEPT !.seen = st[q].n])]

\* The leader commits and applies the next entry.  Entries of older terms are
\* committed together with the first one of its own.
ApplyNext(q) ==
  /\ ~st[q].dead /\ st[q].n < Len(log[q])
  /\ st' = [st EXCEPT ![q] = Step(@, log[q][st[q].n + 1])]
  /\ comm' = [comm EXCEPT ![q] = Larger(@, IF st[q].n + 1 > @ THEN Larger(st[q].n + 1, st[q].start) ELSE @)]
  /\ UNCHANGED <<meta, log, cat, mgr, cli, txn, acked, left>>

Idle == [pc |-> "idle", id |-> 0, epoch |-> 0, wq |-> 0, wi |-> 0,
         state |-> 0, right |-> FALSE, final |-> FALSE, rec |-> NoRecord, img |-> {},
         todo |-> {}, head |-> 0, idx |-> 0]
Done == [Idle EXCEPT !.pc = "done"]
NoTxn == [pc |-> "idle", i |-> 0, ct |-> 0, rt |-> 0, home |-> "None"]

\* Another replica becomes leader: it holds the committed entries and possibly
\* more, has applied what it knew to be committed, and appends its no-op.
\* Proposals that wait on the old leader fail (failWaitersLocked).
LeaderChange(q) ==
  /\ left.elections > 0 /\ q \in left.elect /\ comm[q] > 0
  /\ \E keep \in comm[q] .. Len(log[q]), n \in log[q][comm[q]].seen .. comm[q] :
       LET s == MachineAt(q, n) IN
       /\ ~s.dead
       /\ log' = [log EXCEPT ![q] = Append(SubSeq(@, 1, keep), [Command EXCEPT !.seen = n])]
       /\ st' = [st EXCEPT ![q] = [s EXCEPT !.start = keep + 1]]
  /\ mgr' = [m \in Managers |-> IF mgr[m].wq = q THEN Done ELSE mgr[m]]
  /\ cli' = {w \in cli : w.q # q}
  /\ txn' = IF q = Parent /\ txn.i # 0 THEN [txn EXCEPT !.pc = "done", !.i = 0] ELSE txn
  /\ left' = [left EXCEPT !.elections = @ - 1]
  /\ UNCHANGED <<meta, comm, cat, acked>>
---------------------------------------------------------------------------
(* User writes: Router.PutMVCC, Node.ProposeMVCC, Replica.ProposeMVCC *)

\* Clock.Now above a floor.
Later(t) == {u \in t + 1 .. t + 1 + left.skew : u <= MaxTime}

\* Mutant: the floor is the clock, whatever the log holds.
FloorOfClock(q) == st[q].clk

\* A write's timestamp is above the clock and above every entry of the log.
Floor(q) == Larger(st[q].clk, MaxTimestamp(log[q]))

\* The range the router sends a key to, known to the nodes as well
\* (activeDescriptor).
Routes(k) == {q \in DOMAIN cat.router \cap DOMAIN cat.nodes : Contains(cat.router[q], k)}

ProposeMVCC(k) ==
  /\ left.puts > 0
  /\ \E q \in Routes(k) : \E t \in Later(Floor(q)) :
       /\ ~st[q].dead /\ st[q].life = "Active" /\ ~st[q].userFence
       /\ Proposed(q, [Command EXCEPT !.type = "Put", !.key = k, !.ts = t])
       /\ st' = [st EXCEPT ![q].clk = t]
       /\ cli' = cli \cup {[q |-> q, i |-> Len(log[q]) + 1, v |-> [key |-> k, ts |-> t]]}
  /\ left' = [left EXCEPT !.puts = @ - 1]
  /\ UNCHANGED <<meta, comm, cat, mgr, txn, acked>>

PutAcknowledged(w) ==
  /\ st[w.q].n >= w.i
  /\ acked' = acked \cup {w.v} /\ cli' = cli \ {w}
  /\ UNCHANGED <<meta, log, st, comm, cat, mgr, txn, left>>

\* The nodes know that the range was split: refreshMetadata.
RefreshMetadata ==
  /\ DOMAIN cat.router # DOMAIN cat.nodes
  /\ cat' = [cat EXCEPT !.router = meta.ranges]
  /\ UNCHANGED <<meta, log, st, comm, mgr, cli, txn, acked, left>>
---------------------------------------------------------------------------
(* One transaction that writes to the parent.  Its home is the parent, or a *)
(* range that is not split, of which only the record's status is kept:      *)
(* txn.home.                                                                *)

TxnCommand(type, e) ==
  [Command EXCEPT !.type = type, !.epoch = e, !.key = TxnKey, !.ct = txn.ct, !.rt = txn.rt,
                  !.ts = txn.ct]

\* What Node.ProposeTransaction and Replica.ProposeTransaction admit.
TxnAdmits(type) ==
  /\ Parent \in DOMAIN cat.router \cap DOMAIN cat.nodes
  /\ ~st[Parent].dead /\ st[Parent].life = "Active" /\ ~st[Parent].userFence
  /\ type \in {"Create", "Prepare"} => ~st[Parent].txnFence

\* AssignTransactionTimestamp: the commit time, replicated as a barrier.  No
\* lifecycle or fence is looked at.
AssignTransactionTimestamp ==
  /\ txn.pc = "idle" /\ left.txns > 0 /\ ~left.remote /\ ~st[Parent].dead
  /\ Parent \in DOMAIN cat.router \cap DOMAIN cat.nodes
  /\ \E t \in Later(Floor(Parent)) :
       /\ Proposed(Parent, [Command EXCEPT !.type = "TxnBarrier", !.ts = t])
       /\ st' = [st EXCEPT ![Parent].clk = t]
       /\ txn' = [NoTxn EXCEPT !.pc = "TxnBarrier", !.i = Len(log[Parent]) + 1,
                               !.ct = t, !.rt = Floor(Parent)]
  /\ left' = [left EXCEPT !.txns = @ - 1]
  /\ UNCHANGED <<meta, comm, cat, mgr, cli, acked>>

\* A home elsewhere assigns the time, above the parent's clock as its leader
\* reports it (Status.HLCFloor), and has the pending record.
CreateElsewhere ==
  /\ txn.pc = "idle" /\ left.txns > 0 /\ left.remote /\ ~st[Parent].dead
  /\ \E t \in Later(st[Parent].clk) :
       txn' = [NoTxn EXCEPT !.pc = "Prepare", !.ct = t, !.rt = st[Parent].clk, !.home = "Pending"]
  /\ left' = [left EXCEPT !.txns = @ - 1]
  /\ UNCHANGED <<meta, log, st, comm, cat, mgr, cli, acked>>

\* The decision at a home elsewhere: a record that was aborted stays aborted.
DecideElsewhere ==
  /\ txn.home # "None" /\ txn.pc \in {"Commit", "Abort"}
  /\ LET status == IF txn.home = "Aborted" \/ txn.pc = "Abort" THEN "Aborted" ELSE "Committed" IN
     /\ txn' = [txn EXCEPT !.home = status,
                           !.pc = IF status = "Committed" THEN "ResolveCommit" ELSE "ResolveAbort"]
     /\ acked' = IF status = "Committed" THEN acked \cup {[key |-> TxnKey, ts |-> txn.ct]} ELSE acked
  /\ UNCHANGED <<meta, log, st, comm, cat, mgr, cli, left>>

\* Transaction.Commit proposes the next command.
TxnPropose(type) ==
  /\ txn.pc = type /\ txn.i = 0 /\ TxnAdmits(type)
  /\ type \in {"Create", "Commit", "Abort"} => txn.home = "None"
  /\ Proposed(Parent, TxnCommand(type, 1))
  /\ txn' = [txn EXCEPT !.i = Len(log[Parent]) + 1]
  /\ UNCHANGED <<meta, st, comm, cat, mgr, cli, acked, left>>

\* What the coordinator does once a command is applied: commit when the
\* participant is prepared, and report success when the record says so.
TxnThen(type) ==
  CASE type = "TxnBarrier" -> "Create"
    [] type = "Create" -> "Prepare"
    [] type = "Prepare" -> IF st[Parent].part.status = "Prepared" THEN "Commit" ELSE "Abort"
    [] type \in {"Commit", "Abort"} ->
         IF st[Parent].rec.status = "Committed" THEN "ResolveCommit" ELSE "ResolveAbort"
    [] OTHER -> "done"

TxnApplied ==
  /\ txn.i # 0 /\ st[Parent].n >= txn.i
  /\ txn' = [txn EXCEPT !.pc = TxnThen(@), !.i = 0]
  /\ acked' = IF TxnThen(txn.pc) = "ResolveCommit"
                THEN acked \cup {[key |-> TxnKey, ts |-> txn.ct]} ELSE acked
  /\ UNCHANGED <<meta, log, st, comm, cat, mgr, cli, left>>

---------------------------------------------------------------------------
(* The split manager.  A call is a program counter and its local variables; *)
(* pc names what it does next, wi the index of the proposal it waits for.   *)

Split(m) == meta.splits[mgr[m].id]
Child(m) == IF mgr[m].right THEN Split(m).right ELSE Split(m).left

\* parentImage at the bootstrap barrier: no version above the barrier's
\* timestamp and no intent.  versionsForDescriptor is its part in one child.
ParentImage(boot) == {v \in st[Parent].data : v.ts <= log[Parent][boot].ts /\ v.kind # "intent"}
PartOf(versions, d) == {v \in versions : Contains(d, v.key)}
Oldest(versions) == CHOOSE v \in versions : \A u \in versions : v.ts <= u.ts

\* The command replay sends a child for one entry of the parent.
ReplayCommand(d, i) ==
  LET c == log[Parent][i] IN
  IF c.type = "Put" /\ Contains(d, c.key)
    THEN [Command EXCEPT !.type = "Replay", !.at = i, !.key = c.key, !.ts = c.ts]
    ELSE [Command EXCEPT !.type = "Advance", !.at = i, !.ts = c.ts]

\* The steps that propose a command and wait for it: to which range, and what.
AtParent == {"Begin", "Takeover", "Abort", "ResolveCommit", "ResolveAbort", "Barrier", "Fence",
             "Retire", "AbortSplit"}
AtChild == {"ChildBarrier", "Version", "ReplayBarrier", "Replay", "Activate"}

Target(m) == IF mgr[m].pc \in AtParent THEN Parent ELSE Child(m).id

SplitCommand(m) ==
  LET x == mgr[m]
      boot == Split(m).boot
      part == <<PartOf(x.img, Child(m))>>
      plain == [Command EXCEPT !.type = x.pc]
  IN
  CASE x.pc = "ChildBarrier" ->
         [plain EXCEPT !.type = "Barrier", !.at = boot, !.ts = log[Parent][boot].ts, !.img = part]
    [] x.pc = "Version" ->
         LET v == Oldest(x.todo) IN
         [plain EXCEPT !.at = boot, !.key = v.key, !.ts = v.ts, !.kind = v.kind, !.img = part]
    [] x.pc = "ReplayBarrier" -> [plain EXCEPT !.type = "Barrier", !.at = boot]
    [] x.pc = "Replay" -> ReplayCommand(Child(m), x.idx)
    [] OTHER -> plain

\* RecoverTransactions takes a pending record over, aborts it, and resolves it.
RecoveryCommand(m) ==
  LET x == mgr[m] IN
  [Command EXCEPT !.type = x.pc, !.key = TxnKey, !.ct = x.rec.ct, !.ts = x.rec.ct,
                  !.epoch = IF x.pc = "Takeover" THEN x.rec.epoch + 1 ELSE x.rec.epoch]

\* The next proposal of a call.  The parent's barrier is given the time of its
\* leader's clock, whatever the log holds (Replica.ProposeSplit).
ManagerProposes(m) ==
  /\ mgr[m].pc \in AtParent \cup AtChild /\ mgr[m].wi = 0 /\ ~st[Target(m)].dead
  /\ mgr[m].pc = "Replay" => log[Parent][mgr[m].idx].type \notin {"Create", "Prepare"}
  /\ LET q == Target(m)
         c == IF mgr[m].pc \in Commands THEN RecoveryCommand(m)
              ELSE [SplitCommand(m) EXCEPT !.id = mgr[m].id, !.epoch = mgr[m].epoch]
     IN
     /\ mgr[m].pc \in Commands => TxnAdmits(mgr[m].pc)
     /\ IF mgr[m].pc = "Barrier" /\ st[q].life = "Active"
          THEN \E t \in Later(st[q].clk) :
                 Proposed(q, [c EXCEPT !.ts = t]) /\ st' = [st EXCEPT ![q].clk = t]
          ELSE Proposed(q, c) /\ UNCHANGED st
     /\ mgr' = [mgr EXCEPT ![m].wq = q, ![m].wi = Len(log[q]) + 1]
  /\ UNCHANGED <<meta, comm, cat, cli, txn, acked, left>>

\* Where run goes on with a record in each state.
Resume(state) == <<"Records", "Image", "Head", "Fence", "Commit">>[state]

\* A call's local state once its proposal is applied at index i.
Proceeded(x, i) ==
  CASE x.pc = "Begin" -> [x EXCEPT !.pc = Resume(x.state)]
    [] x.pc = "Takeover" -> [x EXCEPT !.pc = "Abort", !.rec.epoch = @ + 1]
    [] x.pc = "Abort" -> [x EXCEPT !.pc = "ResolveAbort", !.rec.status = "Aborted"]
    [] x.pc \in {"ResolveCommit", "ResolveAbort"} -> [x EXCEPT !.pc = "Drained"]
    [] x.pc = "Barrier" -> [x EXCEPT !.pc = "Copying", !.head = i]
    [] x.pc = "ChildBarrier" -> [x EXCEPT !.pc = IF x.todo = {} THEN "Check" ELSE "Version"]
    [] x.pc = "Version" ->
         LET rest == x.todo \ {Oldest(x.todo)} IN
         [x EXCEPT !.todo = rest, !.pc = IF rest = {} THEN "Check" ELSE "Version"]
    [] x.pc = "ReplayBarrier" ->
         [x EXCEPT !.right = ~@, !.pc = IF x.right THEN "From" ELSE "ReplayBarrier"]
    [] x.pc = "Replay" ->
         [x EXCEPT !.right = ~@, !.idx = IF x.right THEN @ + 1 ELSE @,
                   !.pc = IF x.right /\ x.idx = x.head THEN "Replayed" ELSE "Replay"]
    [] x.pc = "Fence" -> [x EXCEPT !.pc = "ReplayBarrier", !.head = i, !.final = TRUE]
    [] x.pc = "Activate" -> [x EXCEPT !.right = ~@, !.pc = IF x.right THEN "Retire" ELSE "Activate"]
    [] x.pc = "Retire" -> Done
    [] x.pc = "AbortSplit" -> [x EXCEPT !.pc = "Aborted"]

ManagerApplied(m) ==
  /\ mgr[m].wi # 0 /\ st[mgr[m].wq].n >= mgr[m].wi
  /\ mgr' = [mgr EXCEPT ![m] = [Proceeded(@, mgr[m].wi) EXCEPT !.wq = 0, !.wi = 0]]
  /\ UNCHANGED <<meta, log, st, comm, cat, cli, txn, acked, left>>

---------------------------------------------------------------------------
(* The calls *)

Called(m, id, epoch, state, pc) ==
  /\ mgr[m].pc = "idle" /\ left.calls > 0
  /\ mgr' = [mgr EXCEPT ![m] = [Idle EXCEPT !.pc = pc, !.id = id, !.epoch = epoch, !.state = state]]
  /\ left' = [left EXCEPT !.calls = @ - 1]
  /\ UNCHANGED <<log, st, comm, cat, cli, txn, acked>>

\* SplitRange begins a split, or takes part in the one that is under way for
\* the same key.
SplitRange(m) ==
  \/ BeginSplit(Parent, SplitKey) /\ Called(m, Len(meta.splits) + 1, 1, Preparing, "Begin")
  \/ \E i \in DOMAIN meta.splits : LET s == meta.splits[i] IN
       /\ SplitLive(s) /\ s.parent = Parent
       /\ Called(m, i, s.epoch, s.state, "Begin") /\ UNCHANGED meta

RecoverSplit(m, i) ==
  LET s == meta.splits[i] IN
  \/ TakeoverSplit(i, s.epoch) /\ Called(m, i, s.epoch + 1, s.state, "Begin")
  \/ s.state = Committed /\ Called(m, i, s.epoch, s.state, "InstallNodes") /\ UNCHANGED meta

AbortSplit(m, i) ==
  LET s == meta.splits[i] IN
  /\ s.state \notin {Fenced, Committed, Aborted}
  /\ Called(m, i, s.epoch, s.state, "AbortSplit") /\ UNCHANGED meta

\* The steps of run between proposals.
Goes(m, pc, x) ==
  /\ mgr[m].pc = pc /\ mgr' = [mgr EXCEPT ![m] = x]
  /\ UNCHANGED <<cli, txn, acked, left>>

Reads(m, pc, x) == Goes(m, pc, x) /\ UNCHANGED <<meta, log, st, comm, cat>>

\* RecoverTransactions reads the records at the leaders of all ranges.
ReadRecords(m) ==
  LET r == st[Parent].rec IN
  Reads(m, "Records", [mgr[m] EXCEPT !.rec = r,
    !.pc = CASE r.status = "None" -> "Drained" [] r.status = "Pending" -> "Takeover"
             [] r.status = "Committed" -> "ResolveCommit" [] r.status = "Aborted" -> "ResolveAbort"])

\* A home elsewhere: its leader may lag and show nothing (then ReadRecords is
\* the step); a pending record is taken over and aborted there.
RecoverElsewhere(m) ==
  /\ mgr[m].pc = "Records" /\ txn.home # "None"
  /\ LET status == IF txn.home = "Pending" THEN "Aborted" ELSE txn.home IN
     /\ txn' = [txn EXCEPT !.home = status]
     /\ mgr' = [mgr EXCEPT ![m].rec = [status |-> status, ct |-> txn.ct, epoch |-> 2],
                           ![m].pc = IF status = "Committed" THEN "ResolveCommit" ELSE "ResolveAbort"]
  /\ UNCHANGED <<meta, log, st, comm, cat, cli, acked, left>>

\* Mutant: the manager does not wait for the transactions to end.
DrainReadyAlways(s) == TRUE

TransactionDrainReady(s) == s.rec.status # "Pending" /\ s.part.status # "Prepared"

Drains(m) ==
  Reads(m, "Drained", [mgr[m] EXCEPT !.pc = "Barrier"]) /\ TransactionDrainReady(st[Parent])

\* openChildren and parentImage.
OpensChildren(m) ==
  LET children == {Split(m).left.id, Split(m).right.id}
      new == {q \in children : log[q] = <<>>}
      image == ParentImage(Split(m).boot)
  IN
  /\ Goes(m, "Image", [mgr[m] EXCEPT !.pc = "ChildBarrier", !.img = image,
                                     !.todo = PartOf(image, Split(m).left)])
  /\ st[Parent].n >= Split(m).boot
  /\ log' = [q \in RangeIds |-> IF q \in new THEN <<Command>> ELSE log[q]]
  /\ st' = [q \in RangeIds |-> IF q \in new THEN [st[q] EXCEPT !.n = 1] ELSE st[q]]
  /\ comm' = [q \in RangeIds |-> IF q \in new THEN 1 ELSE comm[q]]
  /\ UNCHANGED <<meta, cat>>

\* waitChildImage, flushReplicas and checkChildImage: every replica of the
\* child holds exactly the image.
ChecksImage(m) ==
  LET s == st[Child(m).id]
      part == PartOf(mgr[m].img, Child(m))
  IN
  /\ mgr[m].pc = "Check" /\ s.image = <<part>> /\ s.data = part
  /\ Reads(m, "Check", [mgr[m] EXCEPT !.right = ~@, !.todo = PartOf(mgr[m].img, Split(m).right),
                                      !.pc = IF mgr[m].right THEN "CatchUp" ELSE "ChildBarrier"])

ReadsHead(m) == Reads(m, "Head", [mgr[m] EXCEPT !.pc = "ReplayBarrier", !.head = st[Parent].n])

\* replay starts above what both children have.
ReadsFrontier(m) ==
  LET l == st[Split(m).left.id].through
      r == st[Split(m).right.id].through
      from == (IF l < r THEN l ELSE r) + 1
  IN Reads(m, "From", [mgr[m] EXCEPT !.idx = from,
                                     !.pc = IF from > mgr[m].head THEN "Replayed" ELSE "Replay"])

\* Mutant: the partition is taken to be right.
VerifiedAlways(m) == TRUE

\* verifyPartition: each child's leader holds the parent's versions of its
\* keys, and its clock is past the parent's newest version.
VerifyPartition(m) ==
  \A d \in {Split(m).left, Split(m).right} :
    /\ st[d.id].data = {v \in PartOf(st[Parent].data, d) : v.kind # "intent"}
    /\ st[d.id].clk >= st[Parent].maxts

Verifies(m) ==
  /\ Reads(m, "Replayed", [mgr[m] EXCEPT !.pc = "Fenced"])
  /\ mgr[m].final /\ VerifyPartition(m)

\* The steps that record progress in the metadata.
Notes(m, pc, to, n, then) ==
  /\ Goes(m, pc, then) /\ AdvanceSplit(mgr[m].id, mgr[m].epoch, to, n)
  /\ UNCHANGED <<log, st, comm, cat>>

Advances(m) ==
  LET x == mgr[m]
      at(pc) == [x EXCEPT !.pc = pc, !.right = FALSE, !.img = {}, !.todo = {}, !.idx = 0]
  IN
  \/ Notes(m, "Copying", Copying, x.head, at("Image"))
  \/ Notes(m, "CatchUp", CatchingUp, Split(m).boot, at("Head"))
  \/ ~x.final /\ Notes(m, "Replayed", Ready, x.head, at("Fence"))
  \/ Notes(m, "Fenced", Fenced, x.head, at("Commit"))
  \/ Notes(m, "Aborted", Aborted, 0, Done)

Commits(m) ==
  /\ Goes(m, "Commit", [mgr[m] EXCEPT !.pc = "InstallNodes"])
  /\ CommitSplit(mgr[m].id, mgr[m].epoch)
  /\ UNCHANGED <<log, st, comm, cat>>

\* finishCommitted: the catalog goes to the nodes, then to the router.
Installs(m) ==
  /\ \/ /\ Goes(m, "InstallNodes", [mgr[m] EXCEPT !.pc = "InstallRouter"])
        /\ cat' = [cat EXCEPT !.nodes = meta.ranges]
     \/ /\ Goes(m, "InstallRouter", [mgr[m] EXCEPT !.pc = "Activate", !.right = FALSE])
        /\ cat' = [cat EXCEPT !.router = meta.ranges]
  /\ UNCHANGED <<meta, log, st, comm>>
---------------------------------------------------------------------------
SplitInit ==
  /\ MetaInit
  /\ log = [q \in RangeIds |-> IF q = Parent THEN <<Command>> ELSE <<>>]
  /\ st = [q \in RangeIds |-> [Machine0(q) EXCEPT !.n = IF q = Parent THEN 1 ELSE 0]]
  /\ comm = [q \in RangeIds |-> IF q = Parent THEN 1 ELSE 0]
  /\ cat = [nodes |-> Bootstrap, router |-> Bootstrap]
  /\ mgr = [m \in Managers |-> Idle] /\ cli = {} /\ txn = NoTxn
  /\ acked = {} /\ left \in Budgets

SplitNext ==
  \/ \E q \in RangeIds : ApplyNext(q) \/ LeaderChange(q)
  \/ \E k \in 0 .. Top - 1 : ProposeMVCC(k)
  \/ \E w \in cli : PutAcknowledged(w)
  \/ RefreshMetadata \/ AssignTransactionTimestamp \/ TxnApplied
  \/ CreateElsewhere \/ DecideElsewhere
  \/ \E type \in Commands : TxnPropose(type)
  \/ \E m \in Managers :
       \/ SplitRange(m)
       \/ \E i \in DOMAIN meta.splits : RecoverSplit(m, i) \/ AbortSplit(m, i)
       \/ ManagerProposes(m) \/ ManagerApplied(m)
       \/ ReadRecords(m) \/ RecoverElsewhere(m) \/ Drains(m) \/ OpensChildren(m) \/ ChecksImage(m)
       \/ ReadsHead(m) \/ ReadsFrontier(m) \/ Verifies(m)
       \/ Advances(m) \/ Commits(m) \/ Installs(m)

SplitSpec == SplitInit /\ [][SplitNext]_svars
---------------------------------------------------------------------------
(* Properties *)

\* The state that the committed prefix of a range determines.
CommittedMachine(q) == IF st[q].n = comm[q] THEN st[q] ELSE MachineAt(q, comm[q])

\* The range the metadata names as the authority for a key.
OwnerOf(k) == CHOOSE q \in DOMAIN meta.ranges : Contains(meta.ranges[q], k)

\* A write is there: as a version, or as an intent of a committed transaction.
Holds(s, v) ==
  \/ [key |-> v.key, ts |-> v.ts, kind |-> "value"] \in s.data
  \/ /\ [key |-> v.key, ts |-> v.ts, kind |-> "intent"] \in s.data
     /\ s.rec.status = "Committed" \/ txn.home = "Committed"

\* A write that was acknowledged is in the committed state of the range that
\* owns its key, before, during and after the cutover (SPLIT-5).
AcknowledgedWritesSurvive ==
  \A v \in acked : Holds(CommittedMachine(OwnerOf(v.key)), v)

\* When the cutover is recorded, each child that is not serving yet holds the
\* parent's versions of its keys and nothing else (SPLIT-7, SPLIT-8).
PartitionIsExact ==
  \A i \in DOMAIN meta.splits : meta.splits[i].state = Committed =>
    \A d \in {meta.splits[i].left, meta.splits[i].right} :
      LET s == CommittedMachine(d.id) IN
      s.life = "Shadow" =>
        s.data = {v \in PartOf(CommittedMachine(Parent).data, d) : v.kind # "intent"}

\* No intent is unresolved in the prefix that the image of a split is taken
\* from, although the drain looks at a leader that may lag (SPLIT-10).
NoIntentLeftBehind ==
  \A i \in DOMAIN meta.splits : meta.splits[i].state = Copying =>
    MachineAt(Parent, meta.splits[i].boot).part.status # "Prepared"

\* A write is given a timestamp above every acknowledged one of its key, by
\* whichever range and leader it is admitted.
AckedTimestampsGrow ==
  [][\A w \in cli' \ cli, v \in acked : v.key = w.v.key => v.ts < w.v.ts]_svars

============================================================================
