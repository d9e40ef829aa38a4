------------------------------- MODULE Raft -------------------------------
(***************************************************************************)
(* The Raft core of a range (internal/raft/node.go, membership.go).        *)
(*                                                                         *)
(* A Node is a deterministic state machine driven by Tick, Step and the    *)
(* proposal calls; each call persists what it changed before it returns    *)
(* the messages to send.  So a node is a record, every method is an        *)
(* operator from records to records, and every call is one action.         *)
(*                                                                         *)
(* s.log is the log from index 1.  Entries up to s.snap are compacted: the *)
(* code keeps a snapshot in their place, and their values stand for what   *)
(* that snapshot contains.  The code never reads below s.snap.             *)
(*                                                                         *)
(* Membership entries take effect when they are applied.                   *)
(***************************************************************************)
EXTENDS Naturals, Sequences, SequencesExt

CONSTANTS Nodes,         \* every node that takes part at some time
          None,          \* no node: NodeID 0
          Commands,      \* opaque client commands
          NoCommand,     \* what a no-op or a configuration entry carries
          InitialConfig, \* the committed configuration all nodes start from
          Targets,       \* configurations ProposeConfiguration is called with
          Campaigning,   \* the nodes whose election timer may fire
          Barriers,      \* the nodes asked to propose a no-op barrier
          Crashing,      \* the nodes that may crash and be reopened
          Compacting,    \* the nodes that take snapshots
          Transferring,  \* the nodes asked to hand their leadership over
          MaxTerm,       \* bound: terms
          MaxLog,        \* bound: log length
          MaxNet         \* bound: messages in flight

VARIABLES node,          \* each node's state
          net            \* messages sent and neither handled nor lost

vars == <<node, net>>

Configurations == [version : Nat, old : SUBSET Nodes, new : SUBSET Nodes,
                   learners : SUBSET Nodes]

NoConfig == [version |-> 0, old |-> {}, new |-> {}, learners |-> {}]

ASSUME RaftAssumption ==
  /\ None \notin Nodes /\ NoCommand \notin Commands
  /\ InitialConfig \in Configurations /\ Targets \subseteq Configurations
  /\ InitialConfig.version > 0 /\ InitialConfig.old # {}
  /\ UNION {Campaigning, Barriers, Crashing, Compacting, Transferring} \subseteq Nodes
  /\ MaxTerm \in Nat /\ MaxLog \in Nat /\ MaxNet \in Nat
---------------------------------------------------------------------------
(* Configuration *)

Joint(c) == c.new # {}
Voter(c, i) == i \in c.old \cup c.new
Members(c) == c.old \cup c.new \cup c.learners

Majority(voters, acks) == 2 * Cardinality(voters \cap acks) > Cardinality(voters)

\* Mutant: a joint configuration asks its new voters only.
QuorumOfNew(c, acks) == Majority(IF Joint(c) THEN c.new ELSE c.old, acks)

Quorum(c, acks) == Majority(c.old, acks) /\ (Joint(c) => Majority(c.new, acks))

ValidTransition(from, to) ==
  /\ to.version = from.version + 1
  /\ to.learners \cap (to.old \cup to.new) = {} /\ to.old # {}
  /\ IF Joint(from) THEN ~Joint(to) /\ to.old = from.new ELSE to.old = from.old
---------------------------------------------------------------------------
(* The log *)

Entry(t, c, conf) == [term |-> t, cmd |-> c, conf |-> conf]
NoOp(t) == Entry(t, NoCommand, NoConfig)
Entries == [term : Nat, cmd : Commands \cup {NoCommand}, conf : Configurations]

LastIndex(s) == Len(s.log)
TermAt(s, i) == IF i = 0 THEN 0 ELSE s.log[i].term
LastTerm(s) == TermAt(s, LastIndex(s))

\* Mutant: only the length of the logs is compared.
LogUpToDateByLength(s, index, term) == index >= LastIndex(s)

LogUpToDate(s, index, term) ==
  term > LastTerm(s) \/ (term = LastTerm(s) /\ index >= LastIndex(s))

\* The first index, after the snapshot, of the run of entries with i's term.
FirstIndexOfTerm(s, i) ==
  Min({k \in s.snap .. i : \A j \in k .. i : TermAt(s, j) = TermAt(s, i)})
---------------------------------------------------------------------------
(* Messages *)

AppendMsg(i, j, t, prev, prevTerm, entries, commit) ==
  [type |-> "Append", from |-> i, to |-> j, term |-> t, prev |-> prev,
   prevTerm |-> prevTerm, entries |-> entries, commit |-> commit]

SnapshotMsg(i, j, t, prefix, conf) ==
  [type |-> "Snapshot", from |-> i, to |-> j, term |-> t, prefix |-> prefix, conf |-> conf]

AppendReply(s, to, ok, match, hint) ==
  [type |-> "AppendReply", from |-> s.id, to |-> to, term |-> s.term,
   ok |-> ok, match |-> match, hint |-> hint]

SnapshotReply(s, to, ok, match) ==
  [type |-> "SnapshotReply", from |-> s.id, to |-> to, term |-> s.term,
   ok |-> ok, match |-> match]

\* A map lookup of a peer the map does not hold yields 0.
NextOf(s, p) == IF p \in DOMAIN s.next THEN s.next[p] ELSE 0
MatchOf(s, p) == IF p \in DOMAIN s.match THEN s.match[p] ELSE 0

ReplicationMessage(s, p) ==
  LET next == NextOf(s, p) IN
  IF next <= s.snap
    THEN SnapshotMsg(s.id, p, s.term, SubSeq(s.log, 1, s.snap), s.snapConf)
    ELSE AppendMsg(s.id, p, s.term, next - 1, TermAt(s, next - 1),
                   SubSeq(s.log, next, LastIndex(s)), s.commit)

ReplicationMessages(s) == {ReplicationMessage(s, p) : p \in Members(s.conf) \ {s.id}}
---------------------------------------------------------------------------
(* Methods of Node that change only the node. *)

BecomeFollower(s, leader) ==
  [s EXCEPT !.role = "Follower", !.leader = leader, !.votes = {},
            !.next = <<>>, !.match = <<>>, !.transferring = FALSE]

AdvanceTerm(s, t) == [BecomeFollower(s, None) EXCEPT !.term = t, !.vote = None]

\* A leader tracks exactly the members; a node left out steps down.
InstallConfiguration(s, c) ==
  LET tracked == [s EXCEPT !.conf = c,
        !.next = IF s.role # "Leader" THEN @ ELSE
                   [p \in Members(c) |-> IF p \in DOMAIN @ THEN @[p] ELSE LastIndex(s) + 1],
        !.match = IF s.role # "Leader" THEN @ ELSE
                   [p \in Members(c) |-> IF p \in DOMAIN @ THEN @[p] ELSE s.snap]]
  IN IF ~Voter(c, s.id) /\ s.role # "Follower" THEN BecomeFollower(tracked, None) ELSE tracked

\* Applying one entry; an unexpected configuration is a fatal apply error.
ApplyEntry(s, e) ==
  IF s.stopped THEN s
  ELSE IF e.conf.version <= s.conf.version THEN [s EXCEPT !.applied = @ + 1]
  ELSE IF ~ValidTransition(s.conf, e.conf) THEN [s EXCEPT !.stopped = TRUE]
  ELSE [InstallConfiguration(s, e.conf) EXCEPT !.applied = @ + 1]

\* Set the commit index and apply up to it.
CommitTo(s, c) == FoldLeft(ApplyEntry, [s EXCEPT !.commit = c], SubSeq(s.log, s.applied + 1, c))

\* The last entry of the leader's own term that a quorum holds.
AdvanceCommit(s) ==
  LET covered(k) == {p \in DOMAIN s.match : s.match[p] >= k}
      ok == {k \in s.commit + 1 .. LastIndex(s) :
               TermAt(s, k) = s.term /\ Quorum(s.conf, covered(k))}
  IN IF s.role # "Leader" \/ ok = {} THEN s ELSE CommitTo(s, Max(ok))

\* Append to the leader's own log and count the leader's own copy.
Admit(s, e) ==
  LET k == LastIndex(s) + 1 IN
  AdvanceCommit([s EXCEPT !.log = Append(@, e), !.match[s.id] = k, !.next[s.id] = k + 1])

BecomeLeader(s) ==
  Admit([s EXCEPT !.role = "Leader", !.leader = s.id, !.votes = {},
                  !.next = [p \in Members(s.conf) |-> LastIndex(s) + 1],
                  !.match = [p \in Members(s.conf) |-> s.snap]],
        NoOp(s.term))
---------------------------------------------------------------------------
(* Calls that also send: the new state and the messages returned. *)

Result(s, out) == [s |-> s, out |-> out]
Leading(s) == Result(BecomeLeader(s), ReplicationMessages(BecomeLeader(s)))

StartElection(s) ==
  LET c == [s EXCEPT !.role = "Candidate", !.leader = None, !.term = @ + 1, !.vote = s.id,
                     !.votes = {s.id}, !.next = <<>>, !.match = <<>>]
  IN IF Quorum(c.conf, {s.id}) THEN Leading(c)
     ELSE Result(c, {[type |-> "Vote", from |-> s.id, to |-> p, term |-> c.term,
                      lastIndex |-> LastIndex(c), lastTerm |-> LastTerm(c)] :
                       p \in (c.conf.old \cup c.conf.new) \ {s.id}})

Grants(s, m) ==
  /\ Voter(s.conf, s.id) /\ Voter(s.conf, m.from)
  /\ m.term = s.term /\ LogUpToDate(s, m.lastIndex, m.lastTerm)
  /\ s.vote \in {None, m.from}

HandleVote(s, m) ==
  Result(IF Grants(s, m) THEN [s EXCEPT !.vote = m.from] ELSE s,
         {[type |-> "VoteReply", from |-> s.id, to |-> m.from, term |-> s.term,
           granted |-> Grants(s, m)]})

HandleVoteReply(s, m) ==
  LET v == [s EXCEPT !.votes = IF m.granted THEN @ \cup {m.from} ELSE @] IN
  IF s.role # "Candidate" \/ m.term # s.term THEN Result(s, {})
  ELSE IF Quorum(v.conf, v.votes) THEN Leading(v) ELSE Result(v, {})

\* Where the incoming entries first differ from the log or run past it.
Divergence(s, m) ==
  {k \in DOMAIN m.entries : \/ m.prev + k > LastIndex(s)
                            \/ TermAt(s, m.prev + k) # m.entries[k].term}

Merged(s, m) ==
  IF Divergence(s, m) = {} THEN s.log
  ELSE LET k == Min(Divergence(s, m)) IN
       SubSeq(s.log, 1, m.prev + k - 1) \o SubSeq(m.entries, k, Len(m.entries))

PrevAgrees(s, m) == TermAt(s, m.prev) = m.prevTerm

\* The checks RAFT-1, RAFT-3 and RAFT-4 that panic, for an append taken by s.
AppendPanics(s, m) ==
  \/ s.role = "Leader"
  \/ /\ m.prev >= s.snap /\ m.prev <= LastIndex(s) /\ PrevAgrees(s, m)
     /\ \E k \in DOMAIN m.entries :
          /\ \A j \in 1 .. k - 1 : j \notin Divergence(s, m)
          /\ m.prev + k <= LastIndex(s)
          /\ \/ k \notin Divergence(s, m) /\ s.log[m.prev + k] # m.entries[k]
             \/ k \in Divergence(s, m) /\ m.prev + k <= s.commit

HandleAppend(s, m) ==
  LET f == IF s.role # "Follower" \/ s.leader # m.from THEN BecomeFollower(s, m.from) ELSE s
      covered == m.prev + Len(m.entries)
      stored == [f EXCEPT !.log = Merged(f, m)]
      after == IF m.commit > f.commit THEN CommitTo(stored, Min({m.commit, covered})) ELSE stored
      reject(k, hint) == Result(k, {AppendReply(k, m.from, FALSE, 0, hint)})
  IN CASE m.term < s.term -> reject(s, LastIndex(s) + 1)
       [] m.term >= s.term /\ AppendPanics(s, m) -> Result([s EXCEPT !.stopped = TRUE], {})
       [] m.term >= s.term /\ ~AppendPanics(s, m) ->
            IF m.prev < f.snap THEN reject(f, f.snap + 1)
            ELSE IF m.prev > LastIndex(f) THEN reject(f, LastIndex(f) + 1)
            ELSE IF ~PrevAgrees(f, m) THEN reject(f, FirstIndexOfTerm(f, m.prev))
            ELSE Result(after, {AppendReply(after, m.from, TRUE, covered, 0)})

HandleAppendReply(s, m) ==
  LET better == m.match > MatchOf(s, m.from)
      moved == AdvanceCommit(IF better THEN [s EXCEPT !.match[m.from] = m.match,
                                                      !.next[m.from] = m.match + 1] ELSE s)
      current == NextOf(s, m.from)
      hint == IF m.hint > current /\ m.hint <= LastIndex(s) + 1 THEN m.hint
              ELSE IF m.hint = 0 \/ m.hint >= current THEN (IF current > 1 THEN current - 1 ELSE 1)
              ELSE m.hint
      probing == [s EXCEPT !.next[m.from] = hint]
  IN CASE s.role # "Leader" \/ m.term # s.term -> Result(s, {})
       [] s.role = "Leader" /\ m.term = s.term /\ m.ok ->
            IF m.match > LastIndex(s) THEN Result(s, {}) ELSE
            Result(moved, IF moved.commit # s.commit THEN ReplicationMessages(moved) ELSE {})
       [] s.role = "Leader" /\ m.term = s.term /\ ~m.ok ->
            Result(probing, {ReplicationMessage(probing, m.from)})

\* Mutant: only the last snapshot is compared, not the commit index.
SnapshotIsOlder(s, k) == k <= s.snap

SnapshotIsOld(s, k) == k <= s.snap \/ k <= s.commit

\* Mutant: the snapshot's configuration is dropped.
TakeNoConfiguration(s, c) == s

TakeConfiguration(s, c) == IF c.version > s.conf.version THEN InstallConfiguration(s, c) ELSE s

\* A snapshot replaces the log up to its index; the rest of the log stays
\* only if the log agrees with the snapshot at that index.
HandleSnapshot(s, m) ==
  LET f == BecomeFollower(s, m.from)
      k == Len(m.prefix)
      suffix == IF k <= LastIndex(f) /\ TermAt(f, k) = m.prefix[k].term
                  THEN SubSeq(f.log, k + 1, LastIndex(f)) ELSE <<>>
      taken == [f EXCEPT !.log = m.prefix \o suffix, !.snap = k, !.snapConf = m.conf,
                         !.commit = Max({@, k}), !.applied = k]
      done == TakeConfiguration(taken, m.conf)
  IN CASE m.term < s.term -> Result(s, {SnapshotReply(s, m.from, FALSE, s.snap)})
       [] m.term >= s.term /\ k = 0 -> Result(s, {})
       [] m.term >= s.term /\ k > 0 /\ s.role = "Leader" -> Result([s EXCEPT !.stopped = TRUE], {})
       [] m.term >= s.term /\ k > 0 /\ s.role # "Leader" ->
            IF SnapshotIsOld(f, k)
              THEN Result(f, {SnapshotReply(f, m.from, TRUE,
                                            Min({Max({k, f.snap}), LastIndex(f)}))})
              ELSE Result(done, {SnapshotReply(done, m.from, TRUE, k)})

HandleSnapshotReply(s, m) ==
  LET match == Max({MatchOf(s, m.from), m.match})
      t == [s EXCEPT !.match[m.from] = match, !.next[m.from] = match + 1]
  IN IF s.role # "Leader" \/ m.term # s.term \/ ~m.ok \/ m.match > LastIndex(s)
       THEN Result(s, {}) ELSE Result(t, {ReplicationMessage(t, m.from)})

HandleTimeoutNow(s, m) ==
  IF m.term # s.term \/ s.role # "Follower" \/ s.leader # m.from \/ ~Voter(s.conf, s.id)
    THEN Result(s, {}) ELSE StartElection(s)

Handle(s, m) ==
  CASE m.type = "Vote"          -> HandleVote(s, m)
    [] m.type = "VoteReply"     -> HandleVoteReply(s, m)
    [] m.type = "Append"        -> HandleAppend(s, m)
    [] m.type = "AppendReply"   -> HandleAppendReply(s, m)
    [] m.type = "Snapshot"      -> HandleSnapshot(s, m)
    [] m.type = "SnapshotReply" -> HandleSnapshotReply(s, m)
    [] m.type = "TimeoutNow"    -> HandleTimeoutNow(s, m)

\* Node.Step; a message from a node that is no member is refused unread.
Step(s, m) ==
  IF m.from \notin Members(s.conf) THEN Result(s, {})
  ELSE Handle(IF m.term > s.term THEN AdvanceTerm(s, m.term) ELSE s, m)
---------------------------------------------------------------------------
(* Actions.  A message may be delivered late, out of order and more than   *)
(* once; one that is lost is one that never joins net.                     *)

Fresh(i) ==
  [id |-> i, term |-> 0, vote |-> None, log |-> <<>>, snap |-> 0, snapConf |-> NoConfig,
   conf |-> InitialConfig, role |-> "Follower", leader |-> None, commit |-> 0, applied |-> 0,
   votes |-> {}, next |-> <<>>, match |-> <<>>, transferring |-> FALSE, stopped |-> FALSE]

Init ==
  /\ node = [i \in Nodes |-> Fresh(i)]
  /\ net = {}

\* A call on node i returned r; some of its messages join the ones in flight.
Returns(i, r, flying) ==
  /\ node' = [node EXCEPT ![i] = r.s]
  /\ \E sent \in SUBSET (IF r.s.stopped THEN {} ELSE r.out) :
       Cardinality(flying \cup sent) <= MaxNet /\ net' = flying \cup sent
  /\ r.s.term <= MaxTerm /\ LastIndex(r.s) <= MaxLog

Running(i) == ~node[i].stopped

Receive(m) ==
  /\ Running(m.to)
  /\ \E flying \in {net, net \ {m}} : Returns(m.to, Step(node[m.to], m), flying)

\* Tick past the election timeout, and past the heartbeat interval.
Timeout(i) ==
  /\ Running(i) /\ node[i].role # "Leader" /\ Voter(node[i].conf, i)
  /\ Returns(i, StartElection(node[i]), net)

Heartbeat(i) ==
  /\ Running(i) /\ node[i].role = "Leader"
  /\ Returns(i, Result(node[i], ReplicationMessages(node[i])), net)

\* A transfer that did not succeed within an election timeout is forgotten.
TransferExpires(i) ==
  /\ Running(i) /\ node[i].role = "Leader" /\ node[i].transferring
  /\ node' = [node EXCEPT ![i].transferring = FALSE]
  /\ UNCHANGED net

MayPropose(i) == Running(i) /\ node[i].role = "Leader" /\ ~node[i].transferring

Proposes(i, e) ==
  LET s == Admit(node[i], e) IN MayPropose(i) /\ Returns(i, Result(s, ReplicationMessages(s)), net)

Propose(i, c) == Proposes(i, Entry(node[i].term, c, NoConfig))
ProposeNoOp(i) == Proposes(i, NoOp(node[i].term))

\* Only one configuration entry may be uncommitted.
ProposeConfiguration(i, c) ==
  /\ ValidTransition(node[i].conf, c)
  /\ \A k \in node[i].commit + 1 .. LastIndex(node[i]) : node[i].log[k].conf = NoConfig
  /\ Proposes(i, Entry(node[i].term, NoCommand, c))

TransferLeadership(i, j) ==
  LET s == node[i] IN
  /\ Running(i) /\ s.role = "Leader" /\ j # i /\ Voter(s.conf, j)
  /\ MatchOf(s, j) >= LastIndex(s)
  /\ Returns(i, Result([s EXCEPT !.transferring = TRUE],
                       {[type |-> "TimeoutNow", from |-> i, to |-> j, term |-> s.term]}), net)

CreateSnapshot(i) ==
  /\ Running(i) /\ node[i].applied > node[i].snap
  /\ node' = [node EXCEPT ![i].snap = node[i].applied, ![i].snapConf = node[i].conf]
  /\ UNCHANGED net

\* NewNode on the persisted state; it refuses some states.
Reopens(s) ==
  /\ s.id \in Members(s.conf)
  /\ s.vote = None \/ Voter(s.conf, s.vote)

Restart(i) ==
  /\ Reopens(node[i])
  /\ node' = [node EXCEPT ![i] = [Fresh(i) EXCEPT
        !.term = node[i].term, !.vote = node[i].vote, !.log = node[i].log,
        !.snap = node[i].snap, !.snapConf = node[i].snapConf, !.conf = node[i].conf,
        !.commit = node[i].snap, !.applied = node[i].snap]]
  /\ UNCHANGED net

\* Elections, replication, changes of members and of leaders.
GroupStep ==
  \/ \E m \in net : Receive(m)
  \/ \E i \in Nodes : Heartbeat(i) \/ TransferExpires(i)
  \/ \E i \in Nodes, c \in Targets : ProposeConfiguration(i, c)
  \/ \E i \in Campaigning : Timeout(i)
  \/ \E i \in Transferring, j \in Nodes : TransferLeadership(i, j)

Next ==
  \/ GroupStep
  \/ \E i \in Nodes, c \in Commands : Propose(i, c)
  \/ \E i \in Barriers : ProposeNoOp(i)
  \/ \E i \in Compacting : CreateSnapshot(i)
  \/ \E i \in Crashing : Restart(i)

Spec == Init /\ [][Next]_vars
---------------------------------------------------------------------------
(* Properties *)

\* RAFT-1: at most one leader is elected per term.
ElectionSafety ==
  \A i, j \in Nodes : node[i].role = "Leader" /\ node[j].role = "Leader"
                      /\ node[i].term = node[j].term => i = j

\* RAFT-3: logs that agree on the term of an entry agree on it and on
\* everything before it.
LogMatching ==
  \A i, j \in Nodes : \A k \in 1 .. Min({LastIndex(node[i]), LastIndex(node[j])}) :
    TermAt(node[i], k) = TermAt(node[j], k)
      => SubSeq(node[i].log, 1, k) = SubSeq(node[j].log, 1, k)

\* RAFT-5: two nodes never apply different entries at one index.
StateMachineSafety ==
  \A i, j \in Nodes : \A k \in 1 .. Min({node[i].applied, node[j].applied}) :
    node[i].log[k] = node[j].log[k]

\* RAFT-4: what any node has applied is in the log of every later leader.
LeaderCompleteness ==
  \A i, j \in Nodes :
    node[j].role = "Leader" /\ node[j].term > node[i].term /\ node[i].applied > 0
      => IsPrefix(SubSeq(node[i].log, 1, node[i].applied), node[j].log)

\* The four together, through elections, restarts and changes of members.
RaftSafety == ElectionSafety /\ LogMatching /\ StateMachineSafety /\ LeaderCompleteness

\* RAFT-2, RAFT-6, RAFT-7, RAFT-8 and RAFT-13: terms only grow, also over a
\* restart, and a vote stays in its term; a leader only appends to its log;
\* what a node has applied is never taken back, and its commit index does not
\* decrease while it runs.
NothingIsTakenBack ==
  [][\A i \in Nodes : LET s == node[i] IN LET t == node'[i] IN
       /\ t.term >= s.term
       /\ t.term = s.term /\ s.vote # None => t.vote = s.vote
       /\ s.role = "Leader" /\ t.role = "Leader" /\ t.term = s.term => IsPrefix(s.log, t.log)
       /\ IsPrefix(SubSeq(s.log, 1, s.applied), t.log)
       /\ (t.commit >= s.commit /\ t.applied >= s.applied) \/ Restart(i)]_vars

\* RAFT-CONFIG-6: no committed configuration is refused when it is applied, no
\* assertion of node.go fails, and while a node runs its configuration is the
\* newest one among the entries it has applied, wherever they came from.
ConfigurationIsApplied ==
  \A i \in Nodes : LET s == node[i] IN
    /\ ~s.stopped
    /\ s.conf.version = Max({InitialConfig.version} \cup {s.log[k].conf.version : k \in 1 .. s.applied})
===========================================================================
