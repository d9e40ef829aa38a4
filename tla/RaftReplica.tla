---------------------------- MODULE RaftReplica ----------------------------
(***************************************************************************)
(* The proposal waiters of a range replica over its Raft node              *)
(* (internal/replicatedrange/replica.go).                                  *)
(*                                                                         *)
(* A proposal registers a waiter under the log index Raft gave it.  Every  *)
(* call into the node ends in afterRaftLocked, which answers waiters from  *)
(* the node's status: success for an index that is applied, an error for   *)
(* all of them when the call failed or leadership was lost.                *)
(***************************************************************************)
EXTENDS Raft

CONSTANTS MaxWaiters     \* Options.MaxProposalWaiters

VARIABLES waiting,       \* per node, the entry proposed at each awaited index
          told           \* proposals answered with success: node, index, entry,
                         \* and whether the node still led when it answered

rvars == <<node, net, waiting, told>>

RInit ==
  /\ Init
  /\ waiting = [i \in Nodes |-> <<>>]
  /\ told = {}
---------------------------------------------------------------------------
FailWaiters(i) == waiting' = [waiting EXCEPT ![i] = <<>>] /\ UNCHANGED told

\* Mutant: waiters survive the loss of leadership.
AfterRaftKeepsWaiters(i, w, failed) ==
  LET done == {k \in DOMAIN w : k <= node'[i].applied} IN
  IF failed \/ node'[i].stopped THEN FailWaiters(i)
  ELSE /\ told' = told \cup {[node |-> i, index |-> k, entry |-> w[k],
                              led |-> node'[i].role = "Leader"] : k \in done}
       /\ waiting' = [waiting EXCEPT ![i] = [k \in DOMAIN w \ done |-> w[k]]]

\* Mutant: an entry the leader has stored counts as done.
AfterRaftAdmitted(i, w, failed) ==
  /\ told' = told \cup {[node |-> i, index |-> k, entry |-> w[k],
                         led |-> node'[i].role = "Leader"] : k \in DOMAIN w}
  /\ waiting' = [waiting EXCEPT ![i] = <<>>]

\* afterRaftLocked, on the waiters w of node i: applied indexes are answered
\* before it looks at the role.
AfterRaft(i, w, failed) ==
  LET done == {k \in DOMAIN w : k <= node'[i].applied}
      lost == node[i].role = "Leader" /\ node'[i].role # "Leader"
  IN IF failed \/ node'[i].stopped THEN FailWaiters(i)
     ELSE /\ told' = told \cup {[node |-> i, index |-> k, entry |-> w[k],
                                 led |-> node'[i].role = "Leader"] : k \in done}
          /\ waiting' = [waiting EXCEPT ![i] =
                           IF lost THEN <<>> ELSE [k \in DOMAIN w \ done |-> w[k]]]

\* The call on node i admitted entry e at the next index; its waiter joins.
Registered(i, e) ==
  LET k == LastIndex(node[i]) + 1 IN
  [j \in DOMAIN waiting[i] \cup {k} |-> IF j = k THEN e ELSE waiting[i][j]]

WaiterFree(i) == Cardinality(DOMAIN waiting[i]) < MaxWaiters

RPropose(i, c) ==
  /\ WaiterFree(i) /\ Propose(i, c)
  /\ AfterRaft(i, Registered(i, Entry(node[i].term, c, NoConfig)), FALSE)

RProposeConfiguration(i, c) ==
  /\ WaiterFree(i) /\ ProposeConfiguration(i, c)
  /\ AfterRaft(i, Registered(i, Entry(node[i].term, NoCommand, c)), FALSE)

\* The barrier takes a waiter whether or not one is free.
RProposeBarrier(i) ==
  /\ ProposeNoOp(i)
  /\ AfterRaft(i, Registered(i, NoOp(node[i].term)), FALSE)

\* A proposal the node refuses fails everyone who waits on it.
ProposalRefused(i) ==
  /\ Running(i) /\ ~MayPropose(i)
  /\ FailWaiters(i)
  /\ UNCHANGED <<node, net>>

\* Step returns an error for a message it refuses unread.
Refused(s, m) ==
  \/ m.from \notin Members(s.conf)
  \/ m.type = "Snapshot" /\ m.term >= s.term /\ m.prefix = <<>>

RReceive(m) == Receive(m) /\ AfterRaft(m.to, waiting[m.to], Refused(node[m.to], m))

RTick(i) ==
  /\ Heartbeat(i) \/ TransferExpires(i) \/ (i \in Campaigning /\ Timeout(i))
  /\ AfterRaft(i, waiting[i], FALSE)

\* TransferLeadership and CreateSnapshot do not look at the waiters.
RManage(i) ==
  /\ \/ \E j \in Nodes : i \in Transferring /\ TransferLeadership(i, j)
     \/ i \in Compacting /\ CreateSnapshot(i)
  /\ UNCHANGED <<waiting, told>>

\* Await gives up when its context ends.
Cancel(i) ==
  /\ \E k \in DOMAIN waiting[i] :
       waiting' = [waiting EXCEPT ![i] = [j \in DOMAIN waiting[i] \ {k} |-> waiting[i][j]]]
  /\ UNCHANGED <<node, net, told>>

RRestart(i) == Restart(i) /\ FailWaiters(i)

RNext ==
  \/ \E m \in net : RReceive(m)
  \/ \E i \in Nodes :
       \/ \E c \in Commands : RPropose(i, c)
       \/ \E c \in Targets : RProposeConfiguration(i, c)
       \/ ProposalRefused(i) \/ RTick(i) \/ RManage(i) \/ Cancel(i)
  \/ \E i \in Barriers : RProposeBarrier(i)
  \/ \E i \in Crashing : RRestart(i)

RSpec == RInit /\ [][RNext]_rvars
---------------------------------------------------------------------------
(* Properties *)

\* A waiter is held by a leader only, and what it waits for is still the entry
\* of that index in the leader's log and not yet applied.
WaitersFollowTheLog ==
  \A i \in Nodes : \A k \in DOMAIN waiting[i] :
    /\ node[i].role = "Leader" /\ k \in node[i].applied + 1 .. LastIndex(node[i])
    /\ waiting[i][k] = node[i].log[k]

Agrees(t) == \A j \in Nodes : t.index <= node[j].applied => node[j].log[t.index] = t.entry

\* A success answered by a node that still leads is of the entry every node
\* applies at that index.
LeaderSuccessIsFinal == \A t \in told : t.led => Agrees(t)

\* Every success is of the entry every node applies at that index: "a runtime
\* may report success only after it is committed and applied locally"
\* (node.go).
SuccessIsCommitted == \A t \in told : Agrees(t)
============================================================================
