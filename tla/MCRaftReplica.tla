--------------------------- MODULE MCRaftReplica ---------------------------
(* TLC instances of RaftReplica.  In scenario "restart" three voters hold   *)
(* elections and propose barriers while the two that campaign restart.  In  *)
(* scenario "growth" n3 is the only voter and a learner becomes a voter:    *)
(* the leader commits, compacts and sends snapshots before the learner has  *)
(* anything, and leadership is transferred.  n1 and n2 are interchangeable. *)
EXTENDS RaftReplica, TLC

CONSTANTS n1, n2, n3
VARIABLE scenario

Symmetry == Permutations({n1, n2})
Three == [version |-> 1, old |-> {n1, n2, n3}, new |-> {}, learners |-> {}]
One(i) == [version |-> 1, old |-> {n3}, new |-> {}, learners |-> {i}]
Growth == UNION {{[version |-> 2, old |-> {n3}, new |-> {n3, i}, learners |-> {}],
                  [version |-> 3, old |-> {n3, i}, new |-> {}, learners |-> {}]} : i \in {n1, n2}}

RestartNext ==
  /\ scenario = "restart"
  /\ \/ \E m \in net : RReceive(m)
     \/ \E i \in {n1, n2} : RTick(i) \/ ProposalRefused(i) \/ Cancel(i)
     \/ \E i \in Barriers : node[i].term < MaxTerm /\ RProposeBarrier(i)
     \/ \E i \in Crashing : node[i].term < MaxTerm /\ RRestart(i)
  /\ Cardinality(net') <= 1 /\ \A i \in Nodes : Len(node'[i].log) <= 2

GrowthNext ==
  /\ scenario = "growth"
  /\ \/ \E m \in net : RReceive(m)
     \/ \E i \in Members(node[n3].conf) :
          \/ \E c \in Commands : RPropose(i, c)
          \/ \E c \in Targets : Members(c) = Members(node[n3].conf) /\ RProposeConfiguration(i, c)
          \/ ProposalRefused(i) \/ RTick(i) \/ RManage(i) \/ Cancel(i)
  /\ \A i \in Nodes : node'[i].term <= 2

MCInit ==
  /\ \/ /\ scenario = "restart" /\ node = [i \in Nodes |-> Fresh(i)]
     \/ /\ scenario = "growth"
        /\ \E l \in {n1, n2} : node = [i \in Nodes |-> [Fresh(i) EXCEPT !.conf = One(l)]]
  /\ net = {} /\ waiting = [i \in Nodes |-> <<>>] /\ told = {}
MCNext == (RestartNext \/ GrowthNext) /\ UNCHANGED scenario
MCSpec == MCInit /\ [][MCNext]_<<rvars, scenario>>

\* All of RaftReplica within its constants.
AllSpec == RInit /\ scenario = "all" /\ [][RNext /\ UNCHANGED scenario]_<<rvars, scenario>>
============================================================================
