------------------------------ MODULE MCRaft ------------------------------
(* TLC instances of Raft. *)
EXTENDS Raft, TLC

CONSTANTS n1, n2, n3, n4

Config(version, old, new, learners) ==
  [version |-> version, old |-> old, new |-> new, learners |-> learners]

\* A migration of the replica on n1 to n4: n4 has become a learner, the joint
\* and the final configuration follow.
Learning == Config(1, {n1, n2, n3}, {}, {n4})
Moving == Config(2, {n1, n2, n3}, {n2, n3, n4}, {})
Moved == Config(3, {n2, n3, n4}, {}, {})
Migration == {Moving, Moved}

\* n3 was elected with every vote, and its no-op is applied everywhere.
Follows(i) ==
  [Fresh(i) EXCEPT !.term = 1, !.vote = IF i = n4 THEN None ELSE n3, !.leader = n3,
                   !.log = <<NoOp(1)>>, !.commit = 1, !.applied = 1]
Leads ==
  [Follows(n3) EXCEPT !.role = "Leader", !.next = [p \in Nodes |-> 2],
                      !.match = [p \in Nodes |-> 1]]
LedInit ==
  /\ node = [i \in Nodes |-> IF i = n3 THEN Leads ELSE Follows(i)]
  /\ net = {}
LedSpec == LedInit /\ [][GroupStep]_vars

\* Later in the same term: the final configuration is committed and applied
\* by n3; n2 holds it, n4 has applied the joint one and n1 has neither.
MovedLog == <<NoOp(1), Entry(1, NoCommand, Moving), Entry(1, NoCommand, Moved)>>
Joined(i, k) ==
  [Follows(i) EXCEPT !.log = SubSeq(MovedLog, 1, k), !.commit = 2, !.applied = 2, !.conf = Moving]
MovedNode ==
     n1 :> Follows(n1) @@ n2 :> Joined(n2, 3) @@ n4 :> Joined(n4, 2)
  @@ n3 :> [Leads EXCEPT !.log = MovedLog, !.commit = 3, !.applied = 3, !.conf = Moved,
                         !.next = n2 :> 4 @@ n3 :> 4 @@ n4 :> 3,
                         !.match = n2 :> 3 @@ n3 :> 3 @@ n4 :> 2]
\* n2 was reopened, so its commit index is that of its snapshot, 0; it was
\* elected in term 2 by n1 and n4, and n3 has stepped down.
ReelectedNode ==
     n1 :> [MovedNode[n1] EXCEPT !.term = 2, !.vote = n2, !.leader = None]
  @@ n2 :> [MovedNode[n2] EXCEPT !.term = 2, !.vote = n2, !.leader = n2, !.role = "Leader",
                                 !.log = Append(MovedLog, NoOp(2)), !.commit = 0, !.applied = 0,
                                 !.next = n1 :> 4 @@ n2 :> 5 @@ n3 :> 4 @@ n4 :> 4,
                                 !.match = n1 :> 0 @@ n2 :> 4 @@ n3 :> 0 @@ n4 :> 0]
  @@ n3 :> AdvanceTerm(MovedNode[n3], 2)
  @@ n4 :> [MovedNode[n4] EXCEPT !.term = 2, !.vote = n2, !.leader = None]
ReelectedSpec == node = ReelectedNode /\ net = {} /\ [][Next]_vars
===========================================================================
