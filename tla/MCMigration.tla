---------------------------- MODULE MCMigration ----------------------------
(* TLC instances of Migration: three replicas on nodes 1 to 3, node 4 spare. *)
EXTENDS Migration

ThreeReplicas ==
  [r \in {1} |-> [id |-> 1, gen |-> 1, lo |-> 0, hi |-> 1,
                  reps |-> [j \in 1 .. 3 |-> [id |-> j, node |-> j]]]]

Away == [src |-> 3, to |-> 4]
Back == [src |-> 1, to |-> 3]
BothMoves == {Away, Back}

Budget == [calls |-> 1, writes |-> 0, elections |-> 0, restarts |-> 0, deletes |-> 0,
           lead |-> 1, lags |-> {}, moves |-> {Away}]

Scenarios ==
  {[Budget EXCEPT !.writes = 1, !.lead = 3],
   [Budget EXCEPT !.writes = 1, !.lags = {4}],
   [Budget EXCEPT !.elections = 1, !.lags = {2, 3}],
   [Budget EXCEPT !.elections = 1, !.lead = 3, !.lags = {2}],
   [Budget EXCEPT !.calls = 2],
   [Budget EXCEPT !.calls = 2, !.restarts = 1],
   [Budget EXCEPT !.calls = 2, !.deletes = 2, !.moves = BothMoves]}

VARIABLE scenario

\* The nodes that get everything the leader has before anything else happens.
Behind ==
  {n \in Nodes \ scenario.lags :
     /\ grp.lead \notin {0, n} /\ Open(n) /\ Talks(grp.lead, n)
     /\ n \in Members(Data(grp.lead).conf) /\ grp.lead \in Members(Data(n).conf)
     /\ Data(n).have < Len(grp.log) \/ Data(n).app < Data(grp.lead).app}

Level(n) == disk'[node[n].id].have = Len(grp.log) /\ disk'[node[n].id].app = Data(grp.lead).app

Told == {m \in Managers : mgr[m].wi # 0 /\ Open(mgr[m].wn) /\ Data(mgr[m].wn).app >= mgr[m].wi}

Committable ==
  /\ grp.lead # 0
  /\ Data(grp.lead).app < Len(grp.log)
  /\ Quorum(Data(grp.lead).conf,
            {n \in Members(Data(grp.lead).conf) : Open(n) /\ Data(n).have = Len(grp.log)})

\* Who lags gets the whole log when it gets anything.  With a restart, the
\* calls under way wait for it and end there.
InScenario ==
  /\ IF Told # {} THEN \E m \in Told : mgr'[m].wi = 0 /\ grp' = grp /\ left' = left
     ELSE IF Behind # {} THEN grp' = grp /\ node' = node /\ \E n \in Behind : Level(n)
     ELSE IF scenario.lags = {} /\ Committable THEN grp'.comm = Len(grp.log) /\ grp'.log = grp.log
     ELSE TRUE
  /\ grp' = grp => \A d \in DOMAIN disk \cap DOMAIN disk' :
                     disk'[d].have \in {disk[d].have, Len(grp.log)}
  /\ IF left.restarts < scenario.restarts
       THEN \A m \in Managers : mgr[m].clean \/ mgr[m].pc = "idle" \/ mgr'[m].pc = mgr[m].pc
       ELSE IF scenario.restarts > 0 THEN left'.calls + 2 > scenario.calls ELSE TRUE
  /\ Len(meta'.moves) > Len(meta.moves) =>
       \E mv \in scenario.moves : LET x == meta'.moves[Len(meta'.moves)] IN x.src = mv.src /\ x.dstNode = mv.to

MCInit == MigrationInit /\ scenario = left /\ grp.lead = left.lead
MCNext == MigrationNext /\ InScenario /\ UNCHANGED scenario
MCSpec == MCInit /\ [][MCNext]_<<mvars, scenario>>
===========================================================================
