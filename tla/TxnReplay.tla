----------------------------- MODULE TxnReplay -----------------------------
(***************************************************************************)
(* TxnProtocol with replica restarts that rebuild the participant table.   *)
(* The table lives in memory: a restarted replica re-applies its Raft log. *)
(* An entry at or below the durable frontier is replayed with              *)
(* alreadyDurable, and applyPrepare then skips the conflict inspection.    *)
(***************************************************************************)
EXTENDS TxnProtocol

\* A replica of r flushed past the prepare, restarted, and may be read as
\* leader: it rebuilds the participant as if no key had clashed.
RestartReplays(r) ==
  /\ \E p \in pseen[r] :
        /\ p.status = "Rejected"
        /\ pseen' = [pseen EXCEPT ![r] = @ \cup {PreparedAs(NoParticipant, p, FALSE)}]
  /\ UNCHANGED <<rec, seen, part, mark, log, halted, cl, lastCT, state, told>>

ReplayNext == Next \/ \E r \in Ranges : RestartReplays(r)

ReplaySpec == Init /\ [][ReplayNext]_vars
===========================================================================
