--------------------------- MODULE AtomicCommit ---------------------------
(***************************************************************************)
(* What a RivetDB transaction promises to its participant ranges: one      *)
(* outcome, fixed once, reached as a commit only when every participant    *)
(* holds the transaction's writes, and followed by every participant.      *)
(* TxnProtocol is shown to implement this specification.                   *)
(***************************************************************************)
CONSTANT Ranges                 \* the participant ranges of the transaction

VARIABLES outcome,              \* the transaction's durable outcome
          pstate                \* what each participant has done

acVars == <<outcome, pstate>>

ACTypeOK ==
  /\ outcome \in {"undecided", "committed", "aborted"}
  /\ pstate \in [Ranges -> {"working", "prepared", "committed", "aborted"}]

ACInit ==
  /\ outcome = "undecided"
  /\ pstate = [r \in Ranges |-> "working"]

\* A participant accepts the writes.  It may do so late, after an abort.
Prepare(r) ==
  /\ pstate[r] = "working"
  /\ outcome # "committed"
  /\ pstate' = [pstate EXCEPT ![r] = "prepared"]
  /\ UNCHANGED outcome

Commit ==
  /\ outcome = "undecided"
  /\ \A r \in Ranges : pstate[r] = "prepared"
  /\ outcome' = "committed"
  /\ UNCHANGED pstate

Abort ==
  /\ outcome = "undecided"
  /\ outcome' = "aborted"
  /\ UNCHANGED pstate

\* A participant follows the outcome, never its own guess.
FollowCommit(r) ==
  /\ outcome = "committed"
  /\ pstate[r] = "prepared"
  /\ pstate' = [pstate EXCEPT ![r] = "committed"]
  /\ UNCHANGED outcome

FollowAbort(r) ==
  /\ outcome = "aborted"
  /\ pstate[r] \in {"working", "prepared"}
  /\ pstate' = [pstate EXCEPT ![r] = "aborted"]
  /\ UNCHANGED outcome

ACNext ==
  \/ Commit
  \/ Abort
  \/ \E r \in Ranges : Prepare(r) \/ FollowCommit(r) \/ FollowAbort(r)

ACSpec == ACInit /\ [][ACNext]_acVars
===========================================================================
