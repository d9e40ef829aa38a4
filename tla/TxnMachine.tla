---------------------------- MODULE TxnMachine ----------------------------
(***************************************************************************)
(* The transaction commands of a range's replicated state machine          *)
(* (internal/replicatedrange/state_machine.go), for one transaction.       *)
(*                                                                         *)
(* A committed log entry is applied by every replica of the range.  Each   *)
(* command has two operators: the new value of the table entry it touches, *)
(* and the condition under which apply returns ErrProtocolConflict.  An    *)
(* apply error stops the Raft node for good: TxnProtocol models that.      *)
(*                                                                         *)
(* The transaction's identity, read time, home and write set are the same  *)
(* in every command of one Transaction object, so a command carries only   *)
(* what differs between attempts: the commit time and the epoch.           *)
(***************************************************************************)
EXTENDS Naturals

Terminal == {"Committed", "Aborted"}

\* The record of txn.Record that decides the outcome; status "None": absent.
Records == [status : {"None", "Pending"} \cup Terminal, ct : Nat, epoch : Nat]
NoRecord == [status |-> "None", ct |-> 0, epoch |-> 0]

\* txn.ParticipantRecord of one range.
Participants == [status : {"None", "Prepared", "Rejected"} \cup Terminal,
                 ct : Nat, epoch : Nat]
NoParticipant == [status |-> "None", ct |-> 0, epoch |-> 0]

\* What the LSM holds for the transaction's writes at its commit time.
Marks == {"none", "intent", "value", "abort"}

Commands == {"Create", "Prepare", "Commit", "Abort", "Takeover",
             "ResolveCommit", "ResolveAbort"}

\* The status a decision or a resolution installs.
StatusOf(type) ==
  IF type \in {"Commit", "ResolveCommit"} THEN "Committed" ELSE "Aborted"
---------------------------------------------------------------------------
(* applyCreate *)

PendingRecord(op) == [status |-> "Pending", ct |-> op.ct, epoch |-> op.epoch]

CreateConflicts(rc, op) == rc.status # "None" /\ rc # PendingRecord(op)

Created(rc, op) == IF rc.status = "None" THEN PendingRecord(op) ELSE rc
---------------------------------------------------------------------------
(* applyDecision: Commit and Abort *)

DecisionConflicts(rc, op) ==
  \/ rc.status = "None"
  \/ rc.ct # op.ct
  \/ op.epoch > rc.epoch
  \/ op.epoch = rc.epoch /\ rc.status \in Terminal \ {StatusOf(op.type)}

\* Mutant: a decision of an older epoch is not recognised as stale.
DecidedAnyEpoch(rc, op) == [rc EXCEPT !.status = StatusOf(op.type)]

Decided(rc, op) ==
  IF op.epoch = rc.epoch /\ rc.status = "Pending"
    THEN [rc EXCEPT !.status = StatusOf(op.type)]
    ELSE rc
---------------------------------------------------------------------------
(* applyTakeover *)

TakeoverConflicts(rc, op) == rc.status # "Pending" \/ rc.ct # op.ct

TakenOver(rc, op) ==
  IF op.epoch = rc.epoch + 1 THEN [rc EXCEPT !.epoch = op.epoch] ELSE rc
---------------------------------------------------------------------------
(* applyPrepare.  clash: a written key's newest version is an intent or is *)
(* newer than the transaction's read time.                                 *)

PrepareConflicts(p, op) ==
  /\ p.status # "None"
  /\ ~ (p.status \in Terminal /\ op.epoch <= p.epoch)
  /\ ~ (p.ct = op.ct /\ p.epoch = op.epoch)

PreparedAs(p, op, clash) ==
  IF p.status = "None"
    THEN [status |-> IF clash THEN "Rejected" ELSE "Prepared",
          ct |-> op.ct, epoch |-> op.epoch]
    ELSE p

PreparedMark(p, mk, clash) ==
  IF p.status = "None" /\ ~clash THEN "intent" ELSE mk
---------------------------------------------------------------------------
(* applyResolution: ResolveCommit and ResolveAbort *)

ResolutionConflicts(p, op) ==
  /\ p.status # "None"
  /\ \/ p.ct # op.ct
     \/ op.epoch >= p.epoch /\ p.status \in Terminal \ {StatusOf(op.type)}

Resolved(p, op) ==
  IF p.status = "None" \/ (op.epoch >= p.epoch /\ p.status \notin Terminal)
    THEN [status |-> StatusOf(op.type), ct |-> op.ct, epoch |-> op.epoch]
    ELSE p

\* Only a prepared participant has writes to turn into versions.
ResolvedMark(p, mk, op) ==
  IF p.status = "Prepared" /\ op.epoch >= p.epoch
    THEN (IF op.type = "ResolveCommit" THEN "value" ELSE "abort")
    ELSE mk
===========================================================================
