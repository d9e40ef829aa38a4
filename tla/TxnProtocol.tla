---------------------------- MODULE TxnProtocol ----------------------------
(***************************************************************************)
(* The two-phase commit of one RivetDB transaction: the coordinator's      *)
(* Commit and Abort calls (internal/multiraft/transaction.go), recovery    *)
(* passes that may run beside it, and the home and participant ranges.     *)
(*                                                                         *)
(* A range is its replicated log.  log[r] holds the commands a leader has  *)
(* accepted and not yet applied.  Raft applies them in that order, except  *)
(* that a leader change may lose a suffix, and a caller that stops waiting *)
(* never knows which: its command may still be applied later.              *)
(*                                                                         *)
(* leaderReplica returns any replica that believes it is the leader.  That *)
(* replica may lag behind, so a status read returns any value the entry    *)
(* ever had: seen and pseen collect those values.  Because they only grow, *)
(* a check and the proposal it guards may be one step: a value read        *)
(* earlier is still readable when the command enters the log.              *)
(***************************************************************************)
EXTENDS TxnMachine, Sequences

CONSTANTS NRanges,      \* the participants are the ranges 1 .. NRanges
          Home,         \* the range owning the smallest written key
          Coord,        \* the client that owns the Transaction object
          Recoverers,   \* routers running RecoverTransactions
          Nobody,       \* proposer of a command no caller waits for
          MaxCT,        \* bound: commit times the home may assign
          MaxEpoch,     \* bound: epochs a takeover may reach
          MaxHomeLog,   \* bound: unapplied commands at the home range
          MaxLog        \* bound: unapplied commands at any other range

Ranges == 1 .. NRanges
Clients == {Coord} \cup Recoverers

ASSUME TxnAssumption ==
  /\ NRanges \in Nat \ {0}
  /\ Home \in Ranges
  /\ Coord \notin Recoverers
  /\ Nobody \notin Clients
  /\ MaxCT \in Nat /\ MaxEpoch \in Nat
  /\ MaxHomeLog \in Nat /\ MaxLog \in Nat

VARIABLES rec,          \* the transaction record at the home range
          seen,         \* every value rec has had
          part,         \* the participant record of each range
          pseen,        \* every value each participant record has had
          mark,         \* the transaction's versions in each range's LSM
          log,          \* commands accepted and not yet applied
          halted,       \* apply failed: every replica of the range stops
          cl,           \* the call each client is in
          lastCT,       \* commit times assigned so far
          state,        \* Transaction.state, Open while zero
          told          \* what calls have returned to the application

rangeVars == <<rec, seen, part, pseen, mark, halted>>
vars == <<rec, seen, part, pseen, mark, log, halted, cl, lastCT, state, told>>

Operations == [type : Commands, ct : Nat, epoch : Nat, by : Clients \cup {Nobody}]

Waiting == {"creating", "preparing", "deciding", "aborting", "taking", "resolving"}
Running == {"assign", "prepare", "query", "decide", "confirm", "fence", "resolve"}
Calls == [pc : {"idle", "dead"} \cup Waiting \cup Running, ct : Nat, epoch : Nat,
          next : Nat \ {0}, status : Terminal]

Idle == [pc |-> "idle", ct |-> 0, epoch |-> 0, next |-> 1, status |-> "Aborted"]

Init ==
  /\ rec = NoRecord /\ seen = {NoRecord}
  /\ part = [r \in Ranges |-> NoParticipant]
  /\ pseen = [r \in Ranges |-> {NoParticipant}]
  /\ mark = [r \in Ranges |-> "none"]
  /\ log = [r \in Ranges |-> <<>>]
  /\ halted = [r \in Ranges |-> FALSE]
  /\ cl = [c \in Clients |-> Idle]
  /\ lastCT = 0
  /\ state = "Open" /\ told = {}
---------------------------------------------------------------------------
(* Proposing.  A stopped range accepts nothing: the caller only times out. *)

Propose(c, r, type) ==
  /\ Len(log[r]) < (IF r = Home THEN MaxHomeLog ELSE MaxLog)
  /\ log' = IF halted[r] THEN log
            ELSE [log EXCEPT ![r] = Append(@,
                    [type |-> type, ct |-> cl'[c].ct, epoch |-> cl'[c].epoch, by |-> c])]

\* The record checks of proposeOperation, on a record some leader has shown.
SameAttempt(x, c) == x.status # "None" /\ x.ct = cl[c].ct /\ x.epoch = cl[c].epoch

MayDecide(x, c, status) == SameAttempt(x, c) /\ x.status \in {"Pending", status}
MayPrepare(x, c) == SameAttempt(x, c) /\ x.status = "Pending"

\* Mutant: the record's status is not compared with the resolution.
MayResolveUnchecked(x, c, status) == SameAttempt(x, c)

MayResolve(x, c, status) == SameAttempt(x, c) /\ x.status = status

ResolveType(status) == IF status = "Committed" THEN "ResolveCommit" ELSE "ResolveAbort"
DecideType(status) == IF status = "Committed" THEN "Commit" ELSE "Abort"

\* The caller continues, or its call returns an error.
Goto(c, pc) == cl' = [cl EXCEPT ![c].pc = pc]
Return(c) == cl' = [cl EXCEPT ![c] = Idle]

\* proposeOperation refuses a decision with the outcome it found, if it found one.
Refusal(x, c) == IF SameAttempt(x, c) /\ x.status \in Terminal THEN {x.status} ELSE {}

\* Take the attempt a record names.
Adopt(c, pc, x) ==
  cl' = [cl EXCEPT ![c] = [pc |-> pc, ct |-> x.ct, epoch |-> x.epoch, next |-> 1,
            status |-> IF x.status \in Terminal THEN x.status ELSE "Aborted"]]
---------------------------------------------------------------------------
(* Transaction.Commit *)

CommitCall ==
  /\ cl[Coord].pc = "idle" /\ state = "Open"
  /\ \E x \in seen :
        CASE x.status = "None"    -> Goto(Coord, "assign")
          [] x.status = "Pending" -> Adopt(Coord, "prepare", x)
          [] OTHER                -> Adopt(Coord, "resolve", x)
  /\ UNCHANGED <<rangeVars, log, lastCT, state, told>>

\* A split or a migration has published a newer generation of a range the
\* writes were pinned to: the call aborts without asking the record.
CommitMoved ==
  /\ cl[Coord].pc = "idle" /\ state = "Open"
  /\ state' = "Aborted" /\ told' = told \cup {"Aborted"}
  /\ UNCHANGED <<rangeVars, log, cl, lastCT>>

\* What a returning call says: nil for a commit, or the outcome in its error.
Answer(status) == IF status = "Committed" THEN {"Committed", "Success"} ELSE {status}

\* Commit on a Transaction whose state is already set answers from it.
CommitAgain ==
  /\ cl[Coord].pc = "idle" /\ state # "Open"
  /\ told' = told \cup Answer(state)
  /\ UNCHANGED <<rangeVars, log, cl, lastCT, state>>

\* assignTransactionTimestamp, then propose the record with epoch 1.
AssignAndCreate ==
  /\ cl[Coord].pc = "assign" /\ lastCT < MaxCT
  /\ lastCT' = lastCT + 1
  /\ cl' = [cl EXCEPT ![Coord] = [pc |-> "creating", ct |-> lastCT + 1, epoch |-> 1,
                                  next |-> 1, status |-> "Aborted"]]
  /\ Propose(Coord, Home, "Create")
  /\ UNCHANGED <<rangeVars, state, told>>

\* One participant at a time; a failed check ends the loop with an abort.
ProposePrepare ==
  LET r == cl[Coord].next IN
  /\ cl[Coord].pc = "prepare"
  /\ \E x \in seen :
        IF MayPrepare(x, Coord)
          THEN Goto(Coord, "preparing") /\ Propose(Coord, r, "Prepare")
          ELSE Goto(Coord, "decide") /\ UNCHANGED log
  /\ UNCHANGED <<rangeVars, lastCT, state, told>>

\* Mutant: a successful prepare command is taken for an accepted one.
QueryPreparedUnread ==
  LET r == cl[Coord].next IN
  /\ cl[Coord].pc = "query"
  /\ IF r < NRanges THEN cl' = [cl EXCEPT ![Coord].pc = "prepare", ![Coord].next = r + 1]
     ELSE cl' = [cl EXCEPT ![Coord].pc = "decide", ![Coord].status = "Committed"]
  /\ UNCHANGED <<rangeVars, log, lastCT, state, told>>

\* participantStatus after the prepare was applied.
QueryPrepared ==
  LET r == cl[Coord].next IN
  /\ cl[Coord].pc = "query"
  /\ \E p \in pseen[r] :
        IF p.status # "Prepared" THEN Goto(Coord, "decide")
        ELSE IF r < NRanges THEN cl' = [cl EXCEPT ![Coord].pc = "prepare", ![Coord].next = r + 1]
        ELSE cl' = [cl EXCEPT ![Coord].pc = "decide", ![Coord].status = "Committed"]
  /\ UNCHANGED <<rangeVars, log, lastCT, state, told>>

ProposeDecision ==
  LET s == cl[Coord].status IN
  /\ cl[Coord].pc = "decide"
  /\ \E x \in seen :
        IF MayDecide(x, Coord, s)
          THEN Goto(Coord, "deciding") /\ Propose(Coord, Home, DecideType(s)) /\ UNCHANGED told
          ELSE Return(Coord) /\ told' = told \cup Refusal(x, Coord) /\ UNCHANGED log
  /\ UNCHANGED <<rangeVars, lastCT, state>>

\* Mutant: the call reports the decision it proposed.
ConfirmOwnDecision ==
  /\ cl[Coord].pc = "confirm"
  /\ state' = cl[Coord].status /\ told' = told \cup {cl[Coord].status}
  /\ Return(Coord)
  /\ UNCHANGED <<rangeVars, log, lastCT>>

\* Read the record back: it alone says what the decision was.
ConfirmDecision ==
  /\ cl[Coord].pc = "confirm"
  /\ \E x \in seen :
        IF x.status = cl[Coord].status
          THEN Adopt(Coord, "resolve", x) /\ UNCHANGED <<state, told>>
          ELSE /\ Return(Coord)
               /\ state' = IF x.status \in Terminal THEN x.status ELSE state
               /\ told' = IF x.status \in Terminal THEN told \cup {x.status} ELSE told
  /\ UNCHANGED <<rangeVars, log, lastCT>>
---------------------------------------------------------------------------
(* Transaction.Abort *)

AbortCall ==
  /\ cl[Coord].pc = "idle" /\ state = "Open"
  /\ \E x \in seen :
        \/ /\ x.status = "None"
           /\ state' = "Aborted" /\ told' = told \cup {"Aborted"} /\ UNCHANGED cl
        \/ /\ x.status = "Committed"
           /\ state' = "Committed" /\ told' = told \cup {"Committed"} /\ UNCHANGED cl
        \/ x.status = "Pending" /\ Adopt(Coord, "fence", x) /\ UNCHANGED <<state, told>>
        \/ x.status = "Aborted" /\ Adopt(Coord, "resolve", x) /\ UNCHANGED <<state, told>>
  /\ UNCHANGED <<rangeVars, log, lastCT>>

\* Abort, and recovery after its takeover, propose to abort a pending record.
ProposeAbortOn(c, x) ==
  /\ cl[c].pc = "fence"
  /\ IF MayDecide(x, c, "Aborted")
       THEN Goto(c, "aborting") /\ Propose(c, Home, "Abort") /\ UNCHANGED told
       ELSE /\ Return(c) /\ UNCHANGED log
            /\ told' = IF c = Coord THEN told \cup Refusal(x, c) ELSE told
  /\ UNCHANGED <<rangeVars, lastCT, state>>

ProposeAbort(c) == \E x \in seen : ProposeAbortOn(c, x)
---------------------------------------------------------------------------
(* Router.RecoverTransactions, the part of a pass that meets this record. *)

\* Mutant: a pass skips the records that are already decided.
RecoverPendingOnly(c, x) ==
  /\ cl[c].pc = "idle"
  /\ x.status = "Pending" /\ x.epoch < MaxEpoch
  /\ Adopt(c, "taking", [x EXCEPT !.epoch = @ + 1])
  /\ Propose(c, Home, "Takeover")
  /\ UNCHANGED <<rangeVars, lastCT, state, told>>

RecoverCallOn(c, x) ==
  /\ cl[c].pc = "idle"
  /\ \/ /\ x.status = "Pending" /\ x.epoch < MaxEpoch
        /\ Adopt(c, "taking", [x EXCEPT !.epoch = @ + 1])
        /\ Propose(c, Home, "Takeover")
     \/ /\ x.status \in Terminal
        /\ Adopt(c, "resolve", x) /\ UNCHANGED log
  /\ UNCHANGED <<rangeVars, lastCT, state, told>>

RecoverCall(c) == \E x \in seen : RecoverCallOn(c, x)
---------------------------------------------------------------------------
(* Router.resolveRecord, shared by Commit, Abort and recovery. *)

ProposeResolveOn(c, x) ==
  LET r == cl[c].next  s == cl[c].status IN
  /\ cl[c].pc = "resolve" /\ r <= NRanges
  /\ IF MayResolve(x, c, s)
       THEN Goto(c, "resolving") /\ Propose(c, r, ResolveType(s))
       ELSE Return(c) /\ UNCHANGED log
  /\ UNCHANGED <<rangeVars, lastCT, state, told>>

ProposeResolve(c) == \E x \in seen : ProposeResolveOn(c, x)

ResolveDone(c) ==
  LET s == cl[c].status IN
  /\ cl[c].pc = "resolve" /\ cl[c].next > NRanges
  /\ Return(c)
  /\ state' = IF c = Coord THEN s ELSE state
  /\ told' = IF c = Coord THEN told \cup Answer(s) ELSE told
  /\ UNCHANGED <<rangeVars, log, lastCT>>
---------------------------------------------------------------------------
(* A wait ends without an answer (deadline, lost leadership, work budget); *)
(* the command stays where it is.  Only a prepare's failure is not final.  *)

Orphaned(s, c) ==
  [i \in DOMAIN s |-> IF s[i].by = c THEN [s[i] EXCEPT !.by = Nobody] ELSE s[i]]

GiveUp(c) ==
  /\ cl[c].pc \in Waiting \cup {"assign"}
  /\ log' = [r \in Ranges |-> Orphaned(log[r], c)]
  /\ IF cl[c].pc = "preparing" THEN Goto(c, "decide") ELSE Return(c)
  /\ UNCHANGED <<rangeVars, lastCT, state, told>>

\* The process holding the Transaction dies in the middle of a call.
CoordDies ==
  /\ cl[Coord].pc \notin {"idle", "dead"}
  /\ log' = [r \in Ranges |-> Orphaned(log[r], Coord)]
  /\ cl' = [cl EXCEPT ![Coord] = [Idle EXCEPT !.pc = "dead"]]
  /\ UNCHANGED <<rangeVars, lastCT, state, told>>

---------------------------------------------------------------------------
(* The ranges *)

AfterAck(call) ==
  CASE call.pc = "creating"  -> [call EXCEPT !.pc = "prepare"]
    [] call.pc = "preparing" -> [call EXCEPT !.pc = "query"]
    [] call.pc = "deciding"  -> [call EXCEPT !.pc = "confirm"]
    [] call.pc = "taking"    -> [call EXCEPT !.pc = "fence"]
    [] call.pc = "aborting"  -> [call EXCEPT !.pc = "resolve"]
    [] call.pc = "resolving" -> [call EXCEPT !.pc = "resolve", !.next = @ + 1]
    [] OTHER                 -> call

Acknowledge(op) ==
  cl' = IF op.by = Nobody THEN cl ELSE [cl EXCEPT ![op.by] = AfterAck(@)]

\* A new leader overwrites a suffix of what the old one had accepted.
LoseSuffix(r) ==
  /\ \E n \in 0 .. Len(log[r]) :
        n < Len(log[r]) /\ log' = [log EXCEPT ![r] = SubSeq(@, 1, n)]
  /\ UNCHANGED <<rangeVars, cl, lastCT, state, told>>

\* The old leader learns of the new one by a message that makes it apply the
\* entries written over its own: afterRaftLocked answers the waiters at those
\* indexes with success before it fails the others.
Overwrite(r) ==
  /\ \E m \in 1 .. Len(log[r]) :
        cl' = [c \in Clients |-> IF \E i \in 1 .. m : log[r][i].by = c
                                   THEN AfterAck(cl[c]) ELSE cl[c]]
  /\ log' = [log EXCEPT ![r] = <<>>]
  /\ UNCHANGED <<rangeVars, lastCT, state, told>>

\* The command took effect: the log moves on and its caller is answered.
Succeed(r, op) ==
  /\ log' = [log EXCEPT ![r] = Tail(@)]
  /\ Acknowledge(op)
  /\ UNCHANGED halted

SetRecord(new) == rec' = new /\ seen' = seen \cup {new}
SetParticipant(r, new, mk) ==
  /\ part' = [part EXCEPT ![r] = new]
  /\ pseen' = [pseen EXCEPT ![r] = @ \cup {new}]
  /\ mark' = [mark EXCEPT ![r] = mk]

\* Apply returned an error: the Raft node is fatal, and a restart replays it.
Halt(r) ==
  /\ halted' = [halted EXCEPT ![r] = TRUE]
  /\ log' = [log EXCEPT ![r] = <<>>]
  /\ UNCHANGED <<rec, seen, part, pseen, mark, cl>>

ApplyCreate(r, op) ==
  IF CreateConflicts(rec, op) THEN Halt(r)
  ELSE /\ SetRecord(Created(rec, op)) /\ Succeed(r, op)
       /\ UNCHANGED <<part, pseen, mark>>

ApplyDecision(r, op) ==
  IF DecisionConflicts(rec, op) THEN Halt(r)
  ELSE /\ SetRecord(Decided(rec, op)) /\ Succeed(r, op)
       /\ UNCHANGED <<part, pseen, mark>>

ApplyTakeover(r, op) ==
  IF TakeoverConflicts(rec, op) THEN Halt(r)
  ELSE /\ SetRecord(TakenOver(rec, op)) /\ Succeed(r, op)
       /\ UNCHANGED <<part, pseen, mark>>

ApplyPrepare(r, op) ==
  IF PrepareConflicts(part[r], op) THEN Halt(r)
  ELSE /\ \E clash \in BOOLEAN :
             SetParticipant(r, PreparedAs(part[r], op, clash),
                               PreparedMark(part[r], mark[r], clash))
       /\ Succeed(r, op) /\ UNCHANGED <<rec, seen>>

ApplyResolution(r, op) ==
  IF ResolutionConflicts(part[r], op) THEN Halt(r)
  ELSE /\ SetParticipant(r, Resolved(part[r], op), ResolvedMark(part[r], mark[r], op))
       /\ Succeed(r, op) /\ UNCHANGED <<rec, seen>>

Apply(r) ==
  /\ log[r] # <<>> /\ ~halted[r]
  /\ LET op == Head(log[r]) IN
       \/ op.type = "Create" /\ ApplyCreate(r, op)
       \/ op.type \in {"Commit", "Abort"} /\ ApplyDecision(r, op)
       \/ op.type = "Takeover" /\ ApplyTakeover(r, op)
       \/ op.type = "Prepare" /\ ApplyPrepare(r, op)
       \/ op.type \in {"ResolveCommit", "ResolveAbort"} /\ ApplyResolution(r, op)
  /\ UNCHANGED <<lastCT, state, told>>
---------------------------------------------------------------------------
CoordStep ==
  \/ CommitCall \/ CommitMoved \/ CommitAgain \/ AssignAndCreate \/ ProposePrepare
  \/ QueryPrepared \/ ProposeDecision \/ ConfirmDecision \/ AbortCall
  \/ CoordDies

Next ==
  \/ CoordStep
  \/ \E c \in Recoverers : RecoverCall(c)
  \/ \E c \in Clients : ProposeAbort(c) \/ ProposeResolve(c) \/ ResolveDone(c) \/ GiveUp(c)
  \/ \E r \in Ranges : Apply(r) \/ LoseSuffix(r) \/ Overwrite(r)

Spec == Init /\ [][Next]_vars

\* A caller whose command a leader change has lost.
Lost(c) == \A r \in Ranges : \A i \in DOMAIN log[r] : log[r][i].by # c

\* Ranges apply what they accepted, and routers keep running recovery passes;
\* a pass whose command was lost gives up on it.
Fairness ==
  /\ \A r \in Ranges : WF_vars(Apply(r))
  /\ \A c \in Recoverers :
       /\ SF_vars(RecoverCallOn(c, rec))
       /\ SF_vars(ProposeAbortOn(c, rec))
       /\ SF_vars(ProposeResolveOn(c, rec))
       /\ WF_vars(ResolveDone(c))
       /\ WF_vars(Lost(c) /\ GiveUp(c))

FairSpec == Spec /\ Fairness

\* The steps of a calm cluster: leaders stay and have applied what they show,
\* and nobody gives up on a command that is still in a log.
Calm ==
  \/ CoordStep \/ ProposeAbort(Coord) \/ ProposeResolve(Coord) \/ ResolveDone(Coord)
  \/ \E c \in Recoverers : \/ RecoverCallOn(c, rec) \/ ProposeAbortOn(c, rec)
                           \/ ProposeResolveOn(c, rec) \/ ResolveDone(c)
  \/ \E c \in Clients : Lost(c) /\ GiveUp(c)
  \/ \E r \in Ranges : Apply(r)
---------------------------------------------------------------------------
(* Properties *)

\* Every variable keeps its type.
TypeOK ==
  /\ rec \in Records /\ seen \subseteq Records
  /\ part \in [Ranges -> Participants]
  /\ pseen \in [Ranges -> SUBSET Participants]
  /\ mark \in [Ranges -> Marks]
  /\ log \in [Ranges -> Seq(Operations)]
  /\ halted \in [Ranges -> BOOLEAN]
  /\ cl \in [Clients -> Calls]
  /\ lastCT \in Nat
  /\ state \in {"Open"} \cup Terminal
  /\ told \subseteq Terminal \cup {"Success"}

\* TXN-8: once the record is COMMITTED every participant holds the writes at
\* the record's commit time, prepared or already committed, whatever recovery
\* passes, retries and late commands did meanwhile.
CommitHasEveryWrite ==
  rec.status = "Committed" =>
    \A r \in Ranges : /\ part[r].status \in {"Prepared", "Committed"}
                      /\ part[r].ct = rec.ct
                      /\ mark[r] \in {"intent", "value"}

\* TXN-6 and TXN-9: a participant resolves only as the record has decided;
\* applyResolution itself never looks at the record.
ResolutionFollowsRecord ==
  \A r \in Ranges : /\ part[r].status \in Terminal => part[r].status = rec.status
                    /\ mark[r] = "value" => rec.status = "Committed"
                    /\ mark[r] = "abort" => rec.status = "Aborted"

\* TXN-4: a call that says committed says what the record says.
CommittedAnswerIsDurable == "Committed" \in told => rec.status = "Committed"

\* The bound on epochs keeps every further pass from taking over.
EpochBoundReached ==
  /\ rec.status = "Pending" /\ rec.epoch = MaxEpoch
  /\ \A c \in Recoverers : cl[c].pc = "idle"

\* Section 6 of docs/transactions.md: once the cluster is calm, every created
\* transaction is decided and resolved at every participant, even if its
\* coordinator is dead, unless a range has stopped.
RecoveryFinishes ==
  <>[][Calm]_vars =>
    (rec.status # "None" ~>
       \/ rec.status \in Terminal /\ \A r \in Ranges : part[r].status = rec.status
       \/ \E r \in Ranges : halted[r]
       \/ EpochBoundReached)

\* The record is the outcome; a rejected participant has not taken the writes.
Outcome ==
  CASE rec.status = "Committed" -> "committed"
    [] rec.status = "Aborted"   -> "aborted"
    [] OTHER                    -> "undecided"

StateOf(p) ==
  CASE p.status = "Prepared"  -> "prepared"
    [] p.status = "Committed" -> "committed"
    [] p.status = "Aborted"   -> "aborted"
    [] OTHER                  -> "working"

PState == [r \in Ranges |-> StateOf(part[r])]

AC == INSTANCE AtomicCommit WITH outcome <- Outcome, pstate <- PState

\* TXN-4 to TXN-9 together: whatever calls, passes and leaders do, record and
\* participants behave as AtomicCommit promises.
ImplementsAtomicCommit == AC!ACSpec
===========================================================================
