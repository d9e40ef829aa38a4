----------------------------- MODULE TxnProofs -----------------------------
(***************************************************************************)
(* Theorems about TxnProtocol, for every number of ranges and recoverers   *)
(* and every bound: its type invariant, the safety invariants about the    *)
(* record and the participants, and that it implements AtomicCommit.       *)
(* TxnSteps has the inductive invariant and the steps of the callers; the  *)
(* answers and the steps of the ranges are here.                           *)
(***************************************************************************)
EXTENDS TxnSteps
---------------------------------------------------------------------------
(* The ranges *)

\* The caller of an applied command moves on, and nobody else.
LEMMA AckCall ==
  ASSUME NEW k \in Calls
  PROVE  /\ AfterAck(k) \in Calls
         /\ AfterAck(k).status = k.status
         /\ k.pc # "resolving" => AfterAck(k).next = k.next
         /\ AfterAck(k).pc = CASE k.pc = "creating"  -> "prepare"
                               [] k.pc = "preparing" -> "query"
                               [] k.pc = "deciding"  -> "confirm"
                               [] k.pc = "taking"    -> "fence"
                               [] k.pc \in {"aborting", "resolving"} -> "resolve"
                               [] OTHER              -> k.pc
<1>1. CASE k.pc # "resolving"
  BY <1>1 DEF AfterAck, Calls, Running
<1>2. CASE k.pc = "resolving"
  <2> DEFINE m == [k EXCEPT !.pc = "resolve"]
  <2>1. m \in Calls /\ m.status = k.status /\ m.next = k.next /\ m.pc = "resolve"
    BY DEF Calls, Running
  <2> HIDE DEF m
  <2> DEFINE n == [m EXCEPT !.next = m.next + 1]
  <2>2. n \in Calls /\ n.status = k.status /\ n.pc = "resolve"
    BY <2>1 DEF Calls
  <2> HIDE DEF n
  <2>3. AfterAck(k) = n
    BY <1>2 DEF AfterAck, n, m
  <2> QED
    BY <1>2, <2>2, <2>3
<1> QED
  BY <1>1, <1>2

\* Callers that move on keep what the calls rely on, if the record only
\* advances and no participant loses the writes.
LEMMA AckStep ==
  ASSUME IInv, \A c \in Clients : cl'[c] = cl[c] \/ cl'[c] = AfterAck(cl[c]),
         rec.status = "Committed" => rec'.status = "Committed",
         \A q \in Ranges : Accepted(q) => Accepted(q)'
  PROVE  CoordInv' /\ CallInv'
<1>1. Coord \in Clients /\ \A c \in Clients : cl[c] \in Calls
  BY DEF IInv, TypeOK, Clients
<1>2. CoordInv'
  <2>1. /\ AfterAck(cl[Coord]).status = cl[Coord].status
        /\ cl[Coord].pc # "resolving" => AfterAck(cl[Coord]).next = cl[Coord].next
        /\ AfterAck(cl[Coord]).pc = CASE cl[Coord].pc = "creating"  -> "prepare"
                               [] cl[Coord].pc = "preparing" -> "query"
                               [] cl[Coord].pc = "deciding"  -> "confirm"
                               [] cl[Coord].pc = "taking"    -> "fence"
                               [] cl[Coord].pc \in {"aborting", "resolving"} -> "resolve"
                               [] OTHER              -> cl[Coord].pc
    BY <1>1, AckCall
  <2>2. cl'[Coord] = cl[Coord] \/ cl'[Coord] = AfterAck(cl[Coord])
    BY <1>1
  <2>3. CoordInv /\ 1 \in Ranges /\ (\A q \in Ranges : ~(q < 1)) /\ (AllAccepted => AllAccepted')
    BY TxnAssumption DEF IInv, Ranges, AllAccepted
  <2> QED
    BY <2>1, <2>2, <2>3 DEF CoordInv
<1>3. CallInv'
  <2> SUFFICES ASSUME NEW c \in Clients
               PROVE  /\ cl'[c].pc \notin {"decide", "deciding", "confirm", "resolve", "resolving"}
                           => cl'[c].status = "Aborted"
                      /\ cl'[c].pc \in {"resolve", "resolving"} /\ cl'[c].status = "Committed"
                           => rec'.status = "Committed"
    BY DEF CallInv
  <2>1. /\ AfterAck(cl[c]).status = cl[c].status
        /\ AfterAck(cl[c]).pc = CASE cl[c].pc = "creating"  -> "prepare"
                               [] cl[c].pc = "preparing" -> "query"
                               [] cl[c].pc = "deciding"  -> "confirm"
                               [] cl[c].pc = "taking"    -> "fence"
                               [] cl[c].pc \in {"aborting", "resolving"} -> "resolve"
                               [] OTHER              -> cl[c].pc
    BY <1>1, AckCall
  <2>2. cl'[c] = cl[c] \/ cl'[c] = AfterAck(cl[c])
    OBVIOUS
  <2>3. CallInv
    BY DEF IInv
  <2> QED
    BY <2>1, <2>2, <2>3 DEF CallInv
<1> QED
  BY <1>2, <1>3

\* An applied command leaves its log, and its caller moves on.  If the record
\* only advances and no participant loses the writes, what the calls and the
\* other commands rely on still holds.
LEMMA SucceedInv ==
  ASSUME IInv, NEW r \in Ranges, log[r] # <<>>, Succeed(r, Head(log[r])),
         rec.status # "None" => rec'.status # "None" /\ rec'.ct = rec.ct,
         rec.status \in Terminal => rec'.status = rec.status,
         \A q \in Ranges : Accepted(q) => Accepted(q)',
         UNCHANGED <<lastCT, state, told>>
  PROVE  /\ log' \in [Ranges -> Seq(Operations)] /\ OpInv'
         /\ cl' \in [Clients -> Calls] /\ CoordInv' /\ CallInv' /\ ToldInv'
         /\ halted' = halted
<1> DEFINE op == Head(log[r])
<1>1. TypeOK /\ log \in [Ranges -> Seq(Operations)] /\ OpInv /\ cl \in [Clients -> Calls]
      /\ Coord \in Clients
  BY DEF IInv, TypeOK, Clients
<1>2. log' = [log EXCEPT ![r] = Tail(log[r])] /\ Acknowledge(op) /\ halted' = halted
  BY DEF Succeed
<1>3. /\ Tail(log[r]) \in Seq(Operations)
      /\ \A i \in 1 .. Len(Tail(log[r])) : i + 1 \in 1 .. Len(log[r])
                                          /\ Tail(log[r])[i] = log[r][i + 1]
      /\ op \in Operations
  BY <1>1, TailElems
<1>4. log' \in [Ranges -> Seq(Operations)]
  BY <1>1, <1>2, <1>3
<1>5. OpInv'
  <2> SUFFICES ASSUME NEW q \in Ranges, NEW i \in 1 .. Len(log'[q]) PROVE OpOK(log[q][i])'
    BY DEF OpInv
  <2>1. PICK j \in 1 .. Len(log[q]) : log'[q][i] = log[q][j]
    BY <1>1, <1>2, <1>3, Zenon
  <2>2. OpOK(log[q][j])
    BY <1>1 DEF OpInv
  <2>3. AllAccepted => AllAccepted'
    BY DEF AllAccepted
  <2> QED
    BY <2>1, <2>2, <2>3 DEF OpOK, Terminal
<1>6. \A c \in Clients : cl'[c] = cl[c] \/ cl'[c] = AfterAck(cl[c])
  BY <1>1, <1>2 DEF Acknowledge
<1>7. \A c \in Clients : cl[c] \in Calls
  BY <1>1
<1>8. cl' \in [Clients -> Calls]
  <2>1. \A c \in Clients : AfterAck(cl[c]) \in Calls
    BY <1>7, AckCall
  <2>2. CASE op.by = Nobody
    BY <1>1, <1>2, <2>2 DEF Acknowledge
  <2>3. CASE op.by # Nobody
    <3>1. op.by \in Clients
      BY <1>3, <2>3 DEF Operations
    <3>2. cl' = [cl EXCEPT ![op.by] = AfterAck(cl[op.by])]
      BY <1>2, <2>3 DEF Acknowledge
    <3> QED
      BY <1>1, <2>1, <3>1, <3>2
  <2> QED
    BY <2>2, <2>3
<1>9. CoordInv' /\ CallInv'
  BY <1>6, AckStep DEF Terminal
<1>11. ToldInv'
  BY DEF IInv, ToldInv, Terminal
<1> QED
  BY <1>2, <1>4, <1>5, <1>8, <1>9, <1>11

\* A range whose apply failed drops out and changes nothing else.
LEMMA HaltInv ==
  ASSUME NEW r \in Ranges PROVE IInv /\ Halt(r) /\ UNCHANGED <<lastCT, state, told>> => IInv'
<1> SUFFICES ASSUME IInv, Halt(r), UNCHANGED <<lastCT, state, told>> PROVE IInv'
  OBVIOUS
<1>1. log \in [Ranges -> Seq(Operations)] /\ halted \in [Ranges -> BOOLEAN] /\ OpInv
  BY DEF IInv, TypeOK
<1>2. /\ halted' = [halted EXCEPT ![r] = TRUE] /\ log' = [log EXCEPT ![r] = <<>>]
      /\ UNCHANGED <<rec, seen, part, pseen, mark, cl>>
  BY DEF Halt
<1>3. halted' \in [Ranges -> BOOLEAN] /\ log' \in [Ranges -> Seq(Operations)]
  BY <1>1, <1>2
<1>4. TypeOK'
  BY <1>2, <1>3 DEF IInv, TypeOK
<1>5. OpInv'
  <2> SUFFICES ASSUME NEW q \in Ranges, NEW i \in 1 .. Len(log'[q]) PROVE OpOK(log[q][i])'
    BY DEF OpInv
  <2>1. log'[q] = log[q] \/ log'[q] = <<>>
    BY <1>1, <1>2
  <2>2. log'[q] = log[q]
    BY <2>1
  <2>3. OpOK(log[q][i])
    BY <1>1, <2>2 DEF OpInv
  <2> QED
    BY <1>2, <2>2, <2>3 DEF OpOK, AllAccepted, Accepted
<1>6. RecInv' /\ PartInv' /\ CoordInv' /\ CallInv' /\ ToldInv'
  BY <1>2 DEF IInv, RecInv, PartInv, CoordInv, CallInv, ToldInv, AllAccepted, Accepted
<1> QED
  BY <1>4, <1>5, <1>6 DEF IInv

\* An answer for a command that was overwritten moves callers, and no range.
LEMMA OverwriteInv ==
  ASSUME NEW r \in Ranges PROVE IInv /\ Overwrite(r) => IInv'
<1> SUFFICES ASSUME IInv, Overwrite(r) PROVE IInv'
  OBVIOUS
<1>1. log \in [Ranges -> Seq(Operations)] /\ OpInv /\ \A c \in Clients : cl[c] \in Calls
  BY DEF IInv, TypeOK
<1>2. log' = [log EXCEPT ![r] = <<>>] /\ UNCHANGED <<rangeVars, lastCT, state, told>>
  BY DEF Overwrite
<1>3. PICK m \in 1 .. Len(log[r]) :
        cl' = [c \in Clients |-> IF \E i \in 1 .. m : log[r][i].by = c
                                   THEN AfterAck(cl[c]) ELSE cl[c]]
  BY DEF Overwrite
<1>4. \A c \in Clients : AfterAck(cl[c]) \in Calls
  BY <1>1, AckCall
<1>5. /\ cl' \in [Clients -> Calls]
      /\ \A c \in Clients : cl'[c] = cl[c] \/ cl'[c] = AfterAck(cl[c])
  BY <1>1, <1>3, <1>4
<1>6. CoordInv' /\ CallInv'
  BY <1>2, <1>5, AckStep DEF rangeVars, Accepted
<1>7. log' \in [Ranges -> Seq(Operations)]
  BY <1>1, <1>2
<1>8. OpInv'
  <2> SUFFICES ASSUME NEW q \in Ranges, NEW i \in 1 .. Len(log'[q]) PROVE OpOK(log[q][i])'
    BY DEF OpInv
  <2>1. log'[q] = log[q] \/ log'[q] = <<>>
    BY <1>1, <1>2
  <2>2. log'[q] = log[q]
    BY <2>1
  <2>3. OpOK(log[q][i])
    BY <1>1, <2>2 DEF OpInv
  <2> QED
    BY <1>2, <2>2, <2>3 DEF OpOK, AllAccepted, Accepted, rangeVars
<1>9. ToldInv' /\ state' \in {"Open"} \cup Terminal /\ told' \subseteq Terminal \cup {"Success"}
      /\ lastCT' \in Nat
  BY <1>2 DEF ToldInv, IInv, TypeOK, rangeVars
<1> QED
  BY <1>2, <1>5, <1>6, <1>7, <1>8, <1>9, ClientStep

\* A command that advances the record.
LEMMA RecordStep ==
  ASSUME IInv, NEW r \in Ranges, log[r] # <<>>, Succeed(r, Head(log[r])),
         NEW new \in Records, SetRecord(new), UNCHANGED <<part, pseen, mark>>,
         rec.status # "None" => new.status # "None" /\ new.ct = rec.ct,
         rec.status \in Terminal => new.status = rec.status,
         new.status = "Committed" => AllAccepted,
         UNCHANGED <<lastCT, state, told>>
  PROVE  IInv'
<1>1. rec' = new /\ seen' = seen \cup {new}
  BY DEF SetRecord
<1>2. \A q \in Ranges : Accepted(q) => Accepted(q)'
  BY DEF Accepted
<1>3. /\ log' \in [Ranges -> Seq(Operations)] /\ OpInv'
      /\ cl' \in [Clients -> Calls] /\ CoordInv' /\ CallInv' /\ ToldInv'
      /\ halted' = halted
  BY <1>1, <1>2, SucceedInv
<1>4. TypeOK'
  BY <1>1, <1>3 DEF IInv, TypeOK
<1>5. RecInv'
  BY <1>1, <1>2 DEF IInv, RecInv, AllAccepted
<1>6. PartInv'
  BY <1>1, <1>2 DEF IInv, PartInv, Terminal
<1> QED
  BY <1>3, <1>4, <1>5, <1>6 DEF IInv

\* A command that advances a participant.
LEMMA ParticipantStep ==
  ASSUME IInv, NEW r \in Ranges, log[r] # <<>>, Succeed(r, Head(log[r])),
         NEW new \in Participants, NEW mk \in Marks, SetParticipant(r, new, mk),
         UNCHANGED <<rec, seen>>,
         Accepted(r) => new.status \notin {"None", "Rejected"},
         new.status # "None" => rec.status # "None" /\ new.ct = rec.ct,
         new.status \in Terminal => new.status = rec.status,
         new.status \in {"None", "Rejected"} => mk = "none",
         new.status = "Prepared" => mk = "intent",
         new.status = "Committed" => mk = "value",
         new.status = "Aborted" => mk \in {"none", "abort"},
         UNCHANGED <<lastCT, state, told>>
  PROVE  IInv'
<1>1. /\ part' = [part EXCEPT ![r] = new]
      /\ pseen' = [pseen EXCEPT ![r] = pseen[r] \cup {new}]
      /\ mark' = [mark EXCEPT ![r] = mk]
  BY DEF SetParticipant
<1>2. /\ part \in [Ranges -> Participants] /\ pseen \in [Ranges -> SUBSET Participants]
      /\ mark \in [Ranges -> Marks]
  BY DEF IInv, TypeOK
<1>3. /\ part' \in [Ranges -> Participants] /\ pseen' \in [Ranges -> SUBSET Participants]
      /\ mark' \in [Ranges -> Marks]
  BY <1>1, <1>2
<1>4. \A q \in Ranges : Accepted(q) => Accepted(q)'
  BY <1>1, <1>2 DEF Accepted
<1>5. /\ log' \in [Ranges -> Seq(Operations)] /\ OpInv'
      /\ cl' \in [Clients -> Calls] /\ CoordInv' /\ CallInv' /\ ToldInv'
      /\ halted' = halted
  BY <1>4, SucceedInv
<1>6. TypeOK'
  BY <1>3, <1>5 DEF IInv, TypeOK
<1>7. RecInv'
  BY <1>4 DEF IInv, RecInv, AllAccepted
<1>8. PartInv'
  <2> SUFFICES ASSUME NEW q \in Ranges
               PROVE  /\ part'[q].status # "None" => rec'.status # "None" /\ part'[q].ct = rec'.ct
                      /\ part'[q].status \in Terminal => part'[q].status = rec'.status
                      /\ part'[q].status \in {"None", "Rejected"} => mark'[q] = "none"
                      /\ part'[q].status = "Prepared" => mark'[q] = "intent"
                      /\ part'[q].status = "Committed" => mark'[q] = "value"
                      /\ part'[q].status = "Aborted" => mark'[q] \in {"none", "abort"}
                      /\ \A p \in pseen'[q] : p.status = "Prepared" => Accepted(q)'
    BY DEF PartInv
  <2>1. PartInv
    BY DEF IInv
  <2>2. CASE q = r
    <3>1. part'[q] = new /\ mark'[q] = mk /\ pseen'[q] = pseen[r] \cup {new}
      BY <1>1, <1>2, <2>2
    <3>2. \A p \in pseen[r] : p.status = "Prepared" => Accepted(r)
      BY <2>1 DEF PartInv
    <3> QED
      BY <2>2, <3>1, <3>2 DEF Accepted
  <2>3. CASE q # r
    <3>1. part'[q] = part[q] /\ mark'[q] = mark[q] /\ pseen'[q] = pseen[q]
      BY <1>1, <1>2, <2>3
    <3> QED
      BY <2>1, <3>1 DEF PartInv, Accepted
  <2> QED
    BY <2>2, <2>3
<1> QED
  BY <1>5, <1>6, <1>7, <1>8 DEF IInv

\* Applying the head of a log, command by command.
LEMMA ApplyInv ==
  ASSUME NEW r \in Ranges PROVE IInv /\ Apply(r) => IInv'
<1> SUFFICES ASSUME IInv, Apply(r) PROVE IInv'
  OBVIOUS
<1> DEFINE op == Head(log[r])
<1>1. log[r] # <<>> /\ UNCHANGED <<lastCT, state, told>>
  BY DEF Apply
<1>2. op \in Operations /\ OpOK(op) /\ op.ct \in Nat /\ op.epoch \in Nat
  <2>1. log[r] \in Seq(Operations) /\ OpInv
    BY DEF IInv, TypeOK
  <2>2. op = log[r][1] /\ 1 \in 1 .. Len(log[r]) /\ op \in Operations
    BY <1>1, <2>1, TailElems
  <2> QED
    BY <2>1, <2>2 DEF OpInv, Operations
<1>3. /\ rec \in Records /\ part[r] \in Participants /\ mark[r] \in Marks
      /\ RecInv /\ PartInv /\ rec \in seen
  BY DEF IInv, TypeOK, RecInv
<1>4. CASE op.type = "Create" /\ ApplyCreate(r, op)
  <2>1. CASE Halt(r)
    BY <1>1, <2>1, HaltInv
  <2>2. CASE ~CreateConflicts(rec, op)
    <3> DEFINE new == Created(rec, op)
    <3>1. SetRecord(new) /\ Succeed(r, op) /\ UNCHANGED <<part, pseen, mark>>
      BY <1>4, <2>2 DEF ApplyCreate
    <3>2. /\ new \in Records
          /\ rec.status # "None" => new.status # "None" /\ new.ct = rec.ct
          /\ rec.status \in Terminal => new.status = rec.status
          /\ new.status = "Committed" => AllAccepted
      BY <1>2, <1>3 DEF Created, PendingRecord, Records, RecInv, Terminal
    <3> HIDE DEF new
    <3> QED
      BY <1>1, <3>1, <3>2, RecordStep
  <2> QED
    BY <1>4, <2>1, <2>2 DEF ApplyCreate
<1>5. CASE op.type \in {"Commit", "Abort"} /\ ApplyDecision(r, op)
  <2>1. CASE Halt(r)
    BY <1>1, <2>1, HaltInv
  <2>2. CASE ~DecisionConflicts(rec, op)
    <3> DEFINE new == Decided(rec, op)
    <3>1. SetRecord(new) /\ Succeed(r, op) /\ UNCHANGED <<part, pseen, mark>>
      BY <1>5, <2>2 DEF ApplyDecision
    <3>2. /\ new \in Records
          /\ rec.status # "None" => new.status # "None" /\ new.ct = rec.ct
          /\ rec.status \in Terminal => new.status = rec.status
          /\ new.status = "Committed" => AllAccepted
      BY <1>2, <1>3, <1>5 DEF Decided, StatusOf, Records, RecInv, Terminal, OpOK
    <3> HIDE DEF new
    <3> QED
      BY <1>1, <3>1, <3>2, RecordStep
  <2> QED
    BY <1>5, <2>1, <2>2 DEF ApplyDecision
<1>6. CASE op.type = "Takeover" /\ ApplyTakeover(r, op)
  <2>1. CASE Halt(r)
    BY <1>1, <2>1, HaltInv
  <2>2. CASE ~TakeoverConflicts(rec, op)
    <3> DEFINE new == TakenOver(rec, op)
    <3>1. SetRecord(new) /\ Succeed(r, op) /\ UNCHANGED <<part, pseen, mark>>
      BY <1>6, <2>2 DEF ApplyTakeover
    <3>2. /\ new \in Records
          /\ rec.status # "None" => new.status # "None" /\ new.ct = rec.ct
          /\ rec.status \in Terminal => new.status = rec.status
          /\ new.status = "Committed" => AllAccepted
      BY <1>2, <1>3 DEF TakenOver, Records, RecInv
    <3> HIDE DEF new
    <3> QED
      BY <1>1, <3>1, <3>2, RecordStep
  <2> QED
    BY <1>6, <2>1, <2>2 DEF ApplyTakeover
<1>7. CASE op.type = "Prepare" /\ ApplyPrepare(r, op)
  <2>1. CASE Halt(r)
    BY <1>1, <2>1, HaltInv
  <2>2. CASE ~PrepareConflicts(part[r], op)
    <3>1. Succeed(r, op) /\ UNCHANGED <<rec, seen>>
      BY <1>7, <2>2 DEF ApplyPrepare
    <3>2. PICK clash \in BOOLEAN : SetParticipant(r, PreparedAs(part[r], op, clash),
                                                  PreparedMark(part[r], mark[r], clash))
      BY <1>7, <2>2 DEF ApplyPrepare
    <3> DEFINE new == PreparedAs(part[r], op, clash)
               mk == PreparedMark(part[r], mark[r], clash)
    <3>3. /\ new \in Participants /\ mk \in Marks
          /\ Accepted(r) => new.status \notin {"None", "Rejected"}
          /\ new.status # "None" => rec.status # "None" /\ new.ct = rec.ct
          /\ new.status \in Terminal => new.status = rec.status
          /\ new.status \in {"None", "Rejected"} => mk = "none"
          /\ new.status = "Prepared" => mk = "intent"
          /\ new.status = "Committed" => mk = "value"
          /\ new.status = "Aborted" => mk \in {"none", "abort"}
      <4>1. CASE part[r].status = "None"
        <5>1. /\ op.ct \in Nat /\ op.epoch \in Nat /\ rec.status # "None" /\ op.ct = rec.ct
              /\ mark[r] = "none" /\ ~Accepted(r)
          BY <1>2, <1>3, <1>7, <4>1 DEF PartInv, Accepted, OpOK
        <5>2. /\ new.status = IF clash THEN "Rejected" ELSE "Prepared"
              /\ new.ct = op.ct /\ new \in Participants
              /\ mk = IF clash THEN "none" ELSE "intent"
          BY <4>1, <5>1 DEF PreparedAs, PreparedMark, Participants
        <5> HIDE DEF new, mk
        <5> QED
          BY <5>1, <5>2 DEF Marks, Terminal
      <4>2. CASE part[r].status # "None"
        <5>1. new = part[r] /\ mk = mark[r]
          BY <4>2 DEF PreparedAs, PreparedMark
        <5> HIDE DEF new, mk
        <5> QED
          BY <1>3, <5>1 DEF PartInv, Accepted
      <4> QED
        BY <4>1, <4>2, Zenon
    <3> HIDE DEF new, mk
    <3> QED
      BY <1>1, <3>1, <3>2, <3>3, ParticipantStep DEF new, mk
  <2> QED
    BY <1>7, <2>1, <2>2 DEF ApplyPrepare
<1>8. CASE op.type \in {"ResolveCommit", "ResolveAbort"} /\ ApplyResolution(r, op)
  <2>1. CASE Halt(r)
    BY <1>1, <2>1, HaltInv
  <2>2. CASE ~ResolutionConflicts(part[r], op)
    <3> DEFINE new == Resolved(part[r], op)
               mk == ResolvedMark(part[r], mark[r], op)
    <3>1. SetParticipant(r, new, mk) /\ Succeed(r, op) /\ UNCHANGED <<rec, seen>>
      BY <1>8, <2>2 DEF ApplyResolution
    <3>2. rec.status = StatusOf(op.type) /\ op.ct = rec.ct
          /\ (op.type = "ResolveCommit" => Accepted(r))
      BY <1>2, <1>3, <1>8 DEF OpOK, StatusOf, RecInv, AllAccepted
    <3>3. /\ new \in Participants /\ mk \in Marks
          /\ Accepted(r) => new.status \notin {"None", "Rejected"}
          /\ new.status # "None" => rec.status # "None" /\ new.ct = rec.ct
          /\ new.status \in Terminal => new.status = rec.status
          /\ new.status \in {"None", "Rejected"} => mk = "none"
          /\ new.status = "Prepared" => mk = "intent"
          /\ new.status = "Committed" => mk = "value"
          /\ new.status = "Aborted" => mk \in {"none", "abort"}
      BY <1>2, <1>3, <1>8, <3>2, Zenon DEF Resolved, ResolvedMark, StatusOf, Participants, Marks,
                                    PartInv, Accepted, Terminal
    <3> HIDE DEF new, mk
    <3> QED
      BY <1>1, <3>1, <3>3, ParticipantStep
  <2> QED
    BY <1>8, <2>1, <2>2 DEF ApplyResolution
<1> QED
  BY <1>4, <1>5, <1>6, <1>7, <1>8 DEF Apply
---------------------------------------------------------------------------
(* The theorems *)

\* The fresh cluster satisfies the invariant.
LEMMA InitInv == Init => IInv
<1> SUFFICES ASSUME Init PROVE IInv
  OBVIOUS
<1>1. TypeOK
  BY DEF Init, TypeOK, NoRecord, NoParticipant, Records, Participants, Marks, Idle, Calls,
         Terminal
<1>2. RecInv /\ PartInv
  BY DEF Init, RecInv, PartInv, NoRecord, NoParticipant, Terminal
<1>3. OpInv
  <2>1. \A r \in Ranges : Len(log[r]) = 0
    BY DEF Init
  <2> QED
    BY <2>1 DEF OpInv
<1>4. CoordInv /\ CallInv /\ ToldInv
  BY DEF Init, CoordInv, CallInv, ToldInv, Idle, Clients
<1> QED
  BY <1>1, <1>2, <1>3, <1>4 DEF IInv

\* Every step of a call, a pass or a range keeps the invariant.
LEMMA NextInv == IInv /\ [Next]_vars => IInv'
<1> SUFFICES ASSUME IInv, [Next]_vars PROVE IInv'
  OBVIOUS
<1>1. CASE CoordStep
  BY <1>1, CommitCallInv, AnswerInv, AssignInv, ProposePrepareInv, QueryInv,
     ProposeDecisionInv, ConfirmInv, AbortCallInv, CoordDiesInv DEF CoordStep
<1>2. ASSUME NEW c \in Recoverers, RecoverCall(c) PROVE IInv'
  BY <1>2, RecoverInv
<1>3. ASSUME NEW c \in Clients,
             ProposeAbort(c) \/ ProposeResolve(c) \/ ResolveDone(c) \/ GiveUp(c)
      PROVE  IInv'
  BY <1>3, ProposeAbortInv, ProposeResolveInv, ResolveDoneInv, GiveUpInv
<1>4. ASSUME NEW r \in Ranges, Apply(r) \/ LoseSuffix(r) \/ Overwrite(r) PROVE IInv'
  BY <1>4, ApplyInv, LoseSuffixInv, OverwriteInv
<1>5. CASE UNCHANGED vars
  <2>1. TypeOK' /\ RecInv' /\ PartInv'
    BY <1>5 DEF vars, IInv, TypeOK, RecInv, PartInv, AllAccepted, Accepted
  <2>2. OpInv' /\ CoordInv' /\ CallInv' /\ ToldInv'
    BY <1>5 DEF vars, IInv, OpInv, OpOK, CoordInv, CallInv, ToldInv, AllAccepted, Accepted
  <2> QED
    BY <2>1, <2>2 DEF IInv
<1> QED
  BY <1>1, <1>2, <1>3, <1>4, <1>5 DEF Next

\* What the coordinator, the recovery passes and the ranges keep true together.
THEOREM Invariance == Spec => []IInv
<1>1. Init => IInv
  BY InitInv
<1>2. IInv /\ [Next]_vars => IInv'
  BY NextInv
<1> QED
  BY <1>1, <1>2, PTL DEF Spec

\* Every variable of the protocol keeps its type, for any number of ranges.
THEOREM TypeCorrect == Spec => []TypeOK
<1>1. IInv => TypeOK
  BY DEF IInv
<1> QED
  BY <1>1, Invariance, PTL

\* TXN-8 for any number of ranges and recovery passes: a COMMITTED record means
\* that every participant still holds the writes at the record's commit time.
THEOREM CommitComplete == Spec => []CommitHasEveryWrite
<1>1. IInv => CommitHasEveryWrite
  BY DEF IInv, RecInv, PartInv, CommitHasEveryWrite, AllAccepted, Accepted, Terminal,
         TypeOK, Participants
<1> QED
  BY <1>1, Invariance, PTL

\* TXN-6 and TXN-9 for any number of ranges and recovery passes: applyResolution
\* never contradicts the record, though it does not read it.
THEOREM ResolutionSound == Spec => []ResolutionFollowsRecord
<1>1. IInv => ResolutionFollowsRecord
  BY Zenon DEF IInv, PartInv, ResolutionFollowsRecord, Terminal, TypeOK, Participants
<1> QED
  BY <1>1, Invariance, PTL

\* TXN-4 for any number of ranges and recovery passes: Commit and Abort say
\* committed only of a transaction whose record is COMMITTED.
THEOREM CommittedAnswerSound == Spec => []CommittedAnswerIsDurable
<1>1. IInv => CommittedAnswerIsDurable
  BY DEF IInv, ToldInv, CommittedAnswerIsDurable
<1> QED
  BY <1>1, Invariance, PTL
---------------------------------------------------------------------------
(* Refinement *)

\* A step that leaves record and participants alone is a stutter.
LEMMA ClientStutter ==
  ASSUME UNCHANGED <<rec, part>> PROVE UNCHANGED AC!acVars
  BY DEF AC!acVars, Outcome, PState, StateOf

\* A step of the record decides the outcome once, or is a stutter.
LEMMA RecordRefines ==
  ASSUME IInv, IInv', UNCHANGED part, rec.status \in Terminal => rec'.status = rec.status
  PROVE  [AC!ACNext]_AC!acVars
<1>1. rec \in Records /\ rec' \in Records /\ part \in [Ranges -> Participants]
  BY DEF IInv, TypeOK
<1>2. UNCHANGED PState
  BY DEF PState, StateOf
<1>3. CASE Outcome' = Outcome
  BY <1>2, <1>3 DEF AC!acVars
<1>4. CASE Outcome' # Outcome
  <2>1. rec.status \notin Terminal /\ rec'.status \in Terminal /\ Outcome = "undecided"
    BY <1>1, <1>4 DEF Outcome, Records, Terminal
  <2>2. CASE rec'.status = "Aborted"
    <3>1. Outcome' = "aborted"
      BY <2>2 DEF Outcome
    <3> QED
      BY <1>2, <2>1, <3>1 DEF AC!ACNext, AC!Abort
  <2>3. CASE rec'.status = "Committed"
    <3>1. Outcome' = "committed"
      BY <2>3 DEF Outcome
    <3>2. \A q \in Ranges : part[q].status \notin {"None", "Rejected"}
      BY <2>3 DEF IInv, RecInv, AllAccepted, Accepted
    <3>3. \A q \in Ranges : part[q].status \notin Terminal
      BY <2>1 DEF IInv, PartInv
    <3>4. \A q \in Ranges : part[q].status = "Prepared"
      BY <1>1, <3>2, <3>3 DEF Participants
    <3>5. \A q \in Ranges : PState[q] = "prepared"
      BY <3>4 DEF PState, StateOf
    <3> QED
      BY <1>2, <2>1, <3>1, <3>5 DEF AC!ACNext, AC!Commit
  <2> QED
    BY <2>1, <2>2, <2>3 DEF Terminal
<1> QED
  BY <1>3, <1>4

\* A step of a participant takes the writes or follows the record, or is a stutter.
LEMMA ParticipantRefines ==
  ASSUME IInv, IInv', UNCHANGED rec, NEW r \in Ranges, NEW new,
         part' = [part EXCEPT ![r] = new],
         part[r].status \in Terminal => new.status = part[r].status,
         part[r].status = "Prepared" => new.status \notin {"None", "Rejected"}
  PROVE  [AC!ACNext]_AC!acVars
<1>1. part \in [Ranges -> Participants] /\ new \in Participants /\ rec \in Records
  <2>1. part \in [Ranges -> Participants] /\ part' \in [Ranges -> Participants]
        /\ rec \in Records
    BY DEF IInv, TypeOK
  <2> QED
    BY <2>1
<1>2. UNCHANGED Outcome
  BY DEF Outcome
<1>3. PState' = [PState EXCEPT ![r] = StateOf(new)] /\ PState[r] = StateOf(part[r])
  BY <1>1, Zenon DEF PState, StateOf
<1>4. /\ new.status \in Terminal => new.status = rec.status
      /\ rec.status = "Committed" => part[r].status \notin {"None", "Rejected"}
      /\ part[r] \in Participants
  BY <1>1 DEF IInv, PartInv, RecInv, AllAccepted, Accepted
<1>5. CASE StateOf(new) = StateOf(part[r])
  <2>1. PState' = PState
    BY <1>1, <1>3, <1>5 DEF PState
  <2> QED
    BY <1>2, <2>1 DEF AC!acVars
<1>6. CASE StateOf(new) # StateOf(part[r])
  <2>1. \/ StateOf(part[r]) = "working" /\ StateOf(new) = "prepared" /\ Outcome # "committed"
        \/ StateOf(part[r]) = "prepared" /\ StateOf(new) = "committed" /\ Outcome = "committed"
        \/ /\ StateOf(part[r]) \in {"working", "prepared"}
           /\ StateOf(new) = "aborted" /\ Outcome = "aborted"
    BY <1>1, <1>4, <1>6 DEF StateOf, Outcome, Participants, Records, Terminal
  <2>2. AC!Prepare(r) \/ AC!FollowCommit(r) \/ AC!FollowAbort(r)
    BY <1>2, <1>3, <2>1, Zenon DEF AC!Prepare, AC!FollowCommit, AC!FollowAbort
  <2> QED
    BY <2>2 DEF AC!ACNext
<1> QED
  BY <1>5, <1>6

\* Applying a command is one abstract step, or a stutter.
LEMMA ApplyRefines ==
  ASSUME IInv, IInv', NEW r \in Ranges, Apply(r)
  PROVE  [AC!ACNext]_AC!acVars
<1> DEFINE op == Head(log[r])
<1>1. CASE Halt(r)
  BY <1>1, ClientStutter DEF Halt
<1>2. CASE op.type = "Create" /\ ApplyCreate(r, op)
  <2>1. CASE ~CreateConflicts(rec, op)
    BY <1>2, <2>1, RecordRefines DEF ApplyCreate, SetRecord, Created, Terminal
  <2> QED
    BY <1>1, <1>2, <2>1 DEF ApplyCreate
<1>3. CASE ApplyDecision(r, op)
  <2>1. CASE ~DecisionConflicts(rec, op)
    <3>1. rec.status \in Terminal => Decided(rec, op) = rec
      BY DEF Decided, Terminal
    <3> QED
      BY <1>3, <2>1, <3>1, RecordRefines DEF ApplyDecision, SetRecord
  <2> QED
    BY <1>1, <1>3, <2>1 DEF ApplyDecision
<1>4. CASE ApplyTakeover(r, op)
  <2>1. CASE ~TakeoverConflicts(rec, op)
    BY <1>4, <2>1, RecordRefines DEF ApplyTakeover, SetRecord, TakeoverConflicts, Terminal
  <2> QED
    BY <1>1, <1>4, <2>1 DEF ApplyTakeover
<1>5. CASE ApplyPrepare(r, op)
  <2>1. CASE ~PrepareConflicts(part[r], op)
    <3>1. PICK clash \in BOOLEAN : SetParticipant(r, PreparedAs(part[r], op, clash),
                                                  PreparedMark(part[r], mark[r], clash))
      BY <1>5, <2>1 DEF ApplyPrepare
    <3> DEFINE new == PreparedAs(part[r], op, clash)
    <3>2. /\ part[r].status \in Terminal => new.status = part[r].status
          /\ part[r].status = "Prepared" => new.status \notin {"None", "Rejected"}
      BY DEF PreparedAs, Terminal
    <3>3. part' = [part EXCEPT ![r] = new] /\ UNCHANGED rec
      BY <1>5, <2>1, <3>1 DEF ApplyPrepare, SetParticipant
    <3> HIDE DEF new
    <3> QED
      BY <3>2, <3>3, ParticipantRefines, Zenon
  <2> QED
    BY <1>1, <1>5, <2>1 DEF ApplyPrepare
<1>6. CASE ApplyResolution(r, op)
  <2>1. CASE ~ResolutionConflicts(part[r], op)
    <3> DEFINE new == Resolved(part[r], op)
    <3>1. /\ part[r].status \in Terminal => new.status = part[r].status
          /\ part[r].status = "Prepared" => new.status \notin {"None", "Rejected"}
      BY DEF Resolved, StatusOf, Terminal
    <3>2. part' = [part EXCEPT ![r] = new] /\ UNCHANGED rec
      BY <1>6, <2>1 DEF ApplyResolution, SetParticipant
    <3> HIDE DEF new
    <3> QED
      BY <3>1, <3>2, ParticipantRefines, Zenon
  <2> QED
    BY <1>1, <1>6, <2>1 DEF ApplyResolution
<1> QED
  BY <1>2, <1>3, <1>4, <1>5, <1>6 DEF Apply

\* TXN-4 to TXN-9 together, for any number of ranges and recovery passes: the
\* protocol's record and participants implement AtomicCommit.
THEOREM Refinement == Spec => ImplementsAtomicCommit
<1>1. Init => AC!ACInit
  BY DEF Init, AC!ACInit, Outcome, PState, StateOf, NoRecord, NoParticipant
<1>2. IInv /\ IInv' /\ [Next]_vars => [AC!ACNext]_AC!acVars
  <2> SUFFICES ASSUME IInv, IInv', [Next]_vars PROVE [AC!ACNext]_AC!acVars
    OBVIOUS
  <2>1. CASE \E r \in Ranges : Apply(r)
    BY <2>1, ApplyRefines
  <2>2. CASE CoordStep
    BY <2>2, ClientStutter
       DEF CoordStep, CommitCall, CommitMoved, CommitAgain, AssignAndCreate, ProposePrepare,
           QueryPrepared, ProposeDecision, ConfirmDecision, AbortCall, CoordDies, rangeVars
  <2>3. CASE \/ \E c \in Recoverers : RecoverCall(c)
             \/ \E c \in Clients : ProposeAbort(c) \/ ProposeResolve(c) \/ ResolveDone(c) \/ GiveUp(c)
             \/ \E r \in Ranges : LoseSuffix(r) \/ Overwrite(r)
    BY <2>3, ClientStutter, Zenon
       DEF RecoverCall, RecoverCallOn, ProposeAbort, ProposeAbortOn, ProposeResolve,
           ProposeResolveOn, ResolveDone, GiveUp, LoseSuffix, Overwrite, rangeVars
  <2>4. CASE UNCHANGED vars
    BY <2>4, ClientStutter DEF vars
  <2> QED
    BY <2>1, <2>2, <2>3, <2>4 DEF Next
<1> QED
  BY <1>1, <1>2, Invariance, PTL DEF Spec, ImplementsAtomicCommit, AC!ACSpec
===========================================================================
