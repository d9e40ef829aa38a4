------------------------------ MODULE TxnSteps ------------------------------
(***************************************************************************)
(* The inductive invariant of TxnProtocol, for every number of ranges and  *)
(* recoverers and every bound, and that the steps of the callers keep it.  *)
(*                                                                         *)
(* The invariant says what stays true while commands are in flight: a      *)
(* value some leader has shown bounds the present record, a command in a   *)
(* log was proposed for a reason that still holds, and a coordinator past  *)
(* a participant left it prepared or resolved.                             *)
(***************************************************************************)
EXTENDS TxnProtocol, TLAPS

\* The participant has taken the writes, or has already been resolved.
Accepted(q) == part[q].status \notin {"None", "Rejected"}
AllAccepted == \A q \in Ranges : Accepted(q)

RecInv ==
  /\ rec \in seen
  /\ \A x \in seen : x.status # "None" =>
        /\ rec.status # "None" /\ x.ct = rec.ct
        /\ x.status \in Terminal => x.status = rec.status
  /\ rec.status = "Committed" => AllAccepted

PartInv ==
  \A r \in Ranges :
    /\ part[r].status # "None" => rec.status # "None" /\ part[r].ct = rec.ct
    /\ part[r].status \in Terminal => part[r].status = rec.status
    /\ part[r].status \in {"None", "Rejected"} => mark[r] = "none"
    /\ part[r].status = "Prepared" => mark[r] = "intent"
    /\ part[r].status = "Committed" => mark[r] = "value"
    /\ part[r].status = "Aborted" => mark[r] \in {"none", "abort"}
    /\ \A p \in pseen[r] : p.status = "Prepared" => Accepted(r)

OpOK(op) ==
  /\ op.type = "Prepare" => rec.status # "None" /\ op.ct = rec.ct
  /\ op.type = "Commit" => AllAccepted
  /\ op.type = "ResolveCommit" => rec.status = "Committed" /\ op.ct = rec.ct
  /\ op.type = "ResolveAbort" => rec.status = "Aborted" /\ op.ct = rec.ct

OpInv == \A r \in Ranges : \A i \in 1 .. Len(log[r]) : OpOK(log[r][i])

CoordInv ==
  LET k == cl[Coord] IN
  /\ k.pc \in {"prepare", "preparing", "query"} =>
       k.next \in Ranges /\ \A q \in Ranges : q < k.next => Accepted(q)
  /\ k.pc = "creating" => k.next = 1
  /\ k.pc \in {"decide", "deciding"} /\ k.status = "Committed" => AllAccepted

CallInv ==
  \A c \in Clients :
    /\ cl[c].pc \notin {"decide", "deciding", "confirm", "resolve", "resolving"} =>
         cl[c].status = "Aborted"
    /\ cl[c].pc \in {"resolve", "resolving"} /\ cl[c].status = "Committed" =>
         rec.status = "Committed"

ToldInv ==
  "Committed" \in told \/ "Success" \in told \/ state = "Committed" =>
    rec.status = "Committed"

IInv == TypeOK /\ RecInv /\ PartInv /\ OpInv /\ CoordInv /\ CallInv /\ ToldInv
---------------------------------------------------------------------------
(* Facts about the logs *)

\* Appending adds one element at the end.
LEMMA AppendElems ==
  ASSUME NEW S, NEW s \in Seq(S), NEW e \in S
  PROVE  /\ Append(s, e) \in Seq(S)
         /\ \A i \in 1 .. Len(Append(s, e)) :
               \/ i \in 1 .. Len(s) /\ Append(s, e)[i] = s[i]
               \/ Append(s, e)[i] = e
  OBVIOUS

\* Dropping the head keeps the other elements.
LEMMA TailElems ==
  ASSUME NEW S, NEW s \in Seq(S), s # <<>>
  PROVE  /\ Tail(s) \in Seq(S)
         /\ \A i \in 1 .. Len(Tail(s)) : i + 1 \in 1 .. Len(s) /\ Tail(s)[i] = s[i + 1]
         /\ Head(s) = s[1] /\ 1 \in 1 .. Len(s)
  OBVIOUS

\* Losing a suffix keeps the prefix.
LEMMA PrefixElems ==
  ASSUME NEW S, NEW s \in Seq(S), NEW n \in 0 .. Len(s)
  PROVE  /\ SubSeq(s, 1, n) \in Seq(S)
         /\ \A i \in 1 .. Len(SubSeq(s, 1, n)) :
               i \in 1 .. Len(s) /\ SubSeq(s, 1, n)[i] = s[i]
  OBVIOUS

\* Forgetting who waits changes nothing else of a command.
LEMMA OrphanedElems ==
  ASSUME NEW s \in Seq(Operations), NEW c
  PROVE  /\ Orphaned(s, c) \in Seq(Operations)
         /\ Len(Orphaned(s, c)) = Len(s)
         /\ \A i \in 1 .. Len(s) : /\ Orphaned(s, c)[i].type = s[i].type
                                   /\ Orphaned(s, c)[i].ct = s[i].ct
<1>1. \A i \in 1 .. Len(s) : s[i] \in Operations
  OBVIOUS
<1>2. DOMAIN s = 1 .. Len(s)
  OBVIOUS
<1>3. \A i \in 1 .. Len(s) : Orphaned(s, c)[i] \in Operations
  BY <1>1, <1>2 DEF Orphaned, Operations
<1>4. Orphaned(s, c) \in [1 .. Len(s) -> Operations]
  BY <1>2, <1>3 DEF Orphaned
<1>5. Len(s) \in Nat
  OBVIOUS
<1>6. Orphaned(s, c) \in Seq(Operations) /\ Len(Orphaned(s, c)) = Len(s)
  BY <1>4, <1>5
<1>7. \A i \in 1 .. Len(s) : Orphaned(s, c)[i].type = s[i].type /\ Orphaned(s, c)[i].ct = s[i].ct
  BY <1>1, <1>2 DEF Orphaned, Operations
<1> QED
  BY <1>6, <1>7

\* A proposal leaves the commands already in a log and adds at most its own.
LEMMA ProposeLog ==
  ASSUME TypeOK, cl' \in [Clients -> Calls], NEW c \in Clients, NEW r \in Ranges,
         NEW type \in Commands, Propose(c, r, type)
  PROVE  /\ log' \in [Ranges -> Seq(Operations)]
         /\ \A q \in Ranges : \A i \in 1 .. Len(log'[q]) :
               \/ i \in 1 .. Len(log[q]) /\ log'[q][i] = log[q][i]
               \/ log'[q][i].type = type /\ log'[q][i].ct = cl'[c].ct
<1> DEFINE op == [type |-> type, ct |-> cl'[c].ct, epoch |-> cl'[c].epoch, by |-> c]
<1>1. log \in [Ranges -> Seq(Operations)]
  BY DEF TypeOK
<1>2. cl'[c].ct \in Nat /\ cl'[c].epoch \in Nat
  BY DEF Calls
<1>3. op \in Operations /\ op.type = type /\ op.ct = cl'[c].ct
  BY <1>2 DEF Operations
<1>4. CASE halted[r]
  BY <1>1, <1>4 DEF Propose
<1>5. CASE ~halted[r]
  <2>1. log' = [log EXCEPT ![r] = Append(log[r], op)]
    BY <1>5 DEF Propose
  <2>2. log[r] \in Seq(Operations)
    BY <1>1
  <2>3. /\ Append(log[r], op) \in Seq(Operations)
        /\ \A i \in 1 .. Len(Append(log[r], op)) :
              \/ i \in 1 .. Len(log[r]) /\ Append(log[r], op)[i] = log[r][i]
              \/ Append(log[r], op)[i] = op
    BY <2>2, <1>3, AppendElems
  <2> HIDE DEF op
  <2> QED
    BY <1>1, <1>3, <2>1, <2>3
<1> QED
  BY <1>4, <1>5

\* What a proposed command must satisfy for the logs to keep their invariant.
LEMMA ProposeOps ==
  ASSUME IInv, cl' \in [Clients -> Calls], UNCHANGED <<rec, part>>,
         NEW c \in Clients, NEW r \in Ranges, NEW type \in Commands, Propose(c, r, type),
         OpOK([type |-> type, ct |-> cl'[c].ct])
  PROVE  log' \in [Ranges -> Seq(Operations)] /\ OpInv'
<1>1. TypeOK /\ OpInv
  BY DEF IInv
<1>2. /\ log' \in [Ranges -> Seq(Operations)]
      /\ \A q \in Ranges : \A i \in 1 .. Len(log'[q]) :
            \/ i \in 1 .. Len(log[q]) /\ log'[q][i] = log[q][i]
            \/ log'[q][i].type = type /\ log'[q][i].ct = cl'[c].ct
  BY <1>1, ProposeLog
<1>3. ASSUME NEW q \in Ranges, NEW i \in 1 .. Len(log'[q]) PROVE OpOK(log[q][i])'
  <2>1. CASE i \in 1 .. Len(log[q]) /\ log'[q][i] = log[q][i]
    <3>1. OpOK(log[q][i])
      BY <1>1, <2>1 DEF OpInv
    <3> QED
      BY <3>1, <2>1 DEF OpOK, AllAccepted, Accepted
  <2>2. CASE log'[q][i].type = type /\ log'[q][i].ct = cl'[c].ct
    BY <2>2 DEF OpOK, AllAccepted, Accepted
  <2> QED
    BY <1>2, <2>1, <2>2
<1> QED
  BY <1>2, <1>3, Zenon DEF OpInv

\* A step that only forgets who waits keeps the logs' invariant.
LEMMA OrphanOps ==
  ASSUME IInv, UNCHANGED <<rec, part>>, NEW c,
         log' = [r \in Ranges |-> Orphaned(log[r], c)]
  PROVE  log' \in [Ranges -> Seq(Operations)] /\ OpInv'
<1>1. log \in [Ranges -> Seq(Operations)] /\ OpInv
  BY DEF IInv, TypeOK
<1>2. ASSUME NEW r \in Ranges
      PROVE  /\ log'[r] \in Seq(Operations) /\ Len(log'[r]) = Len(log[r])
             /\ \A i \in 1 .. Len(log[r]) : /\ log'[r][i].type = log[r][i].type
                                            /\ log'[r][i].ct = log[r][i].ct
  BY <1>1, OrphanedElems
<1>3. log' \in [Ranges -> Seq(Operations)]
  BY <1>2
<1>4. ASSUME NEW r \in Ranges, NEW i \in 1 .. Len(log'[r]) PROVE OpOK(log[r][i])'
  <2>1. i \in 1 .. Len(log[r]) /\ OpOK(log[r][i])
    BY <1>1, <1>2 DEF OpInv
  <2>2. log'[r][i].type = log[r][i].type /\ log'[r][i].ct = log[r][i].ct
    BY <1>2, <2>1
  <2> QED
    BY <2>1, <2>2 DEF OpOK, AllAccepted, Accepted
<1> QED
  BY <1>3, <1>4 DEF OpInv

\* Steps of clients leave the ranges alone, so only the calls, the logs and
\* the answers are at stake.
LEMMA ClientStep ==
  ASSUME IInv, UNCHANGED rangeVars, cl' \in [Clients -> Calls],
         log' \in [Ranges -> Seq(Operations)], OpInv', CoordInv', CallInv', ToldInv',
         lastCT' \in Nat, state' \in {"Open"} \cup Terminal,
         told' \subseteq Terminal \cup {"Success"}
  PROVE  IInv'
<1>1. TypeOK'
  BY DEF IInv, TypeOK, rangeVars
<1>2. RecInv' /\ PartInv'
  BY DEF IInv, RecInv, PartInv, AllAccepted, Accepted, rangeVars
<1> QED
  BY <1>1, <1>2 DEF IInv
---------------------------------------------------------------------------
(* The calls *)

\* Updates of one call keep the type of the calls.
LEMMA CallTypes ==
  ASSUME TypeOK, NEW c \in Clients
  PROVE  /\ \A pc \in {"idle", "dead"} \cup Waiting \cup Running :
               Goto(c, pc) => cl' \in [Clients -> Calls]
         /\ Return(c) => cl' \in [Clients -> Calls]
         /\ \A pc \in {"idle", "dead"} \cup Waiting \cup Running : \A x \in Records :
               Adopt(c, pc, x) => cl' \in [Clients -> Calls]
<1>1. cl \in [Clients -> Calls] /\ cl[c] \in Calls
  BY DEF TypeOK
<1>2. Idle \in Calls
  BY DEF Idle, Calls, Terminal
<1>3. ASSUME NEW pc \in {"idle", "dead"} \cup Waiting \cup Running, Goto(c, pc)
      PROVE  cl' \in [Clients -> Calls]
  <2>1. [cl[c] EXCEPT !.pc = pc] \in Calls
    BY <1>1, <1>3 DEF Calls
  <2> QED
    BY <1>1, <1>3, <2>1 DEF Goto
<1>4. ASSUME NEW pc \in {"idle", "dead"} \cup Waiting \cup Running, NEW x \in Records,
             Adopt(c, pc, x)
      PROVE  cl' \in [Clients -> Calls]
  <2>1. [pc |-> pc, ct |-> x.ct, epoch |-> x.epoch, next |-> 1,
         status |-> IF x.status \in Terminal THEN x.status ELSE "Aborted"] \in Calls
    BY <1>4 DEF Calls, Records, Terminal
  <2> QED
    BY <1>1, <1>4, <2>1 DEF Adopt
<1> QED
  BY <1>1, <1>2, <1>3, <1>4 DEF Return

\* A call that moves to another range keeps its other fields.
LEMMA CallNext ==
  ASSUME cl \in [Clients -> Calls], NEW c \in Clients, NEW pc, NEW n,
         cl' = [cl EXCEPT ![c].pc = pc, ![c].next = n]
  PROVE  cl' = [cl EXCEPT ![c] = [pc |-> pc, ct |-> cl[c].ct, epoch |-> cl[c].epoch,
                                  next |-> n, status |-> cl[c].status]]
<1> DEFINE m == [cl[c] EXCEPT !.pc = pc]
           k == [pc |-> pc, ct |-> cl[c].ct, epoch |-> cl[c].epoch, next |-> n, status |-> cl[c].status]
<1>1. m = [pc |-> pc, ct |-> cl[c].ct, epoch |-> cl[c].epoch, next |-> cl[c].next,
           status |-> cl[c].status]
  BY DEF Calls
<1> HIDE DEF m
<1>2. [m EXCEPT !.next = n] = k
  BY <1>1
<1>3. [[cl[c] EXCEPT !.pc = pc] EXCEPT !.next = n] = k
  BY <1>2 DEF m
<1> QED
  BY <1>3, Zenon

\* Commit starting from a record some leader showed.
LEMMA CommitCallInv == IInv /\ CommitCall => IInv'
<1> SUFFICES ASSUME IInv, CommitCall PROVE IInv'
  OBVIOUS
<1>1. PICK x \in seen :
        \/ x.status = "None" /\ Goto(Coord, "assign")
        \/ x.status = "Pending" /\ Adopt(Coord, "prepare", x)
        \/ x.status \in Terminal /\ Adopt(Coord, "resolve", x)
  BY DEF CommitCall, IInv, TypeOK, Records
<1>2. TypeOK /\ Coord \in Clients /\ x \in Records
  BY DEF IInv, TypeOK, Clients
<1>3. cl' \in [Clients -> Calls]
  BY <1>1, <1>2, CallTypes DEF Running
<1>4. UNCHANGED <<rangeVars, log, lastCT, state, told>>
  BY DEF CommitCall
<1>5. cl[Coord].pc = "idle" /\ cl[Coord].status = "Aborted" /\ cl \in [Clients -> Calls]
  BY <1>2, Zenon DEF CommitCall, IInv, CallInv, TypeOK
<1>6. CoordInv'
  BY <1>1, <1>2, <1>4, <1>5, TxnAssumption
     DEF CoordInv, Goto, Adopt, Ranges, Terminal, rangeVars, Calls
<1>7. CallInv'
  BY <1>1, <1>2, <1>4, <1>5
     DEF CallInv, IInv, Goto, Adopt, RecInv, Terminal, rangeVars, Calls
<1>8. OpInv' /\ ToldInv' /\ log' \in [Ranges -> Seq(Operations)] /\ lastCT' \in Nat
      /\ state' \in {"Open"} \cup Terminal /\ told' \subseteq Terminal \cup {"Success"}
  BY <1>4 DEF IInv, TypeOK, OpInv, OpOK, AllAccepted, Accepted, ToldInv, rangeVars
<1> QED
  BY <1>3, <1>4, <1>6, <1>7, <1>8, ClientStep

\* A call that answers without proposing anything.
LEMMA AnswerInv == IInv /\ (CommitMoved \/ CommitAgain) => IInv'
<1> SUFFICES ASSUME IInv, CommitMoved \/ CommitAgain PROVE IInv'
  OBVIOUS
<1>1. UNCHANGED <<rangeVars, log, cl, lastCT>>
  BY DEF CommitMoved, CommitAgain
<1>2. /\ state' \in {"Open"} \cup Terminal /\ told' \subseteq Terminal \cup {"Success"}
      /\ ToldInv'
  BY <1>1, Zenon DEF CommitMoved, CommitAgain, Answer, IInv, TypeOK, ToldInv, Terminal, rangeVars
<1>3. OpInv' /\ CoordInv' /\ CallInv' /\ log' \in [Ranges -> Seq(Operations)]
      /\ lastCT' \in Nat /\ cl' \in [Clients -> Calls]
  BY <1>1 DEF IInv, TypeOK, OpInv, OpOK, CoordInv, CallInv, AllAccepted, Accepted, rangeVars
<1> QED
  BY <1>1, <1>2, <1>3, ClientStep

\* Commit proposing the record.
LEMMA AssignInv == IInv /\ AssignAndCreate => IInv'
<1> SUFFICES ASSUME IInv, AssignAndCreate PROVE IInv'
  OBVIOUS
<1> DEFINE k == [pc |-> "creating", ct |-> lastCT + 1, epoch |-> 1, next |-> 1,
                 status |-> "Aborted"]
<1>1. TypeOK /\ Coord \in Clients /\ lastCT \in Nat /\ cl \in [Clients -> Calls]
  BY DEF IInv, TypeOK, Clients
<1>2. k \in Calls
  BY <1>1 DEF Calls, Waiting, Terminal
<1>3. cl' = [cl EXCEPT ![Coord] = k] /\ lastCT' = lastCT + 1
      /\ UNCHANGED <<rangeVars, state, told>> /\ Propose(Coord, Home, "Create")
  BY DEF AssignAndCreate
<1>4. cl' \in [Clients -> Calls]
  BY <1>1, <1>2, <1>3
<1>5. log' \in [Ranges -> Seq(Operations)] /\ OpInv'
  <2>1. OpOK([type |-> "Create", ct |-> cl'[Coord].ct])
    BY DEF OpOK
  <2>2. "Create" \in Commands /\ Home \in Ranges /\ UNCHANGED <<rec, part>>
    BY <1>3, TxnAssumption DEF Commands, rangeVars
  <2> QED
    BY <1>1, <1>3, <1>4, <2>1, <2>2, ProposeOps
<1>6. CoordInv' /\ CallInv' /\ ToldInv'
  BY <1>1, <1>3 DEF CoordInv, CallInv, ToldInv, IInv, rangeVars
<1>7. lastCT' \in Nat /\ state' \in {"Open"} \cup Terminal
      /\ told' \subseteq Terminal \cup {"Success"}
  BY <1>1, <1>3 DEF TypeOK
<1> QED
  BY <1>3, <1>4, <1>5, <1>6, <1>7, ClientStep

\* The prepare loop proposes only what a shown pending record allows.
LEMMA ProposePrepareInv == IInv /\ ProposePrepare => IInv'
<1> SUFFICES ASSUME IInv, ProposePrepare PROVE IInv'
  OBVIOUS
<1> DEFINE r == cl[Coord].next
<1>1. TypeOK /\ Coord \in Clients /\ cl \in [Clients -> Calls] /\ seen \subseteq Records
  BY DEF IInv, TypeOK, Clients
<1>2. cl[Coord].pc = "prepare" /\ UNCHANGED <<rangeVars, lastCT, state, told>>
  BY DEF ProposePrepare
<1>3. r \in Ranges /\ (\A q \in Ranges : q < r => Accepted(q)) /\ cl[Coord].status = "Aborted"
  BY <1>1, <1>2 DEF IInv, CoordInv, CallInv
<1>4. PICK x \in seen :
        \/ MayPrepare(x, Coord) /\ Goto(Coord, "preparing") /\ Propose(Coord, r, "Prepare")
        \/ Goto(Coord, "decide") /\ UNCHANGED log
  BY DEF ProposePrepare
<1>5. cl' \in [Clients -> Calls]
  BY <1>1, <1>4, CallTypes DEF Waiting, Running
<1>6. log' \in [Ranges -> Seq(Operations)] /\ OpInv'
  <2>1. CASE MayPrepare(x, Coord) /\ Goto(Coord, "preparing") /\ Propose(Coord, r, "Prepare")
    <3>1. cl'[Coord].ct = cl[Coord].ct
      BY <1>1, <2>1 DEF Goto, Calls
    <3>2. rec.status # "None" /\ cl[Coord].ct = rec.ct
      BY <2>1 DEF MayPrepare, SameAttempt, IInv, RecInv
    <3>3. OpOK([type |-> "Prepare", ct |-> cl'[Coord].ct])
      BY <3>1, <3>2 DEF OpOK
    <3>4. "Prepare" \in Commands /\ UNCHANGED <<rec, part>>
      BY <1>2 DEF Commands, rangeVars
    <3> QED
      BY <1>1, <1>3, <1>5, <2>1, <3>3, <3>4, ProposeOps
  <2>2. CASE UNCHANGED log
    BY <1>2, <2>2 DEF IInv, TypeOK, OpInv, OpOK, AllAccepted, Accepted, rangeVars
  <2> QED
    BY <1>4, <2>1, <2>2
<1>7. CoordInv'
  BY <1>1, <1>2, <1>3, <1>4 DEF CoordInv, Goto, rangeVars, Accepted, AllAccepted, Calls
<1>8. CallInv' /\ ToldInv'
  BY <1>1, <1>2, <1>3, <1>4 DEF CallInv, ToldInv, IInv, Goto, rangeVars, Calls
<1>9. lastCT' \in Nat /\ state' \in {"Open"} \cup Terminal
      /\ told' \subseteq Terminal \cup {"Success"}
  BY <1>1, <1>2 DEF TypeOK
<1> QED
  BY <1>2, <1>5, <1>6, <1>7, <1>8, <1>9, ClientStep

\* A participant some leader showed as prepared is still prepared or resolved.
LEMMA QueryInv == IInv /\ QueryPrepared => IInv'
<1> SUFFICES ASSUME IInv, QueryPrepared PROVE IInv'
  OBVIOUS
<1> DEFINE r == cl[Coord].next
<1>1. TypeOK /\ Coord \in Clients /\ cl \in [Clients -> Calls] /\ cl[Coord] \in Calls
  BY DEF IInv, TypeOK, Clients
<1>2. cl[Coord].pc = "query" /\ UNCHANGED <<rangeVars, log, lastCT, state, told>>
  BY DEF QueryPrepared
<1>3. r \in Ranges /\ (\A q \in Ranges : q < r => Accepted(q)) /\ cl[Coord].status = "Aborted"
  BY <1>1, <1>2 DEF IInv, CoordInv, CallInv
<1> DEFINE k == cl[Coord]
           onward == [pc |-> "prepare", ct |-> k.ct, epoch |-> k.epoch, next |-> r + 1,
                      status |-> k.status]
           done == [pc |-> "decide", ct |-> k.ct, epoch |-> k.epoch, next |-> r,
                    status |-> "Committed"]
<1>4. PICK p \in pseen[r] :
        \/ Goto(Coord, "decide")
        \/ p.status = "Prepared" /\ r < NRanges /\ cl' = [cl EXCEPT ![Coord] = onward]
        \/ p.status = "Prepared" /\ ~(r < NRanges) /\ cl' = [cl EXCEPT ![Coord] = done]
  <2>1. PICK p \in pseen[r] :
          IF p.status # "Prepared" THEN Goto(Coord, "decide")
          ELSE IF r < NRanges
                 THEN cl' = [cl EXCEPT ![Coord].pc = "prepare", ![Coord].next = r + 1]
                 ELSE cl' = [cl EXCEPT ![Coord].pc = "decide", ![Coord].status = "Committed"]
    BY DEF QueryPrepared
  <2>2. CASE p.status # "Prepared"
    BY <2>1, <2>2
  <2>3. CASE p.status = "Prepared" /\ r < NRanges
    <3>1. cl' = [cl EXCEPT ![Coord].pc = "prepare", ![Coord].next = r + 1]
      BY <2>1, <2>3
    <3>2. cl' = [cl EXCEPT ![Coord] = onward]
      BY <1>1, <3>1, CallNext, Zenon
    <3> QED
      BY <2>3, <3>2
  <2>4. CASE p.status = "Prepared" /\ ~(r < NRanges)
    <3>1. cl' = [cl EXCEPT ![Coord].pc = "decide", ![Coord].status = "Committed"]
      BY <2>1, <2>4
    <3>2. cl' = [cl EXCEPT ![Coord] = done]
      <4> DEFINE m == [k EXCEPT !.pc = "decide"]
      <4>1. m = [pc |-> "decide", ct |-> k.ct, epoch |-> k.epoch, next |-> r,
                 status |-> k.status]
        BY <1>1 DEF Calls
      <4> HIDE DEF m
      <4>2. [m EXCEPT !.status = "Committed"] = done
        BY <4>1
      <4>3. [[k EXCEPT !.pc = "decide"] EXCEPT !.status = "Committed"] = done
        BY <4>2 DEF m
      <4> QED
        BY <1>1, <3>1, <4>3, Zenon
    <3> QED
      BY <2>4, <3>2
  <2> QED
    BY <2>2, <2>3, <2>4
<1>5. p.status = "Prepared" => Accepted(r)
  BY <1>3, <1>4 DEF IInv, PartInv
<1>6. r \in Nat /\ NRanges \in Nat
  BY <1>1, TxnAssumption DEF Calls
<1>7. cl' \in [Clients -> Calls]
  <2>1. onward \in Calls /\ done \in Calls
    BY <1>1, <1>6 DEF Calls, Running, Terminal
  <2>2. Goto(Coord, "decide") => cl' \in [Clients -> Calls]
    BY <1>1, CallTypes DEF Running
  <2> QED
    BY <1>1, <1>4, <2>1, <2>2
<1>8. CoordInv'
  <2>1. CASE Goto(Coord, "decide")
    BY <1>1, <1>2, <1>3, <2>1 DEF CoordInv, Goto, rangeVars, Accepted, AllAccepted, Calls
  <2>2. CASE p.status = "Prepared" /\ r < NRanges /\ cl' = [cl EXCEPT ![Coord] = onward]
    <3>1. cl'[Coord] = onward /\ r + 1 \in Ranges
      BY <1>1, <1>3, <1>6, <2>2 DEF Ranges
    <3>2. \A q \in Ranges : q < r + 1 => Accepted(q)
      BY <1>3, <1>5, <1>6, <2>2 DEF Ranges
    <3> QED
      BY <1>2, <3>1, <3>2 DEF CoordInv, rangeVars, Accepted
  <2>3. CASE p.status = "Prepared" /\ ~(r < NRanges) /\ cl' = [cl EXCEPT ![Coord] = done]
    <3>1. cl'[Coord] = done
      BY <1>1, <2>3
    <3>2. AllAccepted
      BY <1>3, <1>5, <1>6, <2>3 DEF AllAccepted, Ranges
    <3> QED
      BY <1>2, <3>1, <3>2 DEF CoordInv, rangeVars, Accepted, AllAccepted
  <2> QED
    BY <1>4, <2>1, <2>2, <2>3
<1>9. CallInv' /\ ToldInv'
  BY <1>1, <1>2, <1>3, <1>4 DEF CallInv, ToldInv, IInv, Goto, rangeVars, Calls
<1>10. /\ OpInv' /\ log' \in [Ranges -> Seq(Operations)] /\ lastCT' \in Nat
       /\ state' \in {"Open"} \cup Terminal /\ told' \subseteq Terminal \cup {"Success"}
  BY <1>2 DEF IInv, TypeOK, OpInv, OpOK, AllAccepted, Accepted, rangeVars
<1> QED
  BY <1>2, <1>7, <1>8, <1>9, <1>10, ClientStep

\* A refusal tells the outcome the record has.
LEMMA RefusalTrue ==
  ASSUME IInv, NEW x \in seen, NEW c
  PROVE  Refusal(x, c) \subseteq Terminal /\ \A st \in Refusal(x, c) : st = rec.status
  BY DEF IInv, RecInv, Refusal, SameAttempt

\* A commit is proposed only after every participant accepted.
LEMMA ProposeDecisionInv == IInv /\ ProposeDecision => IInv'
<1> SUFFICES ASSUME IInv, ProposeDecision PROVE IInv'
  OBVIOUS
<1> DEFINE s == cl[Coord].status
<1>1. TypeOK /\ Coord \in Clients /\ cl \in [Clients -> Calls] /\ cl[Coord] \in Calls
  BY DEF IInv, TypeOK, Clients
<1>2. cl[Coord].pc = "decide" /\ UNCHANGED <<rangeVars, lastCT, state>>
  BY DEF ProposeDecision
<1>3. PICK x \in seen :
        \/ Goto(Coord, "deciding") /\ Propose(Coord, Home, DecideType(s)) /\ UNCHANGED told
        \/ Return(Coord) /\ told' = told \cup Refusal(x, Coord) /\ UNCHANGED log
  BY DEF ProposeDecision
<1>4. s = "Committed" => AllAccepted
  BY <1>2 DEF IInv, CoordInv
<1>5. cl' \in [Clients -> Calls]
  BY <1>1, <1>3, CallTypes DEF Waiting
<1>6. log' \in [Ranges -> Seq(Operations)] /\ OpInv'
  <2>1. CASE Propose(Coord, Home, DecideType(s))
    <3>1. OpOK([type |-> DecideType(s), ct |-> cl'[Coord].ct])
      BY <1>4 DEF OpOK, DecideType
    <3>2. DecideType(s) \in Commands /\ Home \in Ranges /\ UNCHANGED <<rec, part>>
      BY <1>2, TxnAssumption DEF DecideType, Commands, rangeVars
    <3> QED
      BY <1>1, <1>5, <2>1, <3>1, <3>2, ProposeOps
  <2>2. CASE UNCHANGED log
    BY <1>2, <2>2 DEF IInv, TypeOK, OpInv, OpOK, AllAccepted, Accepted, rangeVars
  <2> QED
    BY <1>3, <2>1, <2>2
<1>7. CoordInv'
  BY <1>1, <1>2, <1>3, <1>4
     DEF CoordInv, Goto, Return, Idle, rangeVars, Accepted, AllAccepted, Calls
<1>8. CallInv'
  BY <1>1, <1>2, <1>3 DEF CallInv, IInv, Goto, Return, Idle, rangeVars, Calls
<1>9. /\ ToldInv' /\ lastCT' \in Nat /\ state' \in {"Open"} \cup Terminal
      /\ told' \subseteq Terminal \cup {"Success"}
  BY <1>1, <1>2, <1>3, RefusalTrue, Zenon DEF TypeOK, IInv, ToldInv, Terminal, rangeVars
<1> QED
  BY <1>2, <1>5, <1>6, <1>7, <1>8, <1>9, ClientStep

\* The record read back after the decision is what the call reports.
LEMMA ConfirmInv == IInv /\ ConfirmDecision => IInv'
<1> SUFFICES ASSUME IInv, ConfirmDecision PROVE IInv'
  OBVIOUS
<1>1. TypeOK /\ Coord \in Clients /\ cl \in [Clients -> Calls] /\ seen \subseteq Records
  BY DEF IInv, TypeOK, Clients
<1>2. cl[Coord].pc = "confirm" /\ UNCHANGED <<rangeVars, log, lastCT>>
  BY DEF ConfirmDecision
<1>3. PICK x \in seen :
        \/ x.status = cl[Coord].status /\ Adopt(Coord, "resolve", x) /\ UNCHANGED <<state, told>>
        \/ /\ Return(Coord)
           /\ state' = IF x.status \in Terminal THEN x.status ELSE state
           /\ told' = IF x.status \in Terminal THEN told \cup {x.status} ELSE told
  BY DEF ConfirmDecision
<1>4. x \in Records /\ (x.status = "Committed" => rec.status = "Committed")
  BY <1>1 DEF IInv, RecInv, Terminal
<1>5. cl' \in [Clients -> Calls]
  BY <1>1, <1>3, <1>4, CallTypes DEF Running
<1>6. CoordInv'
  BY <1>1, <1>2, <1>3 DEF CoordInv, Adopt, Return, Idle, Calls
<1>7. CallInv'
  BY <1>1, <1>2, <1>3, <1>4
     DEF CallInv, IInv, Adopt, Return, Idle, Terminal, rangeVars, Calls
<1>8. ToldInv' /\ state' \in {"Open"} \cup Terminal /\ told' \subseteq Terminal \cup {"Success"}
  BY <1>1, <1>2, <1>3, <1>4, Zenon DEF ToldInv, IInv, TypeOK, Terminal, rangeVars
<1>9. OpInv' /\ log' \in [Ranges -> Seq(Operations)] /\ lastCT' \in Nat
  BY <1>2 DEF IInv, TypeOK, OpInv, OpOK, AllAccepted, Accepted, rangeVars
<1> QED
  BY <1>2, <1>5, <1>6, <1>7, <1>8, <1>9, ClientStep

\* Abort says committed only when a leader has shown a committed record.
LEMMA AbortCallInv == IInv /\ AbortCall => IInv'
<1> SUFFICES ASSUME IInv, AbortCall PROVE IInv'
  OBVIOUS
<1>1. TypeOK /\ Coord \in Clients /\ cl \in [Clients -> Calls] /\ seen \subseteq Records
  BY DEF IInv, TypeOK, Clients
<1>2. cl[Coord].pc = "idle" /\ UNCHANGED <<rangeVars, log, lastCT>>
  BY DEF AbortCall
<1>3. PICK x \in seen :
        \/ state' = "Aborted" /\ told' = told \cup {"Aborted"} /\ UNCHANGED cl
        \/ /\ x.status = "Committed"
           /\ state' = "Committed" /\ told' = told \cup {"Committed"} /\ UNCHANGED cl
        \/ x.status = "Pending" /\ Adopt(Coord, "fence", x) /\ UNCHANGED <<state, told>>
        \/ x.status = "Aborted" /\ Adopt(Coord, "resolve", x) /\ UNCHANGED <<state, told>>
  BY DEF AbortCall
<1>4. x \in Records /\ (x.status = "Committed" => rec.status = "Committed")
  BY <1>1 DEF IInv, RecInv, Terminal
<1>5. cl' \in [Clients -> Calls]
  BY <1>1, <1>3, <1>4, CallTypes DEF Running, Waiting
<1>6. log' \in [Ranges -> Seq(Operations)] /\ OpInv' /\ lastCT' \in Nat
  BY <1>2 DEF IInv, TypeOK, OpInv, OpOK, AllAccepted, Accepted, rangeVars
<1>7. CoordInv'
  BY <1>1, <1>2, <1>3 DEF CoordInv, Adopt, Calls
<1>8. CallInv'
  BY <1>1, <1>2, <1>3 DEF CallInv, IInv, Adopt, Terminal, rangeVars, Calls
<1>9. ToldInv' /\ state' \in {"Open"} \cup Terminal /\ told' \subseteq Terminal \cup {"Success"}
  BY <1>1, <1>2, <1>3, <1>4, Zenon DEF ToldInv, IInv, TypeOK, Terminal, rangeVars
<1> QED
  BY <1>2, <1>5, <1>6, <1>7, <1>8, <1>9, ClientStep

\* An abort is proposed, or refused with the outcome the record has.
LEMMA ProposeAbortInv ==
  ASSUME NEW c \in Clients PROVE IInv /\ ProposeAbort(c) => IInv'
<1> SUFFICES ASSUME IInv, ProposeAbort(c) PROVE IInv'
  OBVIOUS
<1>1. TypeOK /\ cl \in [Clients -> Calls] /\ Coord \in Clients
  BY DEF IInv, TypeOK, Clients
<1>2. cl[c].pc = "fence" /\ UNCHANGED <<rangeVars, lastCT, state>>
  BY DEF ProposeAbort, ProposeAbortOn
<1>3. PICK x \in seen :
        \/ Goto(c, "aborting") /\ Propose(c, Home, "Abort") /\ UNCHANGED told
        \/ /\ Return(c) /\ UNCHANGED log
           /\ told' = told \cup Refusal(x, c) \/ told' = told
  BY DEF ProposeAbort, ProposeAbortOn
<1>4. cl' \in [Clients -> Calls]
  BY <1>1, <1>3, CallTypes DEF Waiting
<1>5. log' \in [Ranges -> Seq(Operations)] /\ OpInv'
  <2>1. CASE Propose(c, Home, "Abort")
    <3>1. OpOK([type |-> "Abort", ct |-> cl'[c].ct])
      BY DEF OpOK
    <3>2. "Abort" \in Commands /\ Home \in Ranges /\ UNCHANGED <<rec, part>>
      BY <1>2, TxnAssumption DEF Commands, rangeVars
    <3> QED
      BY <1>1, <1>4, <2>1, <3>1, <3>2, ProposeOps
  <2>2. CASE UNCHANGED log
    BY <1>2, <2>2 DEF IInv, TypeOK, OpInv, OpOK, AllAccepted, Accepted, rangeVars
  <2> QED
    BY <1>3, <2>1, <2>2
<1>6. CoordInv'
  BY <1>1, <1>2, <1>3
     DEF IInv, CoordInv, Goto, Return, Idle, rangeVars, Accepted, AllAccepted, Calls
<1>7. CallInv'
  BY <1>1, <1>2, <1>3 DEF CallInv, IInv, Goto, Return, Idle, rangeVars, Calls
<1>8. /\ ToldInv' /\ lastCT' \in Nat /\ state' \in {"Open"} \cup Terminal
      /\ told' \subseteq Terminal \cup {"Success"}
  BY <1>1, <1>2, <1>3, RefusalTrue, Zenon DEF TypeOK, IInv, ToldInv, Terminal, rangeVars
<1> QED
  BY <1>2, <1>4, <1>5, <1>6, <1>7, <1>8, ClientStep

\* A recovery pass proposes a takeover or goes to resolve.
LEMMA RecoverInv ==
  ASSUME NEW c \in Recoverers PROVE IInv /\ RecoverCall(c) => IInv'
<1> SUFFICES ASSUME IInv, RecoverCall(c) PROVE IInv'
  OBVIOUS
<1>1. /\ TypeOK /\ c \in Clients /\ cl \in [Clients -> Calls] /\ seen \subseteq Records
      /\ c # Coord /\ Coord \in Clients
  BY TxnAssumption DEF IInv, TypeOK, Clients
<1>2. UNCHANGED <<rangeVars, lastCT, state, told>>
  BY DEF RecoverCall, RecoverCallOn
<1>3. PICK x \in seen :
        \/ Adopt(c, "taking", [x EXCEPT !.epoch = @ + 1]) /\ Propose(c, Home, "Takeover")
           /\ x.status = "Pending"
        \/ x.status \in Terminal /\ Adopt(c, "resolve", x) /\ UNCHANGED log
  BY DEF RecoverCall, RecoverCallOn
<1>4. x \in Records /\ (x.status \in Terminal => x.status = rec.status)
      /\ [x EXCEPT !.epoch = @ + 1] \in Records
      /\ [x EXCEPT !.epoch = @ + 1].status = x.status
  BY <1>1 DEF IInv, RecInv, Terminal, Records
<1>5. cl' \in [Clients -> Calls]
  BY <1>1, <1>3, <1>4, CallTypes DEF Running, Waiting
<1>6. log' \in [Ranges -> Seq(Operations)] /\ OpInv'
  <2>1. CASE Propose(c, Home, "Takeover")
    <3>1. OpOK([type |-> "Takeover", ct |-> cl'[c].ct])
      BY DEF OpOK
    <3>2. "Takeover" \in Commands /\ Home \in Ranges /\ UNCHANGED <<rec, part>>
      BY <1>2, TxnAssumption DEF Commands, rangeVars
    <3> QED
      BY <1>1, <1>5, <2>1, <3>1, <3>2, ProposeOps
  <2>2. CASE UNCHANGED log
    BY <1>2, <2>2 DEF IInv, TypeOK, OpInv, OpOK, AllAccepted, Accepted, rangeVars
  <2> QED
    BY <1>3, <2>1, <2>2
<1>7. CoordInv'
  BY <1>1, <1>2, <1>3
     DEF IInv, CoordInv, Adopt, rangeVars, Accepted, AllAccepted
<1>8. CallInv'
  BY <1>1, <1>2, <1>3, <1>4
     DEF CallInv, IInv, Adopt, Terminal, rangeVars, Calls
<1>9. ToldInv' /\ state' \in {"Open"} \cup Terminal /\ told' \subseteq Terminal \cup {"Success"}
      /\ lastCT' \in Nat
  BY <1>1, <1>2 DEF ToldInv, IInv, TypeOK, rangeVars
<1> QED
  BY <1>2, <1>5, <1>6, <1>7, <1>8, <1>9, ClientStep

\* A resolution is proposed only for the verdict a leader has shown.
LEMMA ProposeResolveInv ==
  ASSUME NEW c \in Clients PROVE IInv /\ ProposeResolve(c) => IInv'
<1> SUFFICES ASSUME IInv, ProposeResolve(c) PROVE IInv'
  OBVIOUS
<1> DEFINE r == cl[c].next
           s == cl[c].status
<1>1. /\ TypeOK /\ cl \in [Clients -> Calls] /\ cl[c] \in Calls /\ Coord \in Clients
  BY DEF IInv, TypeOK, Clients
<1>2. cl[c].pc = "resolve" /\ r <= NRanges /\ UNCHANGED <<rangeVars, lastCT, state, told>>
  BY DEF ProposeResolve, ProposeResolveOn
<1>3. r \in Ranges /\ s \in Terminal
  BY <1>1, <1>2, TxnAssumption DEF Calls, Ranges
<1>4. PICK x \in seen :
        \/ MayResolve(x, c, s) /\ Goto(c, "resolving") /\ Propose(c, r, ResolveType(s))
        \/ Return(c) /\ UNCHANGED log
  BY DEF ProposeResolve, ProposeResolveOn
<1>5. cl' \in [Clients -> Calls]
  BY <1>1, <1>4, CallTypes DEF Waiting
<1>6. log' \in [Ranges -> Seq(Operations)] /\ OpInv'
  <2>1. CASE MayResolve(x, c, s) /\ Goto(c, "resolving") /\ Propose(c, r, ResolveType(s))
    <3>1. cl'[c].ct = cl[c].ct
      BY <1>1, <2>1 DEF Goto, Calls
    <3>2. rec.status = s /\ cl[c].ct = rec.ct
      BY <1>3, <2>1 DEF MayResolve, SameAttempt, IInv, RecInv
    <3>3. OpOK([type |-> ResolveType(s), ct |-> cl'[c].ct])
      BY <1>3, <3>1, <3>2 DEF OpOK, ResolveType, Terminal
    <3>4. ResolveType(s) \in Commands /\ UNCHANGED <<rec, part>>
      BY <1>2 DEF Commands, ResolveType, rangeVars
    <3> QED
      BY <1>1, <1>3, <1>5, <2>1, <3>3, <3>4, ProposeOps
  <2>2. CASE UNCHANGED log
    BY <1>2, <2>2 DEF IInv, TypeOK, OpInv, OpOK, AllAccepted, Accepted, rangeVars
  <2> QED
    BY <1>4, <2>1, <2>2
<1>7. CoordInv'
  BY <1>1, <1>2, <1>4
     DEF IInv, CoordInv, Goto, Return, Idle, rangeVars, Accepted, AllAccepted, Calls
<1>8. CallInv'
  BY <1>1, <1>2, <1>4 DEF CallInv, IInv, Goto, Return, Idle, rangeVars, Calls
<1>9. ToldInv' /\ state' \in {"Open"} \cup Terminal /\ told' \subseteq Terminal \cup {"Success"}
      /\ lastCT' \in Nat
  BY <1>1, <1>2 DEF ToldInv, IInv, TypeOK, rangeVars
<1> QED
  BY <1>2, <1>5, <1>6, <1>7, <1>8, <1>9, ClientStep

\* A call that has resolved every range answers with the verdict it resolved.
LEMMA ResolveDoneInv ==
  ASSUME NEW c \in Clients PROVE IInv /\ ResolveDone(c) => IInv'
<1> SUFFICES ASSUME IInv, ResolveDone(c) PROVE IInv'
  OBVIOUS
<1>1. /\ TypeOK /\ cl \in [Clients -> Calls] /\ cl[c] \in Calls /\ Coord \in Clients
      /\ cl[c].status \in Terminal
  BY DEF IInv, TypeOK, Clients, Calls
<1>2. /\ cl[c].pc = "resolve" /\ Return(c) /\ UNCHANGED <<rangeVars, log, lastCT>>
      /\ state' = IF c = Coord THEN cl[c].status ELSE state
      /\ told' = IF c = Coord THEN told \cup Answer(cl[c].status) ELSE told
  BY DEF ResolveDone
<1>3. cl' \in [Clients -> Calls]
  BY <1>1, <1>2, CallTypes
<1>4. CoordInv' /\ CallInv'
  BY <1>1, <1>2
     DEF IInv, CoordInv, CallInv, Return, Idle, rangeVars, Accepted, AllAccepted
<1>5. cl[c].status = "Committed" => rec.status = "Committed"
  BY <1>2 DEF IInv, CallInv
<1>6. ToldInv' /\ state' \in {"Open"} \cup Terminal /\ told' \subseteq Terminal \cup {"Success"}
  BY <1>1, <1>2, <1>5, Zenon DEF ToldInv, IInv, TypeOK, Answer, Terminal, rangeVars
<1>7. OpInv' /\ log' \in [Ranges -> Seq(Operations)] /\ lastCT' \in Nat
  BY <1>2, Zenon DEF IInv, TypeOK, OpInv, OpOK, AllAccepted, Accepted, rangeVars
<1> QED
  BY <1>2, <1>3, <1>4, <1>6, <1>7, ClientStep

\* Ending a wait forgets who waits and leaves the command in its log.
LEMMA GiveUpInv ==
  ASSUME NEW c \in Clients PROVE IInv /\ GiveUp(c) => IInv'
<1> SUFFICES ASSUME IInv, GiveUp(c) PROVE IInv'
  OBVIOUS
<1>1. TypeOK /\ cl \in [Clients -> Calls] /\ cl[c] \in Calls /\ Coord \in Clients
  BY DEF IInv, TypeOK, Clients
<1>2. /\ cl[c].pc \in Waiting \cup {"assign"}
      /\ log' = [r \in Ranges |-> Orphaned(log[r], c)]
      /\ (cl[c].pc = "preparing" /\ Goto(c, "decide")) \/ Return(c)
      /\ UNCHANGED <<rangeVars, lastCT, state, told>>
  BY DEF GiveUp
<1>3. cl' \in [Clients -> Calls]
  BY <1>1, <1>2, CallTypes DEF Running
<1>4. log' \in [Ranges -> Seq(Operations)] /\ OpInv'
  BY <1>2, OrphanOps DEF rangeVars
<1>5. CoordInv'
  BY <1>1, <1>2
     DEF IInv, CoordInv, CallInv, Goto, Return, Idle, rangeVars, Accepted, AllAccepted, Calls
<1>6. CallInv'
  BY <1>1, <1>2 DEF CallInv, IInv, Goto, Return, Idle, rangeVars, Calls
<1>7. ToldInv' /\ state' \in {"Open"} \cup Terminal /\ told' \subseteq Terminal \cup {"Success"}
      /\ lastCT' \in Nat
  BY <1>1, <1>2 DEF ToldInv, IInv, TypeOK, rangeVars
<1> QED
  BY <1>2, <1>3, <1>4, <1>5, <1>6, <1>7, ClientStep

\* A coordinator that dies leaves its commands behind.
LEMMA CoordDiesInv == IInv /\ CoordDies => IInv'
<1> SUFFICES ASSUME IInv, CoordDies PROVE IInv'
  OBVIOUS
<1> DEFINE k == [pc |-> "dead", ct |-> 0, epoch |-> 0, next |-> 1, status |-> "Aborted"]
<1>1. TypeOK /\ cl \in [Clients -> Calls] /\ Coord \in Clients
  BY DEF IInv, TypeOK, Clients
<1>2. /\ log' = [r \in Ranges |-> Orphaned(log[r], Coord)]
      /\ cl' = [cl EXCEPT ![Coord] = k]
      /\ UNCHANGED <<rangeVars, lastCT, state, told>>
  <2>1. /\ Idle \in Calls /\ Idle.ct = 0 /\ Idle.epoch = 0 /\ Idle.next = 1
        /\ Idle.status = "Aborted"
    BY DEF Idle, Calls, Terminal
  <2>2. [Idle EXCEPT !.pc = "dead"] = k
    BY <2>1 DEF Calls
  <2> QED
    BY <2>2, Zenon DEF CoordDies
<1>3. cl' \in [Clients -> Calls] /\ CoordInv' /\ CallInv'
  <2>1. k \in Calls
    BY DEF Calls, Terminal
  <2> QED
    BY <1>1, <1>2, <2>1 DEF IInv, CoordInv, CallInv, rangeVars
<1>4. log' \in [Ranges -> Seq(Operations)] /\ OpInv'
  BY <1>2, OrphanOps, Zenon DEF rangeVars
<1>5. ToldInv' /\ state' \in {"Open"} \cup Terminal /\ told' \subseteq Terminal \cup {"Success"}
      /\ lastCT' \in Nat
  BY <1>1, <1>2 DEF ToldInv, IInv, TypeOK, rangeVars
<1> QED
  BY <1>2, <1>3, <1>4, <1>5, ClientStep

\* A leader change drops commands and adds none.
LEMMA LoseSuffixInv ==
  ASSUME NEW r \in Ranges PROVE IInv /\ LoseSuffix(r) => IInv'
<1> SUFFICES ASSUME IInv, LoseSuffix(r) PROVE IInv'
  OBVIOUS
<1>1. log \in [Ranges -> Seq(Operations)] /\ log[r] \in Seq(Operations) /\ OpInv
  BY DEF IInv, TypeOK
<1>2. PICK n \in 0 .. Len(log[r]) : log' = [log EXCEPT ![r] = SubSeq(log[r], 1, n)]
  BY Zenon DEF LoseSuffix
<1>3. UNCHANGED <<rangeVars, cl, lastCT, state, told>>
  BY DEF LoseSuffix
<1> DEFINE p == SubSeq(log[r], 1, n)
<1>4. /\ p \in Seq(Operations)
      /\ \A i \in 1 .. Len(p) : i \in 1 .. Len(log[r]) /\ p[i] = log[r][i]
  BY <1>1, PrefixElems
<1> HIDE DEF p
<1>5. log' = [log EXCEPT ![r] = p] /\ log' \in [Ranges -> Seq(Operations)]
  BY <1>1, <1>2, <1>4 DEF p
<1>6. OpInv'
  <2> SUFFICES ASSUME NEW q \in Ranges, NEW i \in 1 .. Len(log'[q]) PROVE OpOK(log[q][i])'
    BY DEF OpInv
  <2>1. i \in 1 .. Len(log[q]) /\ log'[q][i] = log[q][i]
    BY <1>1, <1>4, <1>5
  <2>2. OpOK(log[q][i])
    BY <1>1, <2>1 DEF OpInv
  <2> QED
    BY <1>3, <2>1, <2>2 DEF OpOK, AllAccepted, Accepted, rangeVars
<1>7. CoordInv' /\ CallInv' /\ ToldInv' /\ cl' \in [Clients -> Calls]
      /\ state' \in {"Open"} \cup Terminal /\ told' \subseteq Terminal \cup {"Success"}
      /\ lastCT' \in Nat
  BY <1>3 DEF IInv, TypeOK, CoordInv, CallInv, ToldInv, AllAccepted, Accepted, rangeVars
<1> QED
  BY <1>3, <1>5, <1>6, <1>7, ClientStep
============================================================================
