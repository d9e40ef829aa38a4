------------------------------ MODULE Storage ------------------------------
(***************************************************************************)
(* One local RivetDB engine (internal/storage): the write pipeline with    *)
(* its flush worker, the manifest, compaction, reads, reclamation, and     *)
(* what a crash leaves on disk.                                            *)
(*                                                                         *)
(* An entry is a key with its sequence.  Sequences start at 1, and 0 means *)
(* none.  A tombstone is an entry like any other because no operation of   *)
(* the engine drops one.  In mode "standalone" log is the write-ahead log. *)
(* In mode "replicated" it is the committed Raft log that the engine       *)
(* applies (external), a sequence is a Raft index and NoOp stands for a    *)
(* command without a mutation.                                             *)
(*                                                                         *)
(* The manifest's Version in memory is always the last one synced, so one  *)
(* variable stands for both.  An edit whose append failed is in vtail and  *)
(* poisons the manifest; a WAL record whose append or sync failed is in    *)
(* tail and poisons the WAL.  Whether they survive is settled at Open.     *)
(***************************************************************************)
EXTENDS Naturals, Sequences, FiniteSets, FiniteSetsExt, SequencesExt

CONSTANTS Keys,           \* user keys, naturals
          NoOp,           \* a committed command without a mutation
          Modes,          \* the modes an engine may be created in
          Writer,         \* the caller of Write or ApplyCommitted
          Flushers,       \* callers of Engine.Flush
          Readers,        \* callers of Engine.Get and Scan
          Nobody,         \* the write token is free
          MemTableSize,   \* entries at which the active table rotates
          MaxImmutables,  \* Options.MaxImmutables
          L0Trigger,      \* Options.L0Trigger
          CacheCapacity,  \* Options.TableCacheCapacity
          MaxSeq,         \* bound: entries written
          MaxFile,        \* bound: file numbers allocated
          MaxFaults,      \* bound: crashes and failed file operations
          WalShapes       \* block sizes of the WAL and sizes of the records in it

Callers == {Writer} \cup Flushers
Entry == [seq : Nat \ {0}, key : Keys]

ASSUME StorageAssumption ==
  /\ Keys \subseteq Nat /\ IsFiniteSet(Keys) /\ NoOp \notin Keys
  /\ Modes \subseteq {"standalone", "replicated"}
  /\ Writer \notin Flushers /\ Nobody \notin Callers
  /\ MemTableSize \in Nat \ {0} /\ MaxImmutables \in Nat \ {0}
  /\ L0Trigger \in Nat \ {0} /\ CacheCapacity \in Nat \ {0}
  /\ MaxSeq \in Nat /\ MaxFile \in Nat /\ MaxFaults \in Nat

VARIABLES mode,           \* StorageMode of the manifest
          log,            \* durable log
          tail,           \* at most one log record not known to be durable
          ver,            \* current Version
          vtail,          \* at most one Version not known to be durable
          files,          \* table files on disk
          up,             \* "open", "closing" or "down"
          active,         \* active generation
          imms,           \* immutable generations, oldest first
          nextSeq,        \* Pipeline.nextSequence
          visible,        \* Pipeline.visibleSequence and replicatedApplied
          covered,        \* Pipeline.coveredApplied
          token,          \* holder of Pipeline.writeToken
          wake, changed,  \* Pipeline.wake and changed, channels of one slot
          asleep,         \* the worker waits on wake
          pc,             \* where each caller is
          job,            \* the compaction that runs
          view,           \* what each reader has captured
          cache,          \* Engine.tableCache
          obsolete,       \* Store.obsolete without what was reclaimed
          faults,         \* faults so far
          acked,          \* entries whose write has returned
          born            \* file numbers of every table ever written

reads == <<view, cache>>
disk == <<mode, log, tail, ver, vtail, files>>
queue == <<active, imms>>
signals == <<wake, changed, asleep>>
calls == <<token, pc>>
counters == <<nextSeq, visible, covered>>
ghosts == <<acked, born>>
vars == <<disk, up, queue, counters, calls, signals, job, reads, obsolete, faults, ghosts>>
---------------------------------------------------------------------------
(* Tables and Versions. *)

FirstSeq(t) == Min({e.seq : e \in t.ents})
LastSeq(t) == Max({e.seq : e \in t.ents})
Smallest(T) == Min({e.key : e \in UNION {t.ents : t \in T}})
Largest(T) == Max({e.key : e \in UNION {t.ents : t \in T}})
RangesOverlap(S, T) == Smallest(S) <= Largest(T) /\ Smallest(T) <= Largest(S)

Tables(v) == v.l0 \cup v.l1
Contents(T) == UNION {t.ents : t \in T}
LogPrefix(n) == {log[i] : i \in {j \in 1 .. Len(log) : j <= n /\ log[j].key # NoOp}}
LogSuffix(n) == {log[i] : i \in {j \in 1 .. Len(log) : j > n /\ log[j].key # NoOp}}

NoVersion == [l0 |-> {}, l1 |-> {}, next |-> 1, last |-> 0, frontier |-> 0]

FrontierCovered(v, n) ==
  \A s \in v.frontier + 1 .. n : \E t \in Tables(v) : FirstSeq(t) <= s /\ s <= LastSeq(t)

MaximumContiguousFrontier(v) ==
  Max({n \in v.frontier .. v.last : FrontierCovered(v, n)})

\* The Version after a flushed table is added.
Installed(v, g) ==
  LET t == [num |-> g.file, ents |-> g.ents]
      v1 == [v EXCEPT !.l0 = @ \cup {t}, !.last = Max({@, LastSeq(t)})]
  IN  IF mode = "standalone"
      THEN [v1 EXCEPT !.frontier = MaximumContiguousFrontier(v1)]
      ELSE [v1 EXCEPT !.frontier = g.last]

FrontierGap(v, g) == mode = "replicated" /\ g.first # v.frontier + 1

Replaced(v, ins, outs) ==
  [v EXCEPT !.l0 = @ \ ins, !.l1 = (@ \ ins) \cup outs]

NewGeneration == [file |-> 0, ents |-> {}, first |-> 0, last |-> 0,
                  st |-> "Active", ambiguous |-> FALSE]

NoJob == [st |-> "none", inputs |-> {}, outs |-> {}, todo |-> {}]
NoView == [st |-> "idle", gens |-> {}, target |-> 0, scan |-> FALSE, keys |-> {},
           tables |-> {}, todo |-> {}, leases |-> <<>>]

TableOf(g) == [num |-> g.file, ents |-> g.ents]
FlushFailure == imms # <<>> /\ imms[1].st = "Failed"
Poisoned == vtail # <<>>
MayFault == faults < MaxFaults /\ faults' = faults + 1

Init ==
  /\ mode \in Modes
  /\ log = <<>> /\ tail = <<>>
  /\ ver = NoVersion /\ vtail = <<>> /\ files = {}
  /\ up = "open"
  /\ active = NewGeneration /\ imms = <<>>
  /\ nextSeq = 1 /\ visible = 0 /\ covered = 0
  /\ token = Nobody /\ pc = [p \in Callers |-> "idle"]
  /\ wake = FALSE /\ changed = FALSE /\ asleep = FALSE
  /\ job = NoJob /\ view = [r \in Readers |-> NoView] /\ cache = <<>> /\ obsolete = {}
  /\ faults = 0 /\ acked = {} /\ born = {}
---------------------------------------------------------------------------
(* Admission: the write token, capacity, and a file number. *)

Goto(p, where) == pc' = [pc EXCEPT ![p] = where]
Release(p) == token' = IF token = p THEN Nobody ELSE token

\* The call returns an error.  An apply error stops the Raft replica.
Fail(p) ==
  /\ Goto(p, IF p = Writer /\ mode = "replicated" THEN "halted" ELSE "idle")
  /\ Release(p)

Write ==
  /\ up = "open" /\ mode = "standalone"
  /\ pc[Writer] = "idle" /\ token = Nobody /\ nextSeq <= MaxSeq
  /\ token' = Writer /\ Goto(Writer, "capacity")
  /\ UNCHANGED <<disk, up, queue, counters, signals, job, reads, obsolete, faults, ghosts>>

ApplyReplicated ==
  /\ up = "open" /\ mode = "replicated"
  /\ pc[Writer] = "idle" /\ token = Nobody
  /\ visible < Len(log) /\ log[visible + 1].key # NoOp
  /\ token' = Writer /\ Goto(Writer, "capacity")
  /\ UNCHANGED <<disk, up, queue, counters, signals, job, reads, obsolete, faults, ghosts>>

Flush(f) ==
  /\ up = "open" /\ pc[f] = "idle" /\ token = Nobody
  /\ IF active.ents = {}
     THEN Goto(f, "drain") /\ UNCHANGED token
     ELSE Goto(f, "capacity") /\ token' = f
  /\ UNCHANGED <<disk, up, queue, counters, signals, job, reads, obsolete, faults, ghosts>>

\* Mutant: one generation too many is admitted.
WaitForCapacityOffByOne(p) ==
  /\ pc[p] = "capacity"
  /\ \/ FlushFailure /\ Fail(p)
     \/ ~FlushFailure /\ Len(imms) <= MaxImmutables /\ Goto(p, "file") /\ UNCHANGED token
     \/ ~FlushFailure /\ Len(imms) > MaxImmutables /\ Goto(p, "full") /\ UNCHANGED token
  /\ UNCHANGED <<disk, up, queue, counters, signals, job, reads, obsolete, faults, ghosts>>

WaitForCapacity(p) ==
  /\ pc[p] = "capacity"
  /\ \/ FlushFailure /\ Fail(p)
     \/ ~FlushFailure /\ Len(imms) < MaxImmutables /\ Goto(p, "file") /\ UNCHANGED token
     \/ ~FlushFailure /\ Len(imms) >= MaxImmutables /\ Goto(p, "full") /\ UNCHANGED token
  /\ UNCHANGED <<disk, up, queue, counters, signals, job, reads, obsolete, faults, ghosts>>

Drain(p) ==
  /\ pc[p] = "drain"
  /\ \/ FlushFailure /\ Fail(p)
     \/ imms = <<>> /\ Goto(p, "idle") /\ UNCHANGED token
     \/ imms # <<>> /\ ~FlushFailure /\ Goto(p, "undrained") /\ UNCHANGED token
  /\ UNCHANGED <<disk, up, queue, counters, signals, job, reads, obsolete, faults, ghosts>>

\* One of the callers waiting on changed takes the only notification.
ReceiveChanged(p) ==
  /\ pc[p] \in {"full", "undrained"} /\ changed
  /\ changed' = FALSE
  /\ Goto(p, IF pc[p] = "full" THEN "capacity" ELSE "drain")
  /\ UNCHANGED <<disk, up, queue, counters, token, wake, asleep, job, reads, obsolete, faults, ghosts>>

\* The caller's context ends.  Raft applies without one.
Cancel(p) ==
  /\ pc[p] \in {"full", "undrained"}
  /\ p \in Flushers \/ mode = "standalone"
  /\ Fail(p)
  /\ UNCHANGED <<disk, up, queue, counters, signals, job, reads, obsolete, faults, ghosts>>

\* Mutant: the number is handed out without being reserved.
AllocatedInMemory(v) == v

Allocated(v) == [v EXCEPT !.next = @ + 1]

EnsureActiveFile(p) ==
  /\ pc[p] = "file"
  /\ \/ /\ FlushFailure \/ (active.file = 0 /\ Poisoned)
        /\ Fail(p) /\ UNCHANGED <<ver, active>>
     \/ /\ ~FlushFailure /\ active.file # 0
        /\ Goto(p, "admitted") /\ UNCHANGED <<token, ver, active>>
     \/ /\ ~FlushFailure /\ active.file = 0 /\ ~Poisoned /\ ver.next <= MaxFile
        /\ ver' = Allocated(ver) /\ active' = [active EXCEPT !.file = ver.next]
        /\ Goto(p, "admitted") /\ UNCHANGED token
  /\ UNCHANGED <<mode, log, tail, vtail, files, up, imms, counters, signals, job,
                 reads, obsolete, faults, ghosts>>

AllocationFails(p) ==
  /\ pc[p] = "file" /\ active.file = 0 /\ ~FlushFailure /\ ~Poisoned
  /\ ver.next <= MaxFile /\ MayFault
  /\ vtail' = <<Allocated(ver)>> /\ Fail(p)
  /\ UNCHANGED <<mode, log, tail, ver, files, up, queue, counters, signals, job,
                 reads, obsolete, ghosts>>
---------------------------------------------------------------------------
(* The write itself. *)

\* Sequence assignment and wal.Append.  A poisoned log refuses the record.
AppendWAL ==
  /\ pc[Writer] = "admitted" /\ mode = "standalone"
  /\ \/ FlushFailure /\ Fail(Writer) /\ UNCHANGED <<tail, nextSeq>>
     \/ ~FlushFailure /\ tail # <<>> /\ nextSeq' = nextSeq + 1 /\ Fail(Writer) /\ UNCHANGED tail
     \/ /\ ~FlushFailure /\ tail = <<>>
        /\ nextSeq' = nextSeq + 1
        /\ \E k \in Keys : tail' = <<[seq |-> nextSeq, key |-> k]>>
        /\ Goto(Writer, "sync") /\ UNCHANGED token
  /\ UNCHANGED <<mode, log, ver, vtail, files, up, queue, visible, covered, signals,
                 job, reads, obsolete, faults, ghosts>>

SyncWAL ==
  /\ pc[Writer] = "sync"
  /\ log' = log \o tail /\ tail' = <<>>
  /\ Goto(Writer, "durable")
  /\ UNCHANGED <<mode, ver, vtail, files, up, queue, counters, token, signals, job,
                 reads, obsolete, faults, ghosts>>

SyncFails ==
  /\ pc[Writer] = "sync" /\ MayFault
  /\ Fail(Writer)
  /\ UNCHANGED <<disk, up, queue, counters, signals, job, reads, obsolete, ghosts>>

\* The entry joins the active table and is not visible yet.
ApplyBatch ==
  /\ pc[Writer] = IF mode = "standalone" THEN "durable" ELSE "admitted"
  /\ active' = [active EXCEPT !.ents = @ \cup {log[visible + 1]}]
  /\ Goto(Writer, "applied")
  /\ UNCHANGED <<disk, up, imms, counters, token, signals, job, reads, obsolete, faults, ghosts>>

\* Mutant: a fresh generation claims only the index that it starts with.
CarriesOwnIndex(g) ==
  IF mode = "standalone" THEN g
  ELSE [g EXCEPT !.first = IF g.first = 0 THEN visible + 1 ELSE g.first,
                 !.last = visible + 1]

\* The active generation carries the applied indexes since the last one.
Carries(g) ==
  IF mode = "standalone" THEN g
  ELSE [g EXCEPT !.first = IF g.first = 0 THEN covered + 1 ELSE g.first,
                 !.last = visible + 1]

\* Mutant: the worker is not woken.
RotateQuietly(g) ==
  /\ imms' = Append(imms, [g EXCEPT !.st = "Queued"])
  /\ active' = NewGeneration
  /\ UNCHANGED wake

RotateLocked(g) ==
  /\ imms' = Append(imms, [g EXCEPT !.st = "Queued"])
  /\ active' = NewGeneration
  /\ wake' = TRUE

Publish ==
  /\ pc[Writer] = "applied"
  /\ visible' = visible + 1
  /\ covered' = IF mode = "standalone" THEN covered ELSE visible + 1
  /\ IF Cardinality(active.ents) >= MemTableSize
     THEN RotateLocked(Carries(active))
     ELSE active' = Carries(active) /\ UNCHANGED <<imms, wake>>
  /\ acked' = acked \cup {log[visible + 1]}
  /\ Goto(Writer, "idle") /\ Release(Writer)
  /\ UNCHANGED <<disk, up, nextSeq, changed, asleep, job, reads, obsolete, faults, born>>

\* The committed log grows (external).  It is only read at visible + 1.
RaftCommit ==
  /\ mode = "replicated" /\ up = "open"
  /\ Len(log) = visible /\ Len(log) < MaxSeq
  /\ \E k \in Keys \cup {NoOp} : log' = Append(log, [seq |-> Len(log) + 1, key |-> k])
  /\ UNCHANGED <<mode, tail, ver, vtail, files, up, queue, counters, calls, signals,
                 job, reads, obsolete, faults, ghosts>>

AdvanceReplicatedApplied ==
  /\ up = "open" /\ mode = "replicated" /\ pc[Writer] = "idle"
  /\ visible < Len(log) /\ log[visible + 1].key = NoOp
  /\ visible' = visible + 1
  /\ IF active.first # 0
     THEN active' = [active EXCEPT !.last = visible + 1] /\ covered' = visible + 1
     ELSE UNCHANGED <<active, covered>>
  /\ UNCHANGED <<disk, up, imms, nextSeq, calls, signals, job, reads, obsolete, faults, ghosts>>

Rotate(f) ==
  /\ f \in Flushers /\ pc[f] = "admitted"
  /\ \/ FlushFailure /\ Fail(f) /\ UNCHANGED <<queue, wake>>
     \/ ~FlushFailure /\ RotateLocked(active) /\ Goto(f, "drain") /\ Release(f)
  /\ UNCHANGED <<disk, up, counters, changed, asleep, job, reads, obsolete, faults, ghosts>>
---------------------------------------------------------------------------
(* The flush worker: one goroutine, oldest generation first. *)

SetHead(state) == imms' = [imms EXCEPT ![1].st = state]
FailHead(ambiguous) ==
  /\ imms' = [imms EXCEPT ![1].st = "Failed", ![1].ambiguous = ambiguous]
  /\ changed' = TRUE

ClaimFlush ==
  /\ up # "down" /\ ~asleep
  /\ \/ imms # <<>> /\ imms[1].st = "Queued" /\ SetHead("Flushing") /\ UNCHANGED asleep
     \/ (imms = <<>> \/ FlushFailure) /\ asleep' = TRUE /\ UNCHANGED imms
  /\ UNCHANGED <<disk, up, active, counters, calls, wake, changed, job, reads, obsolete,
                 faults, ghosts>>

ReceiveWake ==
  /\ asleep /\ wake
  /\ asleep' = FALSE /\ wake' = FALSE
  /\ UNCHANGED <<disk, up, queue, counters, calls, changed, job, reads, obsolete, faults, ghosts>>

\* The table is written, renamed to its final name and validated.
FlushToSSTable ==
  /\ imms # <<>> /\ imms[1].st = "Flushing"
  /\ files' = files \cup {TableOf(imms[1])} /\ born' = born \cup {imms[1].file}
  /\ SetHead("Installing")
  /\ UNCHANGED <<mode, log, tail, ver, vtail, up, active, counters, calls, signals, job,
                 reads, obsolete, faults, acked>>

\* An ambiguous failure may leave the table under its final name.
FlushFails ==
  /\ imms # <<>> /\ imms[1].st = "Flushing" /\ MayFault
  /\ \/ FailHead(FALSE) /\ UNCHANGED <<files, born>>
     \/ /\ FailHead(TRUE)
        /\ files' = files \cup {TableOf(imms[1])} /\ born' = born \cup {imms[1].file}
  /\ UNCHANGED <<mode, log, tail, ver, vtail, up, active, counters, calls, wake, asleep,
                 job, reads, obsolete, acked>>

InstallTable ==
  /\ imms # <<>> /\ imms[1].st = "Installing"
  /\ IF Poisoned \/ FrontierGap(ver, imms[1])
     THEN FailHead(TRUE) /\ UNCHANGED ver
     ELSE /\ ver' = Installed(ver, imms[1])
          /\ SetHead("Installed") /\ UNCHANGED changed
  /\ UNCHANGED <<mode, log, tail, vtail, files, up, active, counters, calls, wake, asleep,
                 job, reads, obsolete, faults, ghosts>>

InstallationFails ==
  /\ imms # <<>> /\ imms[1].st = "Installing" /\ MayFault
  /\ ~Poisoned /\ ~FrontierGap(ver, imms[1])
  /\ vtail' = <<Installed(ver, imms[1])>> /\ FailHead(TRUE)
  /\ UNCHANGED <<mode, log, tail, ver, files, up, active, counters, calls, wake, asleep,
                 job, reads, obsolete, ghosts>>

FinishInstallation ==
  /\ imms # <<>> /\ imms[1].st = "Installed"
  /\ imms' = Tail(imms) /\ changed' = TRUE /\ wake' = TRUE
  /\ UNCHANGED <<disk, up, active, counters, calls, asleep, job, reads, obsolete, faults, ghosts>>

RetryFailed ==
  /\ up = "open" /\ FlushFailure /\ ~imms[1].ambiguous
  /\ SetHead("Queued") /\ wake' = TRUE /\ changed' = TRUE
  /\ UNCHANGED <<disk, up, active, counters, calls, asleep, job, reads, obsolete, faults, ghosts>>
---------------------------------------------------------------------------
(* Compaction: the oldest L0 table and all that overlaps it, into L1. *)

Closed(v, S) == \A t \in Tables(v) : RangesOverlap(S, {t}) => t \in S

\* The least closed set of tables with the oldest table of level 0.
Picked(v) ==
  LET seed == CHOOSE t \in v.l0 : \A u \in v.l0 : LastSeq(t) <= LastSeq(u)
  IN  {t \in Tables(v) : \A S \in SUBSET Tables(v) : seed \in S /\ Closed(v, S) => t \in S}

Pick ==
  /\ up = "open" /\ job.st = "none" /\ Cardinality(ver.l0) >= L0Trigger
  /\ job' = [NoJob EXCEPT !.st = "planned", !.inputs = Picked(ver)]
  /\ UNCHANGED <<disk, up, queue, counters, calls, signals, reads, obsolete, faults, ghosts>>

\* Run validates the plan against the Version of the moment.
StartCompaction ==
  /\ job.st = "planned"
  /\ job' = IF job.inputs \subseteq Tables(ver) /\ Closed(ver, job.inputs)
            THEN [job EXCEPT !.st = "running", !.todo = Contents(job.inputs)]
            ELSE NoJob
  /\ UNCHANGED <<disk, up, queue, counters, calls, signals, reads, obsolete, faults, ghosts>>

\* Mutant: only the newest version of each key is kept.
BuildNewestOnly ==
  /\ job.st = "running" /\ job.todo # {} /\ ~Poisoned /\ ver.next <= MaxFile
  /\ LET t == [num |-> ver.next,
               ents |-> {e \in job.todo : \A o \in job.todo : o.key = e.key => o.seq <= e.seq}]
     IN  /\ job' = [job EXCEPT !.outs = @ \cup {t}, !.todo = {}]
         /\ files' = files \cup {t} /\ born' = born \cup {t.num}
  /\ ver' = Allocated(ver)
  /\ UNCHANGED <<mode, log, tail, vtail, up, queue, counters, calls, signals, reads,
                 obsolete, faults, acked>>

\* One more output: every version of the next keys, under a fresh number.
BuildOutput ==
  /\ job.st = "running" /\ job.todo # {} /\ ~Poisoned /\ ver.next <= MaxFile
  /\ \E hi \in {e.key : e \in job.todo} :
       LET t == [num |-> ver.next, ents |-> {e \in job.todo : e.key <= hi}]
       IN  /\ job' = [job EXCEPT !.outs = @ \cup {t}, !.todo = @ \ t.ents]
           /\ files' = files \cup {t} /\ born' = born \cup {t.num}
  /\ ver' = Allocated(ver)
  /\ UNCHANGED <<mode, log, tail, vtail, up, queue, counters, calls, signals, reads,
                 obsolete, faults, acked>>

InstallCompaction ==
  /\ job.st = "running" /\ job.todo = {} /\ ~Poisoned
  /\ ver' = Replaced(ver, job.inputs, job.outs)
  /\ obsolete' = obsolete \cup {t.num : t \in job.inputs}
  /\ job' = NoJob
  /\ UNCHANGED <<mode, log, tail, vtail, files, up, queue, counters, calls, signals, reads,
                 faults, ghosts>>

CompactionInstallFails ==
  /\ job.st = "running" /\ job.todo = {} /\ ~Poisoned /\ MayFault
  /\ vtail' = <<Replaced(ver, job.inputs, job.outs)>>
  /\ job' = NoJob
  /\ UNCHANGED <<mode, log, tail, ver, files, up, queue, counters, calls, signals, reads,
                 obsolete, ghosts>>

\* Cancellation, a failed output or a poisoned manifest: outputs are orphans.
CompactionFails ==
  /\ job.st # "none"
  /\ job' = NoJob
  /\ UNCHANGED <<disk, up, queue, counters, calls, signals, reads, obsolete, faults, ghosts>>
---------------------------------------------------------------------------
(* Reads.  A view is captured in two steps, MemTables and then the Version. *)
(* Then the tables that may hold the key, or all of them for a scan, are    *)
(* read through the table cache.  A point read gives each lease back before *)
(* it goes on; a scan keeps its leases until it has its result.             *)

TC == INSTANCE TableCache WITH Capacity <- CacheCapacity

\* All tables of level 0 whose range holds the key, and the one table of
\* level 1 that a binary search by smallest key ends at.
TablesForPoint(v, k) ==
  LET below == {t \in v.l1 : Smallest({t}) <= k}
  IN  {t \in v.l0 : Smallest({t}) <= k /\ k <= Largest({t})}
        \cup {t \in below : /\ \A u \in below : Smallest({u}) <= Smallest({t})
                            /\ k <= Largest({t})}

CaptureMemTables(r) ==
  /\ up = "open" /\ view[r].st = "idle"
  /\ view' = [view EXCEPT ![r] =
       [NoView EXCEPT !.st = "memtables", !.target = visible,
          !.gens = {TableOf(g) : g \in {active} \cup {imms[i] : i \in DOMAIN imms}}]]
  /\ UNCHANGED <<disk, up, queue, counters, calls, signals, job, cache, obsolete, faults, ghosts>>

Capture(r, scan, keys, tables) ==
  /\ view[r].st = "memtables"
  /\ view' = [view EXCEPT ![r].st = "captured", ![r].scan = scan, ![r].keys = keys,
                          ![r].tables = tables, ![r].todo = tables]
  /\ UNCHANGED <<disk, up, queue, counters, calls, signals, job, cache, obsolete, faults, ghosts>>

CaptureVersion(r) ==
  \/ \E k \in Keys : Capture(r, FALSE, {k}, TablesForPoint(ver, k))
  \/ Capture(r, TRUE, Keys, Tables(ver))

MayAcquire(r) == view[r].st = "captured" /\ (view[r].scan \/ view[r].leases = <<>>)

AcquireTable(r) ==
  /\ MayAcquire(r)
  /\ \E t \in view[r].todo :
       LET a == TC!Acquire(cache, t.num)
       IN  /\ cache' = a.cache
           /\ view' = [view EXCEPT ![r].todo = @ \ {t}, ![r].leases = Append(@, a.lease)]
  /\ UNCHANGED <<disk, up, queue, counters, calls, signals, job, obsolete, faults, ghosts>>

ReleaseTable(r) ==
  /\ view[r].leases # <<>> /\ (view[r].scan => view[r].todo = {})
  /\ cache' = TC!Release(cache, Head(view[r].leases))
  /\ view' = [view EXCEPT ![r].leases = Tail(@)]
  /\ UNCHANGED <<disk, up, queue, counters, calls, signals, job, obsolete, faults, ghosts>>

\* A table cannot be opened: a scan gives back what it has borrowed so far.
ReadFails(r) ==
  /\ MayAcquire(r)
  /\ \E t \in view[r].todo :
       /\ TC!Hit(cache, t.num) = {}
       /\ cache' = FoldLeft(TC!Release, TC!MakeRoom(cache, t.num), view[r].leases)
  /\ view' = [view EXCEPT ![r] = NoView]
  /\ UNCHANGED <<disk, up, queue, counters, calls, signals, job, obsolete, faults, ghosts>>

ReadReturns(r) ==
  /\ view[r].st = "captured" /\ view[r].todo = {} /\ view[r].leases = <<>>
  /\ view' = [view EXCEPT ![r] = NoView]
  /\ UNCHANGED <<disk, up, queue, counters, calls, signals, job, cache, obsolete, faults, ghosts>>

Newest(S) == {e \in S : \A o \in S : o.seq <= e.seq}

\* The entry a read selects for a key, and the files it is found in.
Selected(w, k) ==
  Newest({e \in Contents(w.gens \cup w.tables) : e.key = k /\ e.seq <= w.target})
FoundIn(w, e) == {t.num : t \in {u \in w.gens \cup w.tables : e \in u.ents}}
---------------------------------------------------------------------------
(* Reclamation, shutdown, crash and recovery. *)

\* Mutant: reclamation does not wait for readers.
ExclusiveOfWriters ==
  /\ up = "open" /\ job.st = "none"
  /\ \A p \in Callers : pc[p] \in {"idle", "halted"}

\* Nobody holds the engine's read lock.
Exclusive ==
  /\ up = "open" /\ job.st = "none"
  /\ \A p \in Callers : pc[p] \in {"idle", "halted"}
  /\ \A r \in Readers : view[r].st = "idle"

\* Every obsolete table is given up by the cache before its file goes.  A
\* removal that fails leaves the file for the next pass.
ReclaimObsoleteTables ==
  LET dead == obsolete \ {t.num : t \in Tables(ver)}
  IN  /\ Exclusive /\ dead # {}
      /\ cache' = FoldSet(LAMBDA n, c : TC!Evict(c, n).cache, cache, dead)
      /\ \E gone \in SUBSET {n \in dead : TC!Evict(cache, n).evicted} :
           /\ files' = {t \in files : t.num \notin gone}
           /\ obsolete' = obsolete \ gone
      /\ UNCHANGED <<mode, log, tail, ver, vtail, up, queue, counters, calls, signals, job,
                     view, faults, ghosts>>

GoDown ==
  /\ up' = "down"
  /\ active' = NewGeneration /\ imms' = <<>>
  /\ nextSeq' = 0 /\ visible' = 0 /\ covered' = 0
  /\ token' = Nobody /\ pc' = [p \in Callers |-> "idle"]
  /\ wake' = FALSE /\ changed' = FALSE /\ asleep' = FALSE
  /\ job' = NoJob /\ view' = [r \in Readers |-> NoView] /\ obsolete' = {}
  /\ UNCHANGED <<disk, ghosts>>

CloseBegin ==
  /\ Exclusive
  /\ up' = "closing" /\ changed' = TRUE
  /\ UNCHANGED <<disk, queue, counters, calls, wake, asleep, job, reads, obsolete, faults, ghosts>>

\* Drain returns, and the worker and the files are closed.
CloseEnd ==
  /\ up = "closing" /\ (imms = <<>> \/ FlushFailure)
  /\ GoDown /\ cache' = TC!Close(cache) /\ UNCHANGED faults

Crash == up # "down" /\ MayFault /\ GoDown /\ cache' = <<>>

\* Mutant: the log is not asked for the highest sequence.
RecoveredFromTables(v, l) ==
  [v EXCEPT !.next = Max({@} \cup {t.num + 1 : t \in files}),
            !.last = Max({@} \cup {e.seq : e \in Contents(Tables(v))})]

\* The authorities recovered from the Version, the files and the log.
Recovered(v, l) ==
  [v EXCEPT !.next = Max({@} \cup {t.num + 1 : t \in files}),
            !.last = Max({@} \cup {e.seq : e \in Contents(Tables(v))}
                             \cup (IF mode = "standalone" THEN {Len(l)} ELSE {}))]

\* Mutant: replay starts one record late.
ReplayWALLate(v, l) == {l[i] : i \in v.frontier + 2 .. Len(l)}

\* Entries of the log that the tables do not cover.
ReplayWAL(v, l) == {l[i] : i \in v.frontier + 1 .. Len(l)}

Open ==
  /\ up = "down"
  /\ \E l \in {log, log \o tail}, v \in {ver} \cup {vtail[i] : i \in DOMAIN vtail} :
       /\ Tables(v) \subseteq files
       /\ log' = l /\ ver' = Recovered(v, l)
       /\ active' = IF mode = "standalone"
                    THEN [NewGeneration EXCEPT !.ents = ReplayWAL(v, l)] ELSE NewGeneration
       /\ IF mode = "standalone"
          THEN nextSeq' = ver'.last + 1 /\ visible' = ver'.last /\ covered' = 0
          ELSE nextSeq' = 0 /\ visible' = v.frontier /\ covered' = v.frontier
  /\ tail' = <<>> /\ vtail' = <<>> /\ up' = "open"
  /\ UNCHANGED <<mode, files, imms, calls, signals, job, reads, obsolete, faults, ghosts>>

Next ==
  \/ Write \/ ApplyReplicated \/ AppendWAL \/ SyncWAL \/ SyncFails \/ ApplyBatch \/ Publish
  \/ RaftCommit \/ AdvanceReplicatedApplied
  \/ \E f \in Flushers : Flush(f) \/ Drain(f) \/ Rotate(f)
  \/ \E p \in Callers : \/ WaitForCapacity(p) \/ ReceiveChanged(p) \/ Cancel(p)
                        \/ EnsureActiveFile(p) \/ AllocationFails(p)
  \/ ClaimFlush \/ ReceiveWake \/ FlushToSSTable \/ FlushFails
  \/ InstallTable \/ InstallationFails \/ FinishInstallation \/ RetryFailed
  \/ Pick \/ StartCompaction \/ BuildOutput \/ InstallCompaction
  \/ CompactionInstallFails \/ CompactionFails
  \/ \E r \in Readers : \/ CaptureMemTables(r) \/ CaptureVersion(r) \/ AcquireTable(r)
                        \/ ReleaseTable(r) \/ ReadFails(r) \/ ReadReturns(r)
  \/ ReclaimObsoleteTables \/ CloseBegin \/ CloseEnd \/ Crash \/ Open

Spec == Init /\ [][Next]_vars
---------------------------------------------------------------------------
(* Properties. *)

Table == [num : Nat \ {0}, ents : SUBSET Entry]
Version == [l0 : SUBSET Table, l1 : SUBSET Table, next : Nat \ {0}, last : Nat, frontier : Nat]
Generation == [file : Nat, ents : SUBSET Entry, first : Nat, last : Nat,
               st : {"Active", "Queued", "Flushing", "Installing", "Installed", "Failed"},
               ambiguous : BOOLEAN]

\* Every variable keeps its type.  A queued generation has its file number
\* and the backlog keeps its limit, which rotateLocked asserts (STORAGE-55).
TypeOK ==
  /\ mode \in Modes
  /\ \A i \in DOMAIN log : log[i].seq = i /\ log[i].key \in Keys \cup {NoOp}
  /\ Len(tail) <= 1 /\ Len(vtail) <= 1
  /\ ver \in Version /\ files \subseteq Table
  /\ up \in {"open", "closing", "down"}
  /\ active \in Generation
  /\ \A i \in DOMAIN imms : imms[i] \in Generation /\ imms[i].file # 0
  /\ Len(imms) <= MaxImmutables
  /\ nextSeq \in Nat /\ visible \in Nat /\ covered \in Nat
  /\ token \in Callers \cup {Nobody}
  /\ wake \in BOOLEAN /\ changed \in BOOLEAN /\ asleep \in BOOLEAN
  /\ acked \subseteq Entry /\ born \subseteq Nat

\* The live tables hold exactly the log up to the frontier, and no entry
\* twice (STORAGE-66, STORAGE-67): replay neither loses nor repeats a write.
\* Tables of level 1 have disjoint keys, which the binary search relies on.
TablesAreThePrefix ==
  \A v \in {ver} \cup {vtail[i] : i \in DOMAIN vtail} :
    /\ Contents(Tables(v)) = LogPrefix(v.frontier)
    /\ \A t, u \in Tables(v) : t # u => t.ents \cap u.ents = {} /\ t.num # u.num
    /\ \A t, u \in v.l1 : t # u => ~RangesOverlap({t}, {u})

\* A read finds the newest entry of its key, and a scan that of every key, at
\* its sequence, in the tables it looks into, whatever was flushed, compacted
\* or reclaimed since it began (STORAGE-87, STORAGE-90, STORAGE-91); and a read
\* that begins now finds the whole log up to the visible sequence in tables,
\* immutables and the active table.
ReadsAreRight ==
  /\ \A r \in Readers : view[r].st = "captured" =>
       \A k \in view[r].keys : Selected(view[r], k)
                                 = Newest({e \in LogPrefix(view[r].target) : e.key = k})
  /\ up # "down" =>
       {e \in Contents(Tables(ver) \cup {active} \cup {imms[i] : i \in DOMAIN imms}) : e.seq <= visible}
         = LogPrefix(visible)

\* Files in use exist: live tables, captured tables, compaction inputs
\* (STORAGE-106).
NoFileInUseIsGone ==
  /\ Tables(ver) \subseteq files /\ job.inputs \subseteq files
  /\ \A r \in Readers : view[r].tables \subseteq files

Leases == {<<r, i>> \in Readers \X (1 .. MaxFile) : i \in DOMAIN view[r].leases}
Lease(x) == view[x[1]].leases[x[2]]

\* The cache retains at most its capacity, one reader for a file, and only of
\* files that are still there; a borrowed reader stays open, and its leases are
\* counted, so that it can be closed once the last one is back (STORAGE-113).
CacheIsStrict ==
  /\ Len(cache) <= CacheCapacity
  /\ \A i, j \in DOMAIN cache : cache[i].num = cache[j].num => i = j
  /\ \A i \in DOMAIN cache :
       /\ \E t \in files : t.num = cache[i].num
       /\ cache[i].refs = Cardinality({x \in Leases : Lease(x) = [num |-> cache[i].num, cached |-> TRUE]})
  /\ \A x \in Leases : Lease(x).cached => \E i \in DOMAIN cache : cache[i].num = Lease(x).num

\* A table is never written under a number that was used before, also by a
\* table that is gone (STORAGE-108); a retried flush rewrites its own.
NumbersAreFresh ==
  [][\A t \in files' \ files : t.num \notin born]_vars

\* The worker never sleeps beside a queued generation with nothing to wake it.
NoLostWakeup == asleep /\ imms # <<>> /\ imms[1].st = "Queued" => wake

\* The generations carry all applied indexes without a gap, so the table that
\* is next to be installed extends the frontier and InstallTable never returns
\* ErrReplicatedFrontierGap: no-ops applied between two generations, in any
\* order with rotations, belong to one.
NoFrontierGap ==
  imms # <<>> /\ imms[1].st = "Installing" => ~FrontierGap(ver, imms[1])

Wal(w) == INSTANCE WalFile WITH Block <- w.block, Header <- w.header, Size <- LAMBDA e : w.sizes[e.seq]

\* Wherever a crash cuts the WAL behind the last sync, Open finds the synced
\* records, and the last one exactly if it is complete, and goes on from there:
\* the tail is never taken for corruption, and the repaired log can be appended
\* to and read again.  The file depends on the records alone, so the engines
\* that have not written a table yet show every case.
WalSurvivesCrash ==
  up = "down" /\ mode = "standalone" /\ born = {} /\ log \o tail # <<>> =>
    \A w \in WalShapes :
      \A size \in Wal(w)!EndOf(Wal(w)!FileOf(log)) .. Wal(w)!EndOf(Wal(w)!FileOf(log \o tail)) :
        Wal(w)!Survives(log \o tail, Len(log), size)

DS == INSTANCE DurableStore WITH
        Entries <- [seq : 1 .. MaxSeq, key : Keys \cup {NoOp}],
        store <- Contents(Tables(ver)) \cup LogSuffix(ver.frontier),
        done <- acked

\* The engine implements DurableStore: what a crash would leave only grows,
\* and it holds every write that was answered.
ImplementsDurableStore == DS!DSSpec

\* Two places hold the newest entry of a key only while its generation is
\* handed over to its own file (STORAGE-93).
NoSpuriousDuplicate ==
  \A r \in Readers : view[r].st = "captured" =>
    \A k \in view[r].keys : \A e \in Selected(view[r], k) : Cardinality(FoundIn(view[r], e)) = 1
===========================================================================
