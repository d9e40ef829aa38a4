----------------------------- MODULE TableCache -----------------------------
(***************************************************************************)
(* The cache of open SSTable readers (internal/storage/engine,             *)
(* table_cache.go).  A cache is the sequence of retained entries, the most *)
(* recently used first; an entry is the file number of its table, the      *)
(* number of leases that borrow its reader, and whether its file is to be  *)
(* deleted.  A lease is the file number with whether the reader is a       *)
(* retained one: a reader that found no room is closed with its lease.     *)
(***************************************************************************)
EXTENDS Naturals, Sequences, SequencesExt, FiniteSetsExt

CONSTANT Capacity   \* Options.TableCacheCapacity

Idle(c) == {i \in DOMAIN c : c[i].refs = 0}
Of(c, num) == {i \in DOMAIN c : c[i].num = num}

\* Mutant: the least recently used entry goes, borrowed or not.
EvictOldest(c) == IF c = <<>> THEN c ELSE Front(c)

\* The least recently used idle entry is closed, if there is one.
EvictOneIdle(c) == IF Idle(c) = {} THEN c ELSE RemoveAt(c, Max(Idle(c)))

Hit(c, num) == {i \in Of(c, num) : ~c[i].obsolete}

\* A table that is not cached makes room before its file is opened, also when
\* that fails.
MakeRoom(c, num) ==
  IF Hit(c, num) = {} /\ Len(c) >= Capacity THEN EvictOneIdle(c) ELSE c

\* The cache and the lease after a successful acquire.
Acquire(c, num) ==
  LET room == MakeRoom(c, num)
      i    == Min(Hit(c, num))
  IN  CASE Hit(c, num) # {} ->
             [cache |-> <<[c[i] EXCEPT !.refs = @ + 1]>> \o RemoveAt(c, i),
              lease |-> [num |-> num, cached |-> TRUE]]
        [] Hit(c, num) = {} /\ Len(room) >= Capacity ->
             [cache |-> room, lease |-> [num |-> num, cached |-> FALSE]]
        [] OTHER ->
             [cache |-> <<[num |-> num, refs |-> 1, obsolete |-> FALSE]>> \o room,
              lease |-> [num |-> num, cached |-> TRUE]]

\* The last lease of an entry whose file is to be deleted closes its reader.
Release(c, lease) ==
  IF ~lease.cached THEN c
  ELSE LET i == Min(Of(c, lease.num))
           d == [c EXCEPT ![i].refs = @ - 1]
       IN  IF d[i].refs = 0 /\ d[i].obsolete THEN RemoveAt(d, i) ELSE d

\* What is left when the file is to be deleted, and whether it may be.
Evict(c, num) ==
  LET i == Min(Of(c, num))
  IN  CASE Of(c, num) = {} -> [cache |-> c, evicted |-> TRUE]
        [] Of(c, num) # {} /\ c[i].refs = 0 -> [cache |-> RemoveAt(c, i), evicted |-> TRUE]
        [] OTHER -> [cache |-> [c EXCEPT ![i].obsolete = TRUE], evicted |-> FALSE]

\* Close drops every idle entry; a borrowed one goes with its last lease.
Close(c) ==
  LET borrowed == SelectSeq(c, LAMBDA e : e.refs # 0)
  IN  [i \in DOMAIN borrowed |-> [borrowed[i] EXCEPT !.obsolete = TRUE]]
===========================================================================
