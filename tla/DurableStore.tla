--------------------------- MODULE DurableStore ---------------------------
(***************************************************************************)
(* What a local RivetDB engine promises: a history of writes that only     *)
(* grows, in sequence order, and that holds every write it ever answered   *)
(* as done.  Flush, compaction, reclamation, a crash and recovery change   *)
(* nothing here.  Storage is shown to implement this specification.        *)
(***************************************************************************)
EXTENDS Naturals

CONSTANT Entries                \* what may be written, each with its seq

VARIABLES store,                \* the writes that survive a crash now
          done                  \* the writes reported to their callers

dsVars == <<store, done>>

DSTypeOK == store \subseteq Entries /\ done \subseteq Entries

DSInit == store = {} /\ done = {}

Record(e) ==
  /\ \A old \in store : old.seq < e.seq
  /\ store' = store \cup {e}
  /\ UNCHANGED done

Answer(e) ==
  /\ e \in store
  /\ done' = done \cup {e}
  /\ UNCHANGED store

DSNext == \E e \in Entries : Record(e) \/ Answer(e)

DSSpec == DSInit /\ [][DSNext]_dsVars
===========================================================================
