---------------------------- MODULE ResumableLog ----------------------------
(***************************************************************************)
(* What the event streams promise: the journal grows at its end, entries   *)
(* are saved, and a mark from which the reader resumes is moved only over  *)
(* entries that are saved.  It may move back, which only repeats work.     *)
(***************************************************************************)
EXTENDS Naturals

VARIABLES written,  \* the journal holds the entries 1..written
          saved,    \* the entries that are in the database
          mark      \* where a reader resumes: after this entry

vars == <<written, saved, mark>>

SavedUpTo(n) == 1..n \subseteq saved

Init ==
    /\ written \in Nat
    /\ saved \in SUBSET (1..written)
    /\ mark \in 0..written
    /\ SavedUpTo(mark)

Append ==
    /\ written' = written + 1
    /\ UNCHANGED <<saved, mark>>

\* A batch continues a saved prefix; its rows and the mark are one commit.
SaveBatch(lo, hi) ==
    /\ SavedUpTo(lo - 1)
    /\ saved' = saved \cup (lo..hi)
    /\ mark' = hi
    /\ UNCHANGED written

\* Entries saved out of order leave the mark alone.
Backfill(S) ==
    /\ saved' = saved \cup S
    /\ UNCHANGED <<written, mark>>

Next ==
    \/ Append
    \/ \E lo \in 1..written : \E hi \in lo..written : SaveBatch(lo, hi)
    \/ \E S \in SUBSET (1..written) : Backfill(S)

Spec == Init /\ [][Next]_vars
=============================================================================
