----------------------------- MODULE MCFileStore -----------------------------
(* Instances of FileStore for TLC: every kind of instrument in one run. *)
EXTENDS FileStore

AllKinds == {"fg", "sc", "cases", "hskp", "hf"}

\* Only CASES gets the last two packet times, and only in its first file: that may
\* pause for a day and be written on after it.
LastTicksForCases ==
    now' # now => now' <= MaxTime - 2 \/ (kind = "cases" /\ dt.path = 0)

StoreSpec == StoreInit /\ [][Next /\ LastTicksForCases]_vars /\ Fairness
=============================================================================
