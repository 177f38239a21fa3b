----------------------------- MODULE MCEventLog -----------------------------
(***************************************************************************)
(* Small instances of EventLog.                                            *)
(***************************************************************************)
EXTENDS EventLog, TLC

(* The timing under which the lock does exclude: a contender that was told *)
(* EEXIST reads the lock file of a live process when it is complete, not   *)
(* before its creator wrote it and not after it was released; and what it  *)
(* judged stale it removes before anyone else moves.                       *)
ReadsCompleteLocks ==
    \A p \in Processes : pc[p] = "judge" /\ pc'[p] # "judge" =>
        lock # None /\ (lock.written \/ ~alive[lock.owner])

TakesOverAtOnce ==
    \A p \in Processes : At(p, "takeover") => ~At(p, "takeover")'

TimelySpec == Init /\ [][Next /\ ReadsCompleteLocks /\ TakesOverAtOnce]_vars

Symmetry == Permutations(Processes)
=============================================================================
