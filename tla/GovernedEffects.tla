-------------------------- MODULE GovernedEffects --------------------------
(***************************************************************************)
(* What the harness promises about effects and time, with no contracts, no *)
(* verdicts, no capabilities and no loop: an effect begins only while no   *)
(* health issue is recorded, its operation key is not committed and a slot *)
(* of the budget is free; it takes a lease, and is committed only before   *)
(* that lease ends; a lease nobody ends is over by itself.  A lease whose  *)
(* effect was performed, but whose completion could not be written, is     *)
(* lost: however many there are, they let one effect in beside the budget, *)
(* and only until their leases end.  Both the engine (HarnessEngine) and   *)
(* the worker loop (RunOnce) implement this module: the holders of leases  *)
(* are reservations there, passes here.                                    *)
(***************************************************************************)
EXTENDS Naturals, FiniteSets

CONSTANTS Holders, Keys, Concurrency, LeaseTTL, None

VARIABLES
    now,
    closed,      \* some health issue is recorded
    done,        \* operation keys committed
    work,        \* [Holders -> Keys \cup {None}], the effect under way
    lost,        \* holders whose lease outlives its effect, unwritten
    ends         \* [Holders -> Nat], the end of a lease that still holds, else 0

gvars == <<now, closed, done, work, lost, ends>>

Init == /\ now = 0
        /\ closed = FALSE
        /\ done = {}
        /\ work = [h \in Holders |-> None]
        /\ lost = {}
        /\ ends = [h \in Holders |-> 0]

Held == {h \in Holders : ends[h] # 0}

Slots == IF lost = {} THEN Concurrency ELSE Concurrency + 1

Begin(h, o) ==
    /\ ~closed
    /\ o \notin done
    /\ work[h] = None /\ ends[h] = 0
    /\ Cardinality(Held) < Slots
    /\ work' = [work EXCEPT ![h] = o]
    /\ ends' = [ends EXCEPT ![h] = now + LeaseTTL]
    /\ UNCHANGED <<now, closed, done, lost>>

Commit(h) ==
    /\ work[h] # None /\ ends[h] # 0
    /\ done' = done \cup {work[h]}
    /\ work' = [work EXCEPT ![h] = None]
    /\ ends' = [ends EXCEPT ![h] = 0]
    /\ UNCHANGED <<now, closed, lost>>

(* The effect is over and nothing is committed; when not even that can be  *)
(* recorded, the slot is kept until the lease ends.                        *)
Fail(h) ==
    /\ work[h] # None
    /\ work' = [work EXCEPT ![h] = None]
    /\ \/ ends' = [ends EXCEPT ![h] = 0] /\ lost' = lost
       \/ ends' = ends /\ lost' \in {lost, lost \cup {h}}
    /\ UNCHANGED <<now, closed, done>>

Tick ==
    /\ now' = now + 1
    /\ ends' = [h \in Holders |-> IF ends[h] > now' THEN ends[h] ELSE 0]
    /\ lost' = {h \in lost : ends'[h] # 0}
    /\ UNCHANGED <<closed, done, work>>

(* A crash forgets what was under way; leases are in the log.              *)
Forget ==
    /\ work' = [h \in Holders |-> None]
    /\ UNCHANGED <<now, closed, done, lost, ends>>

Close ==
    /\ closed' = TRUE
    /\ UNCHANGED <<now, done, work, lost, ends>>

Next ==
    \/ \E h \in Holders : \/ \E o \in Keys : Begin(h, o)
                          \/ Commit(h)
                          \/ Fail(h)
    \/ Tick \/ Forget \/ Close

Spec == Init /\ [][Next]_gvars
============================================================================
