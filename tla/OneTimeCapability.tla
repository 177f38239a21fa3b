------------------------- MODULE OneTimeCapability -------------------------
(***************************************************************************)
(* What the harness promises about each capability it issues, with no log, *)
(* no clock, no reservation ids and no health gate: a capability is leased *)
(* at most once, a lease ends in a commit or in a failure and both are     *)
(* terminal, and a commit is recorded only for an effect that was          *)
(* performed under the capability.  HarnessEngine implements this module.  *)
(***************************************************************************)
CONSTANT Capabilities

VARIABLES
    fate,        \* [Capabilities -> Fates]
    performed    \* capabilities whose executor has acted on the outside world

Fates == {"none", "issued", "leased", "committed", "failed"}

Init == /\ fate = [k \in Capabilities |-> "none"]
        /\ performed = {}

(* Any number of leases may end by themselves as part of any operation.    *)
Lapse(over) == [k \in Capabilities |-> IF k \in over THEN "failed" ELSE fate[k]]

(* One operation takes one capability from a fate to another.              *)
Becomes(over, k, old, new) ==
    /\ k \notin over
    /\ fate[k] = old
    /\ fate' = [Lapse(over) EXCEPT ![k] = new]

Operation(over) ==
    /\ \/ fate' = Lapse(over)
       \/ \E k \in Capabilities :
            \/ Becomes(over, k, "none", "issued")
            \/ Becomes(over, k, "issued", "leased")
            \/ k \in performed /\ Becomes(over, k, "leased", "committed")
    /\ UNCHANGED performed

(* A lease that ended does not stop an executor that is still running.     *)
Perform(k) ==
    /\ fate[k] \in {"leased", "failed"}
    /\ performed' = performed \cup {k}
    /\ UNCHANGED fate

Next ==
    \/ \E over \in SUBSET {k \in Capabilities : fate[k] = "leased"} : Operation(over)
    \/ \E k \in Capabilities : Perform(k)

Spec == Init /\ [][Next]_<<fate, performed>>
============================================================================
