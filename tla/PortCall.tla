------------------------------ MODULE PortCall ------------------------------
(***************************************************************************)
(* What a caller of a storage port may rely on, whatever happens to the    *)
(* connection: a call takes effect at most once; "ok" means it did,        *)
(* "refused" that it did not and never will; after "failed" it may have    *)
(* or may still.                                                           *)
(***************************************************************************)
CONSTANTS Calls

VARIABLES
    took,      \* calls that took effect on the store
    answer     \* what each caller was told: "none" as long as it waits

vars == <<took, answer>>

Init == took = {} /\ answer = [c \in Calls |-> "none"]

TakeEffect(c) == /\ c \notin took
                 /\ answer[c] \in {"none", "failed"}
                 /\ took' = took \cup {c}
                 /\ UNCHANGED answer

Answer(c, a) == /\ answer[c] = "none"
                /\ a = "ok" => c \in took
                /\ a = "refused" => c \notin took
                /\ answer' = [answer EXCEPT ![c] = a]
                /\ UNCHANGED took

Next == \E c \in Calls : TakeEffect(c) \/ \E a \in {"ok", "refused", "failed"} : Answer(c, a)

Spec == Init /\ [][Next]_vars
============================================================================
