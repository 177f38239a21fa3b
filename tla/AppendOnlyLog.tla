--------------------------- MODULE AppendOnlyLog ---------------------------
(***************************************************************************)
(* What the JSONL event store promises: one hash-linked log that grows one *)
(* line at a time, each line numbered and linked to the one before it,     *)
(* until a line is torn, after which nothing is ever added.                *)
(***************************************************************************)
EXTENDS Sequences, Integers

CONSTANTS Ids, None

VARIABLES log, torn

(* The line that continues a log l: its number and the previous line's id. *)
Link(l, id) == [id |-> id, seq |-> Len(l) + 1,
                prev |-> IF l = <<>> THEN None ELSE l[Len(l)].id]

Init == log = <<>> /\ torn = FALSE

Grow == /\ ~torn
        /\ \E id \in Ids : log' = Append(log, Link(log, id))
        /\ torn' = FALSE

Tear == torn' = TRUE /\ log' = log

Next == Grow \/ Tear

Spec == Init /\ [][Next]_<<log, torn>>
============================================================================
