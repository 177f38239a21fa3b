----------------------------- MODULE MCRunOnce -----------------------------
(***************************************************************************)
(* Small instances of RunOnce.  The worker's answers: two contents "a" and *)
(* "b" of one proposal "p", a third one no adapter takes, an escalation.   *)
(* Time is counted in half minutes: lease and capability 1, verdict 2.     *)
(***************************************************************************)
EXTENDS RunOnce, TLC

MCIdOf  == [x \in Contents |-> IF x \in {"a", "b", "q"} THEN "p" ELSE x]
MCKeyOf == [x \in Contents |-> x]
MCWorklists == {<<"a", "q", "a">>, <<"e", "b">>}

(* The operator's controls move in the first half minute.                  *)
EarlyOperator == now > 0 => UNCHANGED operator
MCSpec == Init /\ [][Next /\ EarlyOperator]_vars

Symmetry == Permutations(Passes)
============================================================================
