------------------------------ MODULE MCAudit ------------------------------
(***************************************************************************)
(* A small instance of Audit: two runs in one directory, two releases of   *)
(* the kit.                                                                *)
(***************************************************************************)
EXTENDS Audit

Signed == [signing |-> "both", key |-> "fits", subject |-> "derived",
           independence |-> "same_principal", principal |-> "none", cwd |-> "plain"]

(* Unsigned, signed, signed with a key the DID document does not list,     *)
(* signed as a third party with and without the principal it must name,    *)
(* and started where another kit lies.                                     *)
MCOptions ==
    { [Signed EXCEPT !.signing = "none"], Signed, [Signed EXCEPT !.key = "other"],
      [Signed EXCEPT !.independence = "third_party", !.subject = "named"],
      [Signed EXCEPT !.independence = "third_party", !.subject = "named",
                     !.principal = "named"],
      [Signed EXCEPT !.cwd = "has_kit"] }

(* From the first release to the second one file is kept, one changes, one *)
(* goes and one comes.                                                     *)
MCGenerated ==
    [v1 |-> [kept |-> "same", changed |-> "old", gone |-> "old", new |-> None],
     v2 |-> [kept |-> "same", changed |-> "new", gone |-> None, new |-> "new"]]

(* Runs and a verification overlap freely.  What a sync or an edit in the  *)
(* middle of a run spoils is all behind `calm`, so these keep to the       *)
(* pauses (a sync may still stop half way).                                *)
SyncAndEditApart == (sync # None \/ <<snapshot, tree>>' # <<snapshot, tree>>) => calm'

MCSpec == Init /\ [][Next /\ SyncAndEditApart]_vars
============================================================================
