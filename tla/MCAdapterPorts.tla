--------------------------- MODULE MCAdapterPorts ---------------------------
(***************************************************************************)
(* Small instances of AdapterPorts: three calls, numbered as they are made.*)
(***************************************************************************)
EXTENDS AdapterPorts

(* The ports share nothing but the calls, so calls of different ports do   *)
(* not meet: the calls of one behaviour are of one port.                   *)
PortOf(m) == IF m.kind \in {"load", "save"} THEN "state"
             ELSE IF m.kind \in {"put", "propose", "execute"} THEN m.kind ELSE "queue"

InOrder == \A c, d \in Calls :
    request'[d] # None /\ c < d =>
        request'[c] # None /\ PortOf(request'[c]) = PortOf(request'[d])

(* An abort by the caller is a timeout that comes from outside: one call   *)
(* may have it.                                                            *)
OneAbort == \A c \in Calls : signal'[c] = "aborted" => c = 1

MCSpec == Init /\ [][Next /\ InOrder /\ OneAbort]_vars
=============================================================================
