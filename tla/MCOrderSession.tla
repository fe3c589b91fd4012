--------------------------- MODULE MCOrderSession ---------------------------
(***************************************************************************)
(* Two connections: of two clients, or of one client that is restarted.      *)
(***************************************************************************)
EXTENDS OrderSession

CONSTANTS k1, k2, c1, c2

MCConns == {k1, k2}
MCClientIds == {c1, c2}
MCOwners == {[k \in MCConns |-> c1], [k \in MCConns |-> IF k = k1 THEN c1 ELSE c2]}
=============================================================================
