---------------------------- MODULE MCItemStore ----------------------------
(* Small instances of ItemStore for TLC. *)
EXTENDS ItemStore

CONSTANTS d1, d2, i1, p1, p2, s1, na, nb

\* References: every item has a name of its own.
OwnName == [u \in Uid |-> IF u = p2 THEN {nb} ELSE {na}]
\* Names: d2 is renamed, to a name of its own and to that of d1.
Renamed == [u \in Uid |-> IF u = d2 THEN {na, nb} ELSE {na}]
=============================================================================
