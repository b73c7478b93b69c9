--------------------------- MODULE MCTransactions ---------------------------
(* Small instances of Transactions for TLC. *)
EXTENDS Transactions

CONSTANTS d1, p1, p2, na, nb, c1

\* p1 is renamed, to its own name or to another; a new item has one name.
NamesGiven == [u \in Uid |-> IF u = p1 THEN {nb} ELSE IF u = p2 THEN {na} ELSE {}]
\* p2 becomes a sub-profile of p1; p1 moves between the distros.
RefsGiven == [u \in Uid |-> IF u = p2 THEN {<<"parent", p1>>}
                            ELSE IF u = p1 THEN {<<"distro", d1>>} ELSE {}]

StartObj == [u \in Uid |->
    IF u = d1 THEN [Blank EXCEPT !.name = na]
    ELSE IF u = p1 THEN [Blank EXCEPT !.name = na, !.ref["distro"] = d1, !.depth = 1]
    ELSE Blank]
StartItems == {d1, p1}
=============================================================================
