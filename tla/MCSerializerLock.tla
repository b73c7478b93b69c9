-------------------------- MODULE MCSerializerLock --------------------------
(* Small instances of SerializerLock for TLC. *)
EXTENDS SerializerLock

CONSTANTS a, b, c, p, q, i1, i2, h1, h2, h3, h4

\* One thread per process.
OneEach == [t \in Threads |-> IF t = a THEN p ELSE q]
\* Two threads of one process, and a second process.
TwoInP == [t \in Threads |-> IF t = c THEN q ELSE p]
=============================================================================
