------------------------------ MODULE MCDaemon ------------------------------
(***************************************************************************)
(* The threads of the daemon, on three small instances that TLC explores   *)
(* one beside the other: lazy loading, the tables of the interface, and    *)
(* one collection.  They share no state, so that no behaviour is lost when *)
(* part says which of them moves, and the others stand still.              *)
(***************************************************************************)
EXTENDS LoadItems, Sessions, CollectionThreads

VARIABLE part
Parts == {"load", "sessions", "collection"}
dvars == <<part, lvars, svars, tvars>>

CONSTANTS top, sub, bad, e1, e2, w1, w2

\* A profile, a sub-profile of it, and one whose file is broken.
MCFirstParent == [i \in Items |-> IF i = sub THEN top ELSE Nil]
MCListing == <<top, bad, sub>>
MCEdits == {<<sub, Nil>>, <<top, bad>>}
\* Each item is edited by one thread; all threads search.
MCClients == [u \in Elements |-> IF u = e1 THEN {w1} ELSE {w2}]

Load1 == part = "load" /\ LNext /\ UNCHANGED <<part, svars, tvars>>
Sessions1 == part = "sessions" /\ SNext /\ UNCHANGED <<part, lvars, tvars>>
Collection1 == part = "collection" /\ TNext /\ UNCHANGED <<part, lvars, svars>>

DInit == part \in Parts /\ LInit /\ SInit /\ TInit
DNext == Load1 \/ Sessions1 \/ Collection1

\* The fairness of FairLSpec and FairSSpec.
DSpec ==
    /\ DInit /\ [][DNext]_dvars
    /\ \A r \in Requests : WF_dvars(Load1 /\ Proceed(r))
    /\ \A t \in Threads : WF_dvars(Load1 /\ Load(t)) /\ SF_dvars(Load1 /\ FromDictAssigns(t))
    /\ WF_dvars(Load1 /\ LoaderStep) /\ SF_dvars(Load1 /\ LoaderAcquires)
    /\ \A k \in Tasks : WF_dvars(Sessions1 /\ TaskStep(k))

\* The loader comes to an end, whatever the requests do.
LoaderTerminates == part = "load" ~> pc[Loader] = "ended"
=============================================================================
