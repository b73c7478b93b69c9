------------------------------ MODULE MCFiles ------------------------------
(***************************************************************************)
(* The files of the items, on two small instances: who is let to them, and *)
(* what is written into them and read again.  The two share no state: part *)
(* says which of them moves, and the other stands still.                   *)
(***************************************************************************)
EXTENDS MCSerializerLock, Attributes

VARIABLE part
cvars == <<part, vars, avars>>

CONSTANTS ad, ap, aq, ai, as, grub, pxe, arm   \* Attributes

\* A distro, a profile, a profile below it, its system, and an image.  grub is built for every
\* architecture; a version that the signatures know has it only.
MCSortOf == [x \in Bootables |->
    IF x = ad THEN "distro" ELSE IF x = ai THEN "image" ELSE IF x = as THEN "system" ELSE "profile"]
MCFirstAbove == [x \in Bootables |->
    IF x = ap THEN ad ELSE IF x = aq THEN ap ELSE IF x = as THEN aq ELSE NoBootable]
MCPlaces == [x \in Bootables |->
    IF x = aq THEN {ap, ad} ELSE IF x = as THEN {ap, aq, ai} ELSE {}]
MCLoadersFor == [y \in Platforms, s \in BOOLEAN |->
    IF y = arm \/ s THEN {grub} ELSE {grub, pxe}]

Locks == part = "locks" /\ Next /\ UNCHANGED <<part, avars>>
Values == part = "values" /\ ANext /\ UNCHANGED <<part, vars>>
\* The values stop at their bounds; the locks are not to stop at all.
Exhausted == part = "values" /\ edits = MaxEdits /\ reloads = MaxReloads /\ UNCHANGED cvars

CInit ==
    /\ part \in {"locks", "values"}
    /\ Init /\ AInit /\ (part # "values" => option = NoKey)
CNext == Locks \/ Values \/ Exhausted

\* The fairness of FairSpec.
CSpec ==
    /\ CInit /\ [][CNext]_cvars
    /\ \A t \in Threads : WF_cvars(Locks /\ Work(t)) /\ SF_cvars(Locks /\ Granted(t))
=============================================================================
