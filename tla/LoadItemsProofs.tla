--------------------------- MODULE LoadItemsProofs ---------------------------
(***************************************************************************)
(* Proofs about LoadItems, for any number of items, requests and edits and *)
(* any parents in the files: no permit is lost, nobody loads an item under *)
(* the lock of the collection, and a collection that counts as loaded has  *)
(* no stub that nobody loads.                                              *)
(***************************************************************************)
EXTENDS LoadItems, FiniteSetTheorems, TLAPS

Sound == Items \ Broken

\* A thread is about to assign the attributes of i: nothing can stop it from that.
Assigning(t, i) == Loading(t) /\ Top(t).item = i /\ Top(t).step = "assign"
Safe(i) == i \in inmemory \/ \E t \in Threads : Assigning(t, i)
InFrames(t, i) == \E n \in DOMAIN stack[t] : stack[t][n].item = i
Left(t) == {work[t].todo[n] : n \in DOMAIN work[t].todo}

\* Where threads are, and where they are when they load.
Placed(t) ==
    /\ pc[t] \in IF t = Loader THEN {"wait", "hold", "ended"}
                ELSE {"idle", "work", "sweep", "search", "index", "leave"}
    /\ Loading(t) => pc[t] \in {"work", "sweep", "hold"}
    /\ pc[t] = "hold" /\ work[t].item = Nil => work[t].todo # <<>>
Places == \A t \in Threads : Placed(t)

\* What a nested call of deserialize was made for is the parent of the call below.
FrameKnown(t, n) ==
    LET f == stack[t][n]
    IN  /\ f.step # "read" => f.item \notin Broken
        /\ f.step # "read" => \/ f.dict = Nil \/ ~NeedsLoad(f.dict)
                              \/ n < Len(stack[t]) /\ stack[t][n + 1].item = f.dict
        /\ f.step = "restore" => f.item \in inmemory
        /\ n < Len(stack[t]) => f.step = "begin"
Stacks ==
    /\ \A t \in Threads : \A n \in 1..Len(stack[t]) : FrameKnown(t, n)
    /\ \A i \in Sound : i \notin ready => Safe(i)

\* What an item refers to is loaded, or being loaded, or cannot be.
ParentsKnown == \A i \in Items : parent[i] = Nil \/ ~NeedsLoad(parent[i])

LockQuiet == lock # Nil => pc[lock] = "index"

\* A thread that goes through the listing leaves nothing behind.
Swept(t) ==
    pc[t] \in {"sweep", "wait", "hold"} =>
        \A i \in Sound : i \in Left(t) \/ Safe(i) \/ InFrames(t, i)
Sweeps ==
    /\ \A t \in Threads : Swept(t)
    /\ collLoaded => \A i \in Sound : Safe(i)

Permits == IsFiniteSet(Holding) /\ (permits >= 1 \/ Holding # {})

IInv == LTypeOK /\ Places /\ Stacks /\ ParentsKnown /\ LockQuiet /\ Sweeps /\ Permits

LEMMA InitInv == LInit => IInv
<1> SUFFICES ASSUME LInit PROVE IInv
  OBVIOUS
<1>1. NoWork \in Work /\ [NoWork EXCEPT !.todo = Listing] \in Work
  BY LoadAssumption DEF NoWork, Work, Operations
<1>2. LTypeOK
  <2>1. pc \in [Threads -> Points]
    BY DEF LInit, Points
  <2>2. work \in [Threads -> Work]
    BY <1>1 DEF LInit
  <2>3. stack \in [Threads -> Seq(Frame)]
    BY DEF LInit
  <2>4. parent \in [Items -> Items \cup {Nil}] /\ file \in [Items -> Items \cup {Nil}]
    BY LoadAssumption DEF LInit
  <2> QED
    BY <2>1, <2>2, <2>3, <2>4 DEF LInit, LTypeOK
<1>3. \A t \in Threads : ~Loading(t)
  BY DEF LInit, Loading
<1>4. Places
  BY <1>3, LoadAssumption DEF LInit, Places, Placed, Threads
<1>5. Stacks
  BY DEF LInit, Stacks, Sound
<1>6. ParentsKnown /\ LockQuiet
  BY DEF LInit, ParentsKnown, LockQuiet
<1>7. Sweeps
  <2>1. Left(Loader) = Items
    BY LoadAssumption DEF LInit, Left, Threads, NoWork
  <2> QED
    BY <2>1, LoadAssumption DEF LInit, Sweeps, Swept, Sound, Threads
<1>8. Permits
  <2>1. Holding = {}
    BY LoadAssumption DEF LInit, Holding, Threads
  <2> QED
    BY <2>1, FS_EmptySet DEF LInit, Permits
<1> QED
  BY <1>2, <1>4, <1>5, <1>6, <1>7, <1>8 DEF IInv

-----------------------------------------------------------------------------
(* What every step keeps                                                   *)

\* Whether x is a stub after the step.
NeedsLoadNext(x) == x \notin inmemory' /\ x \in ready'

\* A step goes forward if items stay in memory, what needs no load never will again,
\* and what is safe stays safe.
Forward ==
    /\ inmemory \subseteq inmemory'
    /\ \A i \in Items : ~NeedsLoad(i) => ~NeedsLoadNext(i)
    /\ \A i \in Sound : Safe(i) => Safe(i)'

LEMMA Unmoved ==
    ASSUME UNCHANGED <<inmemory, ready, stack>>
    PROVE  Forward /\ (Stacks => Stacks') /\ \A t, i : InFrames(t, i) => InFrames(t, i)'
<1>1. \A i : (NeedsLoad(i) <=> NeedsLoad(i)') /\ (Safe(i) <=> Safe(i)')
  BY DEF NeedsLoad, Safe, Assigning, Loading, Top
<1>2. Forward
  BY <1>1 DEF Forward, NeedsLoad, NeedsLoadNext
<1>3. \A t, n : FrameKnown(t, n) <=> FrameKnown(t, n)'
  BY <1>1 DEF FrameKnown
<1> QED
  BY <1>1, <1>2, <1>3 DEF Stacks, InFrames

LEMMA One ==
    ASSUME NEW S, NEW e \in S
    PROVE  /\ <<e>> \in Seq(S) /\ Len(<<e>>) = 1 /\ <<e>>[1] = e /\ DOMAIN <<e>> = {1}
           /\ 1..Len(<<e>>) = {1}
OBVIOUS

\* A thread that loads nothing begins with an item.
LEMMA Pushed ==
    ASSUME LTypeOK, Stacks, NEW t \in Threads, ~Loading(t), NEW i, UNCHANGED <<inmemory, ready>>,
           stack' = [stack EXCEPT ![t] = Push(@, i)]
    PROVE  /\ Forward /\ Stacks' /\ stack' \in [Threads -> Seq(Frame)]
           /\ \A s \in Threads : s # t => stack'[s] = stack[s]
           /\ \A s \in Threads : \A j : InFrames(s, j) => InFrames(s, j)'
           /\ i \in ready => InFrames(t, i)'
           /\ i \notin ready => ~Loading(t)'
           /\ Loading(t)' => i \in ready
<1>1. CASE i \notin ready
  <2>1. stack' = stack
    BY <1>1 DEF Push, LTypeOK
  <2>2. Forward /\ Stacks' /\ \A s, j : InFrames(s, j) => InFrames(s, j)'
    BY <2>1, Unmoved
  <2> QED
    BY <1>1, <2>1, <2>2 DEF LTypeOK, Loading
<1>2. CASE i \in ready
  <2> DEFINE f == NewFrame(i)
  <2>1. f \in Frame /\ f.step = "read" /\ f.item = i
    BY <1>2 DEF NewFrame, Frame, LTypeOK
  <2> HIDE DEF f
  <2>2. /\ stack' = [stack EXCEPT ![t] = <<f>>] /\ stack[t] = <<>>
        /\ stack'[t] = <<f>> /\ \A s \in Threads : s # t => stack'[s] = stack[s]
    <3>1. stack[t] = <<>> /\ Append(<<>>, f) = <<f>>
      BY DEF Loading
    <3>2. Push(stack[t], i) = <<f>>
      BY <1>2, <3>1 DEF Push, f
    <3> QED
      BY <3>1, <3>2 DEF LTypeOK
  <2>3. /\ stack'[t] \in Seq(Frame) /\ Len(stack'[t]) = 1 /\ stack'[t][1] = f
        /\ DOMAIN stack'[t] = {1} /\ 1..Len(stack'[t]) = {1}
    <3>1. /\ <<f>> \in Seq(Frame) /\ Len(<<f>>) = 1 /\ <<f>>[1] = f
          /\ DOMAIN <<f>> = {1} /\ 1..Len(<<f>>) = {1}
      BY <2>1, One
    <3>2. stack'[t] = <<f>>
      BY <2>2
    <3> QED
      BY <3>1, <3>2
  <2>3a. stack' \in [Threads -> Seq(Frame)]
    BY <2>1, <2>2, <2>3 DEF LTypeOK
  <2>4. \A s \in Threads : \A j : Assigning(s, j) => Assigning(s, j)'
    BY <2>2 DEF Assigning, Loading, Top
  <2>5. Forward
    BY <2>4 DEF Forward, NeedsLoad, NeedsLoadNext, Safe
  <2>6. ASSUME NEW s \in Threads, NEW n \in 1..Len(stack'[s])
        PROVE  FrameKnown(s, n)'
    <3>1. CASE s = t
      <4>1. n = 1 /\ stack'[s][n] = f /\ ~(n < Len(stack'[s]))
        BY <2>3, <2>6, <3>1
      <4>2. stack'[s][n].step = "read"
        BY <2>1, <4>1
      <4> QED
        BY <4>1, <4>2 DEF FrameKnown
    <3>2. CASE s # t
      <4>1. FrameKnown(s, n)
        BY <2>2, <3>2, <2>6 DEF Stacks
      <4> QED
        BY <2>2, <3>2, <4>1 DEF FrameKnown, NeedsLoad
    <3> QED
      BY <3>1, <3>2
  <2>7. Stacks'
    BY <2>5, <2>6 DEF Stacks, Forward
  <2>8. \A s \in Threads : \A j : InFrames(s, j) => InFrames(s, j)'
    BY <2>2 DEF InFrames
  <2>9. InFrames(t, i)' /\ Loading(t)'
    BY <2>1, <2>3 DEF InFrames, Loading
  <2> QED
    BY <1>2, <2>2, <2>3a, <2>5, <2>7, <2>8, <2>9
<1> QED
  BY <1>1, <1>2

-----------------------------------------------------------------------------
(* Loading                                                                 *)

LEMMA Replaced ==
    ASSUME NEW s \in Seq(Frame), s # <<>>, NEW f \in Frame
    PROVE  LET r == [s EXCEPT ![Len(s)] = f]
           IN  /\ r \in Seq(Frame) /\ r # <<>> /\ Len(r) = Len(s)
               /\ r[Len(s)] = f /\ \A n \in 1..Len(s) : n # Len(s) => r[n] = s[n]
               /\ DOMAIN r = 1..Len(s) /\ DOMAIN s = 1..Len(s) /\ Len(s) \in 1..Len(s)
OBVIOUS

\* A call goes on: the top frame of t is replaced by f.
LEMMA TopChanges ==
    ASSUME LTypeOK, NEW t \in Threads, Loading(t), NEW f \in Frame, f.item = Top(t).item,
           stack' = Step(t, f)
    PROVE  /\ stack' \in [Threads -> Seq(Frame)]
           /\ \A s \in Threads : s # t => stack'[s] = stack[s]
           /\ Len(stack'[t]) = Len(stack[t]) /\ Len(stack[t]) \in 1..Len(stack[t])
           /\ stack'[t][Len(stack[t])] = f
           /\ \A n \in 1..Len(stack[t]) : n # Len(stack[t]) => stack'[t][n] = stack[t][n]
           /\ \A n \in 1..Len(stack[t]) : stack'[t][n].item = stack[t][n].item
           /\ \A s \in Threads : \A i : InFrames(s, i) <=> InFrames(s, i)'
           /\ \A i : Assigning(t, i)' <=> f.item = i /\ f.step = "assign"
           /\ \A s \in Threads : \A i : s # t => (Assigning(s, i)' <=> Assigning(s, i))
<1> DEFINE old == stack[t]
           new == [old EXCEPT ![Len(old)] = f]
<1>1. old \in Seq(Frame) /\ old # <<>> /\ f.item = old[Len(old)].item
  BY DEF LTypeOK, Loading, Top
<1>2. /\ stack' = [stack EXCEPT ![t] = new] /\ stack'[t] = new
      /\ \A s \in Threads : s # t => stack'[s] = stack[s]
  BY DEF LTypeOK, Step
<1>3. /\ new \in Seq(Frame) /\ new # <<>> /\ Len(new) = Len(old)
      /\ new[Len(old)] = f /\ \A n \in 1..Len(old) : n # Len(old) => new[n] = old[n]
      /\ DOMAIN new = 1..Len(old) /\ DOMAIN old = 1..Len(old) /\ Len(old) \in 1..Len(old)
  BY <1>1, Replaced
<1> HIDE DEF new
<1>4. stack' \in [Threads -> Seq(Frame)]
  BY <1>2, <1>3 DEF LTypeOK
<1>5. \A n \in 1..Len(old) : new[n].item = old[n].item
  BY <1>1, <1>3
<1>6. \A s \in Threads : \A i : InFrames(s, i) <=> InFrames(s, i)'
  BY <1>2, <1>3, <1>5 DEF InFrames
<1>7. \A i : Assigning(t, i)' <=> f.item = i /\ f.step = "assign"
  BY <1>2, <1>3 DEF Assigning, Loading, Top
<1>8. \A s \in Threads : \A i : s # t => (Assigning(s, i)' <=> Assigning(s, i))
  BY <1>2 DEF Assigning, Loading, Top
<1> QED
  BY <1>2, <1>3, <1>4, <1>5, <1>6, <1>7, <1>8

\* The frames below the top are as they were, and so are those of other threads.
LEMMA OthersKnown ==
    ASSUME LTypeOK, Stacks, NEW s \in Threads,
           \A i \in Items : ~NeedsLoad(i) => ~NeedsLoadNext(i),
           inmemory \subseteq inmemory',
           NEW n \in 1..Len(stack[s]), stack'[s][n] = stack[s][n],
           n < Len(stack'[s]) <=> n < Len(stack[s]),
           n < Len(stack[s]) => stack'[s][n + 1].item = stack[s][n + 1].item
    PROVE  FrameKnown(s, n)'
<1>1. FrameKnown(s, n) /\ stack[s][n] \in Frame
  BY DEF Stacks, LTypeOK
<1> DEFINE g == stack[s][n]
<1>2. g.dict \in Items \cup {Nil}
  BY <1>1 DEF Frame
<1>3. g.step # "read" => g.item \notin Broken
  BY <1>1 DEF FrameKnown
<1>4. g.step # "read" => \/ g.dict = Nil \/ ~NeedsLoadNext(g.dict)
                         \/ n < Len(stack'[s]) /\ stack'[s][n + 1].item = g.dict
  BY <1>1, <1>2 DEF FrameKnown
<1>5. g.step = "restore" => g.item \in inmemory'
  BY <1>1 DEF FrameKnown
<1>6. n < Len(stack'[s]) => g.step = "begin"
  BY <1>1 DEF FrameKnown
<1> QED
  BY <1>3, <1>4, <1>5, <1>6 DEF FrameKnown, NeedsLoad, NeedsLoadNext

\* What a step of one call leaves: the others know their frames, too.
LEMMA StepKnown ==
    ASSUME LTypeOK, Stacks, NEW t \in Threads, Loading(t), NEW f \in Frame, f.item = Top(t).item,
           stack' = Step(t, f), f.step # "read" => f.item \notin Broken,
           f.step # "read" => f.dict = Nil \/ ~NeedsLoadNext(f.dict),
           f.step = "restore" => f.item \in inmemory',
           Forward, \A i \in Sound : i \notin ready' => Safe(i)'
    PROVE  Stacks'
<1>0. /\ Len(stack'[t]) = Len(stack[t]) /\ Len(stack[t]) \in Nat
      /\ stack'[t][Len(stack[t])] = f
      /\ \A n \in 1..Len(stack[t]) : n # Len(stack[t]) => stack'[t][n] = stack[t][n]
      /\ \A n \in 1..Len(stack[t]) : stack'[t][n].item = stack[t][n].item
      /\ \A s \in Threads : s # t => stack'[s] = stack[s]
  BY TopChanges DEF LTypeOK
<1>1. ASSUME NEW s \in Threads, NEW n \in 1..Len(stack'[s])
      PROVE  FrameKnown(s, n)'
  <2>1. CASE s = t /\ n = Len(stack[t])
    <3>1. stack'[s][n] = f /\ ~(n < Len(stack'[s]))
      BY <1>0, <2>1
    <3> QED
      BY <3>1 DEF FrameKnown, NeedsLoad, NeedsLoadNext
  <2>2. CASE s = t /\ n # Len(stack[t])
    <3>1. /\ n \in 1..Len(stack[s]) /\ stack'[s][n] = stack[s][n]
          /\ n < Len(stack[s]) => n + 1 \in 1..Len(stack[s])
          /\ Len(stack'[s]) = Len(stack[s])
      BY <1>0, <1>1, <2>2
    <3>2. n < Len(stack[s]) => stack'[s][n + 1].item = stack[s][n + 1].item
      BY <1>0, <2>2, <3>1
    <3> QED
      BY <3>1, <3>2, OthersKnown DEF Forward
  <2>3. CASE s # t
    BY <1>0, <1>1, <2>3, OthersKnown DEF Forward
  <2> QED
    BY <2>1, <2>2, <2>3
<1> QED
  BY <1>1 DEF Stacks

\* What a thread has begun to load stays begun until it is safe.
Kept(s) == \A i \in Sound : InFrames(s, i) => InFrames(s, i)' \/ Safe(i)'

LEMMA ParentsStayKnown ==
    ASSUME LTypeOK, ParentsKnown, Forward,
           \A i \in Items : parent'[i] = parent[i] \/ parent'[i] = Nil \/ ~NeedsLoadNext(parent'[i])
    PROVE  ParentsKnown'
<1> SUFFICES ASSUME NEW i \in Items, parent'[i] # Nil, parent'[i] = parent[i]
             PROVE  ~NeedsLoadNext(parent'[i])
  BY DEF ParentsKnown, NeedsLoad, NeedsLoadNext
<1>1. parent[i] \in Items /\ ~NeedsLoad(parent[i])
  BY DEF ParentsKnown, LTypeOK
<1> QED
  BY <1>1 DEF Forward

LEMMA TopTyped ==
    ASSUME LTypeOK, NEW t \in Threads, Loading(t)
    PROVE  /\ Top(t) \in Frame /\ Top(t).item \in Items /\ Top(t).dict \in Items \cup {Nil}
           /\ Len(stack[t]) \in 1..Len(stack[t]) /\ stack[t] \in Seq(Frame)
<1>1. stack[t] \in Seq(Frame) /\ stack[t] # <<>>
  BY DEF LTypeOK, Loading
<1>2. Len(stack[t]) \in 1..Len(stack[t]) /\ stack[t][Len(stack[t])] \in Frame
  BY <1>1
<1> QED
  BY <1>1, <1>2 DEF Top, Frame

LEMMA TopKnown ==
    ASSUME LTypeOK, Stacks, NEW t \in Threads, Loading(t)
    PROVE  /\ Top(t).step # "read" => Top(t).item \notin Broken
           /\ Top(t).step # "read" => Top(t).dict = Nil \/ ~NeedsLoad(Top(t).dict)
           /\ Top(t).step = "restore" => Top(t).item \in inmemory
<1>1. Len(stack[t]) \in 1..Len(stack[t]) /\ ~(Len(stack[t]) < Len(stack[t]))
  BY TopTyped
<1>2. FrameKnown(t, Len(stack[t]))
  BY <1>1 DEF Stacks
<1> QED
  BY <1>1, <1>2 DEF FrameKnown, Top

LEMMA FromDictBeginsKeeps ==
    ASSUME LTypeOK, Stacks, ParentsKnown, NEW t \in Threads, FromDictBegins(t)
    PROVE  /\ LTypeOK' /\ Forward /\ Stacks' /\ ParentsKnown' /\ Loading(t)
           /\ \A s \in Threads : Kept(s)
<1> DEFINE i == Top(t).item
           f == [Top(t) EXCEPT !.step = "assign", !.old = i \in ready]
<1>1. /\ Loading(t) /\ Top(t).step = "begin" /\ ready' = ready \ {i} /\ stack' = Step(t, f)
      /\ UNCHANGED <<parent, inmemory, file, flags, permits, pc, work>>
  BY DEF FromDictBegins
<1>2. /\ f \in Frame /\ f.item = i /\ f.step = "assign" /\ f.dict = Top(t).dict
      /\ i \in Items /\ f.dict \in Items \cup {Nil}
  <2>1. Top(t) \in Frame /\ i \in Items /\ Top(t).dict \in Items \cup {Nil}
    BY <1>1, TopTyped
  <2> DEFINE o == i \in ready
  <2>2. o \in BOOLEAN
    OBVIOUS
  <2> HIDE DEF o
  <2>3. [Top(t) EXCEPT !.step = "assign", !.old = o] \in Frame
    BY <2>1, <2>2 DEF Frame
  <2> QED
    BY <2>1, <2>3 DEF o, Frame
<1>3. i \notin Broken /\ (f.dict = Nil \/ ~NeedsLoad(f.dict))
  BY <1>1, <1>2, TopKnown
<1> HIDE DEF f
<1>4. /\ stack' \in [Threads -> Seq(Frame)]
      /\ \A s \in Threads : \A j : InFrames(s, j) <=> InFrames(s, j)'
      /\ \A j : Assigning(t, j)' <=> f.item = j /\ f.step = "assign"
      /\ \A s \in Threads : \A j : s # t => (Assigning(s, j)' <=> Assigning(s, j))
  BY <1>1, <1>2, TopChanges
<1>5. LTypeOK'
  BY <1>1, <1>4 DEF LTypeOK, flags
<1>6. \A j : ~Assigning(t, j)
  BY <1>1 DEF Assigning
<1>7. \A j \in Items : ~NeedsLoad(j) => ~NeedsLoadNext(j)
  BY <1>1 DEF NeedsLoad, NeedsLoadNext
<1>8. Forward
  BY <1>1, <1>4, <1>6, <1>7 DEF Forward, Safe
<1>9. \A j \in Sound : j \notin ready' => Safe(j)'
  <2> SUFFICES ASSUME NEW j \in Sound, j \notin ready' PROVE Safe(j)'
    OBVIOUS
  <2>1. CASE j = i
    BY <1>2, <1>4, <2>1 DEF Safe
  <2>2. CASE j # i
    BY <1>1, <1>8, <2>2 DEF Forward, Stacks
  <2> QED
    BY <2>1, <2>2
<1>10. f.dict = Nil \/ ~NeedsLoadNext(f.dict)
  BY <1>2, <1>3, <1>7
<1>11. Stacks'
  BY <1>1, <1>2, <1>3, <1>8, <1>9, <1>10, StepKnown
<1>12. ParentsKnown'
  BY <1>1, <1>8, ParentsStayKnown
<1> QED
  BY <1>1, <1>4, <1>5, <1>8, <1>11, <1>12 DEF Kept

LEMMA FromDictAssignsKeeps ==
    ASSUME LTypeOK, Stacks, ParentsKnown, NEW t \in Threads, FromDictAssigns(t)
    PROVE  /\ LTypeOK' /\ Forward /\ Stacks' /\ ParentsKnown' /\ Loading(t)
           /\ \A s \in Threads : Kept(s)
<1> DEFINE i == Top(t).item
           d == Top(t).dict
           f == [Top(t) EXCEPT !.step = "restore"]
<1>1. /\ Loading(t) /\ Top(t).step = "assign" /\ parent' = [parent EXCEPT ![i] = d]
      /\ inmemory' = inmemory \cup {i} /\ stack' = Step(t, f)
      /\ UNCHANGED <<ready, file, flags, permits, pc, work>>
  BY DEF FromDictAssigns
<1>2. /\ f \in Frame /\ f.item = i /\ f.step = "restore" /\ f.dict = d
      /\ i \in Items /\ d \in Items \cup {Nil}
  BY <1>1, TopTyped DEF Frame
<1>3. i \notin Broken /\ (d = Nil \/ ~NeedsLoad(d))
  BY <1>1, <1>2, TopKnown
<1> HIDE DEF f, d
<1>4. /\ stack' \in [Threads -> Seq(Frame)]
      /\ \A s \in Threads : \A j : InFrames(s, j) <=> InFrames(s, j)'
      /\ \A s \in Threads : \A j : s # t => (Assigning(s, j)' <=> Assigning(s, j))
  BY <1>1, <1>2, TopChanges
<1>5. LTypeOK'
  BY <1>1, <1>2, <1>4 DEF LTypeOK, flags
<1>6. \A j : Assigning(t, j) => j = i
  BY DEF Assigning
<1>7. \A j \in Items : ~NeedsLoad(j) => ~NeedsLoadNext(j)
  BY <1>1 DEF NeedsLoad, NeedsLoadNext
<1>8. Forward
  BY <1>1, <1>4, <1>6, <1>7 DEF Forward, Safe
<1>9. \A j \in Sound : j \notin ready' => Safe(j)'
  BY <1>1, <1>8 DEF Stacks, Forward
<1>10. d = Nil \/ ~NeedsLoadNext(d)
  BY <1>2, <1>3, <1>7
<1>11. Stacks'
  BY <1>1, <1>2, <1>3, <1>8, <1>9, <1>10, StepKnown
<1>12. ParentsKnown'
  <2>1. \A j \in Items : parent'[j] = parent[j] \/ parent'[j] = d
    BY <1>1 DEF LTypeOK
  <2> QED
    BY <1>8, <1>10, <2>1, ParentsStayKnown
<1> QED
  BY <1>1, <1>4, <1>5, <1>8, <1>11, <1>12 DEF Kept

LEMMA ReadFileKeeps ==
    ASSUME LTypeOK, Stacks, ParentsKnown, NEW t \in Threads, ReadFile(t)
    PROVE  /\ LTypeOK' /\ Forward /\ Stacks' /\ ParentsKnown' /\ Loading(t)
           /\ \A s \in Threads : Kept(s)
<1> DEFINE i == Top(t).item
           d == file[i]
           f == [Top(t) EXCEPT !.step = "begin", !.dict = d]
           mid == Step(t, f)
<1>1. /\ Loading(t) /\ Top(t).step = "read" /\ i \notin Broken
      /\ stack' = IF d # Nil /\ d \notin inmemory THEN [mid EXCEPT ![t] = Push(@, d)] ELSE mid
      /\ UNCHANGED <<parent, inmemory, ready, file, flags, permits, pc, work>>
  BY DEF ReadFile, store
<1>2. /\ f \in Frame /\ f.item = i /\ f.step = "begin" /\ f.dict = d
      /\ i \in Items /\ d \in Items \cup {Nil}
  <2>1. Top(t) \in Frame /\ i \in Items
    BY <1>1, TopTyped
  <2>2. d \in Items \cup {Nil}
    BY <2>1 DEF LTypeOK
  <2> HIDE DEF d
  <2> QED
    BY <2>1, <2>2 DEF Frame
<1>3. \A j \in Items : ~NeedsLoad(j) => ~NeedsLoadNext(j)
  BY <1>1 DEF NeedsLoad, NeedsLoadNext
<1> DEFINE old == stack[t]
           new == [old EXCEPT ![Len(old)] = f]
<1>4. /\ new \in Seq(Frame) /\ new # <<>> /\ Len(new) = Len(old) /\ new[Len(old)] = f
      /\ \A n \in 1..Len(old) : n # Len(old) => new[n] = old[n]
      /\ DOMAIN new = 1..Len(old) /\ DOMAIN old = 1..Len(old) /\ Len(old) \in 1..Len(old)
  <2>1. old \in Seq(Frame) /\ old # <<>>
    BY <1>1, TopTyped DEF Loading
  <2> QED
    BY <1>2, <2>1, Replaced
<1>5. \A n \in 1..Len(old) : new[n].item = old[n].item
  BY <1>1, <1>2, <1>4 DEF Top
<1>6. mid = [stack EXCEPT ![t] = new] /\ mid[t] = new
  BY DEF Step, LTypeOK
<1> HIDE DEF f, new
<1>7. \A j : ~Assigning(t, j)
  BY <1>1 DEF Assigning
<1>8. CASE d # Nil /\ d \notin inmemory /\ d \in ready
  <2> DEFINE g == NewFrame(d)
             both == Append(new, g)
  <2>1. g \in Frame /\ g.step = "read" /\ g.item = d
    BY <1>2, <1>8 DEF NewFrame, Frame
  <2> HIDE DEF g
  <2>2. Push(new, d) = both
    BY <1>8 DEF Push, g
  <2>3. /\ both \in Seq(Frame) /\ Len(both) = Len(old) + 1 /\ both[Len(old) + 1] = g
        /\ \A n \in 1..Len(old) : both[n] = new[n]
        /\ DOMAIN both = 1..(Len(old) + 1) /\ 1..Len(both) = 1..Len(old) \cup {Len(old) + 1}
        /\ Len(old) \in Nat
    BY <1>4, <2>1
  <2>4. stack' = [mid EXCEPT ![t] = both]
    BY <1>1, <1>6, <1>8, <2>2
  <2> HIDE DEF both, mid
  <2>5. stack'[t] = both /\ \A s \in Threads : s # t => stack'[s] = stack[s]
    BY <1>6, <2>4 DEF LTypeOK
  <2>6. stack' \in [Threads -> Seq(Frame)]
    BY <1>4, <1>6, <2>3, <2>4 DEF LTypeOK
  <2>7. \A s \in Threads : \A j : Assigning(s, j) => Assigning(s, j)'
    BY <1>7, <2>5 DEF Assigning, Loading, Top
  <2>8. Forward
    BY <1>1, <1>3, <2>7 DEF Forward, Safe
  <2>9. ASSUME NEW s \in Threads, NEW n \in 1..Len(stack'[s])
        PROVE  FrameKnown(s, n)'
    <3>1. CASE s # t
      BY <1>3, <1>1, <2>5, <2>9, <3>1, OthersKnown
    <3>2. CASE s = t /\ n = Len(old) + 1
      <4>1. stack'[s][n] = g /\ ~(n < Len(stack'[s]))
        BY <2>3, <2>5, <3>2
      <4> QED
        BY <2>1, <4>1 DEF FrameKnown
    <3>3. CASE s = t /\ n = Len(old)
      <4>1. stack'[s][n] = f /\ n < Len(stack'[s]) /\ stack'[s][n + 1].item = d
        BY <1>4, <2>1, <2>3, <2>5, <3>3
      <4> QED
        BY <1>1, <1>2, <4>1 DEF FrameKnown
    <3>4. CASE s = t /\ n \in 1..Len(old) /\ n # Len(old)
      <4>1. /\ n \in 1..Len(stack[s]) /\ stack'[s][n] = stack[s][n]
            /\ n < Len(stack[s]) /\ n < Len(stack'[s]) /\ n + 1 \in 1..Len(old)
        BY <1>4, <2>3, <2>5, <3>4
      <4>2. stack'[s][n + 1].item = stack[s][n + 1].item
        BY <1>5, <2>3, <2>5, <3>4, <4>1
      <4> QED
        BY <1>1, <1>3, <4>1, <4>2, OthersKnown
    <3> QED
      BY <2>3, <2>5, <2>9, <3>1, <3>2, <3>3, <3>4
  <2>10. Stacks'
    BY <1>1, <2>8, <2>9 DEF Stacks, Forward
  <2>11. ASSUME NEW s \in Threads  PROVE Kept(s)
    BY <1>4, <1>5, <2>3, <2>5 DEF Kept, InFrames
  <2>12. LTypeOK'
    BY <1>1, <2>6 DEF LTypeOK, flags
  <2>13. ParentsKnown'
    BY <1>1, <2>8, ParentsStayKnown
  <2> QED
    BY <1>1, <2>8, <2>10, <2>11, <2>12, <2>13
<1>9. CASE d = Nil \/ d \in inmemory \/ d \notin ready
  <2>1. stack' = Step(t, f)
    <3>1. CASE d # Nil /\ d \notin inmemory
      <4>1. Push(new, d) = new
        BY <1>9, <3>1 DEF Push
      <4>2. stack' = [mid EXCEPT ![t] = new]
        BY <1>1, <1>6, <3>1, <4>1
      <4> HIDE DEF mid
      <4>3. stack' = mid
        BY <1>6, <4>2 DEF LTypeOK
      <4> QED
        BY <4>3 DEF mid
    <3> QED
      BY <1>1, <3>1
  <2>2. d = Nil \/ ~NeedsLoadNext(d)
    BY <1>1, <1>9 DEF NeedsLoadNext
  <2>3. /\ stack' \in [Threads -> Seq(Frame)]
        /\ \A s \in Threads : \A j : InFrames(s, j) <=> InFrames(s, j)'
        /\ \A s \in Threads : \A j : s # t => (Assigning(s, j)' <=> Assigning(s, j))
    BY <1>1, <1>2, <2>1, TopChanges
  <2>4. Forward
    BY <1>1, <1>3, <1>7, <2>3 DEF Forward, Safe
  <2>5. \A j \in Sound : j \notin ready' => Safe(j)'
    BY <1>1, <2>4 DEF Stacks, Forward
  <2>6. Stacks'
    BY <1>1, <1>2, <2>1, <2>2, <2>4, <2>5, StepKnown
  <2>7. LTypeOK'
    BY <1>1, <2>3 DEF LTypeOK, flags
  <2>8. ParentsKnown'
    BY <1>1, <2>4, ParentsStayKnown
  <2> QED
    BY <1>1, <2>3, <2>4, <2>6, <2>7, <2>8 DEF Kept
<1> QED
  BY <1>8, <1>9

LEMMA Popped ==
    ASSUME NEW s \in Seq(Frame), s # <<>>
    PROVE  LET r == SubSeq(s, 1, Len(s) - 1)
           IN  /\ r \in Seq(Frame) /\ Len(r) = Len(s) - 1 /\ Len(s) \in 1..Len(s)
               /\ \A n \in 1..Len(r) : r[n] = s[n] /\ n \in 1..Len(s) /\ n < Len(s)
               /\ DOMAIN r = 1..Len(r) /\ DOMAIN s = 1..Len(r) \cup {Len(s)}
<1> DEFINE m == Len(s) - 1
           r == SubSeq(s, 1, m)
<1>1. m \in Nat /\ Len(s) = m + 1 /\ Len(s) \in 1..Len(s) /\ DOMAIN s = 1..Len(s)
  OBVIOUS
<1>2. \A n \in 1..m : s[n] \in Frame
  BY <1>1
<1>3. r \in Seq(Frame) /\ Len(r) = m /\ \A n \in 1..m : r[n] = s[n]
  BY <1>1, <1>2
<1>4. DOMAIN r = 1..m /\ 1..Len(s) = 1..m \cup {Len(s)}
  BY <1>1, <1>3
<1> HIDE DEF r
<1>5. \A n \in 1..Len(r) : r[n] = s[n] /\ n \in 1..Len(s) /\ n < Len(s)
  BY <1>1, <1>3
<1> QED
  BY <1>1, <1>3, <1>4, <1>5 DEF r

LEMMA FromDictEndsKeeps ==
    ASSUME LTypeOK, Stacks, ParentsKnown, NEW t \in Threads, FromDictEnds(t)
    PROVE  /\ LTypeOK' /\ Forward /\ Stacks' /\ ParentsKnown' /\ Loading(t)
           /\ \A s \in Threads : Kept(s)
<1> DEFINE i == Top(t).item
           old == stack[t]
           new == SubSeq(old, 1, Len(old) - 1)
<1>1. /\ Loading(t) /\ Top(t).step = "restore"
      /\ ready' = IF Top(t).old THEN ready \cup {i} ELSE ready \ {i}
      /\ stack' = [stack EXCEPT ![t] = new]
      /\ UNCHANGED <<parent, inmemory, file, flags, permits, pc, work>>
  BY DEF FromDictEnds
<1>2. i \in Items /\ i \in inmemory
  BY <1>1, TopTyped, TopKnown
<1>3. /\ new \in Seq(Frame) /\ Len(new) = Len(old) - 1 /\ Len(old) \in 1..Len(old)
      /\ \A n \in 1..Len(new) : new[n] = old[n] /\ n \in 1..Len(old) /\ n < Len(old)
      /\ DOMAIN new = 1..Len(new) /\ DOMAIN old = 1..Len(new) \cup {Len(old)}
  <2>1. old \in Seq(Frame) /\ old # <<>>
    BY <1>1, TopTyped DEF Loading
  <2> QED
    BY <2>1, Popped
<1> HIDE DEF new
<1>4. stack'[t] = new /\ \A s \in Threads : s # t => stack'[s] = stack[s]
  BY <1>1 DEF LTypeOK
<1>5. LTypeOK'
  BY <1>1, <1>2, <1>3 DEF LTypeOK, flags
<1>6. \A j \in Items : ~NeedsLoad(j) => ~NeedsLoadNext(j)
  BY <1>1, <1>2 DEF NeedsLoad, NeedsLoadNext
<1>7. \A s \in Threads : \A j : Assigning(s, j) => Assigning(s, j)'
  BY <1>1, <1>4 DEF Assigning, Loading, Top
<1>8. Forward
  BY <1>1, <1>6, <1>7 DEF Forward, Safe
<1>9. \A j \in Sound : j \notin ready' => Safe(j)'
  <2> SUFFICES ASSUME NEW j \in Sound, j \notin ready' PROVE Safe(j)'
    OBVIOUS
  <2>1. CASE j = i
    BY <1>1, <1>2, <2>1 DEF Safe
  <2>2. CASE j # i
    BY <1>1, <1>8, <2>2 DEF Forward, Stacks
  <2> QED
    BY <2>1, <2>2
<1>10. ASSUME NEW s \in Threads, NEW n \in 1..Len(stack'[s])
       PROVE  FrameKnown(s, n)'
  <2>1. CASE s # t
    BY <1>1, <1>4, <1>6, <1>10, <2>1, OthersKnown
  <2>2. CASE s = t /\ n < Len(new)
    <3>1. /\ n \in 1..Len(stack[s]) /\ stack'[s][n] = stack[s][n]
          /\ n < Len(stack[s]) /\ n < Len(stack'[s]) /\ n + 1 \in 1..Len(new)
      BY <1>3, <1>4, <1>10, <2>2
    <3>2. stack'[s][n + 1].item = stack[s][n + 1].item
      BY <1>3, <1>4, <2>2, <3>1
    <3> QED
      BY <1>1, <1>6, <3>1, <3>2, OthersKnown
  <2>3. CASE s = t /\ n = Len(new)
    <3> DEFINE g == old[n]
    <3>1. /\ n \in 1..Len(old) /\ n < Len(old) /\ n + 1 = Len(old)
          /\ stack'[s][n] = g /\ ~(n < Len(stack'[s]))
      BY <1>3, <1>4, <1>10, <2>3
    <3>2. FrameKnown(t, n) /\ old[n + 1].item = i /\ g \in Frame
      BY <3>1 DEF Stacks, Top, LTypeOK
    <3>3. g.step = "begin" /\ g.item \notin Broken /\ g.dict \in Items \cup {Nil}
      BY <3>1, <3>2 DEF FrameKnown, Frame
    <3>4. g.dict = Nil \/ ~NeedsLoad(g.dict) \/ g.dict = i
      BY <3>2, <3>3 DEF FrameKnown
    <3>5. g.dict = Nil \/ ~NeedsLoadNext(g.dict)
      BY <1>1, <1>2, <1>6, <3>3, <3>4 DEF NeedsLoad
    <3> HIDE DEF g
    <3> QED
      BY <3>1, <3>3, <3>5 DEF FrameKnown, NeedsLoad, NeedsLoadNext
  <2> QED
    BY <1>3, <1>4, <1>10, <2>1, <2>2, <2>3
<1>11. Stacks'
  BY <1>9, <1>10 DEF Stacks
<1>12. ParentsKnown'
  BY <1>1, <1>8, ParentsStayKnown
<1>13. ASSUME NEW s \in Threads  PROVE Kept(s)
  <2> SUFFICES ASSUME NEW j \in Sound, NEW n \in DOMAIN stack[s], stack[s][n].item = j
               PROVE  InFrames(s, j)' \/ Safe(j)'
    BY DEF Kept, InFrames
  <2>1. CASE s # t
    BY <1>4, <2>1 DEF InFrames
  <2>2. CASE s = t /\ n = Len(old)
    BY <1>1, <1>2, <2>2 DEF Top, Safe
  <2>3. CASE s = t /\ n # Len(old)
    BY <1>3, <1>4, <2>3 DEF InFrames
  <2> QED
    BY <2>1, <2>2, <2>3
<1> QED
  BY <1>1, <1>5, <1>8, <1>11, <1>12, <1>13

\* A load that fails ends all calls of its thread, none of which assigns.
LEMMA LoadFailsKeeps ==
    ASSUME LTypeOK, Stacks, ParentsKnown, NEW t \in Threads, LoadFails(t)
    PROVE  /\ LTypeOK' /\ Forward /\ Stacks' /\ ParentsKnown' /\ Loading(t)
           /\ \A s \in Threads : s # t => Kept(s)
           /\ ~Loading(t)'
<1> DEFINE i == Top(t).item
<1>1. /\ Loading(t) /\ i \in Broken /\ ready' \in {ready, ready \ {i}}
      /\ stack' = [stack EXCEPT ![t] = <<>>]
      /\ work' = [work EXCEPT ![t] = NoWork]
      /\ pc' = [pc EXCEPT ![t] = IF t = Loader THEN "ended" ELSE "leave"]
      /\ permits' = IF t = Loader THEN permits + 1 ELSE permits
      /\ lock' = IF lock = t THEN Nil ELSE lock
      /\ UNCHANGED <<parent, inmemory, file, collLoaded, sweeping>>
  BY DEF LoadFails, Unwinds
<1>2. stack'[t] = <<>> /\ \A s \in Threads : s # t => stack'[s] = stack[s]
  BY <1>1 DEF LTypeOK
<1>3. LTypeOK'
  <2>1. stack' \in [Threads -> Seq(Frame)]
    BY <1>1 DEF LTypeOK
  <2>2. work' \in [Threads -> Work]
    <3>1. NoWork \in Work
      BY DEF NoWork, Work, Operations
    <3> QED
      BY <1>1, <3>1 DEF LTypeOK
  <2>3. pc' \in [Threads -> Points]
    BY <1>1 DEF LTypeOK, Points
  <2> QED
    BY <1>1, <2>1, <2>2, <2>3 DEF LTypeOK
<1>4. \A j \in Sound : ~Assigning(t, j)
  BY <1>1 DEF Assigning, Sound
<1>5. \A s \in Threads : \A j \in Sound : Assigning(s, j) => Assigning(s, j)'
  BY <1>2, <1>4 DEF Assigning, Loading, Top
<1>6. \A j \in Items : ~NeedsLoad(j) => ~NeedsLoadNext(j)
  BY <1>1 DEF NeedsLoad, NeedsLoadNext
<1>7. Forward
  BY <1>1, <1>5, <1>6 DEF Forward, Safe
<1>8. \A j \in Sound : j \notin ready' => Safe(j)'
  BY <1>1, <1>7 DEF Stacks, Forward, Sound
<1>9. ASSUME NEW s \in Threads, NEW n \in 1..Len(stack'[s])
      PROVE  FrameKnown(s, n)'
  <2>1. s # t
    BY <1>2, <1>9
  <2> QED
    BY <1>1, <1>2, <1>6, <1>9, <2>1, OthersKnown
<1>10. Stacks'
  BY <1>8, <1>9 DEF Stacks
<1>11. ParentsKnown'
  BY <1>1, <1>7, ParentsStayKnown
<1>12. \A s \in Threads : s # t => Kept(s)
  BY <1>2 DEF Kept, InFrames
<1> QED
  BY <1>1, <1>2, <1>3, <1>7, <1>10, <1>11, <1>12 DEF Loading

-----------------------------------------------------------------------------
(* Steps                                                                   *)

\* A step of t: nothing changes for the other threads.
Alone(t) == \A s \in Threads : s # t =>
                pc'[s] = pc[s] /\ work'[s] = work[s] /\ stack'[s] = stack[s]

LEMMA SweptStays ==
    ASSUME LTypeOK, Forward, NEW s \in Threads, Swept(s), Kept(s), work'[s].todo = work[s].todo,
           pc'[s] \in {"sweep", "wait", "hold"} => pc[s] \in {"sweep", "wait", "hold"}
    PROVE  Swept(s)'
<1>1. Left(s)' = Left(s)
  BY DEF Left
<1> QED
  BY <1>1 DEF Swept, Kept, Forward

LEMMA Others ==
    ASSUME IInv, NEW t \in Threads, Alone(t), LTypeOK', Forward, Stacks', ParentsKnown',
           Placed(t)', Swept(t)', LockQuiet',
           collLoaded' => collLoaded \/ \A i \in Sound : Safe(i)',
           permits' >= 1 \/ Holding' # {}
    PROVE  IInv'
<1>1. Places'
  BY DEF IInv, Places, Placed, Alone, Loading
<1>2. ASSUME NEW s \in Threads, s # t  PROVE Swept(s)'
  <2>1. Kept(s) /\ Swept(s)
    BY <1>2 DEF Kept, InFrames, Alone, IInv, Sweeps
  <2> QED
    BY <1>2, <2>1, SweptStays DEF Alone, IInv
<1>3. Sweeps'
  BY <1>2 DEF Sweeps, IInv, Forward
<1>4. Permits'
  <2>1. Holding' \subseteq Holding \cup {t}
    BY DEF Holding, Alone, Threads, IInv, LTypeOK
  <2>2. IsFiniteSet(Holding \cup {t})
    BY FS_AddElement DEF IInv, Permits
  <2> QED
    BY <2>1, <2>2, FS_Subset DEF Permits
<1> QED
  BY <1>1, <1>3, <1>4 DEF IInv

\* A thread that is at work holds a permit, or will put one back.
LEMMA AtWork ==
    ASSUME LTypeOK, Places, NEW t \in Threads, Loading(t)
    PROVE  t \in Holding
BY DEF Places, Placed, Holding, Threads

LEMMA LoadInv ==
    ASSUME IInv, NEW t \in Threads, Load(t)
    PROVE  IInv'
<1>0. LTypeOK /\ Stacks /\ ParentsKnown /\ Places /\ LockQuiet /\ Sweeps /\ Placed(t)
  BY DEF IInv, Places
<1>1. CASE LoadFails(t)
  <2>1. LTypeOK' /\ Forward /\ Stacks' /\ ParentsKnown' /\ ~Loading(t)'
    BY <1>0, <1>1, LoadFailsKeeps
  <2>2. /\ work' = [work EXCEPT ![t] = NoWork]
        /\ pc' = [pc EXCEPT ![t] = IF t = Loader THEN "ended" ELSE "leave"]
        /\ permits' = IF t = Loader THEN permits + 1 ELSE permits
        /\ lock' = IF lock = t THEN Nil ELSE lock
        /\ stack' = [stack EXCEPT ![t] = <<>>] /\ collLoaded' = collLoaded
    BY <1>1 DEF LoadFails, Unwinds
  <2>3. Alone(t)
    BY <1>0, <2>2 DEF Alone, LTypeOK
  <2>4. pc'[t] = IF t = Loader THEN "ended" ELSE "leave"
    BY <1>0, <2>2 DEF LTypeOK
  <2>5. Placed(t)' /\ Swept(t)'
    BY <2>1, <2>4 DEF Placed, Swept
  <2>6. LockQuiet'
    BY <1>0, <2>2, <2>3 DEF LockQuiet, Alone, LTypeOK
  <2>7. permits' >= 1 \/ Holding' # {}
    <3>1. CASE t = Loader
      BY <1>0, <2>2, <3>1 DEF LTypeOK
    <3>2. CASE t # Loader
      BY <2>4, <3>2 DEF Holding, Threads
    <3> QED
      BY <3>1, <3>2
  <2> QED
    BY <2>1, <2>2, <2>3, <2>5, <2>6, <2>7, Others
<1>2. CASE ReadFile(t) \/ FromDictBegins(t) \/ FromDictAssigns(t) \/ FromDictEnds(t)
  <2>1. /\ LTypeOK' /\ Forward /\ Stacks' /\ ParentsKnown' /\ Loading(t)
        /\ \A s \in Threads : Kept(s)
    BY <1>0, <1>2, ReadFileKeeps, FromDictBeginsKeeps, FromDictAssignsKeeps, FromDictEndsKeeps
  <2>2. UNCHANGED <<pc, work, permits, collLoaded, lock>>
    BY <1>2 DEF ReadFile, FromDictBegins, FromDictAssigns, FromDictEnds, flags
  <2>3. Alone(t)
    <3>1. CASE ReadFile(t)
      BY <1>0, <2>2, <3>1 DEF Alone, LTypeOK, ReadFile, Step
    <3>2. CASE FromDictBegins(t) \/ FromDictAssigns(t) \/ FromDictEnds(t)
      BY <1>0, <2>2, <3>2 DEF Alone, LTypeOK, FromDictBegins, FromDictAssigns, FromDictEnds, Step
    <3> QED
      BY <1>2, <3>1, <3>2
  <2>4. Placed(t)'
    BY <1>0, <2>1, <2>2 DEF Placed
  <2>5. Swept(t)'
    BY <1>0, <2>1, <2>2, SweptStays DEF Sweeps
  <2>6. LockQuiet'
    BY <1>0, <2>2 DEF LockQuiet
  <2>7. Holding' # {}
    <3>1. t \in Holding /\ Holding' = Holding
      BY <1>0, <2>1, <2>2, AtWork DEF Holding
    <3> QED
      BY <3>1
  <2> QED
    BY <2>1, <2>2, <2>3, <2>4, <2>5, <2>6, <2>7, Others
<1> QED
  BY <1>1, <1>2 DEF Load

\* A thread that loads nothing has no frames, and what it has gone through is safe.
LEMMA QuietThread ==
    ASSUME LTypeOK, NEW t \in Threads, ~Loading(t)
    PROVE  /\ \A i : ~InFrames(t, i)
           /\ Swept(t) /\ pc[t] \in {"sweep", "wait", "hold"} =>
                  \A i \in Sound : i \in Left(t) \/ Safe(i)
BY DEF InFrames, Swept, Loading

\* A request that loads nothing changes its place or its work.
LEMMA RequestMoves ==
    ASSUME IInv, NEW r \in Requests, ~Loading(r), UNCHANGED <<inmemory, ready, stack>>,
           pc'[r] \in {"work", "sweep", "search", "index", "leave"},
           \A s \in Threads : s # r => pc'[s] = pc[s] /\ work'[s] = work[s],
           LTypeOK', LockQuiet', ParentsKnown', pc'[r] = "sweep" => Sound \subseteq Left(r)',
           collLoaded' => collLoaded \/ \A i \in Sound : Safe(i)
    PROVE  IInv'
<1>1. Forward /\ Stacks'
  BY Unmoved DEF IInv
<1>2. r \in Threads /\ r # Loader
  BY LoadAssumption DEF Threads
<1>3. Alone(r)
  BY DEF Alone
<1>4. Placed(r)'
  BY <1>2 DEF Placed, Loading
<1>5. Swept(r)'
  BY DEF Swept
<1>6. Holding' # {}
  BY DEF Holding
<1>7. collLoaded' => collLoaded \/ \A i \in Sound : Safe(i)'
  BY <1>1 DEF Forward
<1> QED
  BY <1>1, <1>2, <1>3, <1>4, <1>5, <1>6, <1>7, Others

\* A thread that loads nothing begins to load an item.
LEMMA BeginsLoad ==
    ASSUME IInv, NEW t \in Threads, ~Loading(t), pc[t] \in {"work", "sweep", "hold"},
           NEW i, stack' = [stack EXCEPT ![t] = Push(@, i)],
           UNCHANGED <<store, flags, permits, pc>>, work' \in [Threads -> Work],
           \A s \in Threads : s # t => work'[s] = work[s],
           pc[t] = "hold" => work'[t].item # Nil,
           pc[t] \in {"sweep", "hold"} =>
               \A j \in Sound : j \in Left(t) => j \in Left(t)' \/ j = i
    PROVE  IInv'
<1>1. LTypeOK /\ Stacks /\ ParentsKnown /\ LockQuiet /\ Placed(t) /\ Swept(t)
  BY DEF IInv, Places, Sweeps
<1>2. UNCHANGED <<inmemory, ready, parent, file, collLoaded, sweeping, lock>>
  BY DEF store, flags
<1>3. /\ Forward /\ Stacks' /\ stack' \in [Threads -> Seq(Frame)]
      /\ \A s \in Threads : s # t => stack'[s] = stack[s]
      /\ i \in ready => InFrames(t, i)'
  BY <1>1, <1>2, Pushed
<1>4. LTypeOK'
  BY <1>1, <1>2, <1>3 DEF LTypeOK
<1>5. ParentsKnown'
  BY <1>1, <1>2, <1>3, ParentsStayKnown
<1>6. Alone(t)
  BY <1>3 DEF Alone
<1>7. Placed(t)'
  BY <1>1 DEF Placed
<1>8. Swept(t)'
  <2> SUFFICES ASSUME pc[t] \in {"sweep", "hold"}, NEW j \in Sound
               PROVE  j \in Left(t)' \/ Safe(j)' \/ InFrames(t, j)'
    BY DEF Swept
  <2>1. j \in Left(t) \/ Safe(j)
    BY <1>1, QuietThread
  <2>2. CASE j = i
    BY <1>1, <1>3, <2>2 DEF Stacks, Forward
  <2>3. CASE j # i
    BY <1>3, <2>1, <2>3 DEF Forward
  <2> QED
    BY <2>2, <2>3
<1>9. LockQuiet'
  BY <1>1, <1>2 DEF LockQuiet
<1>10. t \in Holding'
  BY <1>1 DEF Holding, Placed, Threads
<1> QED
  BY <1>2, <1>3, <1>4, <1>5, <1>6, <1>7, <1>8, <1>9, <1>10, Others

LEMMA EnterInv ==
    ASSUME IInv, NEW r \in Requests, Enter(r)
    PROVE  IInv'
<1>1. /\ ~Loading(r) /\ pc' = [pc EXCEPT ![r] = "work"] /\ permits' = IF permits > 0 THEN permits - 1 ELSE 0
      /\ UNCHANGED <<parent, inmemory, ready, file, collLoaded, sweeping, lock, work, stack>>
  BY DEF Enter, Quiet, store, flags
<1>2. LTypeOK /\ ParentsKnown /\ LockQuiet /\ r \in Threads /\ pc[r] = "idle"
  BY DEF IInv, Threads, Enter, Quiet
<1>3. LTypeOK'
  BY <1>1, <1>2 DEF LTypeOK, Points
<1>4. ParentsKnown'
  BY <1>1, <1>2 DEF ParentsKnown, NeedsLoad
<1>5. pc'[r] = "work" /\ \A s \in Threads : s # r => pc'[s] = pc[s]
  BY <1>1, <1>2 DEF LTypeOK
<1>6. LockQuiet'
  BY <1>1, <1>2, <1>5 DEF LockQuiet, LTypeOK
<1> QED
  BY <1>1, <1>3, <1>4, <1>5, <1>6, RequestMoves

LEMMA LeaveInv ==
    ASSUME IInv, NEW r \in Requests, Leave(r)
    PROVE  IInv'
<1>1. /\ ~Loading(r) /\ pc[r] = "leave" /\ pc' = [pc EXCEPT ![r] = "idle"]
      /\ permits' = permits + 1 /\ work' = [work EXCEPT ![r] = NoWork]
      /\ UNCHANGED <<parent, inmemory, ready, file, collLoaded, sweeping, lock, stack>>
  BY DEF Leave, Quiet, store, flags
<1>2. LTypeOK /\ ParentsKnown /\ LockQuiet /\ r \in Threads /\ r # Loader
  BY LoadAssumption DEF IInv, Threads
<1>3. LTypeOK'
  <2>1. NoWork \in Work
    BY DEF NoWork, Work, Operations
  <2> QED
    BY <1>1, <1>2, <2>1 DEF LTypeOK, Points
<1>4. ParentsKnown'
  BY <1>1, <1>2 DEF ParentsKnown, NeedsLoad
<1>5. pc'[r] = "idle" /\ Alone(r)
  BY <1>1, <1>2 DEF LTypeOK, Alone
<1>6. LockQuiet'
  BY <1>1, <1>2, <1>5 DEF LockQuiet, LTypeOK, Alone
<1>7. Placed(r)' /\ Swept(r)'
  BY <1>1, <1>2, <1>5 DEF Placed, Swept, Loading
<1>8. Forward /\ Stacks' /\ permits' >= 1
  BY <1>1, <1>2, Unmoved DEF IInv, LTypeOK
<1> QED
  BY <1>1, <1>2, <1>3, <1>4, <1>5, <1>6, <1>7, <1>8, Others

LEMMA ChooseInv ==
    ASSUME IInv, NEW r \in Requests, Choose(r)
    PROVE  IInv'
<1>1. /\ ~Loading(r) /\ pc[r] = "work"
      /\ UNCHANGED <<parent, inmemory, ready, file, collLoaded, sweeping, lock, permits, pc, stack>>
  BY DEF Choose, Quiet, store, flags
<1>2. LTypeOK /\ ParentsKnown /\ LockQuiet
  BY DEF IInv
<1>3. PICK w \in Work : work' = [work EXCEPT ![r] = w]
  <2>1. NoWork \in Work
    BY DEF NoWork, Work, Operations
  <2>2. CASE \E e \in Edits :
             work' = [work EXCEPT ![r] = [NoWork EXCEPT !.op = "edit", !.item = e[1], !.parent = e[2]]]
    <3>1. PICK e \in Edits :
             work' = [work EXCEPT ![r] = [NoWork EXCEPT !.op = "edit", !.item = e[1], !.parent = e[2]]]
      BY <2>2
    <3>2. e[1] \in Items /\ e[2] \in Items \cup {Nil}
      BY LoadAssumption
    <3>3. [NoWork EXCEPT !.op = "edit", !.item = e[1], !.parent = e[2]] \in Work
      BY <2>1, <3>2 DEF Work, Operations
    <3> QED
      BY <3>1, <3>3
  <2>3. CASE \E i \in Items : work' = [work EXCEPT ![r] = [NoWork EXCEPT !.op = "save", !.item = i]]
    <3>1. \A i \in Items : [NoWork EXCEPT !.op = "save", !.item = i] \in Work
      BY <2>1 DEF Work, Operations
    <3> QED
      BY <2>3, <3>1
  <2>4. CASE work' = [work EXCEPT ![r] = [NoWork EXCEPT !.op = "find"]]
    <3>1. [NoWork EXCEPT !.op = "find"] \in Work
      BY <2>1 DEF Work, Operations
    <3> QED
      BY <2>4, <3>1
  <2> QED
    BY <2>2, <2>3, <2>4 DEF Choose
<1>4. LTypeOK' /\ \A s \in Threads : s # r => work'[s] = work[s]
  BY <1>1, <1>2, <1>3 DEF LTypeOK
<1>5. ParentsKnown' /\ LockQuiet'
  BY <1>1, <1>2 DEF ParentsKnown, NeedsLoad, LockQuiet
<1> QED
  BY <1>1, <1>4, <1>5, RequestMoves

LEMMA EditInv ==
    ASSUME IInv, NEW r \in Requests, Edit(r)
    PROVE  IInv'
<1>1. /\ ~Loading(r) /\ pc[r] = "work" /\ pc' = [pc EXCEPT ![r] = "leave"]
      /\ parent' = [parent EXCEPT ![work[r].item] = work[r].parent]
      /\ \A i \in {work[r].item, work[r].parent} \ {Nil} : ~NeedsLoad(i)
      /\ UNCHANGED <<inmemory, ready, file, collLoaded, sweeping, lock, permits, work, stack>>
  BY DEF Edit, Quiet, flags, GoTo
<1>2. LTypeOK /\ ParentsKnown /\ LockQuiet /\ r \in Threads
  BY DEF IInv, Threads
<1> DEFINE p == work[r].parent
<1>3. p \in Items \cup {Nil}
  BY <1>2 DEF LTypeOK, Work
<1>4. \A i \in Items : parent'[i] = parent[i] \/ parent'[i] = p
  BY <1>1, <1>2 DEF LTypeOK
<1>5. LTypeOK'
  <2>1. pc' \in [Threads -> Points]
    BY <1>1, <1>2 DEF LTypeOK, Points
  <2>2. parent' \in [Items -> Items \cup {Nil}]
    BY <1>1, <1>2, <1>3 DEF LTypeOK
  <2> QED
    BY <1>1, <1>2, <2>1, <2>2 DEF LTypeOK
<1>6. ParentsKnown'
  <2>1. p = Nil \/ ~NeedsLoadNext(p)
    BY <1>1 DEF NeedsLoad, NeedsLoadNext
  <2>2. Forward
    BY <1>1, Unmoved
  <2> HIDE DEF p
  <2> QED
    BY <1>2, <1>4, <2>1, <2>2, ParentsStayKnown
<1>7. pc'[r] = "leave" /\ \A s \in Threads : s # r => pc'[s] = pc[s]
  BY <1>1, <1>2 DEF LTypeOK
<1>8. LockQuiet'
  BY <1>1, <1>2, <1>7 DEF LockQuiet, LTypeOK
<1> QED
  BY <1>1, <1>5, <1>6, <1>7, <1>8, RequestMoves

LEMMA EditLoadsInv ==
    ASSUME IInv, NEW r \in Requests, EditLoads(r) \/ SaveLoads(r)
    PROVE  IInv'
<1>1. PICK i : Touch(r, i)
  BY DEF EditLoads, SaveLoads
<1>2. ~Loading(r) /\ pc[r] = "work" /\ r \in Threads
  BY DEF EditLoads, SaveLoads, Quiet, Threads
<1>3. UNCHANGED work /\ work' \in [Threads -> Work]
  BY <1>1 DEF Touch, IInv, LTypeOK
<1> QED
  BY <1>1, <1>2, <1>3, BeginsLoad DEF Touch

LEMMA SaveLocksInv ==
    ASSUME IInv, NEW r \in Requests, SaveLocks(r)
    PROVE  IInv'
<1>1. /\ ~Loading(r) /\ lock' = r /\ pc' = [pc EXCEPT ![r] = "index"]
      /\ UNCHANGED <<parent, inmemory, ready, file, collLoaded, sweeping, permits, work, stack>>
  BY DEF SaveLocks, Quiet, store, GoTo
<1>2. LTypeOK /\ ParentsKnown /\ r \in Threads
  BY DEF IInv, Threads
<1>3. LTypeOK'
  BY <1>1, <1>2 DEF LTypeOK, Points
<1>4. ParentsKnown'
  BY <1>1, <1>2 DEF ParentsKnown, NeedsLoad
<1>5. pc'[r] = "index" /\ \A s \in Threads : s # r => pc'[s] = pc[s]
  BY <1>1, <1>2 DEF LTypeOK
<1>6. LockQuiet'
  BY <1>1, <1>5 DEF LockQuiet
<1> QED
  BY <1>1, <1>3, <1>4, <1>5, <1>6, RequestMoves

\* No ancestor is a stub: neither the parent of an item nor of an ancestor of it.
LEMMA NoStubAbove ==
    ASSUME IInv, NEW i, i \in inmemory, NEW a \in Ancestors(i)
    PROVE  ~NeedsLoad(a)
<1> DEFINE above == {b \in Items : ~NeedsLoad(b)}
<1>1. i \in Items
  BY DEF IInv, LTypeOK
<1>2. \A b \in above \cup {i} : parent[b] \in above \cup {Nil}
  BY <1>1 DEF IInv, ParentsKnown, LTypeOK
<1>3. above \in SUBSET Items
  OBVIOUS
<1>4. a \in above
  <2> HIDE DEF above
  <2> QED
    BY <1>2, <1>3 DEF Ancestors
<1> QED
  BY <1>4

LEMMA SaveIndexesInv ==
    ASSUME IInv, NEW r \in Requests, SaveIndexes(r)
    PROVE  IInv'
<1> DEFINE i == work[r].item
           stubs == {a \in Ancestors(i) : i \in inmemory /\ NeedsLoad(a)}
<1>1. stubs = {}
  BY NoStubAbove
<1>2. /\ ~Loading(r) /\ lock' = Nil /\ file' = [file EXCEPT ![i] = parent[i]]
      /\ pc' = [pc EXCEPT ![r] = "leave"]
      /\ UNCHANGED <<parent, inmemory, ready, collLoaded, sweeping, permits, work, stack>>
  BY <1>1 DEF SaveIndexes, Quiet, GoTo
<1>3. LTypeOK /\ ParentsKnown /\ r \in Threads
  BY DEF IInv, Threads
<1> HIDE DEF i
<1>4. LTypeOK'
  <2>1. pc' \in [Threads -> Points]
    BY <1>2, <1>3 DEF LTypeOK, Points
  <2>2. file' \in [Items -> Items \cup {Nil}]
    BY <1>2, <1>3 DEF LTypeOK
  <2> QED
    BY <1>2, <1>3, <2>1, <2>2 DEF LTypeOK
<1>5. ParentsKnown'
  BY <1>2, <1>3 DEF ParentsKnown, NeedsLoad
<1>6. pc'[r] = "leave" /\ \A s \in Threads : s # r => pc'[s] = pc[s]
  BY <1>2, <1>3 DEF LTypeOK
<1>7. LockQuiet'
  BY <1>2 DEF LockQuiet
<1> QED
  BY <1>2, <1>4, <1>5, <1>6, <1>7, RequestMoves

LEMMA FindBeginsInv ==
    ASSUME IInv, NEW r \in Requests, FindBegins(r)
    PROVE  IInv'
<1>1. LTypeOK /\ ParentsKnown /\ LockQuiet /\ r \in Threads
  BY DEF IInv, Threads
<1>2. /\ ~Loading(r) /\ pc[r] = "work"
      /\ UNCHANGED <<parent, inmemory, ready, file, collLoaded, lock, permits, stack>>
  BY DEF FindBegins, Quiet, store
<1>3. PICK p \in {"sweep", "search"} : pc' = [pc EXCEPT ![r] = p]
  BY DEF FindBegins, GoTo
<1>4. pc'[r] = p /\ \A s \in Threads : s # r => pc'[s] = pc[s]
  BY <1>1, <1>3 DEF LTypeOK
<1>5. /\ work' \in [Threads -> Work] /\ sweeping' \in BOOLEAN
      /\ \A s \in Threads : s # r => work'[s] = work[s]
      /\ p = "sweep" => work'[r].todo = Listing
  <2>1. CASE collLoaded \/ sweeping
    <3>1. pc' = [pc EXCEPT ![r] = "search"] /\ UNCHANGED <<sweeping, work>>
      BY <2>1 DEF FindBegins, GoTo
    <3>2. p = "search"
      BY <1>1, <1>4, <3>1 DEF LTypeOK
    <3> QED
      BY <1>1, <3>1, <3>2 DEF LTypeOK
  <2>2. CASE ~(collLoaded \/ sweeping)
    <3>1. sweeping' = TRUE /\ work' = [work EXCEPT ![r].todo = Listing]
      BY <2>2 DEF FindBegins
    <3>2. work[r] \in Work /\ Listing \in Seq(Items)
      BY <1>1, LoadAssumption DEF LTypeOK
    <3>3. [work[r] EXCEPT !.todo = Listing] \in Work
      BY <3>2 DEF Work
    <3> QED
      BY <1>1, <3>1, <3>2, <3>3 DEF LTypeOK, Work
  <2> QED
    BY <2>1, <2>2
<1>6. LTypeOK'
  <2>1. pc' \in [Threads -> Points]
    BY <1>1, <1>3 DEF LTypeOK, Points
  <2> QED
    BY <1>1, <1>2, <1>5, <2>1 DEF LTypeOK
<1>7. ParentsKnown'
  BY <1>1, <1>2 DEF ParentsKnown, NeedsLoad
<1>8. LockQuiet'
  BY <1>1, <1>2, <1>4 DEF LockQuiet, LTypeOK
<1>9. pc'[r] = "sweep" => Sound \subseteq Left(r)'
  BY <1>4, <1>5, LoadAssumption DEF Left, Sound
<1> QED
  BY <1>2, <1>4, <1>5, <1>6, <1>7, <1>8, <1>9, RequestMoves

\* The rest of what a thread has to go through.
LEMMA Rest ==
    ASSUME NEW s \in Seq(Items), s # <<>>
    PROVE  /\ Head(s) \in Items /\ Tail(s) \in Seq(Items)
           /\ \A n \in DOMAIN s : s[n] = Head(s) \/ \E m \in DOMAIN Tail(s) : Tail(s)[m] = s[n]
<1>1. Head(s) \in Items /\ Tail(s) \in Seq(Items) /\ Len(s) \in Nat \ {0}
  OBVIOUS
<1>2. /\ DOMAIN s = 1..Len(s) /\ DOMAIN Tail(s) = 1..(Len(s) - 1)
      /\ \A m \in 1..(Len(s) - 1) : Tail(s)[m] = s[m + 1]
      /\ Head(s) = s[1]
  BY <1>1
<1>3. ASSUME NEW n \in 1..Len(s), n # 1
      PROVE  n - 1 \in 1..(Len(s) - 1) /\ Tail(s)[n - 1] = s[n]
  BY <1>1, <1>2, <1>3
<1> QED
  BY <1>1, <1>2, <1>3

\* A thread that loads nothing takes the next item of the listing.
LEMMA TakesNext ==
    ASSUME IInv, NEW t \in Threads, ~Loading(t), work[t].todo # <<>>,
           pc[t] \in {"sweep", "hold"}, UNCHANGED <<store, flags, permits, pc>>,
           NEW i, i = Head(work[t].todo),
           work' \in [Threads -> Work], work'[t].todo = Tail(work[t].todo),
           pc[t] = "hold" => work'[t].item # Nil,
           \A s \in Threads : s # t => work'[s] = work[s],
           stack' = IF i \notin inmemory THEN [stack EXCEPT ![t] = Push(@, i)] ELSE stack
    PROVE  IInv'
<1>1. LTypeOK /\ Stacks /\ ParentsKnown /\ LockQuiet /\ Placed(t) /\ Swept(t)
  BY DEF IInv, Places, Sweeps
<1>2. \A j : j \in Left(t) => j \in Left(t)' \/ j = i
  <2>1. work[t].todo \in Seq(Items)
    BY <1>1 DEF LTypeOK, Work
  <2> DEFINE s == work[t].todo
  <2>2. \A n \in DOMAIN s : s[n] = i \/ \E m \in DOMAIN Tail(s) : Tail(s)[m] = s[n]
    BY <2>1, Rest
  <2> QED
    BY <2>2 DEF Left
<1>3. CASE i \notin inmemory
  BY <1>2, <1>3, BeginsLoad
<1>4. CASE i \in inmemory
  <2>1. UNCHANGED <<parent, inmemory, ready, file, collLoaded, sweeping, lock, stack>>
    BY <1>4 DEF store, flags
  <2>2. Forward /\ Stacks'
    BY <1>1, <2>1, Unmoved
  <2>3. LTypeOK'
    BY <1>1, <2>1 DEF LTypeOK
  <2>4. ParentsKnown' /\ LockQuiet'
    BY <1>1, <2>1 DEF ParentsKnown, NeedsLoad, LockQuiet
  <2>5. Alone(t)
    BY <2>1 DEF Alone
  <2>6. Placed(t)'
    BY <1>1, <2>1 DEF Placed, Loading
  <2>7. Swept(t)'
    <3>1. \A j \in Sound : j \in Left(t) \/ Safe(j)
      BY <1>1, QuietThread
    <3>2. \A j \in Sound : j = i => Safe(j)
      BY <1>4 DEF Safe
    <3> QED
      BY <1>2, <2>2, <3>1, <3>2 DEF Swept, Forward
  <2>8. t \in Holding'
    BY <1>1 DEF Holding, Placed, Threads
  <2> QED
    BY <2>1, <2>2, <2>3, <2>4, <2>5, <2>6, <2>7, <2>8, Others
<1> QED
  BY <1>3, <1>4

LEMMA FindLoadsInv ==
    ASSUME IInv, NEW r \in Requests, FindLoads(r)
    PROVE  IInv'
<1> DEFINE w == work[r]
           i == Head(w.todo)
<1>1. /\ ~Loading(r) /\ pc[r] = "sweep" /\ w.todo # <<>>
      /\ work' = [work EXCEPT ![r].todo = Tail(@)]
      /\ stack' = IF i \notin inmemory THEN [stack EXCEPT ![r] = Push(@, i)] ELSE stack
      /\ UNCHANGED <<store, flags, permits, pc>>
  BY DEF FindLoads, Quiet
<1>2. LTypeOK /\ r \in Threads
  BY DEF IInv, Threads
<1>3. w \in Work /\ w.todo \in Seq(Items) /\ Tail(w.todo) \in Seq(Items)
  BY <1>1, <1>2, Rest DEF LTypeOK, Work
<1>4. [w EXCEPT !.todo = Tail(w.todo)] \in Work
  BY <1>3 DEF Work
<1>5. /\ work' \in [Threads -> Work] /\ work'[r].todo = Tail(w.todo)
      /\ \A s \in Threads : s # r => work'[s] = work[s]
  BY <1>1, <1>2, <1>3, <1>4 DEF LTypeOK, Work
<1> QED
  BY <1>1, <1>2, <1>5, TakesNext

LEMMA FindLoadedInv ==
    ASSUME IInv, NEW r \in Requests, FindLoaded(r)
    PROVE  IInv'
<1>1. /\ ~Loading(r) /\ pc[r] = "sweep" /\ work[r].todo = <<>>
      /\ collLoaded' = TRUE /\ sweeping' = FALSE /\ pc' = [pc EXCEPT ![r] = "search"]
      /\ UNCHANGED <<parent, inmemory, ready, file, lock, permits, work, stack>>
  BY DEF FindLoaded, Quiet, store, GoTo
<1>2. LTypeOK /\ ParentsKnown /\ LockQuiet /\ r \in Threads /\ Swept(r)
  BY DEF IInv, Threads, Sweeps
<1>3. LTypeOK'
  BY <1>1, <1>2 DEF LTypeOK, Points
<1>4. ParentsKnown'
  BY <1>1, <1>2 DEF ParentsKnown, NeedsLoad
<1>5. pc'[r] = "search" /\ \A s \in Threads : s # r => pc'[s] = pc[s]
  BY <1>1, <1>2 DEF LTypeOK
<1>6. LockQuiet'
  BY <1>1, <1>2, <1>5 DEF LockQuiet, LTypeOK
<1>7. \A i \in Sound : Safe(i)
  BY <1>1, <1>2, QuietThread DEF Left
<1> QED
  BY <1>1, <1>3, <1>4, <1>5, <1>6, <1>7, RequestMoves

LEMMA FindAnswersInv ==
    ASSUME IInv, NEW r \in Requests, FindAnswers(r)
    PROVE  IInv'
<1>1. /\ ~Loading(r) /\ pc[r] = "search" /\ pc' = [pc EXCEPT ![r] = "leave"] /\ lock = Nil
      /\ UNCHANGED <<parent, inmemory, ready, file, collLoaded, sweeping, lock, permits, work, stack>>
  BY DEF FindAnswers, Quiet, store, flags, GoTo
<1>2. LTypeOK /\ ParentsKnown /\ r \in Threads
  BY DEF IInv, Threads
<1>3. LTypeOK'
  BY <1>1, <1>2 DEF LTypeOK, Points
<1>4. ParentsKnown' /\ LockQuiet'
  BY <1>1, <1>2 DEF ParentsKnown, NeedsLoad, LockQuiet
<1>5. pc'[r] = "leave" /\ \A s \in Threads : s # r => pc'[s] = pc[s]
  BY <1>1, <1>2 DEF LTypeOK
<1> QED
  BY <1>1, <1>3, <1>4, <1>5, RequestMoves

\* The loader takes a permit, puts it back or ends.
LEMMA LoaderMoves ==
    ASSUME IInv, ~Loading(Loader), pc[Loader] \in {"wait", "hold"},
           UNCHANGED <<parent, inmemory, ready, file, sweeping, lock, stack>>,
           pc'[Loader] \in {"wait", "hold", "ended"}, pc' \in [Threads -> Points],
           \A s \in Threads : s # Loader => pc'[s] = pc[s],
           permits' \in Nat, work' \in [Threads -> Work],
           \A s \in Threads : s # Loader => work'[s] = work[s],
           work'[Loader].todo = work[Loader].todo,
           pc'[Loader] = "hold" => work[Loader].todo # <<>>,
           pc'[Loader] = "hold" \/ permits' >= 1 \/ (pc[Loader] = "wait" /\ permits' = permits),
           LTypeOK', collLoaded' => collLoaded \/ \A i \in Sound : Safe(i)
    PROVE  IInv'
<1>1. LTypeOK /\ ParentsKnown /\ LockQuiet /\ Loader \in Threads /\ Swept(Loader) /\ Permits
  BY DEF IInv, Threads, Sweeps
<1>2. Forward /\ Stacks'
  BY Unmoved DEF IInv
<1>4. ParentsKnown'
  BY <1>1 DEF ParentsKnown, NeedsLoad
<1>5. Alone(Loader)
  BY DEF Alone
<1>6. LockQuiet'
  BY <1>1, <1>5 DEF LockQuiet, LTypeOK, Alone
<1>7. Placed(Loader)'
  BY <1>5 DEF Placed, Loading
<1>8. Swept(Loader)'
  <2>1. Kept(Loader)
    BY DEF Kept, InFrames
  <2> QED
    BY <1>1, <1>2, <2>1, SweptStays
<1>9. permits' >= 1 \/ Holding' # {}
  <2>1. CASE pc'[Loader] = "hold"
    BY <1>5, <2>1 DEF Holding
  <2>2. CASE pc[Loader] = "wait" /\ permits' = permits
    <3>1. Holding \subseteq Holding'
      BY <1>5, <2>2, LoadAssumption DEF Holding, Alone, Threads
    <3> QED
      BY <1>1, <2>2, <3>1 DEF Permits
  <2> QED
    BY <2>1, <2>2
<1>10. collLoaded' => collLoaded \/ \A i \in Sound : Safe(i)'
  BY <1>2 DEF Forward
<1> QED
  BY <1>1, <1>2, <1>4, <1>5, <1>6, <1>7, <1>8, <1>9, <1>10, Others

LEMMA LoaderAcquiresInv == IInv /\ LoaderAcquires => IInv'
<1> SUFFICES ASSUME IInv, LoaderAcquires PROVE IInv'
  OBVIOUS
<1>1. /\ ~Loading(Loader) /\ pc[Loader] = "wait" /\ work[Loader].todo # <<>>
      /\ permits > 0 /\ permits' = permits - 1 /\ pc' = [pc EXCEPT ![Loader] = "hold"]
      /\ UNCHANGED <<parent, inmemory, ready, file, collLoaded, sweeping, lock, work, stack>>
  BY DEF LoaderAcquires, Quiet, store, flags, GoTo
<1>2. permits' \in Nat /\ work' \in [Threads -> Work]
  BY <1>1 DEF IInv, LTypeOK
<1>3. /\ pc'[Loader] = "hold" /\ pc' \in [Threads -> Points]
      /\ \A s \in Threads : s # Loader => pc'[s] = pc[s]
  BY <1>1 DEF IInv, LTypeOK, Points, Threads
<1>4. LTypeOK' /\ (collLoaded' => collLoaded \/ \A i \in Sound : Safe(i))
  BY <1>1, <1>2, <1>3 DEF IInv, LTypeOK
<1>5. /\ \A s \in Threads : s # Loader => work'[s] = work[s]
      /\ work'[Loader].todo = work[Loader].todo
  BY <1>1
<1>6. UNCHANGED <<parent, inmemory, ready, file, sweeping, lock, stack>>
  BY <1>1
<1>7. ~Loading(Loader) /\ pc[Loader] \in {"wait", "hold"} /\ work[Loader].todo # <<>>
  BY <1>1
<1> QED
  BY <1>2, <1>3, <1>4, <1>5, <1>6, <1>7, LoaderMoves

LEMMA LoaderLoadsInv == IInv /\ LoaderLoads => IInv'
<1> SUFFICES ASSUME IInv, LoaderLoads PROVE IInv'
  OBVIOUS
<1> DEFINE w == work[Loader]
           i == Head(w.todo)
<1>1. /\ ~Loading(Loader) /\ pc[Loader] = "hold" /\ w.item = Nil
      /\ work' = [work EXCEPT ![Loader].todo = Tail(@), ![Loader].item = i]
      /\ stack' = IF i \notin inmemory THEN [stack EXCEPT ![Loader] = Push(@, i)] ELSE stack
      /\ UNCHANGED <<store, flags, permits, pc>>
  BY DEF LoaderLoads, Quiet
<1>2. LTypeOK /\ Loader \in Threads /\ w.todo # <<>>
  BY <1>1 DEF IInv, Threads, Places, Placed
<1>3. w \in Work /\ w.todo \in Seq(Items) /\ Tail(w.todo) \in Seq(Items) /\ i \in Items
  BY <1>1, <1>2, Rest DEF LTypeOK, Work
<1> HIDE DEF i
<1>4. [w EXCEPT !.todo = Tail(w.todo), !.item = i] \in Work
  BY <1>3 DEF Work
<1>5. /\ work' \in [Threads -> Work] /\ work'[Loader].todo = Tail(w.todo) /\ work'[Loader].item = i
      /\ \A s \in Threads : s # Loader => work'[s] = work[s]
  BY <1>1, <1>2, <1>3, <1>4 DEF LTypeOK, Work
<1>6. i # Nil /\ i = Head(work[Loader].todo)
  BY <1>3, LoadAssumption DEF i
<1> QED
  BY <1>1, <1>2, <1>5, <1>6, TakesNext

LEMMA LoaderReleasesInv == IInv /\ LoaderReleases => IInv'
<1> SUFFICES ASSUME IInv, LoaderReleases PROVE IInv'
  OBVIOUS
<1> DEFINE w == work[Loader]
<1>1. /\ ~Loading(Loader) /\ pc[Loader] = "hold" /\ permits' = permits + 1
      /\ work' = [work EXCEPT ![Loader].item = Nil] /\ pc' = [pc EXCEPT ![Loader] = "wait"]
      /\ UNCHANGED <<parent, inmemory, ready, file, collLoaded, sweeping, lock, stack>>
  BY DEF LoaderReleases, Quiet, store, flags, GoTo
<1>2. LTypeOK /\ Loader \in Threads
  BY DEF IInv, Threads
<1>3. w \in Work /\ [w EXCEPT !.item = Nil] \in Work
  BY <1>2 DEF LTypeOK, Work
<1>4. /\ work' \in [Threads -> Work] /\ work'[Loader].todo = w.todo
      /\ \A s \in Threads : s # Loader => work'[s] = work[s]
  BY <1>1, <1>2, <1>3 DEF LTypeOK, Work
<1>5. permits' \in Nat /\ permits' >= 1
  BY <1>1, <1>2 DEF LTypeOK
<1>6. /\ pc'[Loader] = "wait" /\ pc' \in [Threads -> Points]
      /\ \A s \in Threads : s # Loader => pc'[s] = pc[s]
  BY <1>1, <1>2 DEF LTypeOK, Points
<1>7. LTypeOK' /\ (collLoaded' => collLoaded \/ \A i \in Sound : Safe(i))
  BY <1>1, <1>2, <1>4, <1>5, <1>6 DEF LTypeOK
<1>8. UNCHANGED <<parent, inmemory, ready, file, sweeping, lock, stack>>
  BY <1>1
<1>9. ~Loading(Loader) /\ pc[Loader] \in {"wait", "hold"}
  BY <1>1
<1> QED
  BY <1>4, <1>5, <1>6, <1>7, <1>8, <1>9, LoaderMoves

LEMMA LoaderEndsInv == IInv /\ LoaderEnds => IInv'
<1> SUFFICES ASSUME IInv, LoaderEnds PROVE IInv'
  OBVIOUS
<1>1. /\ ~Loading(Loader) /\ pc[Loader] = "wait" /\ work[Loader].todo = <<>>
      /\ collLoaded' = TRUE /\ pc' = [pc EXCEPT ![Loader] = "ended"]
      /\ UNCHANGED <<parent, inmemory, ready, file, sweeping, lock, permits, work, stack>>
  BY DEF LoaderEnds, Quiet, store, GoTo
<1>2. LTypeOK /\ Loader \in Threads /\ Swept(Loader)
  BY DEF IInv, Threads, Sweeps
<1>3. \A i \in Sound : Safe(i)
  BY <1>1, <1>2, QuietThread DEF Left
<1>4. permits' \in Nat /\ work' \in [Threads -> Work]
  BY <1>1, <1>2 DEF LTypeOK
<1>5. /\ pc'[Loader] = "ended" /\ pc' \in [Threads -> Points]
      /\ \A s \in Threads : s # Loader => pc'[s] = pc[s]
  BY <1>1, <1>2 DEF LTypeOK, Points
<1>6. LTypeOK'
  BY <1>1, <1>2, <1>4, <1>5 DEF LTypeOK
<1> QED
  BY <1>1, <1>3, <1>4, <1>5, <1>6, LoaderMoves

-----------------------------------------------------------------------------
(* The theorems                                                            *)

LEMMA StutterInv == IInv /\ UNCHANGED lvars => IInv'
<1> SUFFICES ASSUME IInv, UNCHANGED lvars PROVE IInv'
  OBVIOUS
<1>1. UNCHANGED <<parent, inmemory, ready, file, collLoaded, sweeping, lock, permits, pc, work, stack>>
  BY DEF lvars
<1>2. Forward /\ Stacks'
  BY <1>1, Unmoved DEF IInv
<1>3. LTypeOK' /\ Places'
  BY <1>1 DEF IInv, LTypeOK, Places, Placed, Loading
<1>4. ParentsKnown' /\ LockQuiet' /\ Permits'
  BY <1>1 DEF IInv, ParentsKnown, NeedsLoad, LockQuiet, Permits, Holding
<1>5. Sweeps'
  BY <1>1 DEF IInv, Sweeps, Swept, Left, Safe, Assigning, Loading, Top, InFrames
<1> QED
  BY <1>2, <1>3, <1>4, <1>5 DEF IInv

LEMMA NextInv == IInv /\ [LNext]_lvars => IInv'
<1> SUFFICES ASSUME IInv, [LNext]_lvars PROVE IInv'
  OBVIOUS
<1>1. ASSUME NEW t \in Threads, Load(t) PROVE IInv'
  BY <1>1, LoadInv
<1>2. ASSUME NEW r \in Requests, Enter(r) \/ Proceed(r) PROVE IInv'
  BY <1>2, EnterInv, LeaveInv, ChooseInv, EditLoadsInv, EditInv, SaveLocksInv, SaveIndexesInv,
     FindBeginsInv, FindLoadsInv, FindLoadedInv, FindAnswersInv DEF Proceed
<1>3. CASE LoaderAcquires \/ LoaderStep
  BY <1>3, LoaderAcquiresInv, LoaderLoadsInv, LoaderReleasesInv, LoaderEndsInv DEF LoaderStep
<1>4. CASE UNCHANGED lvars
  BY <1>4, StutterInv
<1> QED
  BY <1>1, <1>2, <1>3, <1>4 DEF LNext

LEMMA AlwaysInv == LSpec => []IInv
BY InitInv, NextInv, PTL DEF LSpec

\* Types, through loads that fail or nest, in any number of threads.
THEOREM LoadingTyped == LSpec => []LTypeOK
<1>1. IInv => LTypeOK
  BY DEF IInv
<1> QED
  BY <1>1, AlwaysInv, PTL

\* The semaphore (remote.py _dispatch, cobbler/utils/thread.py run): a request puts back
\* a permit however it ends, so that the loader is not shut out for ever.
THEOREM PermitsStay == LSpec => []PermitKept
<1>1. IInv => PermitKept
  <2> SUFFICES ASSUME IInv PROVE PermitKept
    OBVIOUS
  <2>1. permits \in Nat /\ IsFiniteSet(Holding) /\ (permits >= 1 \/ Holding # {})
    BY DEF IInv, LTypeOK, Permits
  <2>2. Cardinality(Holding) \in Nat /\ (Holding # {} => Cardinality(Holding) # 0)
    BY <2>1, FS_CardinalityType, FS_EmptySet
  <2> QED
    BY <2>1, <2>2 DEF PermitKept
<1> QED
  BY <1>1, AlwaysInv, PTL

\* A collection that counts as loaded (find, or the end of the background loader) has no
\* sound item that is left as a stub, whoever loaded the items and whatever failed.
THEOREM LoadedIsComplete == LSpec => []CollectionLoaded
<1>1. IInv => CollectionLoaded
  <2> SUFFICES ASSUME IInv, collLoaded, NEW i \in Items \ Broken
               PROVE  i \in inmemory \/ \E t \in Threads : InFrames(t, i)
    BY DEF CollectionLoaded, InFrames
  <2>1. Safe(i)
    BY DEF IInv, Sweeps, Sound
  <2>2. ASSUME NEW t \in Threads, Assigning(t, i)  PROVE InFrames(t, i)
    <3>1. Loading(t) /\ stack[t][Len(stack[t])].item = i
      BY <2>2 DEF Assigning, Top
    <3>2. Len(stack[t]) \in 1..Len(stack[t]) /\ stack[t] \in Seq(Frame)
      BY <3>1, TopTyped DEF IInv
    <3>3. Len(stack[t]) \in DOMAIN stack[t]
      BY <3>2
    <3> QED
      BY <3>1, <3>3 DEF InFrames
  <2> QED
    BY <2>1, <2>2 DEF Safe
<1> QED
  BY <1>1, AlwaysInv, PTL

\* Collection.add reads the index keys of an item under a lock that is not reentrant:
\* nothing there loads an item, since the parents of an item are loaded before it.
THEOREM NobodyLoadsLocked == LSpec => []NoLoadUnderLock
<1>1. IInv => NoLoadUnderLock
  BY DEF IInv, NoLoadUnderLock, LockQuiet, Places, Placed, LTypeOK
<1> QED
  BY <1>1, AlwaysInv, PTL

=============================================================================
