--------------------------- MODULE ThreadsProofs ---------------------------
(***************************************************************************)
(* Proofs about the threads of the daemon that share its tables: the       *)
(* tokens and tasks of the interface (Sessions), and one collection with   *)
(* its indexes (CollectionThreads).                                        *)
(***************************************************************************)
EXTENDS Sessions, CollectionThreads, TLAPS

-----------------------------------------------------------------------------
(***************************************************************************)
(* Proofs about Sessions, for any number of tokens, tasks and calls and    *)
(* any lifetimes: a retired token of a client that makes one call at a     *)
(* time is never accepted again, and the event of a task that has ended    *)
(* tells how the task went.                                                *)
(***************************************************************************)

TaskStates == {"info", "failed", "complete"}
Stages == {"none", "pre", "run", "set", "clear", "post", "ended"}

SessionsTypesOK ==
    /\ now \in Nat
    /\ check \in [Tokens -> [at : Phases \cup {"none"}, todo : SUBSET (Tokens \cup Tasks)]]
    /\ Known(tokens) \subseteq Tokens
    /\ Known(events) \subseteq Tasks
    /\ events \in [Known(events) -> [born : Nat, state : TaskStates]]
    /\ task \in [Tasks -> [at : Stages, state : TaskStates, rescue : BOOLEAN]]

\* A sequential client that has logged out has no call left that would write its
\* token back: the call that it begins afterwards does not find the token.
Retired(t) == t \notin Known(tokens) /\ check[t].at # "renew"
LogoutInv == \A t \in Sequential \cap loggedOut : Retired(t)

\* What the thread of a task still has to write agrees with what happened, unless
\* its event has expired, and an expired event does not come back.
Told(k, s) == k \in Known(events) => events[k].state = s
Truth(k) == IF k \in failed THEN "failed" ELSE "complete"
TaskTold(k) ==
    /\ task[k].at \in {"none", "pre", "run", "post"} => k \notin failed
    /\ task[k].at \in {"set", "clear"} /\ k \in Known(events) => task[k].state = Truth(k)
    /\ task[k].at \in {"set", "clear"} => task[k].state \in {"failed", "complete"}
    /\ task[k].at \in {"set", "clear"} /\ task[k].state = "complete" => k \notin failed
    /\ task[k].at = "clear" => Told(k, task[k].state)
    /\ task[k].at = "post" => Told(k, "complete")
    /\ task[k].at = "ended" => Told(k, Truth(k))
TasksTold == \A k \in Tasks : TaskTold(k)

SessionsIInv == SessionsTypesOK /\ LogoutInv /\ TasksTold

-----------------------------------------------------------------------------
(* The tables                                                              *)

LEMMA Tables ==
    ASSUME NEW f, NEW x, NEW v
    PROVE  /\ DOMAIN With(f, x, v) = DOMAIN f \cup {x}
           /\ \A y \in DOMAIN f \cup {x} : With(f, x, v)[y] = IF y = x THEN v ELSE f[y]
           /\ DOMAIN Without(f, x) = DOMAIN f \ {x}
           /\ \A y \in DOMAIN f \ {x} : Without(f, x)[y] = f[y]
BY DEF With, Without, Restrict

LEMMA TablesTyped ==
    ASSUME NEW S, NEW V, NEW f \in [S -> V], NEW x, NEW v \in V
    PROVE  /\ With(f, x, v) \in [S \cup {x} -> V]
           /\ Without(f, x) \in [S \ {x} -> V]
BY DEF With, Without, Restrict

LEMMA InitOK == SInit => SessionsIInv
BY SessionAssumption DEF SInit, SessionsIInv, SessionsTypesOK, LogoutInv, TasksTold, TaskTold, Told, Known,
       NoCheck, TaskAt, Stages, TaskStates

-----------------------------------------------------------------------------
(* The steps that change tokens and calls only                             *)

\* Such a step keeps SessionsIInv when it writes no retired token back.
LEMMA TokensOnly ==
    ASSUME SessionsIInv, UNCHANGED <<now, events, task, failed>>,
           Known(tokens') \subseteq Tokens,
           check' \in [Tokens -> [at : Phases \cup {"none"}, todo : SUBSET (Tokens \cup Tasks)]],
           LogoutInv'
    PROVE  SessionsIInv'
<1>1. SessionsTypesOK'
  BY DEF SessionsIInv, SessionsTypesOK, Known
<1>2. TasksTold'
  BY DEF SessionsIInv, TasksTold, TaskTold, Told, Truth, Known
<1> QED
  BY <1>1, <1>2 DEF SessionsIInv

LEMMA LoginOK == ASSUME SessionsIInv, NEW t \in Tokens, Login(t) PROVE SessionsIInv'
<1>1. Known(tokens') = Known(tokens) \cup {t} /\ t \notin loggedOut
  BY Tables DEF Login, Known
<1>2. LogoutInv'
  BY <1>1 DEF Login, SessionsIInv, LogoutInv, Retired
<1> QED
  BY <1>1, <1>2, TokensOnly DEF Login, SessionsIInv, SessionsTypesOK

LEMMA LogoutOK == ASSUME SessionsIInv, NEW t \in Tokens, Logout(t) PROVE SessionsIInv'
<1>1. Known(tokens') = Known(tokens) \ {t}
  BY Tables DEF Logout, Known
<1>2. t \in Sequential => check[t].at # "renew"
  BY DEF Logout, Accepted, Free
<1>3. LogoutInv'
  BY <1>1, <1>2 DEF Logout, SessionsIInv, LogoutInv, Retired
<1> QED
  BY <1>1, <1>3, TokensOnly DEF Logout, SessionsIInv, SessionsTypesOK

\* A step of a call that leaves the tables alone.
LEMMA CallGoesOn ==
    ASSUME SessionsIInv, NEW t \in Tokens, UNCHANGED <<now, tokens, events, loggedOut, task, failed>>,
           NEW c \in [at : Phases \cup {"none"}, todo : SUBSET (Tokens \cup Tasks)],
           check' = [check EXCEPT ![t] = c],
           c.at = "renew" => t \in Known(tokens)
    PROVE  SessionsIInv'
<1>1. check' \in [Tokens -> [at : Phases \cup {"none"}, todo : SUBSET (Tokens \cup Tasks)]]
  BY DEF SessionsIInv, SessionsTypesOK
<1>2. LogoutInv'
  BY SessionAssumption DEF SessionsIInv, SessionsTypesOK, LogoutInv, Retired, Known
<1> QED
  BY <1>1, <1>2, TokensOnly DEF SessionsIInv, SessionsTypesOK, Known

LEMMA CallTyped ==
    ASSUME NEW p \in Phases \cup {"none"}, NEW todo \in SUBSET (Tokens \cup Tasks)
    PROVE  /\ [at |-> p, todo |-> todo] \in
                  [at : Phases \cup {"none"}, todo : SUBSET (Tokens \cup Tasks)]
           /\ [at |-> p, todo |-> todo].at = p
BY DEF Phases

LEMMA CheckBeginsOK == ASSUME SessionsIInv, NEW t \in Tokens, CheckBegins(t) PROVE SessionsIInv'
<1> DEFINE c == [at |-> "tokens", todo |-> Known(tokens)]
<1>1. Known(tokens) \in SUBSET (Tokens \cup Tasks) /\ "tokens" \in Phases
  BY DEF Phases, SessionsIInv, SessionsTypesOK
<1>2. /\ c \in [at : Phases \cup {"none"}, todo : SUBSET (Tokens \cup Tasks)]
      /\ c.at # "renew"
  BY <1>1, CallTyped
<1>3. check' = [check EXCEPT ![t] = c] /\ UNCHANGED <<now, tokens, events, loggedOut, task, failed>>
  BY DEF CheckBegins, Phase, tables, Others
<1> HIDE DEF c
<1> QED
  BY <1>2, <1>3, CallGoesOn

LEMMA AnswerOK ==
    ASSUME SessionsIInv, NEW t \in Tokens, Answer(t), UNCHANGED <<tables, Others>>
    PROVE  SessionsIInv'
<1>1. /\ NoCheck \in [at : Phases \cup {"none"}, todo : SUBSET (Tokens \cup Tasks)]
      /\ NoCheck.at # "renew"
  BY DEF NoCheck
<1>2. /\ check' = [check EXCEPT ![t] = NoCheck]
      /\ UNCHANGED <<now, tokens, events, loggedOut, task, failed>>
  BY DEF Answer, tables, Others
<1> QED
  BY <1>1, <1>2, CallGoesOn

LEMMA SweepRaisesOK == ASSUME SessionsIInv, NEW t \in Tokens, SweepRaises(t) PROVE SessionsIInv'
BY AnswerOK DEF SweepRaises, tables, Others

LEMMA NextPhaseOK == ASSUME SessionsIInv, NEW t \in Tokens, NextPhase(t) PROVE SessionsIInv'
<1>1. PICK p \in {"events", "lookup"}, todo \in {Known(events), {}} : Phase(t, p, todo)
  BY DEF NextPhase
<1> DEFINE c == [at |-> p, todo |-> todo]
<1>2. p \in Phases /\ p # "renew" /\ todo \in SUBSET (Tokens \cup Tasks)
  BY DEF Phases, SessionsIInv, SessionsTypesOK
<1>3. /\ c \in [at : Phases \cup {"none"}, todo : SUBSET (Tokens \cup Tasks)]
      /\ c.at # "renew"
  BY <1>2, CallTyped
<1>4. check' = [check EXCEPT ![t] = c] /\ UNCHANGED <<now, tokens, events, loggedOut, task, failed>>
  BY <1>1 DEF NextPhase, Phase, tables, Others
<1> HIDE DEF c
<1> QED
  BY <1>3, <1>4, CallGoesOn

LEMMA LookUpOK == ASSUME SessionsIInv, NEW t \in Tokens, LookUp(t) PROVE SessionsIInv'
<1>1. CASE t \in Known(tokens)
  <2> DEFINE c == [at |-> "renew", todo |-> {}]
  <2>1. c \in [at : Phases \cup {"none"}, todo : SUBSET (Tokens \cup Tasks)]
    BY CallTyped DEF Phases
  <2>2. /\ check' = [check EXCEPT ![t] = c]
        /\ UNCHANGED <<now, tokens, events, loggedOut, task, failed>>
    BY <1>1 DEF LookUp, Phase, tables, Others
  <2> HIDE DEF c
  <2> QED
    BY <1>1, <2>1, <2>2, CallGoesOn
<1>2. CASE t \notin Known(tokens)
  BY <1>2, AnswerOK DEF LookUp, tables, Others
<1> QED
  BY <1>1, <1>2

LEMMA SweepTokenOK == ASSUME SessionsIInv, NEW t \in Tokens, SweepToken(t) PROVE SessionsIInv'
<1>1. PICK x \in check[t].todo \cap Known(tokens) :
        /\ Looked(t, x)
        /\ tokens' = IF now > tokens[x] + TokenLife THEN Without(tokens, x) ELSE tokens
  BY DEF SweepToken
<1>2. Known(tokens') \subseteq Known(tokens)
  BY <1>1 DEF Known, Without, Restrict
<1>3. /\ check' \in [Tokens -> [at : Phases \cup {"none"}, todo : SUBSET (Tokens \cup Tasks)]]
      /\ \A s \in Tokens : check'[s].at = check[s].at
  BY <1>1 DEF Looked, SessionsIInv, SessionsTypesOK
<1>4. LogoutInv'
  BY <1>2, <1>3, SessionAssumption DEF SweepToken, Others, SessionsIInv, LogoutInv, Retired
<1> QED
  BY <1>2, <1>3, <1>4, TokensOnly DEF SweepToken, Others, SessionsIInv, SessionsTypesOK

LEMMA RenewOK == ASSUME SessionsIInv, NEW t \in Tokens, Renew(t) PROVE SessionsIInv'
<1>1. Known(tokens') = Known(tokens) \cup {t} /\ check[t].at = "renew"
  BY Tables DEF Renew, Known
<1>2. /\ check' \in [Tokens -> [at : Phases \cup {"none"}, todo : SUBSET (Tokens \cup Tasks)]]
      /\ \A s \in Tokens : check'[s].at \in {check[s].at, "none"}
  BY DEF Renew, Answer, NoCheck, SessionsIInv, SessionsTypesOK
<1>3. LogoutInv'
  BY <1>1, <1>2, SessionAssumption DEF Renew, Others, SessionsIInv, LogoutInv, Retired
<1> QED
  BY <1>1, <1>2, <1>3, TokensOnly DEF Renew, Others, SessionsIInv, SessionsTypesOK

-----------------------------------------------------------------------------
(* The steps that touch the events                                         *)

LEMMA SweepEventOK == ASSUME SessionsIInv, NEW t \in Tokens, SweepEvent(t) PROVE SessionsIInv'
<1>1. PICK x \in check[t].todo \cap Known(events) :
        /\ Looked(t, x)
        /\ events' = IF now > events[x].born + EventLife THEN Without(events, x) ELSE events
  BY DEF SweepEvent
<1>2. /\ Known(events') \subseteq Known(events)
      /\ \A k \in Known(events') : events'[k] = events[k]
      /\ events' \in [Known(events') -> [born : Nat, state : TaskStates]]
  <2>1. CASE now > events[x].born + EventLife
    <3>1. events' = Without(events, x)
      BY <1>1, <2>1
    <3>2. events \in [Known(events) -> [born : Nat, state : TaskStates]]
      BY DEF SessionsIInv, SessionsTypesOK
    <3>3. /\ DOMAIN Without(events, x) = Known(events) \ {x}
          /\ \A k \in Known(events) \ {x} : Without(events, x)[k] = events[k]
      BY DEF Known, Without, Restrict
    <3>4. Without(events, x) \in [Known(events) \ {x} -> [born : Nat, state : TaskStates]]
      BY <3>2 DEF Known, Without, Restrict
    <3> QED
      BY <3>1, <3>3, <3>4 DEF Known
  <2>2. CASE ~(now > events[x].born + EventLife)
    BY <1>1, <2>2 DEF Known, SessionsIInv, SessionsTypesOK
  <2> QED
    BY <2>1, <2>2
<1>3. /\ check' \in [Tokens -> [at : Phases \cup {"none"}, todo : SUBSET (Tokens \cup Tasks)]]
      /\ \A s \in Tokens : check'[s].at = check[s].at
  BY <1>1 DEF Looked, SessionsIInv, SessionsTypesOK
<1>4. SessionsTypesOK'
  BY <1>2, <1>3 DEF SweepEvent, Others, SessionsIInv, SessionsTypesOK, Known
<1>5. LogoutInv'
  BY <1>3, SessionAssumption DEF SweepEvent, Others, SessionsIInv, LogoutInv, Retired, Known
<1>6. TasksTold'
  BY <1>2 DEF SweepEvent, Others, SessionsIInv, TasksTold, TaskTold, Told, Truth
<1> QED
  BY <1>4, <1>5, <1>6 DEF SessionsIInv

LEMMA StartTaskOK == ASSUME SessionsIInv, NEW t \in Tokens, NEW k \in Tasks, StartTask(t, k) PROVE SessionsIInv'
<1>1. /\ Known(events') = Known(events) \cup {k}
      /\ \A l \in Known(events) \ {k} : events'[l] = events[l]
      /\ events' \in [Known(events') -> [born : Nat, state : TaskStates]]
  <2>1. NewEvent \in [born : Nat, state : TaskStates]
    BY DEF NewEvent, TaskStates, SessionsIInv, SessionsTypesOK
  <2> QED
    <3>1. events' = With(events, k, NewEvent)
      BY DEF StartTask
    <3>2. events \in [Known(events) -> [born : Nat, state : TaskStates]]
      BY DEF SessionsIInv, SessionsTypesOK
    <3>3. With(events, k, NewEvent) \in [Known(events) \cup {k} -> [born : Nat, state : TaskStates]]
      BY <2>1, <3>2, TablesTyped
    <3>4. \A l \in Known(events) \ {k} : With(events, k, NewEvent)[l] = events[l]
      BY DEF Known, With
    <3>5. DOMAIN With(events, k, NewEvent) = Known(events) \cup {k}
      BY DEF Known, With
    <3> QED
      BY <3>1, <3>3, <3>4, <3>5 DEF Known
<1>2. /\ task' \in [Tasks -> [at : Stages, state : TaskStates, rescue : BOOLEAN]]
      /\ task'[k].at = "pre" /\ \A l \in Tasks \ {k} : task'[l] = task[l]
  BY DEF StartTask, TaskAt, Stages, TaskStates, SessionsIInv, SessionsTypesOK
<1>3. k \notin failed
  BY DEF StartTask, SessionsIInv, TasksTold, TaskTold
<1>4. SessionsTypesOK'
  BY <1>1, <1>2 DEF StartTask, SessionsIInv, SessionsTypesOK, Known
<1>5. LogoutInv'
  BY DEF StartTask, SessionsIInv, LogoutInv, Retired, Known
<1>6. TaskTold(k)'
  BY <1>2, <1>3 DEF StartTask, TaskTold
<1>7. \A l \in Tasks \ {k} : TaskTold(l)'
  BY <1>1, <1>2 DEF StartTask, SessionsIInv, TasksTold, TaskTold, Told, Truth
<1> QED
  BY <1>4, <1>5, <1>6, <1>7 DEF SessionsIInv, TasksTold

-----------------------------------------------------------------------------
(* The threads of the tasks                                                *)

\* A thread goes on and leaves the events alone: only its own task is to be
\* looked at.
LEMMA ThreadGoesOn ==
    ASSUME SessionsIInv, NEW k \in Tasks, NEW to \in [at : Stages, state : TaskStates, rescue : BOOLEAN],
           TaskGoes(k, to), UNCHANGED <<now, tables, loggedOut, check>>,
           failed' \in {failed, failed \cup {k}}, TaskTold(k)'
    PROVE  SessionsIInv'
<1>1. SessionsTypesOK'
  BY DEF TaskGoes, tables, SessionsIInv, SessionsTypesOK, Known
<1>2. LogoutInv'
  BY DEF tables, SessionsIInv, LogoutInv, Retired, Known
<1>3. \A l \in Tasks \ {k} : TaskTold(l)'
  <2> SUFFICES ASSUME NEW l \in Tasks \ {k} PROVE TaskTold(l)'
    OBVIOUS
  <2>1. task'[l] = task[l] /\ (l \in failed' <=> l \in failed) /\ events' = events
    BY DEF TaskGoes, tables, SessionsIInv, SessionsTypesOK
  <2> QED
    BY <2>1 DEF SessionsIInv, TasksTold, TaskTold, Told, Truth, Known
<1> QED
  BY <1>1, <1>2, <1>3 DEF SessionsIInv, TasksTold

LEMMA SettingTyped ==
    ASSUME NEW s \in TaskStates, NEW r \in BOOLEAN, NEW p \in Stages
    PROVE  /\ Setting(s, r) \in [at : Stages, state : TaskStates, rescue : BOOLEAN]
           /\ TaskAt(p) \in [at : Stages, state : TaskStates, rescue : BOOLEAN]
           /\ Setting(s, r).at = "set" /\ Setting(s, r).state = s /\ TaskAt(p).at = p
BY DEF Setting, TaskAt, Stages, TaskStates

\* A thread that has failed goes to tell so.
LEMMA FailingOK ==
    ASSUME SessionsIInv, NEW k \in Tasks, NEW r \in BOOLEAN, Fails(k),
           TaskGoes(k, Setting("failed", r)), UNCHANGED <<now, tables, loggedOut, check>>
    PROVE  SessionsIInv'
<1>1. task'[k] = Setting("failed", r) /\ k \in failed'
  BY DEF TaskGoes, Fails, SessionsIInv, SessionsTypesOK
<1>2. /\ Setting("failed", r) \in [at : Stages, state : TaskStates, rescue : BOOLEAN]
      /\ Setting("failed", r).at = "set" /\ Setting("failed", r).state = "failed"
  BY SettingTyped DEF TaskStates, Stages
<1>3. TaskTold(k)'
  BY <1>1, <1>2 DEF TaskTold, Truth
<1> QED
  BY <1>2, <1>3, ThreadGoesOn DEF Fails

LEMMA PreSucceedsOK == ASSUME SessionsIInv, NEW k \in Tasks, PreSucceeds(k) PROVE SessionsIInv'
<1>1. TaskAt("run") \in [at : Stages, state : TaskStates, rescue : BOOLEAN] /\ TaskAt("run").at = "run"
  BY SettingTyped DEF TaskStates, Stages
<1>2. task'[k] = TaskAt("run") /\ k \notin failed'
  BY DEF PreSucceeds, TaskGoes, SessionsIInv, SessionsTypesOK, TasksTold, TaskTold
<1>3. TaskTold(k)'
  BY <1>1, <1>2 DEF TaskTold
<1> QED
  BY <1>1, <1>3, ThreadGoesOn DEF PreSucceeds

LEMMA RunSucceedsOK == ASSUME SessionsIInv, NEW k \in Tasks, RunSucceeds(k) PROVE SessionsIInv'
<1>1. /\ Setting("complete", FALSE) \in [at : Stages, state : TaskStates, rescue : BOOLEAN]
      /\ Setting("complete", FALSE).at = "set" /\ Setting("complete", FALSE).state = "complete"
  BY SettingTyped DEF TaskStates, Stages
<1>2. task'[k] = Setting("complete", FALSE) /\ k \notin failed'
  BY DEF RunSucceeds, TaskGoes, SessionsIInv, SessionsTypesOK, TasksTold, TaskTold
<1>3. TaskTold(k)'
  BY <1>1, <1>2 DEF TaskTold, Truth
<1> QED
  BY <1>1, <1>3, ThreadGoesOn DEF RunSucceeds

LEMMA PostSucceedsOK == ASSUME SessionsIInv, NEW k \in Tasks, PostSucceeds(k) PROVE SessionsIInv'
<1>1. TaskAt("ended") \in [at : Stages, state : TaskStates, rescue : BOOLEAN] /\ TaskAt("ended").at = "ended"
  BY SettingTyped DEF TaskStates, Stages
<1>2. task'[k] = TaskAt("ended") /\ k \notin failed' /\ events' = events
  BY DEF PostSucceeds, TaskGoes, tables, SessionsIInv, SessionsTypesOK, TasksTold, TaskTold
<1>3. Told(k, "complete")
  BY DEF PostSucceeds, SessionsIInv, TasksTold, TaskTold
<1>4. TaskTold(k)'
  BY <1>1, <1>2, <1>3 DEF TaskTold, Told, Truth, Known
<1> QED
  BY <1>1, <1>4, ThreadGoesOn DEF PostSucceeds

\* The event has expired: whatever the thread goes on with, it tells nobody.
LEMMA ExpiredOK ==
    ASSUME SessionsIInv, NEW k \in Tasks, k \notin Known(events), task[k].at \in {"set", "clear"},
           TaskGoes(k, Rescue(k)), UNCHANGED <<now, tables, loggedOut, check, failed>>
    PROVE  SessionsIInv'
<1>1. Rescue(k) \in {TaskAt("ended"), Setting("failed", TRUE)}
  BY DEF Rescue
<1>2. /\ Rescue(k) \in [at : Stages, state : TaskStates, rescue : BOOLEAN]
      /\ Rescue(k).at \in {"set", "ended"}
      /\ Rescue(k).at = "set" => Rescue(k).state = "failed"
  <2>1. /\ TaskAt("ended") \in [at : Stages, state : TaskStates, rescue : BOOLEAN]
        /\ TaskAt("ended").at = "ended"
    BY SettingTyped DEF TaskStates, Stages
  <2>2. /\ Setting("failed", TRUE) \in [at : Stages, state : TaskStates, rescue : BOOLEAN]
        /\ Setting("failed", TRUE).at = "set" /\ Setting("failed", TRUE).state = "failed"
    BY SettingTyped DEF TaskStates, Stages
  <2> QED
    BY <1>1, <2>1, <2>2
<1>3. task'[k] = Rescue(k) /\ k \notin Known(events')
  BY DEF TaskGoes, tables, SessionsIInv, SessionsTypesOK, Known
<1>4. TaskTold(k)'
  BY <1>2, <1>3 DEF TaskTold, Told
<1> QED
  BY <1>2, <1>4, ThreadGoesOn

LEMMA ClearReadersOK == ASSUME SessionsIInv, NEW k \in Tasks, ClearReaders(k) PROVE SessionsIInv'
<1>1. CASE k \notin Known(events)
  BY <1>1, ExpiredOK DEF ClearReaders
<1>2. CASE k \in Known(events)
  <2> DEFINE p == IF task[k].state = "complete" THEN "post" ELSE "ended"
  <2>1. TaskAt(p) \in [at : Stages, state : TaskStates, rescue : BOOLEAN] /\ TaskAt(p).at = p
    BY SettingTyped DEF TaskStates, Stages
  <2>2. task'[k] = TaskAt(p) /\ failed' = failed /\ events' = events /\ TaskGoes(k, TaskAt(p))
    BY <1>2 DEF ClearReaders, TaskGoes, tables, SessionsIInv, SessionsTypesOK
  <2>3. /\ task[k].state = Truth(k) /\ task[k].state \in {"failed", "complete"}
        /\ events[k].state = task[k].state
    BY <1>2 DEF ClearReaders, SessionsIInv, TasksTold, TaskTold, Told
  <2>4. TaskTold(k)'
    BY <2>1, <2>2, <2>3 DEF TaskTold, Told, Truth, Known
  <2> QED
    BY <2>1, <2>2, <2>4, ThreadGoesOn DEF ClearReaders
<1> QED
  BY <1>1, <1>2

LEMMA SetStateOK == ASSUME SessionsIInv, NEW k \in Tasks, SetState(k) PROVE SessionsIInv'
<1>1. CASE k \notin Known(events)
  BY <1>1, ExpiredOK DEF SetState, tables
<1>2. CASE k \in Known(events)
  <2>1. /\ Known(events') = Known(events)
        /\ \A l \in Known(events) \ {k} : events'[l] = events[l]
        /\ events'[k].state = task[k].state
        /\ events' \in [Known(events') -> [born : Nat, state : TaskStates]]
    BY <1>2 DEF SetState, Known, SessionsIInv, SessionsTypesOK
  <2>2. /\ task' \in [Tasks -> [at : Stages, state : TaskStates, rescue : BOOLEAN]]
        /\ task'[k].at = "clear" /\ task'[k].state = task[k].state
        /\ \A l \in Tasks \ {k} : task'[l] = task[l]
    <3> DEFINE to == [task[k] EXCEPT !.at = "clear"]
    <3>1. task[k] \in [at : Stages, state : TaskStates, rescue : BOOLEAN] /\ "clear" \in Stages
      BY DEF Stages, SessionsIInv, SessionsTypesOK
    <3>2. /\ to \in [at : Stages, state : TaskStates, rescue : BOOLEAN]
          /\ to.at = "clear" /\ to.state = task[k].state
      BY <3>1
    <3>3. task' = [task EXCEPT ![k] = to] /\ task \in [Tasks -> [at : Stages, state : TaskStates, rescue : BOOLEAN]]
      BY <1>2 DEF SetState, TaskGoes, SessionsIInv, SessionsTypesOK
    <3> HIDE DEF to
    <3> QED
      BY <3>2, <3>3
  <2>3. SessionsTypesOK'
    BY <2>1, <2>2 DEF SetState, SessionsIInv, SessionsTypesOK, Known
  <2>4. LogoutInv'
    BY DEF SetState, SessionsIInv, LogoutInv, Retired, Known
  <2>5. /\ k \in Known(events) => task[k].state = Truth(k)
        /\ task[k].state \in {"failed", "complete"}
        /\ task[k].state = "complete" => k \notin failed
    BY DEF SetState, SessionsIInv, TasksTold, TaskTold
  <2>6. TaskTold(k)'
    BY <2>1, <2>2, <2>5 DEF SetState, TaskTold, Told, Truth
  <2>7. \A l \in Tasks \ {k} : TaskTold(l)'
    BY <2>1, <2>2 DEF SetState, SessionsIInv, TasksTold, TaskTold, Told, Truth
  <2> QED
    BY <2>3, <2>4, <2>6, <2>7 DEF SessionsIInv, TasksTold
<1> QED
  BY <1>1, <1>2

LEMMA TaskStepOK == ASSUME SessionsIInv, NEW k \in Tasks, TaskStep(k) PROVE SessionsIInv'
<1>1. CASE PreFails(k) \/ RunReturnsFalse(k) \/ TaskRaises(k)
  BY <1>1, FailingOK DEF PreFails, RunReturnsFalse, TaskRaises
<1>2. CASE PreSucceeds(k)
  BY <1>2, PreSucceedsOK
<1>3. CASE RunSucceeds(k)
  BY <1>3, RunSucceedsOK
<1>4. CASE SetState(k)
  BY <1>4, SetStateOK
<1>5. CASE ClearReaders(k)
  BY <1>5, ClearReadersOK
<1>6. CASE PostSucceeds(k)
  BY <1>6, PostSucceedsOK
<1> QED
  BY <1>1, <1>2, <1>3, <1>4, <1>5, <1>6 DEF TaskStep

-----------------------------------------------------------------------------

LEMMA NextOK == SessionsIInv /\ [SNext]_svars => SessionsIInv'
<1> SUFFICES ASSUME SessionsIInv, [SNext]_svars PROVE SessionsIInv'
  OBVIOUS
<1>1. CASE UNCHANGED svars
  BY <1>1 DEF svars, SessionsIInv, SessionsTypesOK, LogoutInv, Retired, TasksTold, TaskTold, Told, Truth, Known
<1>2. CASE Tick
  BY <1>2 DEF Tick, tables, SessionsIInv, SessionsTypesOK, LogoutInv, Retired, TasksTold, TaskTold, Told, Truth, Known
<1>3. CASE \E t \in Tokens : Login(t) \/ Logout(t) \/ CheckBegins(t)
  BY <1>3, LoginOK, LogoutOK, CheckBeginsOK
<1>4. CASE \E t \in Tokens : CheckStep(t)
  BY <1>4, SweepRaisesOK, SweepTokenOK, SweepEventOK, NextPhaseOK, LookUpOK, RenewOK DEF CheckStep
<1>5. CASE \E t \in Tokens, k \in Tasks : StartTask(t, k)
  BY <1>5, StartTaskOK
<1>6. CASE \E k \in Tasks : TaskStep(k)
  BY <1>6, TaskStepOK
<1> QED
  BY <1>1, <1>2, <1>3, <1>4, <1>5, <1>6 DEF SNext

LEMMA AlwaysIInv == SSpec => []SessionsIInv
BY InitOK, NextOK, PTL DEF SSpec

\* A token that a client has retired (logout, remote.py) is not accepted again,
\* whatever token_check calls of others were going through the tokens, if the client
\* itself makes one call at a time.
THEOREM LogoutIsFinal == SSpec => []LogoutFinal
<1>1. SessionsIInv => LogoutFinal
  BY DEF SessionsIInv, LogoutInv, Retired, LogoutFinal
<1> QED
  BY <1>1, AlwaysIInv, PTL

\* The event of a background task (__start_task and CobblerThread.run, remote.py) that
\* has ended tells whether anything failed, for as long as the event exists.
THEOREM TasksTellTheTruth == SSpec => []TaskOutcome
<1>1. SessionsIInv => TaskOutcome
  BY DEF SessionsIInv, TasksTold, TaskTold, Told, Truth, TaskOutcome, Ended
<1> QED
  BY <1>1, AlwaysIInv, PTL

-----------------------------------------------------------------------------
(***************************************************************************)
(* Proofs about CollectionThreads: when every item has one client, the     *)
(* index agrees with the items again whenever nobody is at work on them,   *)
(* and searches are complete, for any number of items, keys and threads.   *)
(*                                                                         *)
(* The inductive invariant says of every thread what it has done to the    *)
(* entries of its item so far (Phases), and of every search where each     *)
(* item it owes is found next (Dues).                                      *)
(***************************************************************************)

\* No two threads edit, add or remove one item.  Two that do may lose each other's
\* update: the attribute and its index entry are changed under different locks.
OneClientPerItem == \A u \in Elements : \A s, t \in Clients[u] : s = t

Editing == {"list", "index", "test", "drop", "put", "unindex", "unlist"}
Searching == {"look", "collect", "answer"}
\* The steps between taking the lock and giving it back.
Inside == {"index", "put", "unlist", "collect"}
AllKeys == Keys \cup {NoKey}

WorkerState ==
    [at: Editing \cup Searching \cup {"rest"}, item: SUBSET Elements,
     old: SUBSET Keys, new: SUBSET Keys,
     todo: SUBSET Elements, found: SUBSET Elements, due: SUBSET Elements]

TypesOK ==
    /\ keys \in [Elements -> SUBSET Keys]
    /\ listing \in SUBSET Elements
    /\ index \in [AllKeys -> SUBSET Elements]
    /\ worker \in [Workers -> WorkerState]

\* Editors have one item, of which they are the client; searches have one key, and
\* nobody else owes an answer.
Roles ==
    \A t \in Workers :
        /\ worker[t].at \in Editing => \E u \in Elements : worker[t].item = {u} /\ t \in Clients[u]
        /\ worker[t].at \notin Editing => worker[t].item = {}
        /\ worker[t].at \in Searching => \E k \in Keys : worker[t].new = {k}
        /\ worker[t].at \notin Searching => worker[t].due = {}

LockHeld == \A t \in Workers : worker[t].at \in Inside => mutex = t

Exact(u, s) == \A k \in AllKeys : u \in index[k] <=> u \in listing /\ k \in IndexKeys(s)
Gone(u) == \A k \in AllKeys : u \notin index[k]

\* What holds of the item u that the thread t works on.
ElementPhase(t, u) ==
    /\ worker[t].at \in {"list", "unindex"} => Exact(u, keys[u])
    /\ worker[t].at = "index" =>
          u \in listing /\ \A k \in AllKeys : u \in index[k] => k \in IndexKeys(keys[u])
    /\ worker[t].at \in {"test", "drop"} => Exact(u, worker[t].old)
    /\ worker[t].at \in {"test", "drop", "put"} => worker[t].new = keys[u]
    /\ worker[t].at \in {"drop", "put"} => u \in listing
    /\ worker[t].at \in {"put", "unlist"} => Gone(u)
ElementPhases == \A t \in Workers : \A u \in worker[t].item : ElementPhase(t, u)

\* The entry is there, or somebody who has the lock has just taken it away.
Findable(u, k) ==
    u \in index[k] \/ \E r \in Workers : u \in worker[r].item /\ worker[r].at \in {"put", "unlist"}
Due(t, u) ==
    /\ u \in listing
    /\ worker[t].at = "look" => \A k \in worker[t].new : k \in keys[u] /\ Findable(u, k)
    /\ worker[t].at = "collect" => u \in worker[t].todo \cup worker[t].found
    /\ worker[t].at = "answer" => u \in worker[t].found
Dues == \A t \in Workers : \A u \in worker[t].due : Due(t, u)

Base == TypesOK /\ Roles /\ LockHeld
IInv == Base /\ ElementPhases /\ EntriesExact /\ Dues

-----------------------------------------------------------------------------
(* Entries of one item                                                     *)

LEMMA PutFacts ==
    ASSUME TypesOK, NEW u \in Elements, NEW ks \in SUBSET Keys, index' = Put({u}, ks)
    PROVE  /\ index' \in [AllKeys -> SUBSET Elements]
           /\ \A k \in AllKeys, v \in Elements \ {u} : v \in index'[k] <=> v \in index[k]
           /\ \A k \in AllKeys : u \in index'[k] <=> u \in index[k] \/ k \in IndexKeys(ks)
BY DEF TypesOK, Put

LEMMA PopFacts ==
    ASSUME TypesOK, NEW u \in Elements, NEW ks \in SUBSET Keys, index' = Pop({u}, ks)
    PROVE  /\ index' \in [AllKeys -> SUBSET Elements]
           /\ \A k \in AllKeys, v \in Elements \ {u} : v \in index'[k] <=> v \in index[k]
           /\ \A k \in AllKeys : u \in index'[k] <=> u \in index[k] /\ k \notin IndexKeys(ks)
BY DEF TypesOK, Pop

LEMMA KeysOfOne ==
    ASSUME TypesOK, NEW u \in Elements
    PROVE  UNION {keys[v] : v \in {u}} = keys[u] /\ keys[u] \in SUBSET Keys
BY DEF TypesOK

\* An editor has one item and no one else is at work on it.
LEMMA EditorOf ==
    ASSUME Base, OneClientPerItem, NEW t \in Workers, worker[t].at \in Editing
    PROVE  \E u \in Elements :
              /\ worker[t].item = {u} /\ t \in Clients[u]
              /\ \A r \in Workers \ {t} : u \notin worker[r].item
BY DEF Base, Roles, OneClientPerItem

LEMMA NobodyElse ==
    ASSUME Base, OneClientPerItem, NEW u \in Elements, NEW t \in Clients[u]
    PROVE  \A r \in Workers \ {t} : u \notin worker[r].item
BY DEF Base, Roles, OneClientPerItem

-----------------------------------------------------------------------------
(* A step of one thread on one item                                        *)

\* What the thread t does to its item u does not reach the other items and threads.
OnlyItem(t, u) ==
    /\ worker[t].item \subseteq {u} /\ worker'[t].item \subseteq {u}
    /\ \A r \in Workers \ {t} :
          /\ u \notin worker[r].item
          /\ worker'[r].at = worker[r].at /\ worker'[r].item = worker[r].item
          /\ worker'[r].old = worker[r].old /\ worker'[r].new = worker[r].new
          /\ worker'[r].todo = worker[r].todo /\ worker'[r].found = worker[r].found
          /\ worker'[r].due \subseteq worker[r].due
    /\ \A v \in Elements \ {u} :
          /\ keys'[v] = keys[v] /\ (v \in listing' <=> v \in listing)
          /\ \A k \in AllKeys : v \in index'[k] <=> v \in index[k]

LEMMA OtherItems ==
    ASSUME IInv, TypesOK', NEW t \in Workers, NEW u \in Elements, OnlyItem(t, u),
           u \in worker'[t].item => ElementPhase(t, u)',
           u \notin worker'[t].item => Exact(u, keys[u])'
    PROVE  ElementPhases' /\ EntriesExact'
<1>1. ASSUME NEW r \in Workers, NEW v \in worker'[r].item
      PROVE  ElementPhase(r, v)'
  <2>1. CASE r = t
    BY <1>1, <2>1 DEF OnlyItem
  <2>2. CASE r # t
    <3>1. v \in worker[r].item /\ v # u /\ v \in Elements
      BY <1>1, <2>2 DEF OnlyItem, IInv, Base, TypesOK, WorkerState
    <3>2. ElementPhase(r, v)
      BY <3>1 DEF IInv, ElementPhases
    <3> QED
      BY <2>2, <3>1, <3>2 DEF OnlyItem, ElementPhase, Exact, Gone
  <2> QED
    BY <2>1, <2>2
<1>2. ASSUME NEW v \in Elements, NEW k \in AllKeys, \A r \in Workers : v \notin worker'[r].item
      PROVE  v \in index'[k] <=> v \in listing' /\ k \in IndexKeys(keys'[v])
  <2>1. CASE v = u
    BY <1>2, <2>1 DEF Exact
  <2>2. CASE v # u
    <3>1. \A r \in Workers : v \notin worker[r].item
      BY <1>2, <2>2 DEF OnlyItem
    <3> QED
      BY <1>2, <2>2, <3>1 DEF OnlyItem, IInv, EntriesExact, AllKeys
  <2> QED
    BY <2>1, <2>2
<1> QED
  BY <1>1, <1>2 DEF ElementPhases, EntriesExact, AllKeys

\* What an editor must show of its item for the searches that owe it.
KeepsDue(t, u) ==
    \A r \in Workers \ {t} : u \in worker'[r].due =>
        /\ u \in listing'
        /\ worker[r].at = "look" => \A k \in worker[r].new :
              k \in keys'[u] /\ (u \in index'[k] \/ (u \in worker'[t].item /\ worker'[t].at \in {"put", "unlist"}))

LEMMA OtherDues ==
    ASSUME IInv, TypesOK', NEW t \in Workers, NEW u \in Elements, OnlyItem(t, u), KeepsDue(t, u),
           worker'[t].due = {}
    PROVE  Dues'
<1> SUFFICES ASSUME NEW r \in Workers, NEW v \in worker'[r].due
             PROVE  Due(r, v)'
  BY DEF Dues
<1>1. r # t /\ v \in worker[r].due /\ v \in Elements
  BY DEF OnlyItem, IInv, Base, TypesOK, WorkerState
<1>2. Due(r, v)
  BY <1>1 DEF IInv, Dues
<1>3. worker[r].new \subseteq AllKeys
  BY DEF IInv, Base, TypesOK, WorkerState, AllKeys
<1>4. CASE v = u
  BY <1>1, <1>2, <1>3, <1>4 DEF OnlyItem, KeepsDue, Due, Findable
<1>5. CASE v # u
  <2>1. \A k \in AllKeys : Findable(v, k) => Findable(v, k)'
    BY <1>1, <1>5 DEF OnlyItem, Findable
  <2> QED
    BY <1>1, <1>2, <1>3, <1>5, <2>1 DEF OnlyItem, Due
<1> QED
  BY <1>4, <1>5

\* Before the step, the entry of an item that is owed was there or t had taken it away.
LEMMA DueBefore ==
    ASSUME IInv, NEW t \in Workers, NEW u \in Elements, OnlyItem(t, u),
           NEW r \in Workers \ {t}, u \in worker'[r].due
    PROVE  /\ u \in listing /\ worker[r].new \subseteq AllKeys
           /\ worker[r].at = "look" => \A k \in worker[r].new :
                 k \in keys[u] /\ (u \in index[k] \/ (u \in worker[t].item /\ worker[t].at \in {"put", "unlist"}))
<1>1. u \in worker[r].due
  BY DEF OnlyItem
<1>2. Due(r, u)
  BY <1>1 DEF IInv, Dues
<1>3. worker[r].new \subseteq AllKeys
  BY DEF IInv, Base, TypesOK, WorkerState, AllKeys
<1> QED
  BY <1>2, <1>3 DEF Due, Findable, OnlyItem

-----------------------------------------------------------------------------
(* The steps of an editor                                                  *)

LEMMA RestingState == Resting \in WorkerState
BY DEF Resting, WorkerState

LEMMA AddBeginsInv ==
    ASSUME IInv, OneClientPerItem, NEW t \in Workers, NEW u \in Elements, AddBegins(t, u)
    PROVE  IInv'
<1> DEFINE next == [Resting EXCEPT !.at = "list", !.item = {u}]
<1>1. /\ t \in Clients[u] /\ worker[t].at = "rest"
      /\ worker' = [worker EXCEPT ![t] = next]
      /\ UNCHANGED <<keys, listing, index, mutex>>
  BY DEF AddBegins, Begin, At
<1>2. next \in WorkerState /\ next.at = "list" /\ next.item = {u} /\ next.due = {}
  BY DEF Resting, WorkerState, Editing
<1> HIDE DEF next
<1>3. Base'
  BY <1>1, <1>2 DEF IInv, Base, TypesOK, Roles, LockHeld, Editing, Searching, Inside
<1>4. worker[t].item = {}
  BY <1>1 DEF IInv, Base, Roles, Editing
<1>5. OnlyItem(t, u)
  BY <1>1, <1>2, <1>4, NobodyElse DEF IInv, Base, TypesOK, OnlyItem
<1>6. Exact(u, keys[u])
  BY <1>4, <1>5 DEF OnlyItem, IInv, EntriesExact, Exact, AllKeys
<1>7. ElementPhases' /\ EntriesExact'
  BY <1>1, <1>2, <1>3, <1>5, <1>6, OtherItems DEF IInv, Base, TypesOK, ElementPhase, Exact
<1>8. KeepsDue(t, u)
  BY <1>1, <1>4, <1>5, DueBefore DEF KeepsDue
<1>9. Dues'
  BY <1>1, <1>2, <1>3, <1>5, <1>8, OtherDues DEF IInv, Base, TypesOK
<1> QED
  BY <1>3, <1>7, <1>9 DEF IInv

LEMMA GoFacts ==
    ASSUME TypesOK, NEW t \in Workers, NEW p \in Editing \cup Searching \cup {"rest"}, Go(t, p)
    PROVE  /\ worker' \in [Workers -> WorkerState]
           /\ worker'[t].at = p /\ worker'[t].item = worker[t].item
           /\ worker'[t].old = worker[t].old /\ worker'[t].new = worker[t].new
           /\ worker'[t].todo = worker[t].todo /\ worker'[t].found = worker[t].found
           /\ worker'[t].due = worker[t].due
           /\ \A r \in Workers \ {t} : worker'[r] = worker[r]
BY DEF Go, TypesOK, WorkerState

LEMMA RestFacts ==
    ASSUME TypesOK, NEW t \in Workers, Rest(t)
    PROVE  /\ worker' \in [Workers -> WorkerState]
           /\ worker'[t].at = "rest" /\ worker'[t].item = {} /\ worker'[t].due = {}
           /\ \A r \in Workers \ {t} : worker'[r] = worker[r]
BY RestingState DEF Rest, TypesOK, Resting

LEMMA KeysIndexed == \A s : \A k \in s : k \in IndexKeys(s)
BY DEF IndexKeys

\* The lock after a thread has taken it, given it back, or left it alone.
LEMMA LockStep ==
    ASSUME LockHeld, NEW t \in Workers,
           \A r \in Workers \ {t} : worker'[r].at = worker[r].at,
           \/ Take(t)
           \/ GiveBack /\ worker[t].at \in Inside /\ worker'[t].at \notin Inside
           \/ mutex' = mutex /\ (worker'[t].at \in Inside => worker[t].at \in Inside)
    PROVE  LockHeld'
BY CollectionAssumption DEF LockHeld, Take, GiveBack

LEMMA RolesStep ==
    ASSUME Roles, NEW t \in Workers,
           \A r \in Workers \ {t} :
              /\ worker'[r].at = worker[r].at /\ worker'[r].item = worker[r].item
              /\ worker'[r].new = worker[r].new /\ worker'[r].due \subseteq worker[r].due,
           worker'[t].at \in Editing => \E u \in Elements : worker'[t].item = {u} /\ t \in Clients[u],
           worker'[t].at \notin Editing => worker'[t].item = {},
           worker'[t].at \in Searching => \E k \in Keys : worker'[t].new = {k},
           worker'[t].at \notin Searching => worker'[t].due = {}
    PROVE  Roles'
BY DEF Roles

LEMMA AddListsInv ==
    ASSUME IInv, OneClientPerItem, NEW t \in Workers, AddLists(t)
    PROVE  IInv'
<1>1. worker[t].at = "list" /\ TypesOK
  BY DEF AddLists, At, IInv, Base
<1>2. PICK u \in Elements : /\ worker[t].item = {u} /\ t \in Clients[u]
                            /\ \A r \in Workers \ {t} : u \notin worker[r].item
  BY <1>1, EditorOf DEF IInv, Editing
<1>3. ElementPhase(t, u)
  BY <1>2 DEF IInv, ElementPhases
<1>4. /\ worker' \in [Workers -> WorkerState]
      /\ worker'[t].at = "index" /\ worker'[t].item = {u} /\ worker'[t].due = {}
      /\ worker'[t].old = worker[t].old /\ worker'[t].new = worker[t].new
      /\ \A r \in Workers \ {t} : worker'[r] = worker[r]
  BY <1>1, <1>2, GoFacts DEF AddLists, IInv, Base, Roles, Editing, Searching
<1>5. /\ index' = index /\ keys' = keys
      /\ listing' = listing \cup {u}
  BY <1>2 DEF AddLists
<1>6. Base'
  <2>1. TypesOK'
    BY <1>1, <1>4, <1>5 DEF TypesOK
  <2>2. Roles'
    BY <1>2, <1>4, RolesStep DEF IInv, Base, Editing, Searching
  <2>3. LockHeld'
    BY <1>1, <1>4, LockStep DEF AddLists, IInv, Base, Inside
  <2> QED
    BY <2>1, <2>2, <2>3 DEF Base
<1>7. OnlyItem(t, u)
  BY <1>1, <1>2, <1>4, <1>5 DEF AddLists, OnlyItem, TypesOK
<1>8. ElementPhase(t, u)'
  BY <1>1, <1>2, <1>3, <1>4, <1>5 DEF AddLists, ElementPhase, Exact, Gone, Editing
<1>9. ElementPhases' /\ EntriesExact'
  BY <1>4, <1>6, <1>7, <1>8, OtherItems DEF Base
<1>10. KeepsDue(t, u)
  BY <1>1, <1>2, <1>3, <1>4, <1>5, <1>7, DueBefore, KeysIndexed DEF AddLists, KeepsDue, ElementPhase, Exact
<1>11. Dues'
  BY <1>4, <1>6, <1>7, <1>10, OtherDues DEF Base
<1> QED
  BY <1>6, <1>9, <1>11 DEF IInv

LEMMA AddIndexesInv ==
    ASSUME IInv, OneClientPerItem, NEW t \in Workers, AddIndexes(t)
    PROVE  IInv'
<1>1. worker[t].at = "index" /\ TypesOK
  BY DEF AddIndexes, At, IInv, Base
<1>2. PICK u \in Elements : /\ worker[t].item = {u} /\ t \in Clients[u]
                            /\ \A r \in Workers \ {t} : u \notin worker[r].item
  BY <1>1, EditorOf DEF IInv, Editing
<1>3. ElementPhase(t, u)
  BY <1>2 DEF IInv, ElementPhases
<1>4. /\ worker' \in [Workers -> WorkerState]
      /\ worker'[t].at = "rest" /\ worker'[t].item = {} /\ worker'[t].due = {}
      /\ \A r \in Workers \ {t} : worker'[r] = worker[r]
  BY <1>1, RestFacts DEF AddIndexes
<1>5. /\ listing' = listing /\ keys' = keys
      /\ index' \in [AllKeys -> SUBSET Elements]
      /\ \A k \in AllKeys, v \in Elements \ {u} : v \in index'[k] <=> v \in index[k]
      /\ \A k \in AllKeys : u \in index'[k] <=> u \in index[k] \/ k \in IndexKeys(keys[u])
  <2>1. keys[u] \in SUBSET Keys
    BY <1>1 DEF TypesOK, WorkerState
  <2>2. index' = Put({u}, keys[u])
    BY <1>1, <1>2, KeysOfOne DEF AddIndexes
  <2> QED
    BY <1>1, <2>1, <2>2, PutFacts DEF AddIndexes
<1>6. Base'
  <2>1. TypesOK'
    BY <1>1, <1>4, <1>5 DEF TypesOK
  <2>2. Roles'
    BY <1>2, <1>4, RolesStep DEF IInv, Base, Editing, Searching
  <2>3. LockHeld'
    BY <1>1, <1>4, LockStep DEF AddIndexes, IInv, Base, Inside
  <2> QED
    BY <2>1, <2>2, <2>3 DEF Base
<1>7. OnlyItem(t, u)
  BY <1>1, <1>2, <1>4, <1>5 DEF AddIndexes, OnlyItem, TypesOK
<1>8. Exact(u, keys[u])'
  BY <1>1, <1>2, <1>3, <1>4, <1>5 DEF AddIndexes, ElementPhase, Exact, Gone, Editing
<1>9. ElementPhases' /\ EntriesExact'
  BY <1>4, <1>6, <1>7, <1>8, OtherItems DEF Base
<1>10. KeepsDue(t, u)
  BY <1>1, <1>2, <1>3, <1>4, <1>5, <1>7, DueBefore, KeysIndexed DEF AddIndexes, KeepsDue, ElementPhase, Exact
<1>11. Dues'
  BY <1>4, <1>6, <1>7, <1>10, OtherDues DEF Base
<1> QED
  BY <1>6, <1>9, <1>11 DEF IInv

LEMMA UpdateDropsInv ==
    ASSUME IInv, OneClientPerItem, NEW t \in Workers, UpdateDrops(t)
    PROVE  IInv'
<1>1. worker[t].at = "drop" /\ TypesOK
  BY DEF UpdateDrops, At, IInv, Base
<1>2. PICK u \in Elements : /\ worker[t].item = {u} /\ t \in Clients[u]
                            /\ \A r \in Workers \ {t} : u \notin worker[r].item
  BY <1>1, EditorOf DEF IInv, Editing
<1>3. ElementPhase(t, u)
  BY <1>2 DEF IInv, ElementPhases
<1>4. /\ worker' \in [Workers -> WorkerState]
      /\ worker'[t].at = "put" /\ worker'[t].item = {u} /\ worker'[t].due = {}
      /\ worker'[t].old = worker[t].old /\ worker'[t].new = worker[t].new
      /\ \A r \in Workers \ {t} : worker'[r] = worker[r]
  BY <1>1, <1>2, GoFacts DEF UpdateDrops, IInv, Base, Roles, Editing, Searching
<1>5. /\ listing' = listing /\ keys' = keys
      /\ index' \in [AllKeys -> SUBSET Elements]
      /\ \A k \in AllKeys, v \in Elements \ {u} : v \in index'[k] <=> v \in index[k]
      /\ \A k \in AllKeys : u \in index'[k] <=> u \in index[k] /\ k \notin IndexKeys(worker[t].old)
  <2>1. worker[t].old \in SUBSET Keys
    BY <1>1 DEF TypesOK, WorkerState
  <2>2. index' = Pop({u}, worker[t].old)
    BY <1>1, <1>2, KeysOfOne DEF UpdateDrops
  <2> QED
    BY <1>1, <2>1, <2>2, PopFacts DEF UpdateDrops
<1>6. Base'
  <2>1. TypesOK'
    BY <1>1, <1>4, <1>5 DEF TypesOK
  <2>2. Roles'
    BY <1>2, <1>4, RolesStep DEF IInv, Base, Editing, Searching
  <2>3. LockHeld'
    BY <1>1, <1>4, LockStep DEF UpdateDrops, IInv, Base, Inside
  <2> QED
    BY <2>1, <2>2, <2>3 DEF Base
<1>7. OnlyItem(t, u)
  BY <1>1, <1>2, <1>4, <1>5 DEF UpdateDrops, OnlyItem, TypesOK
<1>8. ElementPhase(t, u)'
  BY <1>1, <1>2, <1>3, <1>4, <1>5 DEF UpdateDrops, ElementPhase, Exact, Gone, Editing
<1>9. ElementPhases' /\ EntriesExact'
  BY <1>4, <1>6, <1>7, <1>8, OtherItems DEF Base
<1>10. KeepsDue(t, u)
  BY <1>1, <1>2, <1>3, <1>4, <1>5, <1>7, DueBefore, KeysIndexed DEF UpdateDrops, KeepsDue, ElementPhase, Exact
<1>11. Dues'
  BY <1>4, <1>6, <1>7, <1>10, OtherDues DEF Base
<1> QED
  BY <1>6, <1>9, <1>11 DEF IInv

LEMMA UpdatePutsInv ==
    ASSUME IInv, OneClientPerItem, NEW t \in Workers, UpdatePuts(t)
    PROVE  IInv'
<1>1. worker[t].at = "put" /\ TypesOK
  BY DEF UpdatePuts, At, IInv, Base
<1>2. PICK u \in Elements : /\ worker[t].item = {u} /\ t \in Clients[u]
                            /\ \A r \in Workers \ {t} : u \notin worker[r].item
  BY <1>1, EditorOf DEF IInv, Editing
<1>3. ElementPhase(t, u)
  BY <1>2 DEF IInv, ElementPhases
<1>4. /\ worker' \in [Workers -> WorkerState]
      /\ worker'[t].at = "rest" /\ worker'[t].item = {} /\ worker'[t].due = {}
      /\ \A r \in Workers \ {t} : worker'[r] = worker[r]
  BY <1>1, RestFacts DEF UpdatePuts
<1>5. /\ listing' = listing /\ keys' = keys
      /\ index' \in [AllKeys -> SUBSET Elements]
      /\ \A k \in AllKeys, v \in Elements \ {u} : v \in index'[k] <=> v \in index[k]
      /\ \A k \in AllKeys : u \in index'[k] <=> u \in index[k] \/ k \in IndexKeys(worker[t].new)
  <2>1. worker[t].new \in SUBSET Keys
    BY <1>1 DEF TypesOK, WorkerState
  <2>2. index' = Put({u}, worker[t].new)
    BY <1>1, <1>2, KeysOfOne DEF UpdatePuts
  <2> QED
    BY <1>1, <2>1, <2>2, PutFacts DEF UpdatePuts
<1>6. Base'
  <2>1. TypesOK'
    BY <1>1, <1>4, <1>5 DEF TypesOK
  <2>2. Roles'
    BY <1>2, <1>4, RolesStep DEF IInv, Base, Editing, Searching
  <2>3. LockHeld'
    BY <1>1, <1>4, LockStep DEF UpdatePuts, IInv, Base, Inside
  <2> QED
    BY <2>1, <2>2, <2>3 DEF Base
<1>7. OnlyItem(t, u)
  BY <1>1, <1>2, <1>4, <1>5 DEF UpdatePuts, OnlyItem, TypesOK
<1>8. Exact(u, keys[u])'
  BY <1>1, <1>2, <1>3, <1>4, <1>5 DEF UpdatePuts, ElementPhase, Exact, Gone, Editing
<1>9. ElementPhases' /\ EntriesExact'
  BY <1>4, <1>6, <1>7, <1>8, OtherItems DEF Base
<1>10. KeepsDue(t, u)
  BY <1>1, <1>2, <1>3, <1>4, <1>5, <1>7, DueBefore, KeysIndexed DEF UpdatePuts, KeepsDue, ElementPhase, Exact
<1>11. Dues'
  BY <1>4, <1>6, <1>7, <1>10, OtherDues DEF Base
<1> QED
  BY <1>6, <1>9, <1>11 DEF IInv

LEMMA RemoveUnindexesInv ==
    ASSUME IInv, OneClientPerItem, NEW t \in Workers, RemoveUnindexes(t)
    PROVE  IInv'
<1>1. worker[t].at = "unindex" /\ TypesOK
  BY DEF RemoveUnindexes, At, IInv, Base
<1>2. PICK u \in Elements : /\ worker[t].item = {u} /\ t \in Clients[u]
                            /\ \A r \in Workers \ {t} : u \notin worker[r].item
  BY <1>1, EditorOf DEF IInv, Editing
<1>3. ElementPhase(t, u)
  BY <1>2 DEF IInv, ElementPhases
<1>4. /\ worker' \in [Workers -> WorkerState]
      /\ worker'[t].at = "unlist" /\ worker'[t].item = {u} /\ worker'[t].due = {}
      /\ worker'[t].old = worker[t].old /\ worker'[t].new = worker[t].new
      /\ \A r \in Workers \ {t} : worker'[r] = worker[r]
  BY <1>1, <1>2, GoFacts DEF RemoveUnindexes, IInv, Base, Roles, Editing, Searching
<1>5. /\ listing' = listing /\ keys' = keys
      /\ index' \in [AllKeys -> SUBSET Elements]
      /\ \A k \in AllKeys, v \in Elements \ {u} : v \in index'[k] <=> v \in index[k]
      /\ \A k \in AllKeys : u \in index'[k] <=> u \in index[k] /\ k \notin IndexKeys(keys[u])
  <2>1. keys[u] \in SUBSET Keys
    BY <1>1 DEF TypesOK, WorkerState
  <2>2. index' = Pop({u}, keys[u])
    BY <1>1, <1>2, KeysOfOne DEF RemoveUnindexes
  <2> QED
    BY <1>1, <2>1, <2>2, PopFacts DEF RemoveUnindexes
<1>6. Base'
  <2>1. TypesOK'
    BY <1>1, <1>4, <1>5 DEF TypesOK
  <2>2. Roles'
    BY <1>2, <1>4, RolesStep DEF IInv, Base, Editing, Searching
  <2>3. LockHeld'
    BY <1>1, <1>4, LockStep DEF RemoveUnindexes, IInv, Base, Inside
  <2> QED
    BY <2>1, <2>2, <2>3 DEF Base
<1>7. OnlyItem(t, u)
  BY <1>1, <1>2, <1>4, <1>5 DEF RemoveUnindexes, OnlyItem, TypesOK
<1>8. ElementPhase(t, u)'
  BY <1>1, <1>2, <1>3, <1>4, <1>5 DEF RemoveUnindexes, ElementPhase, Exact, Gone, Editing
<1>9. ElementPhases' /\ EntriesExact'
  BY <1>4, <1>6, <1>7, <1>8, OtherItems DEF Base
<1>10. KeepsDue(t, u)
  BY <1>1, <1>2, <1>3, <1>4, <1>5, <1>7, DueBefore, KeysIndexed DEF RemoveUnindexes, KeepsDue, ElementPhase, Exact
<1>11. Dues'
  BY <1>4, <1>6, <1>7, <1>10, OtherDues DEF Base
<1> QED
  BY <1>6, <1>9, <1>11 DEF IInv

LEMMA UpdateTestsInv ==
    ASSUME IInv, OneClientPerItem, NEW t \in Workers, UpdateTests(t)
    PROVE  IInv'
<1>1. /\ worker[t].at = "test" /\ TypesOK
      /\ index' = index /\ listing' = listing /\ keys' = keys /\ mutex' = mutex
  BY DEF UpdateTests, At, IInv, Base
<1>2. PICK u \in Elements : /\ worker[t].item = {u} /\ t \in Clients[u]
                            /\ \A r \in Workers \ {t} : u \notin worker[r].item
  BY <1>1, EditorOf DEF IInv, Editing
<1>3. ElementPhase(t, u)
  BY <1>2 DEF IInv, ElementPhases
<1>4. /\ worker' \in [Workers -> WorkerState]
      /\ worker'[t].due = {}
      /\ \A r \in Workers \ {t} : worker'[r] = worker[r]
      /\ \/ u \in listing /\ worker'[t].at = "drop" /\ worker'[t].item = {u}
            /\ worker'[t].old = worker[t].old /\ worker'[t].new = worker[t].new
         \/ u \notin listing /\ worker'[t].at = "rest" /\ worker'[t].item = {}
  <2>1. CASE u \in listing
    BY <1>1, <1>2, <2>1, GoFacts DEF UpdateTests, IInv, Base, Roles, Editing, Searching
  <2>2. CASE u \notin listing
    BY <1>1, <1>2, <2>2, RestFacts DEF UpdateTests
  <2> QED
    BY <2>1, <2>2
<1>5. Base'
  <2>1. TypesOK'
    BY <1>1, <1>4 DEF TypesOK
  <2>2. Roles'
    BY <1>2, <1>4, RolesStep DEF IInv, Base, Editing, Searching
  <2>3. LockHeld'
    BY <1>1, <1>4, LockStep DEF IInv, Base, Inside
  <2> QED
    BY <2>1, <2>2, <2>3 DEF Base
<1>6. OnlyItem(t, u)
  BY <1>1, <1>2, <1>4 DEF OnlyItem
<1>7. /\ u \in worker'[t].item => ElementPhase(t, u)'
      /\ u \notin worker'[t].item => Exact(u, keys[u])'
  BY <1>1, <1>2, <1>3, <1>4 DEF ElementPhase, Exact
<1>8. ElementPhases' /\ EntriesExact'
  BY <1>5, <1>6, <1>7, OtherItems DEF Base
<1>9. KeepsDue(t, u)
  BY <1>1, <1>2, <1>6, DueBefore DEF KeepsDue
<1>10. Dues'
  BY <1>4, <1>5, <1>6, <1>9, OtherDues DEF Base
<1> QED
  BY <1>5, <1>8, <1>10 DEF IInv

\* The entries are those of the keys before the setter; a search is owed the
\* item only if the new keys have its key, too.
LEMMA SetAssignsInv ==
    ASSUME IInv, OneClientPerItem, NEW t \in Workers, NEW u \in Elements,
           NEW s \in SUBSET Keys, SetAssigns(t, u, s)
    PROVE  IInv'
<1> DEFINE next == [Resting EXCEPT !.at = "test", !.item = {u}, !.old = keys[u], !.new = s]
           others == DueWith(u, s)
<1>1. /\ t \in Clients[u] /\ worker[t].at = "rest" /\ TypesOK
      /\ worker' = [others EXCEPT ![t] = next]
      /\ keys' = [keys EXCEPT ![u] = s]
      /\ UNCHANGED <<listing, index, mutex>>
  BY DEF SetAssigns, At, IInv, Base
<1>2. /\ next \in WorkerState /\ next.at = "test" /\ next.item = {u} /\ next.due = {}
      /\ next.old = keys[u] /\ next.new = s
  BY <1>1 DEF Resting, WorkerState, Editing, TypesOK
<1>3. /\ others \in [Workers -> WorkerState]
      /\ \A r \in Workers :
            /\ others[r].at = worker[r].at /\ others[r].item = worker[r].item
            /\ others[r].old = worker[r].old /\ others[r].new = worker[r].new
            /\ others[r].todo = worker[r].todo /\ others[r].found = worker[r].found
            /\ others[r].due \subseteq worker[r].due
            /\ u \in others[r].due => worker[r].new \cap s # {}
  <2> DEFINE due(r) == IF worker[r].new \cap s = {} THEN worker[r].due \ {u} ELSE worker[r].due
             w(r) == [worker[r] EXCEPT !.due = due(r)]
  <2>1. others = [r \in Workers |-> w(r)]
    BY DEF DueWith
  <2>2. ASSUME NEW r \in Workers
        PROVE  /\ w(r) \in WorkerState /\ w(r).at = worker[r].at /\ w(r).item = worker[r].item
               /\ w(r).old = worker[r].old /\ w(r).new = worker[r].new
               /\ w(r).todo = worker[r].todo /\ w(r).found = worker[r].found
               /\ w(r).due = due(r)
    <3>1. worker[r] \in WorkerState /\ due(r) \in SUBSET Elements
      BY <1>1 DEF TypesOK, WorkerState
    <3> HIDE DEF due
    <3> QED
      BY <3>1 DEF WorkerState
  <2>3. \A r \in Workers : /\ due(r) \subseteq worker[r].due
                           /\ u \in due(r) => worker[r].new \cap s # {}
    OBVIOUS
  <2> HIDE DEF w, due, others
  <2> QED
    BY <2>1, <2>2, <2>3
<1> HIDE DEF next, others
<1>4. /\ worker' \in [Workers -> WorkerState]
      /\ worker'[t] = next
      /\ \A r \in Workers \ {t} : worker'[r] = others[r]
  BY <1>1, <1>2, <1>3
<1>5. worker[t].item = {}
  BY <1>1 DEF IInv, Base, Roles, Editing
<1>6. OnlyItem(t, u)
  BY <1>1, <1>2, <1>3, <1>4, <1>5, NobodyElse DEF IInv, TypesOK, OnlyItem
<1>7. Base'
  <2>1. TypesOK'
    BY <1>1, <1>4 DEF TypesOK
  <2>2. Roles'
    BY <1>1, <1>2, <1>3, <1>4, RolesStep DEF IInv, Base, Editing, Searching
  <2>3. LockHeld'
    BY <1>1, <1>2, <1>3, <1>4, LockStep DEF IInv, Base, Inside
  <2> QED
    BY <2>1, <2>2, <2>3 DEF Base
<1>8. Exact(u, keys[u])
  BY <1>5, <1>6 DEF OnlyItem, IInv, EntriesExact, Exact, AllKeys
<1>9. ElementPhase(t, u)'
  BY <1>1, <1>2, <1>4, <1>8 DEF ElementPhase, Exact, TypesOK
<1>10. ElementPhases' /\ EntriesExact'
  BY <1>2, <1>4, <1>6, <1>7, <1>9, OtherItems DEF Base
<1>11. KeepsDue(t, u)
  <2> SUFFICES ASSUME NEW r \in Workers \ {t}, u \in worker'[r].due
               PROVE  /\ u \in listing'
                      /\ worker[r].at = "look" => \A k \in worker[r].new : k \in keys'[u] /\ u \in index'[k]
    BY DEF KeepsDue
  <2>1. u \in listing /\ (worker[r].at = "look" => \A k \in worker[r].new : u \in index[k])
    BY <1>5, <1>6, DueBefore
  <2>2. worker[r].new \cap s # {}
    BY <1>3, <1>4
  <2>3. worker[r].at = "look" => \E k \in Keys : worker[r].new = {k}
    BY DEF IInv, Base, Roles, Searching
  <2> QED
    BY <1>1, <2>1, <2>2, <2>3 DEF TypesOK
<1>12. Dues'
  BY <1>2, <1>4, <1>6, <1>7, <1>11, OtherDues DEF Base
<1> QED
  BY <1>7, <1>10, <1>12 DEF IInv

LEMMA RemoveBeginsInv ==
    ASSUME IInv, OneClientPerItem, NEW t \in Workers, NEW u \in Elements, RemoveBegins(t, u)
    PROVE  IInv'
<1> DEFINE next == [Resting EXCEPT !.at = "unindex", !.item = {u}]
<1>1. /\ t \in Clients[u] /\ worker[t].at = "rest"
      /\ worker' = [worker EXCEPT ![t] = next]
      /\ UNCHANGED <<keys, listing, index, mutex>>
  BY DEF RemoveBegins, Begin, At
<1>2. next \in WorkerState /\ next.at = "unindex" /\ next.item = {u} /\ next.due = {}
  BY DEF Resting, WorkerState, Editing
<1> HIDE DEF next
<1>3. Base'
  BY <1>1, <1>2 DEF IInv, Base, TypesOK, Roles, LockHeld, Editing, Searching, Inside
<1>4. worker[t].item = {}
  BY <1>1 DEF IInv, Base, Roles, Editing
<1>5. OnlyItem(t, u)
  BY <1>1, <1>2, <1>4, NobodyElse DEF IInv, Base, TypesOK, OnlyItem
<1>6. Exact(u, keys[u])
  BY <1>4, <1>5 DEF OnlyItem, IInv, EntriesExact, Exact, AllKeys
<1>7. ElementPhases' /\ EntriesExact'
  BY <1>1, <1>2, <1>3, <1>5, <1>6, OtherItems DEF IInv, Base, TypesOK, ElementPhase, Exact
<1>8. KeepsDue(t, u)
  BY <1>1, <1>4, <1>5, DueBefore DEF KeepsDue
<1>9. Dues'
  BY <1>1, <1>2, <1>3, <1>5, <1>8, OtherDues DEF IInv, Base, TypesOK
<1> QED
  BY <1>3, <1>7, <1>9 DEF IInv

\* No search is owed an item that is taken out of the listing.
LEMMA RemoveUnlistsInv ==
    ASSUME IInv, OneClientPerItem, NEW t \in Workers, RemoveUnlists(t)
    PROVE  IInv'
<1>1. /\ worker[t].at = "unlist" /\ TypesOK /\ GiveBack
      /\ index' = index /\ keys' = keys
  BY DEF RemoveUnlists, At, IInv, Base
<1>2. PICK u \in Elements : /\ worker[t].item = {u} /\ t \in Clients[u]
                            /\ \A r \in Workers \ {t} : u \notin worker[r].item
  BY <1>1, EditorOf DEF IInv, Editing
<1>3. Gone(u)
  BY <1>1, <1>2 DEF IInv, ElementPhases, ElementPhase
<1>4. listing' = listing \ {u}
  BY <1>2 DEF RemoveUnlists
<1>5. worker' = [r \in Workers |-> IF r = t THEN Resting
                                   ELSE [worker[r] EXCEPT !.due = @ \ {u}]]
  BY <1>2 DEF RemoveUnlists
<1>6. /\ worker' \in [Workers -> WorkerState]
      /\ worker'[t].at = "rest" /\ worker'[t].item = {} /\ worker'[t].due = {}
      /\ \A r \in Workers \ {t} :
            /\ worker'[r].at = worker[r].at /\ worker'[r].item = worker[r].item
            /\ worker'[r].old = worker[r].old /\ worker'[r].new = worker[r].new
            /\ worker'[r].todo = worker[r].todo /\ worker'[r].found = worker[r].found
            /\ worker'[r].due = worker[r].due \ {u}
  BY <1>1, <1>5, RestingState DEF TypesOK, WorkerState, Resting
<1>7. Base'
  <2>1. TypesOK'
    BY <1>1, <1>4, <1>6 DEF TypesOK
  <2>2. Roles'
    BY <1>6, RolesStep DEF IInv, Base, Editing, Searching
  <2>3. LockHeld'
    BY <1>1, <1>6, LockStep DEF IInv, Base, Inside
  <2> QED
    BY <2>1, <2>2, <2>3 DEF Base
<1>8. OnlyItem(t, u)
  BY <1>1, <1>2, <1>4, <1>6 DEF OnlyItem
<1>9. Exact(u, keys[u])'
  BY <1>1, <1>3, <1>4 DEF Exact, Gone
<1>10. ElementPhases' /\ EntriesExact'
  BY <1>6, <1>7, <1>8, <1>9, OtherItems DEF Base
<1>11. KeepsDue(t, u)
  BY <1>6 DEF KeepsDue
<1>12. Dues'
  BY <1>6, <1>7, <1>8, <1>11, OtherDues DEF Base
<1> QED
  BY <1>7, <1>10, <1>12 DEF IInv

-----------------------------------------------------------------------------
(* The steps of a search                                                   *)

LEMMA SearchStep ==
    ASSUME IInv, Base', NEW t \in Workers, UNCHANGED <<keys, listing, index>>,
           worker[t].at \notin Editing, worker'[t].at \notin Editing,
           \A r \in Workers \ {t} : worker'[r] = worker[r],
           \A u \in worker'[t].due : Due(t, u)'
    PROVE  IInv'
<1>1. worker[t].item = {} /\ worker'[t].item = {}
  BY DEF IInv, Base, Roles
<1>2. ElementPhases'
  BY <1>1 DEF IInv, ElementPhases, ElementPhase, Exact, Gone
<1>3. EntriesExact'
  BY <1>1 DEF IInv, EntriesExact
<1>4. \A u \in Elements, k \in AllKeys : Findable(u, k) => Findable(u, k)'
  BY <1>1 DEF Findable
<1>5. ASSUME NEW r \in Workers \ {t}, NEW u \in worker'[r].due
      PROVE  Due(r, u)'
  <2>1. Due(r, u) /\ u \in Elements /\ worker[r].new \subseteq AllKeys
    BY DEF IInv, Dues, Base, TypesOK, WorkerState, AllKeys
  <2> QED
    BY <1>4, <2>1 DEF Due
<1>6. Dues'
  BY <1>5 DEF Dues
<1> QED
  BY <1>2, <1>3, <1>6 DEF IInv

LEMMA LookUpBeginsInv ==
    ASSUME IInv, NEW t \in Workers, NEW k \in Keys, LookUpBegins(t, k)
    PROVE  IInv'
<1> DEFINE next == [Resting EXCEPT !.at = "look", !.new = {k}, !.due = Bearers(k)]
<1>1. /\ worker[t].at = "rest" /\ TypesOK
      /\ worker' = [worker EXCEPT ![t] = next]
      /\ UNCHANGED <<keys, listing, index, mutex>>
  BY DEF LookUpBegins, Begin, At, IInv, Base
<1>2. Bearers(k) \subseteq listing
  BY DEF Bearers
<1>3. next \in WorkerState /\ next.at = "look" /\ next.item = {} /\ next.due = Bearers(k) /\ next.new = {k}
  BY <1>1, <1>2 DEF Resting, WorkerState, Searching, TypesOK
<1> HIDE DEF next
<1>4. Base'
  BY <1>1, <1>3 DEF IInv, Base, TypesOK, Roles, LockHeld, Editing, Searching, Inside
<1>5. ASSUME NEW u \in Bearers(k)
      PROVE  u \in listing /\ k \in keys[u] /\ Findable(u, k)
  <2>1. u \in listing /\ u \in Elements /\ k \in IndexKeys(keys[u]) /\ k \in AllKeys
    BY <1>1, <1>5 DEF Bearers, TypesOK, AllKeys
  <2>2. k \in keys[u]
    BY <2>1, CollectionAssumption DEF IndexKeys
  <2>3. CASE \A r \in Workers : u \notin worker[r].item
    <3>1. u \in index[k] <=> u \in listing /\ k \in IndexKeys(keys[u])
      BY <2>1, <2>3 DEF IInv, EntriesExact, AllKeys
    <3> QED
      BY <2>1, <2>2, <3>1 DEF Findable
  <2>4. CASE \E r \in Workers : u \in worker[r].item
    <3>1. PICK r \in Workers : u \in worker[r].item
      BY <2>4
    <3>2. worker[r].at \in Editing /\ ElementPhase(r, u)
      BY <3>1 DEF IInv, Base, Roles, ElementPhases
    <3>3. /\ worker[r].at \notin {"index", "unindex", "unlist"}
          /\ worker[r].at \in {"test", "drop", "put"} => k \in IndexKeys(worker[r].old)
      BY <3>1 DEF Bearers, At
    <3> QED
      BY <2>1, <2>2, <3>1, <3>2, <3>3 DEF Editing, ElementPhase, Exact, Findable
  <2> QED
    BY <2>1, <2>2, <2>3, <2>4
<1>6. \A u \in worker'[t].due : Due(t, u)'
  <2>1. \A u \in Elements : Findable(u, k) => Findable(u, k)'
    <3>1. worker[t].item = {}
      BY <1>1 DEF IInv, Base, Roles, Editing
    <3> QED
      BY <1>1, <1>3, <3>1 DEF Findable, TypesOK
  <2> QED
    BY <1>1, <1>2, <1>3, <1>5, <2>1 DEF Due, TypesOK
<1> QED
  BY <1>1, <1>3, <1>4, <1>6, SearchStep DEF Editing, TypesOK

\* Who has the lock has left no entry out that is owed.
LEMMA LookUpLooksInv ==
    ASSUME IInv, NEW t \in Workers, LookUpLooks(t)
    PROVE  IInv'
<1>1. /\ worker[t].at = "look" /\ TypesOK /\ mutex = Nobody /\ mutex' = t
      /\ worker' = [worker EXCEPT ![t].at = "collect",
                                  ![t].todo = UNION {index[k] : k \in worker[t].new}]
      /\ UNCHANGED <<keys, listing, index>>
  BY DEF LookUpLooks, At, Take, IInv, Base
<1>2. PICK k \in Keys : worker[t].new = {k}
  BY <1>1 DEF IInv, Base, Roles, Searching
<1>3. UNION {index[j] : j \in worker[t].new} = index[k] /\ index[k] \in SUBSET Elements
  BY <1>1, <1>2 DEF TypesOK, AllKeys
<1>4. /\ worker' \in [Workers -> WorkerState]
      /\ worker'[t].at = "collect" /\ worker'[t].todo = index[k]
      /\ worker'[t].item = worker[t].item /\ worker'[t].new = worker[t].new
      /\ worker'[t].due = worker[t].due
      /\ \A r \in Workers \ {t} : worker'[r] = worker[r]
  <2> DEFINE w == [worker[t] EXCEPT !.at = "collect", !.todo = index[k]]
  <2>1. worker \in [Workers -> WorkerState] /\ worker[t] \in WorkerState
    BY <1>1 DEF TypesOK
  <2>2. worker' = [worker EXCEPT ![t] = w]
    BY <1>1, <1>3, <2>1
  <2>3. /\ w \in WorkerState /\ w.at = "collect" /\ w.todo = index[k]
        /\ w.item = worker[t].item /\ w.new = worker[t].new /\ w.due = worker[t].due
    BY <1>3, <2>1 DEF WorkerState, Searching
  <2> HIDE DEF w
  <2> QED
    BY <2>1, <2>2, <2>3
<1>5. Base'
  <2>1. TypesOK'
    BY <1>1, <1>4 DEF TypesOK
  <2>2. worker[t].item = {}
    BY <1>1 DEF IInv, Base, Roles, Editing
  <2>3. Roles'
    BY <1>2, <1>4, <2>2, RolesStep DEF IInv, Base, Editing, Searching
  <2>4. LockHeld'
    BY <1>1, <1>4, LockStep DEF IInv, Base, Take
  <2> QED
    BY <2>1, <2>3, <2>4 DEF Base
<1>6. \A r \in Workers : worker[r].at \notin {"put", "unlist"}
  BY <1>1, CollectionAssumption DEF IInv, Base, LockHeld, Inside
<1>7. \A u \in worker'[t].due : Due(t, u)'
  <2> SUFFICES ASSUME NEW u \in worker[t].due
               PROVE  u \in listing /\ u \in index[k]
    BY <1>1, <1>4 DEF Due
  <2>1. Due(t, u)
    BY DEF IInv, Dues
  <2> QED
    BY <1>1, <1>2, <1>6, <2>1 DEF Due, Findable
<1> QED
  BY <1>1, <1>4, <1>5, <1>7, SearchStep DEF Editing

LEMMA LookUpCollectsInv ==
    ASSUME IInv, NEW t \in Workers, LookUpCollects(t)
    PROVE  IInv'
<1>1. /\ worker[t].at = "collect" /\ TypesOK
      /\ UNCHANGED <<keys, listing, index, mutex>>
  BY DEF LookUpCollects, At, IInv, Base
<1>2. PICK u \in worker[t].todo :
        worker' = [worker EXCEPT ![t].todo = @ \ {u},
                                 ![t].found = IF u \in listing THEN @ \cup {u} ELSE @]
  BY DEF LookUpCollects
<1>3. /\ worker' \in [Workers -> WorkerState]
      /\ worker'[t].at = "collect" /\ worker'[t].todo = worker[t].todo \ {u}
      /\ worker'[t].found = IF u \in listing THEN worker[t].found \cup {u} ELSE worker[t].found
      /\ worker'[t].item = worker[t].item /\ worker'[t].new = worker[t].new
      /\ worker'[t].due = worker[t].due
      /\ \A r \in Workers \ {t} : worker'[r] = worker[r]
  <2> DEFINE hits == IF u \in listing THEN worker[t].found \cup {u} ELSE worker[t].found
             w == [worker[t] EXCEPT !.todo = @ \ {u}, !.found = hits]
  <2>1. worker \in [Workers -> WorkerState] /\ worker[t] \in WorkerState /\ u \in Elements
    BY <1>1 DEF TypesOK, WorkerState
  <2>2. hits \in SUBSET Elements
    BY <2>1 DEF WorkerState
  <2>3. worker' = [worker EXCEPT ![t] = w]
    BY <1>2, <2>1
  <2> HIDE DEF hits
  <2>4. /\ w \in WorkerState /\ w.at = worker[t].at
        /\ w.todo = worker[t].todo \ {u} /\ w.found = hits
        /\ w.item = worker[t].item /\ w.new = worker[t].new /\ w.due = worker[t].due
    BY <2>1, <2>2 DEF WorkerState
  <2> HIDE DEF w
  <2> QED
    BY <1>1, <2>1, <2>3, <2>4 DEF hits
<1>4. Base'
  <2>1. TypesOK'
    BY <1>1, <1>3 DEF TypesOK
  <2>2. worker[t].item = {} /\ \E k \in Keys : worker[t].new = {k}
    BY <1>1 DEF IInv, Base, Roles, Editing, Searching
  <2>3. Roles'
    BY <1>3, <2>2, RolesStep DEF IInv, Base, Editing, Searching
  <2>4. LockHeld'
    BY <1>1, <1>3, LockStep DEF IInv, Base
  <2> QED
    BY <2>1, <2>3, <2>4 DEF Base
<1>5. \A v \in worker'[t].due : Due(t, v)'
  <2> SUFFICES ASSUME NEW v \in worker[t].due
               PROVE  v \in listing /\ v \in worker'[t].todo \cup worker'[t].found
    BY <1>1, <1>3 DEF Due
  <2>1. Due(t, v)
    BY DEF IInv, Dues
  <2> QED
    BY <1>1, <1>3, <2>1 DEF Due
<1> QED
  BY <1>1, <1>3, <1>4, <1>5, SearchStep DEF Editing

LEMMA LookUpEndsInv ==
    ASSUME IInv, NEW t \in Workers, LookUpEnds(t)
    PROVE  IInv'
<1>1. /\ worker[t].at = "collect" /\ worker[t].todo = {} /\ TypesOK /\ GiveBack
      /\ UNCHANGED <<keys, listing, index>>
  BY DEF LookUpEnds, At, IInv, Base
<1>2. /\ worker' \in [Workers -> WorkerState]
      /\ worker'[t].at = "answer" /\ worker'[t].found = worker[t].found
      /\ worker'[t].item = worker[t].item /\ worker'[t].new = worker[t].new
      /\ worker'[t].due = worker[t].due
      /\ \A r \in Workers \ {t} : worker'[r] = worker[r]
  BY <1>1, GoFacts DEF LookUpEnds, Searching
<1>3. Base'
  <2>1. TypesOK'
    BY <1>1, <1>2 DEF TypesOK
  <2>2. worker[t].item = {} /\ \E k \in Keys : worker[t].new = {k}
    BY <1>1 DEF IInv, Base, Roles, Editing, Searching
  <2>3. Roles'
    BY <1>2, <2>2, RolesStep DEF IInv, Base, Editing, Searching
  <2>4. LockHeld'
    BY <1>1, <1>2, LockStep DEF IInv, Base, Inside
  <2> QED
    BY <2>1, <2>3, <2>4 DEF Base
<1>4. \A u \in worker'[t].due : Due(t, u)'
  <2> SUFFICES ASSUME NEW u \in worker[t].due
               PROVE  u \in listing /\ u \in worker[t].found
    BY <1>1, <1>2 DEF Due
  <2>1. Due(t, u)
    BY DEF IInv, Dues
  <2> QED
    BY <1>1, <2>1 DEF Due
<1> QED
  BY <1>1, <1>2, <1>3, <1>4, SearchStep DEF Editing

LEMMA LookUpAnswersInv ==
    ASSUME IInv, NEW t \in Workers, LookUpAnswers(t)
    PROVE  IInv'
<1>1. /\ worker[t].at = "answer" /\ TypesOK
      /\ UNCHANGED <<keys, listing, index, mutex>>
  BY DEF LookUpAnswers, At, IInv, Base
<1>2. /\ worker' \in [Workers -> WorkerState]
      /\ worker'[t].at = "rest" /\ worker'[t].item = {} /\ worker'[t].due = {}
      /\ \A r \in Workers \ {t} : worker'[r] = worker[r]
  BY <1>1, RestFacts DEF LookUpAnswers
<1>3. Base'
  <2>1. TypesOK'
    BY <1>1, <1>2 DEF TypesOK
  <2>2. Roles'
    BY <1>2, RolesStep DEF IInv, Base, Editing, Searching
  <2>3. LockHeld'
    BY <1>1, <1>2, LockStep DEF IInv, Base, Inside
  <2> QED
    BY <2>1, <2>2, <2>3 DEF Base
<1> QED
  BY <1>1, <1>2, <1>3, SearchStep DEF Editing

-----------------------------------------------------------------------------

LEMMA IInvStarts == TInit => IInv
BY RestingState
   DEF TInit, IInv, Base, TypesOK, Roles, LockHeld, ElementPhases, EntriesExact, Dues,
       Resting, Editing, Searching, Inside, AllKeys

LEMMA IInvStutters == IInv /\ UNCHANGED tvars => IInv'
<1> SUFFICES ASSUME IInv, UNCHANGED tvars PROVE IInv'
  OBVIOUS
<1>1. Base'
  BY DEF IInv, Base, TypesOK, Roles, LockHeld, tvars
<1>2. ElementPhases'
  BY DEF IInv, ElementPhases, ElementPhase, Exact, Gone, tvars
<1>3. EntriesExact'
  BY DEF IInv, EntriesExact, tvars
<1>4. Dues'
  BY DEF IInv, Dues, Due, Findable, tvars
<1> QED
  BY <1>1, <1>2, <1>3, <1>4 DEF IInv

LEMMA IInvKept ==
    ASSUME OneClientPerItem, IInv, [TNext]_tvars
    PROVE  IInv'
<1>1. CASE UNCHANGED tvars
  BY <1>1, IInvStutters
<1>2. CASE TNext
  <2> PICK t \in Workers :
        \/ \E u \in Elements : \/ AddBegins(t, u) \/ RemoveBegins(t, u)
                               \/ \E s \in SUBSET Keys : SetAssigns(t, u, s)
        \/ \E k \in Keys : LookUpBegins(t, k)
        \/ WorkerStep(t)
    BY <1>2 DEF TNext
  <2>1. CASE \E u \in Elements : AddBegins(t, u)
    BY <2>1, AddBeginsInv
  <2>2. CASE \E u \in Elements : RemoveBegins(t, u)
    BY <2>2, RemoveBeginsInv
  <2>3. CASE \E u \in Elements : \E s \in SUBSET Keys : SetAssigns(t, u, s)
    BY <2>3, SetAssignsInv
  <2>4. CASE \E k \in Keys : LookUpBegins(t, k)
    BY <2>4, LookUpBeginsInv
  <2>5. CASE AddLists(t) \/ AddIndexes(t)
    BY <2>5, AddListsInv, AddIndexesInv
  <2>6. CASE UpdateTests(t) \/ UpdateDrops(t) \/ UpdatePuts(t)
    BY <2>6, UpdateTestsInv, UpdateDropsInv, UpdatePutsInv
  <2>7. CASE RemoveUnindexes(t) \/ RemoveUnlists(t)
    BY <2>7, RemoveUnindexesInv, RemoveUnlistsInv
  <2>8. CASE LookUpLooks(t) \/ LookUpCollects(t) \/ LookUpEnds(t) \/ LookUpAnswers(t)
    BY <2>8, LookUpLooksInv, LookUpCollectsInv, LookUpEndsInv, LookUpAnswersInv
  <2> QED
    BY <2>1, <2>2, <2>3, <2>4, <2>5, <2>6, <2>7, <2>8 DEF WorkerStep
<1> QED
  BY <1>1, <1>2

\* While no thread is at work on an item, its entries are those of its keys if it is
\* listed and none otherwise, for any number of threads that edit, add and remove
\* items at once, as long as each item has one client.
THEOREM IndexSettles == ASSUME OneClientPerItem PROVE TSpec => []EntriesExact
<1>1. IInv => EntriesExact
  BY DEF IInv
<1>2. IInv /\ [TNext]_tvars => IInv'
  BY IInvKept
<1> QED
  BY IInvStarts, <1>1, <1>2, PTL DEF TSpec

\* A search by one key finds every item that has had the key from its begin to its
\* end, whatever other threads do to that item and to other items meanwhile.
THEOREM SearchesFindAll == ASSUME OneClientPerItem PROVE TSpec => []SearchComplete
<1>1. IInv => SearchComplete
  BY DEF IInv, Dues, Due, SearchComplete, At
<1>2. IInv /\ [TNext]_tvars => IInv'
  BY IInvKept
<1> QED
  BY IInvStarts, <1>1, <1>2, PTL DEF TSpec

=============================================================================
