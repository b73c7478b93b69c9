------------------------------ MODULE Sessions ------------------------------
(***************************************************************************)
(* What the XML-RPC interface keeps about its clients: their tokens, and   *)
(* the events of the background tasks.  Both expire, but only when some    *)
(* client calls token_check, which goes through the dictionaries key by    *)
(* key while other requests and the threads of the tasks change them.      *)
(* Every other request only looks the token up: it neither expires nor     *)
(* renews anything.  (The items not saved yet, which expire in the same    *)
(* call, are in ItemStore.)                                                *)
(***************************************************************************)
EXTENDS Naturals, FiniteSets, Functions

CONSTANTS
    Tokens,                           \* one token for each login
    Sequential,                       \* those whose client makes one call at a time
    Tasks,                            \* the tasks to be started
    TokenLife, EventLife,             \* auth_token_expiration, EVENT_TIMEOUT
    MaxTime                           \* bound: the clock stops there

ASSUME SessionAssumption ==
    /\ Sequential \subseteq Tokens
    /\ {TokenLife, EventLife, MaxTime} \subseteq Nat

VARIABLES
    now,        \* time.time()
    tokens,     \* token_cache: the tokens given out, and when each was used
    loggedOut,  \* the tokens whose logout has answered
    events,     \* when each event was created, and its state
    check,      \* check[t]: where the call of token_check with t is
    task,       \* task[k]: where the thread of task k is
    failed      \* the tasks in which something has failed

svars == <<now, tokens, loggedOut, events, check, task, failed>>
tables == <<tokens, events>>

\* A call of token_check goes through the tables in this order, then looks up
\* its own token, and writes it back.
Phases == {"tokens", "events", "lookup", "renew"}
NoCheck == [at |-> "none", todo |-> {}]

\* A task runs its pre triggers, its function, and on_done with the post triggers;
\* it sets the state of its event, and its readers; rescue tells that it
\* does so in the except branch.
TaskAt(p) == [at |-> p, state |-> "info", rescue |-> FALSE]
Setting(s, r) == [at |-> "set", state |-> s, rescue |-> r]
Ended(k) == task[k].at = "ended"

SInit ==
    /\ now = 0 /\ loggedOut = {} /\ failed = {}
    /\ tokens = [t \in {} |-> 0]
    /\ events = [k \in {} |-> 0]
    /\ check = [t \in Tokens |-> NoCheck]
    /\ task = [k \in Tasks |-> TaskAt("none")]

-----------------------------------------------------------------------------
Known(table) == DOMAIN table
With(table, key, value) == [x \in DOMAIN table \cup {key} |-> IF x = key THEN value ELSE table[x]]
Without(table, key) == Restrict(table, DOMAIN table \ {key})

\* Whether a client may make a call now, beside a token_check that is under way.
Free(t) == t \in Sequential => check[t].at = "none"
\* check_access: the token is in the cache, however old it is.
Accepted(t) == Free(t) /\ t \in Known(tokens)

Tick == /\ now < MaxTime /\ now' = now + 1
        /\ UNCHANGED <<tables, loggedOut, check, task, failed>>

\* A token is random, and is given out once.
Login(t) ==
    /\ t \notin Known(tokens) \cup loggedOut /\ check[t].at = "none"
    /\ tokens' = With(tokens, t, now)
    /\ UNCHANGED <<now, loggedOut, events, check, task, failed>>

\* logout deletes the token if it is there, and answers.
Logout(t) ==
    /\ Accepted(t)
    /\ tokens' = Without(tokens, t)
    /\ loggedOut' = loggedOut \cup {t}
    /\ UNCHANGED <<now, events, check, task, failed>>

NewEvent == [born |-> now, state |-> "info"]

StartTask(t, k) ==
    /\ Accepted(t) /\ task[k].at = "none"
    /\ events' = With(events, k, NewEvent)
    /\ task' = [task EXCEPT ![k] = TaskAt("pre")]
    /\ UNCHANGED <<now, tokens, loggedOut, check, failed>>

-----------------------------------------------------------------------------
(* token_check                                                             *)

Phase(t, p, todo) == check' = [check EXCEPT ![t] = [at |-> p, todo |-> todo]]
Answer(t) == check' = [check EXCEPT ![t] = NoCheck]
Others == <<now, loggedOut, task, failed>>

\* The keys of a table are listed before the first is looked at.
CheckBegins(t) ==
    /\ check[t].at = "none" /\ t \in Known(tokens) \cup loggedOut
    /\ Phase(t, "tokens", Known(tokens))
    /\ UNCHANGED <<tables, Others>>

\* A key that has been deleted since raises KeyError, which ends the call.
SweepRaises(t) ==
    /\ \E x \in check[t].todo :
          \/ check[t].at = "tokens" /\ x \notin Known(tokens)
          \/ check[t].at = "events" /\ x \notin Known(events)
    /\ Answer(t)
    /\ UNCHANGED <<tables, Others>>

Looked(t, x) == check' = [check EXCEPT ![t].todo = @ \ {x}]

\* Fault: the sweep renews the tokens that it does not expire.
SweepTokenRenews(t) ==
    \E x \in check[t].todo :
        /\ check[t].at = "tokens" /\ Looked(t, x)
        /\ tokens' = IF x \in Known(tokens) /\ now > tokens[x] + TokenLife
                     THEN Without(tokens, x) ELSE With(tokens, x, now)
        /\ UNCHANGED <<events, Others>>

SweepToken(t) ==
    \E x \in check[t].todo \cap Known(tokens) :
        /\ check[t].at = "tokens" /\ Looked(t, x)
        /\ tokens' = IF now > tokens[x] + TokenLife THEN Without(tokens, x) ELSE tokens
        /\ UNCHANGED <<events, Others>>

SweepEvent(t) ==
    \E x \in check[t].todo \cap Known(events) :
        /\ check[t].at = "events" /\ Looked(t, x)
        /\ events' = IF now > events[x].born + EventLife THEN Without(events, x) ELSE events
        /\ UNCHANGED <<tokens, Others>>

NextPhase(t) ==
    /\ check[t].todo = {}
    /\ \/ check[t].at = "tokens" /\ Phase(t, "events", Known(events))
       \/ check[t].at = "events" /\ Phase(t, "lookup", {})
    /\ UNCHANGED <<tables, Others>>

LookUp(t) ==
    /\ check[t].at = "lookup"
    /\ IF t \in Known(tokens) THEN Phase(t, "renew", {}) ELSE Answer(t)
    /\ UNCHANGED <<tables, Others>>

\* The time of the token is assigned, whether or not it is still there.
Renew(t) ==
    /\ check[t].at = "renew" /\ Answer(t)
    /\ tokens' = With(tokens, t, now)
    /\ UNCHANGED <<events, Others>>

CheckStep(t) == \/ SweepRaises(t) \/ SweepToken(t) \/ SweepEvent(t)
                \/ NextPhase(t) \/ LookUp(t) \/ Renew(t)

-----------------------------------------------------------------------------
(* The thread of a task                                                    *)

TaskGoes(k, to) == task' = [task EXCEPT ![k] = to]
Fails(k) == failed' = failed \cup {k}

\* A pre trigger returns an error code.
PreFails(k) ==
    /\ task[k].at = "pre" /\ Fails(k)
    /\ TaskGoes(k, Setting("failed", FALSE))
    /\ UNCHANGED <<now, tables, loggedOut, check>>

PreSucceeds(k) ==
    /\ task[k].at = "pre" /\ TaskGoes(k, TaskAt("run"))
    /\ UNCHANGED <<now, tables, loggedOut, check, failed>>

RunSucceeds(k) ==
    /\ task[k].at = "run" /\ TaskGoes(k, Setting("complete", FALSE))
    /\ UNCHANGED <<now, tables, loggedOut, check, failed>>

RunReturnsFalse(k) ==
    /\ task[k].at = "run" /\ Fails(k)
    /\ TaskGoes(k, Setting("failed", FALSE))
    /\ UNCHANGED <<now, tables, loggedOut, check>>

\* Fault: what happens after the function cannot make the task fail any more.
TaskRaisesBeforeDone(k) ==
    /\ task[k].at \in {"pre", "run", "post"} /\ Fails(k)
    /\ TaskGoes(k, IF task[k].at = "post" THEN TaskAt("ended") ELSE Setting("failed", TRUE))
    /\ UNCHANGED <<now, tables, loggedOut, check>>

\* An exception in the triggers, the function or on_done.
TaskRaises(k) ==
    /\ task[k].at \in {"pre", "run", "post"} /\ Fails(k)
    /\ TaskGoes(k, Setting("failed", TRUE))
    /\ UNCHANGED <<now, tables, loggedOut, check>>

\* Fault: the exception of an expired event is caught, and the task tried again.
RescueForEver(k) == Setting("failed", FALSE)

\* _set_task_state assigns the state, then looks the event up again for its
\* readers (who are not modelled).  It raises when the event has expired: once
\* more in the except branch, then the thread ends.
Rescue(k) == IF task[k].rescue THEN TaskAt("ended") ELSE Setting("failed", TRUE)

SetState(k) ==
    /\ task[k].at = "set"
    /\ IF k \in Known(events)
       THEN /\ events' = [events EXCEPT ![k].state = task[k].state]
            /\ TaskGoes(k, [task[k] EXCEPT !.at = "clear"])
       ELSE TaskGoes(k, Rescue(k)) /\ UNCHANGED events
    /\ UNCHANGED <<now, tokens, loggedOut, check, failed>>

ClearReaders(k) ==
    /\ task[k].at = "clear"
    /\ TaskGoes(k, IF k \notin Known(events) THEN Rescue(k)
                   ELSE TaskAt(IF task[k].state = "complete" THEN "post" ELSE "ended"))
    /\ UNCHANGED <<now, tables, loggedOut, check, failed>>

PostSucceeds(k) ==
    /\ task[k].at = "post" /\ TaskGoes(k, TaskAt("ended"))
    /\ UNCHANGED <<now, tables, loggedOut, check, failed>>

TaskStep(k) == \/ PreFails(k) \/ PreSucceeds(k) \/ RunSucceeds(k) \/ RunReturnsFalse(k)
               \/ TaskRaises(k) \/ SetState(k) \/ ClearReaders(k) \/ PostSucceeds(k)

-----------------------------------------------------------------------------
SNext ==
    \/ Tick
    \/ \E t \in Tokens :
          \/ Login(t) \/ Logout(t) \/ CheckBegins(t) \/ CheckStep(t)
          \/ \E k \in Tasks : StartTask(t, k)
    \/ \E k \in Tasks : TaskStep(k)

SSpec == SInit /\ [][SNext]_svars
\* The threads of the tasks run on.
FairSSpec == SSpec /\ \A k \in Tasks : WF_svars(TaskStep(k))

-----------------------------------------------------------------------------
(* Properties                                                              *)

\* The event of a task that has ended tells how it went: it is complete only if
\* nothing failed, the triggers and on_done after its completion included.
TaskOutcome ==
    \A k \in Tasks : Ended(k) /\ k \in Known(events) =>
        events[k].state = IF k \in failed THEN "failed" ELSE "complete"

\* A task that was started ends, although its event may expire while it runs.
TaskEnds == \A k \in Tasks : task[k].at = "pre" ~> Ended(k)

\* A token that its client retired is not accepted again, whatever calls of other
\* clients were going through the tokens at that time.  The client itself makes
\* one call at a time.
LogoutFinal == Sequential \cap loggedOut \cap Known(tokens) = {}

\* "Assert that any action with a token is not successful after using the "logout"
\* method to invalidate the token."
LogoutRetires == loggedOut \cap Known(tokens) = {}
=============================================================================
