---------------------------- MODULE Installation ----------------------------
(***************************************************************************)
(* One installation after the other: a machine boots what TFTP offers it,  *)
(* fetches its answers, runs the triggers, uploads its logs, and asks that *)
(* it is not booted from the network again; meanwhile clients edit and     *)
(* register systems, clear logs and switch the power, and cobblerd may be  *)
(* killed.  A request is served by a thread in the steps between which     *)
(* another thread may run.  The machines and the agent that uploads are    *)
(* not part of the daemon.                                                 *)
(***************************************************************************)
EXTENDS Naturals, Sequences, FiniteSets

CONSTANTS
    Boxes,       \* the machines; a system is named after its machine
    AddressOf,   \* [Boxes -> the addresses]
    Servers,     \* the threads
    NoBox,
    MaxSeconds, MaxBoots, MaxEvents,   \* bounds on a behaviour
    MaxChunks    \* the length a log may grow to

ASSUME InstallationAssumption == NoBox \notin Boxes

VARIABLES
    running,     \* cobblerd is up
    enrolled,    \* the listed systems
    netboot,     \* netboot_enabled of each
    stored,      \* the files: the netboot_enabled that was saved, or NoBox
    bootfile,    \* what TFTP offers a machine: "install", "local" or "menu"
    server,      \* server[t]: what thread t does
    lines,       \* install.log: the address, what happened, and when
    anamon,      \* anamon[b]: the log of b, a sequence of "new", "old" and "hole"
    box,         \* external: box[b]: what machine b does
    agent,       \* external: agent[b]: what the upload from b does
    rebooting    \* rebooting[b]: the thread that powers b off and on: "no", "due", "off"
VARIABLES        \* history
    second, boots,
    events,      \* requests of clients, falls of the power, and kills of cobblerd
    told,        \* told[b]: b has "asked", or was "told", that it is not installed again
    logged       \* logged[b]: the triggers of the current installation that were logged
daemon == <<enrolled, netboot, stored, bootfile, server>>
logs == <<lines, anamon, logged>>
counts == <<second, boots, events>>
pvars == <<running, daemon, logs, box, agent, rebooting, counts, told>>

FreeServer == [does |-> "idle", box |-> NoBox, at |-> "begin", file |-> "menu"]
NoUpload == [at |-> "none", ofs |-> 0, intact |-> TRUE]

PInit ==
    /\ running = TRUE
    /\ enrolled \in SUBSET Boxes
    /\ netboot = [b \in Boxes |-> b \in enrolled]
    /\ stored = [b \in Boxes |-> IF b \in enrolled THEN TRUE ELSE NoBox]
    /\ bootfile = [b \in Boxes |-> IF b \in enrolled THEN "install" ELSE "menu"]
    /\ server = [t \in Servers |-> FreeServer]
    /\ lines = {} /\ anamon = [b \in Boxes |-> <<>>] /\ logged = [b \in Boxes |-> {}]
    /\ box = [b \in Boxes |-> IF b \in enrolled THEN "boots" ELSE "runs"]
    /\ agent = [b \in Boxes |-> NoUpload]
    /\ rebooting = [b \in Boxes |-> "no"]
    /\ second = 1 /\ boots = 0 /\ events = 0
    /\ told = [b \in Boxes |-> "no"]

-----------------------------------------------------------------------------
(* The requests that write the boot file.                                   *)

Starts(t, does, b) ==
    /\ running /\ server[t] = FreeServer
    /\ server' = [server EXCEPT ![t] = [FreeServer EXCEPT !.does = does, !.box = b]]

\* A client sets netboot_enabled, or another attribute, and saves the system.
XapiSystemEdit(t, b, value) ==
    /\ events < MaxEvents /\ events' = events + 1
    /\ b \in enrolled /\ Starts(t, "edit", b)
    /\ netboot' = [netboot EXCEPT ![b] = value]
    /\ told' = IF value /\ ~netboot[b] THEN [told EXCEPT ![b] = "no"] ELSE told
    /\ UNCHANGED <<running, enrolled, stored, bootfile, logs, box, agent, rebooting, second, boots>>

\* nopxe: no such system ends the request at once, and the machine goes on.
DisableNetboot(t, b) ==
    /\ box[b] = "leaves"
    /\ IF b \in enrolled
       THEN /\ Starts(t, "nopxe", b)
            /\ netboot' = [netboot EXCEPT ![b] = FALSE]
            /\ told' = [told EXCEPT ![b] = "asked"]
            /\ box' = [box EXCEPT ![b] = "waits"]
       ELSE /\ box' = [box EXCEPT ![b] = "posts"]
            /\ UNCHANGED <<server, netboot, told>>
    /\ UNCHANGED <<running, enrolled, stored, bootfile, logs, agent, rebooting, counts>>

\* A machine that runs asks to be added.  It is not yet booted from the network, and has no
\* interface when its files are written.
RegisterNewSystem(t, b) ==
    /\ events < MaxEvents /\ events' = events + 1
    /\ box[b] = "runs" /\ b \notin enrolled
    /\ \A u \in Servers : server[u].box # b
    /\ Starts(t, "register", b)
    /\ UNCHANGED <<running, enrolled, netboot, stored, bootfile, logs, box, agent, rebooting,
                   second, boots, told>>

\* The thread leaves its request; a machine that waits for the answer goes on.
Leaves(t) ==
    /\ server' = [server EXCEPT ![t] = FreeServer]
    /\ box' = IF server[t].does = "nopxe" THEN [box EXCEPT ![server[t].box] = "posts"] ELSE box

\* A trigger before the add may fail; the attribute was set in place.
PreTriggerFails(t) ==
    /\ server[t].does # "idle" /\ server[t].at = "begin"
    /\ Leaves(t)
    /\ UNCHANGED <<running, enrolled, netboot, stored, bootfile, logs, agent, rebooting, counts, told>>

SerializeOneItem(t, value) == [stored EXCEPT ![server[t].box] = value]

\* add lists the system and saves it, ...
AddSaves(t) ==
    LET b == server[t].box IN
    /\ server[t].does # "idle" /\ server[t].at = "begin"
    /\ enrolled' = enrolled \cup {b}
    /\ netboot' = IF server[t].does = "register" THEN [netboot EXCEPT ![b] = FALSE] ELSE netboot
    /\ stored' = SerializeOneItem(t, netboot'[b])
    /\ server' = [server EXCEPT ![t].at = "renders"]
    /\ UNCHANGED <<running, bootfile, logs, box, agent, rebooting, counts, told>>

\* A slip: a boot file that is there is kept.
BootFileKept(b) ==
    IF bootfile[b] # "menu" THEN bootfile[b] ELSE IF netboot[b] THEN "install" ELSE "local"
BootFile(b) == IF netboot[b] THEN "install" ELSE "local"

\* ... renders its boot file, ...
WriteFileRenders(t) ==
    LET b == server[t].box IN
    /\ server[t].at = "renders"
    /\ server' = [server EXCEPT ![t].at = "writes",
                                ![t].file = BootFile(b)]
    /\ UNCHANGED <<running, enrolled, netboot, stored, bootfile, logs, box, agent, rebooting, counts, told>>

\* ... writes it and answers.  A machine whose file another thread is about to write from
\* what it was before is not counted as told.
WriteFileWrites(t) ==
    LET b == server[t].box
        crossed == \E u \in Servers \ {t} :
                      server[u].box = b /\ server[u].at = "writes" /\ server[u].file = "install" IN
    /\ server[t].at = "writes"
    /\ bootfile' = IF server[t].does = "register" THEN bootfile
                   ELSE [bootfile EXCEPT ![b] = server[t].file]
    /\ Leaves(t)
    /\ told' = IF server[t].does = "nopxe" /\ told[b] = "asked"
               THEN [told EXCEPT ![b] = IF crossed THEN "no" ELSE "told"] ELSE told
    /\ UNCHANGED <<running, enrolled, netboot, stored, logs, agent, rebooting, counts>>

-----------------------------------------------------------------------------
(* The triggers and the log of installations.                              *)

Logs(b, what) ==
    /\ lines' = lines \cup {[address |-> AddressOf[b], what |-> what, at |-> second]}
    /\ logged' = [logged EXCEPT ![b] = @ \cup {<<what, second>>}]

\* pre_log refuses a system that is not there; the anamon logs may be cleared before.
PreLog(b) == IF running /\ b \in enrolled THEN Logs(b, "start") ELSE UNCHANGED <<lines, logged>>
PreClearAnamonLogs(b) ==
    \E cleared \in IF ~running THEN {FALSE} ELSE IF b \in enrolled THEN {TRUE} ELSE BOOLEAN :
        anamon' = IF cleared THEN [anamon EXCEPT ![b] = <<>>] ELSE anamon

RunPreTriggers(b) ==
    /\ box[b] = "starts" /\ box' = [box EXCEPT ![b] = "installs"]
    /\ agent' = [agent EXCEPT ![b] = [NoUpload EXCEPT !.at = "sends"]]
    /\ PreLog(b) /\ PreClearAnamonLogs(b)
    /\ UNCHANGED <<running, daemon, rebooting, counts, told>>

PostLog(b, ran) == IF "log" \in ran THEN Logs(b, "stop") ELSE UNCHANGED <<lines, logged>>
\* A thread reboots the machine somewhat later.
PostPower(b, ran) ==
    rebooting' = IF "power" \in ran /\ rebooting[b] = "no"
                 THEN [rebooting EXCEPT ![b] = "due"] ELSE rebooting
\* The report by mail fails whenever it is configured, and ends the modules that come after it
\* in the order of their files; the reboot is configured or not.
BeforePostReport(b) == IF running /\ b \in enrolled THEN SUBSET {"log", "power"} ELSE {{}}

RunPostTriggers(b) ==
    /\ box[b] = "posts" /\ box' = [box EXCEPT ![b] = "runs"]
    /\ \E ran \in BeforePostReport(b) : PostLog(b, ran) /\ PostPower(b, ran)
    /\ UNCHANGED <<running, daemon, anamon, agent, counts, told>>

\* The report of an address: the last start and the last stop, to the second.
Latest(a, what) ==
    LET times == {l.at : l \in {k \in lines : k.address = a /\ k.what = what}} IN
    IF times = {} THEN 0 ELSE CHOOSE s \in times : \A r \in times : r <= s
ProcessResults(a) ==
    IF Latest(a, "stop") > Latest(a, "start") THEN "finished" ELSE "installing"

-----------------------------------------------------------------------------
(* The upload of a log, chunk after chunk, while it grows.                  *)

\* A slip: the file is truncated by the call that ends it, too.
TruncatesLast(ofs, last) == ofs = 0 \/ last
\* Of the last call, which carries no data, the size is the length of the whole log.
Truncates(ofs, last) == ofs = 0

Resized(s, n) == [i \in 1..n |-> IF i <= Len(s) THEN s[i] ELSE "hole"]
Written(s, ofs) ==
    [i \in 1..(IF ofs + 1 > Len(s) THEN ofs + 1 ELSE Len(s)) |->
        IF i = ofs + 1 THEN "new" ELSE IF i <= Len(s) THEN s[i] ELSE "hole"]

\* The agent sends what it reads until it finds the end; meanwhile the log grows.  An answer
\* of False is tried again, and after four of them the next chunk is sent.
UploadLogData(b, last) ==
    LET ofs == agent[b].ofs
        kept == IF Truncates(ofs, last) THEN <<>> ELSE anamon[b] IN
    /\ agent[b].at = "sends" /\ running /\ (last \/ ofs < MaxChunks)
    /\ IF b \in enrolled
       THEN anamon' = [anamon EXCEPT ![b] = IF last THEN Resized(kept, ofs) ELSE Written(kept, ofs)]
       ELSE UNCHANGED anamon
    /\ agent' = [agent EXCEPT ![b] = [at     |-> IF last THEN "done" ELSE "sends",
                                      ofs    |-> IF last THEN ofs ELSE ofs + 1,
                                      intact |-> @.intact /\ b \in enrolled]]
    /\ UNCHANGED <<running, daemon, lines, logged, box, rebooting, counts, told>>

\* Without cobblerd the agent ends.
UploadFails(b) ==
    /\ agent[b].at = "sends" /\ ~running
    /\ agent' = [agent EXCEPT ![b] = NoUpload]
    /\ UNCHANGED <<running, daemon, logs, box, rebooting, counts, told>>

\* The log has grown, and is sent again from its first chunk.
UploadsAgain(b) ==
    /\ agent[b].at = "done"
    /\ agent' = [agent EXCEPT ![b] = [NoUpload EXCEPT !.at = "sends"]]
    /\ UNCHANGED <<running, daemon, logs, box, rebooting, counts, told>>

\* A client empties the logs of a system.
ClearLogs(b) ==
    /\ running /\ b \in enrolled /\ anamon[b] # <<>>
    /\ events < MaxEvents /\ events' = events + 1
    /\ anamon' = [anamon EXCEPT ![b] = <<>>]
    /\ agent' = [agent EXCEPT ![b].intact = FALSE]
    /\ UNCHANGED <<running, daemon, lines, logged, box, rebooting, second, boots, told>>

-----------------------------------------------------------------------------
(* Machines, power and crashes.                                             *)

\* A machine that finds no file, or a local one, starts from its disk.
Boots(b) ==
    /\ box[b] = "boots" /\ boots < MaxBoots /\ boots' = boots + 1
    /\ box' = [box EXCEPT ![b] = IF bootfile[b] = "install" THEN "fetches" ELSE "runs"]
    /\ UNCHANGED <<running, daemon, logs, agent, rebooting, second, events, told>>

\* The answers of a system that is listed, rendered now.
GenerateAutoinstall(b) == running /\ b \in enrolled

\* Without its answers an installation does not begin.
FetchesAutoinstall(b) ==
    /\ box[b] = "fetches"
    /\ IF GenerateAutoinstall(b)
       THEN /\ box' = [box EXCEPT ![b] = "starts"]
            /\ logged' = [logged EXCEPT ![b] = {}]
            /\ anamon' = [anamon EXCEPT ![b] = [i \in 1..Len(@) |-> IF @[i] = "new" THEN "old" ELSE @[i]]]
       ELSE box' = [box EXCEPT ![b] = "runs"] /\ UNCHANGED <<logged, anamon>>
    /\ UNCHANGED <<running, daemon, lines, agent, rebooting, counts, told>>

Installs(b) ==
    /\ \/ box[b] = "installs" /\ box' = [box EXCEPT ![b] = "leaves"]
       \/ box[b] = "leaves" /\ ~running /\ box' = [box EXCEPT ![b] = "posts"]
    /\ UNCHANGED <<running, daemon, logs, agent, rebooting, counts, told>>

\* Without power a machine and its upload end; a request it waits for goes on, and nobody
\* gets the answer.
Falls(b) ==
    /\ box' = [box EXCEPT ![b] = "down"]
    /\ agent' = [agent EXCEPT ![b] = NoUpload]
    /\ server' = [t \in Servers |->
          IF server[t].does = "nopxe" /\ server[t].box = b
          THEN [server[t] EXCEPT !.does = "abandoned"] ELSE server[t]]
Rises(b) == box' = [box EXCEPT ![b] = IF @ = "down" THEN "boots" ELSE @] /\ UNCHANGED <<agent, server>>
Stays == UNCHANGED <<box, agent, server>>

\* The operator, or a client through power_on and power_off.
PowerSystem(b) ==
    /\ \/ box[b] # "down" /\ events < MaxEvents /\ events' = events + 1 /\ Falls(b)
       \/ box[b] = "down" /\ Rises(b) /\ UNCHANGED events
    /\ UNCHANGED <<running, enrolled, netboot, stored, bootfile, logs, rebooting, second, boots, told>>

\* The fence agent is tried three times.  Whatever it says at last, it may have done it.
Power(Done) == Done \/ Stays

\* A reboot that cannot power the machine off does not power it on.
Reboot(b) ==
    /\ running
    /\ \/ /\ rebooting[b] = "due" /\ Power(Falls(b))
          /\ \E ok \in BOOLEAN : rebooting' = [rebooting EXCEPT ![b] = IF ok THEN "off" ELSE "no"]
       \/ /\ rebooting[b] = "off" /\ Power(Rises(b))
          /\ rebooting' = [rebooting EXCEPT ![b] = "no"]
    /\ UNCHANGED <<running, enrolled, netboot, stored, bootfile, logs, counts, told>>

Kill ==
    /\ running /\ running' = FALSE /\ events < MaxEvents /\ events' = events + 1
    /\ server' = [t \in Servers |-> FreeServer]
    /\ box' = [b \in Boxes |-> IF box[b] = "waits" THEN "posts" ELSE box[b]]
    /\ rebooting' = [b \in Boxes |-> "no"]
    \* An upload that meets it is given up, the file perhaps truncated and not yet written.
    /\ \E cut \in BOOLEAN :
          anamon' = [b \in Boxes |-> IF cut /\ agent[b].at = "sends" /\ agent[b].ofs = 0
                                     THEN <<>> ELSE anamon[b]]
    /\ agent' = [b \in Boxes |-> IF agent[b].at = "sends" THEN NoUpload ELSE agent[b]]
    /\ UNCHANGED <<enrolled, netboot, stored, bootfile, lines, logged, second, boots, told>>

Restart ==
    /\ ~running /\ running' = TRUE
    /\ enrolled' = {b \in Boxes : stored[b] # NoBox}
    /\ netboot' = [b \in Boxes |-> stored[b] = TRUE]
    /\ UNCHANGED <<stored, bootfile, server, logs, box, agent, rebooting, counts, told>>

Tick ==
    /\ second < MaxSeconds /\ second' = second + 1
    /\ UNCHANGED <<running, daemon, logs, box, agent, rebooting, boots, events, told>>

PNext ==
    \/ \E t \in Servers :
          \/ PreTriggerFails(t) \/ AddSaves(t) \/ WriteFileRenders(t) \/ WriteFileWrites(t)
          \/ \E b \in Boxes :
                \/ \E v \in BOOLEAN : XapiSystemEdit(t, b, v)
                \/ DisableNetboot(t, b) \/ RegisterNewSystem(t, b)
    \/ \E b \in Boxes :
          \/ Boots(b) \/ FetchesAutoinstall(b) \/ RunPreTriggers(b) \/ Installs(b) \/ RunPostTriggers(b)
          \/ \E last \in BOOLEAN : UploadLogData(b, last)
          \/ UploadFails(b) \/ UploadsAgain(b) \/ ClearLogs(b)
          \/ PowerSystem(b) \/ Reboot(b)
    \/ Kill \/ Restart \/ Tick
PSpec == PInit /\ [][PNext]_pvars

-----------------------------------------------------------------------------
\* A machine that was told not to boot from the network is not installed again before a
\* client enables it, whatever requests cross, fail or are cut off by a crash.
InstallsOnce ==
    [][\A b \in Boxes : box[b] = "boots" /\ box'[b] = "fetches" => told[b] # "told"]_pvars

\* An address of one machine is reported as finished when the installation has ended in a
\* later second than it began, and never while an installation that was logged goes on.
StatusExact ==
    \A b \in Boxes :
        (\A c \in Boxes \ {b} : AddressOf[c] # AddressOf[b]) =>
            /\ box[b] \in {"installs", "leaves", "waits", "posts"} /\ logged[b] # {}
                   => ProcessResults(AddressOf[b]) # "finished"
            /\ (\E s, r \in 1..MaxSeconds : s < r /\ {<<"start", s>>, <<"stop", r>>} \subseteq logged[b])
                   => ProcessResults(AddressOf[b]) = "finished"
\* A log that was uploaded to its end without being refused or cleared is what was sent.
UploadExact ==
    \A b \in Boxes :
        agent[b].at = "done" /\ agent[b].intact
            => anamon[b] = [i \in 1..agent[b].ofs |-> "new"]
\* The two logs of an installation tell what happened, over reinstallations and crashes.
LogsExact == StatusExact /\ UploadExact
=============================================================================
