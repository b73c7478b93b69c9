--------------------------- MODULE InstallationProofs ---------------------------
(***************************************************************************)
(* Proofs about Installation, for any number of machines, addresses,       *)
(* threads and blocks: a machine is installed once, the records of the     *)
(* interface hold the steps of one installation each, and a log that was   *)
(* sent is kept whole.                                                     *)
(***************************************************************************)
EXTENDS Installation, FiniteSetTheorems, SequenceTheorems, TLAPS

BootFiles == {"install", "local", "menu"}
Requests == [does : {"idle", "edit", "nopxe", "register", "abandoned"}, box : Boxes \cup {NoBox},
             at : {"begin", "renders", "writes"}, file : BootFiles]
Addresses == {AddressOf[b] : b \in Boxes}
Lines == [address : Addresses, what : {"start", "stop"}, at : Nat]
Chunks == {"new", "old", "hole"}
Places == {"down", "boots", "fetches", "starts", "installs", "leaves", "waits", "posts", "runs"}
Uploads == [at : {"none", "sends", "done"}, ofs : Nat, intact : BOOLEAN]
DaemonTyped ==
    /\ running \in BOOLEAN /\ enrolled \in SUBSET Boxes /\ netboot \in [Boxes -> BOOLEAN]
    /\ stored \in [Boxes -> BOOLEAN \cup {NoBox}] /\ bootfile \in [Boxes -> BootFiles]
    /\ server \in [Servers -> Requests]
    /\ \A t \in Servers : server[t].does # "idle" => server[t].box \in Boxes
    /\ \A t \in Servers : server[t].does = "idle" => server[t] = FreeServer
LogsTyped ==
    /\ lines \in SUBSET Lines /\ anamon \in [Boxes -> Seq(Chunks)]
    /\ logged \in [Boxes -> SUBSET ({"start", "stop"} \X Nat)] /\ second \in Nat \ {0}
MachinesTyped ==
    /\ box \in [Boxes -> Places] /\ agent \in [Boxes -> Uploads]
    /\ rebooting \in [Boxes -> {"no", "due", "off"}] /\ told \in [Boxes -> {"no", "asked", "told"}]
InstallationTyped == DaemonTyped /\ LogsTyped /\ MachinesTyped

\* One thread at most serves the machine that waits.  While it does, and nobody has enabled
\* the boot from the network again, it is disabled in the item, then in the file of the item,
\* then in what is about to be written; afterwards everywhere.
Asks(t, b) == server[t].does = "nopxe" /\ server[t].box = b
Asked(t, b) ==
    /\ ~netboot[b]
    /\ server[t].at # "begin" => stored[b] # TRUE
    /\ server[t].at = "writes" => server[t].file # "install"
Told(b) ==
    /\ ~netboot[b] /\ stored[b] # TRUE /\ bootfile[b] # "install"
    /\ \A u \in Servers : server[u].box = b /\ server[u].at = "writes" => server[u].file # "install"
ToldKept ==
    /\ ~running => \A t \in Servers : server[t] = FreeServer
    /\ \A t \in Servers, b \in Boxes : Asks(t, b) => box[b] = "waits"
    /\ \A t, u \in Servers, b \in Boxes : Asks(t, b) /\ Asks(u, b) => t = u
    /\ \A t \in Servers, b \in Boxes : Asks(t, b) /\ told[b] = "asked" => Asked(t, b)
    /\ \A b \in Boxes : told[b] = "told" => Told(b)

\* Nothing is uploaded from a machine that has not begun, and what was uploaded is there.
News(n) == [i \in 1..n |-> "new"]
Early == {"down", "boots", "fetches", "starts"}
Uploaded(b) ==
    /\ box[b] \in Early => agent[b].at = "none"
    /\ agent[b].at # "none" /\ agent[b].intact =>
         anamon[b] = News(agent[b].ofs) \/ (agent[b].ofs = 0 /\ agent[b].at = "sends")
UploadKept == \A b \in Boxes : Uploaded(b)

\* The lines of a machine that has an address of its own: those of the current installation
\* are there, and none is younger than its start before its end.
Alone(b) == \A c \in Boxes \ {b} : AddressOf[c] # AddressOf[b]
LinesOf(b, what) == {l \in lines : l.address = AddressOf[b] /\ l.what = what}
Underway == {"installs", "leaves", "waits", "posts"}
LoggedKept(b) ==
    /\ box[b] = "starts" => logged[b] = {}
    /\ \A e \in logged[b] : [address |-> AddressOf[b], what |-> e[1], at |-> e[2]] \in lines
    /\ \A e \in logged[b] : e[1] = "start" => \A l \in LinesOf(b, "start") : l.at <= e[2]
    /\ box[b] \in Underway => \A e \in logged[b] :
         e[1] = "start" /\ \A l \in LinesOf(b, "stop") : l.at <= e[2]
StatusKept ==
    /\ \A l \in lines : l.at \in 1..second
    /\ \A b \in Boxes : Alone(b) => LoggedKept(b)

InstallationInv == InstallationTyped /\ ToldKept /\ UploadKept /\ StatusKept

-----------------------------------------------------------------------------

LEMMA HasMaximum ==
    ASSUME NEW S \in SUBSET Nat, S # {}, NEW n \in Nat, \A s \in S : s <= n
    PROVE  \E m \in S : \A s \in S : s <= m
<1> DEFINE Above(x) == {y \in S : y > x}
           T == {Above(x) : x \in S}
<1>1. IsFiniteSet(S)
  BY FS_BoundedSetOfNaturals
<1>2. IsWellFoundedOn(StrictSubsetOrdering(S), SUBSET S)
  BY <1>1, FS_StrictSubsetOrderingWellFounded, FS_FiniteSubsetsOfFinite
<1>3. T \subseteq SUBSET S /\ T # {}
  OBVIOUS
<1> HIDE DEF T
<1>4. PICK A \in T : \A B \in T : <<B, A>> \notin StrictSubsetOrdering(S)
  BY <1>2, <1>3, WFMin
<1>5. PICK m \in S : A = Above(m)
  BY DEF T
<1>6. ASSUME NEW s \in S, s > m PROVE FALSE
  <2>1. Above(s) \in T
    BY DEF T
  <2>2. s \in Above(m) /\ s \notin Above(s) /\ Above(s) \subseteq Above(m)
    <3>1. m \in Nat /\ s \in Nat /\ \A y \in S : y \in Nat
      OBVIOUS
    <3>2. \A y \in Nat : y > s => y > m
      BY <1>6, <3>1
    <3>3. s \in Above(m)
      BY <1>6
    <3>4. s \notin Above(s)
      BY <3>1
    <3>5. Above(s) \subseteq Above(m)
      BY <3>1, <3>2
    <3> QED
      BY <3>3, <3>4, <3>5
  <2> HIDE DEF Above
  <2>3. Above(s) \in SUBSET S /\ Above(m) \in SUBSET S
    BY DEF Above
  <2>4. <<Above(s), Above(m)>> \in StrictSubsetOrdering(S)
    BY <2>2, <2>3 DEF StrictSubsetOrdering
  <2> QED
    BY <1>4, <1>5, <2>1, <2>4
<1> QED
  BY <1>6

LEMMA FreeTyped == FreeServer \in Requests /\ FreeServer.does = "idle"
BY DEF FreeServer, Requests, BootFiles

LEMMA NoUploadTyped ==
    NoUpload \in Uploads /\ [NoUpload EXCEPT !.at = "sends"] \in Uploads
BY DEF NoUpload, Uploads

LEMMA StartsTyped ==
    ASSUME DaemonTyped, NEW t \in Servers, NEW b \in Boxes,
           NEW does \in {"edit", "nopxe", "register"}, Starts(t, does, b)
    PROVE  /\ server' \in [Servers -> Requests]
           /\ \A u \in Servers : server'[u].does # "idle" => server'[u].box \in Boxes
           /\ \A u \in Servers : server'[u].does = "idle" => server'[u] = FreeServer
<1> DEFINE k == [FreeServer EXCEPT !.does = does, !.box = b]
<1>1. k \in Requests /\ k.does = does /\ k.box = b
  BY FreeTyped DEF FreeServer, Requests
<1>2. server' = [server EXCEPT ![t] = k]
  BY DEF Starts
<1> HIDE DEF k
<1> QED
  BY <1>1, <1>2 DEF DaemonTyped

LEMMA LeavesTyped ==
    ASSUME DaemonTyped, MachinesTyped, NEW t \in Servers, server[t].does # "idle", Leaves(t)
    PROVE  /\ server' \in [Servers -> Requests]
           /\ \A u \in Servers : server'[u].does # "idle" => server'[u].box \in Boxes
           /\ \A u \in Servers : server'[u].does = "idle" => server'[u] = FreeServer
           /\ box' \in [Boxes -> Places]
BY FreeTyped DEF DaemonTyped, MachinesTyped, Leaves, Places

LEMMA FallsTyped ==
    ASSUME DaemonTyped, MachinesTyped, NEW b \in Boxes, Falls(b)
    PROVE  /\ server' \in [Servers -> Requests]
           /\ \A u \in Servers : server'[u].does # "idle" => server'[u].box \in Boxes
           /\ \A u \in Servers : server'[u].does = "idle" => server'[u] = FreeServer
           /\ box' \in [Boxes -> Places] /\ agent' \in [Boxes -> Uploads]
<1>1. \A k \in Requests : LET a == [k EXCEPT !.does = "abandoned"] IN
        a \in Requests /\ a.does = "abandoned" /\ a.box = k.box
  BY DEF Requests
<1> QED
  BY <1>1, NoUploadTyped DEF DaemonTyped, MachinesTyped, Falls, Places

LEMMA LogsIsTyped ==
    ASSUME LogsTyped, NEW b \in Boxes, NEW what \in {"start", "stop"}, Logs(b, what)
    PROVE  lines' \in SUBSET Lines /\ logged' \in [Boxes -> SUBSET ({"start", "stop"} \X Nat)]
BY DEF LogsTyped, Logs, Lines, Addresses

LEMMA WrittenTyped ==
    ASSUME NEW s \in Seq(Chunks), NEW n \in Nat
    PROVE  Resized(s, n) \in Seq(Chunks) /\ Written(s, n) \in Seq(Chunks)
<1>1. Len(s) \in Nat /\ \A i \in 1..Len(s) : s[i] \in Chunks
  OBVIOUS
<1>2. Resized(s, n) \in [1..n -> Chunks]
  BY <1>1 DEF Resized, Chunks
<1>3. PICK m \in Nat : m = IF n + 1 > Len(s) THEN n + 1 ELSE Len(s)
  BY <1>1
<1>4. Written(s, n) \in [1..m -> Chunks]
  BY <1>1, <1>3 DEF Written, Chunks
<1>5. \A k \in Nat : \A q : q \in [1..k -> Chunks] => q \in Seq(Chunks)
  BY SeqDef
<1> QED
  BY <1>2, <1>3, <1>4, <1>5

LEMMA EditTyped ==
    ASSUME InstallationTyped, NEW t \in Servers, NEW b \in Boxes, NEW v \in BOOLEAN,
           XapiSystemEdit(t, b, v)
    PROVE  InstallationTyped'
<1>1. DaemonTyped'
  BY StartsTyped DEF InstallationTyped, XapiSystemEdit, DaemonTyped
<1>2. LogsTyped'
  BY DEF InstallationTyped, XapiSystemEdit, LogsTyped, logs
<1>3. MachinesTyped'
  BY DEF InstallationTyped, XapiSystemEdit, MachinesTyped
<1> QED
  BY <1>1, <1>2, <1>3 DEF InstallationTyped

LEMMA DisableTyped ==
    ASSUME InstallationTyped, NEW t \in Servers, NEW b \in Boxes, DisableNetboot(t, b)
    PROVE  InstallationTyped'
<1>1. DaemonTyped'
  BY StartsTyped DEF InstallationTyped, DisableNetboot, DaemonTyped
<1>2. LogsTyped'
  BY DEF InstallationTyped, DisableNetboot, LogsTyped, logs, counts
<1>3. MachinesTyped'
  BY DEF InstallationTyped, DisableNetboot, MachinesTyped, Places
<1> QED
  BY <1>1, <1>2, <1>3 DEF InstallationTyped

LEMMA RegisterTyped ==
    ASSUME InstallationTyped, NEW t \in Servers, NEW b \in Boxes, RegisterNewSystem(t, b)
    PROVE  InstallationTyped'
<1>1. DaemonTyped'
  BY StartsTyped DEF InstallationTyped, RegisterNewSystem, DaemonTyped
<1>2. LogsTyped'
  BY DEF InstallationTyped, RegisterNewSystem, LogsTyped, logs
<1>3. MachinesTyped'
  BY DEF InstallationTyped, RegisterNewSystem, MachinesTyped
<1> QED
  BY <1>1, <1>2, <1>3 DEF InstallationTyped

LEMMA PreTriggerTyped ==
    ASSUME InstallationTyped, NEW t \in Servers, PreTriggerFails(t)
    PROVE  InstallationTyped'
<1>1. DaemonTyped'
  BY LeavesTyped DEF InstallationTyped, PreTriggerFails, DaemonTyped
<1>2. LogsTyped'
  BY DEF InstallationTyped, PreTriggerFails, LogsTyped, logs, counts
<1>3. MachinesTyped'
  BY LeavesTyped DEF InstallationTyped, PreTriggerFails, MachinesTyped
<1> QED
  BY <1>1, <1>2, <1>3 DEF InstallationTyped

\* What the steps of a thread that serves a request do to its place.
LEMMA ServerStep ==
    ASSUME DaemonTyped, NEW t \in Servers, server[t].does # "idle",
           NEW p \in {"begin", "renders", "writes"}, NEW f \in BootFiles,
           server' = [server EXCEPT ![t].at = p, ![t].file = f]
    PROVE  /\ server' \in [Servers -> Requests]
           /\ \A u \in Servers : /\ server'[u].does = server[u].does
                                 /\ server'[u].box = server[u].box
                                 /\ server'[u].at = IF u = t THEN p ELSE server[u].at
                                 /\ server'[u].file = IF u = t THEN f ELSE server[u].file
                                 /\ u # t => server'[u] = server[u]
           /\ \A u \in Servers : server'[u].does # "idle" => server'[u].box \in Boxes
           /\ \A u \in Servers : server'[u].does = "idle" => server'[u] = FreeServer
<1> DEFINE k == [server[t] EXCEPT !.at = p, !.file = f]
<1>1. server[t] \in Requests
  BY DEF DaemonTyped
<1>2. k \in Requests /\ k.does = server[t].does /\ k.box = server[t].box /\ k.at = p /\ k.file = f
  BY <1>1 DEF Requests
<1>3. server' = [server EXCEPT ![t] = k]
  BY DEF DaemonTyped
<1> HIDE DEF k
<1>4. \A u \in Servers : server'[u] = IF u = t THEN k ELSE server[u]
  BY <1>3 DEF DaemonTyped
<1> QED
  BY <1>2, <1>3, <1>4 DEF DaemonTyped

LEMMA AddStep ==
    ASSUME DaemonTyped, NEW t \in Servers, AddSaves(t)
    PROVE  /\ server[t].does # "idle" /\ server[t].box \in Boxes /\ server[t].file \in BootFiles
           /\ server' = [server EXCEPT ![t].at = "renders", ![t].file = server[t].file]
<1>1. server[t].does # "idle" /\ server[t] \in Requests
  BY DEF AddSaves, DaemonTyped
<1>2. [server[t] EXCEPT !.at = "renders", !.file = server[t].file] = [server[t] EXCEPT !.at = "renders"]
  BY <1>1 DEF Requests
<1>3. server' = [server EXCEPT ![t] = [server[t] EXCEPT !.at = "renders"]]
  BY DEF AddSaves, DaemonTyped
<1> QED
  BY <1>1, <1>2, <1>3 DEF DaemonTyped, Requests

LEMMA AddTyped ==
    ASSUME InstallationTyped, NEW t \in Servers, AddSaves(t)
    PROVE  InstallationTyped'
<1>1. DaemonTyped'
  <2>1. server[t].box \in Boxes
    BY AddStep DEF InstallationTyped
  <2>2. netboot' \in [Boxes -> BOOLEAN] /\ enrolled' \in SUBSET Boxes
    BY <2>1 DEF InstallationTyped, AddSaves, DaemonTyped
  <2>3. stored' \in [Boxes -> BOOLEAN \cup {NoBox}]
    BY <2>1, <2>2 DEF InstallationTyped, AddSaves, SerializeOneItem, DaemonTyped
  <2>4. /\ server' \in [Servers -> Requests]
        /\ \A u \in Servers : server'[u].does # "idle" => server'[u].box \in Boxes
        /\ \A u \in Servers : server'[u].does = "idle" => server'[u] = FreeServer
    BY AddStep, ServerStep DEF InstallationTyped
  <2> QED
    BY <2>2, <2>3, <2>4 DEF InstallationTyped, AddSaves, DaemonTyped
<1>2. LogsTyped'
  BY DEF InstallationTyped, AddSaves, LogsTyped, logs, counts
<1>3. MachinesTyped'
  BY DEF InstallationTyped, AddSaves, MachinesTyped
<1> QED
  BY <1>1, <1>2, <1>3 DEF InstallationTyped

LEMMA RenderStep ==
    ASSUME DaemonTyped, NEW t \in Servers, WriteFileRenders(t)
    PROVE  /\ server[t].does # "idle" /\ server[t].box \in Boxes
           /\ BootFile(server[t].box) \in {"install", "local"}
           /\ server' = [server EXCEPT ![t].at = "writes", ![t].file = BootFile(server[t].box)]
BY DEF WriteFileRenders, DaemonTyped, FreeServer, BootFile

LEMMA RenderTyped ==
    ASSUME InstallationTyped, NEW t \in Servers, WriteFileRenders(t)
    PROVE  InstallationTyped'
<1>1. DaemonTyped'
  BY RenderStep, ServerStep DEF InstallationTyped, WriteFileRenders, DaemonTyped, BootFiles
<1>2. LogsTyped'
  BY DEF InstallationTyped, WriteFileRenders, LogsTyped, logs, counts
<1>3. MachinesTyped'
  BY DEF InstallationTyped, WriteFileRenders, MachinesTyped
<1> QED
  BY <1>1, <1>2, <1>3 DEF InstallationTyped

LEMMA WriteTyped ==
    ASSUME InstallationTyped, NEW t \in Servers, WriteFileWrites(t)
    PROVE  InstallationTyped'
<1>1. server[t].does # "idle" /\ server[t].box \in Boxes /\ server[t].file \in BootFiles
  BY DEF WriteFileWrites, InstallationTyped, DaemonTyped, FreeServer, Requests
<1>2. DaemonTyped'
  BY <1>1, LeavesTyped DEF InstallationTyped, WriteFileWrites, DaemonTyped
<1>3. LogsTyped'
  BY DEF InstallationTyped, WriteFileWrites, LogsTyped, logs, counts
<1>4. MachinesTyped'
  BY <1>1, LeavesTyped DEF InstallationTyped, WriteFileWrites, MachinesTyped
<1> QED
  BY <1>2, <1>3, <1>4 DEF InstallationTyped

LEMMA PreTyped ==
    ASSUME InstallationTyped, NEW b \in Boxes, RunPreTriggers(b)
    PROVE  InstallationTyped'
<1>1. DaemonTyped'
  BY DEF InstallationTyped, RunPreTriggers, DaemonTyped, daemon
<1>2. LogsTyped'
  BY LogsIsTyped DEF InstallationTyped, RunPreTriggers, LogsTyped, logs, counts, PreLog, PreClearAnamonLogs, Chunks
<1>3. MachinesTyped'
  BY NoUploadTyped DEF InstallationTyped, RunPreTriggers, MachinesTyped, Places
<1> QED
  BY <1>1, <1>2, <1>3 DEF InstallationTyped

LEMMA PostTyped ==
    ASSUME InstallationTyped, NEW b \in Boxes, RunPostTriggers(b)
    PROVE  InstallationTyped'
<1>1. DaemonTyped'
  BY DEF InstallationTyped, RunPostTriggers, DaemonTyped, daemon
<1>2. LogsTyped'
  BY LogsIsTyped DEF InstallationTyped, RunPostTriggers, LogsTyped, logs, counts, PostLog
<1>3. MachinesTyped'
  BY DEF InstallationTyped, RunPostTriggers, MachinesTyped, PostPower, Places
<1> QED
  BY <1>1, <1>2, <1>3 DEF InstallationTyped

LEMMA UploadTyped ==
    ASSUME InstallationTyped, NEW b \in Boxes, NEW last \in BOOLEAN, UploadLogData(b, last)
    PROVE  InstallationTyped'
<1> DEFINE ofs == agent[b].ofs
           kept == IF Truncates(ofs, last) THEN <<>> ELSE anamon[b]
           k == [at     |-> IF last THEN "done" ELSE "sends",
                 ofs    |-> IF last THEN ofs ELSE ofs + 1,
                 intact |-> agent[b].intact /\ b \in enrolled]
<1>1. ofs \in Nat /\ kept \in Seq(Chunks) /\ agent[b].intact \in BOOLEAN
  BY DEF InstallationTyped, LogsTyped, MachinesTyped, Uploads
<1>2. k \in Uploads
  BY <1>1 DEF Uploads
<1>3. agent' = [agent EXCEPT ![b] = k]
  BY DEF UploadLogData
<1>4. anamon' = [anamon EXCEPT ![b] = IF last THEN Resized(kept, ofs) ELSE Written(kept, ofs)]
      \/ UNCHANGED anamon
  BY DEF UploadLogData
<1>5. DaemonTyped'
  BY DEF InstallationTyped, UploadLogData, DaemonTyped, daemon
<1> HIDE DEF kept, k, ofs
<1>6. anamon' \in [Boxes -> Seq(Chunks)]
  <2>1. Resized(kept, ofs) \in Seq(Chunks) /\ Written(kept, ofs) \in Seq(Chunks)
    BY <1>1, WrittenTyped
  <2>2. PICK log \in Seq(Chunks) : anamon' = [anamon EXCEPT ![b] = log] \/ UNCHANGED anamon
    BY <1>4, <2>1
  <2>3. anamon \in [Boxes -> Seq(Chunks)]
    BY DEF InstallationTyped, LogsTyped
  <2> QED
    BY <2>2, <2>3
<1>7. LogsTyped'
  BY <1>6 DEF InstallationTyped, UploadLogData, LogsTyped, counts
<1>8. MachinesTyped'
  BY <1>2, <1>3 DEF InstallationTyped, UploadLogData, MachinesTyped
<1> QED
  BY <1>5, <1>7, <1>8 DEF InstallationTyped

LEMMA UploadFailsTyped ==
    ASSUME InstallationTyped, NEW b \in Boxes, UploadFails(b)
    PROVE  InstallationTyped'
<1>1. DaemonTyped'
  BY DEF InstallationTyped, UploadFails, DaemonTyped, daemon
<1>2. LogsTyped'
  BY DEF InstallationTyped, UploadFails, LogsTyped, logs, counts
<1>3. MachinesTyped'
  BY NoUploadTyped DEF InstallationTyped, UploadFails, MachinesTyped
<1> QED
  BY <1>1, <1>2, <1>3 DEF InstallationTyped

LEMMA UploadsAgainTyped ==
    ASSUME InstallationTyped, NEW b \in Boxes, UploadsAgain(b)
    PROVE  InstallationTyped'
<1>1. DaemonTyped'
  BY DEF InstallationTyped, UploadsAgain, DaemonTyped, daemon
<1>2. LogsTyped'
  BY DEF InstallationTyped, UploadsAgain, LogsTyped, logs, counts
<1>3. MachinesTyped'
  BY NoUploadTyped DEF InstallationTyped, UploadsAgain, MachinesTyped
<1> QED
  BY <1>1, <1>2, <1>3 DEF InstallationTyped

LEMMA ClearLogsTyped ==
    ASSUME InstallationTyped, NEW b \in Boxes, ClearLogs(b)
    PROVE  InstallationTyped'
<1>1. DaemonTyped'
  BY DEF InstallationTyped, ClearLogs, DaemonTyped, daemon
<1>2. LogsTyped'
  BY DEF InstallationTyped, ClearLogs, LogsTyped, logs, counts
<1>3. MachinesTyped'
  BY DEF InstallationTyped, ClearLogs, MachinesTyped, Uploads
<1> QED
  BY <1>1, <1>2, <1>3 DEF InstallationTyped

LEMMA BootsTyped ==
    ASSUME InstallationTyped, NEW b \in Boxes, Boots(b)
    PROVE  InstallationTyped'
<1>1. DaemonTyped'
  BY DEF InstallationTyped, Boots, DaemonTyped, daemon
<1>2. LogsTyped'
  BY DEF InstallationTyped, Boots, LogsTyped, logs, counts
<1>3. MachinesTyped'
  BY DEF InstallationTyped, Boots, MachinesTyped, Places
<1> QED
  BY <1>1, <1>2, <1>3 DEF InstallationTyped

LEMMA FetchesTyped ==
    ASSUME InstallationTyped, NEW b \in Boxes, FetchesAutoinstall(b)
    PROVE  InstallationTyped'
<1> DEFINE aged == [i \in 1..Len(anamon[b]) |-> IF anamon[b][i] = "new" THEN "old" ELSE anamon[b][i]]
<1>1. DaemonTyped'
  BY DEF InstallationTyped, FetchesAutoinstall, DaemonTyped, daemon
<1>2. aged \in Seq(Chunks)
  <2>1. anamon[b] \in Seq(Chunks)
    BY DEF InstallationTyped, LogsTyped
  <2>2. Len(anamon[b]) \in Nat /\ \A i \in 1..Len(anamon[b]) : anamon[b][i] \in Chunks
    BY <2>1
  <2>3. aged \in [1..Len(anamon[b]) -> Chunks]
    BY <2>2 DEF Chunks
  <2> QED
    BY <2>2, <2>3, SeqDef
<1>3. anamon' = [anamon EXCEPT ![b] = aged] \/ UNCHANGED anamon
  BY DEF FetchesAutoinstall
<1> HIDE DEF aged
<1>4. LogsTyped'
  BY <1>2, <1>3 DEF InstallationTyped, FetchesAutoinstall, LogsTyped, counts
<1>5. MachinesTyped'
  BY DEF InstallationTyped, FetchesAutoinstall, MachinesTyped, Places
<1> QED
  BY <1>1, <1>4, <1>5 DEF InstallationTyped

LEMMA InstallsTyped ==
    ASSUME InstallationTyped, NEW b \in Boxes, Installs(b)
    PROVE  InstallationTyped'
<1>1. DaemonTyped'
  BY DEF InstallationTyped, Installs, DaemonTyped, daemon
<1>2. LogsTyped'
  BY DEF InstallationTyped, Installs, LogsTyped, logs, counts
<1>3. MachinesTyped'
  BY DEF InstallationTyped, Installs, MachinesTyped, Places
<1> QED
  BY <1>1, <1>2, <1>3 DEF InstallationTyped

LEMMA PowerTyped ==
    ASSUME InstallationTyped, NEW b \in Boxes, PowerSystem(b)
    PROVE  InstallationTyped'
<1>1. CASE Falls(b)
  BY <1>1, FallsTyped DEF InstallationTyped, PowerSystem, DaemonTyped, LogsTyped, MachinesTyped, logs
<1>2. CASE Rises(b)
  BY <1>2 DEF InstallationTyped, PowerSystem, Rises, DaemonTyped, LogsTyped, MachinesTyped, logs, Places
<1> QED
  BY <1>1, <1>2 DEF PowerSystem

LEMMA RebootTyped ==
    ASSUME InstallationTyped, NEW b \in Boxes, Reboot(b)
    PROVE  InstallationTyped'
<1>1. rebooting' \in [Boxes -> {"no", "due", "off"}]
  BY DEF InstallationTyped, MachinesTyped, Reboot
<1>2. CASE Falls(b)
  BY <1>1, <1>2, FallsTyped
     DEF InstallationTyped, Reboot, DaemonTyped, LogsTyped, MachinesTyped, logs, counts
<1>3. CASE Rises(b)
  BY <1>1, <1>3
     DEF InstallationTyped, Reboot, Rises, DaemonTyped, LogsTyped, MachinesTyped, logs, counts, Places
<1>4. CASE Stays
  BY <1>1, <1>4
     DEF InstallationTyped, Reboot, Stays, DaemonTyped, LogsTyped, MachinesTyped, logs, counts
<1> QED
  BY <1>2, <1>3, <1>4 DEF Reboot, Power

LEMMA KillTyped == ASSUME InstallationTyped, Kill PROVE InstallationTyped'
<1>1. DaemonTyped'
  BY FreeTyped DEF InstallationTyped, Kill, DaemonTyped
<1>2. LogsTyped'
  BY DEF InstallationTyped, Kill, LogsTyped
<1>3. MachinesTyped'
  BY NoUploadTyped DEF InstallationTyped, Kill, MachinesTyped, Places
<1> QED
  BY <1>1, <1>2, <1>3 DEF InstallationTyped

LEMMA RestartTyped == ASSUME InstallationTyped, Restart PROVE InstallationTyped'
BY DEF InstallationTyped, Restart, DaemonTyped, LogsTyped, MachinesTyped, logs, counts

LEMMA TickTyped == ASSUME InstallationTyped, Tick PROVE InstallationTyped'
BY DEF InstallationTyped, Tick, DaemonTyped, LogsTyped, MachinesTyped, logs, daemon

LEMMA InitTyped == PInit => InstallationTyped
<1> SUFFICES ASSUME PInit PROVE InstallationTyped
  OBVIOUS
<1>1. DaemonTyped
  BY FreeTyped DEF PInit, DaemonTyped, BootFiles
<1>2. LogsTyped
  BY DEF PInit, LogsTyped, Chunks
<1>3. MachinesTyped
  BY NoUploadTyped DEF PInit, MachinesTyped, Places
<1> QED
  BY <1>1, <1>2, <1>3 DEF InstallationTyped

-----------------------------------------------------------------------------
(* Nobody is installed twice.                                               *)

LEMMA ToldFrame ==
    ASSUME ToldKept, UNCHANGED <<running, netboot, stored, bootfile, server, told>>,
           \A b \in Boxes : box[b] = "waits" => box'[b] = "waits"
    PROVE  ToldKept'
BY DEF ToldKept, Asks, Asked, Told

LEMMA ToldMoves ==
    ASSUME MachinesTyped, ToldKept, NEW b \in Boxes, box[b] # "waits", NEW p,
           box' = [box EXCEPT ![b] = p],
           UNCHANGED <<running, netboot, stored, bootfile, server, told>>
    PROVE  ToldKept'
<1>1. \A c \in Boxes : box[c] = "waits" => box'[c] = "waits"
  BY DEF MachinesTyped
<1> QED
  BY <1>1, ToldFrame

LEMMA ToldFalls ==
    ASSUME InstallationTyped, ToldKept, NEW b \in Boxes, Falls(b),
           UNCHANGED <<running, netboot, stored, bootfile, told>>
    PROVE  ToldKept'
<1>1. \A u \in Servers : /\ server'[u].box = server[u].box /\ server'[u].at = server[u].at
                         /\ server'[u].file = server[u].file
                         /\ server'[u].does = IF Asks(u, b) THEN "abandoned" ELSE server[u].does
  <2> SUFFICES ASSUME NEW u \in Servers
               PROVE  /\ server'[u].box = server[u].box /\ server'[u].at = server[u].at
                      /\ server'[u].file = server[u].file
                      /\ server'[u].does = IF Asks(u, b) THEN "abandoned" ELSE server[u].does
    OBVIOUS
  <2>1. server[u] \in Requests
    BY DEF InstallationTyped, DaemonTyped
  <2>2. server'[u] = IF Asks(u, b) THEN [server[u] EXCEPT !.does = "abandoned"] ELSE server[u]
    BY DEF Falls, Asks
  <2>3. CASE Asks(u, b)
    BY <2>1, <2>2, <2>3 DEF Requests
  <2>4. CASE ~Asks(u, b)
    BY <2>2, <2>4
  <2> QED
    BY <2>3, <2>4
<1>2. \A u \in Servers, c \in Boxes : Asks(u, c)' => Asks(u, c) /\ c # b
  BY <1>1 DEF Asks
<1>3. \A c \in Boxes \ {b} : box'[c] = box[c]
  BY DEF Falls, InstallationTyped, MachinesTyped
<1>4. \A u \in Servers, c \in Boxes : Asks(u, c)' => box'[c] = "waits"
  BY <1>2, <1>3 DEF ToldKept
<1>5. \A t, u \in Servers, c \in Boxes : Asks(t, c)' /\ Asks(u, c)' => t = u
  BY <1>2 DEF ToldKept
<1>6. \A t \in Servers, c \in Boxes : Asked(t, c) => Asked(t, c)'
  BY <1>1 DEF Asked
<1>7. \A t \in Servers, c \in Boxes : Asks(t, c)' /\ told'[c] = "asked" => Asked(t, c)'
  BY <1>2, <1>6 DEF ToldKept
<1>8. ASSUME NEW c \in Boxes, told'[c] = "told" PROVE Told(c)'
  <2>1. Told(c)
    BY <1>8 DEF ToldKept
  <2> QED
    BY <1>1, <2>1 DEF Told
<1>9. ~running' => \A t \in Servers : server'[t] = FreeServer
  <2> SUFFICES ASSUME ~running, NEW t \in Servers PROVE server'[t] = FreeServer
    OBVIOUS
  <2>1. server[t] = FreeServer
    BY DEF ToldKept
  <2> QED
    BY <2>1 DEF Falls, FreeServer
<1> QED
  BY <1>4, <1>5, <1>7, <1>8, <1>9 DEF ToldKept

LEMMA ToldRises ==
    ASSUME InstallationTyped, ToldKept, NEW b \in Boxes, Rises(b),
           UNCHANGED <<running, netboot, stored, bootfile, told>>
    PROVE  ToldKept'
<1>1. \A c \in Boxes : box[c] = "waits" => box'[c] = "waits"
  BY DEF Rises, InstallationTyped, MachinesTyped
<1> QED
  BY <1>1, ToldFrame DEF Rises

\* A thread that is given a request.
LEMMA BeginStep ==
    ASSUME DaemonTyped, NEW t \in Servers, NEW b \in Boxes, NEW does, Starts(t, does, b)
    PROVE  /\ running /\ server[t] = FreeServer
           /\ server'[t].does = does /\ server'[t].box = b /\ server'[t].at = "begin"
           /\ \A u \in Servers \ {t} : server'[u] = server[u]
           /\ \A u \in Servers : server'[u].at # "begin" => u # t
BY DEF DaemonTyped, Starts, FreeServer

LEMMA AskedStays ==
    ASSUME NEW u \in Servers, NEW c \in Boxes, Asked(u, c), server'[u] = server[u],
           ~netboot'[c], stored'[c] = stored[c]
    PROVE  Asked(u, c)'
BY DEF Asked

LEMMA ToldStays ==
    ASSUME NEW c \in Boxes, Told(c), ~netboot'[c], stored'[c] = stored[c],
           bootfile'[c] = bootfile[c], NEW t \in Servers,
           \A u \in Servers \ {t} : server'[u] = server[u],
           server'[t].box = c /\ server'[t].at = "writes" => server'[t].file # "install"
    PROVE  Told(c)'
<1>1. ASSUME NEW u \in Servers, server'[u].box = c, server'[u].at = "writes"
      PROVE  server'[u].file # "install"
  BY <1>1 DEF Told
<1> QED
  BY <1>1 DEF Told

LEMMA EditTold ==
    ASSUME InstallationTyped, ToldKept, NEW t \in Servers, NEW b \in Boxes, NEW v \in BOOLEAN,
           XapiSystemEdit(t, b, v)
    PROVE  ToldKept'
<1>1. /\ running /\ server[t] = FreeServer
      /\ server'[t].does = "edit" /\ server'[t].box = b /\ server'[t].at = "begin"
      /\ \A u \in Servers \ {t} : server'[u] = server[u]
  BY BeginStep DEF InstallationTyped, XapiSystemEdit
<1>2. UNCHANGED <<running, stored, bootfile, box>>
  BY DEF XapiSystemEdit
<1>3. \A u \in Servers, c \in Boxes : Asks(u, c)' => u # t /\ Asks(u, c)
  BY <1>1 DEF Asks
<1>4. \A c \in Boxes : /\ told'[c] # "no" => told'[c] = told[c]
                       /\ told'[c] # "no" /\ ~netboot[c] => ~netboot'[c]
  BY DEF XapiSystemEdit, InstallationTyped, DaemonTyped, MachinesTyped
<1>5. \A u \in Servers, c \in Boxes : Asks(u, c)' => box'[c] = "waits"
  BY <1>2, <1>3 DEF ToldKept
<1>6. \A u, w \in Servers, c \in Boxes : Asks(u, c)' /\ Asks(w, c)' => u = w
  BY <1>3 DEF ToldKept
<1>7. ASSUME NEW u \in Servers, NEW c \in Boxes, Asks(u, c)', told'[c] = "asked"
      PROVE  Asked(u, c)'
  <2>1. Asks(u, c) /\ told[c] = "asked" /\ server'[u] = server[u]
    BY <1>1, <1>3, <1>4, <1>7
  <2>2. Asked(u, c)
    BY <2>1 DEF ToldKept
  <2>3. ~netboot'[c]
    BY <1>4, <1>7, <2>2 DEF Asked
  <2> QED
    BY <1>2, <2>1, <2>2, <2>3, AskedStays
<1>8. ASSUME NEW c \in Boxes, told'[c] = "told" PROVE Told(c)'
  <2>1. told[c] = "told"
    BY <1>4, <1>8
  <2>2. Told(c)
    BY <2>1 DEF ToldKept
  <2>3. ~netboot'[c]
    BY <1>4, <1>8, <2>2 DEF Told
  <2> QED
    BY <1>1, <1>2, <2>2, <2>3, ToldStays
<1> QED
  BY <1>1, <1>2, <1>5, <1>6, <1>7, <1>8 DEF ToldKept

LEMMA DisableTold ==
    ASSUME InstallationTyped, ToldKept, NEW t \in Servers, NEW b \in Boxes, DisableNetboot(t, b)
    PROVE  ToldKept'
<1>1. CASE b \notin enrolled
  <2>1. box[b] = "leaves" /\ box' = [box EXCEPT ![b] = "posts"]
        /\ UNCHANGED <<running, netboot, stored, bootfile, server, told>>
    BY <1>1 DEF DisableNetboot
  <2> QED
    BY <2>1, ToldMoves DEF InstallationTyped
<1>2. CASE b \in enrolled
  <2>1. /\ running /\ server[t] = FreeServer
        /\ server'[t].does = "nopxe" /\ server'[t].box = b /\ server'[t].at = "begin"
        /\ \A u \in Servers \ {t} : server'[u] = server[u]
    BY <1>2, BeginStep DEF InstallationTyped, DisableNetboot
  <2>2. UNCHANGED <<running, stored, bootfile>> /\ box[b] = "leaves"
    BY DEF DisableNetboot
  <2>3. \A c \in Boxes : /\ box'[c] = IF c = b THEN "waits" ELSE box[c]
                         /\ netboot'[c] = IF c = b THEN FALSE ELSE netboot[c]
                         /\ told'[c] = IF c = b THEN "asked" ELSE told[c]
    BY <1>2 DEF DisableNetboot, InstallationTyped, DaemonTyped, MachinesTyped
  <2>4. \A u \in Servers : ~Asks(u, b)
    BY <2>2 DEF ToldKept
  <2>5. \A u \in Servers, c \in Boxes : Asks(u, c)' =>
          IF u = t THEN c = b ELSE c # b /\ Asks(u, c)
    BY <2>1, <2>4 DEF Asks
  <2>6. \A u \in Servers, c \in Boxes : Asks(u, c)' => box'[c] = "waits"
    BY <2>3, <2>5 DEF ToldKept
  <2>7. \A u, w \in Servers, c \in Boxes : Asks(u, c)' /\ Asks(w, c)' => u = w
    BY <2>5 DEF ToldKept
  <2>8. ASSUME NEW u \in Servers, NEW c \in Boxes, Asks(u, c)', told'[c] = "asked"
        PROVE  Asked(u, c)'
    <3>1. CASE u = t
      <4>1. c = b /\ server'[u].at = "begin" /\ ~netboot'[c]
        BY <2>1, <2>3, <2>5, <2>8, <3>1
      <4> QED
        BY <4>1 DEF Asked
    <3>2. CASE u # t
      <4>1. c # b /\ Asks(u, c) /\ told[c] = "asked" /\ server'[u] = server[u]
            /\ netboot'[c] = netboot[c]
        BY <2>1, <2>3, <2>5, <2>8, <3>2
      <4>2. Asked(u, c)
        BY <4>1 DEF ToldKept
      <4> QED
        BY <2>2, <4>1, <4>2 DEF Asked
    <3> QED
      BY <3>1, <3>2
  <2>9. ASSUME NEW c \in Boxes, told'[c] = "told" PROVE Told(c)'
    <3>1. c # b /\ told[c] = "told" /\ netboot'[c] = netboot[c]
      BY <2>3, <2>9
    <3>2. Told(c)
      BY <3>1 DEF ToldKept
    <3> QED
      BY <2>1, <2>2, <3>1, <3>2 DEF Told
  <2> QED
    BY <2>1, <2>2, <2>6, <2>7, <2>8, <2>9 DEF ToldKept
<1> QED
  BY <1>1, <1>2

LEMMA RegisterTold ==
    ASSUME InstallationTyped, ToldKept, NEW t \in Servers, NEW b \in Boxes, RegisterNewSystem(t, b)
    PROVE  ToldKept'
<1>1. /\ running /\ server[t] = FreeServer
      /\ server'[t].does = "register" /\ server'[t].box = b /\ server'[t].at = "begin"
      /\ \A u \in Servers \ {t} : server'[u] = server[u]
  BY BeginStep DEF InstallationTyped, RegisterNewSystem
<1>2. UNCHANGED <<running, netboot, stored, bootfile, box, told>>
  BY DEF RegisterNewSystem
<1>3. \A u \in Servers, c \in Boxes : Asks(u, c)' => u # t /\ Asks(u, c)
  BY <1>1 DEF Asks
<1>7. ASSUME NEW u \in Servers, NEW c \in Boxes, Asks(u, c)', told'[c] = "asked"
      PROVE  Asked(u, c)'
  <2>1. Asked(u, c) /\ server'[u] = server[u]
    BY <1>1, <1>2, <1>3, <1>7 DEF ToldKept
  <2>2. ~netboot'[c]
    BY <1>2, <2>1 DEF Asked
  <2> QED
    BY <1>2, <2>1, <2>2, AskedStays
<1>8. ASSUME NEW c \in Boxes, told'[c] = "told" PROVE Told(c)'
  <2>1. Told(c)
    BY <1>2, <1>8 DEF ToldKept
  <2>2. ~netboot'[c]
    BY <1>2, <2>1 DEF Told
  <2> QED
    BY <1>1, <1>2, <2>1, <2>2, ToldStays
<1> QED
  BY <1>1, <1>2, <1>3, <1>7, <1>8 DEF ToldKept

\* A thread that leaves its request.
LEMMA LeaveStep ==
    ASSUME InstallationTyped, ToldKept, NEW t \in Servers, server[t].does # "idle", Leaves(t)
    PROVE  /\ running /\ server'[t] = FreeServer /\ server'[t].at = "begin"
           /\ \A u \in Servers \ {t} : server'[u] = server[u]
           /\ \A u \in Servers, c \in Boxes : Asks(u, c)' => u # t /\ Asks(u, c)
           /\ \A u \in Servers, c \in Boxes : Asks(u, c)' => box'[c] = "waits"
<1>1. running
  BY FreeTyped DEF ToldKept
<1>2. server'[t] = FreeServer /\ \A u \in Servers \ {t} : server'[u] = server[u]
  BY DEF Leaves, InstallationTyped, DaemonTyped
<1>3. FreeServer.at = "begin" /\ FreeServer.does = "idle"
  BY DEF FreeServer
<1>4. \A u \in Servers, c \in Boxes : Asks(u, c)' => u # t /\ Asks(u, c)
  BY <1>2, <1>3 DEF Asks
<1>5. ASSUME NEW u \in Servers, NEW c \in Boxes, Asks(u, c)' PROVE box'[c] = "waits"
  <2>1. u # t /\ Asks(u, c) /\ box[c] = "waits"
    BY <1>4, <1>5 DEF ToldKept
  <2>2. CASE server[t].does = "nopxe"
    <3>1. server[t].box # c
      BY <2>1, <2>2 DEF ToldKept, Asks
    <3> QED
      BY <2>1, <2>2, <3>1 DEF Leaves, InstallationTyped, MachinesTyped
  <2>3. CASE server[t].does # "nopxe"
    BY <2>1, <2>3 DEF Leaves
  <2> QED
    BY <2>2, <2>3
<1> QED
  BY <1>1, <1>2, <1>3, <1>4, <1>5

LEMMA PreTriggerTold ==
    ASSUME InstallationTyped, ToldKept, NEW t \in Servers, PreTriggerFails(t)
    PROVE  ToldKept'
<1>1. /\ running /\ server'[t].at = "begin"
      /\ \A u \in Servers \ {t} : server'[u] = server[u]
      /\ \A u \in Servers, c \in Boxes : Asks(u, c)' => u # t /\ Asks(u, c)
      /\ \A u \in Servers, c \in Boxes : Asks(u, c)' => box'[c] = "waits"
  BY LeaveStep DEF PreTriggerFails
<1>2. UNCHANGED <<running, netboot, stored, bootfile, told>>
  BY DEF PreTriggerFails
<1>3. ASSUME NEW u \in Servers, NEW c \in Boxes, Asks(u, c)', told'[c] = "asked"
      PROVE  Asked(u, c)'
  <2>1. Asked(u, c) /\ server'[u] = server[u]
    BY <1>1, <1>2, <1>3 DEF ToldKept
  <2>2. ~netboot'[c]
    BY <1>2, <2>1 DEF Asked
  <2> QED
    BY <1>2, <2>1, <2>2, AskedStays
<1>4. ASSUME NEW c \in Boxes, told'[c] = "told" PROVE Told(c)'
  <2>1. Told(c)
    BY <1>2, <1>4 DEF ToldKept
  <2>2. ~netboot'[c]
    BY <1>2, <2>1 DEF Told
  <2> QED
    BY <1>1, <1>2, <2>1, <2>2, ToldStays
<1> QED
  BY <1>1, <1>2, <1>3, <1>4 DEF ToldKept

LEMMA AddTold ==
    ASSUME InstallationTyped, ToldKept, NEW t \in Servers, AddSaves(t)
    PROVE  ToldKept'
<1> DEFINE b == server[t].box
<1>1. /\ b \in Boxes /\ server[t].does # "idle"
      /\ \A u \in Servers : /\ server'[u].does = server[u].does
                            /\ server'[u].box = server[u].box
                            /\ server'[u].at = IF u = t THEN "renders" ELSE server[u].at
                            /\ u # t => server'[u] = server[u]
  <2> DEFINE f == server[t].file
  <2>1. DaemonTyped /\ server[t].does # "idle" /\ b \in Boxes
    BY AddStep DEF InstallationTyped
  <2>2. f \in BootFiles /\ server' = [server EXCEPT ![t].at = "renders", ![t].file = f]
    BY AddStep DEF InstallationTyped
  <2> HIDE DEF f
  <2>3. \A u \in Servers : /\ server'[u].does = server[u].does
                           /\ server'[u].box = server[u].box
                           /\ server'[u].at = IF u = t THEN "renders" ELSE server[u].at
                           /\ u # t => server'[u] = server[u]
    BY <2>1, <2>2, ServerStep
  <2> QED
    BY <2>1, <2>3
<1>2. UNCHANGED <<running, bootfile, box, told>> /\ server[t].at = "begin"
  BY DEF AddSaves
<1>3. \A c \in Boxes : /\ ~netboot[c] => ~netboot'[c]
                       /\ stored'[c] = IF c = b THEN netboot'[c] ELSE stored[c]
  BY <1>1 DEF AddSaves, SerializeOneItem, InstallationTyped, DaemonTyped
<1>4. running
  BY <1>1, FreeTyped DEF ToldKept
<1>5. \A u \in Servers, c \in Boxes : Asks(u, c)' = Asks(u, c)
  BY <1>1 DEF Asks
<1>6. \A c \in Boxes : ~netboot[c] /\ stored[c] # TRUE => stored'[c] # TRUE
  BY <1>3
<1>7. \A c \in Boxes : ~netboot[c] /\ c = b => stored'[c] # TRUE
  BY <1>3
<1>8. ASSUME NEW u \in Servers, NEW c \in Boxes, Asks(u, c)', told'[c] = "asked"
      PROVE  Asked(u, c)'
  <2>1. Asked(u, c) /\ Asks(u, c)
    BY <1>2, <1>5, <1>8 DEF ToldKept
  <2>2. ~netboot[c] /\ ~netboot'[c]
    BY <1>3, <2>1 DEF Asked
  <2>3. CASE u = t
    BY <1>1, <1>7, <2>1, <2>2, <2>3 DEF Asked, Asks
  <2>4. CASE u # t
    BY <1>1, <1>6, <2>1, <2>2, <2>4 DEF Asked
  <2> QED
    BY <2>3, <2>4
<1>9. ASSUME NEW c \in Boxes, told'[c] = "told" PROVE Told(c)'
  <2>1. Told(c)
    BY <1>2, <1>9 DEF ToldKept
  <2>2. ~netboot'[c] /\ stored'[c] # TRUE /\ bootfile'[c] # "install"
    BY <1>2, <1>3, <1>6, <2>1 DEF Told
  <2>3. ASSUME NEW u \in Servers, server'[u].box = c, server'[u].at = "writes"
        PROVE  server'[u].file # "install"
    <3>1. u # t /\ server'[u] = server[u]
      BY <1>1, <2>3
    <3> QED
      BY <2>1, <2>3, <3>1 DEF Told
  <2> QED
    BY <2>2, <2>3 DEF Told
<1>10. \A u \in Servers, c \in Boxes : Asks(u, c)' => box'[c] = "waits"
  BY <1>2, <1>5 DEF ToldKept
<1>11. \A u, w \in Servers, c \in Boxes : Asks(u, c)' /\ Asks(w, c)' => u = w
  BY <1>5 DEF ToldKept
<1> QED
  BY <1>2, <1>4, <1>8, <1>9, <1>10, <1>11 DEF ToldKept

LEMMA RenderTold ==
    ASSUME InstallationTyped, ToldKept, NEW t \in Servers, WriteFileRenders(t)
    PROVE  ToldKept'
<1> DEFINE b == server[t].box
<1>1. /\ b \in Boxes /\ server[t].does # "idle"
      /\ \A u \in Servers : /\ server'[u].does = server[u].does
                            /\ server'[u].box = server[u].box
                            /\ server'[u].at = IF u = t THEN "writes" ELSE server[u].at
                            /\ server'[u].file = IF u = t THEN BootFile(b) ELSE server[u].file
                            /\ u # t => server'[u] = server[u]
  <2> DEFINE f == BootFile(b)
  <2>1. /\ DaemonTyped /\ server[t].does # "idle" /\ b \in Boxes /\ f \in BootFiles
        /\ server' = [server EXCEPT ![t].at = "writes", ![t].file = f]
    BY RenderStep DEF InstallationTyped, BootFiles
  <2> HIDE DEF f
  <2>2. \A u \in Servers : /\ server'[u].does = server[u].does
                           /\ server'[u].box = server[u].box
                           /\ server'[u].at = IF u = t THEN "writes" ELSE server[u].at
                           /\ server'[u].file = IF u = t THEN f ELSE server[u].file
                           /\ u # t => server'[u] = server[u]
    BY <2>1, ServerStep
  <2> QED
    BY <2>1, <2>2 DEF f
<1>2. UNCHANGED <<running, netboot, stored, bootfile, box, told>> /\ server[t].at = "renders"
  BY DEF WriteFileRenders
<1>3. ~netboot[b] => BootFile(b) # "install"
  BY DEF BootFile
<1>4. running
  BY <1>1, FreeTyped DEF ToldKept
<1>5. \A u \in Servers, c \in Boxes : Asks(u, c)' = Asks(u, c)
  BY <1>1 DEF Asks
<1>6. ASSUME NEW u \in Servers, NEW c \in Boxes, Asks(u, c)', told'[c] = "asked"
      PROVE  Asked(u, c)'
  <2>1. Asked(u, c) /\ Asks(u, c)
    BY <1>2, <1>5, <1>6 DEF ToldKept
  <2>2. CASE u = t
    <3>1. c = b /\ stored[c] # TRUE /\ ~netboot[c]
      BY <1>2, <2>1, <2>2 DEF Asked, Asks
    <3> QED
      BY <1>1, <1>2, <1>3, <2>2, <3>1 DEF Asked
  <2>3. CASE u # t
    BY <1>1, <1>2, <2>1, <2>3 DEF Asked
  <2> QED
    BY <2>2, <2>3
<1>7. ASSUME NEW c \in Boxes, told'[c] = "told" PROVE Told(c)'
  <2>1. Told(c)
    BY <1>2, <1>7 DEF ToldKept
  <2>2. ~netboot'[c] /\ stored'[c] # TRUE /\ bootfile'[c] # "install"
    BY <1>2, <2>1 DEF Told
  <2>3. ASSUME NEW u \in Servers, server'[u].box = c, server'[u].at = "writes"
        PROVE  server'[u].file # "install"
    <3>1. CASE u = t
      BY <1>1, <1>3, <2>1, <2>3, <3>1 DEF Told
    <3>2. CASE u # t
      BY <1>1, <2>1, <2>3, <3>2 DEF Told
    <3> QED
      BY <3>1, <3>2
  <2> QED
    BY <2>2, <2>3 DEF Told
<1>8. \A u \in Servers, c \in Boxes : Asks(u, c)' => box'[c] = "waits"
  BY <1>2, <1>5 DEF ToldKept
<1>9. \A u, w \in Servers, c \in Boxes : Asks(u, c)' /\ Asks(w, c)' => u = w
  BY <1>5 DEF ToldKept
<1> QED
  BY <1>2, <1>4, <1>6, <1>7, <1>8, <1>9 DEF ToldKept

LEMMA WriteTold ==
    ASSUME InstallationTyped, ToldKept, NEW t \in Servers, WriteFileWrites(t)
    PROVE  ToldKept'
<1> DEFINE b == server[t].box
           crossed == \E u \in Servers \ {t} :
                         server[u].box = b /\ server[u].at = "writes" /\ server[u].file = "install"
<1>1. server[t].does # "idle" /\ b \in Boxes /\ server[t].at = "writes"
  BY DEF WriteFileWrites, InstallationTyped, DaemonTyped, FreeServer
<1>2. /\ running /\ server'[t].at = "begin"
      /\ \A u \in Servers \ {t} : server'[u] = server[u]
      /\ \A u \in Servers, c \in Boxes : Asks(u, c)' => u # t /\ Asks(u, c)
      /\ \A u \in Servers, c \in Boxes : Asks(u, c)' => box'[c] = "waits"
  BY <1>1, LeaveStep DEF WriteFileWrites
<1>3. UNCHANGED <<running, netboot, stored>>
  BY DEF WriteFileWrites
<1>4. \A c \in Boxes : bootfile'[c] = bootfile[c] \/ (c = b /\ bootfile'[c] = server[t].file)
  BY <1>1 DEF WriteFileWrites, InstallationTyped, DaemonTyped
<1>5. \A c \in Boxes : \/ told'[c] = told[c]
                       \/ told'[c] = "no"
                       \/ /\ c = b /\ told'[c] = "told" /\ told[c] = "asked" /\ ~crossed
                          /\ server[t].does = "nopxe"
  BY <1>1 DEF WriteFileWrites, InstallationTyped, MachinesTyped
<1>0. server[t].does = "nopxe" => bootfile'[b] = server[t].file
  BY <1>1 DEF WriteFileWrites, InstallationTyped, DaemonTyped
<1>6. ASSUME NEW u \in Servers, NEW c \in Boxes, Asks(u, c)', told'[c] = "asked"
      PROVE  Asked(u, c)'
  <2>1. Asks(u, c) /\ told[c] = "asked" /\ server'[u] = server[u]
    BY <1>2, <1>5, <1>6
  <2>2. Asked(u, c)
    BY <2>1 DEF ToldKept
  <2>3. ~netboot'[c]
    BY <1>3, <2>2 DEF Asked
  <2> QED
    BY <1>3, <2>1, <2>2, <2>3, AskedStays
<1>7. ASSUME NEW c \in Boxes, told'[c] = "told" PROVE Told(c)'
  <2>1. CASE told[c] = "told"
    <3>1. Told(c)
      BY <2>1 DEF ToldKept
    <3>2. bootfile'[c] # "install"
      BY <1>1, <1>4, <3>1 DEF Told
    <3>3. ASSUME NEW u \in Servers, server'[u].box = c, server'[u].at = "writes"
          PROVE  server'[u].file # "install"
      <4>1. u # t /\ server'[u] = server[u]
        BY <1>2, <3>3
      <4> QED
        BY <3>1, <3>3, <4>1 DEF Told
    <3> QED
      BY <1>3, <3>1, <3>2, <3>3 DEF Told
  <2>2. CASE told[c] # "told"
    <3>1. c = b /\ told[c] = "asked" /\ ~crossed /\ server[t].does = "nopxe"
      BY <1>5, <1>7, <2>2
    <3>2. Asked(t, c)
      BY <3>1 DEF ToldKept, Asks
    <3>3. ~netboot[c] /\ stored[c] # TRUE /\ bootfile'[c] # "install"
      BY <1>0, <1>1, <3>1, <3>2 DEF Asked
    <3>4. ASSUME NEW u \in Servers, server'[u].box = c, server'[u].at = "writes"
          PROVE  server'[u].file # "install"
      <4>1. u # t /\ server'[u] = server[u]
        BY <1>2, <3>4
      <4> QED
        BY <3>1, <3>4, <4>1
    <3> QED
      BY <1>3, <3>3, <3>4 DEF Told
  <2> QED
    BY <2>1, <2>2
<1>8. \A u, w \in Servers, c \in Boxes : Asks(u, c)' /\ Asks(w, c)' => u = w
  BY <1>2 DEF ToldKept
<1> QED
  BY <1>2, <1>3, <1>6, <1>7, <1>8 DEF ToldKept

LEMMA KillTold ==
    ASSUME InstallationTyped, ToldKept, Kill
    PROVE  ToldKept'
<1>1. \A u \in Servers : server'[u] = FreeServer
  BY DEF Kill
<1>2. \A u \in Servers : server'[u].does # "nopxe" /\ server'[u].at = "begin"
  BY <1>1 DEF FreeServer
<1>3. UNCHANGED <<netboot, stored, bootfile, told>>
  BY DEF Kill
<1>4. ASSUME NEW c \in Boxes, told'[c] = "told" PROVE Told(c)'
  BY <1>2, <1>3, <1>4 DEF ToldKept, Told
<1> QED
  BY <1>1, <1>2, <1>4 DEF ToldKept, Asks

LEMMA RestartTold ==
    ASSUME InstallationTyped, ToldKept, Restart
    PROVE  ToldKept'
<1>1. ~running /\ running' /\ UNCHANGED <<stored, bootfile, server, box, told>>
  BY DEF Restart
<1>2. \A u \in Servers : server[u].does = "idle"
  BY <1>1, FreeTyped DEF ToldKept
<1>3. \A c \in Boxes : stored[c] # TRUE => ~netboot'[c]
  BY DEF Restart
<1>4. ASSUME NEW c \in Boxes, told'[c] = "told" PROVE Told(c)'
  BY <1>1, <1>3, <1>4 DEF ToldKept, Told
<1> QED
  BY <1>1, <1>2, <1>4 DEF ToldKept, Asks

LEMMA InitTold == PInit => ToldKept
BY DEF PInit, ToldKept, Asks, FreeServer

-----------------------------------------------------------------------------
(* What is uploaded.                                                        *)

LEMMA NewsGrows ==
    ASSUME NEW n \in Nat
    PROVE  /\ News(n) \in Seq(Chunks) /\ Len(News(n)) = n /\ News(0) = <<>>
           /\ Resized(News(n), n) = News(n) /\ Written(News(n), n) = News(n + 1)
<1>1. \A m \in Nat : News(m) \in [1..m -> Chunks]
  BY DEF News, Chunks
<1>2. \A m \in Nat : News(m) \in Seq(Chunks) /\ Len(News(m)) = m
  <2> SUFFICES ASSUME NEW m \in Nat PROVE News(m) \in Seq(Chunks) /\ Len(News(m)) = m
    OBVIOUS
  <2>1. News(m) \in Seq(Chunks)
    BY <1>1, SeqDef
  <2>2. DOMAIN News(m) = 1..m
    BY <1>1
  <2> QED
    BY <2>1, <2>2, LenProperties
<1>3. News(0) = <<>>
  BY <1>2, EmptySeq
<1>4. Resized(News(n), n) = News(n)
  BY <1>2 DEF Resized, News
<1>5. Written(News(n), n) = News(n + 1)
  <2>1. n + 1 > n /\ n + 1 \in Nat
    OBVIOUS
  <2>2. Written(News(n), n) = [i \in 1..(n + 1) |->
           IF i = n + 1 THEN "new" ELSE IF i <= n THEN News(n)[i] ELSE "hole"]
    BY <1>2, <2>1 DEF Written
  <2>3. \A i \in 1..(n + 1) :
          (IF i = n + 1 THEN "new" ELSE IF i <= n THEN News(n)[i] ELSE "hole") = "new"
    BY DEF News
  <2> QED
    BY <2>2, <2>3 DEF News
<1> QED
  BY <1>2, <1>3, <1>4, <1>5

LEMMA UploadFrame ==
    ASSUME UploadKept, UNCHANGED <<anamon, agent>>,
           \A b \in Boxes : box'[b] \in Early => box[b] \in Early
    PROVE  UploadKept'
BY DEF UploadKept, Uploaded

\* A step in which one box and its upload change.
LEMMA UploadOfOne ==
    ASSUME UploadKept, MachinesTyped, LogsTyped, NEW b \in Boxes, Uploaded(b)',
           \A c \in Boxes \ {b} : box'[c] = box[c] /\ agent'[c] = agent[c] /\ anamon'[c] = anamon[c]
    PROVE  UploadKept'
BY DEF UploadKept, Uploaded

LEMMA PreUpload ==
    ASSUME InstallationTyped, UploadKept, NEW b \in Boxes, RunPreTriggers(b)
    PROVE  UploadKept'
<1>1. \A c \in Boxes \ {b} : box'[c] = box[c] /\ agent'[c] = agent[c] /\ anamon'[c] = anamon[c]
  BY DEF InstallationTyped, MachinesTyped, LogsTyped, RunPreTriggers, PreClearAnamonLogs
<1>2. agent'[b] = [NoUpload EXCEPT !.at = "sends"] /\ box'[b] = "installs"
  BY DEF InstallationTyped, MachinesTyped, RunPreTriggers
<1>3. Uploaded(b)'
  BY <1>2 DEF Uploaded, Early, NoUpload
<1> QED
  BY <1>1, <1>3, UploadOfOne DEF InstallationTyped

LEMMA LogDataUpload ==
    ASSUME InstallationTyped, UploadKept, NEW b \in Boxes, NEW last \in BOOLEAN, UploadLogData(b, last)
    PROVE  UploadKept'
<1> DEFINE ofs == agent[b].ofs
           kept == IF Truncates(ofs, last) THEN <<>> ELSE anamon[b]
<1>1. \A c \in Boxes \ {b} : box'[c] = box[c] /\ agent'[c] = agent[c] /\ anamon'[c] = anamon[c]
  BY DEF InstallationTyped, MachinesTyped, LogsTyped, UploadLogData
<1>2. agent'[b] = [at     |-> IF last THEN "done" ELSE "sends",
                   ofs    |-> IF last THEN ofs ELSE ofs + 1,
                   intact |-> agent[b].intact /\ b \in enrolled]
  BY DEF InstallationTyped, MachinesTyped, UploadLogData
<1>3. /\ agent[b].at = "sends" /\ UNCHANGED box /\ ofs \in Nat
      /\ b \in enrolled => anamon'[b] = IF last THEN Resized(kept, ofs) ELSE Written(kept, ofs)
  BY DEF InstallationTyped, MachinesTyped, LogsTyped, UploadLogData, Uploads
<1>4. box'[b] \notin Early
  BY <1>3 DEF UploadKept, Uploaded
<1>5. ASSUME agent'[b].intact PROVE anamon'[b] = News(agent'[b].ofs)
  <2>1. agent[b].intact /\ b \in enrolled
    <3>1. agent'[b].intact = (agent[b].intact /\ b \in enrolled)
      BY <1>2
    <3> QED
      BY <1>5, <3>1
  <2>2. anamon[b] = News(ofs) \/ ofs = 0
    BY <1>3, <2>1 DEF UploadKept, Uploaded
  <2>3. kept = News(ofs)
    BY <1>3, <2>2, NewsGrows DEF Truncates
  <2> HIDE DEF ofs, kept
  <2>4. anamon'[b] = IF last THEN News(ofs) ELSE News(ofs + 1)
    BY <1>3, <2>1, <2>3, NewsGrows
  <2>5. agent'[b].ofs = IF last THEN ofs ELSE ofs + 1
    BY <1>2
  <2> QED
    BY <2>4, <2>5
<1>6. Uploaded(b)'
  BY <1>4, <1>5 DEF Uploaded
<1> QED
  BY <1>1, <1>6, UploadOfOne DEF InstallationTyped

LEMMA FailsUpload ==
    ASSUME InstallationTyped, UploadKept, NEW b \in Boxes, UploadFails(b)
    PROVE  UploadKept'
<1>1. \A c \in Boxes \ {b} : box'[c] = box[c] /\ agent'[c] = agent[c] /\ anamon'[c] = anamon[c]
  BY DEF InstallationTyped, MachinesTyped, UploadFails, logs
<1>2. agent'[b] = NoUpload
  BY DEF InstallationTyped, MachinesTyped, UploadFails
<1> QED
  BY <1>1, <1>2, UploadOfOne DEF InstallationTyped, Uploaded, NoUpload

LEMMA AgainUpload ==
    ASSUME InstallationTyped, UploadKept, NEW b \in Boxes, UploadsAgain(b)
    PROVE  UploadKept'
<1>1. \A c \in Boxes \ {b} : box'[c] = box[c] /\ agent'[c] = agent[c] /\ anamon'[c] = anamon[c]
  BY DEF InstallationTyped, MachinesTyped, UploadsAgain, logs
<1>2. agent'[b] = [NoUpload EXCEPT !.at = "sends"] /\ agent[b].at = "done" /\ UNCHANGED box
  BY DEF InstallationTyped, MachinesTyped, UploadsAgain
<1>3. Uploaded(b)'
  BY <1>2 DEF UploadKept, Uploaded, NoUpload
<1> QED
  BY <1>1, <1>3, UploadOfOne DEF InstallationTyped

LEMMA ClearUpload ==
    ASSUME InstallationTyped, UploadKept, NEW b \in Boxes, ClearLogs(b)
    PROVE  UploadKept'
<1>1. \A c \in Boxes \ {b} : box'[c] = box[c] /\ agent'[c] = agent[c] /\ anamon'[c] = anamon[c]
  BY DEF InstallationTyped, MachinesTyped, LogsTyped, ClearLogs
<1>2. agent'[b] = [agent[b] EXCEPT !.intact = FALSE] /\ agent[b] \in Uploads /\ UNCHANGED box
  BY DEF InstallationTyped, MachinesTyped, ClearLogs
<1>3. agent'[b].at = agent[b].at /\ ~agent'[b].intact
  BY <1>2 DEF Uploads
<1>4. Uploaded(b)'
  BY <1>2, <1>3 DEF UploadKept, Uploaded
<1> QED
  BY <1>1, <1>4, UploadOfOne DEF InstallationTyped

LEMMA FetchesUpload ==
    ASSUME InstallationTyped, UploadKept, NEW b \in Boxes, FetchesAutoinstall(b)
    PROVE  UploadKept'
<1>1. \A c \in Boxes \ {b} : box'[c] = box[c] /\ agent'[c] = agent[c] /\ anamon'[c] = anamon[c]
  BY DEF InstallationTyped, MachinesTyped, LogsTyped, FetchesAutoinstall
<1>2. agent'[b].at = "none"
  BY DEF InstallationTyped, FetchesAutoinstall, UploadKept, Uploaded, Early
<1>3. Uploaded(b)'
  BY <1>2 DEF Uploaded
<1> QED
  BY <1>1, <1>3, UploadOfOne DEF InstallationTyped

LEMMA FallsUpload ==
    ASSUME InstallationTyped, UploadKept, NEW b \in Boxes, Falls(b), UNCHANGED anamon
    PROVE  UploadKept'
<1>1. \A c \in Boxes \ {b} : box'[c] = box[c] /\ agent'[c] = agent[c] /\ anamon'[c] = anamon[c]
  BY DEF InstallationTyped, MachinesTyped, Falls
<1>2. agent'[b] = NoUpload
  BY DEF InstallationTyped, MachinesTyped, Falls
<1> QED
  BY <1>1, <1>2, UploadOfOne DEF InstallationTyped, Uploaded, NoUpload

LEMMA KillUpload ==
    ASSUME InstallationTyped, UploadKept, Kill
    PROVE  UploadKept'
<1> SUFFICES ASSUME NEW b \in Boxes PROVE Uploaded(b)'
  BY DEF UploadKept
<1>1. /\ agent'[b] = IF agent[b].at = "sends" THEN NoUpload ELSE agent[b]
      /\ box'[b] = IF box[b] = "waits" THEN "posts" ELSE box[b]
      /\ agent[b].at # "sends" => anamon'[b] = anamon[b]
  BY DEF Kill
<1> QED
  BY <1>1 DEF UploadKept, Uploaded, NoUpload, Early

LEMMA InitUpload == PInit => UploadKept
BY DEF PInit, UploadKept, Uploaded, NoUpload

-----------------------------------------------------------------------------
(* What the log of installations tells.                                     *)

LEMMA StatusFrame ==
    ASSUME StatusKept, LogsTyped, UNCHANGED <<lines, logged>>,
           second' \in Nat, second <= second',
           \A b \in Boxes : /\ box'[b] = "starts" => box[b] = "starts"
                            /\ box'[b] \in Underway => box[b] \in Underway
    PROVE  StatusKept'
<1>1. \A l \in lines' : l.at \in 1..second'
  BY DEF StatusKept, LogsTyped, Lines
<1>2. ASSUME NEW b \in Boxes, Alone(b) PROVE LoggedKept(b)'
  <2>1. LoggedKept(b) /\ UNCHANGED <<LinesOf(b, "start"), LinesOf(b, "stop")>>
    BY <1>2 DEF StatusKept, LinesOf
  <2> QED
    BY <2>1 DEF LoggedKept
<1> QED
  BY <1>1, <1>2 DEF StatusKept

\* A line that is added for a machine is none of another one, and the youngest.
LEMMA LineAdded ==
    ASSUME LogsTyped, StatusKept, NEW b \in Boxes,
           NEW what \in {"start", "stop"}, Logs(b, what)
    PROVE  /\ \A l \in lines' : l.at \in 1..second
           /\ \A c \in Boxes \ {b}, w \in {"start", "stop"} : Alone(c) => LinesOf(c, w)' = LinesOf(c, w)
           /\ \A w \in {"start", "stop"} : w # what => LinesOf(b, w)' = LinesOf(b, w)
           /\ [address |-> AddressOf[b], what |-> what, at |-> second] \in lines'
           /\ lines \subseteq lines'
           /\ logged' = [logged EXCEPT ![b] = logged[b] \cup {<<what, second>>}]
<1> DEFINE new == [address |-> AddressOf[b], what |-> what, at |-> second]
<1>1. lines' = lines \cup {new} /\ logged' = [logged EXCEPT ![b] = logged[b] \cup {<<what, second>>}]
  BY DEF Logs
<1>2. new.address = AddressOf[b] /\ new.what = what /\ new.at = second
  OBVIOUS
<1> HIDE DEF new
<1>3. \A l \in lines' : l.at \in 1..second
  BY <1>1, <1>2 DEF StatusKept, LogsTyped
<1>4. ASSUME NEW c \in Boxes \ {b}, NEW w \in {"start", "stop"}, Alone(c)
      PROVE  LinesOf(c, w)' = LinesOf(c, w)
  BY <1>1, <1>2, <1>4 DEF LinesOf, Alone
<1>5. \A w \in {"start", "stop"} : w # what => LinesOf(b, w)' = LinesOf(b, w)
  BY <1>1, <1>2 DEF LinesOf
<1> QED
  BY <1>1, <1>3, <1>4, <1>5 DEF new

LEMMA PreStatus ==
    ASSUME InstallationTyped, StatusKept, NEW b \in Boxes, RunPreTriggers(b)
    PROVE  StatusKept'
<1>1. /\ box[b] = "starts" /\ box'[b] = "installs" /\ UNCHANGED second
      /\ \A c \in Boxes \ {b} : box'[c] = box[c]
  BY DEF InstallationTyped, MachinesTyped, RunPreTriggers, counts
<1>2. CASE UNCHANGED <<lines, logged>>
  <2>1. \A l \in lines' : l.at \in 1..second'
    BY <1>1, <1>2 DEF StatusKept
  <2>2. ASSUME NEW c \in Boxes, Alone(c) PROVE LoggedKept(c)'
    <3>1. LoggedKept(c) /\ UNCHANGED <<LinesOf(c, "start"), LinesOf(c, "stop")>>
      BY <1>2, <2>2 DEF StatusKept, LinesOf
    <3>2. CASE c = b
      <4>1. logged'[b] = {} /\ box'[b] # "starts"
        BY <1>1, <1>2, <3>1, <3>2 DEF LoggedKept
      <4> QED
        BY <3>2, <4>1 DEF LoggedKept
    <3>3. CASE c # b
      BY <1>1, <1>2, <3>1, <3>3 DEF LoggedKept
    <3> QED
      BY <3>2, <3>3
  <2> QED
    BY <2>1, <2>2 DEF StatusKept
<1>3. CASE Logs(b, "start")
  <2>1. /\ \A l \in lines' : l.at \in 1..second
        /\ \A c \in Boxes \ {b}, w \in {"start", "stop"} : Alone(c) => LinesOf(c, w)' = LinesOf(c, w)
        /\ [address |-> AddressOf[b], what |-> "start", at |-> second] \in lines'
        /\ lines \subseteq lines'
        /\ logged' = [logged EXCEPT ![b] = logged[b] \cup {<<"start", second>>}]
    BY <1>3, LineAdded DEF InstallationTyped
  <2>2. ASSUME NEW c \in Boxes, Alone(c) PROVE LoggedKept(c)'
    <3>1. LoggedKept(c)
      BY <2>2 DEF StatusKept
    <3>2. CASE c = b
      <4>1. logged'[b] = {<<"start", second>>}
        BY <1>1, <2>1, <3>1, <3>2 DEF LoggedKept, InstallationTyped, LogsTyped
      <4>2. \A w \in {"start", "stop"} : \A l \in LinesOf(b, w)' : l.at <= second
        BY <2>1 DEF LinesOf
      <4>3. box'[b] # "starts"
        BY <1>1
      <4> QED
        BY <2>1, <3>2, <4>1, <4>2, <4>3 DEF LoggedKept
    <3>3. CASE c # b
      <4>1. logged'[c] = logged[c] /\ box'[c] = box[c]
        BY <1>1, <2>1, <3>3 DEF InstallationTyped, LogsTyped
      <4>2. LinesOf(c, "start")' = LinesOf(c, "start") /\ LinesOf(c, "stop")' = LinesOf(c, "stop")
        BY <2>1, <2>2, <3>3
      <4> QED
        BY <2>1, <3>1, <4>1, <4>2 DEF LoggedKept
    <3> QED
      BY <3>2, <3>3
  <2> QED
    BY <1>1, <2>1, <2>2 DEF StatusKept
<1> QED
  BY <1>2, <1>3 DEF RunPreTriggers, PreLog

LEMMA PostStatus ==
    ASSUME InstallationTyped, StatusKept, NEW b \in Boxes, RunPostTriggers(b)
    PROVE  StatusKept'
<1>1. /\ box[b] = "posts" /\ box'[b] = "runs" /\ UNCHANGED second
      /\ \A c \in Boxes \ {b} : box'[c] = box[c]
  BY DEF InstallationTyped, MachinesTyped, RunPostTriggers, counts
<1>2. CASE UNCHANGED <<lines, logged>>
  <2>1. \A c \in Boxes : /\ box'[c] = "starts" => box[c] = "starts"
                         /\ box'[c] \in Underway => box[c] \in Underway
    BY <1>1 DEF Underway
  <2> QED
    BY <1>1, <1>2, <2>1, StatusFrame DEF InstallationTyped, LogsTyped
<1>3. CASE Logs(b, "stop")
  <2>1. /\ \A l \in lines' : l.at \in 1..second
        /\ \A c \in Boxes \ {b}, w \in {"start", "stop"} : Alone(c) => LinesOf(c, w)' = LinesOf(c, w)
        /\ LinesOf(b, "start")' = LinesOf(b, "start")
        /\ [address |-> AddressOf[b], what |-> "stop", at |-> second] \in lines'
        /\ lines \subseteq lines'
        /\ logged' = [logged EXCEPT ![b] = logged[b] \cup {<<"stop", second>>}]
    BY <1>3, LineAdded DEF InstallationTyped
  <2>2. ASSUME NEW c \in Boxes, Alone(c) PROVE LoggedKept(c)'
    <3>1. LoggedKept(c)
      BY <2>2 DEF StatusKept
    <3>2. CASE c = b
      <4>1. logged'[b] = logged[b] \cup {<<"stop", second>>}
        BY <2>1 DEF InstallationTyped, LogsTyped
      <4>2. box'[b] # "starts" /\ box'[b] \notin Underway
        BY <1>1 DEF Underway
      <4>3. ASSUME NEW e \in logged'[b]
            PROVE  /\ [address |-> AddressOf[b], what |-> e[1], at |-> e[2]] \in lines'
                   /\ e[1] = "start" => \A l \in LinesOf(b, "start")' : l.at <= e[2]
        BY <2>1, <3>1, <3>2, <4>1 DEF LoggedKept
      <4> QED
        BY <3>2, <4>2, <4>3 DEF LoggedKept
    <3>3. CASE c # b
      <4>1. logged'[c] = logged[c] /\ box'[c] = box[c]
        BY <1>1, <2>1, <3>3 DEF InstallationTyped, LogsTyped
      <4>2. LinesOf(c, "start")' = LinesOf(c, "start") /\ LinesOf(c, "stop")' = LinesOf(c, "stop")
        BY <2>1, <2>2, <3>3
      <4> QED
        BY <2>1, <3>1, <4>1, <4>2 DEF LoggedKept
    <3> QED
      BY <3>2, <3>3
  <2> QED
    BY <1>1, <2>1, <2>2 DEF StatusKept
<1> QED
  BY <1>2, <1>3 DEF RunPostTriggers, PostLog

LEMMA FetchesStatus ==
    ASSUME InstallationTyped, StatusKept, NEW b \in Boxes, FetchesAutoinstall(b)
    PROVE  StatusKept'
<1>1. UNCHANGED <<lines, second>> /\ \A c \in Boxes \ {b} : box'[c] = box[c] /\ logged'[c] = logged[c]
  BY DEF InstallationTyped, MachinesTyped, LogsTyped, FetchesAutoinstall, counts
<1>2. \/ box'[b] = "starts" /\ logged'[b] = {}
      \/ box'[b] = "runs" /\ logged'[b] = logged[b]
  BY DEF InstallationTyped, MachinesTyped, LogsTyped, FetchesAutoinstall
<1>3. \A l \in lines' : l.at \in 1..second'
  BY <1>1 DEF StatusKept
<1>4. ASSUME NEW c \in Boxes, Alone(c) PROVE LoggedKept(c)'
  <2>1. LoggedKept(c) /\ UNCHANGED <<LinesOf(c, "start"), LinesOf(c, "stop")>>
    BY <1>1, <1>4 DEF StatusKept, LinesOf
  <2>2. CASE c = b /\ box'[b] = "starts" /\ logged'[b] = {}
    BY <2>2 DEF LoggedKept
  <2>3. CASE c = b /\ box'[b] = "runs" /\ logged'[b] = logged[b]
    BY <1>1, <2>1, <2>3 DEF LoggedKept, Underway
  <2>4. CASE c # b
    BY <1>1, <2>1, <2>4 DEF LoggedKept
  <2> QED
    BY <1>2, <2>2, <2>3, <2>4
<1> QED
  BY <1>3, <1>4 DEF StatusKept

LEMMA InitStatus == PInit => StatusKept
BY DEF PInit, StatusKept, LoggedKept, Underway

-----------------------------------------------------------------------------
(* The invariant.                                                           *)

\* No machine begins, or begins an installation, in this step.
Onward ==
    \A b \in Boxes : /\ box'[b] \in Early => box[b] \in Early
                     /\ box'[b] = "starts" => box[b] = "starts"
                     /\ box'[b] \in Underway => box[b] \in Underway

LEMMA OnwardKept ==
    ASSUME InstallationTyped, UploadKept, StatusKept, Onward,
           UNCHANGED <<anamon, agent, lines, logged>>, second' \in {second, second + 1}
    PROVE  UploadKept' /\ StatusKept'
<1>1. UploadKept'
  BY UploadFrame DEF Onward
<1>2. second' \in Nat /\ second <= second'
  BY DEF InstallationTyped, LogsTyped
<1>3. StatusKept'
  BY <1>2, StatusFrame DEF Onward, InstallationTyped
<1> QED
  BY <1>1, <1>3

LEMMA LeavesOnward ==
    ASSUME InstallationTyped, ToldKept, NEW t \in Servers, server[t].does # "idle", Leaves(t)
    PROVE  Onward
<1>1. CASE server[t].does = "nopxe"
  <2> DEFINE b == server[t].box
  <2>1. b \in Boxes /\ box' = [box EXCEPT ![b] = "posts"]
    BY <1>1 DEF Leaves, InstallationTyped, DaemonTyped
  <2>2. Asks(t, b)
    BY <1>1 DEF Asks
  <2>3. box[b] = "waits"
    BY <2>1, <2>2 DEF ToldKept
  <2> HIDE DEF b
  <2> QED
    BY <2>1, <2>3 DEF Onward, Early, Underway, InstallationTyped, MachinesTyped
<1>2. CASE server[t].does # "nopxe"
  BY <1>2 DEF Leaves, Onward
<1> QED
  BY <1>1, <1>2

LEMMA FallsKept ==
    ASSUME InstallationInv, NEW b \in Boxes, Falls(b),
           UNCHANGED <<running, netboot, stored, bootfile, told, anamon, lines, logged, second>>
    PROVE  ToldKept' /\ UploadKept' /\ StatusKept'
<1>1. ToldKept' /\ UploadKept'
  BY ToldFalls, FallsUpload DEF InstallationInv
<1>2. \A c \in Boxes : /\ box'[c] = "starts" => box[c] = "starts"
                       /\ box'[c] \in Underway => box[c] \in Underway
  BY DEF Falls, Underway, InstallationInv, InstallationTyped, MachinesTyped
<1>3. second' \in Nat /\ second <= second'
  BY DEF InstallationInv, InstallationTyped, LogsTyped
<1>4. StatusKept'
  BY <1>2, <1>3, StatusFrame DEF InstallationInv, InstallationTyped
<1> QED
  BY <1>1, <1>4

LEMMA RisesKept ==
    ASSUME InstallationInv, NEW b \in Boxes, Rises(b) \/ Stays,
           UNCHANGED <<running, netboot, stored, bootfile, told, anamon, lines, logged, second>>
    PROVE  ToldKept' /\ UploadKept' /\ StatusKept'
<1>1. Onward /\ UNCHANGED agent
  BY DEF Rises, Stays, Onward, Early, Underway, InstallationInv, InstallationTyped, MachinesTyped
<1>2. ToldKept'
  <2>1. CASE Rises(b)
    BY <2>1, ToldRises DEF InstallationInv
  <2>2. CASE Stays
    BY <2>2, ToldFrame DEF InstallationInv, Stays
  <2> QED
    BY <2>1, <2>2
<1> QED
  BY <1>1, <1>2, OnwardKept DEF InstallationInv

LEMMA ServersKept ==
    ASSUME InstallationInv, NEW t \in Servers,
           \/ PreTriggerFails(t) \/ AddSaves(t) \/ WriteFileRenders(t) \/ WriteFileWrites(t)
           \/ \E b \in Boxes :
                \/ \E v \in BOOLEAN : XapiSystemEdit(t, b, v)
                \/ DisableNetboot(t, b) \/ RegisterNewSystem(t, b)
    PROVE  InstallationInv'
<1>1. CASE PreTriggerFails(t)
  <2>1. Onward
    BY <1>1, LeavesOnward DEF PreTriggerFails, InstallationInv
  <2>2. UNCHANGED <<anamon, agent, lines, logged, second>>
    BY <1>1 DEF PreTriggerFails, logs, counts
  <2> QED
    BY <1>1, <2>1, <2>2, OnwardKept, PreTriggerTyped, PreTriggerTold DEF InstallationInv
<1>2. CASE AddSaves(t)
  <2>1. Onward /\ UNCHANGED <<anamon, agent, lines, logged, second>>
    BY <1>2 DEF AddSaves, Onward, logs, counts
  <2> QED
    BY <1>2, <2>1, OnwardKept, AddTyped, AddTold DEF InstallationInv
<1>3. CASE WriteFileRenders(t)
  <2>1. Onward /\ UNCHANGED <<anamon, agent, lines, logged, second>>
    BY <1>3 DEF WriteFileRenders, Onward, logs, counts
  <2> QED
    BY <1>3, <2>1, OnwardKept, RenderTyped, RenderTold DEF InstallationInv
<1>4. CASE WriteFileWrites(t)
  <2>1. server[t].does # "idle"
    BY <1>4 DEF WriteFileWrites, InstallationInv, InstallationTyped, DaemonTyped, FreeServer
  <2>2. Onward
    BY <1>4, <2>1, LeavesOnward DEF WriteFileWrites, InstallationInv
  <2>3. UNCHANGED <<anamon, agent, lines, logged, second>>
    BY <1>4 DEF WriteFileWrites, logs, counts
  <2> QED
    BY <1>4, <2>2, <2>3, OnwardKept, WriteTyped, WriteTold DEF InstallationInv
<1>5. ASSUME NEW b \in Boxes, NEW v \in BOOLEAN, XapiSystemEdit(t, b, v) PROVE InstallationInv'
  <2>1. Onward /\ UNCHANGED <<anamon, agent, lines, logged, second>>
    BY <1>5 DEF XapiSystemEdit, Onward, logs
  <2> QED
    BY <1>5, <2>1, OnwardKept, EditTyped, EditTold DEF InstallationInv
<1>6. ASSUME NEW b \in Boxes, DisableNetboot(t, b) PROVE InstallationInv'
  <2>1. box[b] = "leaves" /\ \E p \in {"waits", "posts"} : box' = [box EXCEPT ![b] = p]
    BY <1>6 DEF DisableNetboot
  <2>2. Onward
    BY <2>1 DEF Onward, Early, Underway, InstallationInv, InstallationTyped, MachinesTyped
  <2>3. UNCHANGED <<anamon, agent, lines, logged, second>>
    BY <1>6 DEF DisableNetboot, logs, counts
  <2> QED
    BY <1>6, <2>2, <2>3, OnwardKept, DisableTyped, DisableTold DEF InstallationInv
<1>7. ASSUME NEW b \in Boxes, RegisterNewSystem(t, b) PROVE InstallationInv'
  <2>1. Onward /\ UNCHANGED <<anamon, agent, lines, logged, second>>
    BY <1>7 DEF RegisterNewSystem, Onward, logs
  <2> QED
    BY <1>7, <2>1, OnwardKept, RegisterTyped, RegisterTold DEF InstallationInv
<1> QED
  BY <1>1, <1>2, <1>3, <1>4, <1>5, <1>6, <1>7

\* A machine that takes a step of its installation.
LEMMA MachinesKept ==
    ASSUME InstallationInv, NEW b \in Boxes,
           Boots(b) \/ FetchesAutoinstall(b) \/ RunPreTriggers(b) \/ Installs(b) \/ RunPostTriggers(b)
    PROVE  InstallationInv'
<1>1. box[b] # "waits" /\ \E p : box' = [box EXCEPT ![b] = p]
  BY DEF Boots, FetchesAutoinstall, RunPreTriggers, Installs, RunPostTriggers
<1>2. UNCHANGED <<running, netboot, stored, bootfile, server, told>>
  BY DEF Boots, FetchesAutoinstall, RunPreTriggers, Installs, RunPostTriggers, daemon
<1>3. ToldKept'
  BY <1>1, <1>2, ToldMoves DEF InstallationInv, InstallationTyped
<1>4. CASE Boots(b)
  <2>1. Onward
    BY <1>4 DEF Boots, Onward, Early, Underway, InstallationInv, InstallationTyped, MachinesTyped
  <2>2. UNCHANGED <<anamon, agent, lines, logged, second>>
    BY <1>4 DEF Boots, logs
  <2> QED
    BY <1>3, <1>4, <2>1, <2>2, OnwardKept, BootsTyped DEF InstallationInv
<1>5. CASE FetchesAutoinstall(b)
  BY <1>3, <1>5, FetchesTyped, FetchesUpload, FetchesStatus DEF InstallationInv
<1>6. CASE RunPreTriggers(b)
  BY <1>3, <1>6, PreTyped, PreUpload, PreStatus DEF InstallationInv
<1>7. CASE Installs(b)
  <2>1. Onward
    BY <1>7 DEF Installs, Onward, Early, Underway, InstallationInv, InstallationTyped, MachinesTyped
  <2>2. UNCHANGED <<anamon, agent, lines, logged, second>>
    BY <1>7 DEF Installs, logs, counts
  <2> QED
    BY <1>3, <1>7, <2>1, <2>2, OnwardKept, InstallsTyped DEF InstallationInv
<1>8. CASE RunPostTriggers(b)
  <2>1. \A c \in Boxes : box'[c] \in Early => box[c] \in Early
    BY <1>8 DEF RunPostTriggers, Early, InstallationInv, InstallationTyped, MachinesTyped
  <2>2. UploadKept'
    BY <1>8, <2>1, UploadFrame DEF RunPostTriggers, InstallationInv
  <2> QED
    BY <1>3, <1>8, <2>2, PostTyped, PostStatus DEF InstallationInv
<1> QED
  BY <1>4, <1>5, <1>6, <1>7, <1>8

LEMMA UploadsKept ==
    ASSUME InstallationInv, NEW b \in Boxes,
           \/ \E last \in BOOLEAN : UploadLogData(b, last)
           \/ UploadFails(b) \/ UploadsAgain(b) \/ ClearLogs(b)
    PROVE  InstallationInv'
<1>1. UNCHANGED <<running, netboot, stored, bootfile, server, told, box, lines, logged, second>>
  BY DEF UploadLogData, UploadFails, UploadsAgain, ClearLogs, daemon, logs, counts
<1>2. ToldKept'
  BY <1>1, ToldFrame DEF InstallationInv
<1>3. StatusKept'
  <2>1. second' \in Nat /\ second <= second'
    BY <1>1 DEF InstallationInv, InstallationTyped, LogsTyped
  <2> QED
    BY <1>1, <2>1, StatusFrame DEF InstallationInv, InstallationTyped
<1>4. InstallationTyped'
  BY UploadTyped, UploadFailsTyped, UploadsAgainTyped, ClearLogsTyped DEF InstallationInv
<1>5. UploadKept'
  BY LogDataUpload, FailsUpload, AgainUpload, ClearUpload DEF InstallationInv
<1> QED
  BY <1>2, <1>3, <1>4, <1>5 DEF InstallationInv

LEMMA PowerKept ==
    ASSUME InstallationInv, NEW b \in Boxes, PowerSystem(b) \/ Reboot(b)
    PROVE  InstallationInv'
<1>1. UNCHANGED <<running, netboot, stored, bootfile, told, anamon, lines, logged, second>>
  BY DEF PowerSystem, Reboot, logs, counts
<1>2. Falls(b) \/ Rises(b) \/ Stays
  BY DEF PowerSystem, Reboot, Power
<1>3. ToldKept' /\ UploadKept' /\ StatusKept'
  BY <1>1, <1>2, FallsKept, RisesKept
<1> QED
  BY <1>3, PowerTyped, RebootTyped DEF InstallationInv

LEMMA CrashesKept ==
    ASSUME InstallationInv, Kill \/ Restart \/ Tick
    PROVE  InstallationInv'
<1>1. CASE Kill
  <2>1. \A c \in Boxes : /\ box'[c] = "starts" => box[c] = "starts"
                         /\ box'[c] \in Underway => box[c] \in Underway
    BY <1>1 DEF Kill, Underway
  <2>2. second' \in Nat /\ second <= second' /\ UNCHANGED <<lines, logged>>
    BY <1>1 DEF Kill, InstallationInv, InstallationTyped, LogsTyped
  <2>3. StatusKept'
    BY <2>1, <2>2, StatusFrame DEF InstallationInv, InstallationTyped
  <2> QED
    BY <1>1, <2>3, KillTyped, KillTold, KillUpload DEF InstallationInv
<1>2. CASE Restart
  <2>1. Onward /\ UNCHANGED <<anamon, agent, lines, logged, second>>
    BY <1>2 DEF Restart, Onward, logs, counts
  <2> QED
    BY <1>2, <2>1, OnwardKept, RestartTyped, RestartTold DEF InstallationInv
<1>3. CASE Tick
  <2>1. Onward /\ UNCHANGED <<anamon, agent, lines, logged, box>> /\ second' = second + 1
    BY <1>3 DEF Tick, Onward, logs
  <2>2. ToldKept'
    BY <1>3, <2>1, ToldFrame DEF InstallationInv, Tick, daemon
  <2> QED
    BY <1>3, <2>1, <2>2, OnwardKept, TickTyped DEF InstallationInv
<1> QED
  BY <1>1, <1>2, <1>3

LEMMA NextInstallation ==
    ASSUME InstallationInv, [PNext]_pvars
    PROVE  InstallationInv'
<1>1. CASE PNext
  BY <1>1, ServersKept, MachinesKept, UploadsKept, PowerKept, CrashesKept DEF PNext
<1>2. CASE UNCHANGED pvars
  <2>1. Onward /\ UNCHANGED <<anamon, agent, lines, logged, second>>
    BY <1>2 DEF Onward, pvars, logs, counts
  <2>2. InstallationTyped'
    BY <1>2 DEF InstallationInv, InstallationTyped, DaemonTyped, LogsTyped, MachinesTyped,
                pvars, daemon, logs, counts
  <2>3. ToldKept'
    BY <1>2, ToldFrame DEF InstallationInv, pvars, daemon
  <2> QED
    BY <2>1, <2>2, <2>3, OnwardKept DEF InstallationInv
<1> QED
  BY <1>1, <1>2

\* Whatever requests, installations, uploads and crashes cross, the answers that are due, the
\* logs and the uploads stay consistent.
THEOREM InstallationInvariant == PSpec => []InstallationInv
<1>1. PInit => InstallationInv
  BY InitTyped, InitTold, InitUpload, InitStatus DEF InstallationInv
<1>2. InstallationInv /\ [PNext]_pvars => InstallationInv'
  BY NextInstallation
<1> QED
  BY <1>1, <1>2, PTL DEF PSpec

\* A machine that was told not to boot from the network is not installed again.
THEOREM NeverInstalledTwice == PSpec => InstallsOnce
<1> DEFINE Again == \A b \in Boxes : box[b] = "boots" /\ box'[b] = "fetches" => told[b] # "told"
<1>1. InstallationInv /\ [PNext]_pvars => [Again]_pvars
  <2> SUFFICES ASSUME InstallationInv, PNext, NEW b \in Boxes,
                      box[b] = "boots", box'[b] = "fetches"
               PROVE  told[b] # "told"
    BY DEF pvars
  <2>1. ~(\E t \in Servers : \/ PreTriggerFails(t) \/ AddSaves(t) \/ WriteFileRenders(t) \/ WriteFileWrites(t)
                             \/ \E c \in Boxes : \/ \E v \in BOOLEAN : XapiSystemEdit(t, c, v)
                                                 \/ DisableNetboot(t, c) \/ RegisterNewSystem(t, c))
    BY DEF PreTriggerFails, AddSaves, WriteFileRenders, WriteFileWrites, XapiSystemEdit,
           DisableNetboot, RegisterNewSystem, Leaves, InstallationInv, InstallationTyped, MachinesTyped
  <2>2. \A c \in Boxes : ~(PowerSystem(c) \/ Reboot(c))
    BY DEF PowerSystem, Reboot, Power, Falls, Rises, Stays, InstallationInv, InstallationTyped, MachinesTyped
  <2>3. ~(Kill \/ Restart \/ Tick)
    BY DEF Kill, Restart, Tick
  <2>4. \A c \in Boxes : ~(\/ \E last \in BOOLEAN : UploadLogData(c, last)
                           \/ UploadFails(c) \/ UploadsAgain(c) \/ ClearLogs(c))
    BY DEF UploadLogData, UploadFails, UploadsAgain, ClearLogs
  <2>5. \A c \in Boxes : ~(FetchesAutoinstall(c) \/ RunPreTriggers(c) \/ Installs(c) \/ RunPostTriggers(c))
    BY DEF FetchesAutoinstall, RunPreTriggers, Installs, RunPostTriggers,
           InstallationInv, InstallationTyped, MachinesTyped
  <2>6. PICK c \in Boxes : Boots(c)
    BY <2>1, <2>2, <2>3, <2>4, <2>5 DEF PNext
  <2>7. bootfile[b] = "install"
    BY <2>6 DEF Boots, InstallationInv, InstallationTyped, MachinesTyped
  <2> QED
    BY <2>7 DEF InstallationInv, ToldKept, Told
<1>2. InstallationInv /\ [PNext]_pvars => InstallationInv'
  BY NextInstallation
<1>3. PInit => InstallationInv
  BY InitTyped, InitTold, InitUpload, InitStatus DEF InstallationInv
<1> QED
  BY <1>1, <1>2, <1>3, PTL DEF PSpec, InstallsOnce

-----------------------------------------------------------------------------

LEMMA LatestIs ==
    ASSUME InstallationInv, NEW b \in Boxes, NEW what \in {"start", "stop"}
    PROVE  /\ Latest(AddressOf[b], what) \in Nat
           /\ \A l \in LinesOf(b, what) : l.at <= Latest(AddressOf[b], what)
           /\ \/ LinesOf(b, what) = {} /\ Latest(AddressOf[b], what) = 0
              \/ \E l \in LinesOf(b, what) : l.at = Latest(AddressOf[b], what)
<1> DEFINE times == {l.at : l \in LinesOf(b, what)}
<1>1. times \in SUBSET Nat /\ second \in Nat /\ \A s \in times : s <= second
  BY DEF InstallationInv, InstallationTyped, LogsTyped, StatusKept, LinesOf
<1>2. Latest(AddressOf[b], what) = IF times = {} THEN 0 ELSE CHOOSE s \in times : \A r \in times : r <= s
  BY DEF Latest, LinesOf
<1>3. CASE times = {}
  BY <1>2, <1>3
<1>4. CASE times # {}
  <2>1. \E s \in times : \A r \in times : r <= s
    <3> HIDE DEF times
    <3> QED
      BY <1>1, <1>4, HasMaximum
  <2>2. PICK s \in times : s = Latest(AddressOf[b], what) /\ \A r \in times : r <= s
    <3> HIDE DEF times
    <3> QED
      BY <1>2, <1>4, <2>1
  <2> QED
    BY <1>1, <2>2
<1> QED
  BY <1>3, <1>4

\* The status report and the uploaded logs tell what happened.
THEOREM LogsAreExact == PSpec => []LogsExact
<1>1. InstallationInv => StatusExact
  <2> SUFFICES ASSUME InstallationInv, NEW b \in Boxes, Alone(b)
               PROVE  /\ box[b] \in Underway /\ logged[b] # {}
                           => ProcessResults(AddressOf[b]) # "finished"
                      /\ (\E s, r \in 1..MaxSeconds :
                            s < r /\ {<<"start", s>>, <<"stop", r>>} \subseteq logged[b])
                           => ProcessResults(AddressOf[b]) = "finished"
    BY DEF StatusExact, Alone, Underway
  <2>1. LoggedKept(b)
    BY DEF InstallationInv, StatusKept
  <2> DEFINE start == Latest(AddressOf[b], "start")
             stop  == Latest(AddressOf[b], "stop")
  <2>2. /\ start \in Nat /\ stop \in Nat
        /\ \A l \in LinesOf(b, "start") : l.at <= start
        /\ \A l \in LinesOf(b, "stop") : l.at <= stop
        /\ (LinesOf(b, "start") = {} /\ start = 0) \/ \E l \in LinesOf(b, "start") : l.at = start
        /\ (LinesOf(b, "stop") = {} /\ stop = 0) \/ \E l \in LinesOf(b, "stop") : l.at = stop
    BY LatestIs
  <2>3. ProcessResults(AddressOf[b]) = IF stop > start THEN "finished" ELSE "installing"
    BY DEF ProcessResults
  <2> HIDE DEF start, stop
  <2>4. \A e \in logged[b] : e[2] \in Nat \ {0}
    <3> SUFFICES ASSUME NEW e \in logged[b] PROVE e[2] \in Nat \ {0}
      OBVIOUS
    <3> DEFINE l == [address |-> AddressOf[b], what |-> e[1], at |-> e[2]]
    <3>1. l \in lines /\ l.at = e[2]
      BY <2>1 DEF LoggedKept
    <3> HIDE DEF l
    <3> QED
      BY <3>1 DEF InstallationInv, InstallationTyped, LogsTyped, StatusKept
  <2>5. ASSUME box[b] \in Underway, logged[b] # {}
        PROVE  ProcessResults(AddressOf[b]) # "finished"
    <3>1. PICK e \in logged[b] : TRUE
      BY <2>5
    <3> DEFINE l == [address |-> AddressOf[b], what |-> e[1], at |-> e[2]]
    <3>2. l \in LinesOf(b, "start") /\ l.at = e[2]
      BY <2>1, <2>5 DEF LoggedKept, LinesOf
    <3>3. e[2] <= start
      <4> HIDE DEF l
      <4> QED
        BY <2>2, <3>2
    <3>4. stop <= e[2]
      <4>1. \A k \in LinesOf(b, "stop") : k.at <= e[2]
        BY <2>1, <2>5 DEF LoggedKept
      <4> QED
        BY <2>2, <2>4, <4>1
    <3> QED
      BY <2>2, <2>3, <2>4, <3>3, <3>4
  <2>6. ASSUME NEW s \in 1..MaxSeconds, NEW r \in 1..MaxSeconds, s < r,
               <<"start", s>> \in logged[b], <<"stop", r>> \in logged[b]
        PROVE  ProcessResults(AddressOf[b]) = "finished"
    <3>1. \A k \in LinesOf(b, "start") : k.at <= s
      BY <2>1, <2>6 DEF LoggedKept
    <3>2. s \in Nat /\ r \in Nat
      BY <2>4, <2>6
    <3>3. start <= s
      BY <2>2, <3>1, <3>2
    <3> DEFINE l == [address |-> AddressOf[b], what |-> "stop", at |-> r]
    <3>4. l \in LinesOf(b, "stop") /\ l.at = r
      BY <2>1, <2>6 DEF LoggedKept, LinesOf
    <3>5. r <= stop
      <4> HIDE DEF l
      <4> QED
        BY <2>2, <3>4
    <3> QED
      BY <2>2, <2>3, <2>6, <3>2, <3>3, <3>5
  <2> QED
    BY <2>5, <2>6
<1>2. InstallationInv => UploadExact
  BY DEF InstallationInv, UploadKept, Uploaded, UploadExact, News
<1>3. InstallationInv => LogsExact
  BY <1>1, <1>2 DEF LogsExact
<1> QED
  BY <1>3, InstallationInvariant, PTL

=============================================================================
