----------------------------- MODULE Migrations -----------------------------
(***************************************************************************)
(* The migration of the settings file, and of the files beside it, when    *)
(* the daemon starts.  The version of a document is the first one, in the  *)
(* order in which the modules were found, whose schema accepts it.  The    *)
(* migrations from there on are applied in memory, but some of them also   *)
(* rewrite the collections and the other configuration files in place.     *)
(* The daemon may be killed at any step, and started again.                *)
(*                                                                         *)
(* A document is a function from the keys it has to values.  The keys that *)
(* every version treats alike are left out; the flags stand for the many   *)
(* keys whose type changed.  The versions are numbered in their order.     *)
(***************************************************************************)
EXTENDS Naturals, FiniteSets

CONSTANTS
    Nodes,        \* the systems whose files are migrated
    Nics,         \* the network interfaces
    NodeOf,       \* [Nics -> Nodes]
    MaxStarts     \* bound on the starts of the daemon

ASSUME MigrationsAssumption == NodeOf \in [Nics -> Nodes]

V300 == 2
V301 == 3
V312 == 6
V320 == 7
V321 == 8
V330 == 9
V331 == 10
V333 == 12
V337 == 16
V400 == 17
Versions == 1..V400

VARIABLES
    doc,          \* settings.yaml
    mem,          \* the document the migrations work on
    at,           \* the version mem has reached
    pc,           \* the step of the start; "down"; or "load", the migration done
    left,         \* the files the running loop has not seen
    mongo,        \* mongodb.conf: TRUE while it is there
    modules,      \* modules.conf: "old", "new", "torn" or "gone"
    templates,    \* the directory of kickstarts: "none", "old", "both"
    file,         \* the file of each system: where it is, and what it holds
    nicfile,      \* the number of files of each interface
    nicdir,       \* the directory of those files exists
    backup,       \* the interfaces that some copy of the collections holds
    starts
mvars == <<doc, mem, at, pc, left, mongo, modules, templates, file, nicfile,
           nicdir, backup, starts>>

-----------------------------------------------------------------------------
(* The schemas                                                              *)

\* The keys a document must have, those that have a default, those it may have,
\* and the types of the two whose type changed.
Schema285 == [req |-> {"flags", "file_size", "kickstart", "consoles", "next_server",
                       "power_template_dir"},
              dft |-> {"iso_template_dir", "kerberos_realm", "manage_tftp"},
              opt |-> {}, flags |-> "int", size |-> "int"]
Schema300 == [Schema285 EXCEPT !.req = (@ \ {"kickstart", "consoles"})
                                       \cup {"default_autoinstall", "include"},
                               !.dft = @ \ {"kerberos_realm"}]
Schema312 == [Schema300 EXCEPT !.req = @ \ {"power_template_dir"}]
Schema320 == [Schema312 EXCEPT !.req = @ \cup {"cache_enabled"}]
Schema321 == [Schema320 EXCEPT !.dft = (@ \ {"manage_tftp"}) \cup {"jinja2_includedir"},
                               !.flags = "bool"]
Schema330 == [Schema321 EXCEPT !.req = (@ \ {"default_autoinstall", "next_server", "cache_enabled"})
                                       \cup {"autoinstall", "next_server_v4"},
                               !.dft = @ \cup {"windows_template_dir"}]
Schema331 == [Schema330 EXCEPT !.dft = @ \cup {"ldap_tls_reqcert"}]
Schema333 == [Schema331 EXCEPT !.dft = @ \cup {"proxies"}, !.size = "float"]
Schema335 == [Schema333 EXCEPT !.dft = @ \cup {"lazy_start"}, !.opt = {"cache_enabled"}]
Schema400 == [Schema335 EXCEPT !.req = {}, !.dft = {},
                !.opt = {"flags", "file_size", "autoinstall", "next_server_v4", "ldap_tls_reqcert",
                         "proxies", "lazy_start", "cache_enabled", "mongodb", "modules"}]
\* 3.0.1, 3.1.0, 3.1.1, 3.3.2, 3.3.4, 3.3.6 and 3.3.7 take the schema of the one before.
Schema == <<Schema285, Schema300, Schema300, Schema300, Schema300, Schema312, Schema320,
            Schema321, Schema330, Schema331, Schema331, Schema333, Schema333, Schema335,
            Schema335, Schema335, Schema400>>

Permitted(v) == Schema[v].req \cup Schema[v].dft \cup Schema[v].opt

\* A bool is an int to the schemas that ask for one; a float is not.
Validate(v, d) ==
    /\ Schema[v].req \subseteq DOMAIN d /\ DOMAIN d \subseteq Permitted(v)
    /\ "flags" \in DOMAIN d /\ Schema[v].flags = "bool" => d["flags"] = "bool"
    /\ "file_size" \in DOMAIN d => d["file_size"] = Schema[v].size

Normalize(v, d) ==
    [k \in DOMAIN d \cup Schema[v].dft |-> IF k \in DOMAIN d THEN d[k] ELSE "default"]

\* Documents an installation of version v may have.
Installed(v) ==
    {[k \in Schema[v].req \cup o |->
        CASE k = "flags" -> Schema[v].flags
          [] k = "file_size" -> Schema[v].size
          [] OTHER -> "custom"] : o \in SUBSET (Schema[v].dft \cup Schema[v].opt)}

-----------------------------------------------------------------------------
(* The migrations of the document                                           *)

Without(d, ks) == [k \in DOMAIN d \ ks |-> d[k]]
With(d, ks, val) == [k \in DOMAIN d \cup ks |-> IF k \in ks THEN val ELSE d[k]]

Rewrite300(d) == With(Without(d, {"kickstart", "consoles"}),
                      {"default_autoinstall", "include"}, "default")
Rewrite312(d) == Without(d, {"power_template_dir"})
Rewrite320(d) == With(d, {"cache_enabled"}, "default")
Rewrite321(d) == With(Without(d, {"manage_tftp"}), {"flags"}, "bool")
Rewrite330(d) == With(Without(d, {"default_autoinstall", "next_server", "cache_enabled"}),
                      {"autoinstall", "next_server_v4"}, "default")
\* Keys added as if they were all new.
Rewrite331Over(d) == With(d, {"ldap_tls_reqcert", "next_server_v4"}, "hard")
Rewrite331(d) == With(d, {"ldap_tls_reqcert"}, "hard")
Rewrite333(d) == With(d, {"file_size"}, "float")

Rewritten(v, d) ==
    CASE v = V300 -> Rewrite300(d)
      [] v = V312 -> Rewrite312(d)
      [] v = V320 -> Rewrite320(d)
      [] v = V321 -> Rewrite321(d)
      [] v = V330 -> Rewrite330(d)
      [] v = V331 -> Rewrite331(d)
      [] v = V333 -> Rewrite333(d)
      [] OTHER -> d

\* 3.3.3 asks for the schema of its own after the change, not for that of 3.3.2 before.
Migratable(v, d) ==
    /\ v # V333 => Validate(v - 1, d)
    /\ Validate(v, Rewritten(v, d))
Migrated(v, d) == Normalize(v, Rewritten(v, d))

\* The document at 3.3.7 of a chain that starts at version v; {} if it fails.
Chain(v, d) ==
    LET f[k \in v..V337] ==
          IF k = v THEN {d}
          ELSE {Migrated(k, e) : e \in {c \in f[k - 1] : Migratable(k, c)}}
    IN f[V337]

-----------------------------------------------------------------------------
(* The start                                                                *)

MInit ==
    /\ \E v \in {1, 5, V320, V330, V333, V337} :
         /\ doc \in Installed(v)
         /\ modules = IF v < V301 THEN "old" ELSE "new"
         /\ templates \in IF v < V300 THEN {"none", "old"} ELSE {"none"}
         /\ file = [s \in Nodes |->
                      [at |-> IF v < V300 THEN "config" ELSE "name",
                       holds |-> {i \in Nics : NodeOf[i] = s}, torn |-> FALSE]]
    /\ mem = doc /\ at = 1 /\ pc = "down" /\ left = {} /\ mongo \in BOOLEAN
    /\ nicfile = [i \in Nics |-> 0] /\ nicdir \in BOOLEAN
    /\ backup = {} /\ starts = 0

Beside == <<mongo, modules, templates, file, nicfile, nicdir, backup>>

\* get_settings_file_version: the order in which the modules were found is any.
Discovered == {v \in Versions : Validate(v, doc)}

\* auto_migrate
Start ==
    /\ pc = "down" /\ starts < MaxStarts /\ starts' = starts + 1
    /\ \E v \in Discovered :
         at' = v /\ pc' = IF v = V400 THEN "load" ELSE "chain"
    /\ mem' = doc /\ left' = {}
    /\ UNCHANGED <<doc, Beside>>

\* The migration ends in an exception, or the daemon is killed.
Down == pc' = "down" /\ left' = {} /\ UNCHANGED <<doc, mem, at, starts>>
Killed ==
    pc # "down" /\ Down /\ UNCHANGED Beside

Reached(v) == at' = v /\ mem' = Migrated(v, mem) /\ pc' = "chain"
Goto(p) == pc' = p /\ UNCHANGED <<doc, mem, at, starts>>

MigrateDocument ==
    /\ pc = "chain" /\ at + 1 \notin {V300, V301, V330, V400}
    /\ IF Migratable(at + 1, mem)
       THEN Reached(at + 1) /\ UNCHANGED <<doc, left, starts, Beside>>
       ELSE Down /\ UNCHANGED Beside

\* 3.0.0 copies the items of 2.x, and moves the kickstarts by a copy and a rename
\* onto the copy, which a directory that is not empty refuses.
Migrate300 ==
    /\ pc = "chain" /\ at + 1 = V300 /\ Validate(at, mem)
    /\ \/ /\ file' = [s \in Nodes |-> [file[s] EXCEPT !.at = "name"]]
          /\ templates' = IF templates = "none" THEN "none" ELSE "both"
          /\ IF templates = "none" /\ Validate(V300, Rewritten(V300, mem))
             THEN Reached(V300) /\ UNCHANGED <<doc, left, starts>>
             ELSE Down
       \/ \E done \in SUBSET Nodes :
            /\ file' = [s \in Nodes |-> IF s \in done THEN [file[s] EXCEPT !.at = "name"]
                                        ELSE file[s]]
            /\ Down /\ UNCHANGED templates
    /\ UNCHANGED <<mongo, modules, nicfile, nicdir, backup>>

\* 3.0.1 rewrites modules.conf before it asks for the schema.
Migrate301 ==
    /\ pc = "chain" /\ at + 1 = V301
    /\ \/ modules' = (IF modules = "torn" THEN "torn" ELSE "new") /\ Reached(V301)
          /\ UNCHANGED <<doc, left, starts>>
       \/ modules' = "torn" /\ Down
    /\ UNCHANGED <<mongo, templates, file, nicfile, nicdir, backup>>

-----------------------------------------------------------------------------
(* The collections                                                          *)

\* backup_dir
Backup(next) ==
    /\ backup' = backup \cup UNION {file[s].holds : s \in Nodes}
    /\ left' = Nodes /\ Goto(next)
    /\ UNCHANGED <<mongo, modules, templates, file, nicfile, nicdir>>

\* migrate_cobbler_collections: each file is read, and written over.
Convert(s, here, next) ==
    /\ pc = here /\ s \in left
    /\ \/ ~file[s].torn /\ left' = left \ {s} /\ UNCHANGED file
          /\ IF left' = {} THEN Goto(next) ELSE Goto(here)
       \/ ~file[s].torn /\ file' = [file EXCEPT ![s].torn = TRUE, ![s].holds = {}] /\ Down
       \/ file[s].torn /\ UNCHANGED file /\ Down
    /\ UNCHANGED <<mongo, modules, templates, nicfile, nicdir, backup>>

Migrate330 ==
    \/ /\ pc = "chain" /\ at + 1 = V330
       /\ IF Migratable(V330, mem) THEN Backup("convert330") ELSE Down /\ UNCHANGED Beside
    \/ \E s \in Nodes : Convert(s, "convert330", "done330")
    \/ pc = "done330" /\ Reached(V330) /\ UNCHANGED <<doc, left, starts, Beside>>

-----------------------------------------------------------------------------
(* 4.0.0                                                                    *)

\* pop without a default.
Popped == {"include", "jinja2_includedir", "iso_template_dir"}

\* Both reads are of mongodb.conf, the second one after it was removed.
Migrate400 ==
    /\ pc = "chain" /\ at + 1 = V400
    /\ IF Validate(V337, mem) /\ Popped \subseteq DOMAIN mem
       THEN /\ mem' = With(With(Without(mem, Popped), {"mongodb"},
                                IF mongo THEN "custom" ELSE "default"), {"modules"}, "default")
            /\ mongo' = FALSE /\ modules' = "gone"
            /\ pc' = "save" /\ UNCHANGED <<doc, at, left, starts>>
       ELSE Down /\ UNCHANGED <<mongo, modules>>
    /\ UNCHANGED <<templates, file, nicfile, nicdir, backup>>

\* key_drop_if_default knows the keys of the settings of 4.0.0 only.
Droppable(d) == "windows_template_dir" \notin DOMAIN d
Dropped(d) == Without(d, {k \in DOMAIN d : d[k] = "default"})

\* update_settings_file, of what the schema of 4.0.0 accepts.
SaveSettings(d) == Validate(V400, d) /\ doc' = d

\* The file is saved before the collections are migrated.
Save400 ==
    /\ pc = "save"
    /\ IF ~Droppable(mem)
       THEN Down
       ELSE /\ mem' = Dropped(mem)
            /\ SaveSettings(mem') /\ at' = V400 /\ pc' = "backup" /\ UNCHANGED <<left, starts>>
    /\ UNCHANGED Beside

\* migrate_cobbler_json_files
RenameFile(s) ==
    /\ pc = "rename" /\ s \in left
    /\ IF file[s].torn
       THEN Down /\ UNCHANGED file
       ELSE /\ left' = left \ {s} /\ file' = [file EXCEPT ![s].at = "uid"]
            /\ IF left' = {} THEN Goto("dir") ELSE Goto("rename")
    /\ UNCHANGED <<mongo, modules, templates, nicfile, nicdir, backup>>

\* migrate_cobbler_network_interfaces: the file of each interface of a system, then
\* that of the system.
MoveNic(s, i) ==
    /\ pc = "nics" /\ s \in left /\ i \in file[s].holds /\ nicfile[i] = 0
    /\ IF nicdir
       THEN nicfile' = [nicfile EXCEPT ![i] = @ + 1] /\ Goto("nics") /\ UNCHANGED left
       ELSE Down /\ UNCHANGED nicfile
    /\ UNCHANGED <<mongo, modules, templates, file, nicdir, backup>>
\* The file of the system first.
StripNodeFirst(s) ==
    /\ pc = "nics" /\ s \in left
    /\ file' = [file EXCEPT ![s].holds = {}] /\ left' = left \ {s}
    /\ Goto(IF left' = {} THEN "end" ELSE "nics")
    /\ UNCHANGED <<mongo, modules, templates, nicfile, nicdir, backup>>
StripNode(s) ==
    /\ pc = "nics" /\ s \in left
    /\ \A i \in file[s].holds : nicfile[i] > 0
    /\ \/ /\ left' = left \ {s} /\ file' = [file EXCEPT ![s].holds = {}]
          /\ Goto(IF left' = {} THEN "end" ELSE "nics")
       \/ file' = [file EXCEPT ![s].torn = TRUE, ![s].holds = {}] /\ Down
    /\ UNCHANGED <<mongo, modules, templates, nicfile, nicdir, backup>>

Collections400 ==
    \/ pc = "backup" /\ Backup("convert400")
    \/ \E s \in Nodes : Convert(s, "convert400", "backup2") \/ RenameFile(s) \/ StripNode(s)
    \/ pc = "backup2" /\ Backup("rename")
    \/ pc = "dir" /\ left' = Nodes /\ Goto("nics") /\ UNCHANGED Beside
    \/ \E s \in Nodes, i \in Nics : MoveNic(s, i)
    \/ pc = "end" /\ Goto("load") /\ UNCHANGED <<left, Beside>>

\* The daemon loads the items, and makes the directories after that.
Loads ==
    /\ pc = "load" /\ pc' = "down" /\ nicdir' = TRUE
    /\ UNCHANGED <<doc, mem, at, left, mongo, modules, templates, file, nicfile,
                   backup, starts>>

MNext ==
    \/ Start \/ Killed \/ MigrateDocument \/ Migrate300 \/ Migrate301 \/ Migrate330
    \/ Migrate400 \/ Save400 \/ Collections400 \/ Loads

MSpec == MInit /\ [][MNext]_mvars

-----------------------------------------------------------------------------
\* No interface is lost between the file of its system and one of its own,
\* wherever the migration fails or is killed, and none is moved twice.  Only a kill
\* within a write takes the content of a file, and then a backup has it.
InterfaceKept ==
    \A i \in Nics :
        /\ nicfile[i] <= 1
        /\ i \in file[NodeOf[i]].holds \/ nicfile[i] = 1
           \/ (file[NodeOf[i]].torn /\ i \in backup)

\* A document that several schemas accept is migrated alike from each of them: the
\* order in which the modules were found decides neither whether the chain to the
\* last 3.3 ends, nor which keys the document has then, nor which of the
\* values of the user it keeps.
UserContent(d) == {<<k, d[k] = "custom">> : k \in DOMAIN d}
Outcome(v, d) == {UserContent(Normalize(V337, e)) : e \in Chain(v, d)}
DiscoveryConfluent ==
    [][starts = 0 /\ starts' = 1 =>
         \A v, w \in Discovered \ {V400} : Outcome(v, doc) = Outcome(w, doc)]_mvars
=============================================================================
