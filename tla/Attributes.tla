----------------------------- MODULE Attributes -----------------------------
(***************************************************************************)
(* The attributes of distros, images, profiles and systems.  An attribute  *)
(* is set by a setter that converts and checks it, is inherited from what  *)
(* is above the item or from the settings, and is written and read again   *)
(* by a start-up, which makes every item anew and calls its setters one by *)
(* one, in the order in which the attributes were defined.                 *)
(***************************************************************************)
EXTENDS Naturals, Sequences, FiniteSets
LOCAL INSTANCE SequencesExt

CONSTANTS
    Bootables,   \* the items
    SortOf,      \* [Bootables -> {"distro", "image", "profile", "system"}]
    FirstAbove,  \* what an item is below at the start; a distro is below NoBootable
    Places,      \* [Bootables -> what it may be moved below]
    NoBootable,
    Texts, Vals, \* values of an attribute, and of the key of a dictionary
    Inherit, Blanked, NoKey, Off, BuiltIn, Custom,
    FromSettings, \* the value in the settings
    Cannot,      \* the attribute cannot be resolved
    Platforms,   \* architectures
    LoadersFor,  \* [Platforms \X BOOLEAN -> sets of boot loaders]  and whether a
                 \* version is set that the signatures know
    Unasked,
    MaxEdits, MaxReloads   \* bounds on the edits and on the start-ups of a behaviour

\* Below a profile are only profiles that are below none themselves: see Rank.
ASSUME AttributesAssumption ==
    /\ NoBootable \notin Bootables
    /\ \A x \in Bootables : FirstAbove[x] \in Bootables \cup {NoBootable} /\ Places[x] \subseteq Bootables

VARIABLES
    up,       \* the items of the collections
    own,      \* own[x]: the attributes of item x
    above,    \* above[x]: the item it is below
    known,    \* known[x]: the supported boot loaders of a distro or an image, once asked for
    option,   \* the kernel option in the settings; never changes
    edits, reloads
avars == <<up, own, above, known, option, edits, reloads>>

Is(x, sort) == SortOf[x] = sort
Sub(x, ab) == Is(x, "profile") /\ ab[x] # NoBootable /\ Is(ab[x], "profile")

\* Which item has which attribute.  server stands for all that are inherited in the same
\* way, those of the options among them, and options for one key of the three dictionaries.
Scalars == {"server", "redhat_management_key", "proxy", "filename", "autoinstall"}
DistroScalars == {"redhat_management_key"}
ImageScalars == {"autoinstall"}
ProfileScalars == Scalars
SystemScalars == Scalars
Has(x, a) ==
    a \in CASE Is(x, "distro") -> DistroScalars  [] Is(x, "image") -> ImageScalars
            [] Is(x, "profile") -> ProfileScalars [] OTHER -> SystemScalars

NewBootable(x) ==
    [server |-> Inherit, redhat_management_key |-> Inherit, proxy |-> Inherit,
     filename |-> IF Is(x, "system") THEN Inherit ELSE Blanked, autoinstall |-> Inherit,
     options |-> NoKey, loaders |-> Inherit,
     arch |-> CHOOSE p \in Platforms : LoadersFor[p, FALSE] = UNION {LoadersFor[q, FALSE] : q \in Platforms},
     version |-> FALSE]

AInit ==
    /\ up = Bootables /\ above = FirstAbove
    /\ own = [x \in Bootables |->
                [NewBootable(x) EXCEPT !.filename = IF Sub(x, FirstAbove) THEN Inherit ELSE @]]
    /\ known = [x \in Bootables |-> Unasked]
    /\ option \in {NoKey} \cup Vals
    /\ edits = 0 /\ reloads = 0

-----------------------------------------------------------------------------
(* Inheritance.  The operators take the items as they are at some moment.  *)

Now == [own |-> own, above |-> above, known |-> known]

\* Only items of the same type are a parent; the conceptual parent is the item of another
\* type at the top of them.
RECURSIVE Conceptual(_, _)
Conceptual(m, x) ==
    IF m.above[x] = NoBootable THEN NoBootable
    ELSE IF SortOf[m.above[x]] # SortOf[x] THEN m.above[x] ELSE Conceptual(m, m.above[x])

\* An item that cannot resolve the attribute itself does not have it for those below.
RECURSIVE Resolve(_, _, _)
Resolve(m, x, a) ==
    LET mine == m.own[x][a]
        parent == Resolve(m, m.above[x], a)
        top == IF parent # Cannot THEN parent ELSE Resolve(m, Conceptual(m, x), a)
        given == IF top # Cannot THEN top ELSE IF a = "filename" THEN Cannot ELSE FromSettings IN
    IF x = NoBootable \/ ~Has(x, a) THEN Cannot ELSE
    CASE a = "filename" /\ Is(x, "system") /\ Is(m.above[x], "image") -> Blanked
      [] mine # Inherit -> mine
      [] a = "proxy" /\ (Is(x, "profile") \/ Is(m.above[x], "image")) -> FromSettings
      [] a = "autoinstall" /\ given = Blanked -> Cannot
      [] OTHER -> given

\* The settings are merged after what is above; a key with a mark removes the other.
RECURSIVE ResolveDict(_, _)
ResolveDict(m, x) ==
    LET base == IF m.above[x] = NoBootable THEN NoKey ELSE ResolveDict(m, m.above[x])
        merged == IF option # NoKey THEN option ELSE base IN
    CASE m.own[x].options = Off -> NoKey
      [] m.own[x].options = NoKey -> merged
      [] OTHER -> m.own[x].options

Supported(m, x) ==
    IF m.known[x] # Unasked THEN m.known[x] ELSE LoadersFor[m.own[x].arch, m.own[x].version]

RECURSIVE ResolveLoaders(_, _)
ResolveLoaders(m, x) ==
    IF m.own[x].loaders # Inherit THEN m.own[x].loaders
    ELSE IF SortOf[x] \in {"distro", "image"} THEN Supported(m, x)
    ELSE ResolveLoaders(m, m.above[x])

-----------------------------------------------------------------------------
(* Setters.                                                                 *)

\* A slip: the value is not compared.
DeduplicateKey(m, y, v) ==
    IF (IF y = NoBootable THEN option ELSE ResolveDict(m, y)) # NoKey THEN NoKey ELSE v
\* What is given above already is not stored.
Deduplicate(m, y, v) ==
    IF v = IF y = NoBootable THEN option ELSE ResolveDict(m, y) THEN NoKey ELSE v

\* A profile at the top has no file to inherit; elsewhere none means inherited.
Filename(x, v, parent) ==
    IF v \notin {Inherit, Blanked} THEN v
    ELSE IF Is(x, "system") \/ parent # NoBootable THEN Inherit ELSE Blanked

AboveOf(x) == IF Sub(x, above) THEN above[x] ELSE NoBootable

SetScalar(x, a, v) ==
    /\ Has(x, a)
    /\ a # "autoinstall" => v \notin {BuiltIn, Custom}
    /\ v = Blanked => a \in {"filename", "autoinstall"}
    /\ own' = [own EXCEPT ![x][a] =
                 IF a = "filename" THEN Filename(x, v, AboveOf(x)) ELSE v]
    /\ UNCHANGED <<above, known>>

SetOptions(x, v) ==
    /\ own' = [own EXCEPT ![x].options =
                 IF v \in {NoKey, Off} THEN v ELSE Deduplicate(Now, above[x], v)]
    /\ UNCHANGED <<above, known>>

\* A list has to be supported, or to be part of what is above; none and inherited are not
\* looked at.
SetLoaders(x, v) ==
    LET asked == SortOf[x] \in {"distro", "image"} /\ v \notin {Inherit, {}} IN
    /\ v # Inherit => v \subseteq IF SortOf[x] \in {"distro", "image"} THEN Supported(Now, x)
                                  ELSE ResolveLoaders(Now, above[x])
    /\ own' = [own EXCEPT ![x].loaders = v]
    /\ known' = IF asked THEN [known EXCEPT ![x] = Supported(Now, x)] ELSE known
    /\ UNCHANGED above

\* What is known to be supported stays.
SetArch(x, p, s) ==
    /\ SortOf[x] \in {"distro", "image"}
    /\ own' = [own EXCEPT ![x].arch = p, ![x].version = s]
    /\ UNCHANGED <<above, known>>

PutBelow(x, y) ==
    /\ y \in Places[x] \cap up /\ y # above[x]
    /\ above' = [above EXCEPT ![x] = y]
    /\ UNCHANGED <<own, known>>

\* A request sets an attribute and saves the item.
XapiObjectEdit(x) ==
    /\ x \in up /\ edits < MaxEdits
    /\ \/ \E a \in Scalars, v \in Texts \cup {Inherit, Blanked, BuiltIn, Custom} : SetScalar(x, a, v)
       \/ \E v \in Vals \cup {NoKey, Off} : SetOptions(x, v)
       \/ \E v \in {Inherit} \cup SUBSET UNION {LoadersFor[p, FALSE] : p \in Platforms} : SetLoaders(x, v)
       \/ \E p \in Platforms, s \in BOOLEAN : SetArch(x, p, s)
       \/ \E y \in Bootables : PutBelow(x, y)
    /\ own' # own \/ above' # above
    /\ edits' = edits + 1
    /\ UNCHANGED <<up, option, reloads>>

\* Somebody reads the boot loaders of an item that inherits them.
Asked(x) ==
    /\ x \in up /\ SortOf[x] \in {"distro", "image"}
    /\ own[x].loaders = Inherit /\ known[x] = Unasked
    /\ known' = [known EXCEPT ![x] = Supported(Now, x)]
    /\ UNCHANGED <<up, own, above, option, edits, reloads>>

-----------------------------------------------------------------------------
(* Start-up.                                                                *)

\* A slip: profiles before distros.
RankSwapped(x) ==
    CASE SortOf[x] \in {"distro", "image"} -> 4 [] Is(x, "system") -> 5
      [] OTHER -> IF Sub(x, above) THEN 3 ELSE 2
\* Profiles are loaded by their depth.
Rank(x) ==
    CASE Is(x, "distro") -> 1 [] Is(x, "image") -> 4 [] Is(x, "system") -> 5
      [] OTHER -> IF Sub(x, above) THEN 3 ELSE 2

\* A file holds what the item was given, nothing that it inherits.  A template that is not
\* built in is saved as a dictionary, which its setter refuses.
ToDict(x) == [own[x] EXCEPT !.autoinstall = IF @ = Custom THEN Cannot ELSE @]

\* The setters meet an item that has a parent of its type already, but not yet the distro,
\* the profile, the image or, in the case of a distro, the version it will have.
LoadsLoaders(m, x) ==
    LET offered == CASE Is(x, "distro") -> LoadersFor[m.own[x].arch, FALSE]
                     [] Is(x, "image")  -> LoadersFor[m.own[x].arch, m.own[x].version]
                     [] Sub(x, m.above) -> ResolveLoaders(m, m.above[x])
                     [] OTHER -> {} IN
    m.own[x].loaders # Inherit => m.own[x].loaders \subseteq offered
CanLoad(m, x) ==
    /\ m.above[x] = NoBootable \/ m.above[x] \in m.up
    /\ LoadsLoaders(m, x)
    /\ m.own[x].autoinstall # Cannot

FromDict(m, x) ==
    LET parent == IF Sub(x, m.above) THEN m.above[x] ELSE NoBootable IN
    [m.own[x] EXCEPT
        !.options = IF @ \in {NoKey, Off} THEN @ ELSE Deduplicate(m, parent, @),
        !.filename = IF Has(x, "filename") THEN Filename(x, @, parent) ELSE @]
Learned(m, x) ==
    IF SortOf[x] \notin {"distro", "image"} \/ m.own[x].loaders \in {Inherit, {}} THEN Unasked
    ELSE LoadersFor[m.own[x].arch, Is(x, "image") /\ m.own[x].version]

\* An item that cannot be made is skipped.
FromList(m, rank) ==
    LET made == {x \in up : Rank(x) = rank /\ CanLoad(m, x)} IN
    [m EXCEPT
        !.up = @ \cup made,
        !.own = [x \in Bootables |-> IF x \in made THEN FromDict(m, x) ELSE @[x]],
        !.known = [x \in Bootables |-> IF x \in made THEN Learned(m, x) ELSE @[x]]]

Deserialize ==
    /\ reloads < MaxReloads /\ reloads' = reloads + 1
    /\ LET m == FoldLeft(FromList, [own |-> [x \in Bootables |-> ToDict(x)], above |-> above, known |-> known, up |-> {}],
                         <<1, 2, 3, 4, 5>>) IN
       /\ up' = m.up
       /\ known' = m.known
       /\ own' = [x \in Bootables |-> IF x \in m.up THEN m.own[x] ELSE NewBootable(x)]
    /\ UNCHANGED <<above, option, edits>>

ANext == (\E x \in Bootables : XapiObjectEdit(x) \/ Asked(x)) \/ Deserialize

-----------------------------------------------------------------------------
RECURSIVE Upward(_)
Upward(x) == IF x = NoBootable THEN {} ELSE {x} \cup Upward(above[x])

\* Only boot loaders or a template of its own keep an item, and what is below it, out of
\* the collections after a start-up: no order of the collections, no other attribute.
StartupLosesOnly ==
    [][reloads' # reloads =>
        \A x \in up \ up' : \E y \in Upward(x) :
            own[y].loaders \notin {Inherit, {}} \/ own[y].autoinstall = Custom]_avars

\* Whatever an item resolved before a start-up it resolves after it: what is not stored
\* because it is given above is given again.  The exceptions are an option that the
\* settings have too, which win against a profile above, and boot loaders that
\* were asked for before the architecture changed.
StartupKeepsValues ==
    [][reloads' # reloads =>
        \A x \in up' :
            /\ \A a \in Scalars : Resolve(Now, x, a) # Cannot => Resolve(Now', x, a) = Resolve(Now, x, a)
            /\ option = NoKey \/ ~Sub(x, above) => ResolveDict(Now', x) = ResolveDict(Now, x)
            /\ (\A y \in Upward(x) : known[y] \in {Unasked, LoadersFor[own[y].arch, own[y].version]})
                => ResolveLoaders(Now', x) = ResolveLoaders(Now, x)]_avars
=============================================================================
