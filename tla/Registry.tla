-------------------------------- MODULE Registry --------------------------------
(***************************************************************************)
(* The modules a program knows.  REGISTER_MODULE() in a library makes two  *)
(* static objects: one tells the factory how to construct the module, the  *)
(* other gives the registry a function that returns its definition.  The   *)
(* registry calls these functions the first time it is asked something.    *)
(***************************************************************************)
EXTENDS Naturals, Sequences

CONSTANTS
    Programs,       \* what a program may be linked with: names in the order they register
    Libraries,      \* of the libraries load_modules() may load: the names of each
    InternalNames,       \* the names registered without an entry in the factory
    Malformed       \* the names of definitions that Build() refuses

NamesOf(list) == {list[i] : i \in DOMAIN list}

ASSUME RegistryAssumption ==
    /\ Programs \subseteq Seq(STRING) /\ Libraries \in [DOMAIN Libraries -> Seq(STRING)]
    /\ Malformed \subseteq STRING /\ InternalNames \subseteq STRING

VARIABLES
    linked,         \* what the program is linked with
    deferred,       \* the registrations the registry has not called yet
    initialized,
    registry,       \* the names it can find
    plugins,        \* the names the factory can construct
    loaded,         \* the libraries that were loaded
    broken          \* callDeferred() threw

registryVars == <<linked, deferred, initialized, registry, plugins, loaded, broken>>

\* When main() starts, static objects are constructed and no function is called.
RegistryInit ==
    /\ linked \in Programs
    /\ deferred = linked /\ initialized = FALSE /\ registry = {}
    /\ plugins = NamesOf(linked) \ InternalNames
    /\ loaded = {} /\ broken = FALSE

\* registerModuleWithLock() of the i-th name throws.
Fails(list, i) == list[i] \in Malformed \/ \E j \in 1..(i - 1) : list[j] = list[i]

\* callDeferred(): the first one that throws takes those after it along.
callDeferred ==
    IF initialized
    THEN UNCHANGED <<deferred, initialized, registry, broken>>
    ELSE /\ initialized' = TRUE
         /\ registry' = {deferred[i] : i \in {k \in DOMAIN deferred : \A j \in 1..k : ~Fails(deferred, j)}}
         /\ broken' = \E i \in DOMAIN deferred : Fails(deferred, i)
         /\ deferred' = IF broken' THEN deferred ELSE <<>>

callDeferredThrows == ~initialized /\ \E i \in DOMAIN deferred : Fails(deferred, i)

\* exportList(), when what it lists is of no interest.
exportList == callDeferred /\ UNCHANGED <<linked, plugins, loaded>>
Listed(ignoreInternal) == IF ignoreInternal THEN registry' \ InternalNames ELSE registry'

\* A library with a name that the factory or the registry has, or a definition
\* that is refused, ends the program: its static objects throw.  A registry
\* that was not asked yet only defers the calls.
Loadable(l) ==
    LET names == Libraries[l]
        made  == SelectSeq(names, LAMBDA n : n \notin InternalNames)
    IN  /\ NamesOf(made) \cap plugins = {}
        /\ \A i, j \in DOMAIN made : made[i] = made[j] => i = j
        /\ initialized => NamesOf(names) \cap registry = {} /\ \A i \in DOMAIN names : ~Fails(names, i)

\* Mutant: what registers late waits for a call that was already made.
registerLibraryLater(l) ==
    IF l \in loaded \/ l \notin DOMAIN Libraries
    THEN UNCHANGED registryVars
    ELSE /\ Loadable(l)
         /\ loaded' = loaded \cup {l}
         /\ plugins' = plugins \cup (NamesOf(Libraries[l]) \ InternalNames)
         /\ deferred' = deferred \o Libraries[l]
         /\ UNCHANGED <<linked, initialized, registry, broken>>

\* registerLibrary() of one that is there; of one that is already loaded, or
\* that cannot be opened, nothing is registered.
registerLibrary(l) ==
    IF l \in loaded \/ l \notin DOMAIN Libraries
    THEN UNCHANGED registryVars
    ELSE /\ Loadable(l)
         /\ loaded' = loaded \cup {l}
         /\ plugins' = plugins \cup (NamesOf(Libraries[l]) \ InternalNames)
         /\ IF initialized
            THEN registry' = registry \cup NamesOf(Libraries[l]) /\ UNCHANGED deferred
            ELSE deferred' = deferred \o Libraries[l] /\ UNCHANGED registry
         /\ UNCHANGED <<linked, initialized, broken>>

RegistryNext ==
    \/ exportList
    \/ \E l \in DOMAIN Libraries : registerLibrary(l)
RegistrySpec == RegistryInit /\ [][RegistryNext]_registryVars

-----------------------------------------------------------------------------
Known == NamesOf(linked) \cup UNION {NamesOf(Libraries[l]) : l \in loaded}

\* Once the registry was asked something without an exception, it finds every
\* module of every library the program has, whether it registered before or
\* after; and the factory can construct all those that are not internal.
RegistryIsComplete ==
    /\ initialized /\ ~broken => registry = Known
    /\ registry \ InternalNames \subseteq plugins
=============================================================================
