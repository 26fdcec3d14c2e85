--------------------------------- MODULE Setup ---------------------------------
(***************************************************************************)
(* From a configuration file to a MoMEMta: the registry fills the lua      *)
(* state, the statements of the file declare modules, inputs, dimensions   *)
(* and integrands, ConfigurationReader reads what they left, the program   *)
(* changes parameters and freezes, and MoMEMta validates and constructs.   *)
(* Sets of parameters live in a heap: a configuration has their addresses, *)
(* and only a clone is another set.                                        *)
(***************************************************************************)
EXTENDS Registry, ParameterSets, Catalogue

CONSTANTS
    Lines,          \* what each module that can be registered says and reads (module Catalogue)
    InvalidNames,   \* the names that are not [a-zA-Z][a-zA-Z0-9_]*
    Meant,          \* what some definitions were written to mean
    Scripts,        \* the configuration files and what a program does with each, see below
    MaxChanges,     \* of parameters that a program makes
    Eval(_, _),     \* what lua makes of an expression of a file in its state: [value, calls]
    to_any(_),      \* the C++ value of a lua one
    freeze_value(_, _)  \* what freezing makes, in a lua state, of a value that may hold sets: [value, calls]

\* A script is [injected, statements, changes, freezes]: the parameters given to
\* the reader, the file, the <<table, name, C++ value>> the program may set, and
\* how often it freezes.  A statement is [op, ...], see Exec below.  `calls' are those
\* of add_dimension(), the only ones that change lua or the configuration.

ASSUME SetupAssumption == MaxChanges \in Nat

\* A program changes global parameters and options of cuba, the tables of lua
\* that are not those of a module.
Tables == {"parameters", "cuba"}
ASSUME TablesAssumption ==
    /\ \A name \in DOMAIN Scripts : \A change \in Scripts[name].changes : change[1] \in Tables
    /\ \A program \in Programs : NamesOf(program) \cap Tables = {}
    /\ \A l \in DOMAIN Libraries : NamesOf(Libraries[l]) \cap Tables = {}

\* The internal modules are in the library a program is linked with, whose
\* static objects are constructed before its own.
ASSUME CoreComesFirst ==
    \A program \in Programs : \A n \in Internal :
        \E i \in DOMAIN program : program[i] = n /\ \A j \in 1..i : ~Fails(program, j)

VARIABLES
    pc,             \* "started", "script", "read", or how it ended
    script, at,     \* the file, and the statement it is at
    lua,            \* globals, types (of the global tables that declare), inputs, dimension
    config,         \* of the reader
    heap,           \* the sets of parameters
    asked,          \* what the program set, by table and name
    frozen,         \* the configurations that were frozen: [config, asked, calls]
    built           \* the last MoMEMta: [of, outcome, missing, mistyped]

vars == <<pc, script, at, lua, config, heap, asked, frozen, built, registryVars>>

Definition == [n \in DOMAIN Lines |-> Build(n, Lines[n].lines)]

\* The parameters a constructor needs that its definition does not ask for.
Undeclared ==
    {<<"BlockA", "branches">>, <<"MatrixElement", "pdf">>, <<"MatrixElement", "pdf_scale">>, <<"MatrixElement", "ids">>}

\* Of all the others, a definition has an input or an attribute that is not
\* optional, or an attribute that is global; internal modules read nothing.
AsksFor(def, read) ==
    \/ \E i \in DOMAIN def.attributes :
          LET a == def.attributes[i] IN a.name = read.name /\ (a.global \/ (~a.optional /\ read.in = <<>>))
    \/ \E i \in DOMAIN def.inputs :
          LET in == def.inputs[i] IN in.name = read.name /\ ~in.optional /\ in.nested = read.in
ASSUME LinesAssumption ==
    /\ \A program \in Programs : NamesOf(program) \subseteq DOMAIN Lines
    /\ \A l \in DOMAIN Libraries : NamesOf(Libraries[l]) \subseteq DOMAIN Lines
    /\ \A n \in DOMAIN Lines : \A r \in Lines[n].reads :
           ~Definition[n].internal /\ (r.default \/ <<n, r.name>> \in Undeclared \/ AsksFor(Definition[n], r))

NoScript == [injected |-> <<>>, statements |-> <<>>, changes |-> {}, freezes |-> 0]
NoConfiguration == [modules |-> <<>>, integrands |-> <<>>, paths |-> <<>>, n_dimensions |-> 0, inputs |-> <<>>,
                    global |-> 0, cuba |-> 0]

Init ==
    /\ RegistryInit
    /\ pc = "started" /\ script = NoScript /\ at = 1
    /\ lua = [globals |-> <<>>, types |-> {}, inputs |-> <<>>, dimension |-> 1]
    /\ config = NoConfiguration /\ heap = <<>> /\ asked = <<>> /\ frozen = <<>>
    /\ built = [of |-> 0, outcome |-> "none", missing |-> {}, mistyped |-> {}]

-----------------------------------------------------------------------------
(* The lua side                                                            *)

Over(new, old) == new @@ old

\* register_modules(): a global table for each module, unless there is a
\* global of that name.
register_modules(l, names) ==
    LET new == names \ DOMAIN l.globals
    IN  [l EXCEPT !.globals = Over([n \in new |-> <<"table", <<>>>>], @), !.types = @ \cup new]

\* inject_parameters()
inject_parameters(l, parameters) ==
    [l EXCEPT !.globals = Over([n \in DOMAIN parameters |-> push_any(parameters[n])], @)]

\* init_runtime() and inject_parameters(); a program that catches what the
\* registry throws may try again.
Start(name) ==
    /\ pc = "started"
    /\ exportList
    /\ IF callDeferredThrows
       THEN UNCHANGED <<pc, script, lua>>
       ELSE /\ pc' = "script" /\ script' = Scripts[name]
            /\ lua' = inject_parameters(register_modules(lua, Listed(TRUE)), Scripts[name].injected)
    /\ UNCHANGED <<at, config, heap, asked, frozen, built>>

\* Every call of add_dimension() counts one in the configuration.
Counted(c, calls) == [c EXCEPT !.n_dimensions = @ + calls]

\* module_table_newindex(), which lua calls for a name the table does not have;
\* the name of another module of the type is assigned without it.
IsNew(l, of, name) == of \in l.types /\ Field(l.globals[of], name) = Nil
Declared(l, c, of, name, table) ==
    IF ~IsNew(l, of, name)
    THEN [lua |-> SetField(l, of, name, table), config |-> c]
    ELSE LET named == WithField(WithField(table, "@name", <<"string", <<name>>>>), "@type", <<"string", <<of>>>>)
         IN  [lua |-> SetField(l, of, name, named),
              config |-> [c EXCEPT !.modules = Append(@, [type |-> of, name |-> name, parameters |-> 0])]]

InputTable(name) == [reco_p4 |-> <<name, "::", "p4">>, gen_p4 |-> <<name, "::", "p4">>]

\* The module that add_reco_permutations() and add_gen_permutations() declare.
PermutatorOf(kind, names) ==
    FoldLeft(LAMBDA text, i : text \o names[i] \o (IF i = Len(names) THEN "" ELSE "_and_"),
             "permutate_" \o kind \o "_", [i \in DOMAIN names |-> i])
OutputOf(module, i) == <<module, "::", "output", "/", Numerals[i]>>
Permutate(l, c, kind, names) ==
    LET inputs == [i \in DOMAIN names |-> <<"string", IF kind = "reco" THEN l.inputs[names[i]].reco_p4
                                                      ELSE l.inputs[names[i]].gen_p4>>]
        table  == <<"table", [ps_point |-> NextDimension(l), inputs |-> <<"array", inputs>>]>>
    IN  Declared(Calling(l, 1), Counted(c, 1), "Permutator", PermutatorOf(kind, names), table)

\* Mutant: every input is redirected to the first output.
RedirectedToFirst(l, kind, names) ==
    [l EXCEPT !.inputs = [n \in DOMAIN @ |->
        IF n \notin ToSet(names) THEN @[n]
        ELSE LET to == OutputOf(PermutatorOf(kind, names), 1)
             IN  IF kind = "reco" THEN [reco_p4 |-> to, gen_p4 |-> to] ELSE [@[n] EXCEPT !.gen_p4 = to]]]

\* The inputs are now the outputs of the Permutator; those of the generated
\* particles follow those of the reconstructed ones.
Redirected(l, kind, names) ==
    [l EXCEPT !.inputs = [n \in DOMAIN @ |->
        IF n \notin ToSet(names) THEN @[n]
        ELSE LET to == OutputOf(PermutatorOf(kind, names), SelectInSeq(names, LAMBDA m : m = n))
             IN  IF kind = "reco" THEN [reco_p4 |-> to, gen_p4 |-> to] ELSE [@[n] EXCEPT !.gen_p4 = to]]]
-----------------------------------------------------------------------------
(* The statements of the file.  An error of lua ends the reading of it.    *)

Statement == script.statements[at]
Reached(op) == pc = "script" /\ at <= Len(script.statements) /\ Statement.op = op
Outside == UNCHANGED <<script, heap, asked, frozen, built>>

Goes(error, l, c) ==
    IF error THEN pc' = "refused" /\ UNCHANGED <<at, lua, config>>
    ELSE at' = at + 1 /\ lua' = l /\ config' = c /\ UNCHANGED pc

\* load_modules()
LoadModules ==
    /\ Reached("load")
    /\ Outside
    /\ UNCHANGED config
    /\ IF Statement.library \in DOMAIN Libraries \ loaded /\ ~Loadable(Statement.library)
       THEN pc' = "terminated" /\ UNCHANGED <<at, lua, registryVars>>
       ELSE /\ registerLibrary(Statement.library)
            /\ lua' = register_modules(lua, Listed(TRUE))
            /\ at' = at + 1
            /\ UNCHANGED pc

\* `Type.name = value'; the raw set of a name in a value that is no table is
\* undefined behaviour in lua: the program ends.
Declare ==
    LET s == Statement
        r == Eval(lua, s.value)
        d == Declared(Calling(lua, r.calls), Counted(config, r.calls), s.type, s.name, r.value)
    IN  /\ Reached("declare")
        /\ IF s.type \in DOMAIN lua.globals /\ IsNew(lua, s.type, s.name) /\ s.name \notin InvalidNames
              /\ r.value[1] # "table"
           THEN pc' = "terminated" /\ UNCHANGED <<at, lua, config>>
           ELSE Goes(s.type \notin DOMAIN lua.globals \/ (IsNew(lua, s.type, s.name) /\ s.name \in InvalidNames),
                     d.lua, d.config)
        /\ Outside /\ UNCHANGED registryVars

\* `name = value', for `parameters' and `cuba' above all
Assign ==
    LET r == Eval(lua, Statement.value)
    IN  /\ Reached("assign")
        /\ Goes(FALSE,
                [Calling(lua, r.calls) EXCEPT !.globals = With(@, Statement.name, r.value),
                                              !.types = @ \ {Statement.name}],
                Counted(config, r.calls))
        /\ Outside /\ UNCHANGED registryVars

\* declare_input()
DeclareInput ==
    /\ Reached("input")
    /\ Goes(FALSE, [lua EXCEPT !.inputs = With(@, Statement.name, InputTable(Statement.name))],
            [config EXCEPT !.inputs = Append(@, Statement.name)])
    /\ Outside /\ UNCHANGED registryVars

\* add_reco_permutations() and add_gen_permutations()
AddPermutations ==
    LET s == Statement
        d == Permutate(lua, config, s.kind, s.names)
    IN  /\ Reached("permutations")
        /\ Goes("Permutator" \notin DOMAIN lua.globals \/ ~IsNew(lua, "Permutator", PermutatorOf(s.kind, s.names)),
                Redirected(d.lua, s.kind, s.names), d.config)
        /\ Outside /\ UNCHANGED registryVars

\* set_final_module(), `integrand' in lua
SetFinalModule ==
    /\ Reached("integrand")
    /\ Goes(~isInputTag(Statement.tag), lua,
            [config EXCEPT !.integrands = Append(@, fromString(Statement.tag))])
    /\ Outside /\ UNCHANGED registryVars

\* path_new(); the path itself is a value that a Looper is given.
NewPath ==
    /\ Reached("path")
    /\ Goes(Statement.elements = <<>>, lua, [config EXCEPT !.paths = Append(@, Statement.elements)])
    /\ Outside /\ UNCHANGED registryVars

Exec == LoadModules \/ Declare \/ Assign \/ DeclareInput \/ AddPermutations \/ SetFinalModule \/ NewPath

\* The rest of the constructor of ConfigurationReader.  lua_next() of what is no
\* table ends the program.
Declaration(l, m) == Field(Global(l, m.type), m.name)
ReadConfiguration ==
    LET n == Len(config.modules)
        Table(i) == Declaration(lua, config.modules[i])
        sets == [i \in 1..n |-> parse(Table(i)[2], to_any)]
    IN  /\ pc = "script" /\ at > Len(script.statements)
        /\ IF \E i \in 1..n : Table(i)[1] # "table"
           THEN pc' = "terminated" /\ UNCHANGED <<heap, config>>
           ELSE IF \E i \in 1..n : ~IsParsed(sets[i])
           THEN pc' = "refused" /\ UNCHANGED <<heap, config>>
           ELSE /\ pc' = "read"
                /\ heap' = <<LazyTable(lua, "parameters"), LazyTable(lua, "cuba")>> \o sets
                /\ config' = [config EXCEPT !.global = 1, !.cuba = 2,
                                 !.modules = [i \in DOMAIN @ |-> [@[i] EXCEPT !.parameters = i + 2]]]
        /\ UNCHANGED <<script, at, lua, asked, frozen, built, registryVars>>

-----------------------------------------------------------------------------
(* What the program does with it                                           *)

\* Mutants: the element is given the value itself; or nothing but a new element
\* is given one.
SetInPlace(l, pset, where, name, v) ==
    [lua |-> l, pset |-> [pset EXCEPT !.set = With(@, name, [value |-> v, lazy |-> FALSE])]]
SetOnlyNew(l, pset, where, name, v) ==
    [lua  |-> IF Exists(pset, name) THEN l ELSE SetField(l, where, name, push_any(v)),
     pset |-> Emplaced(pset, name, <<"field", where, name>>, TRUE)]

\* Set by LazyTable: the element stands for a field of the global table, and
\* the field is what changes.
Set(l, pset, where, name, v) ==
    [lua  |-> SetField(l, where, name, push_any(v)),
     pset |-> Emplaced(pset, name, <<"field", where, name>>, TRUE)]

\* ParameterSet::set() of what getGlobalParameters() or getCubaConfiguration()
\* return.  To set a field of what is no table ends the program.
AddressOf(c, where) == IF where = "parameters" THEN c.global ELSE c.cuba
SetParameter(where, name, v) ==
    LET address == AddressOf(config, where)
        done    == Set(lua, heap[address], where, name, v)
    IN  /\ pc = "read" /\ Len(asked) < MaxChanges
        /\ IF heap[address].frozen \/ push_any(v) = Throws
           THEN pc' = "refused" /\ UNCHANGED <<lua, heap, asked>>
           ELSE IF Global(lua, where) # Nil /\ Global(lua, where)[1] # "table"
           THEN pc' = "terminated" /\ UNCHANGED <<lua, heap, asked>>
           ELSE /\ lua' = done.lua /\ heap' = [heap EXCEPT ![address] = done.pset]
                /\ asked' = Append(asked, <<where, name, v>>)
                /\ UNCHANGED pc
        /\ UNCHANGED <<script, at, config, frozen, built, registryVars>>

\* Mutant: the copy has the addresses of the original.
CopyOfAddresses(c, h) == [config |-> c, heap |-> h]

\* The copy constructor of Configuration clones every set.
Copy(c, h) ==
    LET n == Len(h)
    IN  [heap |-> h \o <<h[c.global], h[c.cuba]>> \o [i \in DOMAIN c.modules |-> h[c.modules[i].parameters]],
         config |-> [c EXCEPT !.global = n + 1, !.cuba = n + 2,
                              !.modules = [i \in DOMAIN @ |-> [@[i] EXCEPT !.parameters = n + 2 + i]]]]

\* freeze() of the sets at some addresses, one after the other, and then
\* setGlobalParameters() for those of modules.
freeze(l, pset) == ParameterSet_freeze(l, pset, to_any, freeze_value)
FreezeOne(l, before, a) ==
    LET f == freeze(Calling(l, before.calls), before.heap[a])
    IN  [heap |-> [before.heap EXCEPT ![a] = f.pset], calls |-> before.calls + f.calls, ok |-> before.ok /\ f.ok]
FrozenAt(l, h, addresses) ==
    LET done[k \in 0..Len(addresses)] ==
            IF k = 0 THEN [heap |-> h, calls |-> 0, ok |-> TRUE] ELSE FreezeOne(l, done[k - 1], addresses[k])
    IN  done[Len(addresses)]
WithGlobals(h, c) ==
    [a \in DOMAIN h |-> IF \E i \in DOMAIN c.modules : c.modules[i].parameters = a
                        THEN Emplaced(h[a], "@global_parameters", <<"pset", h[c.global]>>, FALSE)
                        ELSE h[a]]

\* The internal modules that freeze() adds, each with a set of its own.
WithInternals(h, c) ==
    LET empty == PSet(<<>>)
        integrands == Emplaced(empty, "integrands", <<"vector of tag", c.integrands>>, FALSE)
        new == <<<<"_met", "met", empty>>, <<"_cuba", "cuba", empty>>>>
               \o [i \in DOMAIN c.inputs |-> <<"_input", c.inputs[i], empty>>]
               \o <<<<"_momemta", "momemta", integrands>>>>
    IN  [heap |-> h \o [i \in DOMAIN new |-> new[i][3]],
         config |-> [c EXCEPT !.modules = @ \o [i \in DOMAIN new |->
                        [type |-> new[i][1], name |-> new[i][2], parameters |-> Len(h) + i]]]]

\* What freeze() makes of a copy, and then of the reader: what a lazy value does
\* to the lua state, it does to the reader, not to what is returned.
FrozenCopy(copy) ==
    FrozenAt(lua, copy.heap, <<copy.config.global, copy.config.cuba>>
                             \o [i \in DOMAIN copy.config.modules |-> copy.config.modules[i].parameters])
FrozenAs(c, done) ==
    /\ lua' = Calling(lua, done.calls)
    /\ config' = Counted(config, done.calls)
    /\ IF done.ok
       THEN \E full \in {WithInternals(WithGlobals(done.heap, c), c)} :
               /\ heap' = full.heap
               /\ frozen' = Append(frozen, [config |-> full.config, asked |-> asked, calls |-> done.calls])
               /\ UNCHANGED pc
       ELSE pc' = "refused" /\ UNCHANGED <<heap, frozen>>

\* ConfigurationReader::freeze()
Freeze ==
    /\ pc = "read" /\ Len(frozen) < script.freezes
    /\ \E copy \in {Copy(config, heap)} : \E done \in {FrozenCopy(copy)} : FrozenAs(copy.config, done)
    /\ UNCHANGED <<script, at, asked, built, registryVars>>

-----------------------------------------------------------------------------
(* MoMEMta                                                                 *)

\* Mutant: internal modules are left out of the list.
AvailableToUsers == Listed(TRUE)
Available == Listed(FALSE)

\* A read of a constructor, in the sets it leads to.
Made(read, pset) == read.unless = "" \/ ~Exists(pset, read.unless) \/ Get(pset, read.unless)[2] # "false"
NotThere(read, pset) ==
    Made(read, pset) /\ ~read.default /\ \A s \in findPSet(read.in, pset) : ~Exists(s, read.name)
OfAnotherType(read, pset) ==
    Made(read, pset) /\ \E s \in findPSet(read.in, pset) : Exists(s, read.name) /\ ~ExistsAs(s, read.name, read.type)

\* The tags of an input that is not nested.
TagsOf(input, pset) ==
    IF input.nested # <<>> \/ ~Exists(pset, input.name) THEN <<>>
    ELSE LET v == Get(pset, input.name)
         IN  CASE v[1] = "tag" -> <<v[2]>> [] v[1] = "vector of tag" -> v[2] [] OTHER -> <<>>
DimensionsOf(of, pset) ==
    UNION {{t.index : t \in {u \in ToSet(TagsOf(Definition[of].inputs[i], pset)) : IsDimension(u)}} :
              i \in DOMAIN Definition[of].inputs}

\* setInputTagsForInput(): when a dimension is not used, the others are given
\* new indices (GraphBuilder says which; here, those of modules with one each).
Renewed(v, used) ==
    LET New(t) == IF IsDimension(t) THEN [t EXCEPT !.index = Cardinality({j \in used : j <= t.index})] ELSE t
    IN  CASE v[1] = "tag" -> <<v[1], New(v[2])>>
          [] v[1] = "vector of tag" -> <<v[1], [i \in DOMAIN v[2] |-> New(v[2][i])]>>
          [] OTHER -> v
PlainInputs(of) == {input.name : input \in {in \in ToSet(Definition[of].inputs) : in.nested = <<>>}}
Reindexed(of, pset, used) ==
    LET inputs == PlainInputs(of)
    IN  [pset EXCEPT !.set = [n \in DOMAIN @ |->
            IF n \in inputs THEN [@[n] EXCEPT !.value = Renewed(@, used)] ELSE @[n]]]

\* What the constructor finds in the modules of a copy; `kept' are those the
\* graph builder keeps, any of those that are not internal.
At(c, h, i) == h[c.modules[i].parameters]
UsedBy(c, h, kept) == UNION {DimensionsOf(c.modules[i].type, At(c, h, i)) : i \in kept}
ReindexedHeap(c, h, kept, used) ==
    [a \in DOMAIN h |-> IF \E i \in kept : c.modules[i].parameters = a
                        THEN Reindexed(c.modules[CHOOSE k \in kept : c.modules[k].parameters = a].type, h[a], used)
                        ELSE h[a]]
Validated(def, pset) == def.internal \/ validateModuleParameters(def, pset)
Readable(def, pset)  == \A j \in DOMAIN def.inputs : InputTagsCanBeRead(def.inputs[j], pset)
InAll(c, h, Holds(_, _)) == \A i \in DOMAIN c.modules : Holds(Definition[c.modules[i].type], At(c, h, i))
Reads(c, h, kept, P(_, _)) ==
    UNION {{<<c.modules[i].type, r.name>> : r \in {x \in Lines[c.modules[i].type].reads : P(x, At(c, h, i))}} :
              i \in kept}
Outcome(c, h, failed) ==
    IF \E i \in DOMAIN c.modules : c.modules[i].type \notin Available THEN "unknown type"
    ELSE IF ~InAll(c, h, Validated) THEN "invalid"
    ELSE IF c.integrands = <<>> THEN "no integrand"
    ELSE IF ~InAll(c, h, Readable) THEN "unreadable"
    ELSE IF failed THEN "failed" ELSE "built"

\* The constructor of MoMEMta on a frozen configuration, of which it makes a copy.
ConstructFrom(f, c, h, kept, missing, mistyped, used, outcome) ==
    IF outcome \in {"failed", "built"}
    THEN /\ built' = [of |-> f, outcome |-> outcome, missing |-> missing, mistyped |-> mistyped]
         /\ heap' = IF Cardinality(used) < c.n_dimensions THEN ReindexedHeap(c, h, kept, used) ELSE h
    ELSE /\ built' = [of |-> f, outcome |-> outcome, missing |-> {}, mistyped |-> {}]
         /\ heap' = h
Construct(f, kept) ==
    /\ exportList
    /\ \E copy \in {Copy(frozen[f].config, heap)} :
          LET c == copy.config
              h == copy.heap
          IN  \E missing \in {Reads(c, h, kept, NotThere)}, mistyped \in {Reads(c, h, kept, OfAnotherType)},
                 used \in {UsedBy(c, h, kept)} :
                 \E outcome \in {Outcome(c, h, missing \cup mistyped # {})} :
                    ConstructFrom(f, c, h, kept, missing, mistyped, used, outcome)
    /\ UNCHANGED <<pc, script, at, lua, config, asked, frozen>>

Next ==
    \/ \E name \in DOMAIN Scripts : Start(name)
    \/ Exec \/ ReadConfiguration \/ Freeze
    \/ pc = "read" /\ \E change \in script.changes : SetParameter(change[1], change[2], change[3])
    \/ /\ pc = "read" /\ built.of < Len(frozen)
       /\ \E kept \in SUBSET DOMAIN config.modules : Construct(built.of + 1, kept)

Spec == Init /\ [][Next]_vars

-----------------------------------------------------------------------------
(* Properties                                                              *)

\* A registered definition says of each input, output and attribute what the
\* signs of its spec were written for.
DefinitionsAreAsDocumented == \A n \in registry \cap DOMAIN Meant : Definition[n] = Meant[n]

\* The exception that "is not supposed to be possible" is not: a type that lua
\* let a file declare, at any time, is in the list modules are validated with,
\* and so are the internal ones that freeze() adds.
TypesAreKnown == built.outcome # "unknown type"

\* A declaration that was validated against its definition has all that the
\* constructor of the module reads without a default, but for parameters that
\* are global (they are not validated) and those above.
ValidatedIsConstructed ==
    \A m \in built.missing :
        \/ m \in Undeclared
        \/ \E i \in DOMAIN Definition[m[1]].attributes :
              Definition[m[1]].attributes[i].global /\ Definition[m[1]].attributes[i].name = m[2]

Addresses(c) == {c.global, c.cuba} \cup {c.modules[i].parameters : i \in DOMAIN c.modules}

\* What the program does next (other changes, other copies, a MoMEMta that gives
\* new indices to dimensions) leaves a frozen configuration as it is.
FrozenIsFinal ==
    [][\A f \in DOMAIN frozen : \A a \in Addresses(frozen[f].config) : heap'[a] = heap[a]]_vars

\* A parameter that a file gives as parameter('x') has, in each configuration,
\* the value that the global parameter x has there, whenever it was frozen and
\* whatever was set before or after.
FollowsGlobal(table) == {k \in DOMAIN table[2] : table[2][k][1] = "function" /\ table[2][k][2][1] = "parameter"}
FrozenIsOfOneMoment ==
    \A f \in DOMAIN frozen : \A i \in DOMAIN config.modules :
        LET table  == Declaration(lua, config.modules[i])
            set    == heap[frozen[f].config.modules[i].parameters]
            global == heap[frozen[f].config.global]
            x(k)   == table[2][k][2][2]
        IN  \A k \in FollowsGlobal(table) : Exists(global, x(k)) => Get(set, k) = Get(global, x(k))

\* What the program set last before it froze a configuration is what that
\* configuration has: of its type, or a tag if it looks like one.
LastAsked(list, where, name) ==
    {list[i][3] : i \in {j \in DOMAIN list : list[j][1] = where /\ list[j][2] = name
                              /\ \A k \in (j + 1)..Len(list) : list[k][1] # where \/ list[k][2] # name}}
SetIsRead ==
    \A f \in DOMAIN frozen : \A i \in DOMAIN frozen[f].asked :
        LET where == frozen[f].asked[i][1]  name == frozen[f].asked[i][2]
            set == heap[AddressOf(frozen[f].config, where)]
        IN  \A v \in LastAsked(frozen[f].asked, where, name) : Get(set, name) = to_any(push_any(v))

\* The input that a tag stands for when every Permutator keeps the order.
Leaf(c, tag) ==
    LET Is(t, m) == m.type = "Permutator" /\ <<m.name>> = t.module
        Through(t) ==
            IF \E m \in ToSet(c.modules) : Is(t, m)
            THEN LET m == CHOOSE x \in ToSet(c.modules) : Is(t, x)
                 IN  Get(heap[m.parameters], "inputs")[2][t.index]
            ELSE t
        after[k \in 0..Len(c.modules)] == IF k = 0 THEN tag ELSE Through(after[k - 1])
    IN  after[Len(c.modules)].module[1]
SharedOut(c, which) ==
    LET Of(n) == Leaf(c, fromString(IF which = "reco" THEN lua.inputs[n].reco_p4 ELSE lua.inputs[n].gen_p4))
    IN  {Of(n) : n \in DOMAIN lua.inputs} = DOMAIN lua.inputs

\* Generated particles are permuted after the reconstructed ones they follow.
GenAfterReco(statements) ==
    \A i, j \in DOMAIN statements :
        /\ i < j /\ statements[i].op = "permutations" /\ statements[j].op = "permutations"
        /\ statements[i].kind = "gen" /\ statements[j].kind = "reco"
        => ToSet(statements[i].names) \cap ToSet(statements[j].names) = {}

\* However permutations are combined, the tags a file is left with share out
\* the particles of the event: each of them is that of one input, once.
ParticlesAreSharedOut ==
    \A f \in DOMAIN frozen :
        /\ SharedOut(frozen[f].config, "reco")
        /\ GenAfterReco(script.statements) => SharedOut(frozen[f].config, "gen")

\* Two calls of add_dimension() never give the same dimension, and the number
\* of dimensions counts them all, if they were made before the file was read.
DimensionsAreCounted ==
    \A f \in DOMAIN frozen :
        LET c == frozen[f].config
            Dimensions(i) == DimensionsOf(c.modules[i].type, heap[c.modules[i].parameters])
        IN  frozen[f].calls = 0 =>
               \A i \in DOMAIN c.modules :
                  /\ Dimensions(i) \subseteq 1..c.n_dimensions
                  /\ \A j \in DOMAIN c.modules \ {i} : Dimensions(i) \cap Dimensions(j) = {}
=============================================================================
