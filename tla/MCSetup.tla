-------------------------------- MODULE MCSetup --------------------------------
(***************************************************************************)
(* Configuration files for Setup: each module of the catalogue, declared   *)
(* in full, with what is required, and without each of its parameters; and *)
(* files about permutations, lazy values and what a program changes.       *)
(***************************************************************************)
EXTENDS Setup, LuaValues

-----------------------------------------------------------------------------
(* Specs written from what they mean                                       *)

Listing(S) == FoldSet(LAMBDA x, list : Append(list, x), <<>>, S)
Flags == Listing([{"optional", "many", "nested", "default"} -> BOOLEAN])
SpecNames == [i \in DOMAIN Flags |-> "Spec" \o ToString(i)]
If(b, text) == IF b THEN text ELSE <<>>

\* Of an attribute, `many' is for lists and `nested' for global ones.
SpecLines(f) ==
    <<Attr(Typed("set", "pset")),
      Attr(If(f.nested, <<"^">>) \o If(f.optional, <<"?">>)
           \o (IF f.many THEN ListOf("a", "double") ELSE Typed("a", "double")) \o If(f.default, <<"=", "1">>)),
      Input(If(f.optional, <<"?">>) \o If(f.many, <<"*">>) \o If(f.nested, <<"set", "/">>)
            \o <<"in">> \o If(f.default, <<"=", "x::y">>)),
      Output(If(f.optional, <<"?">>) \o If(f.many, <<"*">>) \o <<"out">>)>>
Meaning(name, f) ==
    LET absent == [optional |-> FALSE, default |-> "", list |-> FALSE, global |-> FALSE]
        given  == f.optional \/ f.default
    IN  [name |-> name, internal |-> FALSE, sticky |-> FALSE,
         attributes |-> <<[name |-> "set", type |-> "pset"] @@ absent,
                          [name |-> "a", type |-> "double", optional |-> given, list |-> f.many, global |-> f.nested,
                           default |-> IF f.default THEN "1" ELSE ""]>>,
         inputs |-> <<[name |-> "in", optional |-> given, many |-> f.many, nested |-> If(f.nested, <<"set">>),
                       default |-> IF f.default THEN "x::y" ELSE ""]>>,
         outputs |-> <<[name |-> "out", optional |-> f.optional, many |-> f.many, nested |-> <<>>, default |-> ""]>>]
OfSpec(name) == Flags[CHOOSE i \in DOMAIN Flags : SpecNames[i] = name]

MCLines == Modules @@ [n \in ToSet(SpecNames) |-> Entry(SpecLines(OfSpec(n)), {})]
    @@ [Extra |-> Entry(NamedInputs(<<"p">>), Tags({"p"})), Bad |-> Entry(<<Input(<<":">>)>>, {})]
MCMeant == [n \in ToSet(SpecNames) |-> Meaning(n, OfSpec(n))]

Core == Listing(Internal) \o Listing(DOMAIN Modules \ Internal)
MCPrograms == {Core \o SpecNames, Core \o <<"Bad">> \o SpecNames}
MCLibraries == [extra |-> <<"Extra">>, clash |-> <<"BlockA">>, bad |-> <<"Bad">>]

-----------------------------------------------------------------------------
(* Files                                                                   *)

Assign_(name, value)        == [op |-> "assign", name |-> name, value |-> value]
Declare_(of, name, value)   == [op |-> "declare", type |-> of, name |-> name, value |-> value]
Load(library)               == [op |-> "load", library |-> library]
DeclareInput_(name)         == [op |-> "input", name |-> name]
Permute(kind, names)        == [op |-> "permutations", kind |-> kind, names |-> names]
Integrand(tag)              == [op |-> "integrand", tag |-> tag]
Path_(elements)             == [op |-> "path", elements |-> elements]
File(statements)            == [injected |-> <<>>, statements |-> statements, changes |-> {}, freezes |-> 1]

Text(word)  == <<"string", <<word>>>>
Tag(m, p)   == <<"string", <<m, "::", p>>>>
Real(x)     == <<"real", x>>
Function(k, x) == <<"function", <<k, x>>>>
Energies    == Assign_("parameters", <<"fields", <<"energy", Real("13000")>>>>)
TheIntegrand == Integrand(<<"m", "::", "output">>)

OfType(a) ==
    CASE a.type = "double" -> IF a.list THEN <<"array", <<Real("1"), Real("2")>>>> ELSE Real("1")
      [] a.type = "int" -> <<"integer", "1">>
      [] a.type = "bool" -> <<"boolean", "true">>
      [] a.type = "string" -> Text("s")
      [] a.type = "path" -> <<"path", <<"m">>>>
      [] a.name = "particles" ->
            <<"table", [inputs |-> <<"array", <<Tag("a", "p4"), Tag("b", "p4")>>>>,
                        ids |-> <<"array", <<<<"table", [pdg_id |-> <<"integer", "11">>]>>>>>>]>>
      [] OTHER -> <<"table", [x |-> Real("1")]>>
OfInput(in) ==
    IF in.many THEN <<"array", <<Tag("a", "p4"), <<"string", <<"b", "::", "p4", "/", "2">>>>>>>> ELSE Tag("a", "p4")

Parameters(def) ==
    LET local == {a \in ToSet(def.attributes) : ~a.global}
        tags  == {in \in ToSet(def.inputs) : in.nested = <<>>}
    IN  [all |-> {x.name : x \in local \cup tags}, required |-> {x.name : x \in {y \in local \cup tags : ~y.optional}},
         value |-> [n \in {x.name : x \in local \cup tags} |->
                       IF \E a \in local : a.name = n THEN OfType(CHOOSE a \in local : a.name = n)
                       ELSE OfInput(CHOOSE in \in tags : in.name = n)]]
DeclarationFile(of, value, names) ==
    File(<<Energies, Declare_(of, "m", <<"table", [n \in names |-> value[n]]>>), TheIntegrand>>)
Named(pairs) == [n \in {x[1] : x \in pairs} |-> (CHOOSE x \in pairs : x[1] = n)[2]]
UserTypes == DOMAIN Modules \ Internal
Declarations ==
    UNION {LET p == Parameters(Definition[t])
           IN  {<<t \o " in full", DeclarationFile(t, p.value, p.all)>>,
                <<t \o " as required", DeclarationFile(t, p.value, p.required)>>}
               \cup {<<t \o " without " \o x, DeclarationFile(t, p.value, p.all \ {x})>> : x \in p.all} :
           t \in UserTypes}

Uniform(min) ==
    Declare_("UniformGenerator", "u",
             <<"fields", <<"ps_point", <<"add_dimension">>>>, <<"min", min>>, <<"max", Real("1")>>>>)

\* Up to two permutations of three particles.
Lists == {<<"a", "b">>, <<"b", "c">>, <<"c", "a", "b">>}
KindsOfLists == {<<k, l>> : k \in {"reco", "gen"}, l \in Lists}
WithPermutations(list) ==
    File(<<DeclareInput_("a"), DeclareInput_("b"), DeclareInput_("c")>>
         \o [i \in DOMAIN list |-> Permute(list[i][1], list[i][2])]
         \o <<Declare_("BuildInitialState", "m",
                       <<"fields", <<"particles", <<"list", <<"reco", "a">>, <<"gen", "b">>>>>>>>),
              Uniform(Real("0")), TheIntegrand>>)
Called_(list) == FoldLeft(LAMBDA t, x : t \o " " \o x[1] \o ToString(Len(x[2])) \o x[2][1], "permutations", list)
PermutationLists == {<<x>> : x \in KindsOfLists} \cup {<<x, y>> : x \in KindsOfLists, y \in KindsOfLists}
PermutationFiles == {<<Called_(l), WithPermutations(l)>> : l \in PermutationLists}

\* Values that follow global parameters, in a module and in the sets it holds.
Mass_(name) == Function("parameter", name)
Resonance == <<"fields", <<"mass", Mass_("m_top")>>, <<"width", Real("1")>>, <<"ps_point", <<"add_dimension">>>>>>
Process ==
    <<"fields", <<"initialState", Tag("m", "partons")>>, <<"matrix_element", Text("me")>>,
      <<"matrix_element_parameters", <<"table", [card |-> Text("c"), set |-> <<"table", [mt |-> Mass_("m_top")]>>]>>>>,
      <<"override_parameters", <<"table", [mdl_MT |-> Mass_("m_top")]>>>>,
      <<"use_pdf", <<"boolean", "false">>>>,
      <<"particles", <<"table", [inputs |-> <<"array", <<Tag("a", "p4")>>>>,
                                 ids |-> <<"array", <<<<"table", [pdg_id |-> Mass_("m_top")]>>,
                                                       <<"table", [me_index |-> Real("1")]>>>>>>]>>>>>>
TagValue(i) == <<"tag", [module |-> <<"a">>, parameter |-> <<"b">>, index |-> i]>>
Following ==
    [injected |-> [energy |-> <<"double", "1">>, shown |-> TagValue(2)],
     statements |-> <<Assign_("parameters", <<"fields", <<"energy", Real("13000")>>, <<"m_top", Real("173")>>>>),
                      Assign_("cuba", <<"fields", <<"seed", <<"integer", "5">>>>>>),
                      Declare_("BreitWignerGenerator", "t1", Resonance),
                      Declare_("BreitWignerGenerator", "t2", Resonance),
                      Declare_("MatrixElement", "me", Process), TheIntegrand>>,
     changes |-> {<<"parameters", "m_top", <<"double", "172">>>>, <<"parameters", "m_top", TagValue(0)>>,
                  <<"cuba", "seed", <<"string", <<"x", "::", "y", "/", "1", "::", "z">>>>>>,
                  <<"cuba", "verbosity", <<"int", "3">>>>,
                  <<"cuba", "batch", <<"vector of int", <<"1">>>>>>},
     freezes |-> 2]
\* The same without tables: the program makes them.
Unset == [Following EXCEPT !.statements = <<Declare_("UniformGenerator", "u",
              <<"fields", <<"ps_point", Tag("a", "b")>>, <<"min", Mass_("m_top")>>, <<"max", Real("1")>>>>),
              TheIntegrand>>]

\* A number where a table should be.
NoTable == [Unset EXCEPT !.statements = <<Assign_("parameters", Real("1"))>> \o @, !.freezes = 1]

Others ==
    {<<"following", Following>>, <<"unset", Unset>>, <<"no table", NoTable>>,
     <<"declared again", File(<<Uniform(Real("0")), Declare_("UniformGenerator", "u", Real("1")), TheIntegrand>>)>>,
     <<"no ids", File(<<Energies, Declare_("MatrixElement", "m",
            <<"table", [Parameters(Definition["MatrixElement"]).value EXCEPT
                           !.particles = <<"table", [inputs |-> <<"array", <<Tag("a", "p4")>>>>]>>]>>),
            TheIntegrand>>)>>,
     <<"no energy", File(<<Declare_("BlockG", "m", <<"table", Parameters(Definition["BlockG"]).value>>),
                            TheIntegrand>>)>>,
     <<"integer for a real", File(<<Uniform(<<"integer", "0">>), TheIntegrand>>)>>,
     <<"returns", File(<<Uniform(Function("returns", Real("1"))), TheIntegrand>>)>>,
     <<"returns a set", File(<<Uniform(Function("returns", <<"table", [x |-> Mass_("y")]>>)), TheIntegrand>>)>>,
     <<"returns nothing", File(<<Energies, Uniform(Mass_("none")), TheIntegrand>>)>>,
     <<"late dimension", File(<<Energies, Declare_("UniformGenerator", "u",
            <<"table", [ps_point |-> Function("add_dimension", "")]
                       @@ Parameters(Definition["UniformGenerator"]).value>>), TheIntegrand>>)>>,
     <<"mixed", File(<<Uniform(<<"array", <<Real("1"), <<"integer", "2">>, Real("3")>>>>), TheIntegrand>>)>>,
     <<"wrong array", File(<<Uniform(<<"array", <<Real("1"), Text("s")>>>>), TheIntegrand>>)>>,
     <<"empty array", File(<<Declare_("BuildInitialState", "m", <<"table", [particles |-> <<"table", <<>>>>]>>),
                              TheIntegrand>>)>>,
     <<"declared twice", File(<<Uniform(Real("0")), Uniform(Real("0")), TheIntegrand>>)>>,
     <<"permuted twice", File(<<DeclareInput_("a"), DeclareInput_("b"), Permute("reco", <<"a", "b">>),
                                 Permute("reco", <<"a", "b">>)>>)>>,
     <<"invalid name", File(<<Declare_("UniformGenerator", "1u", <<"table", <<>>>>)>>)>>,
     <<"not a table", File(<<Declare_("UniformGenerator", "u", Real("1"))>>)>>,
     <<"no such type", File(<<Declare_("Extra", "e", <<"table", <<>>>>)>>)>>,
     <<"shadowed", File(<<Assign_("BlockA", Real("1")), Assign_("BlockB", <<"table", <<>>>>),
                           Declare_("BlockB", "m", <<"table", <<>>>>), TheIntegrand>>)>>,
     <<"loaded", File(<<Load("extra"), Load("extra"), Load("nowhere"),
                         Declare_("Extra", "m", <<"table", [p |-> Tag("a", "p4")]>>), TheIntegrand>>)>>,
     <<"loaded late", File(<<Uniform(Real("0")), Assign_("Extra", <<"table", <<>>>>), Load("extra"),
                              Declare_("Extra", "m", <<"table", <<>>>>)>>)>>,
     <<"clash", File(<<Load("extra"), Load("clash")>>)>>, <<"bad", File(<<Load("bad")>>)>>,
     <<"path", File(<<Path_(<<"x">>),
                       Declare_("Looper", "m", <<"table", [solutions |-> Tag("a", "b"), path |-> <<"path", <<"x">>>>]>>),
                       TheIntegrand>>)>>,
     <<"empty path", File(<<Path_(<<>>)>>)>>, <<"no integrand", File(<<Uniform(Real("0"))>>)>>,
     <<"not a tag", File(<<Integrand(<<"m">>)>>)>>, <<"negative", File(<<Integrand(<<"m", "::", "x", "/", "0">>)>>)>>}

MCScripts == Named(Declarations \cup PermutationFiles \cup Others)
MCInvalidNames == {"1u"}
=============================================================================
