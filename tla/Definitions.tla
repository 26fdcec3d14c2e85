------------------------------ MODULE Definitions ------------------------------
(***************************************************************************)
(* The definition of a module: what REGISTER_MODULE() says of its inputs,  *)
(* outputs and attributes (ModuleDefBuilder), how these specs are parsed,  *)
(* and what validateModules() asks of the parameters of a declaration.     *)
(* A spec is the sequence of its words and of the signs between them;      *)
(* spaces do not appear: the code skips them, but not after `list(...)'.   *)
(***************************************************************************)
EXTENDS Integers, Sequences, FiniteSets, FiniteSetsExt, SequencesExt, TLC

Signs == {"?", "*", "^", "/", ":", "=", "(", ")", "[", "]", ","}
IsWord(t) == t \notin Signs

Begins(spec, sign)  == spec # <<>> /\ spec[1] = sign
Without(spec, sign) == IF Begins(spec, sign) THEN Tail(spec) ELSE spec
\* Scanner::Any() captures one word or nothing.
Word(spec)      == IF spec # <<>> /\ IsWord(spec[1]) THEN spec[1] ELSE ""
AfterWord(spec) == IF spec # <<>> /\ IsWord(spec[1]) THEN Tail(spec) ELSE spec
From(spec, i)   == SubSeq(spec, i, Len(spec))

Refused == [refused |-> TRUE]

-----------------------------------------------------------------------------
(* What a registration is made of                                          *)

Input(spec)          == [kind |-> "input", spec |-> spec]
OptionalInput(spec)  == Input(<<"?">> \o spec)
Inputs(spec)         == Input(<<"*">> \o spec)
OptionalInputs(spec) == Input(<<"?", "*">> \o spec)
Output(spec)         == [kind |-> "output", spec |-> spec]
Attr(spec)           == [kind |-> "attr", spec |-> spec]
GlobalAttr(spec)     == Attr(<<"^">> \o spec)
OptionalAttr(spec)   == Attr(<<"?">> \o spec)
Sticky               == [kind |-> "sticky", spec |-> <<>>]

OfKind(lines, kind) == SelectSeq(lines, LAMBDA l : l.kind = kind)

-----------------------------------------------------------------------------
(* How it is parsed                                                        *)

\* Mutant: the `)' of a list is left before the `='.
finalizeAttrBeforeParenthesis(spec) ==
    LET flags == Without(spec, "^")
        rest  == Without(flags, "?")
        typed == From(rest, 3)
        list  == Len(typed) >= 2 /\ typed[1] = "list" /\ typed[2] = "("
        type  == IF list THEN From(typed, 3) ELSE typed
        tail  == AfterWord(type)
    IN  IF Word(rest) = "" \/ ~Begins(Tail(rest), ":") THEN Refused
        ELSE [name |-> Word(rest), global |-> Begins(spec, "^"), type |-> Word(type), list |-> list,
              optional |-> Begins(flags, "?") \/ Begins(tail, "="),
              default |-> IF Begins(tail, "=") THEN Word(Tail(tail)) ELSE ""]

finalizeAttr(spec) ==
    LET flags == Without(spec, "^")
        rest  == Without(flags, "?")
        typed == From(rest, 3)
        list  == Len(typed) >= 2 /\ typed[1] = "list" /\ typed[2] = "("
        type  == IF list THEN From(typed, 3) ELSE typed
        tail  == IF list THEN Without(AfterWord(type), ")") ELSE AfterWord(type)
    IN  IF Word(rest) = "" \/ ~Begins(Tail(rest), ":") THEN Refused
        ELSE [name |-> Word(rest), global |-> Begins(spec, "^"), type |-> Word(type), list |-> list,
              optional |-> Begins(flags, "?") \/ Begins(tail, "="),
              default |-> IF Begins(tail, "=") THEN Word(Tail(tail)) ELSE ""]

findAttr(name, attributes) == SelectSeq(attributes, LAMBDA a : ~a.global /\ a.name = name)

\* `<attr>/' can be repeated before the name of an input; each must be an
\* attribute of the module.
finalizeInputOrOutput(spec, isOutput, attributes) ==
    LET flags  == Without(spec, "?")
        path   == Without(flags, "*")
        last   == IF isOutput THEN 0 ELSE Max({0} \cup {i \in DOMAIN path : path[i] = "/"})
        Known(i) == IF i % 2 = 0 THEN path[i] = "/" ELSE findAttr(path[i], attributes) # <<>>
        rest   == From(path, last + 1)
        tail   == AfterWord(rest)
        default == ~isOutput /\ Begins(tail, "=")
    IN  IF last % 2 = 1 \/ (\E i \in 1..last : ~Known(i)) \/ Word(rest) = "" THEN Refused
        ELSE [name |-> Word(rest), optional |-> Begins(spec, "?") \/ default, many |-> Begins(flags, "*"),
              nested |-> [i \in 1..(last \div 2) |-> path[2 * i - 1]],
              default |-> IF default THEN Word(Tail(tail)) ELSE ""]

Internal == {"_cuba", "_met", "_input", "_momemta"}

\* ModuleDefBuilder::Build(); it throws if a spec is not well formed.
Parsed(lines, kind, P(_)) == [i \in DOMAIN OfKind(lines, kind) |-> P(OfKind(lines, kind)[i].spec)]
Whole(def) == IF Refused \in ToSet(def.attributes \o def.inputs \o def.outputs) THEN Refused ELSE def
WithAttributes(name, lines, attributes) ==
    IF Refused \in ToSet(attributes) THEN Refused
    ELSE Whole([name |-> name, internal |-> name \in Internal, sticky |-> OfKind(lines, "sticky") # <<>>,
                attributes |-> attributes,
                inputs  |-> Parsed(lines, "input", LAMBDA s : finalizeInputOrOutput(s, FALSE, attributes)),
                outputs |-> Parsed(lines, "output", LAMBDA s : finalizeInputOrOutput(s, TRUE, attributes))])
Build(name, lines) == WithAttributes(name, lines, Parsed(lines, "attr", finalizeAttr))

-----------------------------------------------------------------------------
(* Parameters.  A value is a pair of its type and of what it holds; a set  *)
(* of parameters is [set, frozen], where set gives each name its value and *)
(* whether it is lazy.                                                     *)

Exists(pset, name)         == name \in DOMAIN pset.set
Get(pset, name)            == pset.set[name].value
ExistsAs(pset, name, type) == Exists(pset, name) /\ Get(pset, name)[1] = type

\* findPSet(): the sets `nested' leads to, none or one.
findPSet(nested, pset) ==
    LET reached[i \in 0..Len(nested)] ==
            IF i = 0 THEN {pset}
            ELSE {Get(s, nested[i])[2] : s \in {t \in reached[i - 1] : ExistsAs(t, nested[i], "pset")}}
    IN  reached[Len(nested)]

\* Mutant: inputs are not looked for.
validateAttributes(def, pset) ==
    \A i \in DOMAIN def.attributes :
        LET a == def.attributes[i] IN a.global \/ a.optional \/ Exists(pset, a.name)

validateModuleParameters(def, pset) ==
    /\ \A i \in DOMAIN def.attributes :
          LET a == def.attributes[i] IN a.global \/ a.optional \/ Exists(pset, a.name)
    /\ \A i \in DOMAIN def.inputs :
          LET in == def.inputs[i]
          IN  in.optional \/ \E s \in findPSet(in.nested, pset) : Exists(s, in.name)

\* getInputTagsForInput(), which the graph builder calls for every input of a
\* definition; reading another type than it asks for throws.
InputTagsCanBeRead(input, pset) ==
    \A s \in findPSet(input.nested, pset) :
        Exists(s, input.name) =>
            Get(s, input.name)[1] = (IF input.many THEN "vector of tag" ELSE "tag")
=============================================================================
