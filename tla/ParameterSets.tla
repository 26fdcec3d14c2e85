----------------------------- MODULE ParameterSets -----------------------------
(***************************************************************************)
(* Input tags, the global tables of lua and the sets of parameters that    *)
(* look into them; what makes C++ values of those of lua is in LuaValues.  *)
(* A lua value is a pair of its type and of what it holds: an array holds  *)
(* a sequence, a table a function, a function <<kind, x>>.  The text of a  *)
(* string is the sequence of its words, of the `::' and of the `/'.        *)
(***************************************************************************)
EXTENDS Definitions

Nil    == <<"nil">>
Throws == <<"throws">>

-----------------------------------------------------------------------------
(* Input tags.  An index of 0 says that a tag has none; a tag with a `::'  *)
(* and nothing before or after it reads out of a vector and is left out.   *)

Numerals == <<"1", "2", "3", "4", "5", "6", "7", "8", "9">>

split(text, sign) ==
    LET Cut(parts, word) == IF word = sign THEN Append(parts, <<>>)
                            ELSE [parts EXCEPT ![Len(parts)] = Append(@, word)]
    IN  SelectSeq(FoldLeft(Cut, <<<<>>>>, text), LAMBDA part : part # <<>>)

isInputTag(text) ==
    /\ Contains(text, "::")
    /\ Contains(text, "/") =>
          LET parts == split(split(text, "::")[2], "/") IN parts[2][1] \in ToSet(Numerals)

\* What follows a second `::' is dropped when there is an index.
fromString(text) ==
    LET tags  == split(text, "::")
        parts == split(tags[2], "/")
    IN  [module |-> tags[1], parameter |-> parts[1],
         index |-> IF Len(parts) = 1 THEN 0 ELSE SelectInSeq(Numerals, LAMBDA n : n = parts[2][1])]

toString(tag) ==
    tag.module \o <<"::">> \o tag.parameter \o (IF tag.index = 0 THEN <<>> ELSE <<"/", Numerals[tag.index]>>)

IsDimension(tag) == tag.module = <<"cuba">> /\ tag.parameter = <<"ps_points">>

-----------------------------------------------------------------------------
(* Values                                                                  *)

\* A map with a value at a key.
With(map, key, v) == [k \in DOMAIN map \cup {key} |-> IF k = key THEN v ELSE map[k]]

PSet(set) == [set |-> set, frozen |-> FALSE]

\* ParameterSetParser::parse() of a table.  A function stays one, to be called
\* when the set is frozen; Convert is lua::to_any() of what is none.
Element(v, Convert(_)) ==
    IF v[1] = "function" THEN [value |-> v, lazy |-> TRUE] ELSE [value |-> Convert(v), lazy |-> FALSE]
parse(table, Convert(_)) == PSet([k \in DOMAIN table |-> Element(table[k], Convert)])
IsParsed(pset) == \A k \in DOMAIN pset.set : pset.set[k].value # Throws

\* m_set.emplace(): what has the name already stays.
Emplaced(pset, name, v, lazy) ==
    IF Exists(pset, name) THEN pset ELSE [pset EXCEPT !.set = With(@, name, [value |-> v, lazy |-> lazy])]

\* push_any(); vectors and sets have no way back to lua.
push_any(v) ==
    CASE v[1] = "int" -> <<"integer", v[2]>>
      [] v[1] = "double" -> <<"real", v[2]>>
      [] v[1] = "bool" -> <<"boolean", v[2]>>
      [] v[1] = "string" -> v
      [] v[1] = "tag" -> <<"string", toString(v[2])>>
      [] OTHER -> Throws

-----------------------------------------------------------------------------
(* Lazy values.  lua.globals has the global tables, lua.dimension the next *)
(* index add_dimension() gives.                                            *)

Global(lua, name)   == IF name \in DOMAIN lua.globals THEN lua.globals[name] ELSE Nil
Field(table, key)   == IF table[1] = "table" /\ key \in DOMAIN table[2] THEN table[2][key] ELSE Nil
WithField(table, key, v) == <<"table", With(table[2], key, v)>>

\* Mutant: the upvalue that counts is not replaced.
SameDimension(lua) == <<"string", <<"cuba", "::", "ps_points", "/", Numerals[1]>>>>

\* add_integration_dimension()
NextDimension(lua) == <<"string", <<"cuba", "::", "ps_points", "/", Numerals[lua.dimension]>>>>

\* The state after some calls of it.
Calling(lua, calls) == [lua EXCEPT !.dimension = @ + calls]

\* What a function of the configuration returns: parameter() makes functions
\* that look into the global table (a string can be indexed like one, with no
\* result); a failing call returns its error message.
Called(lua, f) ==
    CASE f[1] = "parameter" ->
            IF Global(lua, "parameters")[1] \notin {"table", "string"} THEN <<"string", <<"error">>>>
            ELSE Field(Global(lua, "parameters"), f[2])
      [] f[1] = "add_dimension" -> NextDimension(lua)
      [] f[1] = "returns" -> f[2]

\* LazyFunction::operator() and LazyTableField::operator(), before lua::to_any().
Evaluated(lua, v) == IF v[1] = "function" THEN Called(lua, v[2]) ELSE Field(Global(lua, v[2]), v[3])
CallsOf(v) == IF v[1] = "function" /\ v[2][1] = "add_dimension" THEN 1 ELSE 0

\* ParameterSet::freeze(): each lazy element is replaced by what it stands for,
\* and Inner freezes the sets that others hold, but not those that an evaluation
\* just gave.  Calls are made in some order of the names.
ParameterSet_freeze(lua, pset, Convert(_), Inner(_, _)) ==
    LET names == FoldSet(LAMBDA k, list : Append(list, k), <<>>, DOMAIN pset.set)
        Made(k, calls) ==
            LET e == pset.set[k]
            IN  IF e.lazy THEN [value |-> Convert(Evaluated(Calling(lua, calls), e.value)), calls |-> CallsOf(e.value)]
                ELSE Inner(Calling(lua, calls), e.value)
        calls[i \in 0..Len(names)] == IF i = 0 THEN 0 ELSE calls[i - 1] + Made(names[i], calls[i - 1]).calls
        made == [k \in DOMAIN pset.set |-> Made(k, calls[SelectInSeq(names, LAMBDA n : n = k) - 1]).value]
    IN  IF pset.frozen THEN [pset |-> pset, calls |-> 0, ok |-> TRUE]
        ELSE [pset |-> [set |-> [k \in DOMAIN made |-> [value |-> made[k], lazy |-> FALSE]], frozen |-> TRUE],
              calls |-> calls[Len(names)], ok |-> \A k \in DOMAIN made : made[k] # Throws]

\* LazyTableField::set() on a table that create() makes if it does not exist.
SetField(lua, table, key, v) ==
    LET old == IF Global(lua, table) = Nil THEN <<"table", <<>>>> ELSE Global(lua, table)
    IN  [lua EXCEPT !.globals = With(@, table, WithField(old, key, v))]

\* ParameterSetParser::parse() of a global table into a LazyTable.
LazyTable(lua, name) ==
    LET table == Global(lua, name)
    IN  PSet(IF table[1] # "table" THEN <<>>
             ELSE [k \in DOMAIN table[2] |-> [value |-> <<"field", name, k>>, lazy |-> TRUE]])
=============================================================================
