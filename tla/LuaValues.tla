------------------------------- MODULE LuaValues -------------------------------
(***************************************************************************)
(* What lua and C++ make of each other's values, where these hold others:  *)
(* the conversion of lists and tables, what freezing a set of parameters   *)
(* evaluates, and the expressions of a file.                               *)
(***************************************************************************)
EXTENDS ParameterSets

-----------------------------------------------------------------------------
(* Values                                                                  *)

\* lua::type()
type(v) ==
    CASE v[1] = "integer" -> "int"
      [] v[1] = "real" -> "double"
      [] v[1] = "boolean" -> "bool"
      [] v[1] = "string" -> IF isInputTag(v[2]) THEN "tag" ELSE "string"
      [] v[1] = "table" /\ DOMAIN v[2] # {} -> "pset"
      [] OTHER -> "not supported"

\* The type of all the elements of an array; integers are made reals among reals.
lua_array_unique_type(array) ==
    LET types == {type(array[i]) : i \in DOMAIN array}
    IN  IF types = {"int", "double"} THEN "double"
        ELSE IF Cardinality(types) = 1 THEN CHOOSE t \in types : TRUE
        ELSE "not supported"

\* lua::to_any(); a table without elements is a set.
RECURSIVE lua_to_any(_)
lua_to_any(v) ==
    CASE v[1] \in {"integer", "real", "boolean"} -> <<type(v), v[2]>>
      [] v[1] = "string" -> IF isInputTag(v[2]) THEN <<"tag", fromString(v[2])>> ELSE v
      [] v[1] = "array" ->
            LET of    == lua_array_unique_type(v[2])
                casts == [i \in DOMAIN v[2] |-> lua_to_any(v[2][i])]
            IN  IF of = "not supported" \/ Contains(casts, Throws) THEN Throws
                ELSE <<"vector of " \o of, [i \in DOMAIN casts |-> casts[i][2]]>>
      [] v[1] = "table" ->
            LET pset == parse(v[2], lua_to_any) IN IF IsParsed(pset) THEN <<"pset", pset>> ELSE Throws
      [] v[1] \in {"function", "path"} -> v
      [] OTHER -> Throws

\* ParameterSet::freeze() of the sets that the value of an element holds.
RECURSIVE frozen_value(_, _)
frozen_value(lua, v) ==
    LET Step(done, p) ==
            LET f == ParameterSet_freeze(Calling(lua, done.calls), p, lua_to_any, frozen_value)
            IN  [list |-> Append(done.list, f.pset), calls |-> done.calls + f.calls, ok |-> done.ok /\ f.ok]
        All(list) == FoldLeft(Step, [list |-> <<>>, calls |-> 0, ok |-> TRUE], list)
        Held(all, held) == [value |-> IF all.ok THEN <<v[1], held>> ELSE Throws, calls |-> all.calls]
    IN  CASE v[1] = "pset" -> LET all == All(<<v[2]>>) IN Held(all, all.list[1])
          [] v[1] = "vector of pset" -> LET all == All(v[2]) IN Held(all, all.list)
          [] OTHER -> [value |-> v, calls |-> 0]

-----------------------------------------------------------------------------
(* Expressions of a file: a lua value or <<"reco", input>>, <<"gen",       *)
(* input>>, <<"add_dimension">>, <<"fields", <<name, expression>>, ...>>   *)
(* or <<"list", expression, ...>>.                                         *)

Given(v, calls) == [value |-> v, calls |-> calls]
RECURSIVE lua_eval(_, _)
lua_eval(lua, e) ==
    LET Step(done, x) == LET r == lua_eval(Calling(lua, done.calls), x)
                         IN  [values |-> Append(done.values, r.value), calls |-> done.calls + r.calls]
        Each(list) == FoldLeft(Step, [values |-> <<>>, calls |-> 0], list)
        items  == Each(Tail(e))
        fields == Each([i \in 1..(Len(e) - 1) |-> e[i + 1][2]])
        names  == [i \in 1..(Len(e) - 1) |-> e[i + 1][1]]
    IN  CASE e[1] = "reco" -> Given(<<"string", lua.inputs[e[2]].reco_p4>>, 0)
          [] e[1] = "gen" -> Given(<<"string", lua.inputs[e[2]].gen_p4>>, 0)
          [] e[1] = "add_dimension" -> Given(NextDimension(lua), 1)
          [] e[1] = "list" -> Given(<<"array", items.values>>, items.calls)
          [] e[1] = "fields" ->
                Given(<<"table", [n \in ToSet(names) |->
                            fields.values[CHOOSE i \in DOMAIN names : names[i] = n]]>>, fields.calls)
          [] OTHER -> Given(e, 0)
=============================================================================
