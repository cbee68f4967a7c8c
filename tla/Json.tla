-------------------------------- MODULE Json --------------------------------
(***************************************************************************)
(* The control tool's JSON parser (tools/ctl/backend/json_value.cpp) over  *)
(* tokens: "s" is a string, "n" a number or a literal, "x" anything else   *)
(* that starts no value.  White space between tokens is left out.          *)
(***************************************************************************)
EXTENDS Integers, Sequences

CONSTANT MaxDepth  \* max_depth

ASSUME JsonAssumption == MaxDepth \in Nat

-----------------------------------------------------------------------------

Closing(open) == IF open = "{" THEN "}" ELSE "]"

\* depth > max_depth_.  Fault: one level more is let through.
TooDeepFault(depth) == depth > MaxDepth + 1
TooDeep(depth) == depth > MaxDepth

At(t, i) == IF i \in DOMAIN t THEN t[i] ELSE "end"

\* Parser::value(), object() and array() on the tokens t, with their calls of
\* each other in parse: what is parsed ("value", or the members of what "{" or
\* "[" opened), where, and at which depth.  The result is the position behind
\* it, 0 for an error.
ParseFrom(t, parse, k, i, depth) ==
    IF k = "value"
      THEN CASE At(t, i) \in {"s", "n"} -> i + 1
             [] At(t, i) \in {"{", "["} ->
                  IF TooDeep(depth + 1) THEN 0
                  ELSE IF At(t, i + 1) = Closing(At(t, i)) THEN i + 2
                  ELSE parse[<<At(t, i), i + 1, depth + 1>>]
             [] OTHER -> 0
    ELSE IF k = "{" /\ ~(At(t, i) = "s" /\ At(t, i + 1) = ":") THEN 0
    ELSE LET j == parse[<<"value", IF k = "{" THEN i + 2 ELSE i, depth>>]
         IN  CASE j = 0 -> 0
               [] j # 0 /\ At(t, j) = "," -> parse[<<k, j + 1, depth>>]
               [] j # 0 /\ At(t, j) = Closing(k) -> j + 1
               [] OTHER -> 0

Kinds == {"value", "{", "["}

Parsed(t) ==
    LET parse[x \in Kinds \X (1 .. Len(t) + 1) \X (0 .. MaxDepth + 1)] ==
            ParseFrom(t, parse, x[1], x[2], x[3])
    IN  parse[<<"value", 1, 0>>]

\* Parser::document(): nothing may follow the value.
ParseJson(t) == Parsed(t) = Len(t) + 1

=============================================================================
