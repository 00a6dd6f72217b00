----------------------------- MODULE JsonGrammar -----------------------------
(***************************************************************************)
(* What the JSON writer promises: the grammar of RFC 8259 as an automaton   *)
(* with a stack that reads one token after the other.  It knows nothing of   *)
(* the writer's own bookkeeping and serves as the reference for it.          *)
(***************************************************************************)
EXTENDS Sequences

Tokens == {"openObject", "closeObject", "openArray", "closeArray", "comma", "colon",
           "text", "number", "null"}

Scalars == {"text", "number", "null"}

NothingRead == [stack |-> <<>>, expect |-> "value"]
Rejected    == [stack |-> <<>>, expect |-> "nothing"]

IsComplete(g) == g.expect = "end"

\* After a value: at the end of the text, or between the members of a container.
AfterValue(stack) ==
  [stack |-> stack, expect |-> IF stack = <<>> THEN "end" ELSE "comma"]

Opened(g, container, expect) ==
  [stack |-> <<container>> \o g.stack, expect |-> expect]

Value(g, t) ==
  IF t \in Scalars THEN AfterValue(g.stack)
  ELSE IF t = "openObject" THEN Opened(g, "object", "firstName")
  ELSE IF t = "openArray" THEN Opened(g, "array", "firstValue")
  ELSE Rejected

Closed(g, t) ==
  IF \/ t = "closeObject" /\ Head(g.stack) = "object"
     \/ t = "closeArray" /\ Head(g.stack) = "array"
  THEN AfterValue(Tail(g.stack))
  ELSE Rejected

\* The automaton after it has read the token t.
Reads(g, t) ==
  CASE g.expect = "value" -> Value(g, t)
    [] g.expect = "firstValue" -> IF t = "closeArray" THEN Closed(g, t) ELSE Value(g, t)
    [] g.expect = "firstName" /\ t = "closeObject" -> Closed(g, t)
    [] g.expect \in {"firstName", "name"} /\ t = "text" ->
         [g EXCEPT !.expect = "colon"]
    [] g.expect = "colon" /\ t = "colon" -> [g EXCEPT !.expect = "value"]
    [] g.expect = "comma" /\ t = "comma" ->
         [g EXCEPT !.expect = IF Head(g.stack) = "object" THEN "name" ELSE "value"]
    [] g.expect = "comma" /\ t # "comma" -> Closed(g, t)
    [] OTHER -> Rejected
==============================================================================
