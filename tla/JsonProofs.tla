----------------------------- MODULE JsonProofs -----------------------------
(***************************************************************************)
(* Theorems about JsonMessages: whatever calls are made, the writer writes a *)
(* prefix of a JSON text; and every message of the firmware is one complete  *)
(* JSON text that fits, for all sizes the firmware may be built with.        *)
(*                                                                          *)
(* A number of calls is an element of a set of natural numbers here, and     *)
(* induction is the fact that a set of them has a least element              *)
(* (SetInduction).                                                          *)
(***************************************************************************)
EXTENDS JsonMessages, SequenceTheorems, WellFoundedInduction, TLAPS

-----------------------------------------------------------------------------
(* Part 1.  The writer follows the grammar                                   *)

Containers == {"object", "array"}

Stacks == Seq(Containers)

Kinds == {"none", "begin", "name", "value", "end"}

Texts ==
  [stack : Stacks,
   expect : {"value", "firstValue", "firstName", "name", "colon", "comma", "end",
             "nothing"}]

Writers ==
  [ok : BOOLEAN, written : Nat, needComma : BOOLEAN, kind : Kinds, stack : Stacks,
   text : Texts]

\* What a text goes on with after the token the writer wrote last.
Expected(w) ==
  IF w.kind \in {"none", "name"} THEN "value"
  ELSE IF w.kind = "begin" THEN IF Head(w.stack) = "object" THEN "firstName" ELSE "firstValue"
  ELSE IF w.stack = <<>> THEN "end" ELSE "comma"

\* The bookkeeping of the writer says what the grammar says of the text so far, and
\* the text is within the buffer.
FollowsGrammar(w) ==
  /\ w \in Writers
  /\ w.ok
  /\ w.written <= BufferSize
  /\ w.needComma <=> w.kind \in {"value", "end"}
  /\ w.kind = "none" => w.stack = <<>>
  /\ w.kind = "begin" => w.stack # <<>>
  /\ w.kind = "name" => InObject(w)
  /\ w.text = [stack |-> w.stack, expect |-> Expected(w)]

\* Where a value may stand the grammar reads one, after the comma if one is due.
LEMMA ValuePosition ==
  ASSUME NEW w, FollowsGrammar(w), ValueValid(w)
  PROVE  \E e \in {"value", "firstValue"} : AfterComma(w) = [stack |-> w.stack, expect |-> e]
<1>1. /\ w.text = [stack |-> w.stack, expect |-> Expected(w)]
      /\ w.needComma \in BOOLEAN
      /\ w.kind \in {"none", "begin", "name", "value", "end"}
      /\ w.stack \in Seq(Containers)
  BY DEF FollowsGrammar, Writers, Kinds, Stacks
<1>2. CASE w.needComma
  <2>1. w.kind \in {"value", "end"} /\ w.stack # <<>> /\ Head(w.stack) # "object"
    BY <1>1, <1>2 DEF FollowsGrammar, ValueValid, InObject
  <2>2. w.text = [stack |-> w.stack, expect |-> "comma"]
    BY <1>1, <2>1 DEF Expected
  <2>3. Reads(w.text, "comma") = [stack |-> w.stack, expect |-> "value"]
    BY <2>1, <2>2 DEF Reads
  <2>q. QED  BY <1>2, <2>3 DEF AfterComma
<1>3. CASE ~w.needComma
  <2>1. /\ w.kind \in {"none", "name", "begin"}
        /\ w.kind = "begin" => w.stack # <<>> /\ Head(w.stack) # "object"
    BY <1>1, <1>3 DEF FollowsGrammar, ValueValid, InObject
  <2>2. Expected(w) \in {"value", "firstValue"}
    BY <2>1 DEF Expected
  <2>q. QED  BY <1>1, <1>3, <2>2 DEF AfterComma
<1>q. QED  BY <1>1, <1>2, <1>3

\* The same for a name.
LEMMA NamePosition ==
  ASSUME NEW w, FollowsGrammar(w), NameValid(w)
  PROVE  \E e \in {"name", "firstName"} : AfterComma(w) = [stack |-> w.stack, expect |-> e]
<1>1. /\ w.text = [stack |-> w.stack, expect |-> Expected(w)]
      /\ w.needComma \in BOOLEAN
      /\ w.kind \in {"none", "begin", "name", "value", "end"}
      /\ w.stack # <<>> /\ Head(w.stack) = "object" /\ w.kind # "name"
  BY DEF FollowsGrammar, Writers, Kinds, NameValid, InObject
<1>2. CASE w.needComma
  <2>1. w.text = [stack |-> w.stack, expect |-> "comma"]
    BY <1>1, <1>2 DEF Expected, FollowsGrammar
  <2>2. Reads(w.text, "comma") = [stack |-> w.stack, expect |-> "name"]
    BY <1>1, <2>1 DEF Reads
  <2>q. QED  BY <1>2, <2>2 DEF AfterComma
<1>3. CASE ~w.needComma
  <2>1. w.kind = "begin"
    BY <1>1, <1>3 DEF FollowsGrammar
  <2>q. QED  BY <1>1, <1>3, <2>1 DEF AfterComma, Expected
<1>q. QED  BY <1>1, <1>2, <1>3

\* What the grammar makes of the tokens.
LEMMA ScalarRead ==
  ASSUME NEW stack, NEW e \in {"value", "firstValue"}, NEW t \in Scalars
  PROVE  Reads([stack |-> stack, expect |-> e], t)
           = [stack |-> stack, expect |-> IF stack = <<>> THEN "end" ELSE "comma"]
BY DEF Reads, Value, AfterValue, Scalars

LEMMA StartRead ==
  ASSUME NEW stack, NEW e \in {"value", "firstValue"}
  PROVE  /\ Reads([stack |-> stack, expect |-> e], "openObject")
             = [stack |-> <<"object">> \o stack, expect |-> "firstName"]
         /\ Reads([stack |-> stack, expect |-> e], "openArray")
             = [stack |-> <<"array">> \o stack, expect |-> "firstValue"]
BY DEF Reads, Value, Opened, Scalars

LEMMA NameRead ==
  ASSUME NEW stack, NEW e \in {"name", "firstName"}
  PROVE  Reads(Reads([stack |-> stack, expect |-> e], "text"), "colon")
           = [stack |-> stack, expect |-> "value"]
<1>1. Reads([stack |-> stack, expect |-> e], "text") = [stack |-> stack, expect |-> "colon"]
  BY DEF Reads
<1>2. Reads([stack |-> stack, expect |-> "colon"], "colon") = [stack |-> stack, expect |-> "value"]
  BY DEF Reads
<1>q. QED  BY <1>1, <1>2

LEMMA EndRead ==
  ASSUME NEW stack, Head(stack) \in Containers, NEW e \in {"comma", "firstName", "firstValue"},
         e = "firstName" => Head(stack) = "object",
         e = "firstValue" => Head(stack) = "array"
  PROVE  /\ Head(stack) = "object" =>
              Reads([stack |-> stack, expect |-> e], "closeObject") = AfterValue(Tail(stack))
         /\ Head(stack) = "array" =>
              Reads([stack |-> stack, expect |-> e], "closeArray") = AfterValue(Tail(stack))
BY DEF Reads, Closed, Containers

\* The writer r after it wrote n bytes, with this stack, and a token of this kind.
Wrote(w, r, n, stack, kind) ==
  /\ FollowsGrammar(r)
  /\ r.written = w.written + n
  /\ r.stack = stack
  /\ r.kind = kind

\* A value is appended.
LEMMA ValueWritten ==
  ASSUME NEW w, FollowsGrammar(w), ValueValid(w), NEW t \in Scalars, NEW n \in Nat,
         w.written + Comma(w) + n <= BufferSize
  PROVE  Wrote(w, ValueAppended(w, n, t), Comma(w) + n, w.stack, "value")
<1>. DEFINE r == ValueAppended(w, n, t)
            expect == IF w.stack = <<>> THEN "end" ELSE "comma"
            text == [stack |-> w.stack, expect |-> expect]
            size == w.written + Comma(w) + n
<1>1. w \in Writers /\ w.ok /\ w.stack \in Stacks /\ w.written \in Nat
  BY DEF FollowsGrammar, Writers
<1>2. Reads(AfterComma(w), t) = text
  <2>1. PICK e \in {"value", "firstValue"} : AfterComma(w) = [stack |-> w.stack, expect |-> e]
    BY ValuePosition
  <2>q. QED  BY <2>1, ScalarRead
<1>3. r = [w EXCEPT !.written = size, !.needComma = TRUE, !.kind = "value", !.text = text]
  BY <1>2 DEF ValueAppended, Appended
<1>4. text \in Texts /\ size \in Nat
  BY <1>1 DEF Texts, Comma
<1>5. text = [stack |-> w.stack, expect |-> expect] /\ size = w.written + (Comma(w) + n)
  BY <1>1 DEF Comma
<1>. HIDE DEF r, text, size
<1>6. "value" \in Kinds /\ TRUE \in BOOLEAN
  BY DEF Kinds
<1>7. /\ r \in Writers /\ r.ok = w.ok /\ r.written = size /\ r.needComma = TRUE
      /\ r.kind = "value" /\ r.stack = w.stack /\ r.text = text
  BY <1>1, <1>3, <1>4, <1>6 DEF Writers
<1>8. Expected(r) = expect
  BY <1>7 DEF Expected
<1>. HIDE DEF expect
<1>9. size <= BufferSize
  BY DEF size
<1>10. FollowsGrammar(r)
  BY <1>5, <1>7, <1>8, <1>9 DEF FollowsGrammar
<1>q. QED  BY <1>5, <1>7, <1>10 DEF Wrote, r

\* A name is appended, with its colon.
LEMMA NameWritten ==
  ASSUME NEW w, FollowsGrammar(w), NameValid(w), NEW n \in Nat,
         w.written + Comma(w) + n <= BufferSize
  PROVE  Wrote(w, Appended(w, n, FALSE, "name", Reads(Reads(AfterComma(w), "text"), "colon")),
               Comma(w) + n, w.stack, "name")
<1>. DEFINE r == Appended(w, n, FALSE, "name", Reads(Reads(AfterComma(w), "text"), "colon"))
            text == [stack |-> w.stack, expect |-> "value"]
            size == w.written + Comma(w) + n
<1>1. w \in Writers /\ w.ok /\ w.stack \in Stacks /\ w.written \in Nat /\ InObject(w)
  BY DEF FollowsGrammar, Writers, NameValid
<1>2. Reads(Reads(AfterComma(w), "text"), "colon") = text
  BY NamePosition, NameRead
<1>3. r = [w EXCEPT !.written = size, !.needComma = FALSE, !.kind = "name", !.text = text]
  BY <1>2 DEF Appended
<1>4. text \in Texts /\ size \in Nat
  BY <1>1 DEF Texts, Comma
<1>5. text = [stack |-> w.stack, expect |-> "value"] /\ size = w.written + (Comma(w) + n)
  BY <1>1 DEF Comma
<1>6. size <= BufferSize
  OBVIOUS
<1>. HIDE DEF r, text, size
<1>7. "name" \in Kinds /\ FALSE \in BOOLEAN
  BY DEF Kinds
<1>8. /\ r \in Writers /\ r.ok = w.ok /\ r.written = size /\ r.needComma = FALSE
      /\ r.kind = "name" /\ r.stack = w.stack /\ r.text = text
  BY <1>1, <1>3, <1>4, <1>7 DEF Writers
<1>9. Expected(r) = "value" /\ InObject(r)
  BY <1>1, <1>8 DEF Expected, InObject
<1>10. FollowsGrammar(r)
  BY <1>5, <1>6, <1>8, <1>9 DEF FollowsGrammar
<1>q. QED  BY <1>5, <1>8, <1>10 DEF Wrote, r

\* A container in front of the others.
LEMMA Pushed ==
  ASSUME NEW stack \in Stacks, NEW c \in Containers
  PROVE  /\ <<c>> \o stack \in Stacks /\ <<c>> \o stack # <<>>
         /\ Head(<<c>> \o stack) = c /\ Tail(<<c>> \o stack) = stack
         /\ Len(<<c>> \o stack) = Len(stack) + 1
<1>. DEFINE s == <<c>> \o stack
<1>1. /\ <<c>> \in Seq(Containers) /\ Len(<<c>>) = 1 /\ <<c>>[1] = c
      /\ stack \in Seq(Containers) /\ Len(stack) \in Nat
  BY DEF Stacks
<1>2. /\ s \in Seq(Containers) /\ Len(s) = 1 + Len(stack)
      /\ \A i \in 1 .. 1 + Len(stack) : s[i] = IF i <= 1 THEN c ELSE stack[i - 1]
  BY <1>1, ConcatProperties
<1>. HIDE DEF s
<1>3. s # <<>> /\ Head(s) = c /\ Len(s) = Len(stack) + 1
  BY <1>1, <1>2
<1>4. /\ Tail(s) \in Seq(Containers) /\ Len(Tail(s)) = Len(stack)
      /\ \A i \in 1..Len(stack) : Tail(s)[i] = s[i + 1]
  BY <1>1, <1>2, <1>3, HeadTailProperties
<1>5. \A i \in 1..Len(stack) : Tail(s)[i] = stack[i]
  BY <1>1, <1>2, <1>4
<1>6. Tail(s) = stack
  BY <1>1, <1>4, <1>5, SeqEqual
<1>q. QED  BY <1>2, <1>3, <1>6 DEF s, Stacks

\* A container is opened.
LEMMA StartWritten ==
  ASSUME NEW w, FollowsGrammar(w), ValueValid(w), NEW c \in Containers, NEW t,
         t = IF c = "object" THEN "openObject" ELSE "openArray",
         w.written + Comma(w) + 1 <= BufferSize
  PROVE  Wrote(w, [Appended(w, 1, FALSE, "begin", Reads(AfterComma(w), t))
                     EXCEPT !.stack = <<c>> \o @],
               Comma(w) + 1, <<c>> \o w.stack, "begin")
<1>. DEFINE r == [Appended(w, 1, FALSE, "begin", Reads(AfterComma(w), t))
                    EXCEPT !.stack = <<c>> \o @]
            stack == <<c>> \o w.stack
            expect == IF c = "object" THEN "firstName" ELSE "firstValue"
            text == [stack |-> stack, expect |-> expect]
            size == w.written + Comma(w) + 1
<1>1. w \in Writers /\ w.ok /\ w.stack \in Stacks /\ w.written \in Nat
  BY DEF FollowsGrammar, Writers
<1>2. Reads(AfterComma(w), t) = text
  BY ValuePosition, StartRead DEF Containers
<1>3. stack \in Stacks /\ stack # <<>> /\ Head(stack) = c
  BY <1>1, Pushed
<1>4. r = [w EXCEPT !.written = size, !.needComma = FALSE, !.kind = "begin", !.text = text,
                    !.stack = stack]
  BY <1>1, <1>2 DEF Appended, Writers
<1>5. text = [stack |-> stack, expect |-> expect] /\ size = w.written + (Comma(w) + 1)
  BY <1>1 DEF Comma
<1>6. size <= BufferSize /\ size \in Nat
  BY <1>1 DEF Comma
<1>. HIDE DEF r, size, stack
<1>7. text \in Texts
  BY <1>3 DEF Texts
<1>. HIDE DEF text
<1>8. /\ r \in Writers /\ r.ok /\ r.written = size /\ r.needComma = FALSE
      /\ r.kind = "begin" /\ r.stack = stack /\ r.text = text
  BY <1>1, <1>3, <1>4, <1>6, <1>7 DEF Writers, Kinds
<1>9. Expected(r) = expect
  BY <1>3, <1>8 DEF Expected
<1>. HIDE DEF expect
<1>10. FollowsGrammar(r)
  BY <1>3, <1>5, <1>6, <1>8, <1>9 DEF FollowsGrammar
<1>q. QED  BY <1>5, <1>8, <1>10 DEF Wrote, r, stack

\* A container is closed.
LEMMA EndWritten ==
  ASSUME NEW w, FollowsGrammar(w), NEW c \in Containers, EndValid(w, c), NEW t,
         t = IF c = "object" THEN "closeObject" ELSE "closeArray",
         1 <= Remaining(w)
  PROVE  Wrote(w, AppendContainerEnd(w, t), 1, Tail(w.stack), "end")
<1>. DEFINE r == AppendContainerEnd(w, t)
            stack == Tail(w.stack)
            expect == IF stack = <<>> THEN "end" ELSE "comma"
            text == [stack |-> stack, expect |-> expect]
            size == w.written + 1
            e == Expected(w)
<1>1. /\ w \in Writers /\ w.ok /\ w.stack \in Stacks /\ w.written \in Nat
      /\ w.stack # <<>> /\ Head(w.stack) = c /\ w.kind \in {"begin", "value", "end"}
      /\ w.text = [stack |-> w.stack, expect |-> e]
  BY DEF FollowsGrammar, Writers, EndValid, Kinds
<1>2. /\ e \in {"comma", "firstName", "firstValue"}
      /\ e = "firstName" => c = "object"
      /\ e = "firstValue" => c = "array"
  BY <1>1 DEF Expected, Containers
<1>. HIDE DEF e
<1>3. Reads([stack |-> w.stack, expect |-> e], t) = AfterValue(stack)
  <2>1. Head(w.stack) \in Containers
    BY <1>1
  <2>2. CASE c = "object"
    BY <1>1, <1>2, <2>1, <2>2, EndRead
  <2>3. CASE c = "array"
    BY <1>1, <1>2, <2>1, <2>3, EndRead
  <2>q. QED  BY <2>2, <2>3 DEF Containers
<1>4. AfterValue(stack) = text
  BY DEF AfterValue
<1>5. stack \in Stacks
  BY <1>1 DEF Stacks
<1>6. r = [w EXCEPT !.written = size, !.needComma = TRUE, !.kind = "end", !.stack = stack,
                    !.text = text]
  BY <1>1, <1>3, <1>4 DEF AppendContainerEnd
<1>7. text = [stack |-> stack, expect |-> expect] /\ size = w.written + 1 /\ size \in Nat
  BY <1>1
<1>8. size <= BufferSize
  BY <1>1, WriterAssumption DEF Remaining
<1>9. text \in Texts
  BY <1>5 DEF Texts
<1>. HIDE DEF r, size, text, stack
<1>10. /\ r \in Writers /\ r.ok /\ r.written = size /\ r.needComma = TRUE
      /\ r.kind = "end" /\ r.stack = stack /\ r.text = text
  BY <1>1, <1>5, <1>6, <1>7, <1>9 DEF Writers, Kinds
<1>11. Expected(r) = expect
  BY <1>10 DEF Expected
<1>. HIDE DEF expect
<1>12. FollowsGrammar(r)
  BY <1>7, <1>10, <1>11, <1>8 DEF FollowsGrammar
<1>q. QED  BY <1>7, <1>10, <1>12 DEF Wrote, r, stack


-----------------------------------------------------------------------------
(* Part 2.  Sequences of calls                                               *)

\* Every set of natural numbers that is not empty has a least one.
LEMMA LeastNatural ==
  ASSUME NEW T, T \subseteq Nat, T # {}
  PROVE  \E m \in T : \A k \in T : m <= k
<1>. DEFINE R == OpToRel(<, Nat)
<1>1. IsWellFoundedOn(R, Nat)
  BY NatLessThanWellFounded DEF OpToRel
<1>2. \A x, y \in Nat : <<y, x>> \in R <=> y < x
  BY DEF OpToRel
<1>. HIDE DEF R
<1>3. PICK x \in T : \A y \in T : ~(<<y, x>> \in R)
  BY <1>1, WFMin
<1>4. \A y \in T : y \in Nat /\ x \in Nat /\ ~(y < x)
  BY <1>2, <1>3
<1>5. \A y \in T : x <= y
  BY <1>4
<1>q. QED  BY <1>3, <1>5

\* Induction, with the set of the numbers for which a fact holds.
LEMMA SetInduction ==
  ASSUME NEW T, 0 \in T, \A n \in Nat \cap T : n + 1 \in T
  PROVE  Nat \subseteq T
<1>. SUFFICES ASSUME Nat \ T # {} PROVE FALSE
  OBVIOUS
<1>1. PICK m \in Nat \ T : \A k \in Nat \ T : m <= k
  BY LeastNatural
<1>2. m - 1 \in Nat /\ m - 1 \notin Nat \ T
  BY <1>1
<1>q. QED  BY <1>1, <1>2

\* g tells what the first calls make of s, up to the n-th.
IsRun(g, s, calls, n) ==
  g = [k \in 0..n |-> IF k = 0 THEN s ELSE MakeCall(g[k - 1], calls[k])]

LEMMA RunExists ==
  ASSUME NEW s, NEW calls
  PROVE  \A n \in Nat : \E g : IsRun(g, s, calls, n)
<1>. DEFINE T == {n \in Nat : \E g : IsRun(g, s, calls, n)}
<1>1. 0 \in T
  <2>. DEFINE g == [k \in 0..0 |-> s]
  <2>1. g = [k \in 0..0 |-> IF k = 0 THEN s ELSE MakeCall(g[k - 1], calls[k])]
    OBVIOUS
  <2>q. QED  BY <2>1 DEF IsRun
<1>2. ASSUME NEW n \in Nat \cap T
      PROVE  n + 1 \in T
  <2>1. PICK g : IsRun(g, s, calls, n)
    OBVIOUS
  <2>2. /\ g[0] = s
        /\ \A k \in 0..n : k # 0 => g[k] = MakeCall(g[k - 1], calls[k])
    BY <2>1 DEF IsRun
  <2>. DEFINE h == [k \in 0..(n + 1) |->
                      IF k = n + 1 THEN MakeCall(g[n], calls[n + 1]) ELSE g[k]]
  <2>3. \A k \in 0..(n + 1) :
           h[k] = IF k = 0 THEN s ELSE MakeCall(h[k - 1], calls[k])
    <3>. SUFFICES ASSUME NEW k \in 0..(n + 1)
                  PROVE  h[k] = IF k = 0 THEN s ELSE MakeCall(h[k - 1], calls[k])
      OBVIOUS
    <3>1. CASE k = 0
      BY <2>2, <3>1
    <3>2. CASE k = n + 1
      <4>1. h[k] = MakeCall(g[n], calls[n + 1]) /\ h[k - 1] = g[n] /\ k # 0
        BY <3>2
      <4>q. QED  BY <3>2, <4>1
    <3>3. CASE k \in 1..n
      <4>1. h[k] = g[k] /\ h[k - 1] = g[k - 1]
        BY <3>3
      <4>q. QED  BY <2>2, <3>3, <4>1
    <3>q. QED  BY <3>1, <3>2, <3>3
  <2>4. h = [k \in 0..(n + 1) |-> h[k]]
    OBVIOUS
  <2>. HIDE DEF h
  <2>5. h = [k \in 0..(n + 1) |-> IF k = 0 THEN s ELSE MakeCall(h[k - 1], calls[k])]
    BY <2>3, <2>4, Zenon
  <2>q. QED  BY <2>5 DEF IsRun
<1>. HIDE DEF T
<1>3. Nat \subseteq T
  BY <1>1, <1>2, SetInduction
<1>q. QED  BY <1>3 DEF T

LEMMA RunUnique ==
  ASSUME NEW s, NEW calls, NEW n \in Nat, NEW g, NEW h,
         IsRun(g, s, calls, n), IsRun(h, s, calls, n)
  PROVE  g[n] = h[n]
<1>. DEFINE T == {k \in Nat : k <= n => g[k] = h[k]}
<1>1. /\ g[0] = s /\ h[0] = s
      /\ \A k \in 0..n : k # 0 => /\ g[k] = MakeCall(g[k - 1], calls[k])
                                  /\ h[k] = MakeCall(h[k - 1], calls[k])
  BY DEF IsRun
<1>2. 0 \in T
  BY <1>1
<1>3. ASSUME NEW k \in Nat \cap T
      PROVE  k + 1 \in T
  <2>. SUFFICES ASSUME k + 1 <= n PROVE g[k + 1] = h[k + 1]
    OBVIOUS
  <2>1. k + 1 \in 0..n /\ k + 1 # 0 /\ (k + 1) - 1 = k /\ g[k] = h[k]
    OBVIOUS
  <2>2. /\ g[k + 1] = MakeCall(g[(k + 1) - 1], calls[k + 1])
        /\ h[k + 1] = MakeCall(h[(k + 1) - 1], calls[k + 1])
    BY <1>1, <2>1
  <2>q. QED  BY <2>1, <2>2
<1>. HIDE DEF T
<1>4. n \in T
  BY <1>2, <1>3, SetInduction
<1>q. QED  BY <1>4 DEF T

\* What a sequence of calls makes of a state is what any run of it ends with.
LEMMA RunWrites ==
  ASSUME NEW s, NEW S, NEW calls \in Seq(S), NEW g, IsRun(g, s, calls, Len(calls))
  PROVE  WriteFrom(s, calls) = g[Len(calls)]
<1>. DEFINE chosen == CHOOSE h : h = [k \in 0..Len(calls) |->
                                       IF k = 0 THEN s ELSE MakeCall(h[k - 1], calls[k])]
<1>1. WriteFrom(s, calls) = chosen[Len(calls)]
  BY DEF WriteFrom
<1>2. chosen = [k \in 0..Len(calls) |->
                  IF k = 0 THEN s ELSE MakeCall(chosen[k - 1], calls[k])]
  BY Zenon DEF IsRun
<1>3. IsRun(chosen, s, calls, Len(calls))
  BY <1>2 DEF IsRun
<1>4. Len(calls) \in Nat
  OBVIOUS
<1>q. QED  BY <1>1, <1>3, <1>4, RunUnique

LEMMA WriteOne ==
  ASSUME NEW s, NEW call
  PROVE  WriteFrom(s, <<call>>) = MakeCall(s, call)
<1>. DEFINE g == [k \in 0..1 |-> IF k = 0 THEN s ELSE MakeCall(s, call)]
<1>1. <<call>> \in Seq({call}) /\ Len(<<call>>) = 1 /\ <<call>>[1] = call
  OBVIOUS
<1>2. g = [k \in 0..1 |-> IF k = 0 THEN s ELSE MakeCall(g[k - 1], <<call>>[k])]
  <2>1. \A k \in 0..1 : g[k] = IF k = 0 THEN s ELSE MakeCall(g[k - 1], <<call>>[k])
    <3>. SUFFICES ASSUME NEW k \in 0..1
                  PROVE  g[k] = IF k = 0 THEN s ELSE MakeCall(g[k - 1], <<call>>[k])
      OBVIOUS
    <3>1. k = 0 \/ k = 1
      OBVIOUS
    <3>q. QED  BY <1>1, <3>1
  <2>2. g = [k \in 0..1 |-> g[k]]
    OBVIOUS
  <2>. HIDE DEF g
  <2>q. QED  BY <2>1, <2>2, Zenon
<1>3. g[1] = MakeCall(s, call)
  OBVIOUS
<1>. HIDE DEF g
<1>4. IsRun(g, s, <<call>>, Len(<<call>>))
  BY <1>1, <1>2 DEF IsRun
<1>q. QED  BY <1>1, <1>3, <1>4, RunWrites

LEMMA WriteConcat ==
  ASSUME NEW s, NEW S, NEW a \in Seq(S), NEW b \in Seq(S)
  PROVE  WriteFrom(s, a \o b) = WriteFrom(WriteFrom(s, a), b)
<1>1. Len(a) \in Nat /\ Len(b) \in Nat
  OBVIOUS
<1>2. PICK g : IsRun(g, s, a, Len(a))
  BY <1>1, RunExists
<1>3. PICK h : IsRun(h, g[Len(a)], b, Len(b))
  BY <1>1, RunExists
<1>4. WriteFrom(s, a) = g[Len(a)] /\ WriteFrom(g[Len(a)], b) = h[Len(b)]
  BY <1>2, <1>3, RunWrites
<1>. DEFINE m == Len(a)
            n == Len(b)
            f == [k \in 0..(m + n) |-> IF k <= m THEN g[k] ELSE h[k - m]]
<1>5. /\ a \o b \in Seq(S) /\ Len(a \o b) = m + n
      /\ \A k \in 1..(m + n) : (a \o b)[k] = IF k <= m THEN a[k] ELSE b[k - m]
  BY ConcatProperties
<1>6. /\ g[0] = s
      /\ \A k \in 1..m : g[k] = MakeCall(g[k - 1], a[k])
  BY <1>1, <1>2 DEF IsRun
<1>7. /\ h[0] = g[m]
      /\ \A k \in 1..n : h[k] = MakeCall(h[k - 1], b[k])
  BY <1>1, <1>3 DEF IsRun
<1>8. \A k \in 0..(m + n) : f[k] = IF k = 0 THEN s ELSE MakeCall(f[k - 1], (a \o b)[k])
  <2>. SUFFICES ASSUME NEW k \in 0..(m + n)
                PROVE  f[k] = IF k = 0 THEN s ELSE MakeCall(f[k - 1], (a \o b)[k])
    OBVIOUS
  <2>1. CASE k = 0
    <3>1. f[0] = g[0]
      BY <1>1
    <3>. HIDE DEF f
    <3>q. QED  BY <1>6, <2>1, <3>1
  <2>2. CASE k \in 1..m
    <3>1. f[k] = g[k] /\ f[k - 1] = g[k - 1]
      BY <1>1, <2>2
    <3>2. (a \o b)[k] = a[k]
      BY <1>1, <1>5, <2>2
    <3>3. k # 0
      BY <2>2
    <3>. HIDE DEF f
    <3>q. QED  BY <1>6, <2>2, <3>1, <3>2, <3>3
  <2>3. CASE k > m
    <3>1. k - m \in 1..n /\ (k - m) - 1 = (k - 1) - m
      BY <1>1, <2>3
    <3>2. f[k] = h[k - m] /\ f[k - 1] = h[(k - m) - 1]
      <4>1. f[k] = h[k - m]
        BY <1>1, <2>3
      <4>2. k - 1 \in 0..(m + n) /\ k - 1 >= m
        BY <1>1, <2>3
      <4>3. CASE k - 1 = m
        <5>1. f[k - 1] = g[m] /\ (k - m) - 1 = 0
          BY <1>1, <4>2, <4>3
        <5>. HIDE DEF f
        <5>q. QED  BY <1>7, <4>1, <5>1
      <4>4. CASE k - 1 > m
        <5>1. f[k - 1] = h[(k - 1) - m]
          BY <1>1, <4>2, <4>4
        <5>. HIDE DEF f
        <5>q. QED  BY <3>1, <4>1, <5>1
      <4>q. QED  BY <1>1, <4>2, <4>3, <4>4
    <3>3. (a \o b)[k] = b[k - m]
      BY <1>1, <1>5, <2>3
    <3>4. k # 0
      BY <1>1, <2>3
    <3>. HIDE DEF f
    <3>q. QED  BY <1>7, <3>1, <3>2, <3>3, <3>4
  <2>q. QED  BY <1>1, <2>1, <2>2, <2>3
<1>9. f = [k \in 0..(m + n) |-> f[k]]
  OBVIOUS
<1>10. f[m + n] = h[n]
  <2>1. CASE n = 0
    BY <1>1, <1>7, <2>1
  <2>2. CASE n # 0
    BY <1>1, <2>2
  <2>q. QED  BY <2>1, <2>2
<1>. HIDE DEF f
<1>11. f = [k \in 0..(m + n) |-> IF k = 0 THEN s ELSE MakeCall(f[k - 1], (a \o b)[k])]
  BY <1>8, <1>9, Zenon
<1>12. IsRun(f, s, a \o b, Len(a \o b))
  BY <1>5, <1>11 DEF IsRun
<1>13. WriteFrom(s, a \o b) = f[Len(a \o b)]
  BY <1>5, <1>12, RunWrites
<1>q. QED  BY <1>4, <1>5, <1>10, <1>13


-----------------------------------------------------------------------------
(* Part 3.  The calls of the writer                                          *)

Strings == [len : Nat, escapes : Nat]

Calls ==
  [op : {"name", "string"}, arg : Strings] \cup
  [op : {"double"}, arg : 0..DoubleSize] \cup
  [op : {"int32"}, arg : 0..Int32Size] \cup
  [op : {"null", "beginObject", "beginArray", "endObject", "endArray"}]

\* What becomes of w: the call succeeds when what it asks for fits, and when it
\* succeeds the writer follows the grammar.
Results(w, r, fits, n, stack, kind) ==
  /\ fits => r.ok
  /\ r.ok => Wrote(w, r, n, stack, kind)

LEMMA WriterSizes ==
  ASSUME NEW w, FollowsGrammar(w)
  PROVE  /\ Comma(w) \in {0, 1} /\ w.written \in Nat
         /\ Remaining(w) = BufferSize - w.written /\ BufferSize \in Nat
         /\ ~Fails(w).ok
BY WriterAssumption DEF FollowsGrammar, Writers, Comma, Remaining, Fails

LEMMA StringFits ==
  ASSUME NEW w, FollowsGrammar(w), NEW s \in Strings, NEW size \in {2, 3}, Fits(w, s, size)
  PROVE  /\ EscapedLength(s) \in Nat
         /\ w.written + Comma(w) + (size + EscapedLength(s)) <= BufferSize
<1>. DEFINE c == Comma(w)
            n == w.written
            e == EscapedLength(s)
<1>1. /\ c \in {0, 1} /\ n \in Nat /\ Remaining(w) = BufferSize - n /\ BufferSize \in Nat
      /\ e \in Nat /\ ChunkSize \in Nat /\ ChunkSize >= 2
  BY WriterSizes, WriterAssumption DEF Strings, EscapedLength
<1>2. \/ c + size + e <= Remaining(w)
      \/ c + 1 + e + ChunkSize <= Remaining(w)
  BY DEF Fits, SmallFits, ChunkedFits
<1>. HIDE DEF c, n, e
<1>3. n + c + (size + e) <= BufferSize
  BY <1>1, <1>2
<1>q. QED  BY <1>1, <1>3 DEF c, n, e

LEMMA StringCall ==
  ASSUME NEW w, FollowsGrammar(w), ValueValid(w), NEW s \in Strings
  PROVE  Results(w, AppendString(w, s), Fits(w, s, 2), Comma(w) + (2 + EscapedLength(s)),
                 w.stack, "value")
<1>1. CASE Fits(w, s, 2)
  <2>1. EscapedLength(s) \in Nat /\ w.written + Comma(w) + (2 + EscapedLength(s)) <= BufferSize
    BY <1>1, StringFits
  <2>2. 2 + EscapedLength(s) \in Nat /\ "text" \in Scalars
    BY <2>1 DEF Scalars
  <2>3. Wrote(w, AppendString(w, s), Comma(w) + (2 + EscapedLength(s)), w.stack, "value")
    BY <1>1, <2>1, <2>2, ValueWritten DEF AppendString
  <2>q. QED  BY <2>3 DEF Results, Wrote, FollowsGrammar
<1>2. CASE ~Fits(w, s, 2)
  BY <1>2, WriterSizes DEF AppendString, Results
<1>q. QED  BY <1>1, <1>2

LEMMA NameCall ==
  ASSUME NEW w, FollowsGrammar(w), NameValid(w), NEW s \in Strings
  PROVE  Results(w, AppendPropertyName(w, s), Fits(w, s, 3), Comma(w) + (3 + EscapedLength(s)),
                 w.stack, "name")
<1>1. CASE Fits(w, s, 3)
  <2>1. EscapedLength(s) \in Nat /\ w.written + Comma(w) + (3 + EscapedLength(s)) <= BufferSize
    BY <1>1, StringFits
  <2>2. 3 + EscapedLength(s) \in Nat
    BY <2>1
  <2>3. Wrote(w, AppendPropertyName(w, s), Comma(w) + (3 + EscapedLength(s)), w.stack, "name")
    BY <1>1, <2>1, <2>2, NameWritten DEF AppendPropertyName
  <2>q. QED  BY <2>3 DEF Results, Wrote, FollowsGrammar
<1>2. CASE ~Fits(w, s, 3)
  BY <1>2, WriterSizes DEF AppendPropertyName, Results
<1>q. QED  BY <1>1, <1>2

\* Null and the numbers, which ask for `room' and write n bytes.
LEMMA ScalarCall ==
  ASSUME NEW w, FollowsGrammar(w), ValueValid(w), NEW t \in Scalars,
         NEW room \in Nat, NEW n \in 0..room
  PROVE  Results(w,
                 IF Comma(w) + room <= Remaining(w) THEN ValueAppended(w, n, t) ELSE Fails(w),
                 Comma(w) + room <= Remaining(w), Comma(w) + n, w.stack, "value")
<1>1. CASE Comma(w) + room <= Remaining(w)
  <2>1. n \in Nat /\ w.written + Comma(w) + n <= BufferSize
    BY <1>1, WriterSizes
  <2>2. Wrote(w, ValueAppended(w, n, t), Comma(w) + n, w.stack, "value")
    BY <2>1, ValueWritten
  <2>q. QED  BY <1>1, <2>2 DEF Results, Wrote, FollowsGrammar
<1>2. CASE ~(Comma(w) + room <= Remaining(w))
  BY <1>2, WriterSizes DEF Results
<1>q. QED  BY <1>1, <1>2

LEMMA NullCall ==
  ASSUME NEW w, FollowsGrammar(w), ValueValid(w)
  PROVE  Results(w, AppendNull(w), Comma(w) + 4 <= Remaining(w), Comma(w) + 4, w.stack, "value")
<1>1. "null" \in Scalars
  BY DEF Scalars
<1>q. QED  BY <1>1, ScalarCall DEF AppendNull

LEMMA Int32Call ==
  ASSUME NEW w, FollowsGrammar(w), ValueValid(w), NEW n \in 0..Int32Size
  PROVE  Results(w, AppendInt32(w, n), Comma(w) + Int32Size <= Remaining(w), Comma(w) + n,
                 w.stack, "value")
<1>1. "number" \in Scalars
  BY DEF Scalars
<1>q. QED  BY <1>1, ScalarCall, WriterAssumption DEF AppendInt32

LEMMA DoubleCall ==
  ASSUME NEW w, FollowsGrammar(w), ValueValid(w), NEW n \in 0..DoubleSize
  PROVE  Results(w, AppendDouble(w, n), Comma(w) + DoubleSize <= Remaining(w), Comma(w) + n,
                 w.stack, "value")
<1>1. "number" \in Scalars
  BY DEF Scalars
<1>q. QED  BY <1>1, ScalarCall, WriterAssumption DEF AppendDouble

LEMMA StartCall ==
  ASSUME NEW w, FollowsGrammar(w), ValueValid(w), NEW c \in Containers, NEW t,
         t = IF c = "object" THEN "openObject" ELSE "openArray"
  PROVE  Results(w, AppendContainerStart(w, c, t),
                 Len(w.stack) < MaxDepth /\ Comma(w) + 1 <= Remaining(w),
                 Comma(w) + 1, <<c>> \o w.stack, "begin")
<1>. DEFINE fits == Len(w.stack) < MaxDepth /\ Comma(w) + 1 <= Remaining(w)
            r == AppendContainerStart(w, c, t)
<1>1. CASE fits
  <2>1. w.written + Comma(w) + 1 <= BufferSize
    BY <1>1, WriterSizes
  <2>2. Wrote(w, [Appended(w, 1, FALSE, "begin", Reads(AfterComma(w), t))
                    EXCEPT !.stack = <<c>> \o @], Comma(w) + 1, <<c>> \o w.stack, "begin")
    BY <2>1, StartWritten
  <2>3. r = [Appended(w, 1, FALSE, "begin", Reads(AfterComma(w), t)) EXCEPT !.stack = <<c>> \o @]
    BY <1>1 DEF AppendContainerStart
  <2>. HIDE DEF r, fits
  <2>4. Wrote(w, r, Comma(w) + 1, <<c>> \o w.stack, "begin")
    BY <2>2, <2>3
  <2>q. QED  BY <2>4 DEF Results, Wrote, FollowsGrammar, r, fits
<1>2. CASE ~fits
  BY <1>2, WriterSizes DEF AppendContainerStart, Results
<1>q. QED  BY <1>1, <1>2

LEMMA EndCall ==
  ASSUME NEW w, FollowsGrammar(w), NEW c \in Containers, EndValid(w, c), NEW t,
         t = IF c = "object" THEN "closeObject" ELSE "closeArray"
  PROVE  Results(w, AppendContainerEnd(w, t), 1 <= Remaining(w), 1, Tail(w.stack), "end")
<1>1. CASE 1 <= Remaining(w)
  <2>1. Wrote(w, AppendContainerEnd(w, t), 1, Tail(w.stack), "end")
    BY <1>1, EndWritten
  <2>q. QED  BY <2>1 DEF Results, Wrote, FollowsGrammar
<1>2. CASE ~(1 <= Remaining(w))
  BY <1>2, WriterSizes DEF AppendContainerEnd, Results
<1>q. QED  BY <1>1, <1>2

\* Any call of the API that its rules allow.
LEMMA AnyCall ==
  ASSUME NEW w, FollowsGrammar(w), NEW call \in Calls, CallValid(w, call), Call(w, call).ok
  PROVE  FollowsGrammar(Call(w, call))
<1>1. CASE call \in [op : {"name"}, arg : Strings]
  <2>1. call.op = "name" /\ call.arg \in Strings
    BY <1>1
  <2>2. NameValid(w) /\ Call(w, call) = AppendPropertyName(w, call.arg)
    BY <2>1 DEF Call, CallValid
  <2>q. QED  BY <2>1, <2>2, NameCall DEF Results, Wrote
<1>2. CASE call \in [op : {"string"}, arg : Strings]
  <2>1. call.op = "string" /\ call.arg \in Strings
    BY <1>2
  <2>2. ValueValid(w) /\ Call(w, call) = AppendString(w, call.arg)
    BY <2>1 DEF Call, CallValid
  <2>q. QED  BY <2>1, <2>2, StringCall DEF Results, Wrote
<1>3. CASE call \in [op : {"double"}, arg : 0..DoubleSize]
  <2>1. call.op = "double" /\ call.arg \in 0..DoubleSize
    BY <1>3
  <2>2. ValueValid(w) /\ Call(w, call) = AppendDouble(w, call.arg)
    BY <2>1 DEF Call, CallValid
  <2>q. QED  BY <2>1, <2>2, DoubleCall DEF Results, Wrote
<1>4. CASE call \in [op : {"int32"}, arg : 0..Int32Size]
  <2>1. call.op = "int32" /\ call.arg \in 0..Int32Size
    BY <1>4
  <2>2. ValueValid(w) /\ Call(w, call) = AppendInt32(w, call.arg)
    BY <2>1 DEF Call, CallValid
  <2>q. QED  BY <2>1, <2>2, Int32Call DEF Results, Wrote
<1>5. CASE call.op = "null"
  <2>1. ValueValid(w) /\ Call(w, call) = AppendNull(w)
    BY <1>5 DEF Call, CallValid
  <2>q. QED  BY <2>1, NullCall DEF Results, Wrote
<1>6. CASE call.op = "beginObject"
  <2>1. ValueValid(w) /\ Call(w, call) = AppendContainerStart(w, "object", "openObject")
    BY <1>6 DEF Call, CallValid, AppendBeginObject
  <2>q. QED  BY <2>1, StartCall DEF Results, Wrote, Containers
<1>7. CASE call.op = "beginArray"
  <2>1. ValueValid(w) /\ Call(w, call) = AppendContainerStart(w, "array", "openArray")
    BY <1>7 DEF Call, CallValid, AppendBeginArray
  <2>q. QED  BY <2>1, StartCall DEF Results, Wrote, Containers
<1>8. CASE call.op = "endObject"
  <2>1. EndValid(w, "object") /\ Call(w, call) = AppendContainerEnd(w, "closeObject")
    BY <1>8 DEF Call, CallValid, AppendEndObject
  <2>q. QED  BY <2>1, EndCall DEF Results, Wrote, Containers
<1>9. CASE call.op = "endArray"
  <2>1. EndValid(w, "array") /\ Call(w, call) = AppendContainerEnd(w, "closeArray")
    BY <1>9 DEF Call, CallValid, AppendEndArray
  <2>q. QED  BY <2>1, EndCall DEF Results, Wrote, Containers
<1>q. QED  BY <1>1, <1>2, <1>3, <1>4, <1>5, <1>6, <1>7, <1>8, <1>9 DEF Calls

LEMMA NewFollowsGrammar == FollowsGrammar(NewWriter)
<1>1. <<>> \in Stacks
  BY DEF Stacks
<1>2. NewWriter \in Writers
  BY <1>1 DEF NewWriter, Writers, Kinds, Texts, NothingRead
<1>q. QED  BY <1>2, WriterAssumption DEF FollowsGrammar, NewWriter, NothingRead, Expected

\* Whatever calls are made in whatever order: as long as they keep the rules of the
\* writer (value, name or end where one may stand) and none fails, what is in the
\* buffer is the beginning of a JSON text, no longer than the buffer, and what the
\* writer remembers of it (comma, kind of the last token, open containers) is what the
\* grammar says.
THEOREM WriterFollowsGrammar ==
  ASSUME NEW calls \in Seq(Calls), Write(calls).valid, Write(calls).writer.ok
  PROVE  FollowsGrammar(Write(calls).writer)
<1>. DEFINE s == [writer |-> NewWriter, valid |-> TRUE]
            Fine(t) == t.valid /\ t.writer.ok => FollowsGrammar(t.writer)
<1>1. Len(calls) \in Nat /\ \A k \in 1..Len(calls) : calls[k] \in Calls
  OBVIOUS
<1>2. PICK g : IsRun(g, s, calls, Len(calls))
  BY <1>1, RunExists
<1>3. g[0] = s /\ \A k \in 1..Len(calls) : g[k] = MakeCall(g[k - 1], calls[k])
  <2>. HIDE DEF s
  <2>q. QED  BY <1>1, <1>2 DEF IsRun
<1>4. Write(calls) = g[Len(calls)]
  BY <1>2, RunWrites DEF Write
<1>. DEFINE T == {k \in Nat : k <= Len(calls) => Fine(g[k])}
<1>5. 0 \in T
  BY <1>3, NewFollowsGrammar
<1>6. ASSUME NEW t, Fine(t), NEW call \in Calls
      PROVE  Fine(MakeCall(t, call))
  <2>1. CASE ~t.writer.ok
    BY <1>6, <2>1 DEF MakeCall
  <2>2. CASE t.writer.ok
    <3>. DEFINE v == t.valid /\ CallValid(t.writer, call)
    <3>1. MakeCall(t, call) = [writer |-> Call(t.writer, call), valid |-> v]
      BY <2>2 DEF MakeCall
    <3>2. v => t.valid /\ CallValid(t.writer, call)
      OBVIOUS
    <3>. HIDE DEF v
    <3>3. MakeCall(t, call).valid = v /\ MakeCall(t, call).writer = Call(t.writer, call)
      BY <3>1
    <3>q. QED  BY <1>6, <2>2, <3>2, <3>3, AnyCall
  <2>q. QED  BY <2>1, <2>2
<1>7. ASSUME NEW k \in Nat \cap T
      PROVE  k + 1 \in T
  <2>. SUFFICES ASSUME k + 1 <= Len(calls) PROVE Fine(g[k + 1])
    OBVIOUS
  <2>1. Fine(g[k]) /\ k + 1 \in 1..Len(calls) /\ (k + 1) - 1 = k
    BY <1>1
  <2>2. g[k + 1] = MakeCall(g[k], calls[k + 1]) /\ calls[k + 1] \in Calls
    BY <1>1, <1>3, <2>1
  <2>. HIDE DEF Fine
  <2>q. QED  BY <1>6, <2>1, <2>2
<1>. HIDE DEF T
<1>8. Len(calls) \in T
  BY <1>1, <1>5, <1>7, SetInduction
<1>q. QED  BY <1>4, <1>8 DEF T


-----------------------------------------------------------------------------
(* Part 4.  The parts of a message                                           *)

\* The sizes of the firmware: its buffer and the writer's constants.
FirmwareSizes ==
  /\ BufferSize >= 200
  /\ ChunkSize <= 64
  /\ SmallString >= 10
  /\ Int32Size <= 11
  /\ DoubleSize <= 33
  /\ MaxDepth >= 3

Going(w) == [writer |-> w, valid |-> TRUE]

\* Where calls may be made: for a value, for a further value of an array, or for a name.
StandsAt(w, place) ==
  CASE place = "value" -> ValueValid(w)
    [] place = "item" -> w.stack # <<>> /\ ~InObject(w)
    [] place = "member" -> NameValid(w)

\* What calls made from w come to: they keep the rules of the writer and leave it after
\* a value, with the same containers open; and where there is room for `need' bytes and
\* `depth' containers they succeed and write no more than `use' bytes.
Leads(w, f, use, need, depth) ==
  /\ f = Going(f.writer)
  /\ f.writer.ok => /\ FollowsGrammar(f.writer)
                    /\ f.writer.stack = w.stack
                    /\ f.writer.kind \in {"value", "end"}
  /\ /\ FirmwareSizes
     /\ w.written + Comma(w) + need <= BufferSize
     /\ Len(w.stack) + depth <= MaxDepth
     => f.writer.ok /\ f.writer.written <= w.written + Comma(w) + use

Writes(calls, place, use, need, depth) ==
  /\ calls \in Seq(Calls)
  /\ \A w : FollowsGrammar(w) /\ StandsAt(w, place) =>
       Leads(w, WriteFrom(Going(w), calls), use, need, depth)

LEMMA GoingOn ==
  ASSUME NEW w, w.ok, NEW call, CallValid(w, call)
  PROVE  /\ MakeCall(Going(w), call) = Going(Call(w, call))
         /\ WriteFrom(Going(w), <<call>>) = Going(Call(w, call))
<1>1. Going(w).writer = w /\ Going(w).valid = TRUE
  BY DEF Going
<1>2. (Going(w).valid /\ CallValid(w, call)) = TRUE
  BY <1>1
<1>3. MakeCall(Going(w), call)
        = [writer |-> Call(w, call), valid |-> Going(w).valid /\ CallValid(w, call)]
  BY <1>1 DEF MakeCall
<1>4. MakeCall(Going(w), call) = Going(Call(w, call))
  BY <1>2, <1>3 DEF Going
<1>q. QED  BY <1>4, WriteOne

\* A message that has failed stays as it is.
LEMMA Stopped ==
  ASSUME NEW s, ~s.writer.ok, NEW S, NEW calls \in Seq(S)
  PROVE  WriteFrom(s, calls) = s
<1>1. Len(calls) \in Nat
  OBVIOUS
<1>. DEFINE g == [k \in 0..Len(calls) |-> s]
<1>2. \A k \in 0..Len(calls) : g[k] = IF k = 0 THEN s ELSE MakeCall(g[k - 1], calls[k])
  BY <1>1 DEF MakeCall
<1>3. g = [k \in 0..Len(calls) |-> g[k]] /\ g[Len(calls)] = s
  BY <1>1
<1>. HIDE DEF g
<1>4. IsRun(g, s, calls, Len(calls))
  BY <1>2, <1>3, Zenon DEF IsRun
<1>q. QED  BY <1>3, <1>4, RunWrites

\* One call that writes a value.
ValueFits(w, r, use, need) ==
  /\ r.ok => \E n \in Nat : /\ Wrote(w, r, Comma(w) + n, w.stack, "value")
                            /\ FirmwareSizes => n <= use
  /\ FirmwareSizes /\ w.written + Comma(w) + need <= BufferSize => r.ok

LEMMA OneValue ==
  ASSUME NEW call \in Calls, NEW use \in Nat, NEW need \in Nat,
         \A w : FollowsGrammar(w) /\ ValueValid(w) =>
           CallValid(w, call) /\ ValueFits(w, Call(w, call), use, need)
  PROVE  Writes(<<call>>, "value", use, need, 0)
<1>1. <<call>> \in Seq(Calls)
  OBVIOUS
<1>2. ASSUME NEW w, FollowsGrammar(w), ValueValid(w)
      PROVE  Leads(w, WriteFrom(Going(w), <<call>>), use, need, 0)
  <2>1. CallValid(w, call)
    BY <1>2
  <2>. DEFINE r == Call(w, call)
              f == WriteFrom(Going(w), <<call>>)
  <2>2. ValueFits(w, r, use, need)
    BY <1>2
  <2>3. f = Going(r) /\ f.writer = r
    BY <1>2, <2>1, GoingOn DEF FollowsGrammar, Going
  <2>. HIDE DEF r, f
  <2>4. ASSUME r.ok
        PROVE  \E n \in Nat : /\ Wrote(w, r, Comma(w) + n, w.stack, "value")
                              /\ FirmwareSizes => n <= use
    BY <2>2, <2>4 DEF ValueFits
  <2>5. FirmwareSizes /\ w.written + Comma(w) + need <= BufferSize => r.ok
    BY <2>2 DEF ValueFits
  <2>6. w.written \in Nat /\ Comma(w) \in Nat
    BY <1>2, WriterSizes
  <2>7. \A n \in Nat : n <= use => w.written + (Comma(w) + n) <= w.written + Comma(w) + use
    BY <2>6
  <2>8. ASSUME r.ok
        PROVE  /\ FollowsGrammar(r) /\ r.stack = w.stack /\ r.kind \in {"value", "end"}
               /\ FirmwareSizes => r.written <= w.written + Comma(w) + use
    BY <2>4, <2>7, <2>8 DEF Wrote
  <2>q. QED  BY <2>3, <2>5, <2>8 DEF Leads, f
<1>q. QED  BY <1>1, <1>2 DEF Writes, StandsAt

LEMMA StringRoom ==
  ASSUME NEW w, FollowsGrammar(w), NEW s \in Strings, NEW size \in {2, 3}, NEW room \in Nat,
         FirmwareSizes, w.written + Comma(w) + room <= BufferSize,
         IF s.len <= 10 THEN EscapedLength(s) + size <= room ELSE EscapedLength(s) + 65 <= room
  PROVE  Fits(w, s, size)
<1>. DEFINE c == Comma(w)
            n == w.written
            e == EscapedLength(s)
<1>1. /\ c \in {0, 1} /\ n \in Nat /\ Remaining(w) = BufferSize - n /\ BufferSize \in Nat
      /\ e \in Nat /\ s.len \in Nat
  BY WriterSizes DEF Strings, EscapedLength
<1>2. ChunkSize \in Nat /\ ChunkSize <= 64 /\ SmallString \in Nat /\ SmallString >= 10
  BY WriterAssumption DEF FirmwareSizes
<1>3. n + c + room <= BufferSize
  OBVIOUS
<1>4. CASE s.len <= SmallString
  <2>1. e + size <= room
    BY <1>1
  <2>. HIDE DEF c, n, e
  <2>2. c + size + e <= Remaining(w)
    BY <1>1, <1>3, <2>1
  <2>q. QED  BY <1>4, <2>2 DEF Fits, SmallFits, c, e
<1>5. CASE ~(s.len <= SmallString)
  <2>1. e + 65 <= room
    BY <1>1, <1>2, <1>5
  <2>. HIDE DEF c, n, e
  <2>2. c + 1 + e + ChunkSize <= Remaining(w)
    BY <1>1, <1>2, <1>3, <2>1
  <2>q. QED  BY <1>5, <2>2 DEF Fits, ChunkedFits, c, e
<1>q. QED  BY <1>4, <1>5

LEMMA StringWrites ==
  ASSUME NEW s \in Strings, NEW use \in Nat, NEW need \in Nat,
         FirmwareSizes =>
           /\ EscapedLength(s) + 2 <= use
           /\ IF s.len <= 10 THEN EscapedLength(s) + 2 <= need ELSE EscapedLength(s) + 65 <= need
  PROVE  Writes(With("string", s), "value", use, need, 0)
<1>. DEFINE call == [op |-> "string", arg |-> s]
            n == 2 + EscapedLength(s)
<1>1. call \in Calls /\ With("string", s) = <<call>> /\ call.op = "string" /\ call.arg = s
  BY DEF Calls, With
<1>2. n \in Nat
  BY DEF EscapedLength, Strings
<1>3. ASSUME NEW w, FollowsGrammar(w), ValueValid(w)
      PROVE  CallValid(w, call) /\ ValueFits(w, Call(w, call), use, need)
  <2>1. CallValid(w, call) /\ Call(w, call) = AppendString(w, s)
    BY <1>1, <1>3 DEF CallValid, Call
  <2>2. Results(w, Call(w, call), Fits(w, s, 2), Comma(w) + n, w.stack, "value")
    BY <1>3, <2>1, StringCall
  <2>3. FirmwareSizes => n <= use
    BY DEF EscapedLength, Strings
  <2>4. FirmwareSizes /\ w.written + Comma(w) + need <= BufferSize => Fits(w, s, 2)
    BY <1>3, StringRoom
  <2>. HIDE DEF n, call
  <2>q. QED  BY <1>2, <2>1, <2>2, <2>3, <2>4 DEF ValueFits, Results
<1>. HIDE DEF call
<1>q. QED  BY <1>1, <1>3, OneValue

LEMMA NullWrites == Writes(Do("null"), "value", 4, 4, 0)
<1>. DEFINE call == [op |-> "null"]
<1>1. call \in Calls /\ Do("null") = <<call>> /\ call.op = "null"
  BY DEF Calls, Do
<1>2. ASSUME NEW w, FollowsGrammar(w), ValueValid(w)
      PROVE  CallValid(w, call) /\ ValueFits(w, Call(w, call), 4, 4)
  <2>. DEFINE fits == Comma(w) + 4 <= Remaining(w)
  <2>1. CallValid(w, call) /\ Call(w, call) = AppendNull(w)
    BY <1>1, <1>2 DEF CallValid, Call
  <2>2. Results(w, Call(w, call), fits, Comma(w) + 4, w.stack, "value")
    BY <1>2, <2>1, NullCall
  <2>3. w.written + Comma(w) + 4 <= BufferSize => fits
    BY <1>2, WriterSizes
  <2>. HIDE DEF fits, call
  <2>q. QED  BY <2>1, <2>2, <2>3 DEF ValueFits, Results
<1>. HIDE DEF call
<1>q. QED  BY <1>1, <1>2, OneValue

\* A number, of either kind.
LEMMA NumberWrites ==
  ASSUME NEW n \in Nat, NEW use \in Nat, n <= use
  PROVE  /\ n <= Int32Size => Writes(With("int32", n), "value", use, 11, 0)
         /\ n <= DoubleSize => Writes(With("double", n), "value", use, 33, 0)
<1>1. ASSUME n <= Int32Size
      PROVE  Writes(With("int32", n), "value", use, 11, 0)
  <2>. DEFINE call == [op |-> "int32", arg |-> n]
  <2>1. /\ n \in 0..Int32Size /\ With("int32", n) = <<call>>
        /\ call.op = "int32" /\ call.arg = n
    BY <1>1, WriterAssumption DEF With
  <2>2. call \in Calls
    BY <2>1 DEF Calls
  <2>3. ASSUME NEW w, FollowsGrammar(w), ValueValid(w)
        PROVE  CallValid(w, call) /\ ValueFits(w, Call(w, call), use, 11)
    <3>. DEFINE fits == Comma(w) + Int32Size <= Remaining(w)
    <3>1. CallValid(w, call) /\ Call(w, call) = AppendInt32(w, n)
      BY <2>1, <2>3 DEF CallValid, Call
    <3>2. Results(w, Call(w, call), fits, Comma(w) + n, w.stack, "value")
      BY <2>1, <2>3, <3>1, Int32Call
    <3>3. FirmwareSizes /\ w.written + Comma(w) + 11 <= BufferSize => fits
      BY <2>3, WriterSizes, WriterAssumption DEF FirmwareSizes
    <3>. HIDE DEF fits, call
    <3>q. QED  BY <3>1, <3>2, <3>3 DEF ValueFits, Results
  <2>. HIDE DEF call
  <2>q. QED  BY <2>1, <2>2, <2>3, OneValue
<1>2. ASSUME n <= DoubleSize
      PROVE  Writes(With("double", n), "value", use, 33, 0)
  <2>. DEFINE call == [op |-> "double", arg |-> n]
  <2>1. /\ n \in 0..DoubleSize /\ With("double", n) = <<call>>
        /\ call.op = "double" /\ call.arg = n
    BY <1>2, WriterAssumption DEF With
  <2>2. call \in Calls
    BY <2>1 DEF Calls
  <2>3. ASSUME NEW w, FollowsGrammar(w), ValueValid(w)
        PROVE  CallValid(w, call) /\ ValueFits(w, Call(w, call), use, 33)
    <3>. DEFINE fits == Comma(w) + DoubleSize <= Remaining(w)
    <3>1. CallValid(w, call) /\ Call(w, call) = AppendDouble(w, n)
      BY <2>1, <2>3 DEF CallValid, Call
    <3>2. Results(w, Call(w, call), fits, Comma(w) + n, w.stack, "value")
      BY <2>1, <2>3, <3>1, DoubleCall
    <3>3. FirmwareSizes /\ w.written + Comma(w) + 33 <= BufferSize => fits
      BY <2>3, WriterSizes, WriterAssumption DEF FirmwareSizes
    <3>. HIDE DEF fits, call
    <3>q. QED  BY <3>1, <3>2, <3>3 DEF ValueFits, Results
  <2>. HIDE DEF call
  <2>q. QED  BY <2>1, <2>2, <2>3, OneValue
<1>q. QED  BY <1>1, <1>2

\* Calls after calls, from where the first lead.
LEMMA LeadsOn ==
  ASSUME NEW w, FollowsGrammar(w), NEW v, FollowsGrammar(v), v.stack = w.stack,
         NEW before \in Nat, NEW use \in Nat, NEW need \in Nat, NEW depth \in Nat,
         NEW total \in Nat, NEW room \in Nat, NEW height \in Nat,
         before + use <= total, before + need <= room, depth <= height,
         NEW f, Leads(v, f, use, need, depth),
         /\ FirmwareSizes
         /\ w.written + Comma(w) + room <= BufferSize
         /\ Len(w.stack) + height <= MaxDepth
         => v.written + Comma(v) <= w.written + Comma(w) + before
  PROVE  Leads(w, f, total, room, height)
<1>1. /\ f = Going(f.writer)
      /\ f.writer.ok => /\ FollowsGrammar(f.writer)
                        /\ f.writer.stack = w.stack
                        /\ f.writer.kind \in {"value", "end"}
  BY DEF Leads
<1>2. ASSUME FirmwareSizes, w.written + Comma(w) + room <= BufferSize,
             Len(w.stack) + height <= MaxDepth
      PROVE  f.writer.ok /\ f.writer.written <= w.written + Comma(w) + total
  <2>. DEFINE m == w.written + Comma(w)
              n == v.written + Comma(v)
  <2>1. m \in Nat /\ n \in Nat /\ BufferSize \in Nat
    <3>1. /\ w.written \in Nat /\ Comma(w) \in {0, 1} /\ BufferSize \in Nat
          /\ v.written \in Nat /\ Comma(v) \in {0, 1}
      BY WriterSizes
    <3>q. QED  BY <3>1
  <2>2. n <= m + before /\ m + room <= BufferSize
    BY <1>2
  <2>3. Leads(v, f, use, need, depth)
    OBVIOUS
  <2>4. n + need <= BufferSize /\ n + use <= m + total
    <3>. HIDE DEF m, n
    <3>q. QED  BY <2>1, <2>2
  <2>5. f.writer.ok /\ f.writer.written <= n + use
    <3>1. Len(v.stack) + depth <= MaxDepth
      BY <1>2, WriterAssumption DEF FollowsGrammar, Writers, Stacks
    <3>q. QED  BY <1>2, <2>3, <2>4, <3>1 DEF Leads
  <2>6. f.writer.written \in Nat
    BY <1>1, <2>5, WriterSizes
  <2>7. f.writer.written <= m + total
    <3>. HIDE DEF m, n
    <3>1. f.writer.written <= n + use /\ n + use <= m + total
      BY <2>4, <2>5
    <3>q. QED  BY ONLY <2>1, <2>6, <3>1, use \in Nat, total \in Nat
  <2>q. QED  BY <2>5, <2>7
<1>q. QED  BY <1>1, <1>2 DEF Leads

\* Where there is room for much there is room for less.
LEMMA RoomForLess ==
  ASSUME NEW w, FollowsGrammar(w),
         NEW need1 \in Nat, NEW depth1 \in Nat, NEW need \in Nat, NEW depth \in Nat,
         need1 <= need, depth1 <= depth
  PROVE  /\ w.written + Comma(w) + need <= BufferSize =>
              w.written + Comma(w) + need1 <= BufferSize
         /\ Len(w.stack) + depth <= MaxDepth => Len(w.stack) + depth1 <= MaxDepth
<1>. DEFINE n == w.written + Comma(w)
            l == Len(w.stack)
<1>1. n \in Nat /\ l \in Nat
  BY WriterSizes DEF FollowsGrammar, Writers, Stacks
<1>2. BufferSize \in Nat /\ MaxDepth \in Nat
  BY WriterAssumption
<1>. HIDE DEF n, l
<1>3. n + need <= BufferSize => n + need1 <= BufferSize
  BY ONLY <1>1, <1>2, need1 <= need, need1 \in Nat, need \in Nat
<1>4. l + depth <= MaxDepth => l + depth1 <= MaxDepth
  BY ONLY <1>1, <1>2, depth1 <= depth, depth1 \in Nat, depth \in Nat
<1>q. QED  BY ONLY <1>3, <1>4 DEF n, l

\* Members of an object, or items of an array, one after the other.
LEMMA Joined ==
  ASSUME NEW place \in {"item", "member"},
         NEW a, NEW use1 \in Nat, NEW need1 \in Nat, NEW depth1 \in Nat,
         NEW b, NEW use2 \in Nat, NEW need2 \in Nat, NEW depth2 \in Nat,
         Writes(a, place, use1, need1, depth1), Writes(b, place, use2, need2, depth2),
         NEW use \in Nat, NEW need \in Nat, NEW depth \in Nat,
         use1 + 1 + use2 <= use, need1 <= need, use1 + 1 + need2 <= need,
         depth1 <= depth, depth2 <= depth
  PROVE  Writes(a \o b, place, use, need, depth)
<1>1. a \in Seq(Calls) /\ b \in Seq(Calls)
  BY DEF Writes
<1>2. a \o b \in Seq(Calls)
  BY <1>1
<1>3. ASSUME NEW w, FollowsGrammar(w), StandsAt(w, place)
      PROVE  Leads(w, WriteFrom(Going(w), a \o b), use, need, depth)
  <2>. DEFINE f == WriteFrom(Going(w), a)
              g == WriteFrom(f, b)
              v == f.writer
  <2>1. WriteFrom(Going(w), a \o b) = g
    BY <1>1, WriteConcat
  <2>2. Leads(w, f, use1, need1, depth1)
    BY <1>3 DEF Writes
  <2>3. CASE ~v.ok
    <3>1. g = f
      BY <1>1, <2>3, Stopped
    <3>2. f = Going(v)
      BY <2>2 DEF Leads
    <3>3. /\ w.written + Comma(w) + need <= BufferSize =>
               w.written + Comma(w) + need1 <= BufferSize
          /\ Len(w.stack) + depth <= MaxDepth => Len(w.stack) + depth1 <= MaxDepth
      BY <1>3, RoomForLess
    <3>. HIDE DEF f, g
    <3>q. QED  BY <2>1, <2>2, <2>3, <3>1, <3>2, <3>3 DEF Leads
  <2>4. CASE v.ok
    <3>1. /\ f = Going(v) /\ FollowsGrammar(v) /\ v.stack = w.stack
          /\ v.kind \in {"value", "end"}
      BY <2>2, <2>4 DEF Leads
    <3>2. StandsAt(v, place)
      BY <1>3, <3>1 DEF StandsAt, NameValid, InObject
    <3>. HIDE DEF v
    <3>3. Leads(v, g, use2, need2, depth2)
      BY <3>1, <3>2 DEF Writes
    <3>4. ASSUME FirmwareSizes, w.written + Comma(w) + need <= BufferSize,
                 Len(w.stack) + depth <= MaxDepth
          PROVE  v.written + Comma(v) <= w.written + Comma(w) + (use1 + 1)
      <4>1. /\ w.written + Comma(w) + need1 <= BufferSize
            /\ Len(w.stack) + depth1 <= MaxDepth
        BY <1>3, <3>4, RoomForLess
      <4>2. v.written <= w.written + Comma(w) + use1
        BY <2>2, <3>4, <4>1 DEF Leads, v
      <4>q. QED  BY <1>3, <3>1, <4>2, WriterSizes
    <3>5. /\ use1 + 1 \in Nat /\ (use1 + 1) + use2 <= use /\ (use1 + 1) + need2 <= need
      OBVIOUS
    <3>6. Leads(w, g, use, need, depth)
      <4>. HIDE DEF g
      <4>q. QED  BY ONLY <1>3, <3>1, <3>3, <3>4, <3>5, depth2 <= depth, use2 \in Nat,
                   need2 \in Nat, depth2 \in Nat, use \in Nat, need \in Nat,
                   depth \in Nat, LeadsOn
    <3>q. QED  BY <2>1, <3>6
  <2>q. QED  BY <2>3, <2>4
<1>q. QED  BY <1>2, <1>3 DEF Writes

\* A name and its value.
LEMMA Named ==
  ASSUME NEW s \in Strings,
         NEW v, NEW use1 \in Nat, NEW need1 \in Nat, NEW depth \in Nat,
         Writes(v, "value", use1, need1, depth),
         NEW use \in Nat, NEW need \in Nat,
         EscapedLength(s) + 3 + use1 <= use, EscapedLength(s) + 3 + need1 <= need,
         s.len > 10 => EscapedLength(s) + 65 <= need
  PROVE  Writes(With("name", s) \o v, "member", use, need, depth)
<1>. DEFINE call == [op |-> "name", arg |-> s]
            n == 3 + EscapedLength(s)
<1>1. /\ call \in Calls /\ With("name", s) = <<call>> /\ call.op = "name" /\ call.arg = s
      /\ n \in Nat /\ v \in Seq(Calls)
  <2>1. call \in Calls
    BY DEF Calls
  <2>2. n \in Nat
    BY DEF EscapedLength, Strings
  <2>3. v \in Seq(Calls)
    BY DEF Writes
  <2>q. QED  BY <2>1, <2>2, <2>3 DEF With
<1>. HIDE DEF call
<1>2. <<call>> \in Seq(Calls) /\ <<call>> \o v \in Seq(Calls)
  BY <1>1
<1>3. ASSUME NEW w, FollowsGrammar(w), NameValid(w)
      PROVE  Leads(w, WriteFrom(Going(w), <<call>> \o v), use, need, depth)
  <2>. DEFINE r == AppendPropertyName(w, s)
              g == WriteFrom(Going(r), v)
  <2>1. CallValid(w, call) /\ Call(w, call) = r
    BY <1>1, <1>3 DEF CallValid, Call
  <2>2. WriteFrom(Going(w), <<call>>) = Going(r)
    BY <1>3, <2>1, GoingOn DEF FollowsGrammar
  <2>3. WriteFrom(Going(w), <<call>> \o v) = g
    <3>. DEFINE one == <<call>>
    <3>1. one \in Seq(Calls) /\ v \in Seq(Calls) /\ WriteFrom(Going(w), one) = Going(r)
      BY <1>1, <1>2, <2>2
    <3>. HIDE DEF one, r
    <3>2. WriteFrom(Going(w), one \o v) = g
      BY ONLY <3>1, WriteConcat
    <3>q. QED  BY <3>2 DEF one
  <2>4. Results(w, r, Fits(w, s, 3), Comma(w) + n, w.stack, "name")
    BY <1>3, NameCall
  <2>5. ASSUME FirmwareSizes, w.written + Comma(w) + need <= BufferSize
        PROVE  r.ok
    <3>1. IF s.len <= 10 THEN EscapedLength(s) + 3 <= need ELSE EscapedLength(s) + 65 <= need
      BY DEF EscapedLength, Strings
    <3>2. Fits(w, s, 3)
      BY <1>3, <2>5, <3>1, StringRoom
    <3>q. QED  BY <2>4, <3>2 DEF Results
  <2>. HIDE DEF r
  <2>6. CASE ~r.ok
    <3>1. Going(r).writer = r
      BY DEF Going
    <3>2. g = Going(r)
      BY <1>1, <2>6, <3>1, Stopped
    <3>. HIDE DEF g
    <3>q. QED  BY <2>3, <2>5, <2>6, <3>1, <3>2 DEF Leads
  <2>7. CASE r.ok
    <3>1. /\ FollowsGrammar(r) /\ r.stack = w.stack /\ r.kind = "name"
          /\ r.written = w.written + (Comma(w) + n)
      BY <2>4, <2>7 DEF Results, Wrote
    <3>2. ValueValid(r) /\ Comma(r) = 0
      BY <3>1 DEF FollowsGrammar, ValueValid, Comma
    <3>3. Leads(r, g, use1, need1, depth)
      BY <3>1, <3>2 DEF Writes, StandsAt
    <3>4. r.written + Comma(r) <= w.written + Comma(w) + n
      <4>1. w.written \in Nat /\ Comma(w) \in {0, 1} /\ n \in Nat
        BY <1>1, <1>3, WriterSizes
      <4>2. r.written = w.written + (Comma(w) + n)
        BY <3>1
      <4>3. Comma(r) = 0
        BY <3>2
      <4>. HIDE DEF n
      <4>q. QED  BY ONLY <4>1, <4>2, <4>3
    <3>5. n + use1 <= use /\ n + need1 <= need /\ depth <= depth
      BY <1>1 DEF EscapedLength, Strings
    <3>6. Leads(w, g, use, need, depth)
      <4>. HIDE DEF g, n
      <4>q. QED  BY ONLY <1>1, <1>3, <3>1, <3>3, <3>4, <3>5, use1 \in Nat, need1 \in Nat,
                   depth \in Nat, use \in Nat, need \in Nat, LeadsOn
    <3>q. QED  BY <2>3, <3>6
  <2>q. QED  BY <2>6, <2>7
<1>q. QED  BY <1>1, <1>2, <1>3 DEF Writes, StandsAt

\* A container with what stands in it.
LEMMA Contained ==
  ASSUME NEW c \in Containers, NEW place, place = IF c = "object" THEN "member" ELSE "item",
         NEW start, start = [op |-> IF c = "object" THEN "beginObject" ELSE "beginArray"],
         NEW end, end = [op |-> IF c = "object" THEN "endObject" ELSE "endArray"],
         NEW m, NEW use1 \in Nat, NEW need1 \in Nat, NEW depth1 \in Nat,
         Writes(m, place, use1, need1, depth1),
         NEW use \in Nat, NEW need \in Nat, NEW depth \in Nat,
         use1 + 2 <= use, use1 + 2 <= need, need1 + 1 <= need, depth1 + 1 <= depth
  PROVE  Writes(<<start>> \o m \o <<end>>, "value", use, need, depth)
<1>1. start \in Calls /\ end \in Calls /\ m \in Seq(Calls)
  BY DEF Calls, Containers, Writes
<1>2. <<start>> \in Seq(Calls) /\ <<end>> \in Seq(Calls) /\ <<start>> \o m \in Seq(Calls)
  BY <1>1
<1>3. <<start>> \o m \o <<end>> \in Seq(Calls)
  BY <1>2
<1>4. ASSUME NEW w, FollowsGrammar(w), ValueValid(w)
      PROVE  Leads(w, WriteFrom(Going(w), <<start>> \o m \o <<end>>), use, need, depth)
  <2>. DEFINE t == IF c = "object" THEN "openObject" ELSE "openArray"
              r == AppendContainerStart(w, c, t)
              f == WriteFrom(Going(r), m)
              g == WriteFrom(f, <<end>>)
              v == f.writer
  <2>1. CallValid(w, start) /\ Call(w, start) = r
    BY <1>4 DEF CallValid, Call, AppendBeginObject, AppendBeginArray, Containers
  <2>2. WriteFrom(Going(w), <<start>>) = Going(r)
    BY <1>4, <2>1, GoingOn DEF FollowsGrammar
  <2>3. WriteFrom(Going(w), <<start>> \o m \o <<end>>) = g
    <3>. DEFINE one == <<start>>
                last == <<end>>
                both == one \o m
    <3>1. /\ one \in Seq(Calls) /\ m \in Seq(Calls) /\ both \in Seq(Calls)
          /\ last \in Seq(Calls) /\ WriteFrom(Going(w), one) = Going(r)
      BY <1>1, <1>2, <2>2
    <3>. HIDE DEF one, last, r
    <3>2. WriteFrom(Going(w), both) = f
      BY ONLY <3>1, WriteConcat
    <3>. HIDE DEF both, f
    <3>3. WriteFrom(Going(w), both \o last) = WriteFrom(f, last)
      BY ONLY <3>1, <3>2, WriteConcat
    <3>q. QED  BY <3>3 DEF one, last, both
  <2>4. Results(w, r, Len(w.stack) < MaxDepth /\ Comma(w) + 1 <= Remaining(w),
                Comma(w) + 1, <<c>> \o w.stack, "begin")
    BY <1>4, StartCall
  <2>5. Going(r).writer = r
    BY DEF Going
  <2>6. ASSUME FirmwareSizes, w.written + Comma(w) + need <= BufferSize,
               Len(w.stack) + depth <= MaxDepth
        PROVE  r.ok
    <3>1. Len(w.stack) \in Nat /\ MaxDepth \in Nat
      BY <1>4, WriterAssumption DEF FollowsGrammar, Writers, Stacks
    <3>2. /\ Comma(w) \in {0, 1} /\ w.written \in Nat /\ BufferSize \in Nat
          /\ Remaining(w) = BufferSize - w.written
      BY <1>4, WriterSizes
    <3>3. Len(w.stack) < MaxDepth
      BY ONLY <2>6, <3>1, depth1 + 1 <= depth, depth1 \in Nat, depth \in Nat
    <3>4. Comma(w) + 1 <= Remaining(w)
      BY ONLY <2>6, <3>2, use1 + 2 <= need, use1 \in Nat, need \in Nat
    <3>q. QED  BY <2>4, <3>3, <3>4 DEF Results
  <2>7. CASE ~r.ok
    <3>1. f = Going(r) /\ g = Going(r)
      BY <1>1, <1>2, <2>5, <2>7, Stopped
    <3>. HIDE DEF g, r
    <3>q. QED  BY <2>3, <2>5, <2>6, <2>7, <3>1 DEF Leads
  <2>8. CASE r.ok
    <3>1. /\ FollowsGrammar(r) /\ r.stack = <<c>> \o w.stack /\ r.kind = "begin"
          /\ r.written = w.written + (Comma(w) + 1)
      BY <2>4, <2>8 DEF Results, Wrote
    <3>2. w.stack \in Stacks /\ Len(w.stack) \in Nat /\ w.written \in Nat /\ Comma(w) \in {0, 1}
      BY <1>4, WriterSizes DEF FollowsGrammar, Writers, Stacks
    <3>3. /\ r.stack # <<>> /\ Head(r.stack) = c /\ Tail(r.stack) = w.stack
          /\ Len(r.stack) = Len(w.stack) + 1
      BY <3>1, <3>2, Pushed
    <3>4. StandsAt(r, place) /\ Comma(r) = 0
      BY <3>1, <3>3 DEF StandsAt, NameValid, InObject, FollowsGrammar, Comma, Containers
    <3>5. Leads(r, f, use1, need1, depth1)
      BY <3>1, <3>4 DEF Writes
    <3>6. ASSUME FirmwareSizes, w.written + Comma(w) + need <= BufferSize,
                 Len(w.stack) + depth <= MaxDepth
          PROVE  /\ v.ok /\ v.written <= w.written + Comma(w) + 1 + use1
                 /\ w.written + Comma(w) + use1 + 2 <= BufferSize
      <4>. DEFINE k == w.written
                  o == Comma(w)
      <4>1. k \in Nat /\ o \in Nat /\ BufferSize \in Nat /\ MaxDepth \in Nat
        BY <3>2, WriterAssumption
      <4>2. r.written + Comma(r) = k + o + 1
        BY <3>1, <3>2, <3>4
      <4>3. k + o + need <= BufferSize
        BY <3>6
      <4>4. Len(r.stack) + depth1 <= MaxDepth
        <5>1. /\ Len(w.stack) \in Nat /\ Len(r.stack) = Len(w.stack) + 1 /\ MaxDepth \in Nat
              /\ Len(w.stack) + depth <= MaxDepth
          BY <3>2, <3>3, <3>6, <4>1
        <5>q. QED
          BY ONLY <5>1, depth1 + 1 <= depth, depth1 \in Nat, depth \in Nat
      <4>. HIDE DEF k, o
      <4>5. (k + o + 1) + need1 <= BufferSize /\ k + o + use1 + 2 <= BufferSize
        BY <4>1, <4>3
      <4>6. v.ok /\ v.written <= (k + o + 1) + use1
        BY <3>5, <3>6, <4>2, <4>4, <4>5 DEF Leads
      <4>q. QED  BY <4>5, <4>6 DEF k, o
    <3>7. CASE ~v.ok
      <4>1. g = f
        BY <1>2, <3>7, Stopped
      <4>2. f = Going(v)
        BY <3>5 DEF Leads
      <4>. HIDE DEF f, g
      <4>q. QED  BY <2>3, <3>6, <3>7, <4>1, <4>2 DEF Leads
    <3>8. CASE v.ok
      <4>. DEFINE x == AppendContainerEnd(v, IF c = "object" THEN "closeObject" ELSE "closeArray")
      <4>1. /\ f = Going(v) /\ FollowsGrammar(v) /\ v.stack = r.stack
            /\ v.kind \in {"value", "end"}
        BY <3>5, <3>8 DEF Leads
      <4>. HIDE DEF v
      <4>2. EndValid(v, c)
        BY <3>3, <4>1 DEF EndValid
      <4>3. CallValid(v, end) /\ Call(v, end) = x
        BY <4>2 DEF CallValid, Call, AppendEndObject, AppendEndArray, Containers
      <4>4. WriteFrom(Going(v), <<end>>) = Going(x)
        BY <4>1, <4>3, GoingOn DEF FollowsGrammar
      <4>5. g = Going(x) /\ g.writer = x
        BY <4>1, <4>4 DEF Going
      <4>6. Results(v, x, 1 <= Remaining(v), 1, Tail(v.stack), "end")
        BY <4>1, <4>2, EndCall
      <4>7. v.written \in Nat /\ Remaining(v) = BufferSize - v.written /\ BufferSize \in Nat
        BY <4>1, WriterSizes
      <4>. HIDE DEF x, g
      <4>8. x.ok => /\ FollowsGrammar(x) /\ x.stack = w.stack /\ x.kind = "end"
                    /\ x.written = v.written + 1
        BY <3>3, <4>1, <4>6 DEF Results, Wrote
      <4>9. ASSUME FirmwareSizes, w.written + Comma(w) + need <= BufferSize,
                   Len(w.stack) + depth <= MaxDepth
            PROVE  x.ok /\ x.written <= w.written + Comma(w) + use
        <5>1. /\ v.written <= w.written + Comma(w) + 1 + use1
              /\ w.written + Comma(w) + use1 + 2 <= BufferSize
          BY <3>6, <4>9
        <5>2. 1 <= Remaining(v) /\ v.written + 1 <= w.written + Comma(w) + use
          <6>. DEFINE k == v.written
                      o == w.written + Comma(w)
          <6>1. /\ k \in Nat /\ Remaining(v) = BufferSize - k /\ BufferSize \in Nat /\ o \in Nat
                /\ k <= o + 1 + use1 /\ o + use1 + 2 <= BufferSize
            <7>1. o \in Nat
              BY ONLY <3>2
            <7>2. k <= o + 1 + use1 /\ o + use1 + 2 <= BufferSize
              BY ONLY <5>1
            <7>. HIDE DEF o
            <7>q. QED  BY ONLY <4>7, <7>1, <7>2
          <6>. HIDE DEF k, o
          <6>2. 1 <= Remaining(v) /\ k + 1 <= o + use
            BY ONLY <6>1, use1 + 2 <= use, use1 \in Nat, use \in Nat
          <6>q. QED  BY <6>2 DEF k, o
        <5>q. QED  BY <4>6, <4>8, <5>2 DEF Results
      <4>q. QED  BY <2>3, <4>5, <4>8, <4>9 DEF Leads
    <3>q. QED  BY <3>7, <3>8
  <2>q. QED  BY <2>7, <2>8
<1>q. QED  BY <1>3, <1>4 DEF Writes, StandsAt

\* What writes little, writes no more than much; a value may stand in an array.
LEMMA Weaker ==
  ASSUME NEW calls, NEW use1 \in Nat, NEW need1 \in Nat, NEW depth1 \in Nat,
         NEW use \in Nat, NEW need \in Nat, NEW depth \in Nat,
         use1 <= use, need1 <= need, depth1 <= depth, NEW place
  PROVE  /\ Writes(calls, place, use1, need1, depth1) => Writes(calls, place, use, need, depth)
         /\ Writes(calls, "value", use1, need1, depth1) => Writes(calls, "item", use, need, depth)
<1>1. ASSUME NEW w, FollowsGrammar(w), NEW f, Leads(w, f, use1, need1, depth1)
      PROVE  Leads(w, f, use, need, depth)
  <2>1. w.written \in Nat /\ Comma(w) \in {0, 1}
    BY <1>1, WriterSizes
  <2>2. /\ w.written + Comma(w) + need <= BufferSize => w.written + Comma(w) + need1 <= BufferSize
        /\ Len(w.stack) + depth <= MaxDepth => Len(w.stack) + depth1 <= MaxDepth
    BY <1>1, RoomForLess
  <2>3. f.writer.ok => f.writer.written \in Nat
    BY <1>1 DEF Leads, FollowsGrammar, Writers
  <2>4. f.writer.ok /\ f.writer.written <= w.written + Comma(w) + use1
          => f.writer.written <= w.written + Comma(w) + use
    <3>. DEFINE n == w.written + Comma(w)
                k == f.writer.written
    <3>1. n \in Nat
      BY <2>1
    <3>2. k \in Nat /\ k <= n + use1 => k <= n + use
      <4>. HIDE DEF n, k
      <4>q. QED  BY ONLY <3>1, use1 <= use, use1 \in Nat, use \in Nat
    <3>q. QED  BY <2>3, <3>2
  <2>q. QED  BY <1>1, <2>2, <2>4 DEF Leads
<1>2. \A w : FollowsGrammar(w) /\ StandsAt(w, "item") => StandsAt(w, "value")
  BY DEF StandsAt, ValueValid
<1>q. QED  BY <1>1, <1>2 DEF Writes

\* A member after others.
LEMMA Member ==
  ASSUME NEW m, NEW use1 \in Nat, NEW need1 \in Nat, NEW depth1 \in Nat,
         Writes(m, "member", use1, need1, depth1),
         NEW key, NEW l \in Nat, Length[key] = l,
         NEW v, NEW use2 \in Nat, NEW need2 \in Nat, NEW depth2 \in Nat,
         Writes(v, "value", use2, need2, depth2),
         NEW use \in Nat, NEW need \in Nat, NEW depth \in Nat,
         use1 + use2 + l + 4 <= use,
         need1 <= need, use1 + need2 + l + 4 <= need, l > 10 => use1 + l + 66 <= need,
         depth1 <= depth, depth2 <= depth
  PROVE  Writes(m \o Name(key) \o v, "member", use, need, depth)
<1>. DEFINE s == Plain(l)
            room == IF l > 10 /\ l + 65 > l + 3 + need2 THEN l + 65 ELSE l + 3 + need2
<1>1. s \in Strings /\ s.len = l /\ EscapedLength(s) = l /\ Name(key) = With("name", s)
  BY DEF Plain, Strings, EscapedLength, Name
<1>. HIDE DEF s
<1>2. /\ l + 3 + use2 \in Nat /\ room \in Nat /\ l + 3 + need2 <= room
      /\ l > 10 => l + 65 <= room
      /\ use1 + 1 + (l + 3 + use2) <= use /\ use1 + 1 + room <= need
  OBVIOUS
<1>. HIDE DEF room
<1>3. Writes(With("name", s) \o v, "member", l + 3 + use2, room, depth2)
  BY <1>1, <1>2, Named
<1>4. Writes(m \o (With("name", s) \o v), "member", use, need, depth)
  <2>. DEFINE b == With("name", s) \o v
              k == l + 3 + use2
  <2>1. "member" \in {"item", "member"}
    OBVIOUS
  <2>. HIDE DEF b, k
  <2>q. QED  BY <1>2, <1>3, <2>1, Joined DEF b, k
<1>5. m \o (With("name", s) \o v) = m \o With("name", s) \o v
  <2>. DEFINE n == With("name", s)
  <2>1. m \in Seq(Calls) /\ v \in Seq(Calls) /\ n \in Seq(Calls)
    BY <1>1 DEF Writes, With, Calls
  <2>. HIDE DEF n
  <2>2. m \o (n \o v) = m \o n \o v
    BY ONLY <2>1, ConcatAssociative
  <2>q. QED  BY <2>2 DEF n
<1>q. QED  BY <1>1, <1>4, <1>5

\* The first member.
LEMMA FirstMember ==
  ASSUME NEW key, NEW l \in Nat, Length[key] = l,
         NEW v, NEW use2 \in Nat, NEW need2 \in Nat, NEW depth \in Nat,
         Writes(v, "value", use2, need2, depth),
         NEW use \in Nat, NEW need \in Nat,
         use2 + l + 3 <= use, need2 + l + 3 <= need, l > 10 => l + 65 <= need
  PROVE  Writes(Name(key) \o v, "member", use, need, depth)
<1>1. Plain(l) \in Strings /\ Plain(l).len = l /\ EscapedLength(Plain(l)) = l
      /\ Name(key) = With("name", Plain(l))
  BY DEF Plain, Strings, EscapedLength, Name
<1>q. QED  BY <1>1, Named

\* A text of a known length.
LEMMA Text ==
  ASSUME NEW text, NEW l \in Nat, Length[text] = l
  PROVE  Writes(String(text), "value", l + 2, IF l <= 10 THEN l + 2 ELSE l + 65, 0)
<1>1. Plain(l) \in Strings /\ Plain(l).len = l /\ EscapedLength(Plain(l)) = l
      /\ String(text) = With("string", Plain(l))
  BY DEF Plain, Strings, EscapedLength, String
<1>2. l + 2 \in Nat /\ (IF l <= 10 THEN l + 2 ELSE l + 65) \in Nat
  OBVIOUS
<1>q. QED  BY <1>1, <1>2, StringWrites

\* Objects and arrays.
LEMMA ObjectWrites ==
  ASSUME NEW m, NEW use1 \in Nat, NEW need1 \in Nat, NEW depth1 \in Nat,
         Writes(m, "member", use1, need1, depth1),
         NEW use \in Nat, NEW need \in Nat, NEW depth \in Nat,
         use1 + 2 <= use, use1 + 2 <= need, need1 + 1 <= need, depth1 + 1 <= depth
  PROVE  Writes(Object(m), "value", use, need, depth)
<1>1. "object" \in Containers
  BY DEF Containers
<1>q. QED  BY <1>1, Contained DEF Object, Do

LEMMA ArrayWrites ==
  ASSUME NEW m, NEW use1 \in Nat, NEW need1 \in Nat, NEW depth1 \in Nat,
         Writes(m, "item", use1, need1, depth1),
         NEW use \in Nat, NEW need \in Nat, NEW depth \in Nat,
         use1 + 2 <= use, use1 + 2 <= need, need1 + 1 <= need, depth1 + 1 <= depth
  PROVE  Writes(Array(m), "value", use, need, depth)
<1>1. "array" \in Containers
  BY DEF Containers
<1>q. QED  BY <1>1, Contained DEF Array, Do

-----------------------------------------------------------------------------
(* Part 5.  The messages of the firmware                                     *)

LEMMA Lengths ==
  /\ Length["msgtype"] = 7 /\ Length["timestamp"] = 9 /\ Length["time"] = 24
  /\ Length["imu"] = 3 /\ Length["accelero"] = 8 /\ Length["gyro"] = 4
  /\ Length["gps"] = 3 /\ Length["latitude"] = 8 /\ Length["longitude"] = 9
  /\ Length["altitude"] = 8 /\ Length["satellites"] = 10
  /\ Length["heat"] = 4 /\ Length["temperature"] = 11 /\ Length["value"] = 5
  /\ Length["unit"] = 4 /\ Length["celsius"] = 7 /\ Length["humidity"] = 8
  /\ Length["wifi"] = 4 /\ Length["macid"] = 5 /\ Length["mac"] = 17
  /\ Length["ssid"] = 4 /\ Length["rssi"] = 4
  /\ Length["session"] = 7 /\ Length["new"] = 3
  /\ Length["keepAlive"] = 10 /\ Length["yes"] = 3 /\ Length["interval"] = 8
BY DEF Length

\* One number, and an array of them.
LEMMA OneNumber ==
  ASSUME NEW m, NEW size \in Nat, NEW use \in Nat, Wide(m, size) <= use, Wide(m, size) \in Nat
  PROVE  /\ size <= 4 => Writes(Int32s(1, Wide(m, size)), "value", use, 11, 0)
         /\ size <= 13 => Writes(Doubles(1, Wide(m, size)), "value", use, 33, 0)
<1>. DEFINE n == Wide(m, size)
<1>1. Int32s(1, n) = With("int32", n) /\ Doubles(1, n) = With("double", n)
  BY DEF Int32s, Doubles, With
<1>2. /\ size <= 4 => n <= Int32Size
      /\ size <= 13 => n <= DoubleSize
  BY MessagesAssumption, WriterAssumption DEF Wide
<1>. HIDE DEF n
<1>q. QED  BY <1>1, <1>2, NumberWrites DEF n

LEMMA Repeated ==
  ASSUME NEW x
  PROVE  /\ [i \in 1..3 |-> x] = <<x>> \o <<x>> \o <<x>>
         /\ [i \in 1..4 |-> x] = <<x>> \o <<x>> \o <<x>> \o <<x>>
OBVIOUS

LEMMA ThreeDoubles ==
  ASSUME NEW m, NEW size \in 1..13
  PROVE  Writes(Array(Doubles(3, Wide(m, size))), "value", 3 * size + 4, 2 * size + 36, 1)
<1>. DEFINE n == Wide(m, size)
            x == With("double", n)
<1>1. n \in Nat /\ n <= size /\ n <= DoubleSize /\ size \in Nat
  BY MessagesAssumption, WriterAssumption DEF Wide
<1>2. Doubles(3, n) = x \o x \o x
  BY Repeated DEF Doubles, With
<1>. HIDE DEF n
<1>3. Writes(x, "item", size, 33, 0)
  BY <1>1, NumberWrites, Weaker
<1>. HIDE DEF x
<1>4. Writes(x \o x, "item", 2 * size + 1, size + 34, 0)
  BY <1>1, <1>3, Joined
<1>5. Writes(x \o x \o x, "item", 3 * size + 2, 2 * size + 35, 0)
  BY <1>1, <1>3, <1>4, Joined
<1>6. /\ 3 * size + 2 \in Nat /\ 2 * size + 35 \in Nat /\ 3 * size + 4 \in Nat
      /\ 2 * size + 36 \in Nat /\ (3 * size + 2) + 2 <= 3 * size + 4
      /\ (3 * size + 2) + 2 <= 2 * size + 36 /\ (2 * size + 35) + 1 <= 2 * size + 36
  BY <1>1
<1>7. Writes(Array(x \o x \o x), "value", 3 * size + 4, 2 * size + 36, 1)
  BY <1>5, <1>6, ArrayWrites
<1>q. QED  BY <1>2, <1>7 DEF n

LEMMA FourInt32s ==
  ASSUME NEW m
  PROVE  Writes(Array(Int32s(4, Wide(m, 3))), "value", 17, 24, 1)
<1>. DEFINE n == Wide(m, 3)
            x == With("int32", n)
<1>1. n \in Nat /\ n <= 3 /\ n <= Int32Size
  BY MessagesAssumption, WriterAssumption DEF Wide
<1>2. Int32s(4, n) = x \o x \o x \o x
  BY Repeated DEF Int32s, With
<1>. HIDE DEF n
<1>3. Writes(x, "item", 3, 11, 0)
  BY <1>1, NumberWrites, Weaker
<1>. HIDE DEF x
<1>4. Writes(x \o x, "item", 7, 15, 0)
  BY <1>3, Joined
<1>5. Writes(x \o x \o x, "item", 11, 19, 0)
  BY <1>3, <1>4, Joined
<1>6. Writes(x \o x \o x \o x, "item", 15, 23, 0)
  BY <1>3, <1>5, Joined
<1>7. Writes(Array(x \o x \o x \o x), "value", 17, 24, 1)
  BY <1>6, ArrayWrites
<1>q. QED  BY <1>2, <1>7 DEF n

LEMMA HeaderWrites ==
  ASSUME NEW type, NEW l \in 0..10, Length[type] = l
  PROVE  Writes(Header(type), "member", l + 51, l + 114, 0)
<1>1. Writes(String(type), "value", l + 2, l + 2, 0)
  BY Text
<1>2. Writes(Name("msgtype") \o String(type), "member", l + 12, l + 12, 0)
  <2>1. Length["msgtype"] = 7
    BY Lengths
  <2>2. /\ l + 2 \in Nat /\ l + 12 \in Nat /\ (l + 2) + 7 + 3 <= l + 12
    OBVIOUS
  <2>q. QED  BY <1>1, <2>1, <2>2, FirstMember
<1>3. Writes(String("time"), "value", 26, 89, 0)
  BY Text, Lengths
<1>4. Writes(Name("msgtype") \o String(type) \o Name("timestamp") \o String("time"),
             "member", l + 51, l + 114, 0)
  BY <1>2, <1>3, Lengths, Member
<1>q. QED  BY <1>4 DEF Header

LEMMA ImuWrites ==
  ASSUME NEW m
  PROVE  Writes(ImuMessage(m), "value", 156, 174, 2)
<1>. DEFINE full == Name("accelero") \o Array(Doubles(3, Wide(m, 11)))
                      \o Name("gyro") \o Array(Doubles(3, Wide(m, 13)))
            empty == Name("accelero") \o Do("null") \o Name("gyro") \o Do("null")
            members == IF m.available THEN full ELSE empty
<1>1. Writes(full, "member", 99, 118, 1)
  <2>1. /\ Writes(Array(Doubles(3, Wide(m, 11))), "value", 37, 58, 1)
        /\ Writes(Array(Doubles(3, Wide(m, 13))), "value", 43, 62, 1)
    BY ThreeDoubles
  <2>2. Writes(Name("accelero") \o Array(Doubles(3, Wide(m, 11))), "member", 48, 69, 1)
    BY <2>1, Lengths, FirstMember
  <2>q. QED  BY <2>1, <2>2, Lengths, Member
<1>2. Writes(empty, "member", 99, 118, 1)
  <2>1. Writes(Name("accelero") \o Do("null"), "member", 15, 15, 0)
    BY NullWrites, Lengths, FirstMember
  <2>q. QED  BY <2>1, NullWrites, Lengths, Member
<1>3. Writes(members, "member", 99, 118, 1)
  BY <1>1, <1>2
<1>. HIDE DEF members
<1>4. Writes(Header("imu"), "member", 54, 117, 0)
  BY HeaderWrites, Lengths
<1>5. Writes(Header("imu") \o members, "member", 154, 173, 1)
  BY <1>3, <1>4, Joined
<1>6. Writes(Object(Header("imu") \o members), "value", 156, 174, 2)
  BY <1>5, ObjectWrites
<1>q. QED  BY <1>6 DEF ImuMessage, members

LEMMA GnssWrites ==
  ASSUME NEW m
  PROVE  Writes(GnssMessage(m), "value", 152, 158, 2)
<1>. DEFINE position == Name("latitude") \o Doubles(1, Wide(m, 11))
                          \o Name("longitude") \o Doubles(1, Wide(m, 12))
                          \o Name("altitude") \o Doubles(1, Wide(m, 11))
                          \o Name("satellites") \o Int32s(1, Wide(m, 3))
            reading == IF m.available THEN Object(position) ELSE Do("null")
<1>1. /\ Writes(Doubles(1, Wide(m, 11)), "value", 11, 33, 0)
      /\ Writes(Doubles(1, Wide(m, 12)), "value", 12, 33, 0)
      /\ Writes(Int32s(1, Wide(m, 3)), "value", 3, 11, 0)
  BY OneNumber DEF Wide
<1>2. Writes(Name("latitude") \o Doubles(1, Wide(m, 11)), "member", 22, 44, 0)
  BY <1>1, Lengths, FirstMember
<1>3. Writes(Name("latitude") \o Doubles(1, Wide(m, 11))
               \o Name("longitude") \o Doubles(1, Wide(m, 12)), "member", 47, 68, 0)
  BY <1>1, <1>2, Lengths, Member
<1>4. Writes(Name("latitude") \o Doubles(1, Wide(m, 11))
               \o Name("longitude") \o Doubles(1, Wide(m, 12))
               \o Name("altitude") \o Doubles(1, Wide(m, 11)), "member", 70, 92, 0)
  BY <1>1, <1>3, Lengths, Member
<1>5. Writes(position, "member", 87, 95, 0)
  BY <1>1, <1>4, Lengths, Member
<1>. HIDE DEF position
<1>6. Writes(Object(position), "value", 89, 96, 1)
  BY <1>5, ObjectWrites
<1>7. Writes(Do("null"), "value", 89, 96, 1)
  BY NullWrites, Weaker
<1>8. Writes(reading, "value", 89, 96, 1)
  BY <1>6, <1>7
<1>. HIDE DEF reading
<1>9. Writes(Header("gps"), "member", 54, 117, 0)
  BY HeaderWrites, Lengths
<1>10. Writes(Header("gps") \o Name("gps") \o reading, "member", 150, 157, 1)
  BY <1>8, <1>9, Lengths, Member
<1>11. Writes(Object(Header("gps") \o Name("gps") \o reading), "value", 152, 158, 2)
  BY <1>10, ObjectWrites
<1>q. QED  BY <1>11 DEF GnssMessage, reading, position

LEMMA HeatWrites ==
  ASSUME NEW m
  PROVE  Writes(HeatMessage(m), "value", 127, 155, 3)
<1>. DEFINE temperature == Name("value") \o Doubles(1, Wide(m, 4))
                             \o Name("unit") \o String("celsius")
            both == Name("temperature") \o Object(temperature)
                      \o Name("humidity") \o Doubles(1, Wide(m, 3))
            reading == IF m.available THEN Object(both) ELSE Do("null")
<1>1. /\ Writes(Doubles(1, Wide(m, 4)), "value", 4, 33, 0)
      /\ Writes(Doubles(1, Wide(m, 3)), "value", 3, 33, 0)
  BY OneNumber DEF Wide
<1>2. Writes(String("celsius"), "value", 9, 9, 0)
  BY Text, Lengths
<1>3. Writes(Name("value") \o Doubles(1, Wide(m, 4)), "member", 12, 41, 0)
  BY <1>1, Lengths, FirstMember
<1>4. Writes(temperature, "member", 29, 41, 0)
  BY <1>2, <1>3, Lengths, Member
<1>. HIDE DEF temperature
<1>5. Writes(Object(temperature), "value", 31, 42, 1)
  BY <1>4, ObjectWrites
<1>6. Writes(Name("temperature") \o Object(temperature), "member", 45, 76, 1)
  BY <1>5, Lengths, FirstMember
<1>7. Writes(both, "member", 60, 90, 1)
  BY <1>1, <1>6, Lengths, Member
<1>. HIDE DEF both
<1>8. Writes(Object(both), "value", 62, 91, 2)
  BY <1>7, ObjectWrites
<1>9. Writes(Do("null"), "value", 62, 91, 2)
  BY NullWrites, Weaker
<1>10. Writes(reading, "value", 62, 91, 2)
  BY <1>8, <1>9
<1>. HIDE DEF reading
<1>11. Writes(Header("heat"), "member", 55, 118, 0)
  BY HeaderWrites, Lengths
<1>12. Writes(Header("heat") \o Name("heat") \o reading, "member", 125, 154, 2)
  BY <1>10, <1>11, Lengths, Member
<1>13. Writes(Object(Header("heat") \o Name("heat") \o reading), "value", 127, 155, 3)
  BY <1>12, ObjectWrites
<1>q. QED  BY <1>13 DEF HeatMessage, reading, both, temperature

LEMMA SessionWrites == Writes(SessionMessage, "value", 76, 122, 1)
<1>1. Writes(String("new"), "value", 5, 5, 0)
  BY Text, Lengths
<1>2. Writes(Header("session"), "member", 58, 121, 0)
  BY HeaderWrites, Lengths
<1>3. Writes(Header("session") \o Name("session") \o String("new"), "member", 74, 121, 0)
  BY <1>1, <1>2, Lengths, Member
<1>q. QED  BY <1>3, ObjectWrites DEF SessionMessage

\* The longest message: with a network name of 35 bytes it needs the whole buffer, and
\* with a longer one as much more.
LEMMA WifiWrites ==
  ASSUME NEW m, m.ssid \in Ssids, NEW x \in Nat, EscapedLength(m.ssid) <= RoomForName + x
  PROVE  Writes(WifiMessage(m), "value", 151 + x, 200 + x, 2)
<1>. DEFINE name == With("string", m.ssid)
            network == Name("macid") \o String("mac") \o Name("ssid") \o name
                         \o Name("rssi") \o Int32s(1, Wide(m, 4))
<1>1. m.ssid \in Strings
  BY MessagesAssumption DEF Strings
<1>2. EscapedLength(m.ssid) \in Nat
  BY <1>1 DEF EscapedLength, Strings
<1>3. Writes(name, "value", 37 + x, 100 + x, 0)
  BY <1>1, <1>2, StringWrites DEF RoomForName
<1>. HIDE DEF name
<1>4. Writes(String("mac"), "value", 19, 82, 0)
  BY Text, Lengths
<1>5. Writes(Int32s(1, Wide(m, 4)), "value", 4, 11, 0)
  BY OneNumber DEF Wide
<1>6. Writes(Name("macid") \o String("mac"), "member", 27, 90, 0)
  BY <1>4, Lengths, FirstMember
<1>7. Writes(Name("macid") \o String("mac") \o Name("ssid") \o name, "member",
             72 + x, 135 + x, 0)
  BY <1>3, <1>6, Lengths, Member
<1>8. Writes(network, "member", 84 + x, 135 + x, 0)
  BY <1>5, <1>7, Lengths, Member
<1>. HIDE DEF network
<1>9. Writes(Object(network), "value", 86 + x, 136 + x, 1)
  BY <1>8, ObjectWrites
<1>10. Writes(Header("wifi"), "member", 55, 118, 0)
  BY HeaderWrites, Lengths
<1>11. Writes(Header("wifi") \o Name("wifi") \o Object(network), "member", 149 + x, 199 + x, 1)
  BY <1>9, <1>10, Lengths, Member
<1>12. Writes(Object(Header("wifi") \o Name("wifi") \o Object(network)), "value",
              151 + x, 200 + x, 2)
  BY <1>11, ObjectWrites
<1>q. QED  BY <1>12 DEF WifiMessage, network, name

LEMMA KeepAliveWrites ==
  ASSUME NEW m
  PROVE  Writes(KeepAliveMessage(m), "value", 111, 125, 2)
<1>1. Writes(String("yes"), "value", 5, 5, 0)
  BY Text, Lengths
<1>2. Writes(Header("keepAlive"), "member", 61, 124, 0)
  BY HeaderWrites, Lengths
<1>3. Writes(Header("keepAlive") \o Name("keepAlive") \o String("yes"), "member", 80, 124, 0)
  BY <1>1, <1>2, Lengths, Member
<1>4. Writes(Array(Int32s(4, Wide(m, 3))), "value", 17, 24, 1)
  BY FourInt32s
<1>5. Writes(Header("keepAlive") \o Name("keepAlive") \o String("yes")
               \o Name("interval") \o Array(Int32s(4, Wide(m, 3))), "member", 109, 124, 1)
  BY <1>3, <1>4, Lengths, Member
<1>q. QED  BY <1>5, ObjectWrites DEF KeepAliveMessage

\* x is what the name of a Wi-Fi message has beyond the room there is for it.
Excess(m, x) == m.type = "wifi" => EscapedLength(m.ssid) <= RoomForName + x

LEMMA MessageWrites ==
  ASSUME NEW m \in Messages, NEW x \in Nat, Excess(m, x)
  PROVE  Writes(CallsOf(m), "value", 200 + x, 200 + x, 3)
<1>1. CASE m.type = "imu"
  BY <1>1, ImuWrites, Weaker DEF CallsOf
<1>2. CASE m.type = "gnss"
  BY <1>2, GnssWrites, Weaker DEF CallsOf
<1>3. CASE m.type = "temp"
  BY <1>3, HeatWrites, Weaker DEF CallsOf
<1>4. CASE m.type = "session"
  BY <1>4, SessionWrites, Weaker DEF CallsOf
<1>5. CASE m.type = "wifi" /\ m.ssid \in Ssids
  BY <1>5, WifiWrites, Weaker DEF CallsOf, Excess
<1>6. CASE m.type = "keepAlive"
  BY <1>6, KeepAliveWrites, Weaker DEF CallsOf
<1>7. \/ m.type \in {"imu", "gnss", "temp", "session", "keepAlive"}
      \/ m.type = "wifi" /\ m.ssid \in Ssids
  BY DEF Messages, SensorMessages, OwnMessages
<1>q. QED  BY <1>1, <1>2, <1>3, <1>4, <1>5, <1>6, <1>7

\* The excess of any message.
LEMMA SomeExcess ==
  ASSUME NEW m \in Messages
  PROVE  \E x \in Nat : Excess(m, x)
<1>1. CASE m.type = "wifi" /\ m.ssid \in Ssids
  <2>1. EscapedLength(m.ssid) \in Nat
    BY <1>1, MessagesAssumption DEF EscapedLength
  <2>q. QED  BY <2>1 DEF Excess, RoomForName
<1>2. CASE m.type # "wifi"
  BY <1>2 DEF Excess
<1>q. QED  BY <1>1, <1>2 DEF Messages, SensorMessages, OwnMessages

\* Every message is made with calls the writer allows, whatever the sizes of the buffer
\* and of the network names; it is one complete JSON text within the buffer or is given
\* up.  With the sizes of the firmware it is given up only if it is a Wi-Fi message whose
\* network's name, escaped, is longer than RoomForName.
THEOREM MessagesWellFramed ==
  ASSUME NEW m \in Messages
  PROVE  /\ m \in WellFramed \cup Abandoned
         /\ FirmwareSizes /\ Excess(m, 0) => m \notin Abandoned
<1>. DEFINE f == Write(CallsOf(m))
<1>1. /\ FollowsGrammar(NewWriter) /\ ValueValid(NewWriter) /\ NewWriter.written = 0
      /\ Comma(NewWriter) = 0 /\ Len(NewWriter.stack) = 0 /\ NewWriter.stack = <<>>
  BY NewFollowsGrammar DEF NewWriter, ValueValid, InObject, Comma
<1>2. f = WriteFrom(Going(NewWriter), CallsOf(m))
  BY DEF Write, Going
<1>3. ASSUME NEW x \in Nat, Excess(m, x)
      PROVE  Leads(NewWriter, f, 200 + x, 200 + x, 3)
  BY <1>1, <1>2, <1>3, MessageWrites DEF Writes, StandsAt
<1>4. PICK x \in Nat : Leads(NewWriter, f, 200 + x, 200 + x, 3)
  BY <1>3, SomeExcess
<1>. HIDE DEF f
<1>5. FirmwareSizes /\ Excess(m, 0) => f.writer.ok
  BY <1>1, <1>3, WriterAssumption DEF Leads, FirmwareSizes
<1>6. f.valid = TRUE
  BY <1>4 DEF Leads, Going
<1>7. f.writer.ok => /\ f.writer.written <= BufferSize
                     /\ IsComplete(f.writer.text)
  BY <1>1, <1>4 DEF Leads, FollowsGrammar, Expected, IsComplete
<1>. DEFINE g == [message |-> m, result |-> f]
<1>8. g \in Framings /\ g.message = m /\ g.result = f
  BY Zenon DEF Framings, f
<1>9. m \in Abandoned => ~f.writer.ok
  <2>. SUFFICES ASSUME m \in Abandoned  PROVE ~f.writer.ok
    OBVIOUS
  <2>1. PICK h \in Framings : ~h.result.writer.ok /\ h.message = m
    BY Zenon DEF Abandoned
  <2>2. PICK n \in Messages : h = [message |-> n, result |-> Write(CallsOf(n))]
    BY Zenon DEF Framings
  <2>3. h.message = n /\ h.result = Write(CallsOf(n))
    BY <2>2, Zenon
  <2>q. QED  BY <2>1, <2>3, Zenon DEF f
<1>. HIDE DEF g
<1>10. ~f.writer.ok => m \in Abandoned
  BY <1>8, Zenon DEF Abandoned
<1>11. IsJson(f) => m \in WellFramed
  BY <1>8, Zenon DEF WellFramed
<1>q. QED  BY <1>5, <1>6, <1>7, <1>9, <1>10, <1>11 DEF IsJson

=============================================================================
