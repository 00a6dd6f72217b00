------------------------------ MODULE JsonWriter ------------------------------
(***************************************************************************)
(* The JSON writer the firmware frames its messages with: az_json_writer.c  *)
(* behind the wrappers of azure_iot_json_writer.c.  One operator per call    *)
(* takes a writer and returns it as the call leaves it.                      *)
(*                                                                          *)
(* A string is its length and the bytes that escaping adds to it.  The       *)
(* writer has no allocator, so its buffer does not grow.  `text' is not in    *)
(* the code: it is the reading of what was written by JsonGrammar.           *)
(***************************************************************************)
EXTENDS Integers, JsonGrammar

CONSTANTS
  BufferSize,    \* MAX_JSON_MESSAGE_SIZE
  ChunkSize,     \* _az_MINIMUM_STRING_CHUNK_SIZE
  SmallString,   \* _az_MAX_UNESCAPED_STRING_SIZE_PER_CHUNK
  Int32Size,     \* _az_MAX_SIZE_FOR_INT32
  DoubleSize,    \* _az_MAX_SIZE_FOR_WRITING_DOUBLE
  MaxDepth       \* _az_MAX_JSON_STACK_SIZE

\* A chunk has room for what follows a name, its quote and its colon.
ASSUME WriterAssumption ==
  /\ BufferSize \in Nat \ {0}
  /\ ChunkSize \in Nat \ {0, 1}
  /\ SmallString \in Nat
  /\ Int32Size \in Nat
  /\ DoubleSize \in Nat
  /\ MaxDepth \in Nat \ {0}

\* The writer at rest: az_json_writer_init.
NewWriter ==
  [ok |-> TRUE, written |-> 0, needComma |-> FALSE, kind |-> "none",
   stack |-> <<>>, text |-> NothingRead]

-----------------------------------------------------------------------------
InObject(w) == w.stack # <<>> /\ Head(w.stack) = "object"

ValueValid(w) ==
  IF InObject(w) THEN w.kind = "name"
                 ELSE w.stack # <<>> \/ w.kind = "none"

NameValid(w) == InObject(w) /\ w.kind # "name"

EndValid(w, container) ==
  /\ w.stack # <<>>
  /\ w.kind # "name"
  /\ Head(w.stack) = container

Comma(w) == IF w.needComma THEN 1 ELSE 0

Remaining(w) == BufferSize - w.written

EscapedLength(s) == s.len + s.escapes

\* The call fails and the caller gives the message up; how much of it is in the
\* buffer by then is of no interest.
Fails(w) == [w EXCEPT !.ok = FALSE]

\* What the grammar reads: a comma where one is due, then the tokens.
AfterComma(w) == IF w.needComma THEN Reads(w.text, "comma") ELSE w.text

Appended(w, size, needComma, kind, text) ==
  [w EXCEPT !.written = @ + Comma(w) + size,
            !.needComma = needComma,
            !.kind = kind,
            !.text = text]

ValueAppended(w, size, token) ==
  Appended(w, size, TRUE, "value", Reads(AfterComma(w), token))

-----------------------------------------------------------------------------
(* Strings and property names.                                              *)

\* A short string is written if it fits.
BadSmallFits(w, s, size) ==
  Comma(w) + size + EscapedLength(s) + ChunkSize <= Remaining(w)

SmallFits(w, s, size) == Comma(w) + size + EscapedLength(s) <= Remaining(w)

\* A long one goes through a loop that demands a whole chunk of free space when
\* it starts, after each piece and at last before the closing quote.  The
\* position only moves forward, so that the last demand implies the others.
ChunkedFits(w, s) == Comma(w) + 1 + EscapedLength(s) + ChunkSize <= Remaining(w)

Fits(w, s, size) ==
  IF s.len <= SmallString THEN SmallFits(w, s, size) ELSE ChunkedFits(w, s)

\* Quoted.
AppendString(w, s) ==
  IF Fits(w, s, 2) THEN ValueAppended(w, 2 + EscapedLength(s), "text") ELSE Fails(w)

\* Quoted and followed by a colon, after which no comma is due.
BadAppendPropertyName(w, s) ==
  IF Fits(w, s, 3)
  THEN Appended(w, 3 + EscapedLength(s), TRUE, "name",
                Reads(Reads(AfterComma(w), "text"), "colon"))
  ELSE Fails(w)

AppendPropertyName(w, s) ==
  IF Fits(w, s, 3)
  THEN Appended(w, 3 + EscapedLength(s), FALSE, "name",
                Reads(Reads(AfterComma(w), "text"), "colon"))
  ELSE Fails(w)

-----------------------------------------------------------------------------
(* Numbers and null.  A number needs room for the longest of its type,       *)
(* however short it is.                                                     *)

AppendNull(w) ==
  IF Comma(w) + 4 <= Remaining(w) THEN ValueAppended(w, 4, "null") ELSE Fails(w)

AppendInt32(w, digits) ==
  IF Comma(w) + Int32Size <= Remaining(w)
  THEN ValueAppended(w, digits, "number")
  ELSE Fails(w)

AppendDouble(w, digits) ==
  IF Comma(w) + DoubleSize <= Remaining(w)
  THEN ValueAppended(w, digits, "number")
  ELSE Fails(w)

-----------------------------------------------------------------------------
(* Objects and arrays.                                                      *)

AppendContainerStart(w, container, token) ==
  IF Len(w.stack) < MaxDepth /\ Comma(w) + 1 <= Remaining(w)
  THEN [Appended(w, 1, FALSE, "begin", Reads(AfterComma(w), token))
          EXCEPT !.stack = <<container>> \o @]
  ELSE Fails(w)

AppendBeginObject(w) == AppendContainerStart(w, "object", "openObject")
AppendBeginArray(w)  == AppendContainerStart(w, "array", "openArray")

\* No comma before an end.
AppendContainerEnd(w, token) ==
  IF 1 <= Remaining(w)
  THEN [w EXCEPT !.written = @ + 1, !.needComma = TRUE, !.kind = "end",
                 !.stack = Tail(@), !.text = Reads(@, token)]
  ELSE Fails(w)

AppendEndObject(w) == AppendContainerEnd(w, "closeObject")
AppendEndArray(w)  == AppendContainerEnd(w, "closeArray")

-----------------------------------------------------------------------------
\* Whether a call keeps the rules of the writer, which a release build does not
\* check.
CallValid(w, call) ==
  CASE call.op = "name" -> NameValid(w)
    [] call.op = "endObject" -> EndValid(w, "object")
    [] call.op = "endArray" -> EndValid(w, "array")
    [] OTHER -> ValueValid(w)

\* One call of the API.  (A property with a value is a name and then a value.)
Call(w, call) ==
  CASE call.op = "name" -> AppendPropertyName(w, call.arg)
    [] call.op = "string" -> AppendString(w, call.arg)
    [] call.op = "double" -> AppendDouble(w, call.arg)
    [] call.op = "int32" -> AppendInt32(w, call.arg)
    [] call.op = "null" -> AppendNull(w)
    [] call.op = "beginObject" -> AppendBeginObject(w)
    [] call.op = "beginArray" -> AppendBeginArray(w)
    [] call.op = "endObject" -> AppendEndObject(w)
    [] call.op = "endArray" -> AppendEndArray(w)
==============================================================================
