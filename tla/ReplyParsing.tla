--------------------------- MODULE ReplyParsing ---------------------------
(***************************************************************************)
(* What the harness makes of a model's reply (schema.py and                *)
(* harness/formats.py): the JSON object found in prose, the tool call      *)
(* found in plain text, the value checked against the schema of a declared *)
(* type, and Anthropic's content blocks folded into the common message     *)
(* and unfolded again for the next request.                                *)
(*                                                                         *)
(* A reply is a function of its bytes alone, so a behaviour is one reply   *)
(* and its reading.  Texts are sequences over the five characters the      *)
(* scanner tells apart; "x" is any other, and the rest of an object's      *)
(* member (its colon, its plain key or value), which holds none of the     *)
(* others, is left out: {"x"} stands for {"x": 0}, {{}} for {"x": {}}.     *)
(***************************************************************************)
EXTENDS Integers, Sequences, FiniteSets, SequencesExt

CONSTANTS MaxText,      \* characters of a text
          MaxMembers,   \* members of an object that may be a tool call
          MaxBlocks     \* content blocks of an Anthropic reply

VARIABLES reply,    \* what arrived, a record with its kind
          reading   \* what the harness made of it

parsingVars == <<reply, reading>>

Unread == [made |-> "nothing"]

----------------------------------------------------------------------------
(* The object in the prose. *)

Characters == {"{", "}", "quote", "escape", "x"}
Texts == UNION {[1 .. n -> Characters] : n \in 0 .. MaxText}

\* A slip: a quote after a backslash ends the string.
ScanCharacterUnescaped(scan, c) ==
  CASE scan.string /\ c = "quote"  -> [scan EXCEPT !.string = FALSE]
    [] scan.string                 -> scan
    [] c = "quote"                 -> [scan EXCEPT !.string = TRUE]
    [] c = "{"                     -> [scan EXCEPT !.depth = @ + 1]
    [] c = "}"                     -> [scan EXCEPT !.depth = @ - 1]
    [] OTHER                       -> scan

\* One character of the scan: inside a string only its end and the escapes
\* count, outside it the braces do.
ScanCharacter(scan, c) ==
  CASE scan.string /\ scan.escaped -> [scan EXCEPT !.escaped = FALSE]
    [] scan.string /\ c = "escape" -> [scan EXCEPT !.escaped = TRUE]
    [] scan.string /\ c = "quote"  -> [scan EXCEPT !.string = FALSE]
    [] scan.string                 -> scan
    [] c = "quote"                 -> [scan EXCEPT !.string = TRUE]
    [] c = "{"                     -> [scan EXCEPT !.depth = @ + 1]
    [] c = "}"                     -> [scan EXCEPT !.depth = @ - 1]
    [] OTHER                       -> scan

ScanFrom(text, start, stop) ==
  FoldLeft(ScanCharacter, [depth |-> 0, string |-> FALSE, escaped |-> FALSE],
           SubSeq(text, start, stop))

\* The balanced object that starts at a brace; empty when it never closes.
ExtractObject(text, start) ==
  LET closes == {i \in start .. Len(text) :
                   text[i] = "}" /\ LET scan == ScanFrom(text, start, i)
                                    IN scan.depth = 0 /\ ~scan.string}
  IN IF closes = {} THEN <<>>
     ELSE SubSeq(text, start, CHOOSE i \in closes : \A j \in closes : i <= j)

\* json.loads accepts a string whose escapes are a backslash's or a quote's,
\* and an object of nothing, of a string, or of an object.
IsString(text) ==
  /\ Len(text) >= 2 /\ text[1] = "quote" /\ Last(text) = "quote"
  /\ \E body \in {SubSeq(text, 2, Len(text) - 1)} :
       LET escaped[i \in 0 .. Len(body)] ==
             i > 0 /\ body[i] = "escape" /\ ~escaped[i - 1]
       IN /\ \A i \in 1 .. Len(body) : body[i] = "quote" => escaped[i - 1]
          /\ \A i \in 1 .. Len(body) : escaped[i - 1] => body[i] \in {"quote", "escape"}
          /\ ~escaped[Len(body)]

RECURSIVE IsObject(_)
IsObject(text) ==
  /\ Len(text) >= 2 /\ text[1] = "{" /\ Last(text) = "}"
  /\ LET body == SubSeq(text, 2, Len(text) - 1)
     IN body = <<>> \/ IsString(body) \/ IsObject(body)

Accepted(text) == IsString(text) \/ IsObject(text)

\* The whole text, else the first brace whose balanced object parses.
ParseJson(text) ==
  LET from == {i \in 1 .. Len(text) :
                 text[i] = "{" /\ Accepted(ExtractObject(text, i))}
  IN CASE Accepted(text) -> [made |-> "value", of |-> text]
       [] ~Accepted(text) /\ from # {} ->
            [made |-> "value",
             of   |-> ExtractObject(text, CHOOSE i \in from : \A j \in from : i <= j)]
       [] OTHER -> [made |-> "error"]

----------------------------------------------------------------------------
(* The tool call in plain text.  The reply is one object; a member's value *)
(* is some text, an object, or an object with a "name" of its own.         *)

Members == [key : {"name", "parameters", "arguments", "other"},
            value : {"text", "object", "named"}]
Objects == {o \in UNION {[1 .. n -> Members] : n \in 1 .. MaxMembers} :
              \A i, j \in DOMAIN o : o[i].key = o[j].key => i = j}

\* Every "name" with a text after it, in the order of the text: a member, or
\* the one inside a member's object.
Names(object) ==
  {i \in DOMAIN object : \/ object[i].value = "named"
                         \/ object[i] = [key |-> "name", value |-> "text"]}

FirstOf(S) == CHOOSE i \in S : \A j \in S : i <= j

\* The first of the two keys that has an object at or after it; the object
\* may belong to a later member.
ArgumentsOf(object) ==
  LET after(key) == {j \in DOMAIN object :
                       object[j].value # "text"
                       /\ \E i \in 1 .. j : object[i].key = key}
  IN CASE after("parameters") # {} -> FirstOf(after("parameters"))
       [] after("parameters") = {} /\ after("arguments") # {} -> FirstOf(after("arguments"))
       [] OTHER -> 0

ParseTextCall(object) ==
  IF Names(object) = {} THEN [made |-> "answer"]
  ELSE LET i == FirstOf(Names(object))
       IN [made |-> "call",
           name |-> [at |-> i, own |-> object[i].value # "named"],
           args |-> ArgumentsOf(object)]

----------------------------------------------------------------------------
(* The declared type.  A type is its kind and its parts; so is a schema;    *)
(* a JSON value is its kind and its members, an array's without a key.     *)

Kind(k) == [kind |-> k, of |-> <<>>]
Of(k, parts) == [kind |-> k, of |-> parts]

SimpleTypes == {Kind(k) : k \in {"str", "int", "float", "bool", "none"}}
OptionalInt == Of("union", <<Kind("int"), Kind("none")>>)
Types ==
  SimpleTypes
  \cup {Of(k, <<t>>) : k \in {"list", "map"}, t \in SimpleTypes \cup {OptionalInt}}
  \cup {Of("union", <<a, b>>) : a, b \in SimpleTypes \cup {Of("list", <<Kind("str")>>)}}
  \cup {Of("fields", <<a, b>>) : a \in SimpleTypes \cup {Of("list", <<Kind("int")>>)},
                                 b \in SimpleTypes \cup {OptionalInt}}

Scalars == {Kind(k) : k \in {"null", "boolean", "integer", "number", "string"}}
Member(key, value) == [key |-> key, value |-> value]
Arrays == {Of("array", <<>>)} \cup {Of("array", <<Member("", v)>>) : v \in Scalars}
          \cup {Of("array", <<Member("", v), Member("", w)>>) : v, w \in Scalars}
JsonValues ==
  Scalars \cup Arrays \cup {Of("object", <<>>)}
  \cup {Of("object", <<Member(k, v)>>) : k \in {"a", "b"}, v \in Scalars \cup Arrays}
  \cup {Of("object", <<Member("a", v), Member("b", w)>>) :
           v \in Scalars \cup Arrays, w \in Scalars}

JsonNames == [str |-> "string", int |-> "integer", float |-> "number",
              bool |-> "boolean", none |-> "null"]

RECURSIVE ToSchema(_), Conforms(_, _), HasType(_, _)

\* A union with None is null or the rest; two fields are two required ones.
ToSchema(t) ==
  CASE t.kind = "list"   -> Of("array", <<ToSchema(t.of[1])>>)
    [] t.kind = "map"    -> Of("additional", <<ToSchema(t.of[1])>>)
    [] t.kind = "fields" -> Of("properties", <<ToSchema(t.of[1]), ToSchema(t.of[2])>>)
    [] t.kind = "union"  -> Of("oneOf", <<ToSchema(t.of[1]), ToSchema(t.of[2])>>)
    [] OTHER             -> Kind(JsonNames[t.kind])

FieldNames == <<"a", "b">>
Has(object, key) == \E i \in DOMAIN object.of : object.of[i].key = key

\* A bool is an int in Python: the number checks turn it away by name.
IsNumber(v, schema) ==
  IF schema.kind = "integer" THEN v.kind = "integer" ELSE v.kind \in {"integer", "number"}

ConformsObject(v, schema) ==
  /\ schema.kind = "properties" =>
       \A f \in DOMAIN FieldNames : Has(v, FieldNames[f])
  /\ \A i \in DOMAIN v.of :
       IF schema.kind = "additional" THEN Conforms(v.of[i].value, schema.of[1])
       ELSE \A f \in DOMAIN FieldNames :
              v.of[i].key = FieldNames[f] => Conforms(v.of[i].value, schema.of[f])

\* validate_json reports nothing.
Conforms(v, schema) ==
  CASE schema.kind = "oneOf" -> \E i \in DOMAIN schema.of : Conforms(v, schema.of[i])
    [] schema.kind = "array" ->
         v.kind = "array" /\ \A i \in DOMAIN v.of : Conforms(v.of[i].value, schema.of[1])
    [] schema.kind \in {"properties", "additional"} ->
         v.kind = "object" /\ ConformsObject(v, schema)
    [] schema.kind \in {"integer", "number"} -> IsNumber(v, schema)
    [] OTHER -> v.kind = schema.kind

----------------------------------------------------------------------------
(* Anthropic's blocks: texts, and tool uses told apart by their ids.       *)

Blocks ==
  UNION {[1 .. n -> [type : {"text"}, is : {"", "words"}]
                    \cup [type : {"tool_use"}, is : {"call1", "call2"}]] : n \in 0 .. MaxBlocks}
BlockReplies == {b \in Blocks : \A i, j \in DOMAIN b :
                             b[i].type = "tool_use" /\ b[i] = b[j] => i = j}

TextsOf(blocks) == SelectSeq(blocks, LAMBDA b : b.type = "text")
UsesOf(blocks) == SelectSeq(blocks, LAMBDA b : b.type = "tool_use")

\* The common message: the texts joined by newlines, the calls beside them.
FromAnthropic(blocks) == [content |-> TextsOf(blocks), calls |-> UsesOf(blocks)]

IsBlank(content) == content = <<>> \/ (Len(content) = 1 /\ content[1].is = "")

\* And back: the text as one block, unless it is blank, before the tool uses.
\* A message without calls stays a plain text.
ToAnthropic(message) ==
  IF message.calls = <<>> THEN <<message.content>>
  ELSE (IF IsBlank(message.content) THEN <<>> ELSE <<message.content>>)
       \o [i \in DOMAIN message.calls |-> <<message.calls[i]>>]

\* Each tool message becomes a user's tool_result with the id it answers.
ToResult(call) == [type |-> "tool_result", is |-> call.is]

----------------------------------------------------------------------------
ParsingInit ==
  /\ reading = Unread
  /\ \/ \E t \in Texts : reply = [kind |-> "text", text |-> t]
     \/ \E o \in Objects : reply = [kind |-> "object", text |-> o]
     \/ \E t \in Types, v \in JsonValues : reply = [kind |-> "typed", text |-> v, type |-> t]
     \/ \E b \in BlockReplies : reply = [kind |-> "blocks", text |-> b]

\* parse_json: the object is wanted, wherever it is.
ReadText ==
  /\ reading = Unread /\ reply.kind = "text"
  /\ reading' = ParseJson(reply.text)
  /\ UNCHANGED reply

\* A node with tools looks for a call in a reply that made none.
ReadCall ==
  /\ reading = Unread /\ reply.kind = "object"
  /\ reading' = ParseTextCall(reply.text)
  /\ UNCHANGED reply

\* A structured node checks the value it parsed.
ReadTyped ==
  /\ reading = Unread /\ reply.kind = "typed"
  /\ reading' = IF Conforms(reply.text, ToSchema(reply.type))
                THEN [made |-> "value", of |-> reply.text]
                ELSE [made |-> "error"]
  /\ UNCHANGED reply

\* The reply is folded, its calls are answered and all of it is sent again.
ReadBlocks ==
  /\ reading = Unread /\ reply.kind = "blocks"
  /\ LET message == FromAnthropic(reply.text)
     IN reading' = [made    |-> "request",
                    sent    |-> ToAnthropic(message),
                    results |-> [i \in DOMAIN message.calls |-> ToResult(message.calls[i])]]
  /\ UNCHANGED reply

ParsingNext == ReadText \/ ReadCall \/ ReadTyped \/ ReadBlocks

ParsingSpec == ParsingInit /\ [][ParsingNext]_parsingVars

----------------------------------------------------------------------------
\* An object in the prose is found, whatever strings, braces and broken
\* objects surround it, and the first of several is the one (schema.py
\* parse_json_object).
ObjectsAreFound ==
  reply.kind = "text" /\ reading.made # "nothing" =>
    LET whole == 1 .. Len(reply.text)
        objects == {<<i, j>> \in whole \X whole :
                      i < j /\ IsObject(SubSeq(reply.text, i, j))}
    IN IF Accepted(reply.text) THEN reading.of = reply.text
       ELSE IF objects = {} THEN reading.made = "error"
       ELSE \E p \in objects : /\ \A q \in objects : p[1] <= q[1]
                               /\ reading = [made |-> "value",
                                             of   |-> SubSeq(reply.text, p[1], p[2])]

\* The calls normalize_text_tool_calls documents: a name and one object of
\* parameters or arguments, and nothing else.
IsWrittenCall(object) ==
  /\ Len(object) = 2
  /\ \E i \in 1 .. 2 : object[i] = [key |-> "name", value |-> "text"]
  /\ \E i \in 1 .. 2 : object[i].key \in {"parameters", "arguments"}
                       /\ object[i].value # "text"

\* A call written as documented, its name first, is made: that tool, with
\* that object, even when the arguments have a name of their own.
WrittenCallsAreMade ==
  reply.kind = "object" /\ reading.made # "nothing" /\ IsWrittenCall(reply.text)
      /\ reply.text[1].key = "name" =>
    reading = [made |-> "call", name |-> [at |-> 1, own |-> TRUE], args |-> 2]

\* Any other reply is an answer and stays one (harness/formats.py:87-89).
\* It does not: a "name" anywhere is enough.
AnswersAreNotCalls ==
  reply.kind = "object" /\ ~IsWrittenCall(reply.text) => reading.made # "call"

\* The value belongs to the type, read without a schema.
HasType(v, t) ==
  CASE t.kind = "union"  -> \E i \in DOMAIN t.of : HasType(v, t.of[i])
    [] t.kind = "list"   -> v.kind = "array" /\ \A i \in DOMAIN v.of : HasType(v.of[i].value, t.of[1])
    [] t.kind = "map"    -> v.kind = "object" /\ \A i \in DOMAIN v.of : HasType(v.of[i].value, t.of[1])
    [] t.kind = "fields" ->
         /\ v.kind = "object"
         /\ \A f \in 1 .. 2 : \E i \in DOMAIN v.of :
              v.of[i].key = FieldNames[f] /\ HasType(v.of[i].value, t.of[f])
    [] t.kind = "float"  -> v.kind \in {"integer", "number"}
    [] OTHER             -> v.kind = JsonNames[t.kind]

\* A structured node keeps exactly the values of its declared type: the
\* schema derived from the type and the checks by that schema leave nothing
\* in that does not belong, and nothing out that does (schema.py).
TypedRepliesHaveTheirType ==
  reply.kind = "typed" /\ reading.made # "nothing" =>
    (reading.made = "value") = HasType(reply.text, reply.type)

\* Folded and unfolded, an Anthropic reply keeps its text and every tool use
\* in order, and each result that follows answers one of them: the API turns
\* away a use without its result and a result without its use.
RoundsAreSentBackWhole ==
  reading.made = "request" =>
    LET uses == SelectSeq(reading.sent, LAMBDA b : b # <<>> /\ b[1].type = "tool_use")
    IN /\ [i \in DOMAIN uses |-> uses[i][1]] = UsesOf(reply.text)
       /\ [i \in DOMAIN uses |-> uses[i][1].is]
            = [i \in DOMAIN reading.results |-> reading.results[i].is]
       /\ IsBlank(TextsOf(reply.text))
            \/ \E i \in DOMAIN reading.sent : reading.sent[i] = TextsOf(reply.text)

\* So what the model meant is what is read, and sent back (harness/schema.py,
\* harness/formats.py).
RepliesAreRead ==
  ObjectsAreFound /\ WrittenCallsAreMade /\ TypedRepliesHaveTheirType /\ RoundsAreSentBackWhole
=============================================================================
