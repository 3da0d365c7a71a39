----------------------------- MODULE JsonDocument -----------------------------
(***************************************************************************)
(* The JSON builtins (internal/engine/builtins_json.go): a cell whose text *)
(* is a JSON document, read by path, and written by a chain of JSONSETs,   *)
(* each of the text the one before it made.                                *)
(*                                                                         *)
(* A text is a sequence of symbols: punctuation, the quotation mark,       *)
(* numerals, the literals true, false and null, and words. A string is     *)
(* quoted as it stands: what needs an escape is left out.                  *)
(***************************************************************************)
EXTENDS Integers, SequencesExt

CONSTANTS Canon,      \* for each numeral of a document, that of the number it is
          Subscript,  \* for each numeral of a path, its integer
          Overflow,   \* what Canon has of a numeral beyond every float
          Documents,  \* the texts a user writes
          Paths,      \* the texts of paths
          Operands,   \* the values that are set
          MaxSymbols  \* bound: the length of a text that is set in again

VARIABLES doc,        \* the text
          setting,    \* the path and the value of the last call
          val         \* what it came to

vars == <<doc, setting, val>>

Quote == "\""

\* A node; the items of an array have no key.
Node(kind, str, items) == [kind |-> kind, str |-> str, items |-> items]
Leaf(kind, str) == Node(kind, str, <<>>)
Item(key, value) == [key |-> key, value |-> value]

Val(kind, str) == [kind |-> kind, str |-> str]
Error(code) == Val("error", <<code>>)

Peek(text) == IF text = <<>> THEN "" ELSE Head(text)
At(text, symbol) == SelectInSeq(text, LAMBDA s : s = symbol)

-----------------------------------------------------------------------------
(* Documents *)

Decoded(node, rest) == [ok |-> TRUE, node |-> node, rest |-> rest]
Undecoded == [ok |-> FALSE, node |-> Leaf("null", <<>>), rest |-> <<>>]

DecodeString(text) ==
  LET end == At(Tail(text), Quote)
  IN  IF Peek(text) # Quote \/ end = 0 THEN Undecoded
      ELSE Decoded(Leaf("string", SubSeq(text, 2, end)), SubSeq(text, end + 2, Len(text)))

RECURSIVE DecodeNode(_), DecodeItems(_, _, _)

\* The key of a member, the colon and what follows.
DecodeMember(text) ==
  LET key == DecodeString(text)
      value == DecodeNode(Tail(key.rest))
  IN  [key |-> key.node.str,
       of |-> IF Peek(key.rest) = ":" THEN value ELSE Undecoded]

\* The items up to the closing bracket; a comma stands between two of them.
DecodeItems(kind, text, items) ==
  LET next == IF items = <<>> THEN text ELSE Tail(text)
      member == IF kind = "object" THEN DecodeMember(next)
                ELSE [key |-> <<>>, of |-> DecodeNode(next)]
  IN  IF Peek(text) = (IF kind = "object" THEN "}" ELSE "]")
      THEN Decoded(Node(kind, <<>>, items), Tail(text))
      ELSE IF text = <<>> \/ (items # <<>> /\ Head(text) # ",") \/ ~member.of.ok THEN Undecoded
      ELSE DecodeItems(kind, member.of.rest, Append(items, Item(member.key, member.of.node)))

DecodeNode(text) ==
  LET c == Peek(text)
      As(kind, str) == Decoded(Leaf(kind, str), Tail(text))
  IN  CASE c = "["               -> DecodeItems("array", Tail(text), <<>>)
        [] c = "{"               -> DecodeItems("object", Tail(text), <<>>)
        [] c = Quote             -> DecodeString(text)
        [] c \in DOMAIN Canon    -> As("number", <<c>>)
        [] c \in {"true", "false"} -> As("boolean", <<c>>)
        [] c = "null"            -> As("null", <<>>)
        [] OTHER                 -> Undecoded

\* One document and no more.
ParseJson(text) == LET d == DecodeNode(text) IN [d EXCEPT !.ok = d.ok /\ d.rest = <<>>]

Quoted(str) == <<Quote>> \o str \o <<Quote>>
Joined(parts) ==
  FlattenSeq([i \in DOMAIN parts |-> IF i = 1 THEN parts[i] ELSE <<",">> \o parts[i]])

RECURSIVE RenderJson(_)
RenderJson(node) ==
  LET items == [i \in DOMAIN node.items |-> RenderJson(node.items[i].value)]
      members == [i \in DOMAIN items |-> Quoted(node.items[i].key) \o <<":">> \o items[i]]
  IN  CASE node.kind = "null"   -> <<"null">>
        [] node.kind = "string" -> Quoted(node.str)
        [] node.kind = "array"  -> <<"[">> \o Joined(items) \o <<"]">>
        [] node.kind = "object" -> <<"{">> \o Joined(members) \o <<"}">>
        [] OTHER                -> node.str

-----------------------------------------------------------------------------
(* Paths *)

KeyStep(key) == [key |-> key, index |-> -1]
IndexStep(index) == [key |-> <<>>, index |-> index]
IsIndex(step) == step.index >= 0

Parsed(ok, steps) == [ok |-> ok, steps |-> steps]

\* A run of bracketed indices.
ParseIndices(text) ==
  LET n == Len(text) \div 3 IN
  IF /\ Len(text) = 3 * n
     /\ \A i \in 1..n : /\ text[3 * i - 2] = "[" /\ text[3 * i] = "]"
                        /\ text[3 * i - 1] \in DOMAIN Subscript /\ Subscript[text[3 * i - 1]] >= 0
  THEN Parsed(TRUE, [i \in 1..n |-> IndexStep(Subscript[text[3 * i - 1]])])
  ELSE Parsed(FALSE, <<>>)

\* key, key[i]..., or, first in the path only, [i]...
ParseSegment(text, isFirst) ==
  LET bracket == At(text \o <<"[">>, "[")
      key == SubSeq(text, 1, bracket - 1)
      indices == ParseIndices(SubSeq(text, bracket, Len(text)))
  IN  IF key # <<>> THEN Parsed(indices.ok, <<KeyStep(key)>> \o indices.steps)
      ELSE Parsed(isFirst /\ text # <<>> /\ indices.ok, indices.steps)

ParsePath(path) ==
  LET dots == <<0>> \o SelectSeq([i \in DOMAIN path |-> i], LAMBDA i : path[i] = ".")
                \o <<Len(path) + 1>>
      segments == [i \in 1..(Len(dots) - 1) |->
                     ParseSegment(SubSeq(path, dots[i] + 1, dots[i + 1] - 1), i = 1)]
  IN  IF path = <<>> THEN Parsed(TRUE, <<>>)
      ELSE Parsed(\A i \in DOMAIN segments : segments[i].ok,
                  FlattenSeq([i \in DOMAIN segments |-> segments[i].steps]))

\* Mutant: the last of the members of one key.
LastMember(items, key) == SelectLastInSeq(items, LAMBDA m : m.key = key)

\* The first of the members of one key; 0 when there is none.
MemberIndex(items, key) == SelectInSeq(items, LAMBDA m : m.key = key)

\* The place of the item a step leads to; 0 when it does not resolve.
StepInto(node, step) ==
  CASE IsIndex(step) /\ node.kind = "array" /\ step.index < Len(node.items) -> step.index + 1
    [] ~IsIndex(step) /\ node.kind = "object" -> SelectInSeq(node.items, LAMBDA m : m.key = step.key)
    [] OTHER -> 0

Found(node) == [found |-> TRUE, node |-> node]
NotFound == [found |-> FALSE, node |-> Leaf("null", <<>>)]

RECURSIVE WalkPath(_, _)
WalkPath(node, steps) ==
  IF steps = <<>> THEN Found(node)
  ELSE LET i == StepInto(node, Head(steps))
       IN  IF i = 0 THEN NotFound ELSE WalkPath(node.items[i].value, Tail(steps))

-----------------------------------------------------------------------------
(* JSONGET, JSONTYPE, JSONLEN, JSONKEYS *)

\* What a reading function makes of the node at a path.
Reads(text, path, Of(_)) ==
  LET parsed == ParseJson(text)
      at == WalkPath(parsed.node, ParsePath(path).steps)
  IN  IF ~parsed.ok \/ ~ParsePath(path).ok THEN Error("#VALUE!")
      ELSE IF ~at.found THEN Error("#N/A") ELSE Of(at.node)

JsonScalar(node) ==
  CASE node.kind = "null"    -> Val("empty", <<>>)
    [] node.kind = "boolean" -> Val("bool", node.str)
    [] node.kind = "number"  -> IF Canon[node.str[1]] = Overflow THEN Error("#NUM!")
                                ELSE Val("number", <<Canon[node.str[1]]>>)
    [] node.kind = "string"  -> Val("string", node.str)
    [] OTHER                 -> Val("string", RenderJson(node))

TypeName(node) == Val("string", <<node.kind>>)

LengthOf(node) == IF node.kind \in {"array", "object"}
                  THEN Val("number", <<ToString(Len(node.items))>>)
                  ELSE Error("#VALUE!")

KeysColumn(node) == IF node.kind # "object" THEN Error("#VALUE!")
                    ELSE IF node.items = <<>> THEN Error("#N/A")
                    ELSE Val("array", [i \in DOMAIN node.items |-> node.items[i].key])

FnJsonGet(text, path) == Reads(text, path, JsonScalar)
FnJsonType(text, path) == Reads(text, path, TypeName)
FnJsonLen(text, path) == Reads(text, path, LengthOf)
FnJsonKeys(text, path) == Reads(text, path, KeysColumn)

-----------------------------------------------------------------------------
(* JSONSET *)

JsonFromValue(v) ==
  CASE v.kind = "number" -> Leaf("number", v.str)
    [] v.kind = "bool"   -> Leaf("boolean", v.str)
    [] v.kind = "empty"  -> Leaf("null", <<>>)
    [] OTHER             -> Leaf("string", v.str)

RECURSIVE SetPath(_, _, _)

SetItem(node, i, steps, value) ==
  LET child == SetPath(node.items[i].value, Tail(steps), value)
  IN  IF ~child.found THEN NotFound
      ELSE Found([node EXCEPT !.items[i] = Item(node.items[i].key, child.node)])

\* An index never extends an array.
SetIndex(node, steps, value) ==
  IF node.kind # "array" \/ Head(steps).index >= Len(node.items) THEN NotFound
  ELSE SetItem(node, Head(steps).index + 1, steps, value)

\* A missing key is appended, as an empty object.
SetKey(node, steps, value) ==
  LET at == MemberIndex(node.items, Head(steps).key)
      new == [node EXCEPT !.items = Append(@, Item(Head(steps).key, Leaf("object", <<>>)))]
  IN  IF node.kind # "object" THEN NotFound
      ELSE IF at > 0 THEN SetItem(node, at, steps, value)
      ELSE SetItem(new, Len(new.items), steps, value)

SetPath(node, steps, value) ==
  IF steps = <<>> THEN Found(value)
  ELSE IF IsIndex(Head(steps)) THEN SetIndex(node, steps, value) ELSE SetKey(node, steps, value)

FnJsonSet(text, path, v) ==
  LET parsed == ParseJson(text)
      updated == SetPath(parsed.node, ParsePath(path).steps, JsonFromValue(v))
  IN  IF ~parsed.ok \/ ~ParsePath(path).ok THEN Error("#VALUE!")
      ELSE IF ~updated.found THEN Error("#N/A") ELSE Val("string", RenderJson(updated.node))

-----------------------------------------------------------------------------

NoSetting == [path |-> <<>>, value |-> Val("empty", <<>>)]

Init == doc \in Documents /\ setting = NoSetting /\ val = Val("string", doc)

\* The next formula of the chain; one that comes to an error ends it.
JsonSet(path, v) ==
  /\ Len(doc) <= MaxSymbols /\ val.kind # "error"
  /\ setting' = [path |-> path, value |-> v]
  /\ val' = FnJsonSet(doc, path, v)
  /\ doc' = IF val'.kind = "error" THEN doc ELSE val'.str

Next == \E path \in Paths, v \in Operands : JsonSet(path, v)

Spec == Init /\ [][Next]_vars

-----------------------------------------------------------------------------

Steps(path) == ParsePath(path).steps
IsAbove(p, q) == Len(p) < Len(q) /\ SubSeq(q, 1, Len(p)) = p
AreApart(p, q) == p # q /\ ~IsAbove(p, q) /\ ~IsAbove(q, p)
Readable == {p \in Paths : ParsePath(p).ok}

\* The keys after a set below an object: as they were, or with the new key last.
KeepsKeys(before, after, key) ==
  \/ after = before
  \/ after.kind = "array" /\ after.str = (IF before.kind = "array" THEN before.str ELSE <<>>) \o <<key>>

\* A JSONSET that succeeds changes the place it names and no other: its value is read
\* back there, what every path beside it reads, numerals as they were written included,
\* is what it read before, and an object above it keeps its type and its keys in their
\* order, with a new key at most, and last; an array above it keeps its length
\* ("preserving member order, with a new key appended", "indices never extend an
\* array"), whatever key the document repeats. A value that is no JSON number leaves
\* a text that is no document.
JsonSetIsLocal ==
  [][(setting' # setting /\ val'.kind = "string") =>
       LET p == Steps(setting'.path)
           v == setting'.value
           isWritable == v.kind = "number" => v.str[1] \in DOMAIN Canon
       IN  IF ~isWritable THEN ~ParseJson(doc').ok
           ELSE \A q \in Readable :
             /\ Steps(q) = p => FnJsonGet(doc', q) = v
             /\ AreApart(Steps(q), p) => FnJsonGet(doc', q) = FnJsonGet(doc, q)
             /\ (IsAbove(Steps(q), p) /\ FnJsonType(doc, q).kind # "error") =>
                  /\ FnJsonType(doc', q) = FnJsonType(doc, q)
                  /\ IF FnJsonType(doc, q).str = <<"array">>
                     THEN FnJsonLen(doc', q) = FnJsonLen(doc, q)
                     ELSE KeepsKeys(FnJsonKeys(doc, q), FnJsonKeys(doc', q), p[Len(Steps(q)) + 1].key)]_vars
=============================================================================
