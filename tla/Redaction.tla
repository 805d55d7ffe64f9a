------------------------------- MODULE Redaction -------------------------------
(***************************************************************************)
(* What is stored of the metadata of an audit event: audit/redaction.ts.   *)
(*                                                                         *)
(* Metadata is a graph of objects and arrays that may share and contain    *)
(* each other.  It is walked depth first; what is denied by its key or its *)
(* value is replaced, and what is too deep, too broad, too long or met for *)
(* the second time is cut off; both are reported.  What has no form in     *)
(* JSON is converted, and that is not reported.  Strings are plain, long   *)
(* or secret (they match a denied pattern), keys are plain or denied.      *)
(***************************************************************************)
EXTENDS Integers, Sequences

CONSTANTS
  Node,                    \* the objects and arrays of the metadata
  Root,                    \* the one that is passed
  Depths,                  \* values of RedactionLimits.maxDepth
  MaxArrayLength, MaxKeys, \* RedactionLimits
  MaxEntries               \* bound: entries of the root and of an array; the
                           \* others have one at most

RedactionAssumption ==
  /\ Root \in Node /\ Depths \subseteq Nat
  /\ MaxArrayLength \in Nat /\ MaxEntries \in Nat
  \* 32 in the code; the two keys of an error are not counted.
  /\ MaxKeys \in Nat /\ MaxKeys >= 2

VARIABLES
  metadata,  \* [Node -> Container]
  maxDepth,
  stored,    \* what came out, NotYet before
  form       \* in which it goes to the row

vars == <<metadata, maxDepth, stored, form>>

-------------------------------------------------------------------------------
(* Values.                                                                  *)

Leaf(k) == [kind |-> k]
Ref(n) == [kind |-> "ref", node |-> n]
Error(message) == [kind |-> "error", message |-> message]
\* nonfinite: NaN and the infinities; bigint: one, or a Date; function: one, or
\* a symbol.
LeafKind ==
  {"null", "plain", "long", "secret", "function", "nonfinite", "bigint"}
Message == {"plain", "long", "secret"}
Value ==
  { Leaf(k) : k \in LeafKind } \cup { Error(k) : k \in Message }
    \cup { Ref(n) : n \in Node }

Entry == [denied : BOOLEAN, value : Value]
Entries == UNION { [1 .. n -> Entry] : n \in 0 .. MaxEntries }
\* The keys of an array are its indexes.  A collection, a Map or a Set, has no
\* properties: what it holds is no entry of the object that it is.
Container ==
  [kind : {"object"}, entries : Entries]
    \cup { c \in [kind : {"array", "collection"}, entries : Entries] :
             \A i \in DOMAIN c.entries : ~c.entries[i].denied }

Shape(c) == IF c.kind = "array" THEN "array" ELSE "object"
Own(c) == IF c.kind = "collection" THEN <<>> ELSE c.entries

Redacted == Leaf("[REDACTED]")
Truncated == Leaf("[TRUNCATED]")
NotYet == [value |-> Leaf("null"), seen |-> {}, truncated |-> FALSE,
           redacted |-> 0]

\* Bound: what is beyond the limit of an array is plain.
PlainBeyond(c) ==
  \A i \in DOMAIN c.entries :
    i > MaxArrayLength => c.entries[i].value = Leaf("plain")

Init ==
  /\ metadata \in { m \in [Node -> Container] :
       /\ m[Root].kind = "object"
       /\ \A n \in Node \ {Root} :
            IF m[n].kind = "array" THEN PlainBeyond(m[n]) ELSE Len(m[n].entries) <= 1 }
  /\ maxDepth \in Depths
  /\ stored = NotYet
  /\ form = "none"

-------------------------------------------------------------------------------
(* The walk: a result is the value, the objects that were met, and what     *)
(* happened on the way.  It is a function by the levels that are left: a    *)
(* depth over the limit is a room of 0.  inner is the walk one level down.  *)

Found(v, seen, cut, n) ==
  [value |-> v, seen |-> seen, truncated |-> cut, redacted |-> n]

\* Seeded fault: what has a key that is not denied is trusted.
WalkTrusting(k, seen) ==
  CASE k = "function" -> Found(Redacted, seen, FALSE, 1)
    [] k = "long" -> Found(Leaf("prefix"), seen, TRUE, 0)
    [] k = "nonfinite" -> Found(Leaf("null"), seen, FALSE, 0)
    [] k = "bigint" -> Found(Leaf("text"), seen, FALSE, 0)
    [] OTHER -> Found(Leaf(k), seen, FALSE, 0)

\* Strings, numbers and the rest, but for errors.
WalkLeaf(k, seen) ==
  CASE k \in {"secret", "function"} -> Found(Redacted, seen, FALSE, 1)
    [] k = "long" -> Found(Leaf("prefix"), seen, TRUE, 0)
    [] k = "nonfinite" -> Found(Leaf("null"), seen, FALSE, 0)
    [] k = "bigint" -> Found(Leaf("text"), seen, FALSE, 0)
    [] OTHER -> Found(Leaf(k), seen, FALSE, 0)

\* Of an error its name and its message are kept, the stack is not.  Nobody
\* looks at the name; the message is walked as the string it is.
NameAnd(message) ==
  [kind |-> "object",
   entries |-> <<[denied |-> FALSE, value |-> Leaf("plain")],
                 [denied |-> FALSE, value |-> message]>>]

WalkError(k, seen, inner) ==
  LET message == inner[Leaf(k)][seen]
  IN  [message EXCEPT !.value = NameAnd(message.value)]

Kept(c) ==
  LET limit == IF c.kind = "array" THEN MaxArrayLength ELSE MaxKeys
  IN  SubSeq(Own(c), 1, IF Len(Own(c)) > limit THEN limit ELSE Len(Own(c)))

\* One entry more: r is the result so far.
WalkEntry(r, e, inner) ==
  LET w == IF e.denied THEN Found(Redacted, r.seen, FALSE, 1)
           ELSE inner[e.value][r.seen]
  IN  Found(Append(r.value, [denied |-> e.denied, value |-> w.value]),
            w.seen, r.truncated \/ w.truncated, r.redacted + w.redacted)

\* What one entry has met is cut off in the next.
WalkEntries(start, entries, inner) ==
  LET upTo[i \in 0 .. Len(entries)] ==
        IF i = 0 THEN start ELSE WalkEntry(upTo[i - 1], entries[i], inner)
  IN  upTo[Len(entries)]

WalkContainer(c, seen, inner) ==
  LET start == Found(<<>>, seen, Len(Own(c)) > Len(Kept(c)), 0)
      r == WalkEntries(start, Kept(c), inner)
  IN  [r EXCEPT !.value = [kind |-> Shape(c), entries |-> r.value]]

TooDeep ==
  [v \in Value |-> [seen \in SUBSET Node |->
     IF v.kind = "null" THEN Found(v, seen, FALSE, 0)
     ELSE Found(Truncated, seen, TRUE, 0)]]

WalkValue(m, v, seen, inner) ==
  CASE v.kind = "error" -> WalkError(v.message, seen, inner)
    [] v.kind \in LeafKind -> WalkLeaf(v.kind, seen)
    [] v.kind = "ref" /\ v.node \in seen -> Found(Truncated, seen, TRUE, 0)
    [] v.kind = "ref" /\ v.node \notin seen ->
         WalkContainer(m[v.node], seen \cup {v.node}, inner)

Within(m, inner) ==
  [v \in Value |-> [seen \in SUBSET Node |-> WalkValue(m, v, seen, inner)]]

Walk(m, max) ==
  LET walk[room \in 0 .. max + 1] ==
        IF room = 0 THEN TooDeep ELSE Within(m, walk[room - 1])
  IN  walk[max + 1]

RedactMetadata == Walk(metadata, maxDepth)[Ref(Root)][{}]

\* Nothing if there are no keys; the keys alone if the text is too large; with
\* a mark if something was cut.  The size of the text is not modelled.
FormOf(r) ==
  IF r.value.entries = <<>> THEN {"none"}
  ELSE {"keys", IF r.truncated THEN "marked" ELSE "whole"}

SerializeMetadata ==
  /\ stored = NotYet
  /\ stored' = RedactMetadata
  /\ form' \in FormOf(stored')
  /\ UNCHANGED <<metadata, maxDepth>>

Next == SerializeMetadata

Spec == Init /\ [][Next]_vars

-------------------------------------------------------------------------------
(* Properties.                                                              *)

\* What a leaf becomes that is neither denied nor too long.
Written(k) ==
  Leaf(IF k = "nonfinite" THEN "null" ELSE IF k = "bigint" THEN "text" ELSE k)

\* The tree of a value, as far as depth allows, with the conversions: they are
\* those of Written, of errors and of collections, and no other.
Opened(m, inner) ==
  [v \in Value |->
     CASE v.kind \in LeafKind -> Written(v.kind)
       [] v.kind = "error" -> NameAnd(inner[Leaf(v.message)])
       [] v.kind = "ref" ->
            [kind |-> Shape(m[v.node]),
             entries |-> [i \in DOMAIN Own(m[v.node]) |->
               [denied |-> Own(m[v.node])[i].denied,
                value |-> inner[Own(m[v.node])[i].value]]]]]

Unfold(m, max) ==
  LET tree[room \in 0 .. max + 1] ==
        IF room = 0 THEN [v \in Value |-> v] ELSE Opened(m, tree[room - 1])
  IN  tree[max + 1]

\* What may be stored: S is what may be, one level down.
SafeLeaf ==
  { Leaf(k) : k \in {"null", "plain", "text", "prefix", "[REDACTED]", "[TRUNCATED]"} }
SafeEntry(S) ==
  [denied : {FALSE}, value : S] \cup [denied : {TRUE}, value : {Redacted}]
SafeEntries(S, limit) == { e \in Seq(SafeEntry(S)) : Len(e) <= limit }
SafeContainer(S) ==
  [kind : {"object"}, entries : SafeEntries(S, MaxKeys)]
    \cup [kind : {"array"}, entries : SafeEntries(S, MaxArrayLength)]

Safe(max) ==
  LET safe[room \in 0 .. max + 1] ==
        IF room = 0 THEN SafeLeaf ELSE SafeLeaf \cup SafeContainer(safe[room - 1])
  IN  safe[max + 1]

\* However objects contain each other, nothing is stored that is denied by its
\* key or its value, or beyond the limits; whatever is replaced or cut off is
\* reported: with nothing reported, what is stored is what was passed, but for
\* four conversions that are made in silence - a number that is not finite is
\* null, a bigint or a date is text, an error is its name and its message, and a
\* Map or a Set is empty (redactMetadata, serializeMetadata).
NothingDenied ==
  stored # NotYet =>
    /\ stored.value \in Safe(maxDepth)
    /\ ~stored.truncated /\ stored.redacted = 0 =>
         stored.value = Unfold(metadata, maxDepth)[Ref(Root)]
    /\ form = "whole" => ~stored.truncated
===============================================================================
