---------------------------- MODULE StrictDecode ----------------------------
(***************************************************************************)
(* The strict decoder of the budget annotations (decodeBudgetAnnotation),    *)
(* past its size and schema steps: encoding/json's own decoding, the token   *)
(* walk that refuses a repeated key, and the walk over the generic value     *)
(* that refuses a key encoding/json only matched case-insensitively.         *)
(*                                                                         *)
(* A payload is a JSON value as written, keys in order and possibly         *)
(* repeated.  Three fields of a report stand for all: a scalar, a struct and  *)
(* a slice of structs.                                                      *)
(***************************************************************************)
EXTENDS SequencesExt, Integers

CONSTANTS
  Keys,         \* keys a payload may use
  Texts,        \* its scalar values; some are spelled like keys
  MaxPairs,     \* bound: keys of one object
  MaxItems      \* bound: elements of one array

VARIABLES payload, tokens, stack, verdict
vars == <<payload, tokens, stack, verdict>>

(***************************************************************************)
(* JSON values, and the token stream json.Decoder reads from one.           *)
(***************************************************************************)

Scalar(s) == [is |-> "scalar", text |-> s]
Object(pairs) == [is |-> "object", pairs |-> pairs]
Array(items) == [is |-> "array", items |-> items]

UpTo(S, n) == UNION {[1..k -> S] : k \in 0..n}
Pairs(Values) == [key : Keys, value : Values]

Scalars == {Scalar(s) : s \in Texts}
Inner == {Object(o) : o \in UpTo(Pairs(Scalars), MaxPairs)}
Items == {Object(o) : o \in UpTo(Pairs(Scalars), 1)}
Payloads ==
  {Object(o) : o \in UpTo(Pairs(Scalars \cup Inner \cup {Array(a) : a \in UpTo(Items, MaxItems)}),
                          MaxPairs)}

RECURSIVE Tokens(_)
Tokens(v) ==
  CASE v.is = "scalar" -> <<v.text>>
    [] v.is = "object" ->
         <<"{">> \o FlattenSeq([i \in DOMAIN v.pairs |-> <<v.pairs[i].key>> \o Tokens(v.pairs[i].value)])
                 \o <<"}">>
    [] v.is = "array" -> <<"[">> \o FlattenSeq([i \in DOMAIN v.items |-> Tokens(v.items[i])]) \o <<"]">>

(***************************************************************************)
(* Types, as collectJSONFields lists them: the fields of an embedded struct  *)
(* are inlined.                                                              *)
(***************************************************************************)

Text == [is |-> "text"]
StructOf(fields) == [is |-> "struct", fields |-> fields]
SliceOf(t) == [is |-> "slice", elem |-> t]

Ident == StructOf([name |-> Text, level |-> Text])
Embedded == [level |-> Text, policy |-> Ident]
Report == StructOf([signals |-> SliceOf(Ident)] @@ Embedded)

\* The field encoding/json matches a key to.
Fold(key) == CASE key = "Level" -> "level" [] key = "Policy" -> "policy" [] OTHER -> key

\* dec.Decode with unknown fields disallowed: whether it takes the value.
RECURSIVE Decodes(_, _)
Decodes(v, t) ==
  \/ v.is = "scalar" /\ t.is = "text"
  \/ /\ v.is = "object" /\ t.is = "struct"
     /\ \A i \in DOMAIN v.pairs :
          /\ Fold(v.pairs[i].key) \in DOMAIN t.fields
          /\ Decodes(v.pairs[i].value, t.fields[Fold(v.pairs[i].key)])
  \/ /\ v.is = "array" /\ t.is = "slice"
     /\ \A i \in DOMAIN v.items : Decodes(v.items[i], t.elem)

\* The generic value json.Unmarshal builds: of a repeated key the last counts.
LastOf(pairs, i) == \A j \in DOMAIN pairs : pairs[j].key = pairs[i].key => j <= i

\* Mutant: the check stops at the keys of the outermost object.
checkExactKeys_TopOnly(v, t) == \A i \in DOMAIN v.pairs : v.pairs[i].key \in DOMAIN t.fields

RECURSIVE ExactKeys(_, _)
ExactKeys(v, t) ==
  CASE t.is = "struct" /\ v.is = "object" ->
         \A i \in DOMAIN v.pairs : LastOf(v.pairs, i) =>
           /\ v.pairs[i].key \in DOMAIN t.fields
           /\ ExactKeys(v.pairs[i].value, t.fields[v.pairs[i].key])
    [] t.is = "slice" /\ v.is = "array" -> \A i \in DOMAIN v.items : ExactKeys(v.items[i], t.elem)
    [] OTHER -> TRUE
checkExactKeys(v, t) == ExactKeys(v, t)

(***************************************************************************)
(* checkDuplicateKeys: one frame per open object or array.                   *)
(***************************************************************************)

Frame(obj) == [obj |-> obj, expectKey |-> obj, keys |-> {}]
Top(s) == s[Len(s)]

\* After a value, the enclosing object expects a key again.
valueDone(s) ==
  IF s # <<>> /\ Top(s).obj THEN [s EXCEPT ![Len(s)].expectKey = TRUE] ELSE s

InKeyPosition(s) == s # <<>> /\ Top(s).obj /\ Top(s).expectKey

\* The stack after token t, where t does not repeat a key.
Step(s, t) ==
  CASE InKeyPosition(s) /\ t = "}" -> valueDone(Front(s))
    [] InKeyPosition(s) /\ t # "}" ->
         [s EXCEPT ![Len(s)].keys = @ \cup {t}, ![Len(s)].expectKey = FALSE]
    [] ~InKeyPosition(s) /\ t = "{" -> Append(s, Frame(TRUE))
    [] ~InKeyPosition(s) /\ t = "[" -> Append(s, Frame(FALSE))
    [] ~InKeyPosition(s) /\ t = "]" -> valueDone(Front(s))
    [] OTHER -> valueDone(s)

Repeats(s, t) == InKeyPosition(s) /\ t # "}" /\ t \in Top(s).keys

(***************************************************************************)
(* decodeBudgetAnnotation                                                   *)
(***************************************************************************)

Init ==
  /\ payload \in Payloads
  /\ tokens = <<>> /\ stack = <<>>
  /\ verdict = "unread"

Decode ==
  /\ verdict = "unread"
  /\ verdict' = IF Decodes(payload, Report) THEN "walk" ELSE "refused"
  /\ tokens' = Tokens(payload)
  /\ UNCHANGED <<payload, stack>>

Walk ==
  /\ verdict = "walk"
  /\ IF Repeats(stack, Head(tokens))
     THEN verdict' = "refused" /\ UNCHANGED <<tokens, stack>>
     ELSE /\ stack' = Step(stack, Head(tokens))
          /\ tokens' = Tail(tokens)
          /\ verdict' = IF stack' = <<>> THEN "walked" ELSE "walk"
  /\ UNCHANGED payload

MatchKeys ==
  /\ verdict = "walked"
  /\ verdict' = IF checkExactKeys(payload, Report) THEN "accepted" ELSE "refused"
  /\ UNCHANGED <<payload, tokens, stack>>

Next == Decode \/ Walk \/ MatchKeys

Spec == Init /\ [][Next]_vars

\* What the decoder assigns, in order: the field each scalar lands in, the way
\* its keys were spelled, and the scalar.
RECURSIVE Assigned(_, _, _)
Assigned(v, field, spelled) ==
  CASE v.is = "scalar" -> <<[field |-> field, spelled |-> spelled, text |-> v.text]>>
    [] v.is = "object" ->
         FlattenSeq([i \in DOMAIN v.pairs |->
           Assigned(v.pairs[i].value, Append(field, Fold(v.pairs[i].key)),
                    Append(spelled, v.pairs[i].key))])
    [] v.is = "array" ->
         FlattenSeq([i \in DOMAIN v.items |->
           Assigned(v.items[i], Append(field, ToString(i)), Append(spelled, ToString(i)))])

\* An accepted payload says one thing: no field is given two values (of which
\* encoding/json would keep one), at any depth, and none is reached through
\* another spelling of its name.
AcceptedSaysOneThing ==
  verdict = "accepted" =>
    LET a == Assigned(payload, <<>>, <<>>)
    IN \A i, j \in DOMAIN a :
         /\ a[i].field = a[i].spelled
         /\ a[i].field = a[j].field => i = j

\* Every payload a conforming writer produces (each field at most once, spelled
\* as its tag, of its type) is accepted: also when a value is spelled like a
\* key, when two objects use the same key, and behind nested values.
RECURSIVE Conforming(_, _)
Conforming(v, t) ==
  CASE t.is = "text" -> v.is = "scalar"
    [] t.is = "struct" ->
         /\ v.is = "object"
         /\ \A i, j \in DOMAIN v.pairs : v.pairs[i].key = v.pairs[j].key => i = j
         /\ \A i \in DOMAIN v.pairs :
              v.pairs[i].key \in DOMAIN t.fields /\ Conforming(v.pairs[i].value, t.fields[v.pairs[i].key])
    [] t.is = "slice" -> v.is = "array" /\ \A i \in DOMAIN v.items : Conforming(v.items[i], t.elem)
ConformingIsAccepted == verdict = "refused" => ~Conforming(payload, Report)

\* The walk ends with the value: it never pops a frame it did not push, it does
\* not stop while tokens of the payload remain, and it does not run past them.
WalkEndsWithTheValue ==
  /\ verdict = "walk" => tokens # <<>>
  /\ verdict = "walked" => tokens = <<>>
=============================================================================
