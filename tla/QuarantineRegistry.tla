------------------------- MODULE QuarantineRegistry -------------------------
(***************************************************************************)
(* parseRegistry of hack/lib/testresults.go: the reader of the flake       *)
(* quarantine registry, one action per line or token of the text.  Any     *)
(* error makes the registry invalid, and an invalid registry is red in     *)
(* every tier, so what matters is that no line is passed over in silence.  *)
(*                                                                         *)
(* A date is a number and any other text in its place is NoDate.  A sig is *)
(* "good", "short" (below minSigChars), "race" (it carries a race marker)  *)
(* or "harness" (it occurs in the test id or in the harness's lines).      *)
(* owner, fix and reason are only required to be there; owner stands for   *)
(* the three.                                                              *)
(***************************************************************************)
EXTENDS Naturals, FiniteSets, TLAPS

CONSTANTS Ids,          \* the well-formed test ids a line may name
          Protected,    \* the ids on a trust surface
          Dates,
          MaxEntries,   \* maxEntries
          MaxLines,     \* bound: the lines of the text
          MaxTokens     \* bound: the tokens after the id of a line

ASSUME RegistryAssumption ==
  /\ Protected \subseteq Ids
  /\ Dates \subseteq Nat
  /\ MaxEntries \in Nat /\ MaxLines \in Nat /\ MaxTokens \in Nat

requiredKeys == {"sig", "owner", "filed", "deadline"}

\* The values, told apart by their kind.
Blank == [kind |-> "blank"]
NoDate == [kind |-> "nodate"]
Date(d) == [kind |-> "date", at |-> d]
Sig(s) == [kind |-> s]
Sigs == {"good", "short", "race", "harness"}

DateValues == {Blank, NoDate} \cup {Date(d) : d \in Dates}
ValuesOf(k) == CASE k = "sig" -> {Blank} \cup {Sig(s) : s \in Sigs}
                 [] k = "owner" -> {Blank, Sig("good")}
                 [] k \in {"filed", "deadline"} -> DateValues

VARIABLES phase,    \* "line": between lines, "tokens": within one, "done"
          lineno,   \* the number of the current line
          test,     \* its test id
          fields,   \* its fields: a function on the keys read so far
          bad,      \* whether a token or a missing key spoiled it: "yes" or "no"
          i,        \* the number of tokens read
          tokens,   \* history: how often each token occurs in the line
          listed,   \* the numbers of the non-blank lines
          seen,     \* the ids of the entries
          entries,  \* the valid entries, each with its line number
          errs      \* the line numbers of the errors; 0 for the one on the cap

vars == <<phase, lineno, test, fields, bad, i, tokens, listed, seen, entries, errs>>

RegistryInit ==
  /\ phase = "line" /\ lineno = 1
  /\ test \in Ids                       \* no line read yet: any value
  /\ fields = <<>> /\ bad = "no" /\ i = 0 /\ tokens = <<>>
  /\ listed = {} /\ seen = {} /\ entries = {} /\ errs = {}

-----------------------------------------------------------------------------
NextLine == phase' = "line" /\ lineno' = lineno + 1

\* A blank line, or one that holds only a comment
BlankLine ==
  /\ phase = "line" /\ lineno <= MaxLines
  /\ NextLine
  /\ UNCHANGED <<test, fields, bad, i, tokens, listed, seen, entries, errs>>

\* An open quotation, or a first word that is no test id
UnreadableLine ==
  /\ phase = "line" /\ lineno <= MaxLines
  /\ listed' = listed \cup {lineno}
  /\ errs' = errs \cup {lineno}
  /\ NextLine
  /\ UNCHANGED <<test, fields, bad, i, tokens, seen, entries>>

StartLine(t) ==
  /\ phase = "line" /\ lineno <= MaxLines
  /\ phase' = "tokens"
  /\ listed' = listed \cup {lineno}
  /\ test' = t /\ fields' = <<>> /\ bad' = "no" /\ i' = 0 /\ tokens' = <<>>
  /\ UNCHANGED <<lineno, seen, entries, errs>>

\* The loop over the tokens goes on, and the history counts token x.
Count(x) ==
  /\ i' = i + 1
  /\ tokens' = [y \in DOMAIN tokens \cup {x} |->
                 IF y \notin DOMAIN tokens THEN 1 ELSE IF y = x THEN tokens[y] + 1 ELSE tokens[y]]

\* A token that is not key=value, or has an unknown key
ForeignToken ==
  /\ phase = "tokens" /\ i < MaxTokens
  /\ errs' = errs \cup {lineno}
  /\ bad' = "yes"
  /\ Count([key |-> "?", value |-> Blank])
  /\ UNCHANGED <<phase, lineno, test, fields, listed, seen, entries>>

RefusedToken_LaterWins(k, v) == v = Blank
RefusedToken(k, v) == k \in DOMAIN fields \/ v = Blank

Token(k, v) ==
  /\ phase = "tokens" /\ i < MaxTokens
  /\ IF RefusedToken(k, v)
     THEN errs' = errs \cup {lineno} /\ bad' = "yes" /\ UNCHANGED fields
     ELSE /\ fields' = [j \in DOMAIN fields \cup {k} |-> IF j = k THEN v ELSE fields[j]]
          /\ UNCHANGED <<errs, bad>>
  /\ Count([key |-> k, value |-> v])
  /\ UNCHANGED <<phase, lineno, test, listed, seen, entries>>

Missing == requiredKeys \ DOMAIN fields

\* The checks on a line that has every key once, in any order: each one refuses.
Refused ==
  \/ fields["filed"].kind # "date"
  \/ fields["deadline"].kind # "date"
  \/ fields["deadline"].at < fields["filed"].at
  \/ fields["sig"].kind # "good"
  \/ test \in Protected
  \/ test \in seen

\* The line becomes an entry.
LineStands == bad = "no" /\ Missing = {} /\ ~Refused

EndLine_Silent ==
  /\ phase = "tokens"
  /\ IF LineStands
     THEN /\ entries' = entries \cup {[line |-> lineno, test |-> test]}
          /\ seen' = seen \cup {test}
          /\ UNCHANGED errs
     ELSE UNCHANGED <<seen, entries, errs>>
  /\ NextLine
  /\ UNCHANGED <<test, fields, bad, i, tokens, listed>>

EndLine ==
  /\ phase = "tokens"
  /\ IF LineStands
     THEN /\ entries' = entries \cup {[line |-> lineno, test |-> test]}
          /\ seen' = seen \cup {test}
          /\ UNCHANGED errs
     ELSE /\ errs' = errs \cup {lineno}
          /\ UNCHANGED <<seen, entries>>
  /\ NextLine
  /\ UNCHANGED <<test, fields, bad, i, tokens, listed>>

EndOfText ==
  /\ phase = "line"
  /\ phase' = "done"
  /\ errs' = IF Cardinality(listed) > MaxEntries THEN errs \cup {0} ELSE errs
  /\ UNCHANGED <<lineno, test, fields, bad, i, tokens, listed, seen, entries>>

Next ==
  \/ BlankLine \/ UnreadableLine \/ \E t \in Ids : StartLine(t)
  \/ ForeignToken \/ \E k \in requiredKeys : \E v \in ValuesOf(k) : Token(k, v)
  \/ EndLine \/ EndOfText

Spec == RegistryInit /\ [][Next]_vars

-----------------------------------------------------------------------------
Entry == [line : Nat, test : Ids]

RegistryTypeOK ==
  /\ phase \in {"line", "tokens", "done"}
  /\ lineno \in Nat \ {0}
  /\ test \in Ids
  /\ DOMAIN fields \subseteq requiredKeys
  /\ bad \in {"yes", "no"}
  /\ listed \subseteq Nat \ {0}
  /\ seen \subseteq Ids
  /\ entries \subseteq Entry
  /\ errs \subseteq Nat

\* "a line that does not parse reds every tier, so the registry fails closed"
\* (hack/quarantine.txt): every non-blank line the reader is done with is an
\* entry or has an error, so a registry without errors lists nothing it drops.
NothingDropped ==
  \A n \in listed : \/ n = lineno /\ phase = "tokens"
                    \/ n \in errs
                    \/ \E e \in entries : e.line = n

\* "a test id may appear once": no two entries are for the same test, although
\* seen only holds the ids of the lines that passed every other check.
OneEntryPerTest ==
  \A e, f \in entries : e.test = f.test => e = f

\* Every line of the registry counts, and counts once: parseRegistry drops
\* none, and evaluate's map by test id forgets none of its entries.
EveryLineCounts == NothingDropped /\ OneEntryPerTest

\* "At most 10 entries": a text read to its end without an error has an entry
\* for each of its lines, and no more of them than the cap allows.
CapHolds ==
  phase = "done" /\ errs = {} =>
    Cardinality(entries) = Cardinality(listed) /\ Cardinality(listed) <= MaxEntries

\* "Every key is required, no key may repeat, no unknown key is accepted", the
\* dates are in order, the sig is usable and the test is not protected.
WellFormed ==
  LET once(k, v) == /\ {x \in DOMAIN tokens : x.key = k} = {[key |-> k, value |-> v]}
                    /\ tokens[[key |-> k, value |-> v]] = 1
  IN /\ \A x \in DOMAIN tokens : x.key \in requiredKeys
     /\ \E f, d \in Dates : once("filed", Date(f)) /\ once("deadline", Date(d)) /\ f <= d
     /\ once("sig", Sig("good")) /\ once("owner", Sig("good"))
     /\ test \notin Protected

\* A line becomes an entry exactly when the tokens it holds, whatever their
\* order, are those the format asks for and its test is not listed already.
EntryIffWellFormed ==
  [][phase = "tokens" /\ phase' = "line" =>
       (entries' # entries <=> WellFormed /\ \A e \in entries : e.test # test)]_vars

-----------------------------------------------------------------------------
(* What parseRegistry never passes over, for every text and every cap. *)

\* OneEntryPerTest is not inductive: a new entry is told from the old ones by
\* its id not being in seen, so seen must hold the id of every entry.
SeenIsTheEntries == \A e \in entries : e.test \in seen

RegistryInv == RegistryTypeOK /\ NothingDropped /\ SeenIsTheEntries /\ OneEntryPerTest

\* The state parseRegistry starts in satisfies the invariant.
LEMMA RegistryInitInv == RegistryInit => RegistryInv
  BY DEF RegistryInit, RegistryInv, RegistryTypeOK, NothingDropped, SeenIsTheEntries, OneEntryPerTest

\* A line or a token read by parseRegistry preserves the invariant.
LEMMA RegistryStepInv == RegistryInv /\ [Next]_vars => RegistryInv'
<1> SUFFICES ASSUME RegistryInv, [Next]_vars PROVE RegistryInv'
  OBVIOUS
<1> USE DEF RegistryInv, NextLine
<1>1. CASE UNCHANGED vars
  BY <1>1 DEF vars, RegistryTypeOK, NothingDropped, SeenIsTheEntries, OneEntryPerTest
<1>2. CASE BlankLine
  BY <1>2 DEF BlankLine, RegistryTypeOK, NothingDropped, SeenIsTheEntries, OneEntryPerTest
<1>3. CASE UnreadableLine
  BY <1>3 DEF UnreadableLine, RegistryTypeOK, NothingDropped, SeenIsTheEntries, OneEntryPerTest
<1>4. ASSUME NEW t \in Ids, StartLine(t) PROVE RegistryInv'
  BY <1>4 DEF StartLine, RegistryTypeOK, NothingDropped, SeenIsTheEntries, OneEntryPerTest
<1>5. CASE ForeignToken
  BY <1>5 DEF ForeignToken, RegistryTypeOK, NothingDropped, SeenIsTheEntries, OneEntryPerTest
<1>6. ASSUME NEW k \in requiredKeys, NEW v \in ValuesOf(k), Token(k, v) PROVE RegistryInv'
  <2>1. RegistryTypeOK'
    BY <1>6 DEF Token, RegistryTypeOK
  <2>2. NothingDropped'
    BY <1>6 DEF Token, RegistryTypeOK, NothingDropped
  <2> QED
    BY <1>6, <2>1, <2>2 DEF Token, SeenIsTheEntries, OneEntryPerTest
<1>7. CASE EndLine
  <2>1. CASE LineStands
    <3>1. test \notin seen
      BY <2>1 DEF LineStands, Refused
    <3>2. /\ entries' = entries \cup {[line |-> lineno, test |-> test]}
          /\ seen' = seen \cup {test} /\ errs' = errs
      BY <1>7, <2>1 DEF EndLine
    <3>3. RegistryTypeOK'
      BY <1>7, <3>2 DEF EndLine, RegistryTypeOK, Entry
    <3>4. NothingDropped'
      <4> SUFFICES ASSUME NEW n \in listed PROVE n \in errs \/ \E e \in entries' : e.line = n
        BY <1>7, <3>2 DEF EndLine, NothingDropped
      <4>1. CASE n = lineno
        <5> DEFINE e == [line |-> lineno, test |-> test]
        <5>1. e \in entries' /\ e.line = n
          BY <3>2, <4>1
        <5> QED
          BY <5>1
      <4>2. CASE n # lineno
        BY <3>2, <4>2 DEF NothingDropped
      <4> QED
        BY <4>1, <4>2
    <3>5. SeenIsTheEntries' /\ OneEntryPerTest'
      BY <3>1, <3>2 DEF SeenIsTheEntries, OneEntryPerTest
    <3> QED
      BY <3>3, <3>4, <3>5
  <2>2. CASE ~LineStands
    <3>1. errs' = errs \cup {lineno} /\ entries' = entries /\ seen' = seen
      BY <1>7, <2>2 DEF EndLine
    <3>2. RegistryTypeOK'
      BY <1>7, <3>1 DEF EndLine, RegistryTypeOK
    <3>3. NothingDropped'
      BY <1>7, <3>1 DEF EndLine, NothingDropped
    <3> QED
      BY <3>1, <3>2, <3>3 DEF SeenIsTheEntries, OneEntryPerTest
  <2> QED
    BY <2>1, <2>2
<1>8. CASE EndOfText
  BY <1>8 DEF EndOfText, RegistryTypeOK, NothingDropped, SeenIsTheEntries, OneEntryPerTest
<1> QED
  BY <1>1, <1>2, <1>3, <1>4, <1>5, <1>6, <1>7, <1>8 DEF Next

\* The invariant holds in every state of every run of parseRegistry.
LEMMA RegistryInvariant == Spec => []RegistryInv
  BY RegistryInitInv, RegistryStepInv, PTL DEF Spec

\* NothingDropped for every registry text: no non-blank line is neither an
\* entry nor an error, so the registry fails closed.
THEOREM RegistryFailsClosed == Spec => []NothingDropped
<1>1. RegistryInv => NothingDropped
  BY DEF RegistryInv
<1> QED
  BY <1>1, RegistryInvariant, PTL

\* OneEntryPerTest for every registry text: a test has at most one entry, so
\* the map evaluate builds from the entries forgets none of them.
THEOREM EntriesAreByTest == Spec => []OneEntryPerTest
<1>1. RegistryInv => OneEntryPerTest
  BY DEF RegistryInv
<1> QED
  BY <1>1, RegistryInvariant, PTL

\* EveryLineCounts for every registry text: what a registry without errors
\* lists and what evaluate looks up are the same tests.
THEOREM RegistryCountsEveryLine == Spec => []EveryLineCounts
  BY RegistryFailsClosed, EntriesAreByTest, PTL DEF EveryLineCounts
=============================================================================
