--------------------------- MODULE BudgetReport ---------------------------
(***************************************************************************)
(* A node's report read by a relay of an older release with the same       *)
(* annotation schema: the strict decoder, the reasons the relay cannot     *)
(* name (decodeOpenEnum), their summing (mergeUnknownWindows) and the      *)
(* validation of one band's windowed counts.                               *)
(*                                                                         *)
(* Counts are signed integers of a small width.  A conforming producer     *)
(* writes neither an empty reason nor the reason "unknown" itself.         *)
(***************************************************************************)
EXTENDS Integers, Sequences, FiniteSets, SequencesExt

CONSTANTS
    Windows,    \* CounterWindow
    Named,      \* the reasons the relay's release names
    Added,      \* the reasons only the producer's release names
    MaxInt,     \* the largest count
    Flaws       \* what such a payload may have wrong before its values

VARIABLES
    counted,    \* the producer's windowed counts
    read        \* what the relay made of an annotation: [of, verdict, windows]

vars == <<counted, read>>

MinInt == -MaxInt - 1
Wrap(n) == ((n - MinInt) % (2 * MaxInt + 2)) + MinInt

\* One per window and named reason; the producer's release names more.
MaxWindowCounts == Cardinality(Windows) * Cardinality(Named)
ProducerMaxWindowCounts == Cardinality(Windows) * Cardinality(Named \cup Added)

Entry(w, r, n) == [window |-> w, reason |-> r, count |-> n]

---------------------------------------------------------------------------
(* Reading. *)

\* decodeBudgetAnnotation, in its order.  "none" is a payload without flaw.
Decode(flaws) ==
    CASE "large" \in flaws -> "AnnotationTooLarge"
      [] "large" \notin flaws /\ "syntax" \in flaws -> "AnnotationMalformed"
      [] flaws \cap {"large", "syntax"} = {} /\ "schema" \in flaws ->
            "SchemaUnsupported"
      [] flaws \cap {"large", "syntax", "schema"} = {} /\ flaws # {} ->
            "AnnotationMalformed"
      [] flaws = {} -> "decoded"

\* CounterReason.UnmarshalJSON.
decodeOpenEnum(r) == IF r \in Named \cup {"unknown", ""} THEN r ELSE "unknown"

Decoded(ws) ==
    [i \in DOMAIN ws |-> [ws[i] EXCEPT !.reason = decodeOpenEnum(ws[i].reason)]]

\* The sum wraps.
AddCounts_Wraps(a, b) == Wrap(a + b)

AddCounts(a, b) == IF b > 0 /\ a > MaxInt - b THEN MaxInt ELSE Wrap(a + b)

\* One pass over the entries, as the code's loop: an unknown entry is added
\* to the first unknown entry of its window.
mergeUnknownWindows(ws) ==
    LET Step(out, w) ==
          LET at == {i \in DOMAIN out : /\ out[i].reason = "unknown"
                                        /\ out[i].window = w.window}
          IN  IF w.reason # "unknown" \/ at = {}
              THEN Append(out, w)
              ELSE [i \in DOMAIN out |->
                      IF i \in at
                      THEN [out[i] EXCEPT !.count = AddCounts(@, w.count)]
                      ELSE out[i]]
    IN  FoldLeft(Step, <<>>, ws)

\* BandCounters.validate, of the windows.
WindowsValid(ws, max, reasons) ==
    /\ Len(ws) <= max
    /\ \A i \in DOMAIN ws :
          /\ ws[i].window \in Windows
          /\ ws[i].reason \in reasons
          /\ ws[i].count >= 0
          /\ \A j \in 1..(i - 1) :
                <<ws[j].window, ws[j].reason>> # <<ws[i].window, ws[i].reason>>

\* ParseNodeBudgetReport, and the reason the relay reports for its error.
Parse(p) ==
    LET merged == mergeUnknownWindows(Decoded(p.windows))
        valid == WindowsValid(merged, MaxWindowCounts, Named \cup {"unknown"})
    IN  IF Decode(p.flaws) = "decoded" /\ valid
        THEN [of |-> p, verdict |-> "NodeReporting", windows |-> merged]
        ELSE [of |-> p, windows |-> <<>>,
              verdict |-> IF Decode(p.flaws) = "decoded"
                          THEN "AnnotationMalformed" ELSE Decode(p.flaws)]

---------------------------------------------------------------------------
NotRead == [of |-> [flaws |-> {}, windows |-> <<>>],
            verdict |-> "NodeNotReporting", windows |-> <<>>]

NoCounts == [k \in Windows \X (Named \cup Added) |-> 0]

Init ==
    /\ counted = NoCounts
    /\ read = NotRead

\* The producer counts an event of a reason in a window.  A behaviour ends
\* with one read.
Count(w, r) ==
    /\ read = NotRead
    /\ counted[w, r] < MaxInt
    /\ counted' = [counted EXCEPT ![w, r] = @ + 1]
    /\ UNCHANGED read

\* The counts above 0, as a producer lists them.
Listings ==
    LET s == FoldSet(LAMBDA k, ws : Append(ws, Entry(k[1], k[2], counted[k])),
                     <<>>, {k \in DOMAIN counted : counted[k] > 0})
    IN  {s, Reverse(s)}

\* The relay reads the producer's report, which the producer's own Encode
\* accepted.
ReadReport(ws) ==
    /\ read = NotRead
    /\ WindowsValid(ws, ProducerMaxWindowCounts, Named \cup Added)
    /\ read' = Parse([flaws |-> {}, windows |-> ws])
    /\ UNCHANGED counted

\* It reads what something else wrote, whatever the producer counted.
ReadOther(flaws) ==
    /\ read = NotRead /\ counted = NoCounts
    /\ read' = Parse([flaws |-> flaws, windows |-> <<>>])
    /\ UNCHANGED counted

\* Payloads of the producer's release and ones the decoder must refuse.
Next ==
    \/ \E w \in Windows, r \in Named \cup Added : Count(w, r)
    \/ \E ws \in Listings : ReadReport(ws)
    \/ \E flaws \in SUBSET Flaws : ReadOther(flaws)

Spec == Init /\ [][Next]_vars

---------------------------------------------------------------------------
SumOf(ws, w, Reasons) ==
    FoldLeft(LAMBDA sum, e : IF e.window = w /\ e.reason \in Reasons
                             THEN sum + e.count ELSE sum, 0, ws)

\* What the relay publishes of a newer producer's counts: the named ones as
\* they were counted, and per window the sum of the others, at most the
\* largest count; never a wrapped or a lost one.
CountsSurviveTheSkew ==
    read.verdict = "NodeReporting" =>
        \A w \in Windows :
            /\ \A r \in Named :
                  SumOf(read.windows, w, {r}) = SumOf(read.of.windows, w, {r})
            /\ LET sum == SumOf(read.of.windows, w, Added)
               IN  SumOf(read.windows, w, {"unknown"})
                       = IF sum > MaxInt THEN MaxInt ELSE sum

\* The number of entries a producer's counts have once the reasons the relay
\* cannot name are one entry per window.
Folded(ws) ==
    Cardinality({i \in DOMAIN ws : ws[i].reason \in Named})
      + Cardinality({ws[i].window : i \in {j \in DOMAIN ws : ws[j].reason \in Added}})

\* A newer producer's report is refused for one thing only: more windowed
\* counts than MaxWindowCounts after the merge.
RefusedOnlyAtTheBound ==
    read.of.flaws = {} /\ read.verdict \notin {"NodeReporting", "NodeNotReporting"}
        => Folded(read.of.windows) > MaxWindowCounts

\* A payload of another schema is reported as that and not as malformed,
\* whatever else this release does not know in it, so that the remedy can be
\* seen from the reason.
OtherSchemaIsNotMalformed ==
    /\ read.verdict # "NodeNotReporting"
    /\ "schema" \in read.of.flaws
    /\ read.of.flaws \cap {"large", "syntax"} = {}
    => read.verdict = "SchemaUnsupported"

\* An older relay keeps the report of a newer producer of its schema.
OlderReaderKeepsTheReport ==
    read.of.flaws = {} => read.verdict \in {"NodeReporting", "NodeNotReporting"}
===========================================================================
