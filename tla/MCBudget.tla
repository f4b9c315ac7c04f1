------------------------------- MODULE MCBudget -------------------------------
(***************************************************************************)
(* The budget API apart from its page: the choice of a policy, the ladders *)
(* checkLadder admits, the relay of a policy and its answer, the older     *)
(* relay's reading of a newer report and the strict decoder under all of   *)
(* them.  The five share no state.  part is the one under way, and         *)
(* s1 .. s9 hold its state.                                                *)
(***************************************************************************)
EXTENDS BudgetPolicy, TLC

VARIABLES part, s1, s2, s3, s4, s5, s6, s7, s8, s9

slots == <<s1, s2, s3, s4, s5, s6, s7, s8, s9>>
Unused == {}

NoLabels == [k \in {} |-> 0]
MCSpecOf(sel, prio, tier1, mode) ==
    [selector |-> sel, priority |-> prio, thresholds |-> <<>>,
     reserves |-> {}, halfLives |-> {}, permilles |-> {}, mode |-> mode, tier1 |-> tier1]
Tier1(grace, held, deliveries, cooloff) ==
    "tier1GraceSeconds" :> grace @@ "tier1HeldSeconds" :> held @@
    "tier1MaxDeliveriesPerHour" :> deliveries @@ "tier1CooloffSeconds" :> cooloff
NoTier1 == Tier1({}, {}, {}, {})

\* Three names, two priorities, selectors of no, one and two labels.
Selectors == {NoLabels, "zone" :> 1, "zone" :> 1 @@ "class" :> 1}
ChoiceSpecs == {MCSpecOf(sel, prio, NoTier1, "") : prio \in {-1, 0}, sel \in Selectors}
Labelled == Selectors \cup {"zone" :> 2 @@ "class" :> 1}
Choice == INSTANCE PolicyChoice WITH
    Names <- 1..3, Specs <- ChoiceSpecs, Labellings <- Labelled, policies <- s1, labels <- s2

\* Specs of each fate: at the floors, past all of them, past two, refused by
\* the node, refused by Encode.  Two policies beside each other while only the
\* relay and the node write annotations, and one alone with everything that can
\* go wrong.
AtFloor == MCSpecOf(NoLabels, 0, Tier1({10}, {10}, {6}, {300}), "auto")
PastAll == MCSpecOf(NoLabels, 0, Tier1({9}, {-1}, {7}, {0}), "on")
PastSome == MCSpecOf(NoLabels, 1, Tier1({}, {9}, {100}, {301}), "auto")
Inverted == MCSpecOf(NoLabels, 1, Tier1({9}, {}, {}, {}), "off")
Invalid == MCSpecOf(NoLabels, 1, Tier1({}, {}, {0}, {}), "auto")
RelaySpecs == {AtFloor, PastAll, PastSome, Inverted, Invalid}
NodeRefuses == {Inverted}
Two == INSTANCE BudgetRelay WITH
    Names <- {1, 2}, Specs <- RelaySpecs, MergeRefused <- NodeRefuses,
    MaxVersion <- 2, MaxForeign <- 0, MaxRestarts <- 1,
    policies <- s1, version <- s2, relay <- s3, desired <- s4, node <- s5, report <- s6, status <- s7,
    foreign <- s8, restarts <- s9
One == INSTANCE BudgetRelay WITH
    Names <- {1}, Specs <- RelaySpecs, MergeRefused <- NodeRefuses,
    MaxVersion <- 2, MaxForeign <- 1, MaxRestarts <- 1,
    policies <- s1, version <- s2, relay <- s3, desired <- s4, node <- s5, report <- s6, status <- s7,
    foreign <- s8, restarts <- s9

\* One reason the relay names and three it does not, counts of up to two.
Report == INSTANCE BudgetReport WITH
    Windows <- {"1h", "24h"}, Named <- {"eviction"}, Added <- {"new-one", "new-two", "new-three"},
    MaxInt <- 2, Flaws <- {"large", "syntax", "schema", "fields"}, counted <- s1, read <- s2

\* A key in two spellings and a text that is spelled like a key.
Decoder == INSTANCE StrictDecode WITH
    Keys <- {"level", "Level", "name", "policy", "signals"}, Texts <- {"level"}, MaxPairs <- 2, MaxItems <- 2,
    payload <- s1, tokens <- s2, stack <- s3, verdict <- s4

-----------------------------------------------------------------------------
(* One signal's ladder while an admin sets and clears rungs and releases,    *)
(* each edit admitted only if checkLadder accepts the result.  Six values,   *)
(* so that all five rungs can be set beside a negative one; one release.     *)
Values == -1..4
sig == s1
rungs == s2
releases == s3

Unset == [i \in Rungs |-> {}]

LadderInit ==
    /\ s1 \in {"memory.available", "memory.compressor", "memory.swap"}
    /\ s2 = Unset /\ s3 = Unset

PutRung(i, opt) ==
    /\ s2' = [s2 EXCEPT ![i] = opt]
    /\ checkLadder(s1, s2', s3)
    /\ UNCHANGED <<s1, s3>>

PutRelease(i, opt) ==
    /\ s3' = [s3 EXCEPT ![i] = opt]
    /\ Cardinality({j \in Rungs : s3'[j] # {}}) <= 1
    /\ checkLadder(s1, s2, s3')
    /\ UNCHANGED <<s1, s2>>

LadderNext == \E i \in Rungs, opt \in Optional(Values) : PutRung(i, opt) \/ PutRelease(i, opt)
-----------------------------------------------------------------------------
From5 == s5 = Unused /\ s6 = Unused /\ s7 = Unused /\ s8 = Unused /\ s9 = Unused

MCInit ==
    \/ part = "choice" /\ Choice!Init /\ s3 = Unused /\ s4 = Unused /\ From5
    \/ part = "ladder" /\ LadderInit /\ s4 = Unused /\ From5
    \/ part = "two" /\ Two!Init
    \/ part = "one" /\ One!Init
    \/ part = "report" /\ Report!Init /\ s3 = Unused /\ s4 = Unused /\ From5
    \/ part = "decoder" /\ Decoder!Init /\ From5

MCNext ==
    /\ UNCHANGED part
    /\ \/ part = "choice" /\ Choice!Next /\ UNCHANGED <<s3, s4, s5, s6, s7, s8, s9>>
       \/ part = "ladder" /\ LadderNext /\ UNCHANGED <<s4, s5, s6, s7, s8, s9>>
       \/ part = "two" /\ Two!Next
       \/ part = "one" /\ One!Next
       \/ part = "report" /\ Report!Next /\ UNCHANGED <<s3, s4, s5, s6, s7, s8, s9>>
       \/ part = "decoder" /\ Decoder!Next /\ UNCHANGED <<s5, s6, s7, s8, s9>>

MCVars == <<part, slots>>

MCSpec == MCInit /\ [][MCNext]_MCVars

-----------------------------------------------------------------------------
\* SelectPolicy returns the policies that select the node in their precedence,
\* the same ones in whatever order it is given them.
ChoiceFollowsPrecedence ==
    /\ [](part = "choice" => Choice!ChoiceFollowsPrecedence)
    /\ [][part = "choice" /\ Choice!SamePolicies => Choice!Choice' = Choice!Choice]_MCVars

\* A reading meets a rung at its value and past it, under more pressure, and
\* clears the rung at its release and on the calm side of that.
Meets(v, i) == \A r \in rungs[i] : ~ Calmer(sig, v, r)
Clears(v, i) == \A rel \in releases[i] : v = rel \/ Calmer(sig, v, rel)

\* A ladder checkLadder admits reads one way.  The rungs any one reading meets
\* are the set rungs up to some rung, whichever in between are unset, so "the
\* most severe rung" is a level; and no reading both meets a rung and clears
\* it, so a node cannot enter and leave a level on the same reading.
LadderReadsOneWay ==
    part = "ladder" => \A v \in Values :
        /\ \A i, j \in Rungs : i < j /\ rungs[j] # {} /\ Meets(v, j) => Meets(v, i)
        /\ \A i \in Rungs : ~ (rungs[i] # {} /\ releases[i] # {} /\ Meets(v, i) /\ Clears(v, i))

\* The status tells the truth, however late the report: a policy reported as
\* applied or clamped is the version in force, what is said of a version is
\* true of it, the fields ApplyFloors changed included, and one the node
\* refuses is never reported as in force.
StatusTellsTheTruth ==
    /\ part = "two" => Two!StatusNamesOneVersion /\ Two!StatusIsTrueOfItsVersion /\ Two!RejectedIsNotInForce
    /\ part = "one" => One!StatusNamesOneVersion /\ One!StatusIsTrueOfItsVersion /\ One!RejectedIsNotInForce

\* An older relay reads a newer producer's report: it publishes the counts it
\* cannot name as their sum, never a wrapped or a lost one, refuses a report
\* only above MaxWindowCounts, and reports another schema as that
\* (mergeUnknownWindows, decodeBudgetAnnotation).
ReportSurvivesTheSkew ==
    part = "report" => /\ Report!CountsSurviveTheSkew
                       /\ Report!RefusedOnlyAtTheBound
                       /\ Report!OtherSchemaIsNotMalformed

\* The strict decoder accepts what a conforming writer produces, and what it
\* accepts gives no field two values and spells every field as its tag; its
\* walk over the tokens ends with the value, never before or after it.
DecoderReadsOneThing ==
    part = "decoder" => /\ Decoder!AcceptedSaysOneThing
                        /\ Decoder!ConformingIsAccepted
                        /\ Decoder!WalkEndsWithTheValue
=============================================================================
