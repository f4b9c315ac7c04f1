--------------------------- MODULE BudgetPolicy ---------------------------
(***************************************************************************)
(* The rules of budget/v1alpha1/nodebudgetpolicy.go and floors.go: when a  *)
(* ladder of thresholds is in order, when a policy is valid, what the      *)
(* compiled floors make of it, and which policy of a list a node gets.     *)
(*                                                                         *)
(* A pointer field of the Go types is a set: {} for nil, {v} for a set     *)
(* value.  Names are natural numbers in their lexical order.               *)
(***************************************************************************)
EXTENDS Integers, Sequences, FiniteSets

CONSTANTS
    MinTier1GraceSeconds,       \* floors.go
    MinTier1HeldSeconds,
    MaxTier1DeliveriesPerHour,
    MinTier1DeliveriesPerHour,
    MinTier1CooloffSeconds,
    MaxPolicyThresholds,        \* the most entries of Thresholds
    MaxPolicyNodeSelectorLabels \* the most labels of NodeSelector

\* The floors leave a delivery cap to choose and ask for no negative time.
ASSUME FloorsAssumption ==
    /\ MinTier1GraceSeconds \in Nat
    /\ MinTier1HeldSeconds \in Nat
    /\ MinTier1CooloffSeconds \in Nat
    /\ MaxTier1DeliveriesPerHour \in Nat
    /\ MinTier1DeliveriesPerHour \in 1..MaxTier1DeliveriesPerHour
    /\ MaxPolicyThresholds \in Nat
    /\ MaxPolicyNodeSelectorLabels \in Nat

Optional(S) == {{}} \cup {{v} : v \in S}

---------------------------------------------------------------------------
(* Ladders. *)

Signals == {"memory.available", "memory.compressor", "memory.swap",
            "swapfs.available", "nodefs.available", "imagefs.available",
            "pid.available"}

IsDescending(sig) == sig \in Signals \ {"memory.compressor", "memory.swap"}

Rungs == 1..5     \* warn, admit-stop, critical, evict-soft, evict-hard
EvictSoft == 4

\* a is on the calm side of b, for a signal of this direction.
Calmer(sig, a, b) == IF IsDescending(sig) THEN a > b ELSE a < b

NonNegative(opt) == \A v \in opt : v >= 0

\* Only neighbouring rungs are compared, so an unset rung hides an inversion.
checkLadder_Neighbours(sig, rungs, releases) ==
    /\ \A i \in Rungs : NonNegative(rungs[i]) /\ NonNegative(releases[i])
    /\ \A i \in 1..4 :
          \A a \in rungs[i], b \in rungs[i + 1] : Calmer(sig, a, b)
    /\ \A i \in Rungs :
          \A r \in rungs[i], rel \in releases[i] : Calmer(sig, rel, r)
    /\ sig = "memory.swap" => rungs[EvictSoft] = {}

checkLadder(sig, rungs, releases) ==
    /\ \A i \in Rungs : NonNegative(rungs[i]) /\ NonNegative(releases[i])
    /\ \A i, j \in Rungs : i < j =>
          \A a \in rungs[i], b \in rungs[j] : Calmer(sig, a, b)
    /\ \A i \in Rungs :
          \A r \in rungs[i], rel \in releases[i] : Calmer(sig, rel, r)
    /\ sig = "memory.swap" => rungs[EvictSoft] = {}

---------------------------------------------------------------------------
(* A policy's spec: selector, priority, mode; thresholds, a sequence of    *)
(* entries [signal, rungs, releases, spans]; reserves, halfLives and       *)
(* permilles, the optional values with the same bound; tier1, the timers.  *)

Tier1Fields == {"tier1GraceSeconds", "tier1HeldSeconds",
                "tier1MaxDeliveriesPerHour", "tier1CooloffSeconds"}

ThresholdsValid(ts) ==
    /\ Len(ts) <= MaxPolicyThresholds
    /\ \A i \in DOMAIN ts :
          /\ ts[i].signal \in Signals
          /\ \A j \in 1..(i - 1) : ts[j].signal # ts[i].signal
          /\ checkLadder(ts[i].signal, ts[i].rungs, ts[i].releases)
          /\ \A opt \in ts[i].spans : NonNegative(opt)

SpecValid(s) ==
    /\ Cardinality(DOMAIN s.selector) <= MaxPolicyNodeSelectorLabels
    /\ ThresholdsValid(s.thresholds)
    /\ \A opt \in s.reserves : NonNegative(opt)
    /\ \A opt \in s.halfLives : \A v \in opt : v >= 1
    /\ \A opt \in s.permilles : \A v \in opt : v \in 0..1000
    /\ s.mode \in {"", "auto", "on", "off"}
    /\ \A v \in s.tier1["tier1MaxDeliveriesPerHour"] :
          v >= MinTier1DeliveriesPerHour

---------------------------------------------------------------------------
(* Floors. *)

Raise(opt, floor) == {IF v < floor THEN floor ELSE v : v \in opt}
Lower(opt, cap) == {IF v > cap THEN cap ELSE v : v \in opt}

ClampedTier1(t) ==
    [f \in Tier1Fields |->
        CASE f = "tier1GraceSeconds" -> Raise(t[f], MinTier1GraceSeconds)
          [] f = "tier1HeldSeconds" -> Raise(t[f], MinTier1HeldSeconds)
          [] f = "tier1MaxDeliveriesPerHour" ->
                Lower(t[f], MaxTier1DeliveriesPerHour)
          [] f = "tier1CooloffSeconds" -> Raise(t[f], MinTier1CooloffSeconds)]

ApplyFloors(s) == [s EXCEPT !.tier1 = ClampedTier1(s.tier1)]

\* The list ApplyFloors returns beside the spec, without its order.
ClampedFields(s) ==
    {f \in Tier1Fields : ApplyFloors(s).tier1[f] # s.tier1[f]}

\* The fields of a spec whose value is past its floor, field by field.
PastFloors(s) ==
    {f \in Tier1Fields : \E v \in s.tier1[f] :
        CASE f = "tier1GraceSeconds" -> v < MinTier1GraceSeconds
          [] f = "tier1HeldSeconds" -> v < MinTier1HeldSeconds
          [] f = "tier1MaxDeliveriesPerHour" -> v > MaxTier1DeliveriesPerHour
          [] f = "tier1CooloffSeconds" -> v < MinTier1CooloffSeconds}

---------------------------------------------------------------------------
(* The choice among policies [name, rv, spec].  A selector and a node's    *)
(* labels are functions from some label keys to values.                    *)

\* A label the node does not have counts as a match.
Selects_MissingMatches(selector, labels) ==
    \A k \in DOMAIN selector : k \in DOMAIN labels => labels[k] = selector[k]

Selects(selector, labels) ==
    \A k \in DOMAIN selector : k \in DOMAIN labels /\ labels[k] = selector[k]

\* The comparison SelectPolicy sorts by.
Precedes(p, q) ==
    IF p.spec.priority # q.spec.priority
    THEN p.spec.priority > q.spec.priority
    ELSE p.name < q.name

Sorted(s) == \A i, j \in DOMAIN s : i < j => ~ Precedes(s[j], s[i])

\* sort.SliceStable: the sorted arrangement that keeps the order of equals.
SliceStable(s) ==
    LET places == CHOOSE p \in [DOMAIN s -> DOMAIN s] :
            /\ \A i, j \in DOMAIN s : i # j => p[i] # p[j]
            /\ Sorted([i \in DOMAIN s |-> s[p[i]]])
            /\ \A i, j \in DOMAIN s :
                  /\ i < j
                  /\ ~ Precedes(s[p[i]], s[p[j]])
                  => p[i] < p[j]
    IN  [i \in DOMAIN s |-> s[places[i]]]

\* <<>> when no policy selects the node; otherwise the winner, then the
\* losers in the order they are reported.
SelectPolicy(policies, labels) ==
    SliceStable(SelectSeq(policies, LAMBDA p : Selects(p.spec.selector, labels)))
===========================================================================
