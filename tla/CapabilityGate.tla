--------------------------- MODULE CapabilityGate ---------------------------
(***************************************************************************)
(* Tests gated on a capability (k3smtest: capability.go, skip.go).  A test *)
(* calls SkipUnless for each capability it needs; the environment says     *)
(* which are declared, and K3SM_CI_REQUIRE which ones the run promises.    *)
(*                                                                         *)
(* An environment value is its text before and after TrimSpace and ToLower *)
(* (Trimmed); K3SM_CI_REQUIRE is the sequence of its fields.               *)
(***************************************************************************)
EXTENDS Integers, Sequences, FiniteSets, TLC

CONSTANTS
    Probed,        \* capabilities the process checks for itself
    Declared,      \* capabilities an environment variable declares
    Unrecognized,  \* names outside the taxonomy
    Values,        \* the values an environment variable may have
    MaxRequire,    \* the longest K3SM_CI_REQUIRE
    MaxNeeds       \* the most capabilities one test needs

Caps == Probed \cup Declared

Trimmed == "1" :> "1" @@ " TRUE " :> "true" @@ "Yes" :> "yes" @@ "0" :> "0" @@ "" :> ""
truthy(v) == Trimmed[v] \in {"1", "true", "yes"}

VARIABLES
    host,     \* the probed capabilities that hold of the process
    env,      \* declared capability -> the value of its K3SM_CAP_ variable
    require,  \* the fields of K3SM_CI_REQUIRE
    needs,    \* the capabilities the test asks for, in order
    at,       \* the call it is at
    outcome   \* "running", "ran", "skipped", "failed"
vars == <<host, env, require, needs, at, outcome>>

Init ==
    /\ host \in SUBSET Probed
    /\ env \in [Declared -> Values]
    /\ require \in UNION {[1..n -> Caps \cup Unrecognized] : n \in 0..MaxRequire}
    /\ needs \in UNION {[1..n -> Caps \cup Unrecognized] : n \in 1..MaxNeeds}
    /\ at = 1 /\ outcome = "running"

Available(cap) ==
    \/ cap \in Probed /\ cap \in host
    \/ cap \in Declared /\ truthy(env[cap])

required(cap) == \E i \in DOMAIN require : require[i] = cap

\* What one call makes of the test.
SkipUnless(cap) ==
    CASE cap \notin Caps -> "failed"
      [] Available(cap) -> "running"
      [] cap \in Caps /\ ~Available(cap) /\ required(cap) -> "failed"
      [] OTHER -> "skipped"

Call ==
    /\ outcome = "running" /\ at <= Len(needs)
    /\ outcome' = SkipUnless(needs[at])
    /\ at' = at + 1
    /\ UNCHANGED <<host, env, require, needs>>

\* Every gate returned: the test's body runs.
Run ==
    /\ outcome = "running" /\ at > Len(needs)
    /\ outcome' = "ran"
    /\ UNCHANGED <<host, env, require, needs, at>>

Next == Call \/ Run
Spec == Init /\ [][Next]_vars

-----------------------------------------------------------------------------
Lacking == {i \in DOMAIN needs : ~Available(needs[i])}
First == CHOOSE i \in Lacking : \A j \in Lacking : i <= j

(* A test's fate is that of the first capability it asks for and does not    *)
(* find, whatever the order of its gates and of K3SM_CI_REQUIRE: the test    *)
(* runs only with every capability present, is skipped only when that first  *)
(* one is known and was not promised, and a promised or a misspelt one fails *)
(* it.  So "the run cannot silently pass by skipping the very thing it was   *)
(* launched to prove" (SkipUnless) holds of a promised capability no absent, *)
(* unpromised one is asked for before.                                       *)
FirstLackingDecides ==
    /\ outcome = "ran" => Lacking = {}
    /\ outcome = "skipped" =>
          Lacking # {} /\ needs[First] \in Caps /\ ~required(needs[First])
    /\ outcome = "failed" =>
          Lacking # {} /\ (needs[First] \notin Caps \/ required(needs[First]))
=============================================================================
