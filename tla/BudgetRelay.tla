--------------------------- MODULE BudgetRelay ---------------------------
(***************************************************************************)
(* A policy's way to a node and the node's answer back, over two           *)
(* annotations of the Node object.  The relay chooses a policy             *)
(* (SelectPolicy) and writes it as the desired annotation; the node parses *)
(* it, applies the floors (ApplyFloors) and reports what it did; the relay *)
(* parses the report into the NodeBudget's status.                         *)
(*                                                                         *)
(* The loops of the relay and of the node are not in this repository: they *)
(* are the conforming ones doc.go describes, built from its functions.     *)
(* An annotation is a record whose kind says what the strict decoder makes *)
(* of it; only kind "ok" has a body that is looked at.                     *)
(***************************************************************************)
EXTENDS BudgetPolicy, SequencesExt

CONSTANTS
    Names,          \* names of policies, natural numbers in lexical order
    Specs,          \* specs an admin may write
    MergeRefused,   \* specs valid alone that invert the node's merged ladder
    MaxVersion,     \* bound: writes of policies
    MaxForeign,     \* bound: annotations written by something else
    MaxRestarts     \* bound: restarts of the node's producer

VARIABLES
    policies,   \* the API server's policies, a set of [name, rv, spec]
    version,    \* the resourceVersion last given out
    relay,      \* what the relay read and has not written yet
    desired,    \* the policy annotation
    node,       \* [policy, inForce], each {} or a singleton
    report,     \* the status annotation
    status,     \* the NodeBudget's status
    foreign,    \* annotations written by something else so far
    restarts    \* restarts so far

vars == <<policies, version, relay, desired, node, report, status, foreign,
          restarts>>

NoLabels == [k \in {} |-> 0]

Outcomes == {"applied", "rejected", "clamped"}
Undecodable == {"large", "schema", "malformed"}

\* A reference leaves the resourceVersion out.
Ref_NameOnly(p) == [name |-> p.name, rv |-> 0]

Absent == [kind |-> "absent"]
Ref(p) == [name |-> p.name, rv |-> p.rv]

---------------------------------------------------------------------------
(* The payloads. *)

\* NodeBudgetDesiredPolicy.Validate, of a name and version that are well
\* formed.
DesiredValid(d) == SpecValid(d.spec)

\* NodeBudgetDesiredPolicy.Encode: {} when it refuses.
EncodeDesired(p) ==
    IF DesiredValid(p)
    THEN {[kind |-> "ok", name |-> p.name, rv |-> p.rv, spec |-> p.spec]}
    ELSE {}

\* ParseNodeBudgetDesiredPolicy: {} when it returns an error.
ParseDesired(a) == IF a.kind = "ok" /\ DesiredValid(a) THEN {a} ELSE {}

\* NodeBudgetObservation.validate, of policy and inForce.
ObservationValid(o) ==
    \A p \in o.policy :
        /\ p.outcome \in Outcomes
        /\ p.clamped \subseteq Tier1Fields
        /\ p.outcome # "rejected" =>
              \E r \in o.inForce : r.name = p.name /\ r.rv = p.rv

\* The condition reason of Reporting for an annotation, and of a parsed one.
ReportingReason(a) ==
    CASE a.kind = "absent" -> "NodeNotReporting"
      [] a.kind = "large" -> "AnnotationTooLarge"
      [] a.kind = "schema" -> "SchemaUnsupported"
      [] a.kind = "malformed" -> "AnnotationMalformed"
      [] a.kind = "ok" -> IF ObservationValid(a) THEN "NodeReporting"
                                                 ELSE "AnnotationMalformed"

---------------------------------------------------------------------------
NoPolicy == [policy |-> {}, inForce |-> {}]

Init ==
    /\ policies = {}
    /\ version = 0
    /\ relay = <<>>
    /\ desired = Absent
    /\ node = NoPolicy
    /\ report = Absent
    /\ status = [reason |-> "NodeNotReporting", policy |-> {}, inForce |-> {}]
    /\ foreign = 0
    /\ restarts = 0

\* Create or replace a policy; every write is a new resourceVersion.
WritePolicy(n, s) ==
    /\ version < MaxVersion
    /\ version' = version + 1
    /\ policies' = {p \in policies : p.name # n}
                     \cup {[name |-> n, rv |-> version', spec |-> s]}
    /\ UNCHANGED <<relay, desired, node, report, status, foreign,
                   restarts>>

DeletePolicy(p) ==
    /\ policies' = policies \ {p}
    /\ UNCHANGED <<version, relay, desired, node, report, status, foreign,
                   restarts>>

\* The relay reads the policies and chooses; it writes later.
Choose ==
    /\ relay' = <<SelectPolicy(SetToSeq(policies), NoLabels)>>
    /\ UNCHANGED <<policies, version, desired, node, report, status, foreign,
                   restarts>>

\* It removes the annotation when no policy selects the node, and leaves it
\* as it is when Encode refuses the policy.
Relay ==
    /\ relay # <<>>
    /\ desired' =
          IF relay[1] = <<>> THEN Absent
          ELSE IF EncodeDesired(relay[1][1]) = {} THEN desired
          ELSE CHOOSE a \in EncodeDesired(relay[1][1]) : TRUE
    /\ relay' = <<>>
    /\ UNCHANGED <<policies, version, node, report, status, foreign,
                   restarts>>

\* The node takes up a desired policy it can parse, as ApplyFloors leaves it.
Accept(d) ==
    LET clamped == ClampedFields(d.spec) IN
    node' = [policy |-> {[name |-> d.name, rv |-> d.rv, clamped |-> clamped,
                          outcome |-> IF clamped = {} THEN "applied"
                                                      ELSE "clamped"]},
             inForce |-> {Ref(d)}]

\* It keeps its last valid policy and says which one it refuses.
Refuse(d) ==
    node' = [node EXCEPT
        !.policy = {[name |-> d.name, rv |-> d.rv, clamped |-> {},
                     outcome |-> "rejected"]}]

\* A payload that does not decode names no policy, so nothing changes.
Apply ==
    /\ \/ desired.kind = "absent" /\ node' = NoPolicy
       \/ desired.kind \in Undecodable /\ UNCHANGED node
       \/ /\ desired.kind = "ok"
          /\ IF ParseDesired(desired) # {} /\ desired.spec \notin MergeRefused
             THEN Accept(desired)
             ELSE Refuse(desired)
    /\ UNCHANGED <<policies, version, relay, desired, report, status, foreign,
                   restarts>>

\* A restarted producer runs its defaults until it reads the annotation.
Restart ==
    /\ restarts < MaxRestarts
    /\ restarts' = restarts + 1
    /\ node' = NoPolicy
    /\ UNCHANGED <<policies, version, relay, desired, report, status, foreign>>

\* NodeBudgetReport.Encode refuses what Parse would refuse.
Report ==
    /\ ObservationValid(node)
    /\ report' = [kind |-> "ok", policy |-> node.policy,
                  inForce |-> node.inForce]
    /\ UNCHANGED <<policies, version, relay, desired, node, status, foreign,
                   restarts>>

\* ParseNodeBudgetReport; a report that does not parse changes the reason and
\* leaves the last observation.
WriteStatus ==
    /\ status' = IF ReportingReason(report) = "NodeReporting"
                 THEN [reason |-> "NodeReporting", policy |-> report.policy,
                       inForce |-> report.inForce]
                 ELSE [status EXCEPT !.reason = ReportingReason(report)]
    /\ UNCHANGED <<policies, version, relay, desired, node, report, foreign,
                   restarts>>

\* Something else that may write the Node rewrites an annotation.
ForeignDesired(a) ==
    /\ foreign < MaxForeign
    /\ foreign' = foreign + 1
    /\ desired' = a
    /\ UNCHANGED <<policies, version, relay, node, report, status, restarts>>

ForeignReport(a) ==
    /\ foreign < MaxForeign
    /\ foreign' = foreign + 1
    /\ report' = a
    /\ UNCHANGED <<policies, version, relay, desired, node, status, restarts>>

UndecodableAnnotations == {[kind |-> k] : k \in Undecodable}

\* A payload under a name and a version the API server gave out, with any
\* spec, and a report of a node that takes one version for another.
ForeignPayloads ==
    {[kind |-> "ok", name |-> n, rv |-> v, spec |-> s] :
        n \in Names, v \in 1..version, s \in Specs}

ForeignReports ==
    {[kind |-> "ok", inForce |-> {[name |-> n, rv |-> v]},
      policy |-> {[name |-> n, rv |-> w, clamped |-> {},
                   outcome |-> "applied"]}] :
        n \in Names, v \in 1..version, w \in 1..version}

Next ==
    \/ \E n \in Names, s \in Specs : WritePolicy(n, s)
    \/ \E p \in policies : DeletePolicy(p)
    \/ Choose
    \/ Relay
    \/ Apply
    \/ Restart
    \/ Report
    \/ WriteStatus
    \/ \E a \in UndecodableAnnotations \cup ForeignPayloads : ForeignDesired(a)
    \/ \E a \in UndecodableAnnotations \cup ForeignReports : ForeignReport(a)

Spec == Init /\ [][Next]_vars
---------------------------------------------------------------------------
\* A status never names a policy as applied or clamped beside another version
\* in force, whoever wrote the report.
StatusNamesOneVersion ==
    \A p \in status.policy : p.outcome # "rejected" => status.inForce = {Ref(p)}

\* While only the relay and the node write the annotations: what the status
\* says of a version an admin can still look up is true of that version, however
\* late the report: it is called clamped exactly when it holds a value past a
\* floor, which ApplyFloors changes on the node, and the fields named are the
\* ones past theirs.
StatusIsTrueOfItsVersion ==
    foreign = 0 =>
        \A p \in status.policy, q \in policies : Ref(p) = Ref(q) =>
            /\ p.outcome = "rejected" <=> q.spec \in MergeRefused
            /\ p.outcome # "rejected" =>
                  /\ p.clamped = PastFloors(q.spec)
                  /\ p.outcome = "clamped" <=> PastFloors(q.spec) # {}

\* While only the relay and the node write the annotations, a version the
\* node refuses is never the one reported as in force.
RejectedIsNotInForce ==
    foreign = 0 =>
        \A p \in status.policy : p.outcome = "rejected" =>
            Ref(p) \notin status.inForce
===========================================================================
