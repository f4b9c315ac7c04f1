---------------------------- MODULE QuarantineGate ----------------------------
(***************************************************************************)
(* The quarantine rules of hack/lib/testresults.go: evaluate, and the exit *)
(* status run derives from it and hack/ci.sh sets against go test's own.   *)
(*                                                                         *)
(* A configuration c holds what the invocation fixes: the ids the registry *)
(* lists, whether the registry is valid, whether an entry is past its      *)
(* deadline, the tier, and the packages the change edits.                  *)
(***************************************************************************)
EXTENDS TestCollector

CONSTANT Above      \* <<t, u>>: u is a subtest below t (the prefix t + "/")

ASSUME AboveAssumption ==
  /\ Above \subseteq Ids \X Ids
  /\ \A t \in Ids : <<t, t>> \notin Above
  /\ \A t, u, v \in Ids : <<t, u>> \in Above /\ <<u, v>> \in Above => <<t, v>> \in Above

Below(t) == {u \in Ids : <<t, u>> \in Above}

Configs == [listed : SUBSET Ids, registry : {"valid", "invalid", "unreadable"},
            expired : BOOLEAN, tier : {"fast", "full", "unknown"}, edited : SUBSET Pkgs]

-----------------------------------------------------------------------------
(* evaluate *)

\* No failed run means no recorded failure to match.
carriedByEveryRun(runs) == runs # {} /\ \A r \in runs : "sig" \in r

\* A listed failure that is reported and not red.
quarantined(c, t) ==
  /\ t \in Failing \cap c.listed
  /\ "race" \notin tests[t].output
  /\ c.tier # "full"
  /\ PkgOf[t] \notin c.edited
  /\ carriedByEveryRun(tests[t].failedRuns)

kids(t) == Failing \cap Below(t)

\* A failing subtest c of an unlisted parent does not stand in the parent's way.
inner(c, t, u) == u \notin c.listed /\ kids(t) \cap Below(u) # {}

covered(c, t) == kids(t) # {} /\ \A u \in kids(t) : quarantined(c, u) \/ inner(c, t, u)

\* The lines of a parent that are no failing subtest's line.
ownFailure(t) == tests[t].output \ UNION {tests[u].output : u \in kids(t)}

\* An unlisted failure reported as QUARANTINED.
coveredParent(c, t) ==
  /\ t \in Failing \ c.listed
  /\ "race" \notin tests[t].output
  /\ covered(c, t)
  /\ ownFailure(t) = {}

\* The RED line of a test.
RedTest(c, t) ==
  \/ t \in Unreported
  \/ t \in Failing /\ ~quarantined(c, t) /\ ~coveredParent(c, t)

evaluateRed(c) ==
  \/ c.registry = "invalid"
  \/ c.expired /\ c.listed # {}
  \/ \E t \in DOMAIN tests : RedTest(c, t)
  \/ PackageFailures # {}
  \/ buildFail # {}

-----------------------------------------------------------------------------
(* run *)

NoResults == DOMAIN tests = {} /\ PackageFailures = {} /\ buildFail = {}

red(c) == evaluateRed(c) \/ badLines \/ NoResults
failed == Failing # {} \/ PackageFailures # {} \/ buildFail # {}
excused(c) == {t \in DOMAIN tests : quarantined(c, t)}

exitGreen == 0
exitRed == 1
exitUsage == 2
exitExcused == 3

run(c) ==
  CASE c.tier = "unknown" -> exitUsage
    [] c.tier # "unknown" /\ (c.registry = "unreadable" \/ red(c)) -> exitRed
    [] OTHER -> IF excused(c) # {} THEN exitExcused
                ELSE IF failed THEN exitRed ELSE exitGreen

\* hack/ci.sh: the statuses of go test and of testresults, set against each other.
CiGreen(goExit, c) == <<goExit, run(c)>> \in {<<"0", exitGreen>>, <<"1", exitExcused>>}
=============================================================================
