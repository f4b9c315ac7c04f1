---------------------------- MODULE TestCollector ----------------------------
(***************************************************************************)
(* The collector of hack/lib/testresults.go: it reads a `go test -json`    *)
(* stream line by line and keeps one result per test id, and from these it *)
(* makes the list of results the quarantine rules judge.                   *)
(*                                                                         *)
(* The output of a test is the set of the lines it holds, because the code *)
(* only asks whether a text contains a line.  Told apart are the recorded  *)
(* signature "sig", a race or sanitizer report "race", and other lines a   *)
(* test writes.  The harness's framing lines satisfy no signature and      *)
(* are skipped by ownFailure, so they are left out.  "pass" stands for     *)
(* pass and skip, which the code treats alike.                             *)
(***************************************************************************)
EXTENDS FiniteSets

CONSTANTS Ids,      \* the test ids of the stream, "package::Test/subtest"
          Pkgs,     \* the packages of the stream
          PkgOf,    \* the package an id starts with
          Lines     \* the lines a test may write: "sig", "race" and others

ASSUME IdsAssumption == PkgOf \in [Ids -> Pkgs] /\ {"sig", "race"} \subseteq Lines

VARIABLES tests,        \* collector.tests
          badLines,     \* whether collector.errs holds a line
          pkgFail,      \* collector.pkgFail
          pkgHasFail,   \* collector.pkgHasFail
          pkgRace,      \* the packages whose pkgText carries a race report
          buildFail     \* collector.buildFail

collectorVars == <<tests, badLines, pkgFail, pkgHasFail, pkgRace, buildFail>>

Statuses == {"none", "pass", "fail"}

\* A test id the stream has not named has the zero result, with no run open.
noResult == [status |-> "none", output |-> {}, failedRuns |-> {}, run |-> {}, open |-> FALSE]

newCollector ==
  /\ tests = [t \in {} |-> noResult]
  /\ badLines = FALSE
  /\ pkgFail = {}
  /\ pkgHasFail = {}
  /\ pkgRace = {}
  /\ buildFail = {}

-----------------------------------------------------------------------------
(* collector.line, one operator per kind of event. *)

\* The result the line's id has so far, and the map with that id's result set.
Get(t) == IF t \in DOMAIN tests THEN tests[t] ELSE noResult
Put(t, r) == tests' = [u \in DOMAIN tests \cup {t} |-> IF u = t THEN r ELSE tests[u]]

\* {"Action":"run"}
LineRun(t) ==
  /\ Put(t, [Get(t) EXCEPT !.open = TRUE])
  /\ UNCHANGED <<badLines, pkgFail, pkgHasFail, pkgRace, buildFail>>

\* {"Action":"output"} with a Test
LineOutput(t, l) ==
  /\ Put(t, [Get(t) EXCEPT !.output = @ \cup {l}, !.run = @ \cup {l}, !.open = TRUE])
  /\ UNCHANGED <<badLines, pkgFail, pkgHasFail, pkgRace, buildFail>>

LinePass_NotSticky(t) ==
  /\ Put(t, [Get(t) EXCEPT !.status = "pass", !.run = {}, !.open = FALSE])
  /\ UNCHANGED <<badLines, pkgFail, pkgHasFail, pkgRace, buildFail>>

\* {"Action":"pass"} or {"Action":"skip"}: a fail is sticky per test id.
LinePass(t) ==
  /\ Put(t, [Get(t) EXCEPT !.status = IF @ # "fail" THEN "pass" ELSE @,
                           !.run = {}, !.open = FALSE])
  /\ UNCHANGED <<badLines, pkgFail, pkgHasFail, pkgRace, buildFail>>

\* {"Action":"fail"} with a Test
LineFail(t) ==
  /\ LET r == Get(t)
     IN Put(t, [r EXCEPT !.status = "fail", !.failedRuns = @ \cup {r.run},
                         !.run = {}, !.open = FALSE])
  /\ pkgHasFail' = pkgHasFail \cup {PkgOf[t]}
  /\ UNCHANGED <<badLines, pkgFail, pkgRace, buildFail>>

\* {"Action":"output"} without a Test, carrying a race report
LinePkgRace(p) ==
  /\ pkgRace' = pkgRace \cup {p}
  /\ UNCHANGED <<tests, badLines, pkgFail, pkgHasFail, buildFail>>

\* {"Action":"fail"} without a Test
LinePkgFail(p) ==
  /\ pkgFail' = pkgFail \cup {p}
  /\ UNCHANGED <<tests, badLines, pkgHasFail, pkgRace, buildFail>>

\* {"Action":"build-fail"} with an ImportPath
LineBuildFail(p) ==
  /\ buildFail' = buildFail \cup {p}
  /\ UNCHANGED <<tests, badLines, pkgFail, pkgHasFail, pkgRace>>

\* A line that is not JSON, or an event without Package or Action
LineBad ==
  /\ badLines' = TRUE
  /\ UNCHANGED <<tests, pkgFail, pkgHasFail, pkgRace, buildFail>>

-----------------------------------------------------------------------------
(* collector.results *)

StatusOf_IgnoresOpen(t) == tests[t].status

\* The last run of an open id never reported, so the id has no result.
StatusOf(t) == IF tests[t].open THEN "none" ELSE tests[t].status

Failing == {t \in DOMAIN tests : StatusOf(t) = "fail"}
Unreported == {t \in DOMAIN tests : StatusOf(t) = "none"}

\* The failed pseudo-results "p::(package)" and "p::(build)".
PackageFailures == pkgRace \cup (pkgFail \ pkgHasFail)
=============================================================================
