------------------------------ MODULE TestStage ------------------------------
(***************************************************************************)
(* The test stage of hack/ci.sh: `go test -json` piped into testresults.   *)
(*                                                                         *)
(* go test is external.  What is assumed of it is what the collector and   *)
(* its tests rely on: a test reports one result per run; a subtest runs    *)
(* inside its parent's run and a failing one fails the parent; a process   *)
(* that exits inside a test leaves it without a result and fails the       *)
(* package; a failed build fails its package; with -count=n every test has *)
(* n runs; go test exits 0 or 1, or is killed, which cuts the stream off.  *)
(* With Reruns the stream may go on with the output of another process     *)
(* after one that died, as the comment on the sticky fail allows.          *)
(***************************************************************************)
EXTENDS QuarantineGate, Naturals

CONSTANTS Rounds,   \* the runs a test may have (-count)
          Reruns    \* whether a process that died is followed by another

ASSUME RoundsAssumption == Rounds \in Nat \ {0} /\ Reruns \in BOOLEAN

VARIABLES at,       \* where each test is in this round: "idle", "running" or "over"
          ended,    \* the packages that ended this round
          died,     \* the packages whose process exited inside a test this round
          round,
          goExit,   \* go test's exit status; "on" while it runs
          runs,     \* history: every reported run, its result and its lines
          lost      \* history: the ids with a run that never reported

goVars == <<at, ended, died, round, goExit, runs, lost>>
vars == <<collectorVars, goVars>>

Run == [res : {"pass", "fail"}, lines : SUBSET Lines, round : 1..Rounds]

StageInit ==
  /\ newCollector
  /\ at = [t \in Ids |-> "idle"]
  /\ ended = {} /\ died = {}
  /\ round = 1
  /\ goExit = "on"
  /\ runs = [t \in Ids |-> {}]
  /\ lost = {}

Live(p) == goExit = "on" /\ p \notin ended \cup died \cup buildFail
Parents(t) == {u \in Ids : t \in Below(u)}

\* The runs of t that failed, and whether one of them is of this round.
FailedRuns(t) == {r \in runs[t] : r.res = "fail"}
FailedNow(t) == \E r \in FailedRuns(t) : r.round = round

-----------------------------------------------------------------------------
(* go test *)

StartTest(t) ==
  /\ Live(PkgOf[t]) /\ at[t] = "idle"
  /\ \A u \in Parents(t) : at[u] = "running"
  /\ at' = [at EXCEPT ![t] = "running"]
  /\ LineRun(t)
  /\ UNCHANGED <<ended, died, round, goExit, runs, lost>>

WriteLine(t, l) ==
  /\ Live(PkgOf[t]) /\ at[t] = "running"
  /\ LineOutput(t, l)
  /\ UNCHANGED goVars

\* t ends in this round with the lines it wrote.
Report(t, res) ==
  /\ Live(PkgOf[t]) /\ at[t] = "running"
  /\ \A u \in Below(t) : at[u] # "running"
  /\ at' = [at EXCEPT ![t] = "over"]
  /\ runs' = [runs EXCEPT ![t] = @ \cup {[res |-> res, lines |-> tests[t].run, round |-> round]}]
  /\ UNCHANGED <<ended, died, round, goExit, lost>>

PassTest(t) ==
  /\ \A u \in Below(t) : ~FailedNow(u)
  /\ Report(t, "pass")
  /\ LinePass(t)

FailTest(t) ==
  /\ Report(t, "fail")
  /\ LineFail(t)

ReportRace(p) ==
  /\ Live(p) /\ p \notin pkgRace
  /\ LinePkgRace(p)
  /\ UNCHANGED goVars

BuildFails(p) ==
  /\ Live(p) /\ round = 1
  /\ \A t \in Ids : PkgOf[t] = p => at[t] = "idle"
  /\ LineBuildFail(p)
  /\ UNCHANGED goVars

\* The test process of p exits inside its running tests.
ProcessExits(p) ==
  /\ Live(p)
  /\ died' = died \cup {p}
  /\ LET open == {t \in Ids : PkgOf[t] = p /\ at[t] = "running"}
     IN /\ open # {}
        /\ lost' = lost \cup open
        /\ at' = [t \in Ids |-> IF t \in open THEN "over" ELSE at[t]]
  /\ LinePkgFail(p)
  /\ UNCHANGED <<ended, round, goExit, runs>>

PackageFailed(p) ==
  p \in died \cup pkgRace \cup buildFail \/ \E t \in Ids : PkgOf[t] = p /\ FailedNow(t)

PackageEnds(p) ==
  /\ goExit = "on" /\ p \notin ended
  /\ \A t \in Ids : PkgOf[t] = p => at[t] # "running"
  /\ p \notin died \cup buildFail => \A t \in Ids : PkgOf[t] = p /\ Parents(t) = {} => at[t] = "over"
  /\ ended' = ended \cup {p}
  /\ IF PackageFailed(p) THEN LinePkgFail(p) ELSE UNCHANGED collectorVars
  /\ UNCHANGED <<at, died, round, goExit, runs, lost>>

\* The next of -count runs, or another process in place of one that died.
NextRound ==
  /\ goExit = "on" /\ ended = Pkgs /\ round < Rounds
  /\ died # {} => Reruns
  /\ round' = round + 1
  /\ at' = [t \in Ids |-> "idle"]
  /\ ended' = {} /\ died' = {}
  /\ UNCHANGED <<collectorVars, goExit, runs, lost>>

GoTestExits ==
  /\ goExit = "on" /\ ended = Pkgs
  /\ goExit' = IF pkgFail = {} THEN "0" ELSE "1"
  /\ UNCHANGED <<collectorVars, at, ended, died, round, runs, lost>>

\* go test is killed; the stream ends between two lines or within one.
GoTestKilled ==
  /\ goExit = "on"
  /\ goExit' = "killed"
  /\ LineBad \/ UNCHANGED collectorVars
  /\ lost' = lost \cup {t \in Ids : at[t] = "running"}
  /\ UNCHANGED <<at, ended, died, round, runs>>

Next ==
  \/ \E t \in Ids : StartTest(t) \/ PassTest(t) \/ FailTest(t)
  \/ \E t \in Ids, l \in Lines : WriteLine(t, l)
  \/ \E p \in Pkgs : ReportRace(p) \/ BuildFails(p) \/ ProcessExits(p) \/ PackageEnds(p)
  \/ NextRound \/ GoTestExits \/ GoTestKilled

Spec == StageInit /\ [][Next]_vars

-----------------------------------------------------------------------------
(* The rules as the head of testresults.go states them, read off the runs  *)
(* that happened and not off what the collector kept of them.              *)

Over == goExit # "on"

Failed(t) == FailedRuns(t) # {}
Wrote(t) == UNION {r.lines : r \in runs[t]}

\* Whether each id's failures are excused, subtests before their parents.
RuleExcused(c) ==
  LET ex[t \in Ids] ==
        LET below == {u \in Below(t) : Failed(u)}
        IN /\ c.tier = "fast" /\ "race" \notin Wrote(t)
           /\ IF t \in c.listed
              THEN PkgOf[t] \notin c.edited /\ \A r \in FailedRuns(t) : "sig" \in r.lines
              ELSE /\ below # {}
                   /\ \A u \in below : ex[u]
                   /\ Wrote(t) \subseteq UNION {Wrote(u) : u \in below}
  IN {t \in Ids : ex[t]}

AnyFailure == \E t \in Ids : Failed(t)

\* A package that failed although no test of it did: a process exit, a build, a race.
OutsideTests == pkgRace # {} \/ buildFail # {} \/ lost # {}

RegistryRight(c) == c.registry = "valid" /\ ~(c.expired /\ c.listed # {})

RuleGreen(c) ==
  /\ c.tier # "unknown" /\ RegistryRight(c) /\ ~OutsideTests
  /\ \A t \in Ids : Failed(t) => t \in RuleExcused(c)

\* When go test ran to its end, the stage is green exactly when the documented
\* rule, applied to the runs that took place, finds every failure excused: the
\* merging of runs, the sticky fail, the coverage of parents by their subtests
\* and the pairing of the two exit statuses lose and add nothing.
StageFollowsTheRule ==
  goExit \in {"0", "1"} => \A c \in Configs : CiGreen(goExit, c) <=> RuleGreen(c) /\ DOMAIN tests # {}

\* "neither can turn the other green" (hack/ci.sh): a go test that was killed
\* is red whatever part of its stream arrived, and a green stage with failures
\* is one go test failed and the registry excused.
NeitherTurnsTheOtherGreen ==
  Over => \A c \in Configs : CiGreen(goExit, c) =>
    /\ goExit # "killed"
    /\ (goExit = "0") <=> ~AnyFailure

\* "a run that started and never reported a result reds the id whatever its
\* other runs did" (the head of testresults.go): the exit status is not green
\* when some run was lost.
UnreportedRunReds ==
  Over /\ lost # {} => \A c \in Configs : run(c) \notin {exitGreen, exitExcused}

\* The branch of run for failures none of which was excused directly "cannot
\* happen without an excused subtest": a verdict that is not red and holds a
\* failure always holds a failure excused by its own entry.
CoveredNeedsAnEntry ==
  Over => \A c \in Configs : ~red(c) /\ failed => excused(c) # {}
=============================================================================
