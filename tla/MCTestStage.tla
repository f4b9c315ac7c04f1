----------------------------- MODULE MCTestStage -----------------------------
(***************************************************************************)
(* Small streams: a test and its subtest, each run twice; three nested     *)
(* levels; two subtests beside a package of their own; and, apart from     *)
(* these, a stream that goes on after a process that died.  stream is the  *)
(* one under way.  The tests of the module TestStage itself are the pair.  *)
(***************************************************************************)
EXTENDS TestStage

VARIABLE stream

PairIds == {"p::T", "p::T/a"}
PairAbove == {<<"p::T", "p::T/a">>}
PairPkgOf == [t \in PairIds |-> "p"]

ChainIds == {"p::T", "p::T/a", "p::T/a/x"}
Chain == INSTANCE TestStage WITH
  Ids <- ChainIds, PkgOf <- [t \in ChainIds |-> "p"], Lines <- {"sig", "race", "own"}, Rounds <- 1,
  Above <- {<<"p::T", "p::T/a">>, <<"p::T", "p::T/a/x">>, <<"p::T/a", "p::T/a/x">>}

TwoIds == {"p::T", "p::T/a", "p::T/b"}
Two == INSTANCE TestStage WITH
  Ids <- TwoIds, Pkgs <- {"p", "q"}, PkgOf <- [t \in TwoIds |-> "p"], Rounds <- 1,
  Above <- {<<"p::T", "p::T/a">>, <<"p::T", "p::T/b">>}

Rerun == INSTANCE TestStage WITH Lines <- {"sig", "race", "own"}, Reruns <- TRUE

MCInit ==
  \/ stream = "pair" /\ StageInit
  \/ stream = "chain" /\ Chain!StageInit
  \/ stream = "two" /\ Two!StageInit

MCNext ==
  \/ stream = "pair" /\ Next /\ UNCHANGED stream
  \/ stream = "chain" /\ Chain!Next /\ UNCHANGED stream
  \/ stream = "two" /\ Two!Next /\ UNCHANGED stream

MCSpec == MCInit /\ [][MCNext]_<<vars, stream>>

RerunInit == stream = "rerun" /\ Rerun!StageInit
RerunNext == Rerun!Next /\ UNCHANGED stream
RerunSpec == RerunInit /\ [][RerunNext]_<<vars, stream>>

-----------------------------------------------------------------------------
\* The documented rule decides every kind of stream.
VerdictFollowsTheRule ==
  /\ stream = "pair" => StageFollowsTheRule
  /\ stream = "chain" => Chain!StageFollowsTheRule
  /\ stream = "two" => Two!StageFollowsTheRule

\* Where go test and the rules disagree the stage is red, whichever is green.
DisagreementReds == stream = "pair" => NeitherTurnsTheOtherGreen

\* "a run that started and never reported a result reds the id whatever its
\* other runs did" (the head of testresults.go), in the streams of one go test
\* and in one that goes on with a rerun.
LostRunReds ==
  /\ stream = "pair" => UnreportedRunReds
  /\ stream = "rerun" => Rerun!UnreportedRunReds

\* The excuse of a parent always rests on a subtest excused by its own entry.
ExcuseRestsOnAnEntry ==
  /\ stream = "pair" => CoveredNeedsAnEntry
  /\ stream = "chain" => Chain!CoveredNeedsAnEntry
  /\ stream = "two" => Two!CoveredNeedsAnEntry

\* Nothing turns the stage green that evaluate and ci.sh should see: neither a
\* lost run, nor go test and the rules disagreeing, nor a parent's excuse that
\* no entry of the registry gave.
NothingTurnsItGreen == DisagreementReds /\ LostRunReds /\ ExcuseRestsOnAnEntry
=============================================================================
