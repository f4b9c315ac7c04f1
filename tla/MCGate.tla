-------------------------------- MODULE MCGate --------------------------------
(***************************************************************************)
(* The parts of the gate beside the test stage, none of which shares state *)
(* with another: the quarantine registry's parser, the dependency lock,    *)
(* the package list that narrows the gate and the capabilities a test      *)
(* needs.  part is the one under way; the others stay where they started.  *)
(* The registry and the lock keep their own variables, s1 .. s10 hold the  *)
(* state of the other two.                                                 *)
(***************************************************************************)
EXTENDS QuarantineRegistry, DepsLock

VARIABLES part, s1, s2, s3, s4, s5, s6, s7, s8, s9, s10

slots == <<s1, s2, s3, s4, s5, s6, s7, s8, s9, s10>>
Unused == {}

\* Two packages of this module and one of another, the header's text between
\* them, in lists of up to six lines: packages in and out of order, keyed lines
\* and @end, each cut short anywhere.
Mode == INSTANCE GateMode WITH
    Pkgs <- {1, 2, 3, 4}, Own <- {3, 4}, Header <- 2, MaxLines <- 6,
    st <- s1, lines <- s2, phase <- s3, prev <- s4, seen_end <- s5, pf_pkgs <- s6, pf_full <- s7,
    mode <- s8, test_set <- s9, changed <- s10

\* Two versions of one module and a module replaced by a directory.
MCPathOf == [v \in Mods |-> IF v \in Locals THEN 2 ELSE 1]
MCEditTimes == {NoLine, Unreadable, Garbled, 1}

\* Two capabilities of each sort and a misspelt one.
Capability == INSTANCE CapabilityGate WITH
    Probed <- {"dev-mac", "root"}, Declared <- {"apple-gpu", "network"}, Unrecognized <- {"apple_gpu"},
    Values <- {"", "0", "1", " TRUE "}, MaxRequire <- 2, MaxNeeds <- 2,
    host <- s1, env <- s2, require <- s3, needs <- s4, at <- s5, outcome <- s6

Rest == s7 = Unused /\ s8 = Unused /\ s9 = Unused /\ s10 = Unused

MCInit ==
    /\ \/ part = "mode" /\ Mode!Init
       \/ part = "capability" /\ Capability!Init /\ Rest
       \/ part \in {"registry", "deps"} /\ Rest
          /\ s1 = Unused /\ s2 = Unused /\ s3 = Unused /\ s4 = Unused /\ s5 = Unused /\ s6 = Unused
    /\ RegistryInit
    /\ DepsInit
    /\ part # "registry" => test = CHOOSE t \in Ids : TRUE
    /\ part # "deps" => \A v \in Mods \ Locals : commit[v] = ZeroTime

MCNext ==
    \/ part = "registry" /\ Next /\ UNCHANGED <<part, depsvars, slots>>
    \/ part = "deps" /\ DepsNext /\ UNCHANGED <<part, vars, slots>>
    \/ part = "mode" /\ Mode!Next /\ UNCHANGED <<part, vars, depsvars>>
    \/ part = "capability" /\ Capability!Next /\ UNCHANGED <<part, vars, depsvars, s7, s8, s9, s10>>

MCSpec == MCInit /\ [][MCNext]_<<part, vars, depsvars, slots>>

-----------------------------------------------------------------------------
\* parseRegistry takes what the registry's format asks for: a line is an entry
\* exactly when it is well formed, and a text without errors is within the cap.
RegistryFollowsTheFormat == []CapHolds /\ EntryIffWellFormed

\* Nothing is left out of the gate unasked: only a whole package list of
\* affected-mode.sh narrows the tests, ci.sh skips them only for a change of
\* nothing but docs, and SkipUnless skips a test only when the first capability
\* it lacks is one the run did not promise.
NothingLeftOutUnasked ==
    /\ part = "mode" => Mode!NarrowedOnlyByAWholeList /\ Mode!SkippedOnlyForDocs
    /\ part = "capability" => Capability!FirstLackingDecides
=============================================================================
