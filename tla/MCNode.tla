-------------------------------- MODULE MCNode --------------------------------
(***************************************************************************)
(* What a node does with the objects and artifacts it is handed: claims on *)
(* its disk, the isolation of its pods, the files of a model, the calls    *)
(* between its processes, the controllers' copies of cached objects and    *)
(* the tables the packages hand out.  The six share no state.  part is the *)
(* one under way; SharedObjects has its variables, which stay as they      *)
(* start in the other parts, and s1 .. s7 hold the state of those.         *)
(***************************************************************************)
EXTENDS SharedObjects

VARIABLES part, s1, s2, s3, s4, s5, s6, s7

slots == <<s1, s2, s3, s4, s5, s6, s7>>
MCVars == <<part, slots, vars>>
Unused == {}

\* Names that are fine, that differ only in case, that leave the directory,
\* and that hide a separator, a blank or a dot.
ClaimNames == {<<"a">>, <<"A">>, <<"a", ".", "b">>, <<".", ".">>, <<"a", "/", "b">>, <<"a", " ">>}
Claims == INSTANCE StorageClaims WITH
    Names <- ClaimNames, MaxUID <- 2, Nodes <- {"m1", ""}, maxDNSLabelLen <- 2, maxDNSSubdomainLen <- 4,
    class <- s1, made <- s2, live <- s3, volumes <- s4, bound <- s5

Isolation == INSTANCE PodIsolation WITH
    Undefined <- 9, config <- s1, pod <- s2, asked <- s3, box <- s4, ready <- s5, state <- s6

\* Paths that collide when case is folded, that are another's directory, and
\* one of each kind a path by itself is refused for.
ArtifactPaths ==
    {<<c>> : c \in {"a", "A", "b"}} \cup {<<c, d>> : c \in {"a", "A", "b"}, d \in {"a", "A"}}
      \cup {<<"a", "b", "a">>, <<"A", "b", "a">>}
      \cup {<<"a", "">>, <<"", "a">>, <<"..data", "a">>, <<"M.PY">>, <<"M.PY", "b">>, <<"long">>,
            <<"long", "long", "long">>, <<"a b">>, <<"b", "b", "b", "b">>}
Files == INSTANCE PathSet WITH
    Paths <- ArtifactPaths, MaxListed <- 4, MaxPathDepth <- 3, MaxComponentBytes <- 2, MaxPaths <- 3,
    paths <- s1, at <- s2, exact <- s3, folded <- s4, verdict <- s5, volume <- s6, dirs <- s7

Calls == INSTANCE RPCCalls WITH service <- s1, server <- s2, call <- s3, ran <- s4

Tables == INSTANCE SharedTables WITH
    MaxCells <- 6, heap <- s1, global <- s2, sets <- s3, held <- s4, answers <- s5

-----------------------------------------------------------------------------
\* The cached object while another part is under way.
CacheAtRest == kind = "HelmChart" /\ DOMAIN cache = {<<>>} \cup HelmChart

SlotsUnused ==
    /\ s1 = Unused /\ s2 = Unused /\ s3 = Unused /\ s4 = Unused
    /\ s5 = Unused /\ s6 = Unused /\ s7 = Unused

MCInit ==
    \/ part = "objects" /\ Init /\ SlotsUnused
    \/ /\ Init /\ CacheAtRest
       /\ \/ part = "claims" /\ Claims!Init /\ s6 = Unused /\ s7 = Unused
          \/ part = "isolation" /\ Isolation!Init /\ s7 = Unused
          \/ part = "files" /\ Files!Init
          \/ part = "calls" /\ Calls!Init /\ s5 = Unused /\ s6 = Unused /\ s7 = Unused
          \/ part = "tables" /\ Tables!Init /\ s6 = Unused /\ s7 = Unused

MCNext ==
    /\ UNCHANGED part
    /\ \/ part = "objects" /\ Next /\ UNCHANGED slots
       \/ part = "claims" /\ Claims!Next /\ UNCHANGED <<s6, s7, vars>>
       \/ part = "isolation" /\ Isolation!Next /\ UNCHANGED <<s7, vars>>
       \/ part = "files" /\ Files!Next /\ UNCHANGED vars
       \/ part = "calls" /\ Calls!Next /\ UNCHANGED <<s5, s6, s7, vars>>
       \/ part = "tables" /\ Tables!Next /\ UNCHANGED <<s6, s7, vars>>

MCSpec == MCInit /\ [][MCNext]_MCVars

-----------------------------------------------------------------------------
\* A claim is one directory and one volume: two claims of different names never
\* share a directory (ClaimPath), the runtime and the provisioner derive the
\* same one, two levels under the base path, and a volume's name is that of one
\* claim through deletion and replay (PVName).
ClaimIsOneDirectory ==
    part = "claims" => /\ Claims!ClaimsAreApartOnDisk
                       /\ Claims!BoundUnderTheBase
                       /\ Claims!RuntimeAndProvisionerAgree
                       /\ Claims!VolumeNamesOneClaim

\* A pod gets the isolation its node gives the handler it named, or does not
\* run: the default backend never stands in for a handler, so that it runs as a
\* host process only where the node's own table says so of that very name
\* (Backend, WithDefaults); and a wasm pod whose author asked for a signature
\* check never runs unverified (ClassifyWasmSignature).
AskedIsolationIsGiven ==
    part = "isolation" => Isolation!NamedIsolationIsGiven /\ Isolation!RequestedCheckIsNeverSkipped

\* The files of a list ValidatePathSet accepts land apart, in any order, and
\* its verdict does not depend on the order of the list.
AcceptedFilesLandApart ==
    /\ [](part = "files" => Files!VerdictIsOfTheSet)
    /\ [][part = "files" => Files!LandsApart]_MCVars

\* Whatever the builds, a gRPC call runs the method it names or none, OK means
\* that it ran and a server that lacks it never says OK; a stub opens its own
\* method's stream, a process past its registration never panics on a method it
\* lacks, and no unary method runs past an interceptor that did not admit it.
AnswerTellsWhatRan ==
    part = "calls" => /\ Calls!AnswerTellsWhatRan
                      /\ Calls!StubAndHandlerAgree
                      /\ Calls!ServingNeverPanics
                      /\ Calls!InterceptorSeesUnaryCalls

\* The tables the packages export stay as shipped: an accessor answers with
\* them whatever earlier callers wrote, and no allow-set in a caller's hands
\* admits what the policy does not.
TablesStayAsShipped ==
    part = "tables" => Tables!AccessorsAnswerWhatShips /\ Tables!NoCallerWidensAnAllowSet
=============================================================================
