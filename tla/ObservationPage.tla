-------------------------- MODULE ObservationPage ---------------------------
(***************************************************************************)
(* A node's observations and the budget page they go to (budget/v1alpha1   *)
(* nodebudget.go, page.go and page_codes.go).                              *)
(*                                                                         *)
(* First when an observation is well formed: NodeBudgetObservation.validate*)
(* and the validate of its parts.  A pointer of the Go types is a set, {}  *)
(* for nil; the zero time is 0; an enum value no release knows is Odd.     *)
(* Fields with the same rule are one field: capacity.sizes stands for the  *)
(* ten sizes and counts of the capacity, a darwin block has one plain      *)
(* value and one inside its compressor, a linux block one average, one     *)
(* total and one event count.  The applied policy is checked in            *)
(* BudgetRelay, the windowed counts in BudgetReport.                       *)
(*                                                                         *)
(* Then NewPageSnapshot, the getters of the field table, EncodePage and    *)
(* the notify key of Publish.  The stores of a publication are             *)
(* BudgetPage's; here a page is its words.  A getter's result is a set:    *)
(* {w} for the word it stores, {} for a value the field cannot carry.      *)
(***************************************************************************)
EXTENDS BudgetPolicy, TLC

CONSTANTS
    MaxBudgetSignals, MaxPermille,
    MaxPageSignals, MaxPageCounters, MaxPageNodeNameBytes,
    Base,      \* the observation the producer starts from
    Samples,   \* field -> the values a sample may give it
    Writers,   \* the writers' node names (by length) and periods
    MaxSamples

Odd == "odd"
Platforms == {"darwin", "linux"}
Levels == {"ok", "warn", "critical", "evicting"}
Bands == {"critical", "standard", "batch"}
Trends == {"falling", "steady", "rising", "unknown"}
LimitingResources == {"memory", "swapfs", "nodefs", "imagefs", "pid", "cpu", "unknown"}
KillModes == {"auto", "on", "off"}
KillModeReasons == {"cold-start", "observing", "armed", "policy-off", "disarm-file", "unknown"}
WouldKillReasons == {"held-pressure", "memory-floor", "unknown"}

Unit(id) ==
    CASE id = "memory.compressor" -> "permille"
      [] id = "pid.available" -> "count"
      [] id \in Signals \ {"memory.compressor", "pid.available"} -> "bytes"
      [] OTHER -> ""

InPermille(opt) == \A v \in opt : v \in 0..MaxPermille

CapacityValid(c) ==
    /\ NonNegative(c.sizes) /\ NonNegative(c.gpuCount)
    /\ \A present \in c.gpuPresent, n \in c.gpuCount : present = (n > 0)

SignalValid(s) ==
    /\ s.id \in Signals
    /\ s.unit = Unit(s.id)
    /\ NonNegative(s.value)
    /\ checkLadder(s.id, s.rungs, s.releases)
    /\ s.trend \in Trends \cup {""}
    /\ s.limitingResource \in LimitingResources \cup {""}
    /\ s.sharedWith \in (Signals \ {s.id}) \cup {""}

NoKillMode == [mode |-> "", armed |-> FALSE, armingEpisodes |-> 0, reason |-> ""]

KillModeValid(k) ==
    \/ k = NoKillMode
    \/ k.mode \in KillModes /\ k.armingEpisodes >= 0 /\ k.reason \in KillModeReasons \cup {""}

WouldKillValid(w) == w.band \in Bands /\ w.reason \in WouldKillReasons /\ w.at # 0

CountersValid(c) == c.band \in Bands /\ c.total >= 0

DarwinValid(d) ==
    InPermille(d.memorystatusLevelPermille) /\ \A compressor \in d.compressor : NonNegative(compressor)

LinuxValid(l) ==
    /\ \A line \in l.psi : InPermille(line.avg10Permille) /\ NonNegative(line.totalUs)
    /\ \A high \in l.memoryEvents : NonNegative(high)

Distinct(seq) == \A i, j \in DOMAIN seq : i # j => seq[i] # seq[j]

ActionValid(o) ==
    /\ o.admitReasonSignal # "" => o.admitReasonSignal \in Signals /\ ~o.admit
    /\ 0 \notin o.evictDeadline
    /\ NonNegative(o.recommendation.safeAdditionalBytes)
    /\ o.recommendation.basis \in Signals \cup {""}
    /\ KillModeValid(o.killMode)
    /\ \A w \in o.wouldKill : WouldKillValid(w)

ObservationIsValid(o) ==
    /\ o.observedAt # 0
    /\ o.producerGeneration >= 0
    /\ o.platform \in Platforms
    /\ (o.darwin # {}) # (o.linux # {})
    /\ (o.platform = "darwin") = (o.darwin # {})
    /\ o.level \in Levels
    /\ ActionValid(o)
    /\ CapacityValid(o.capacity)
    /\ Len(o.signals) <= MaxBudgetSignals
    /\ \A i \in DOMAIN o.signals : SignalValid(o.signals[i])
    /\ Distinct([i \in DOMAIN o.signals |-> o.signals[i].id])
    /\ Len(o.counters) <= Cardinality(Bands)
    /\ \A i \in DOMAIN o.counters : CountersValid(o.counters[i])
    /\ Distinct([i \in DOMAIN o.counters |-> o.counters[i].band])
    /\ \A d \in o.darwin : DarwinValid(d)
    /\ \A l \in o.linux : LinuxValid(l)

-----------------------------------------------------------------------------
PageAbsent == -4   \* the least i64 of this model

VARIABLES
    o,          \* the producer's observation
    samples,    \* how many fields were sampled anew
    writer,     \* the writer's node name length and period
    page,       \* the page's words: {} before the first publication
    published,  \* the snapshot of the last publication that was accepted
    last,       \* PageWriter.last: {} when hasLast is false
    noticed     \* the page as it was when notifyEpoch last changed
vars == <<o, samples, writer, page, published, last, noticed>>

-----------------------------------------------------------------------------
(* Words. *)

\* The sentinel is stored as any other value.
i64Word_Plain(opt) == IF opt = {} THEN {PageAbsent} ELSE opt

i64Word(opt) == IF opt = {} THEN {PageAbsent} ELSE opt \ {PageAbsent}

boolWord(b) == {IF b THEN 1 ELSE 0}

CodeIn(table, v) == {i \in DOMAIN table : table[i] = v}

pageCode(table, v, unknown) == IF v \in {"", unknown} THEN {0} ELSE CodeIn(table, v)

signalCodes == <<"memory.available", "memory.compressor", "memory.swap", "swapfs.available",
                 "nodefs.available", "imagefs.available", "pid.available">>
pageUnitCodes == <<"bytes", "permille", "count">>
pageLevelCodes == <<"ok", "warn", "critical", "evicting">>
pageBandCodes == <<"critical", "standard", "batch">>
pagePlatformCodes == <<"darwin", "linux">>
pageKillModeCodes == <<"auto", "on", "off">>
pageTrendCodes == <<"falling", "steady", "rising">>
pageLimitingResourceCodes == <<"memory", "swapfs", "nodefs", "imagefs", "pid", "cpu">>
pageKillModeReasonCodes == <<"cold-start", "observing", "armed", "policy-off", "disarm-file">>

-----------------------------------------------------------------------------
(* Snapshots and pages. *)

\* NewPageSnapshot: the observation without what only the NodeBudget carries.
NewPageSnapshot(w, ob) ==
    w @@ [f \in DOMAIN ob \ {"wouldKill"} |-> ob[f]]

\* The getters outside the slots.  A field inside an absent block is absent.
Scalars(s) ==
    LET Inside(block, get(_)) == i64Word(UNION {get(b) : b \in block})
    IN [generation |-> {s.producerGeneration},
        writerPeriodSeconds |-> {s.period},
        nodeNameLen |-> {s.nodeName},
        observedAt |-> {s.observedAt} \ {0},
        platform |-> pageCode(pagePlatformCodes, s.platform, ""),
        level |-> pageCode(pageLevelCodes, s.level, ""),
        sizes |-> i64Word(s.capacity.sizes),
        memorystatusLevelPermille |-> Inside(s.darwin, LAMBDA d : d.memorystatusLevelPermille),
        compressor |-> Inside(s.darwin, LAMBDA d : UNION d.compressor),
        avg10Permille |-> Inside(s.linux, LAMBDA l : UNION {p.avg10Permille : p \in l.psi}),
        totalUs |-> Inside(s.linux, LAMBDA l : UNION {p.totalUs : p \in l.psi}),
        memoryEvents |-> Inside(s.linux, LAMBDA l : UNION l.memoryEvents),
        admit |-> boolWord(s.admit),
        admitReasonSignal |-> pageCode(signalCodes, s.admitReasonSignal, ""),
        evictDeadline |-> IF s.evictDeadline = {} THEN {PageAbsent} ELSE s.evictDeadline \ {0},
        mode |-> pageCode(pageKillModeCodes, s.killMode.mode, ""),
        armed |-> boolWord(s.killMode.armed),
        armingEpisodes |-> {s.killMode.armingEpisodes} \cap Nat,
        reason |-> pageCode(pageKillModeReasonCodes, s.killMode.reason, "unknown"),
        safeAdditionalBytes |-> i64Word(s.recommendation.safeAdditionalBytes),
        basis |-> pageCode(signalCodes, s.recommendation.basis, ""),
        gpuPresent |-> IF s.capacity.gpuPresent = {} THEN {PageAbsent}
                       ELSE UNION {boolWord(b) : b \in s.capacity.gpuPresent},
        gpuCount |-> i64Word(s.capacity.gpuCount)]

Ladder == {"rung", "release"} \X Rungs

\* A filled signal slot; a rung's word is at <<"rung", i>>.
FilledSignal(g) ==
    [id |-> CodeIn(signalCodes, g.id),
     unit |-> IF g.unit = Unit(g.id) THEN CodeIn(pageUnitCodes, g.unit) ELSE {},
     value |-> i64Word(g.value),
     trend |-> pageCode(pageTrendCodes, g.trend, "unknown"),
     limitingResource |-> pageCode(pageLimitingResourceCodes, g.limitingResource, "unknown"),
     sharedWith |-> pageCode(signalCodes, g.sharedWith, "")]
FilledLadder(g) == [k \in Ladder |-> i64Word(IF k[1] = "rung" THEN g.rungs[k[2]] ELSE g.releases[k[2]])]
FilledCounter(c) == [band |-> CodeIn(pageBandCodes, c.band), total |-> {c.total} \cap Nat]

EmptySignal == [f \in {"id", "unit", "value", "trend", "limitingResource", "sharedWith"} |-> {0}]
EmptyLadder == [k \in Ladder |-> {0}]
EmptyCounter == [f \in {"band", "total"} |-> {0}]

Slots(n, filled, empty) == [i \in 1..n |-> IF i \in DOMAIN filled THEN filled[i] ELSE empty]

Getters(s) ==
    [scalars |-> <<Scalars(s)>>,
     signals |-> Slots(MaxPageSignals, [i \in DOMAIN s.signals |-> FilledSignal(s.signals[i])], EmptySignal),
     ladders |-> Slots(MaxPageSignals, [i \in DOMAIN s.signals |-> FilledLadder(s.signals[i])], EmptyLadder),
     counters |-> Slots(MaxPageCounters, [i \in DOMAIN s.counters |-> FilledCounter(s.counters[i])], EmptyCounter)]

checkPageSnapshot(s) ==
    /\ s.nodeName \in 1..MaxPageNodeNameBytes
    /\ s.period > 0
    /\ s.platform \in Platforms /\ s.level \in Levels
    /\ Len(s.signals) <= MaxPageSignals /\ Len(s.counters) <= MaxPageCounters
    /\ s.platform = "darwin" => s.darwin # {}
    /\ s.platform = "linux" => s.linux # {} /\ s.darwin = {}

Encodes(s) ==
    LET g == Getters(s)
    IN /\ checkPageSnapshot(s)
       /\ \A part \in DOMAIN g : \A i \in DOMAIN g[part] : \A f \in DOMAIN g[part][i] : g[part][i][f] # {}

EncodePage(s) ==
    LET g == Getters(s)
    IN [part \in DOMAIN g |-> [i \in DOMAIN g[part] |->
          [f \in DOMAIN g[part][i] |-> CHOOSE w \in g[part][i][f] : TRUE]]]

-----------------------------------------------------------------------------
(* What a reader makes of a page, by the descriptor's absent and enum columns. *)

Opt(w) == {w} \ {PageAbsent}
Named(table, c) == IF c \in DOMAIN table THEN table[c] ELSE ""

ReadScalars(p) ==
    LET w == p.scalars[1]
    IN [generation |-> w.generation, period |-> w.writerPeriodSeconds, nodeName |-> w.nodeNameLen,
        observedAt |-> w.observedAt, platform |-> Named(pagePlatformCodes, w.platform),
        level |-> Named(pageLevelCodes, w.level), admit |-> w.admit = 1,
        admitReasonSignal |-> Named(signalCodes, w.admitReasonSignal), evictDeadline |-> Opt(w.evictDeadline),
        mode |-> Named(pageKillModeCodes, w.mode), armed |-> w.armed = 1, armingEpisodes |-> w.armingEpisodes,
        reason |-> Named(pageKillModeReasonCodes, w.reason), basis |-> Named(signalCodes, w.basis)]

ReadSizes(p) ==
    [f \in {"sizes", "memorystatusLevelPermille", "compressor", "avg10Permille", "totalUs", "memoryEvents",
            "safeAdditionalBytes", "gpuPresent", "gpuCount"} |-> Opt(p.scalars[1][f])]

FilledSlots(p) == {i \in DOMAIN p.signals : p.signals[i].id # 0}
FilledCounters(p) == {i \in DOMAIN p.counters : p.counters[i].band # 0}

\* The rungs and releases of a slot, none of an empty one.
ReadLadder(p, i) == [k \in Ladder |-> IF i \in FilledSlots(p) THEN Opt(p.ladders[i][k]) ELSE {}]

ReadSignal(p, i) ==
    LET w == p.signals[i]
    IN [id |-> Named(signalCodes, w.id), unit |-> Named(pageUnitCodes, w.unit), value |-> Opt(w.value),
        trend |-> Named(pageTrendCodes, w.trend), sharedWith |-> Named(signalCodes, w.sharedWith),
        limitingResource |-> Named(pageLimitingResourceCodes, w.limitingResource)]

-----------------------------------------------------------------------------
(* The notify key. *)

\* A key of the rungs without the releases.
notifyKeyOf_Rungs(s) ==
    [level |-> s.level, admit |-> s.admit, generation |-> s.producerGeneration,
     ladder |-> [i \in 1..MaxPageSignals |-> [k \in Ladder |->
        IF i \in DOMAIN s.signals /\ k[1] = "rung" /\ s.signals[i].rungs[k[2]] # {}
        THEN CHOOSE v \in s.signals[i].rungs[k[2]] : TRUE ELSE PageAbsent]]]

notifyKeyOf(s) ==
    LET Value(i, k) == IF k[1] = "rung" THEN s.signals[i].rungs[k[2]] ELSE s.signals[i].releases[k[2]]
    IN [level |-> s.level, admit |-> s.admit, generation |-> s.producerGeneration,
        ladder |-> [i \in 1..MaxPageSignals |-> [k \in Ladder |->
           IF i \in DOMAIN s.signals /\ Value(i, k) # {} THEN CHOOSE v \in Value(i, k) : TRUE ELSE PageAbsent]]]

-----------------------------------------------------------------------------
Init ==
    /\ o = Base /\ samples = 0 /\ writer \in Writers
    /\ page = {} /\ published = {} /\ last = {} /\ noticed = {}

\* The producer samples one field anew.
Sample(f) ==
    /\ samples < MaxSamples
    /\ \E v \in Samples[f] : v # o[f] /\ o' = [o EXCEPT ![f] = v]
    /\ samples' = samples + 1
    /\ UNCHANGED <<writer, page, published, last, noticed>>

\* Publish, whole.  A snapshot that does not encode changes nothing.
Publish ==
    LET s == NewPageSnapshot(writer, o)
        due == last # {notifyKeyOf(s)}
    IN /\ Encodes(s)
       /\ page' = {EncodePage(s)} /\ published' = {s}
       /\ last' = {notifyKeyOf(s)}
       /\ noticed' = IF due THEN page' ELSE noticed
       /\ UNCHANGED <<o, samples, writer>>

PublishRefused == ~Encodes(NewPageSnapshot(writer, o)) /\ UNCHANGED vars

\* A writer restarts on the page: Resume forgets the key.
Resume == last # {} /\ last' = {} /\ UNCHANGED <<o, samples, writer, page, published, noticed>>

Next == (\E f \in DOMAIN Samples : Sample(f)) \/ Publish \/ PublishRefused \/ Resume

Spec == Init /\ [][Next]_vars

-----------------------------------------------------------------------------
(* An observation that Validate accepts is one the page can carry, for every *)
(* writer with a usable name and period: a node that reports through the API *)
(* server never loses its page (validate against EncodePage).                *)
ValidObservationFitsThePage ==
    ObservationIsValid(o) /\ writer.nodeName \in 1..MaxPageNodeNameBytes /\ writer.period > 0
      => Encodes(NewPageSnapshot(writer, o))

Unnamed(v) == IF v = "unknown" THEN "" ELSE v

(* The page reads back as the snapshot it was encoded from: nil and zero     *)
(* apart, every name under its own name, filled slots in order and the empty *)
(* ones empty.  Only "unknown" and the unset value are one (EncodePage).     *)
PageReadsAsTheSnapshot ==
    \A p \in page, s \in published :
       /\ ReadScalars(p) =
             [generation |-> s.producerGeneration, period |-> s.period, nodeName |-> s.nodeName,
              observedAt |-> s.observedAt, platform |-> s.platform, level |-> s.level, admit |-> s.admit,
              admitReasonSignal |-> s.admitReasonSignal, evictDeadline |-> s.evictDeadline,
              mode |-> s.killMode.mode, armed |-> s.killMode.armed, armingEpisodes |-> s.killMode.armingEpisodes,
              reason |-> Unnamed(s.killMode.reason), basis |-> s.recommendation.basis]
       /\ ReadSizes(p) =
             [sizes |-> s.capacity.sizes, gpuCount |-> s.capacity.gpuCount,
              gpuPresent |-> {IF b THEN 1 ELSE 0 : b \in s.capacity.gpuPresent},
              memorystatusLevelPermille |-> UNION {d.memorystatusLevelPermille : d \in s.darwin},
              compressor |-> UNION UNION {d.compressor : d \in s.darwin},
              avg10Permille |-> UNION {l.avg10Permille : l \in UNION {b.psi : b \in s.linux}},
              totalUs |-> UNION {l.totalUs : l \in UNION {b.psi : b \in s.linux}},
              memoryEvents |-> UNION UNION {b.memoryEvents : b \in s.linux},
              safeAdditionalBytes |-> s.recommendation.safeAdditionalBytes]
       /\ FilledSlots(p) = DOMAIN s.signals
       /\ \A i \in FilledSlots(p) : LET g == s.signals[i] IN
             /\ ReadSignal(p, i) = [id |-> g.id, unit |-> g.unit, value |-> g.value, trend |-> Unnamed(g.trend),
                                    sharedWith |-> g.sharedWith, limitingResource |-> Unnamed(g.limitingResource)]
             /\ \A k \in Rungs : /\ ReadLadder(p, i)[<<"rung", k>>] = g.rungs[k]
                                 /\ ReadLadder(p, i)[<<"release", k>>] = g.releases[k]
       /\ FilledCounters(p) = DOMAIN s.counters
       /\ \A i \in FilledCounters(p) :
             /\ Named(pageBandCodes, p.counters[i].band) = s.counters[i].band
             /\ p.counters[i].total = s.counters[i].total

(* A reader that copies the page only when notifyEpoch changes still has the *)
(* level, admit, the generation and every slot's rungs and releases as the   *)
(* page has them now, through refused publications and writer restarts       *)
(* (PageNotifyDue, Publish, Resume).                                         *)
NotifiedReaderIsCurrent ==
    \A p \in page : \E q \in noticed :
       /\ p.scalars[1].level = q.scalars[1].level /\ p.scalars[1].admit = q.scalars[1].admit
       /\ p.scalars[1].generation = q.scalars[1].generation
       /\ \A i \in 1..MaxPageSignals : ReadLadder(p, i) = ReadLadder(q, i)
=============================================================================
