# A TLA+ verification of k3sm-io/apis

TLA+ models of the parts of the repository that have behaviour: state several
processes share, data that travels between programs of different versions, and
verdicts computed from streams of events. Paths are relative to the repository
root; `PROJECT.json` maps every definition to the lines it models.

The mapped lines are a third of the Go and shell code. Most of the rest is
generated protobuf messages, whose accessors return a field and have nothing to
model (section 8).

## 1. The parts and their modules

Most of this repository is a contract between programs that live elsewhere: a
node writes a page and SDKs read it, a server writes an annotation and a node
obeys it, two programs derive one directory. Those programs are external. Where
a property needs them they are modelled from the contract the code states and
marked external in the map.

| Part | Code | Modules |
|---|---|---|
| Budget page: writer, readers, promise | `budget/v1alpha1/page.go`, `doc.go`, the tests' readers | `BudgetPage`, `BudgetReader`, `PageRegister`, `HeaderProbe`, `NotifyWait` |
| Budget page: layout and encoding | `page.go`, `page_codes.go`, `nodebudget.go` | `PageLayout`, `PageTable`, `ObservationPage` |
| Budget policy | `nodebudgetpolicy.go`, `floors.go` | `BudgetPolicy`, `PolicyChoice` |
| Budget annotations | `annotationpayload.go`, `nodebudget.go` | `BudgetRelay`, `BudgetReport`, `StrictDecode` |
| Test stage of the gate | `hack/lib/testresults.go`, `hack/ci.sh` | `TestCollector`, `QuarantineGate`, `TestStage` |
| Quarantine registry | `testresults.go` | `QuarantineRegistry` |
| Gate mode, capabilities, dependency lock | `hack/lib/affected-mode.sh`, `k3smtest/`, `hack/verify-deps.sh` | `GateMode`, `CapabilityGate`, `DepsLock` |
| Mesh and cable addresses | `net/v1/mesh.go`, `net/v1alpha1/linkip.go`, `interconnectaddr.go` | `MeshEnroll`, `LinkAddress`, `DNSNames` |
| DNS config, Services | `net/v1/dns.go`, `service.go` | `Resolver`, `ServiceProxy` |
| Interconnect annotations and ledger | `net/v1alpha1/interconnect*.go` | `InterconnectDesired`, `InterconnectLedger` |
| Storage, handlers, artifacts | `storage/v1`, `runtime/v1/handler.go`, `wasm.go`, `artifact/v1` | `StorageClaims`, `PodIsolation`, `PathSet`, `SharedTables` |
| gRPC services | the four `*_grpc.pb.go` | `RPCCalls` |
| Served types and their deep copies | `helm/v1`, `mlx/v1alpha1`, `updates/v1alpha1`, `net`, `budget` | `SharedObjects` |
| Runtime contract suite | `k3smtest/runtimecontract` | `RuntimeContract` |

`*Proofs` modules and `SeqFacts` hold proofs; `QuarantineRegistry`,
`LinkAddress` and `NotifyWait` carry their own.

Conventions. A pointer field is a set, `{}` for nil. A name, a payload or a
reason is a member of a small set unless its bytes matter; where they do (host
names, DNS options, claim names) it is a sequence of the bytes the grammar
tells apart. Integers keep a width where the code can overflow.

**Suites.** Components that share no state are explored by one run: the module
`MC...` has a variable `part`, chosen once, that says which component is under
way while the variables of the others stay as they start. Nothing interleaves
across parts, so the state space is the sum, not the product. A suite's
property names the component's properties it conjoins and holds vacuously in
the other parts. Components that do interact are composed: readers with the
writer, the collector with the rules and with go test, relay with node, server
with node, controllers with the cache.

## 2. The budget page

`BudgetPage`: each store to a word somebody reads is one step.

| Action | Code |
|---|---|
| `NewPageWriter(m)` | `NewPageWriter`, in a process built from minor `m` |
| `Resume`, `StoreHeader` | `Resume`: what it adopts, the order it chooses, then one header store at a time |
| `PublishRefused`, `Publish(k)` | `Publish` returning an error; `Publish` up to the odd store of seq |
| `StoreBody`, `StoreEven`, `StoreEpoch` | its remaining stores |
| `Crash` | the process dies between two stores |

A body word holds the number of the publication that stored it, so words are
equal exactly when one `Publish` wrote both. `log` and `committed` are history;
no guard reads them. `BudgetReader` adds readers, each load a step: notifyEpoch,
the header words, seq, every body word, seq again, then sleep until notifyEpoch
differs. `PageRegister` is the abstract promise, a register replaced whole whose
reads never go back in time. `HeaderProbe` is the two-load header reader of
`TestResumeHeaderConcurrentReaders`. `NotifyWait` narrows notifyEpoch to a
counter that wraps and a wait on its low word. `PageLayout` is the loop of
`buildPageLayout` over any table, `PageTable` that loop over the page's own.
`ObservationPage` is `validate`, `NewPageSnapshot`, the getters, `EncodePage`
and the notify key.

Run `BudgetReader` (1,456,228 states):

* `RecognisedHeaderValid`: between any two stores of any Resumes, the header
  names no minor whose body is larger than its bodySize.
* `SeqlockHolds`: the body is whole under an even seq, and an accepted copy is
  the body at one even store.
* `StoresInOrder`: seq never repeats across deaths; notifyEpoch moves behind a
  whole publication.
* `NoLostWakeup`, and under fairness `ReadersConverge`: a sleeping reader knows
  the last key, or comes to.
* `ImplementsRegister`: refinement of `PageRegister`.
* `ReaderTypeOK`: types.

Run `PageWords` (2,396,766 states):

* `HeaderReadsWereHeld`: what one and two header reads can see while up to
  three writers of three minors resume.
* `LayoutSound`: fields share no byte and lie on their alignment, for every
  table of up to three fields and for the page's own; `TableServesTheStores`:
  what `Publish` and `Resume` take for granted of the page's own table.
* `EqualWordsHideWholeTurns`: equal low words mean no notification or whole
  turns of the word.
* `PageCarriesTheObservation`: what `validate` accepts the page can carry, and
  the page reads back as the snapshot, nil apart from zero.
* `NotifiedReaderIsCurrent`: a reader that copies only when notified still has
  every field the key covers.

Bounds. Two minors of different body size are an upgrade and a rollback; the
probe has three minors and three deaths, because its question is about Resumes
in a row. Two keys tell a changed key from an unchanged one. One death gives
every crash point followed by a takeover; two publications of a writer give a
first one (always notified) and a later one. One reader suffices because
readers only load; the proofs are for any set of them. The counter has three
turns of a four-valued word and thirteen bumps, one past all of its values. The
observations differ from a valid one in two fields at a time.

Fairness. `FairSpec` assumes weak fairness of the writer's progress (it finishes
what it began, a dead one is started again, and it publishes every writer
period) and of each reader. The restart and the period are duties of the node
process; the page's contract is written on that basis. `ReadersConverge` is
about readers whose minor is at most the last writer's: after a rollback a newer
reader finds the page truncated, by design.

Scope. Stores and loads are sequentially consistent, as `sync/atomic` is;
readers in other languages need acquire loads. The documented bounds on retries
are not counted: a read may give up at any odd or moving seq. Before the first
publication the body is zero bytes and readers find it stale by its time, which
is not modelled. Fields of one rule are one field in `ObservationPage`.

## 3. Budget policy and annotations

Run `Budget` (610,737 states), parts:

* choice: `PolicyChoice` serves `SelectPolicy` a list in any order while
  policies and labels change. `ChoiceFollowsPrecedence`.
* ladder: an admin edits rungs and releases, each edit admitted by
  `checkLadder`. `LadderReadsOneWay`: with any rungs unset, the rungs a reading
  meets form a prefix and no reading meets and clears one rung.
* two, one: `BudgetRelay`, a policy's way to a node and the answer's way back.
  `Choose`, `Relay`, `Apply`, `Report` and `WriteStatus` interleave with policy
  edits, restarts of the node and other writers of the annotations. The loops of
  the relay and of the node are external; what they call (`EncodeDesired`,
  `ParseDesired`, `ApplyFloors`, `ObservationValid`) is this repository's.
  `StatusTellsTheTruth`: the status names one version of a policy, says of that
  version whether it is in force, and names as clamped exactly the fields that
  are past a floor, found field by field and not through `ApplyFloors`.
* report: an older relay reads a newer producer's report, with counts of a
  small width. `ReportSurvivesTheSkew`.
* decoder: the token walk of the strict decoder over every short payload.
  `DecoderReadsOneThing`.

Bounds. Three policies show a loser behind a loser; two suffice for a status
about the wrong one, and one alone leaves room for everything that can go
wrong. The specs are at every floor, past all of them, past some, with a ladder
out of order, and invalid. Six ladder values let all five rungs be set beside a negative one. Three
unknown reasons in two windows overflow a count of at most two.

## 4. The gate

`TestCollector` has one operator per kind of line `collector.line` reads.
`QuarantineGate` is `evaluate`, the exit status and ci.sh's comparison with go
test's; a configuration (tier, registry, edited packages) is quantified over in
the properties. `TestStage` composes them with go test, which is external; what
is assumed of it is at the head of the module. An output is the set of its
lines, of which the recorded signature, a race report and others are told apart.

Run `TestStage` (354,922 states) has three kinds of stream: a test and its
subtest run twice, a chain of three, and two tests of a package.

* `VerdictFollowsTheRule` compares the code with a second definition written
  from the rules at the head of `testresults.go` and evaluated on the history of
  runs, not on what the collector kept of them.
* `NothingTurnsItGreen`: no lost run, no disagreement with go test, no excuse
  without an entry.

Run `Gate` (3,061,095 states), parts:

* registry: `parseRegistry` token by token. `EveryLineCounts`,
  `RegistryFollowsTheFormat`.
* mode: `read_packages` line by line, `resolve_gate_mode`, and what ci.sh does
  with the result; capability: `SkipUnless`. `NothingLeftOutUnasked`: the gate is
  narrowed only by a whole list, and the first capability a test lacks decides
  its fate, whatever the order of its gates.
* deps: the lock over a branch's life, with updates that fail or are killed
  after they rewrote it, edits of the lock by hand (another time, no time, a
  line that cannot be read, a line more or less) and merges.
  `CheckVetsTheWholeLock`: every version on main, and every version of a lock a
  check just passed, cleared the cooldown on the day of a good check by the
  proxy's time or an exemption, although the check reads again only the lines
  main does not hold and trusts what is written beside the others.

Bounds. Two runs of an id are the fewest that can hide one another; three
levels the fewest with an inner parent. Four required keys and a fifth token
allow every single defect of a line, two lines a repeated id, a cap of one makes
two too many. Six lines hold a header, packages out of order, keyed lines and an
end, each cut short anywhere. The header's text is also a package name that sorts
among the others, so that a second header line is tried. Two versions of one
module and a replacement by a directory, a cooldown of one day, and commit times
that are unknown, too young on the first day and old enough on the next; one edit
by hand at any moment (the proof is for any number).

## 5. Network and node

Run `Network` (1,199,717 states), parts:

* mesh: nodes enrol, are given an index, publish candidates (their own address,
  another node's or nobody's) and dial. `DialReachesTheNode`: a link-local
  address that is dialled is answered by one node at most, and by the peer when
  the peer derived it.
* names: the byte scanner of `mesh.go` against the grammar, over every name up
  to one byte past the bound. `ScannerDecidesTheGrammar`.
* config: a DNS config edited, checked, rendered and read by a resolver.
  `ResolverReadsTheConfig`.
* proxy: a Service with its defaults, and its sockets of 16 bits.
  `ServiceKeepsItsPorts`.
* desired: an admin's rule, the annotation, a node, and other writers whose text
  is too long, of another schema or of another type. `NodeAppliesTheAdminsRule`:
  what the API admits can be sent unless it is too long, the node decides as the
  object it was written from, what was written is readable, and a newer schema
  is told from a malformed text wherever its number can be read.
* ledger: the interface and the file, in a helper that crashes between changing
  the one and rewriting the other. `LedgerHoldsTheOwnedAliases`: the two differ
  only by a change that a crash cut off or a damaged file lost.

Run `Node` (635,039 states), parts:

* claims: made, deleted, replayed, on a volume that folds case.
  `ClaimIsOneDirectory`.
* isolation: handlers, signature requests, annotations that change, restarts.
  `AskedIsolationIsGiven`: the default backend never stands in for a handler a
  pod named, and a requested check is never skipped.
* files: lists of paths in any order, and their files laid out.
  `AcceptedFilesLandApart`.
* calls: a gRPC call from stub to implementation, with a server of another
  build that may stop or be replaced at any step, and an implementation that may
  answer with any error of its own after it ran. `AnswerTellsWhatRan`: the
  method named runs or none, OK means that it ran, and a server that lacks it
  never says OK.
* objects: the 21 served types as the references they hold, each hand-written
  copy as what it does with them, and controllers editing copies of a cached
  object. `CopyIsTheHolders`.
* tables: callers that write to the slices they are given.
  `TablesStayAsShipped`.

Run `RuntimeContract` (975,772 states): the seven cases against a runtime with
any one defect whose answers may come too late. `SuiteJudgesTheRuntime`: with
every call answered, the verdict is the runtime's for every defect but the one
no case looks for (section 7). `SuiteEnds` under weak fairness of the next step,
which the deadlines of the cases and of their cleanup justify.

Bounds. The indexes are the ends of both halves of the reserved range and the
ordinals the first, the last and one past it (the proofs cover all). Names are
bounded at three and five bytes instead of 63 and 253, lists at one more than
the limit. Ports are the ends of the range and their neighbours. Two
controllers and two versions of an object are the fewest that can share memory
by copying the same or different originals.

Deadlock is checked in `BudgetReader`, `Network` and `RuntimeContract`. In the
other suites some part ends: a text or a stream is read, a budget of objects is
used up.

## 6. What is proved

For every value of the constants, under the named `ASSUME`s of the modules.

| Theorem | Statement | Module |
|---|---|---|
| `HeaderAlwaysValid` | `RecognisedHeaderValid`, also from another major's page | `BudgetPageProofs` |
| `TypeCorrect` | `ReaderTypeOK` | `BudgetReaderProofs` |
| `SeqlockIsSound` | `SeqlockHolds` | `BudgetReaderProofs` |
| `NoReaderSleepsThroughAKey` | `NoLostWakeup` | `BudgetReaderProofs` |
| `StoresAreInOrder` | `StoresInOrder` | `BudgetReaderProofs` |
| `PageIsARegister` | `ImplementsRegister` | `BudgetReaderProofs` |
| `LayoutIsSound` | `LayoutSound`, for any table | `PageLayoutProofs` |
| `WaitMissesOnlyWholeTurns` | `EqualWordsHideWholeTurns`, for any widths | `NotifyWait` |
| `RegistryCountsEveryLine` | `EveryLineCounts`, for any text and cap | `QuarantineRegistry` |
| `ChecksVetTheWholeLock` | `CheckVetsTheWholeLock`, for any modules, cooldown and history | `DepsLockProofs` |
| `LinkIPIsInjective` | no two pairs of index and port derive one address | `LinkAddress` |
| `LinkIPStaysInTheReservedHalves` | for any integers, an address is derived exactly within the bounds and in a reserved half | `LinkAddress` |
| `InterconnectIsTheLowHalf` | `InterconnectLinkIP` is `LinkIP` cut at the cable's ceiling | `LinkAddress` |

The page. None of its properties is inductive alone. The writer's invariant
`PageInv` is a conjunction of parts, each preserved by a lemma of its own:

* `HeaderInv`: how far Resume is, and what header that leaves. The header is
  valid after the first of two stores only because the order was chosen by the
  sizes, so the invariant carries that choice.
* `SeqInv`: the writer's seq and notifyEpoch against the page's. It contains
  that a page that is not recognised has seq 0, which holds from a new file and
  not from a foreign page; that is why the reader theorems start from `Init`.
* `BodyInv`, `CommittedInv`, `KeyInv`, `ImagesInv`: the words stored so far are
  the current publication's, committed bodies are whole, and the newest one is
  on the page while seq is even.

`ReaderInv` adds, for each reader, that it is never ahead of the page
(`BehindInv`), that a copy under way agrees with the body while seq has not
moved (`CopyInv`, the heart of the seqlock, resting on seq only growing), what
it delivered (`GotInv`) and what it knows while asleep (`SleepInv`).

The layout: the offsets so far are apart, aligned and below the running end,
which rounding up never lowers. The wait (`Turned`): the remembered word plus the
notifications missed is the counter, up to whole turns of the word, which
survives the counter's own wrap because that drops whole words. The registry:
the id of every entry is in `seen`, without which a repeated id could pass. The
lock (`MainCleared`, `LockCleared`): the lock's times prove nothing, for updates
die and people edit; but main holds only versions that some good check cleared
by the proxy's time, and so does a lock whose last script is a good check, which
is all that is merged. The lines a check trusts are main's, and the ones it does
not trust it reads again. The addresses: by arithmetic on the two
low bytes.

Only model-checked: the liveness properties and everything with ENABLED; what
recursive definitions compute (the stage's rule over a tree of tests, the strict
decoder, the resolver's text); cardinalities and counted tokens
(`RegistryFollowsTheFormat`); and the remaining suites, whose parts are finite
tables or bounded texts where TLC's enumeration is the natural argument.

## 7. Where the code and its documentation disagree

Each of the first four is a run that TLC must find violated.

* `BudgetMinorSkew`. A writer of a newer minor that resumes over an older
  minor's page announces the larger body before it has published one. Until its
  first `Publish` a reader of the newer minor accepts appended words no
  publication stored; a test comment says every stable read is one of the
  published pages.
* `StageRerun`. In a stream with a rerun after a process that died, the rerun's
  result closes the run that never reported. `hack/ci.sh` makes no reruns.
* `BudgetReportSkew`. A newer producer that reports every named reason and a new
  one in both windows exceeds `MaxWindowCounts`, and an older reader refuses the
  whole report, where `doc.go` says it keeps the rest.
* `RuntimeContractPods`. A runtime that performs a creation and answers too late
  leaves a pod no cleanup deletes, where a comment says cases are independent.

Met while modelling, and without a run of their own:

* Over a page of another major, seq restarts from 0 in the writer while the page
  keeps its old word until the first `Publish`. A new major has a new file name.
* A parent can be reported QUARANTINED above a subtest reported RED; the stage
  is red either way.
* The unknown reasons' counts are summed before the check that refuses negative
  ones, so a negative count can hide in a sum.
* `MeshEnrollRequest.Validate` does not apply the link-local rule that
  `MeshPeerSpec` applies to the same candidates.
* An interconnect rule of 64 names of 63 bytes is valid and does not fit the
  4096 bytes of its annotation; `Encode` refuses it.
* A capacity may report a GPU count without reporting that a GPU is present.
* `cooldown_verify` is said to re-read a line "added or changed since the merge
  base"; the base is compared by module, so a time edited beside a module main
  already holds is not read again. By `CheckVetsTheWholeLock` that lets nothing
  in, since the version cleared the cooldown when it was merged.
* `lock_compare` is said to compare "line for line"; it compares by module path
  and the last line of a path counts, so an earlier line with another version is
  no drift. The later stages do look at that line.
* A second `k3sm-affected/v1` line is read as a package, which is of no module.
* Of two capabilities a test lacks the first one asked for decides, so an
  unpromised one asked for first skips the test before the promised one is
  reached.
* `checkDelete` says that a second delete and a delete of a pod never created
  "both succeed" and looks at the transport error only: a runtime that refuses
  them in `DeletePodResponse.error` keeps the contract suite green.
* The mesh checks that a link-local address is of a reserved half, not whose it
  is: a peer may publish an address another node derived.
* `HandlerConfig.Validate` allows a node's own table to map "vm" to
  `SANDBOX_BACKEND_UNSPECIFIED`, the host-process default; only a handler
  without a row fails closed.
* An annotation of a newer schema is `ErrUnknownInterconnectSchema` while it is
  within the size bound and its schema is a number; otherwise it is malformed.

## 8. Not modelled

* Generated protobuf messages: accessors and descriptor tables. They are most of
  the unmapped lines. Only the getters `PodIsolation` reads are mapped.
* Pairing: wire types without a function. Scheme registration, condition types,
  label and annotation names: constants.
* `ChipSlug`: a pure function of one string, left to its table test.
  `GuestAllowSet`: the same construction as the image-volume set over another
  table.
* Of the dependency check: the wrapper graphs, which run the same stages over
  other locks, `--modules`, the environment guard, the replace and tool rules
  and the self-test. Times agree or differ by days, so the hour's tolerance of
  `cmd_verify_times` is not seen; the order of the lock's lines is left out.
* Code generation and lint scripts: they run a tool over the tree and keep no
  state.
* Of the modelled parts: wording, quoting, identifier grammars not named above,
  and the `MeshEnrollResponse` version check. No function of the repository
  moves an Update or a model between phases, so there is no such machine to
  model.
