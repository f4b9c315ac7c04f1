----------------------------- MODULE MCPageWords -----------------------------
(***************************************************************************)
(* The words of the budget page: where the layout loop puts them, what an  *)
(* observation becomes in them, what two loads of the header make of a     *)
(* Resume under way, and what a wait on the low word of notifyEpoch can    *)
(* miss.  The four share no state (the page of BudgetReader has the stores *)
(* and the whole reader); part is the one under way, the variables of the  *)
(* others stay as they start.                                              *)
(***************************************************************************)
EXTENDS HeaderProbe, PageTable, NotifyWait

VARIABLES part,
    o, samples, writerName, words, published, lastKey, noticed  \* ObservationPage's

observed == <<o, samples, writerName, words, published, lastKey, noticed>>

-----------------------------------------------------------------------------
(* Bounds. *)

MCBodyWords == [m \in Minors |-> m + 1]

\* Tables of up to three fields of each kind, and the page's own.
Small == {[name |-> "f", kind |-> k, size |-> n, align |-> a] :
            k \in {"u16", "u32", "i64", "bytes"}, n \in {2, 8}, a \in Alignments}
MCTables == SeqOf(Small, 3) \cup ThePageTable

\* The least i64 of the model, and a value no enum has.
Absent == -4
Stranger == "odd"
Quiet == [mode |-> "", armed |-> FALSE, armingEpisodes |-> 0, reason |-> ""]

\* A threshold or size: the sentinel, a negative value, zero, and values in
\* and past the permille range.
Ints == {Absent, -1, 0, 1, 3}

NoLadder == [i \in 1..5 |-> {}]
At(i, v) == [NoLadder EXCEPT ![i] = {v}]

Signal(id, unit, rungs, releases) ==
    [id |-> id, unit |-> unit, value |-> {1}, rungs |-> rungs, releases |-> releases,
     trend |-> "", limitingResource |-> "", sharedWith |-> ""]
Mem == Signal("memory.available", "bytes", At(1, 1), At(1, 3))
Pid == Signal("pid.available", "count", NoLadder, NoLadder)

FirstObservation ==
    [producerGeneration |-> 0, observedAt |-> 1, platform |-> "darwin", level |-> "ok", admit |-> TRUE,
     admitReasonSignal |-> "", evictDeadline |-> {}, capacity |-> [sizes |-> {1}, gpuPresent |-> {}, gpuCount |-> {}],
     darwin |-> {[memorystatusLevelPermille |-> {1}, compressor |-> {}]}, linux |-> {}, signals |-> <<Mem>>,
     recommendation |-> [safeAdditionalBytes |-> {}, basis |-> ""], killMode |-> Quiet, wouldKill |-> {},
     counters |-> <<[band |-> "critical", total |-> 0]>>]

NewSamples ==
    [producerGeneration |-> {-1, 1},
     observedAt |-> {0},
     platform |-> {"linux", "", Stranger},
     level |-> {"evicting", "", Stranger},
     admit |-> {FALSE},
     admitReasonSignal |-> {"pid.available", Stranger},
     evictDeadline |-> {{0}, {1}},
     capacity |-> {[sizes |-> {}, gpuPresent |-> {}, gpuCount |-> {}]}
        \cup {[sizes |-> {v}, gpuPresent |-> {}, gpuCount |-> {}] : v \in Ints}
        \cup {[sizes |-> {1}, gpuPresent |-> p, gpuCount |-> n] : p \in {{}, {FALSE}, {TRUE}}, n \in {{}, {Absent}, {0}, {1}}},
     darwin |-> {{}, {[memorystatusLevelPermille |-> {}, compressor |-> {}]}}
        \cup {{[memorystatusLevelPermille |-> {v}, compressor |-> {{v}}]} : v \in Ints}
        \cup {{[memorystatusLevelPermille |-> {}, compressor |-> {{}}]}},
     linux |-> {{[psi |-> {}, memoryEvents |-> {}]}}
        \cup {{[psi |-> {[avg10Permille |-> {v}, totalUs |-> {}]}, memoryEvents |-> {{}}]} : v \in Ints}
        \cup {{[psi |-> {}, memoryEvents |-> {{v}}]} : v \in Ints},
     signals |-> {<<>>, <<Pid>>, <<Mem, Pid>>, <<Pid, Mem>>, <<Mem, Mem>>, <<Mem, Pid, Pid>>,
                  <<[Mem EXCEPT !.unit = "count"]>>, <<[Mem EXCEPT !.id = ""]>>, <<[Mem EXCEPT !.value = {}]>>,
                  <<[Mem EXCEPT !.releases = NoLadder]>>, <<[Mem EXCEPT !.rungs = NoLadder]>>}
        \cup {<<[Mem EXCEPT !.releases = At(1, v)]>> : v \in Ints}
        \cup {<<[Mem EXCEPT !.trend = t, !.limitingResource = "cpu"]>> : t \in {"unknown", "rising", Stranger}}
        \cup {<<[Mem EXCEPT !.limitingResource = r]>> : r \in {"unknown", Stranger}}
        \cup {<<[Mem EXCEPT !.sharedWith = s]>> : s \in {"memory.available", "memory.swap", Stranger}},
     recommendation |-> {[safeAdditionalBytes |-> {v}, basis |-> "memory.available"] : v \in Ints}
        \cup {[safeAdditionalBytes |-> {}, basis |-> Stranger]},
     killMode |-> {[mode |-> "auto", armed |-> TRUE, armingEpisodes |-> 1, reason |-> r] : r \in {"armed", "unknown", Stranger}}
        \cup {[mode |-> m, armed |-> FALSE, armingEpisodes |-> -1, reason |-> ""] : m \in {"", "off"}}
        \cup {[mode |-> "", armed |-> TRUE, armingEpisodes |-> 0, reason |-> ""]},
     wouldKill |-> {{[band |-> "batch", reason |-> "unknown", at |-> 1]}, {[band |-> Stranger, reason |-> "unknown", at |-> 0]}},
     counters |-> {<<>>, <<[band |-> "batch", total |-> -1]>>, <<[band |-> "", total |-> 0]>>}
        \cup {[i \in 1..n |-> [band |-> <<"batch", "standard", "critical", "batch">>[i], total |-> i]] : n \in {2, 3, 4}}]

NodeWriters == {[nodeName |-> 1, period |-> 1], [nodeName |-> 0, period |-> 1], [nodeName |-> 2, period |-> 1],
              [nodeName |-> 1, period |-> 0]}

Observed == INSTANCE ObservationPage WITH
    MinTier1GraceSeconds <- 1, MinTier1HeldSeconds <- 1, MaxTier1DeliveriesPerHour <- 2,
    MinTier1DeliveriesPerHour <- 1, MinTier1CooloffSeconds <- 1, MaxPolicyThresholds <- 2,
    MaxPolicyNodeSelectorLabels <- 1, MaxBudgetSignals <- 2, MaxPermille <- 2,
    MaxPageSignals <- 2, MaxPageCounters <- 3, MaxPageNodeNameBytes <- 1,
    Base <- FirstObservation, Samples <- NewSamples, Writers <- NodeWriters, MaxSamples <- 2,
    writer <- writerName, page <- words, last <- lastKey

-----------------------------------------------------------------------------
\* Where the parts not under way stay.
ProbeAtRest == magic = Other /\ wminor = 0
LayoutAtRest == specs = <<>>
WaitAtRest == notifyEpoch = 0
Unobserved == o = {} /\ samples = 0 /\ writerName = {} /\ words = {} /\ published = {} /\ lastKey = {} /\ noticed = {}

MCInit ==
    /\ part \in {"probe", "layout", "wait", "observation"}
    /\ ProbeInit /\ (part # "probe" => ProbeAtRest)
    /\ LayoutInit /\ (part # "layout" => LayoutAtRest)
    /\ WaitInit /\ (part # "wait" => WaitAtRest)
    /\ IF part = "observation" THEN Observed!Init ELSE Unobserved

MCNext ==
    /\ UNCHANGED part
    /\ \/ part = "probe" /\ ProbeNext /\ UNCHANGED <<layoutvars, waitvars, observed>>
       \/ part = "layout" /\ Place /\ UNCHANGED <<probevars, waitvars, observed>>
       \/ part = "wait" /\ WaitNext /\ UNCHANGED <<probevars, layoutvars, observed>>
       \/ part = "observation" /\ Observed!Next /\ UNCHANGED <<probevars, layoutvars, waitvars>>

MCSpec == MCInit /\ [][MCNext]_<<part, probevars, layoutvars, waitvars, observed>>

-----------------------------------------------------------------------------
\* An observation that validate accepts is one the page can carry, and the page
\* reads back as the snapshot EncodePage was given, nil and zero apart.
PageCarriesTheObservation ==
    part = "observation" => Observed!ValidObservationFitsThePage /\ Observed!PageReadsAsTheSnapshot

\* A reader that copies the page only when notifyEpoch changes still has the
\* level, admit, the generation and every ladder as the page has them now.
NotifiedReaderIsCurrent == part = "observation" => Observed!NotifiedReaderIsCurrent
=============================================================================
