------------------------------ MODULE PageTable ------------------------------
(***************************************************************************)
(* The budget page's own field table (page.go, pageFieldSpecs), laid out   *)
(* by the loop of PageLayout, against what the writer and the readers take *)
(* for granted: the published offsets, a body made of whole words, and     *)
(* header fields that change in separate stores.                           *)
(***************************************************************************)
EXTENDS PageLayout, SequencesExt

PageSize == 4096
PageBodyLimit == 3072
PageSeqOffset == 64
PageNotifyEpochOffset == 128
PageHeaderSize == 192
MaxPageSignals == 8
MaxPageCounters == 3
PageNodeNameBytes == 256

F(name, kind, size, align) == [name |-> name, kind |-> kind, size |-> size, align |-> align]
I64(names) == [i \in 1..Len(names) |-> F(names[i], "i64", 8, 0)]
Code(name) == <<F(name, "u64", 8, 0)>>

header ==
    <<F("magic", "bytes", 8, 0), F("abiMajor", "u16", 2, 0), F("abiMinor", "u16", 2, 0), F("headerSize", "u32", 4, 0),
      F("bodySize", "u32", 4, 0)>>

syncWords == <<F("seq", "u64", 8, 64), F("notifyEpoch", "u64", 8, 64)>>

identity ==
    <<F("generation", "i64", 8, 64)>> \o I64(<<"writerPeriodSeconds", "observedAt">>) \o Code("platform")
      \o <<F("nodeNameLen", "u64", 8, 0), F("nodeName", "bytes", PageNodeNameBytes, 0)>>

capacity ==
    I64(<<"cpuCapacityMilli", "cpuSystemReserveMilli", "memCapacityBytes", "memSystemReserveBytes",
          "memEvictionReserveBytes", "memAllocatableBytes", "swapTotalBytes", "swapUsedBytes">>)

darwin ==
    I64(<<"vmPressureLevel", "memorystatusLevelPermille", "compressor.bytesUsed", "compressor.bytesStored",
          "compressor.segmentLimitBytes", "swapinsTotal", "swapoutsTotal">>)

(* Three resources, two lines each, three values a line; then the events. *)
linux ==
    FlattenSeq([r \in 1..3 |-> FlattenSeq([l \in 1..2 |-> I64(<<"avg10Permille", "avg60Permille", "totalUs">>)])])
      \o I64(<<"high", "max", "oom", "oomKill">>)

signalSlot ==
    Code("id") \o Code("unit")
      \o I64(<<"value", "warnThreshold", "admitStopThreshold", "criticalThreshold", "evictSoftThreshold",
               "evictHardThreshold", "warnRelease", "admitStopRelease", "criticalRelease", "evictSoftRelease",
               "evictHardRelease", "graceSeconds", "minReclaimBytes", "windowSeconds", "etaToNextRungSeconds">>)
      \o Code("trend") \o Code("limitingResource") \o Code("sharedWith")

action ==
    Code("admit") \o Code("admitReasonSignal") \o I64(<<"evictDeadline">>) \o Code("killMode.mode")
      \o Code("killMode.armed") \o I64(<<"killMode.armingEpisodes">>) \o Code("killMode.reason")

recommendation == I64(<<"safeAdditionalBytes">>) \o Code("basis")

counterSlot ==
    Code("band") \o I64(<<"evictionsTotal", "oomKillsTotal", "kernelKillsTotal", "restartsTotal",
                          "memHighEventsTotal", "tier1RefusedTotal">>)

(* The appended fields with a presence flag of two bytes. *)
minor1_Narrow ==
    I64(<<"cpuPerformanceCores", "cpuEfficiencyCores", "gpuCount">>) \o <<F("gpuPresent", "u16", 2, 0)>>

(* Minor 1, appended. *)
minor1 == I64(<<"cpuPerformanceCores", "cpuEfficiencyCores", "gpuPresent", "gpuCount">>)

pageFieldSpecs ==
    header \o syncWords \o identity \o capacity \o Code("level") \o darwin \o linux
      \o FlattenSeq([i \in 1..MaxPageSignals |-> signalSlot])
      \o action \o recommendation
      \o FlattenSeq([i \in 1..MaxPageCounters |-> counterSlot])
      \o minor1

ThePageTable == {pageFieldSpecs}

-----------------------------------------------------------------------------
(* The page's table is laid out. *)
Done == offsets # <<>> /\ Len(offsets) = Len(specs) /\ specs = pageFieldSpecs
pageOffset(name) == offsets[CHOOSE i \in 1..Len(specs) : specs[i].name = name]
Word(name) == pageOffset(name) \div 8

(* The published constants are the layout's: seq and notifyEpoch each alone  *)
(* on a 64-byte line, the body after them, and room left for later minors    *)
(* (PageSeqOffset, PageNotifyEpochOffset, PageHeaderSize, PageBodyLimit).    *)
PublishedOffsetsHold ==
    Done => /\ pageOffset("seq") = PageSeqOffset /\ pageOffset("notifyEpoch") = PageNotifyEpochOffset
            /\ pageOffset("generation") = PageHeaderSize
            /\ \A name \in {"seq", "notifyEpoch"} : \A i \in 1..Len(specs) :
                  specs[i].name # name => offsets[i] \div 64 # pageOffset(name) \div 64
            /\ end - PageHeaderSize <= PageBodyLimit /\ end <= PageSize

(* The writer's loop over the body, eight bytes a store from the header to   *)
(* the last field, stores every byte of every field and nothing past the     *)
(* last one; no word holds parts of two fields (Publish).                    *)
BodyIsWholeWords ==
    Done => \A i \in 1..Len(specs) :
               offsets[i] >= PageHeaderSize => offsets[i] % 8 = 0 /\ specs[i].size % 8 = 0 /\ end % 8 = 0

(* The magic, the version and the body size change in stores of their own:   *)
(* what Resume's store order rests on (Resume).                              *)
HeaderWordsAreApart ==
    Done => /\ Word("abiMinor") # Word("bodySize")
            /\ \A i \in 1..Len(specs) : specs[i].name # "magic" => offsets[i] \div 8 # Word("magic")
            /\ Word("abiMajor") = Word("abiMinor") /\ Word("abiMinor") = Word("headerSize")

(* The page's own table serves the stores of Publish and Resume: published   *)
(* offsets, whole words and header words apart (pageFieldSpecs).             *)
TableServesTheStores == PublishedOffsetsHold /\ BodyIsWholeWords /\ HeaderWordsAreApart
=============================================================================
