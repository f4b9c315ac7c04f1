---------------------------- MODULE BudgetReader ----------------------------
(***************************************************************************)
(* The page of module BudgetPage with its readers.  A reader belongs to an *)
(* SDK outside this repository; it is modelled from the contract the       *)
(* package documents (doc.go, "Reading the header") and from the readers   *)
(* its tests are written with (decodePage, seqlockRead and the waiter of   *)
(* TestPageWriterNotifyOrder).  Every load is a step.  A reader remembers  *)
(* notifyEpoch, checks the header, copies the body under the seqlock, and  *)
(* then sleeps until notifyEpoch differs from what it remembered.          *)
(***************************************************************************)
EXTENDS BudgetPage

CONSTANT Readers

VARIABLES
  rpc,      \* where each reader is
  rminor,   \* the minor it knows
  repoch,   \* the notifyEpoch it remembered
  rseq,     \* the seq it loaded before its copy
  copy,     \* the body words copied so far
  got,      \* the last read it accepted: [seq, image]
  floor     \* history: the newest committed seq when its read began

reader == <<rpc, rminor, repoch, rseq, copy, got, floor>>
allvars == <<vars, reader>>

RPCs == {"start", "magic", "ident", "size", "seq", "copy", "recheck", "wait"}

\* A reader that has read nothing yet.
Nothing == [seq |-> 0, image |-> <<>>]

KnownWords(r) == BodyWords[rminor[r]]

\* What a reader of n words keeps of a committed body.
Prefix(image, n) == [i \in 1..n |-> image[i]]

LatestCommitted == CHOOSE s \in {c.seq : c \in committed} :
                     \A c \in committed : c.seq <= s

ReaderTypeOK ==
  /\ TypeOK
  /\ rpc \in [Readers -> RPCs]
  /\ rminor \in [Readers -> Minors]
  /\ repoch \in [Readers -> Nat]
  /\ rseq \in [Readers -> Nat]
  /\ copy \in [Readers -> Seq(Int)]
  /\ got \in [Readers -> [seq : Nat, image : Seq(Int)]]
  /\ floor \in [Readers -> Nat]

InitReader ==
  /\ rpc = [r \in Readers |-> "start"]
  /\ rminor \in [Readers -> Minors]
  /\ repoch = [r \in Readers |-> 0]
  /\ rseq = [r \in Readers |-> 0]
  /\ copy = [r \in Readers |-> <<>>]
  /\ got = [r \in Readers |-> Nothing]
  /\ floor = [r \in Readers |-> 0]

-----------------------------------------------------------------------------
Goto(r, pc) == rpc' = [rpc EXCEPT ![r] = pc]

\* A read begins: remember notifyEpoch, before anything else is loaded.
LoadEpoch(r) ==
  /\ rpc[r] = "start"
  /\ repoch' = [repoch EXCEPT ![r] = epoch]
  /\ floor' = [floor EXCEPT ![r] = LatestCommitted]
  /\ Goto(r, "magic")
  /\ UNCHANGED <<vars, rminor, rseq, copy, got>>

\* The header checks, one word each, in ascending order.  A page that is not
\* this ABI is refused; a body shorter than the minor the reader knows is
\* "truncated", which the reader retries.
CheckMagic(r) ==
  /\ rpc[r] = "magic"
  /\ Goto(r, IF magic = PageMagic THEN "ident" ELSE "start")
  /\ UNCHANGED <<vars, rminor, repoch, rseq, copy, got, floor>>

CheckIdent(r) ==
  /\ rpc[r] = "ident"
  /\ Goto(r, IF ident.abi = PageABI THEN "size" ELSE "start")
  /\ UNCHANGED <<vars, rminor, repoch, rseq, copy, got, floor>>

CheckSize(r) ==
  /\ rpc[r] = "size"
  /\ Goto(r, IF size >= KnownWords(r) THEN "seq" ELSE "start")
  /\ UNCHANGED <<vars, rminor, repoch, rseq, copy, got, floor>>

\* The seqlock copy: load seq, then every known body word, then seq again.
LoadSeq(r) ==
  /\ rpc[r] = "seq"
  /\ seq % 2 = 0
  /\ rseq' = [rseq EXCEPT ![r] = seq]
  /\ copy' = [copy EXCEPT ![r] = <<>>]
  /\ Goto(r, "copy")
  /\ UNCHANGED <<vars, rminor, repoch, got, floor>>

CopyWord(r) ==
  /\ rpc[r] = "copy"
  /\ copy' = [copy EXCEPT ![r] = Append(@, body[Len(@) + 1])]
  /\ Goto(r, IF Len(copy[r]) + 1 = KnownWords(r) THEN "recheck" ELSE "copy")
  /\ UNCHANGED <<vars, rminor, repoch, rseq, got, floor>>

Accept_Unchecked(r) ==
  /\ rpc[r] = "recheck"
  /\ got' = [got EXCEPT ![r] = [seq |-> rseq[r], image |-> copy[r]]]
  /\ copy' = [copy EXCEPT ![r] = <<>>]
  /\ Goto(r, "wait")
  /\ UNCHANGED <<vars, rminor, repoch, rseq, floor>>

Accept(r) ==
  /\ rpc[r] = "recheck"
  /\ seq = rseq[r]
  /\ got' = [got EXCEPT ![r] = [seq |-> rseq[r], image |-> copy[r]]]
  /\ copy' = [copy EXCEPT ![r] = <<>>]
  /\ Goto(r, "wait")
  /\ UNCHANGED <<vars, rminor, repoch, rseq, floor>>

\* The seq moved: copy again, under the header already checked.
Retry(r) ==
  /\ rpc[r] = "recheck"
  /\ seq # rseq[r]
  /\ copy' = [copy EXCEPT ![r] = <<>>]
  /\ Goto(r, "seq")
  /\ UNCHANGED <<vars, rminor, repoch, rseq, got, floor>>

\* The retries ran out on an odd or moving seq: "torn", and a new read.
Torn(r) ==
  /\ \/ rpc[r] = "seq" /\ seq % 2 = 1
     \/ rpc[r] = "recheck" /\ seq # rseq[r]
  /\ copy' = [copy EXCEPT ![r] = <<>>]
  /\ Goto(r, "start")
  /\ UNCHANGED <<vars, rminor, repoch, rseq, got, floor>>

\* The reader slept on notifyEpoch until it differs from what it remembered.
Wake(r) ==
  /\ rpc[r] = "wait"
  /\ epoch # repoch[r]
  /\ Goto(r, "start")
  /\ UNCHANGED <<vars, rminor, repoch, rseq, copy, got, floor>>

ReaderStep(r) ==
  \/ LoadEpoch(r) \/ CheckMagic(r) \/ CheckIdent(r) \/ CheckSize(r)
  \/ LoadSeq(r) \/ CopyWord(r) \/ Accept(r) \/ Retry(r) \/ Torn(r)
  \/ Wake(r)

Next ==
  \/ WriterStep /\ UNCHANGED reader
  \/ \E r \in Readers : ReaderStep(r)

SystemInit == Init /\ InitReader

Spec == SystemInit /\ [][Next]_allvars

\* The writer runs to the end of what it began; a writer that died is
\* restarted and publishes once every writer period; a reader keeps loading.
Fairness ==
  /\ WF_allvars(WriterProgress /\ UNCHANGED reader)
  /\ \A r \in Readers : WF_allvars(ReaderStep(r))

FairSpec == Spec /\ Fairness

-----------------------------------------------------------------------------
\* The notify key a reader knows from an accepted image.
KeyOf(image) ==
  IF image = <<>> \/ image[1] <= 0 THEN NoKey ELSE log[image[1]].key

\* An accepted read is the body as it stood at one even store of seq, cut to
\* the words the reader knows: never half of one publication and half of the
\* next, whatever the writers did, or died doing, during the copy.
AcceptedIsCommitted ==
  \A r \in Readers : got[r] # Nothing =>
    \E c \in committed : /\ c.seq = got[r].seq
                         /\ got[r].image = Prefix(c.image, KnownWords(r))

\* In an accepted read every word the publishing minor has, and the reader
\* knows, is of the publication the body begins with.
AcceptedWhole ==
  \A r \in Readers : got[r] # Nothing =>
    \A i \in Covered(got[r].image) \cap 1..KnownWords(r) :
      got[r].image[i] = got[r].image[1]

\* The seqlock holds: the body is whole whenever seq is even, and a copy that
\* found the same even seq before and after is a committed body, none of whose
\* words is of another publication.
SeqlockHolds == EvenBodyWhole /\ AcceptedIsCommitted /\ AcceptedWhole

\* No reader sleeps through a change of key: while a reader sleeps and the
\* writer has finished a publication since its Resume, the key the reader
\* knows is the key published last.
NoLostWakeup ==
  wpc = "idle" /\ last # NoKey =>
    \A r \in Readers :
      rpc[r] = "wait" /\ repoch[r] = epoch => KeyOf(got[r].image) = last

\* The page is a register its writers replace whole: a read delivers a body
\* that was committed, none older than the newest when the read began, and
\* never one older than the reader had before.
Register ==
  INSTANCE PageRegister WITH
    held <- committed, known <- [r \in Readers |-> KnownWords(r)]
ImplementsRegister == Register!RegSpec

\* Every stable read is one of the published pages, never a mix: all the
\* words the reader knows are of one publication.  (Before the first
\* publication the body is no publication's; readers find it stale.)
AcceptedIsPublished ==
  \A r \in Readers : LET image == got[r].image IN
    image # <<>> /\ image[1] > 0 =>
      \A i \in 1..KnownWords(r) : image[i] = image[1]

\* A waiting reader the page's minor can serve comes to know the key the
\* page ends up with, also when a writer died after making it readable and
\* before notifyEpoch.
ReadersConverge ==
  <>[](\A r \in Readers :
         rminor[r] <= wminor => KeyOf(got[r].image) = KeyOf(body))

=============================================================================
