----------------------------- MODULE BudgetPage -----------------------------
(***************************************************************************)
(* The node budget page: a memory-mapped file that one writer at a time    *)
(* updates with 8-byte atomic stores while readers in other processes load *)
(* it (budget/v1alpha1/page.go).  This module is the page and its writer.  *)
(* Every store the writer makes to a word somebody reads is a step of its  *)
(* own, and the writer may die between any two of them; the next writer,   *)
(* perhaps built from another ABI minor, takes the same page over.         *)
(*                                                                         *)
(* Abstractions.  A body word holds the number of the publication that     *)
(* stored it (0: the zero bytes of a new file), so two words are equal     *)
(* exactly when one Publish stored both.  Of a snapshot only the notify    *)
(* key is kept: what notifyKeyOf compares.  Word 8 of the header           *)
(* (abiMajor, abiMinor, headerSize: one word, one store) is "ident", word  *)
(* 16 (bodySize) is "size" and counts words.  The reserved header words,   *)
(* which nobody reads and Resume stores first, are left out.               *)
(***************************************************************************)
EXTENDS Integers, Sequences

CONSTANTS
  Minors,      \* the ABI minors a writer or a reader may be built from
  BodyWords,   \* BodyWords[m]: words in the body of minor m
  Keys,        \* the notify keys of the snapshots published
  NoKey,       \* hasLast = false: no publication since Resume
  MaxRestarts, \* bound: writers that die
  MaxPublishes \* bound: publications of one writer

ASSUME MinorsAssumption ==
  /\ Minors \subseteq Nat
  /\ Minors # {}
ASSUME BodyWordsAssumption ==
  /\ BodyWords \in [Minors -> Nat \ {0}]
  /\ \A m, n \in Minors : m < n => BodyWords[m] <= BodyWords[n]
ASSUME KeysAssumption == NoKey \notin Keys
ASSUME BoundsAssumption == MaxRestarts \in Nat /\ MaxPublishes \in Nat

VARIABLES
  magic,     \* word 0: PageMagic or other bytes
  ident,     \* word 8: [abi: abiMajor and headerSize, minor: abiMinor]
  size,      \* word 16: bodySize
  seq,       \* the seqlock word
  epoch,     \* notifyEpoch
  body,      \* the body words
  wpc,       \* where the writer is
  wminor,    \* the minor the writer is built from
  wseq,      \* PageWriter.seq
  wepoch,    \* PageWriter.epoch
  order,     \* Resume's local: the order of its header stores
  off,       \* index of the next word to store
  key,       \* key of the snapshot being published
  last,      \* PageWriter.last, NoKey when hasLast is false
  restarts,  \* bound counter
  pubs,      \* bound counter
  log,       \* history: the publications begun, in order
  committed  \* history: the body at every even store of seq

page == <<magic, ident, size, seq, epoch, body>>
writer == <<wpc, wminor, wseq, wepoch, order, off, key, last>>
bounds == <<restarts, pubs>>
history == <<log, committed>>
vars == <<page, writer, bounds, history>>

\* The words of the file a minor may store its body in.
Words == UNION {1..BodyWords[m] : m \in Minors}

\* The bytes of word 0 and the abiMajor and headerSize of word 8: this
\* ABI's, or any other.
PageMagic == "K3SMBDGT"
PageABI == "abi1"
Other == "other"

\* Resume's two store orders.  The word that keeps bodySize at least the body
\* of abiMinor goes first, the magic last.
GrowOrder == <<"size", "ident", "magic">>
ShrinkOrder == <<"ident", "size", "magic">>

PCs == {"down", "new", "header", "idle", "body", "even", "epoch"}

TypeOK ==
  /\ magic \in {PageMagic, Other}
  /\ ident \in [abi : {PageABI, Other}, minor : Minors \cup {0}]
  /\ size \in Nat
  /\ seq \in Nat
  /\ epoch \in Nat
  /\ body \in [Words -> Int]
  /\ wpc \in PCs
  /\ wminor \in Minors
  /\ wseq \in Nat
  /\ wepoch \in Nat
  /\ order \in {GrowOrder, ShrinkOrder}
  /\ off \in Nat
  /\ key \in Keys \cup {NoKey}
  /\ last \in Keys \cup {NoKey}
  /\ restarts \in 0..MaxRestarts
  /\ pubs \in 0..MaxPublishes
  /\ log \in Seq([key : Keys, minor : Minors])
  /\ committed \subseteq [seq : Nat, image : [Words -> Int]]

-----------------------------------------------------------------------------
\* A word some other program, or another major, left in the body.
Foreign == -1

InitWriter ==
  /\ wpc = "down"
  /\ wminor \in Minors
  /\ wseq = 0 /\ wepoch = 0 /\ off = 0
  /\ order = GrowOrder
  /\ key = NoKey /\ last = NoKey
  /\ restarts = 0 /\ pubs = 0
  /\ log = <<>>
  /\ committed = {[seq |-> seq, image |-> body]}

\* A page file just created: zero bytes.
Init ==
  /\ magic = Other
  /\ ident = [abi |-> Other, minor |-> 0]
  /\ size = 0 /\ seq = 0 /\ epoch = 0
  /\ body = [i \in Words |-> 0]
  /\ InitWriter

\* A page whose magic stands but whose abiMajor or headerSize is another's:
\* its bodySize, seq, notifyEpoch and body are what that writer left.
InitForeign ==
  /\ magic = PageMagic
  /\ ident = [abi |-> Other, minor |-> 0]
  /\ size \in {0} \cup {BodyWords[m] : m \in Minors}
  /\ seq \in {0, 1, 2} /\ epoch \in {0, 1}
  /\ body = [i \in Words |-> Foreign]
  /\ InitWriter

-----------------------------------------------------------------------------
\* What Resume and every reader test: PageMagic, abiMajor and headerSize.
Recognised == magic = PageMagic /\ ident.abi = PageABI

\* What Resume continues from: the page's seq, rounded up to even, and its
\* notifyEpoch, when the old header is of this ABI; otherwise 0.
AdoptedSeq_KeepsOdd == IF Recognised THEN seq ELSE 0
AdoptedSeq == IF Recognised THEN seq + (seq % 2) ELSE 0

AdoptedEpoch_StartsOver == 0
AdoptedEpoch == IF Recognised THEN epoch ELSE 0

\* The order Resume chooses: abiMinor first when the body shrinks.
StoreOrder_AlwaysGrows == GrowOrder
StoreOrder == IF Recognised /\ size > BodyWords[wminor] THEN ShrinkOrder ELSE GrowOrder

\* PageNotifyDue: the first publication after Resume, or a changed key.
Due_FirstIsNot(prev, k) == prev # NoKey /\ prev # k
Due(prev, k) == prev = NoKey \/ prev # k

\* NewPageWriter, by a process built from minor m that holds the writer lock.
NewPageWriter(m) ==
  /\ wpc = "down"
  /\ wpc' = "new"
  /\ wminor' = m
  /\ UNCHANGED <<page, wseq, wepoch, order, off, key, last, bounds, history>>

\* Resume up to its first store: read the old header, and continue its seq
\* and notifyEpoch when it is of this ABI.  The page keeps an odd seq.  A
\* second Resume of one writer leaves what Crash and NewPageWriter and Resume
\* of the same minor leave, and is not a step of its own.
Resume ==
  /\ wpc = "new"
  /\ wseq' = AdoptedSeq
  /\ wepoch' = AdoptedEpoch
  /\ order' = StoreOrder
  /\ off' = 1
  /\ wpc' = "header"
  /\ UNCHANGED <<page, wminor, key, last, bounds, history>>

\* Word 8 as encodeHeader builds it.
IdentWord_WrongField == [abi |-> PageABI, minor |-> BodyWords[wminor]]
IdentWord == [abi |-> PageABI, minor |-> wminor]

\* The header zeroed before it is rewritten.
StoreHeader_ZeroesFirst ==
  /\ wpc = "header"
  /\ LET w == <<"noident", "nosize", "size", "ident", "magic">>[off] IN
       /\ magic' = IF w = "magic" THEN PageMagic ELSE magic
       /\ ident' = CASE w = "noident" -> [abi |-> Other, minor |-> 0]
                     [] w = "ident" -> IdentWord
                     [] OTHER -> ident
       /\ size' = CASE w = "nosize" -> 0
                    [] w = "size" -> BodyWords[wminor]
                    [] OTHER -> size
  /\ off' = off + 1
  /\ wpc' = IF off = 5 THEN "idle" ELSE "header"
  /\ last' = IF off = 5 THEN NoKey ELSE last
  /\ UNCHANGED <<seq, epoch, body, wminor, wseq, wepoch, order, key, bounds, history>>

\* One header store of Resume; after the last one the writer is resumed.
StoreHeader ==
  /\ wpc = "header"
  /\ LET w == order[off] IN
       /\ magic' = IF w = "magic" THEN PageMagic ELSE magic
       /\ ident' = IF w = "ident" THEN IdentWord ELSE ident
       /\ size' = IF w = "size" THEN BodyWords[wminor] ELSE size
  /\ off' = off + 1
  /\ wpc' = IF off = 3 THEN "idle" ELSE "header"
  /\ last' = IF off = 3 THEN NoKey ELSE last
  /\ UNCHANGED <<seq, epoch, body, wminor, wseq, wepoch, order, key, bounds, history>>

\* Publish returns an error before any store: the writer is not resumed, or
\* EncodePage refuses the snapshot.
PublishRefused ==
  /\ wpc \in {"new", "idle"}
  /\ UNCHANGED vars

\* Publish of a snapshot with key k, up to the store of the odd seq.
Publish(k) ==
  /\ wpc = "idle"
  /\ pubs < MaxPublishes
  /\ seq' = wseq + 1
  /\ key' = k
  /\ off' = 1
  /\ log' = Append(log, [key |-> k, minor |-> wminor])
  /\ pubs' = pubs + 1
  /\ wpc' = "body"
  /\ UNCHANGED <<magic, ident, size, epoch, body, wminor, wseq, wepoch, order,
                 last, restarts, committed>>

\* Publish stores one body word.
StoreBody ==
  /\ wpc = "body"
  /\ body' = [body EXCEPT ![off] = Len(log)]
  /\ off' = off + 1
  /\ wpc' = IF off = BodyWords[wminor] THEN "even" ELSE "body"
  /\ UNCHANGED <<magic, ident, size, seq, epoch, wminor, wseq, wepoch, order,
                 key, last, bounds, history>>

\* notifyEpoch stored before the even seq.
StoreEven_NotifiesFirst ==
  /\ wpc = "even"
  /\ IF Due(last, key)
     THEN /\ wepoch' = wepoch + 1 /\ epoch' = wepoch + 1
          /\ last' = key
          /\ UNCHANGED <<wpc, wseq, seq, committed>>
     ELSE /\ wseq' = wseq + 2 /\ seq' = wseq + 2
          /\ committed' = committed \cup {[seq |-> wseq + 2, image |-> body]}
          /\ wpc' = "idle"
          /\ UNCHANGED <<wepoch, epoch, last>>
  /\ UNCHANGED <<magic, ident, size, body, wminor, order, off, key, bounds, log>>

\* Publish stores the even seq, and is done unless a notification is due.
StoreEven ==
  /\ wpc = "even"
  /\ wseq' = wseq + 2
  /\ seq' = wseq + 2
  /\ committed' = committed \cup {[seq |-> wseq + 2, image |-> body]}
  /\ \/ /\ Due(last, key)
        /\ wpc' = "epoch"
        /\ last' = last
     \/ /\ ~Due(last, key)
        /\ wpc' = "idle"
        /\ last' = key
  /\ UNCHANGED <<magic, ident, size, epoch, body, wminor, wepoch, order, off,
                 key, bounds, log>>

\* Publish stores notifyEpoch + 1.
StoreEpoch ==
  /\ wpc = "epoch"
  /\ wepoch' = wepoch + 1
  /\ epoch' = wepoch + 1
  /\ last' = key
  /\ wpc' = "idle"
  /\ UNCHANGED <<magic, ident, size, seq, body, wminor, wseq, order, off, key,
                 bounds, history>>

\* The writing process dies, between any two stores, and its memory is gone.
Crash ==
  /\ wpc # "down"
  /\ restarts < MaxRestarts
  /\ restarts' = restarts + 1
  /\ wpc' = "down"
  /\ wseq' = 0 /\ wepoch' = 0 /\ off' = 0
  /\ order' = GrowOrder
  /\ key' = NoKey /\ last' = NoKey
  /\ pubs' = 0
  /\ UNCHANGED <<page, wminor, history>>

\* What a writer does of its own accord, and what may befall it.
WriterProgress ==
  \/ \E m \in Minors : NewPageWriter(m)
  \/ Resume
  \/ StoreHeader
  \/ \E k \in Keys : Publish(k)
  \/ StoreBody
  \/ StoreEven
  \/ StoreEpoch

WriterStep == WriterProgress \/ PublishRefused \/ Crash

PageSpec == (Init \/ InitForeign) /\ [][WriterStep]_vars

-----------------------------------------------------------------------------
\* The publication a body image begins with, and the words that one covers.
Covered(image) == IF image[1] <= 0 THEN {} ELSE 1..BodyWords[log[image[1]].minor]

\* "A header is valid when its bodySize is at least the body size of its
\* abiMinor", and Resume's store order keeps every header the page holds
\* between two of its stores valid: whatever minor takes the page over,
\* wherever the writers before it died.
RecognisedHeaderValid ==
  Recognised => ident.minor \in Minors /\ size >= BodyWords[ident.minor]

\* The seqlock word is odd whenever the body is a mix: while seq is even,
\* every word of the publication the body begins with is that publication's.
\* A writer that died mid-write leaves the page odd, and a Resume over it
\* does not make it even before the body is rewritten.
EvenBodyWhole ==
  seq % 2 = 0 => \A i \in Covered(body) : body[i] = body[1]

\* seq never goes back and never repeats a value, across deaths and
\* takeovers: otherwise a reader could find the seq it started from over
\* another body.
SeqAdvances == [][seq' # seq => seq' > seq]_vars

\* notifyEpoch moves only after the publication that bumps it is whole on
\* the page under an even seq, and by one.
EpochAfterEven ==
  [][epoch' # epoch =>
       /\ epoch' = epoch + 1
       /\ seq % 2 = 0
       /\ body[1] = Len(log)
       /\ \A i \in Covered(body) : body[i] = body[1]]_vars

\* The stores of Publish and Resume order what a reader may see: seq never
\* repeats, and notifyEpoch is bumped behind a whole publication.
StoresInOrder == SeqAdvances /\ EpochAfterEven

=============================================================================
