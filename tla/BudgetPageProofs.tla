-------------------------- MODULE BudgetPageProofs --------------------------
(***************************************************************************)
(* Proofs about the page and its writers (module BudgetPage), for every    *)
(* set of minors, every body size and every number of restarts.            *)
(***************************************************************************)
EXTENDS BudgetPage, SeqFacts

-----------------------------------------------------------------------------
\* Where Resume is in its header stores, and what the header is then.
HeaderInv ==
  /\ RecognisedHeaderValid
  /\ wpc = "header" =>
       /\ off \in 1..3
       /\ off = 1 => (order = ShrinkOrder <=> Recognised /\ size > BodyWords[wminor])
       /\ off = 2 /\ order = ShrinkOrder => /\ ident = [abi |-> PageABI, minor |-> wminor]
                                /\ size > BodyWords[wminor]
       /\ off = 2 /\ order = GrowOrder => size = BodyWords[wminor]
       /\ off = 3 => /\ ident = [abi |-> PageABI, minor |-> wminor]
                     /\ size = BodyWords[wminor]
  /\ wpc \in {"idle", "body", "even", "epoch"} =>
       /\ magic = PageMagic
       /\ ident = [abi |-> PageABI, minor |-> wminor]
       /\ size = BodyWords[wminor]

\* How the writer's seq and notifyEpoch stand to the page's.
SeqInv ==
  /\ ~Recognised => seq = 0 /\ epoch = 0
  /\ wpc \in {"header", "idle"} => wseq = seq + (seq % 2)
  /\ wpc \in {"body", "even"} => seq = wseq + 1 /\ wseq % 2 = 0
  /\ wpc = "epoch" => wseq = seq /\ seq % 2 = 0
  /\ wpc \in {"header", "idle", "body", "even", "epoch"} => wepoch = epoch

\* What the body holds: numbers of publications begun, and, while the page
\* is even, one whole publication at its front.
BodyInv ==
  /\ body \in [Words -> 0..Len(log)]
  /\ wpc = "body" => off \in 1..BodyWords[wminor]
  /\ wpc = "even" => off = BodyWords[wminor] + 1
  /\ wpc \in {"body", "even"} =>
       /\ Len(log) > 0
       /\ log[Len(log)] = [key |-> key, minor |-> wminor]
       /\ \A i \in 1..(off - 1) : body[i] = Len(log)
  /\ EvenBodyWhole

\* The history of committed bodies.
CommittedInv ==
  /\ \A c \in committed : c.seq <= seq
  /\ \E c \in committed : \A d \in committed : d.seq <= c.seq
  /\ seq % 2 = 0 => [seq |-> seq, image |-> body] \in committed

\* What the writer last published, and what of it is on the page.
KeyInv ==
  /\ wpc \in {"down", "new", "header"} => last = NoKey
  /\ wpc \in {"body", "even", "epoch"} => key \in Keys
  /\ wpc = "idle" /\ last # NoKey =>
       seq % 2 = 0 /\ body[1] > 0 /\ log[body[1]].key = last
  /\ wpc = "epoch" => body[1] > 0 /\ body[1] = Len(log) /\ log[body[1]].key = key

\* Every committed body holds publications begun, and the one at its front
\* is whole.
ImagesInv ==
  \A c \in committed :
    /\ c.image \in [Words -> 0..Len(log)]
    /\ \A i \in Covered(c.image) : c.image[i] = c.image[1]

PageInv ==
  /\ TypeOK /\ HeaderInv /\ SeqInv /\ BodyInv /\ CommittedInv /\ KeyInv /\ ImagesInv

\* A stored word stays a word.
LEMMA StoreWord ==
  ASSUME NEW W, NEW S, NEW f \in [W -> S], NEW i, NEW v \in S
  PROVE  [f EXCEPT ![i] = v] \in [W -> S]
BY Zenon

USE MinorsAssumption, BodyWordsAssumption, KeysAssumption, BoundsAssumption
    DEF PageMagic, PageABI, Other

-----------------------------------------------------------------------------
\* Every body has a first word, and the words of a minor are words of the file.
LEMMA WordsFacts ==
  /\ Words \subseteq Nat \ {0}
  /\ 1 \in Words
  /\ \A m \in Minors : 1..BodyWords[m] \subseteq Words
<1>1. \A m \in Minors : 1..BodyWords[m] \subseteq Words
  BY DEF Words
<1>2. 1 \in Words
  <2>1. PICK m \in Minors : TRUE
    BY Zenon
  <2>2. 1 \in 1..BodyWords[m]
    OBVIOUS
  <2> QED
    BY <1>1, <2>1, <2>2
<1>3. Words \subseteq Nat \ {0}
  BY DEF Words
<1> QED
  BY <1>1, <1>2, <1>3

LEMMA OrdersDiffer == GrowOrder # ShrinkOrder
<1>1. GrowOrder[1] = "size" /\ ShrinkOrder[1] = "ident"
  BY DEF GrowOrder, ShrinkOrder
<1> QED
  BY <1>1

LEMMA TypeInit == Init \/ InitForeign => TypeOK
<1> SUFFICES ASSUME Init \/ InitForeign
             PROVE  TypeOK
  OBVIOUS
<1>1. body \in [Words -> Int] /\ seq \in Nat
  BY DEF Init, InitForeign, Foreign
<1>2. committed \subseteq [seq : Nat, image : [Words -> Int]]
  BY <1>1 DEF Init, InitForeign, InitWriter
<1>3. size \in Nat /\ epoch \in Nat
  BY DEF Init, InitForeign
<1>4. log \in Seq([key : Keys, minor : Minors])
  BY EmptyFacts, Zenon DEF Init, InitForeign, InitWriter
<1>5. magic \in {PageMagic, Other} /\ order = GrowOrder
  BY DEF Init, InitForeign, InitWriter
<1>6. ident \in [abi : {PageABI, Other}, minor : Minors \cup {0}]
  BY DEF Init, InitForeign
<1>7. /\ wpc = "down" /\ wminor \in Minors /\ wseq = 0 /\ wepoch = 0 /\ off = 0
      /\ key = NoKey /\ last = NoKey /\ restarts = 0 /\ pubs = 0
  BY DEF Init, InitForeign, InitWriter
<1> QED
  BY <1>1, <1>2, <1>3, <1>4, <1>5, <1>6, <1>7 DEF TypeOK, PCs

\* Every writer step keeps every variable in its type.
LEMMA TypeStep == TypeOK /\ [WriterStep]_vars => TypeOK'
<1> SUFFICES ASSUME TypeOK, [WriterStep]_vars
             PROVE  TypeOK'
  OBVIOUS
<1> USE DEF TypeOK, PCs
<1>1. ASSUME NEW m \in Minors, NewPageWriter(m)
      PROVE  TypeOK'
  BY <1>1 DEF NewPageWriter, page, bounds, history
<1>2. CASE Resume
  BY <1>2 DEF Resume, AdoptedSeq, AdoptedEpoch, StoreOrder, page, bounds, history
<1>3. CASE StoreHeader
  <2>1. magic' \in {PageMagic, Other}
    BY <1>3 DEF StoreHeader, IdentWord
  <2>2. ident' \in [abi : {PageABI, Other}, minor : Minors \cup {0}]
    BY <1>3 DEF StoreHeader, IdentWord
  <2>3. size' \in Nat
    BY <1>3 DEF StoreHeader, IdentWord
  <2> QED
    BY <1>3, <2>1, <2>2, <2>3 DEF StoreHeader, IdentWord, bounds, history
<1>4. ASSUME NEW k \in Keys, Publish(k)
      PROVE  TypeOK'
  BY <1>4 DEF Publish
<1>5. CASE StoreBody
  <2>1. Len(log) \in Nat
    BY LenFacts
  <2>3. body' \in [Words -> Int]
    <3>1. body' = [body EXCEPT ![off] = Len(log)]
      BY <1>5 DEF StoreBody
    <3> HIDE DEF TypeOK
    <3>2. body \in [Words -> Int]
      BY DEF TypeOK
    <3> QED
      BY <2>1, <3>1, <3>2, StoreWord
  <2>4. off' \in Nat /\ wpc' \in PCs
    BY <1>5 DEF StoreBody
  <2>2. UNCHANGED <<magic, ident, size, seq, epoch, wminor, wseq, wepoch, order,
                    key, last, restarts, pubs, log, committed>>
    BY <1>5 DEF StoreBody, bounds, history
  <2> QED
    BY <2>2, <2>3, <2>4
<1>6. CASE StoreEven
  BY <1>6 DEF StoreEven, bounds
<1>7. CASE StoreEpoch
  BY <1>7 DEF StoreEpoch, bounds, history
<1>8. CASE Crash
  <2>1. order' = GrowOrder /\ magic' \in {PageMagic, Other}
    BY <1>8 DEF Crash, page
  <2>2. restarts' \in 0..MaxRestarts /\ pubs' \in 0..MaxPublishes
    BY <1>8 DEF Crash
  <2>3. /\ wpc' = "down" /\ wseq' = 0 /\ wepoch' = 0 /\ off' = 0
        /\ key' = NoKey /\ last' = NoKey
        /\ ident' = ident /\ size' = size /\ seq' = seq /\ epoch' = epoch
        /\ body' = body /\ wminor' = wminor /\ log' = log /\ committed' = committed
    BY <1>8 DEF Crash, page, history
  <2> QED
    BY <2>1, <2>2, <2>3
<1>9. CASE PublishRefused \/ UNCHANGED vars
  <2>1. UNCHANGED vars
    BY <1>9 DEF PublishRefused
  <2>2. UNCHANGED <<page, writer, bounds, history>>
    BY <2>1 DEF vars
  <2>3. UNCHANGED <<magic, ident, size, seq, epoch, body>>
    BY <2>2 DEF page
  <2>4. UNCHANGED <<wpc, wminor, wseq, wepoch, order, off, key, last>>
    BY <2>2 DEF writer
  <2>5. UNCHANGED <<restarts, pubs, log, committed>>
    BY <2>2 DEF bounds, history
  <2> QED
    BY <2>3, <2>4, <2>5
<1> QED
  BY <1>1, <1>2, <1>3, <1>4, <1>5, <1>6, <1>7, <1>8, <1>9, Zenon
     DEF WriterStep, WriterProgress

-----------------------------------------------------------------------------
LEMMA HeaderInit == Init \/ InitForeign => HeaderInv
  BY DEF Init, InitForeign, InitWriter, HeaderInv, RecognisedHeaderValid, Recognised

\* Every writer step keeps the header valid.  Resume needs the two cases of
\* its store order: storing bodySize first is safe when the body grows or
\* stays, storing abiMinor first when it order.
LEMMA HeaderStep == TypeOK /\ HeaderInv /\ [WriterStep]_vars => HeaderInv'
<1> SUFFICES ASSUME TypeOK, HeaderInv, [WriterStep]_vars
             PROVE  HeaderInv'
  OBVIOUS
<1> USE DEF HeaderInv, RecognisedHeaderValid, Recognised
<1>1. ASSUME NEW m \in Minors, NewPageWriter(m)
      PROVE  HeaderInv'
  BY <1>1 DEF NewPageWriter, page
<1>2. CASE Resume
  BY <1>2, OrdersDiffer DEF Resume, AdoptedSeq, AdoptedEpoch, StoreOrder, page, TypeOK
<1>3. CASE StoreHeader
  <2>1. off \in 1..3 /\ wminor \in Minors /\ BodyWords[wminor] \in Nat
    BY <1>3 DEF StoreHeader, IdentWord, TypeOK
  <2>2. CASE off = 1 /\ order = ShrinkOrder
    <3>1. ident' = [abi |-> PageABI, minor |-> wminor] /\ size' = size /\ magic' = magic
      BY <1>3, <2>2 DEF StoreHeader, IdentWord, GrowOrder, ShrinkOrder
    <3>2. off' = 2 /\ wpc' = "header" /\ order' = order /\ wminor' = wminor
      BY <1>3, <2>2 DEF StoreHeader, IdentWord
    <3>3. size > BodyWords[wminor] /\ size \in Nat
      BY <1>3, <2>2 DEF StoreHeader, IdentWord, TypeOK
    <3> QED
      BY <2>1, <2>2, <3>1, <3>2, <3>3, OrdersDiffer
  <2>3. CASE off = 1 /\ order = GrowOrder
    <3>1. ident' = ident /\ size' = BodyWords[wminor] /\ magic' = magic
      BY <1>3, <2>3 DEF StoreHeader, IdentWord, GrowOrder, ShrinkOrder
    <3>2. off' = 2 /\ wpc' = "header" /\ order' = order /\ wminor' = wminor
      BY <1>3, <2>3 DEF StoreHeader, IdentWord
    <3>3. Recognised => size <= BodyWords[wminor]
      BY <1>3, <2>1, <2>3, OrdersDiffer DEF StoreHeader, IdentWord, TypeOK
    <3>4. ASSUME Recognised'
          PROVE  ident'.minor \in Minors /\ size' >= BodyWords[ident'.minor]
      <4>1. Recognised
        BY <3>1, <3>4
      <4>2. ident.minor \in Minors /\ size >= BodyWords[ident.minor]
        BY <4>1
      <4>3. BodyWords[ident.minor] \in Nat /\ size \in Nat
        BY <4>2, Zenon DEF TypeOK
      <4> QED
        BY <2>1, <3>1, <3>3, <4>1, <4>2, <4>3
    <3> QED
      BY <2>1, <2>3, <3>1, <3>2, <3>4, OrdersDiffer
  <2>4. CASE off = 2
    <3>1. /\ ident' = [abi |-> PageABI, minor |-> wminor]
          /\ size' = BodyWords[wminor]
          /\ magic' = magic
      BY <1>3, <2>4 DEF StoreHeader, IdentWord, GrowOrder, ShrinkOrder, TypeOK
    <3>2. off' = 3 /\ wpc' = "header" /\ order' = order /\ wminor' = wminor
      BY <1>3, <2>4 DEF StoreHeader, IdentWord
    <3> QED
      BY <2>1, <3>1, <3>2
  <2>5. CASE off = 3
    <3>1. /\ ident' = [abi |-> PageABI, minor |-> wminor]
          /\ size' = BodyWords[wminor]
          /\ magic' = PageMagic
      BY <1>3, <2>5 DEF StoreHeader, IdentWord, GrowOrder, ShrinkOrder, TypeOK
    <3>2. wpc' = "idle" /\ wminor' = wminor
      BY <1>3, <2>5 DEF StoreHeader, IdentWord
    <3> QED
      BY <2>1, <3>1, <3>2
  <2> QED
    BY <2>1, <2>2, <2>3, <2>4, <2>5 DEF TypeOK
<1>4. ASSUME NEW k \in Keys, Publish(k)
      PROVE  HeaderInv'
  BY <1>4 DEF Publish
<1>5. CASE StoreBody
  BY <1>5 DEF StoreBody
<1>6. CASE StoreEven
  BY <1>6 DEF StoreEven
<1>7. CASE StoreEpoch
  BY <1>7 DEF StoreEpoch
<1>8. CASE Crash
  BY <1>8 DEF Crash, page
<1>9. CASE PublishRefused \/ UNCHANGED vars
  BY <1>9 DEF PublishRefused, vars, page, writer
<1> QED
  BY <1>1, <1>2, <1>3, <1>4, <1>5, <1>6, <1>7, <1>8, <1>9
     DEF WriterStep, WriterProgress

\* Resume's claim: every header the page holds between two stores is valid,
\* over a new page and over another major's, for any minors and body sizes.
THEOREM HeaderAlwaysValid == PageSpec => []RecognisedHeaderValid
<1>1. Init \/ InitForeign => TypeOK /\ HeaderInv
  BY TypeInit, HeaderInit
<1>2. TypeOK /\ HeaderInv /\ [WriterStep]_vars => (TypeOK /\ HeaderInv)'
  BY TypeStep, HeaderStep
<1>3. HeaderInv => RecognisedHeaderValid
  BY DEF HeaderInv
<1> QED
  BY <1>1, <1>2, <1>3, PTL DEF PageSpec
-----------------------------------------------------------------------------
LEMMA Parity ==
  \A n \in Nat : /\ n % 2 \in {0, 1}
                 /\ (n + (n % 2)) % 2 = 0
                 /\ n % 2 = 0 => (n + 1) % 2 = 1 /\ (n + 2) % 2 = 0
OBVIOUS

LEMMA SeqInit == Init => SeqInv
  BY DEF Init, InitWriter, SeqInv

\* Every writer step keeps the writer's seq and notifyEpoch in step with the
\* page's.  Only over a page that is recognised, or new, does Resume's choice
\* of seq agree with the page.
LEMMA SeqStep == TypeOK /\ HeaderInv /\ SeqInv /\ [WriterStep]_vars => SeqInv'
<1> SUFFICES ASSUME TypeOK, HeaderInv, SeqInv, [WriterStep]_vars
             PROVE  SeqInv'
  OBVIOUS
<1>0. seq \in Nat /\ wseq \in Nat /\ epoch \in Nat /\ wepoch \in Nat
  BY DEF TypeOK
<1> USE DEF SeqInv
<1>1. ASSUME NEW m \in Minors, NewPageWriter(m)
      PROVE  SeqInv'
  BY <1>1 DEF NewPageWriter, page, Recognised
<1>2. CASE Resume
  <2>1. wpc' = "header" /\ wseq' = seq + (seq % 2) /\ wepoch' = epoch
    BY <1>0, <1>2 DEF Resume, AdoptedSeq, AdoptedEpoch, StoreOrder
  <2>2. /\ magic' = magic /\ ident' = ident /\ seq' = seq /\ epoch' = epoch
    BY <1>2 DEF Resume, AdoptedSeq, AdoptedEpoch, StoreOrder, page
  <2> QED
    BY <2>1, <2>2 DEF Recognised
<1>3. CASE StoreHeader
  <2>1. Recognised => Recognised'
    BY <1>3 DEF StoreHeader, IdentWord, Recognised
  <2>2. wpc = "header" /\ wpc' \in {"header", "idle"}
    BY <1>3 DEF StoreHeader, IdentWord
  <2>3. /\ seq' = seq /\ epoch' = epoch /\ wseq' = wseq /\ wepoch' = wepoch
    BY <1>3 DEF StoreHeader, IdentWord
  <2> QED
    BY <2>1, <2>2, <2>3
<1>4. ASSUME NEW k \in Keys, Publish(k)
      PROVE  SeqInv'
  <2>1. wseq % 2 = 0
    BY <1>0, <1>4, Parity DEF Publish
  <2>2. /\ wpc' = "body" /\ seq' = wseq + 1
        /\ magic' = magic /\ ident' = ident /\ epoch' = epoch /\ wseq' = wseq /\ wepoch' = wepoch
    BY <1>4 DEF Publish
  <2>3. Recognised /\ wepoch = epoch
    BY <1>4 DEF Publish, HeaderInv, Recognised
  <2> QED
    BY <2>1, <2>2, <2>3 DEF Recognised
<1>5. CASE StoreBody
  BY <1>5 DEF StoreBody, Recognised
<1>6. CASE StoreEven
  <2>1. /\ wpc' \in {"epoch", "idle"} /\ seq' = wseq + 2 /\ wseq' = wseq + 2
        /\ magic' = magic /\ ident' = ident /\ epoch' = epoch /\ wepoch' = wepoch
    BY <1>6 DEF StoreEven
  <2>2. Recognised /\ wepoch = epoch /\ wseq % 2 = 0
    BY <1>6 DEF StoreEven, HeaderInv, Recognised
  <2>3. seq' % 2 = 0
    BY <1>0, <2>1, <2>2, Parity
  <2> QED
    BY <1>0, <2>1, <2>2, <2>3 DEF Recognised
<1>7. CASE StoreEpoch
  BY <1>0, <1>7 DEF StoreEpoch, HeaderInv, Recognised
<1>8. CASE Crash
  BY <1>8 DEF Crash, page, Recognised
<1>9. CASE PublishRefused \/ UNCHANGED vars
  BY <1>9 DEF PublishRefused, vars, page, writer, Recognised
<1> QED
  BY <1>1, <1>2, <1>3, <1>4, <1>5, <1>6, <1>7, <1>8, <1>9
     DEF WriterStep, WriterProgress

\* Every change of seq is a step up.
LEMMA SeqGrows ==
  TypeOK /\ SeqInv /\ [WriterStep]_vars =>
    \/ seq' = seq
    \/ seq' > seq /\ seq' \in Nat
<1> SUFFICES ASSUME TypeOK, SeqInv, WriterStep
             PROVE  seq' = seq \/ (seq' > seq /\ seq' \in Nat)
  BY DEF vars, page
<1>0. seq \in Nat /\ wseq \in Nat
  BY DEF TypeOK
<1>1. ASSUME NEW k \in Keys, Publish(k)
      PROVE  seq' > seq /\ seq' \in Nat
  BY <1>0, <1>1, Parity DEF Publish, SeqInv
<1>2. CASE StoreEven
  BY <1>0, <1>2 DEF StoreEven, SeqInv
<1>3. CASE ~StoreEven /\ ~\E k \in Keys : Publish(k)
  BY <1>3 DEF WriterStep, WriterProgress, NewPageWriter, Resume, StoreHeader, IdentWord,
     StoreBody, StoreEpoch, Crash, PublishRefused, vars, page
<1> QED
  BY <1>1, <1>2, <1>3

-----------------------------------------------------------------------------
\* What beginning a publication does to the history of publications.
LEMMA LogAppend ==
  ASSUME TypeOK, NEW k \in Keys, Publish(k)
  PROVE  /\ Len(log') = Len(log) + 1 /\ Len(log) \in Nat
         /\ log'[Len(log')] = [key |-> k, minor |-> wminor]
         /\ \A i \in 1..Len(log) : log'[i] = log[i]
<1>1. log \in Seq([key : Keys, minor : Minors])
  BY DEF TypeOK
<1>2. [key |-> k, minor |-> wminor] \in [key : Keys, minor : Minors]
  BY DEF TypeOK
<1>3. log' = Append(log, [key |-> k, minor |-> wminor])
  BY DEF Publish
<1> HIDE DEF Publish
<1> QED
  BY <1>1, <1>2, <1>3, AppendFacts, LenFacts, SMTT(30)

LEMMA BodyInit == Init => BodyInv
<1> SUFFICES ASSUME Init
             PROVE  BodyInv
  OBVIOUS
<1>1. body = [i \in Words |-> 0] /\ log = <<>> /\ wpc = "down"
  BY DEF Init, InitWriter
<1>2. Len(log) = 0
  BY <1>1
<1>3. body[1] = 0
  BY <1>1, WordsFacts
<1>4. EvenBodyWhole
  BY <1>3 DEF EvenBodyWhole, Covered
<1> QED
  BY <1>1, <1>2, <1>4 DEF BodyInv

\* Every writer step keeps the page odd while its body is a mix.
LEMMA BodyStep ==
  TypeOK /\ HeaderInv /\ SeqInv /\ BodyInv /\ [WriterStep]_vars => BodyInv'
<1> SUFFICES ASSUME TypeOK, HeaderInv, SeqInv, BodyInv, [WriterStep]_vars
             PROVE  BodyInv'
  OBVIOUS
<1>0. /\ seq \in Nat /\ wseq \in Nat /\ wminor \in Minors /\ Len(log) \in Nat
      /\ BodyWords[wminor] \in Nat \ {0}
  BY LenFacts DEF TypeOK
<1>1. CASE UNCHANGED <<seq, body, log>> /\ wpc' \notin {"body", "even"}
  BY <1>1 DEF BodyInv, EvenBodyWhole, Covered
<1>2. CASE UNCHANGED vars
  BY <1>2 DEF vars, page, writer, history, BodyInv, EvenBodyWhole, Covered
<1>3. ASSUME NEW k \in Keys, Publish(k)
      PROVE  BodyInv'
  <2>1. /\ wpc' = "body" /\ off' = 1 /\ key' = k
        /\ body' = body /\ wminor' = wminor
    BY <1>3 DEF Publish
  <2>2. /\ Len(log') = Len(log) + 1
        /\ log'[Len(log')] = [key |-> k, minor |-> wminor]
    BY <1>3, LogAppend
  <2>3. body' \in [Words -> 0..Len(log')]
    <3>1. \A i \in Words : body[i] \in 0..(Len(log) + 1)
      BY <1>0 DEF BodyInv
    <3> QED
      BY <2>1, <2>2, <3>1 DEF BodyInv
  <2>4. seq' % 2 = 1
    BY <1>0, <1>3, Parity DEF Publish, SeqInv
  <2>5. EvenBodyWhole'
    BY <2>4 DEF EvenBodyWhole
  <2> QED
    BY <1>0, <2>1, <2>2, <2>3, <2>5 DEF BodyInv
<1>4. CASE StoreBody
  <2>1. /\ wpc = "body" /\ body' = [body EXCEPT ![off] = Len(log)]
        /\ off' = off + 1
        /\ wpc' = IF off = BodyWords[wminor] THEN "even" ELSE "body"
        /\ seq' = seq /\ wminor' = wminor /\ key' = key /\ log' = log
    BY <1>4 DEF StoreBody, history
  <2>2. off \in 1..BodyWords[wminor] /\ off \in Words
    BY <1>0, <2>1, WordsFacts, Zenon DEF BodyInv
  <2>3. body' \in [Words -> 0..Len(log')]
    <3>1. body \in [Words -> 0..Len(log)]
      BY <1>0 DEF BodyInv
    <3>2. Len(log) \in 0..Len(log)
      BY <1>0, LenFacts DEF TypeOK
    <3> QED
      BY <2>1, <3>1, <3>2, StoreWord, Zenon
  <2>4. \A i \in 1..(off' - 1) : body'[i] = Len(log')
    <3> SUFFICES ASSUME NEW i \in 1..off
                 PROVE  body'[i] = Len(log)
      BY <2>1, <2>2
    <3>1. i \in Words
      BY <1>0, <2>2, WordsFacts
    <3>2. CASE i = off
      BY <2>1, <2>2, <3>2 DEF BodyInv
    <3>3. CASE i # off
      <4>1. i \in 1..(off - 1)
        BY <1>0, <2>2, <3>3
      <4> QED
        BY <2>1, <3>1, <3>3, <4>1 DEF BodyInv
    <3> QED
      BY <3>2, <3>3
  <2>5. seq' % 2 = 1
    BY <1>0, <2>1, Parity DEF SeqInv
  <2>6. Len(log) > 0 /\ log[Len(log)] = [key |-> key, minor |-> wminor]
    BY <2>1 DEF BodyInv
  <2>7. /\ wpc' = "body" => off' \in 1..BodyWords[wminor']
        /\ wpc' = "even" => off' = BodyWords[wminor'] + 1
    BY <1>0, <2>1, <2>2
  <2> QED
    BY <2>1, <2>3, <2>4, <2>5, <2>6, <2>7 DEF BodyInv, EvenBodyWhole
<1>5. CASE StoreEven
  <2>1. wpc = "even" /\ wpc' \in {"epoch", "idle"} /\ body' = body /\ log' = log
    BY <1>5 DEF StoreEven
  <2>2. /\ Len(log) > 0 /\ log[Len(log)].minor = wminor
        /\ \A i \in 1..BodyWords[wminor] : body[i] = Len(log)
    BY <1>0, <2>1 DEF BodyInv
  <2>3. body[1] = Len(log)
    BY <1>0, <2>2
  <2>4. Covered(body) = 1..BodyWords[wminor]
    BY <1>0, <2>2, <2>3 DEF Covered
  <2>5. EvenBodyWhole'
    BY <2>1, <2>2, <2>3, <2>4 DEF EvenBodyWhole, Covered
  <2> QED
    BY <2>1, <2>5 DEF BodyInv
<1>6. CASE Resume \/ StoreHeader \/ StoreEpoch \/ Crash \/ \E m \in Minors : NewPageWriter(m)
  <2>1. /\ seq' = seq /\ body' = body /\ log' = log /\ wpc' \notin {"body", "even"}
    BY <1>6 DEF Resume, AdoptedSeq, AdoptedEpoch, StoreOrder, StoreHeader, IdentWord, StoreEpoch, Crash, NewPageWriter, page, history
  <2> QED
    BY <1>1, <2>1
<1>7. CASE PublishRefused
  BY <1>2, <1>7 DEF PublishRefused
<1> QED
  BY <1>2, <1>3, <1>4, <1>5, <1>6, <1>7 DEF WriterStep, WriterProgress

-----------------------------------------------------------------------------
LEMMA CommittedInit == Init => CommittedInv
  BY DEF Init, InitWriter, CommittedInv

\* The bodies committed are those the page held under an even seq.
LEMMA CommittedStep ==
  TypeOK /\ SeqInv /\ CommittedInv /\ [WriterStep]_vars => CommittedInv'
<1> SUFFICES ASSUME TypeOK, SeqInv, CommittedInv, [WriterStep]_vars
             PROVE  CommittedInv'
  OBVIOUS
<1>0. /\ seq \in Nat /\ wseq \in Nat
      /\ \A c \in committed : c.seq \in Nat
  BY DEF TypeOK
<1>1. CASE UNCHANGED <<seq, body, committed>>
  BY <1>1 DEF CommittedInv
<1>2. ASSUME NEW k \in Keys, Publish(k)
      PROVE  CommittedInv'
  <2>1. seq' > seq /\ seq' % 2 = 1 /\ seq' \in Nat /\ UNCHANGED committed
    BY <1>0, <1>2, Parity DEF Publish, SeqInv
  <2>2. \A c \in committed' : c.seq <= seq'
    BY <1>0, <2>1 DEF CommittedInv
  <2> QED
    BY <2>1, <2>2 DEF CommittedInv
<1>3. CASE StoreBody
  <2>1. seq' % 2 = 1 /\ seq' = seq /\ committed' = committed
    BY <1>0, <1>3, Parity DEF StoreBody, SeqInv, history
  <2> QED
    BY <2>1 DEF CommittedInv
<1>4. CASE StoreEven
  <2> DEFINE new == [seq |-> seq', image |-> body]
  <2>1. /\ seq' = wseq + 2 /\ seq = wseq + 1 /\ body' = body
        /\ committed' = committed \cup {new}
    BY <1>4 DEF StoreEven, SeqInv
  <2>2. seq' \in Nat /\ seq' > seq
    BY <1>0, <2>1
  <2>3. \A c \in committed' : c.seq <= seq'
    BY <1>0, <2>1, <2>2 DEF CommittedInv
  <2>4. new \in committed' /\ new.seq = seq'
    BY <2>1
  <2>5. \A d \in committed' : d.seq <= new.seq
    BY <2>3, <2>4
  <2> HIDE DEF new
  <2>6. \E c \in committed' : \A d \in committed' : d.seq <= c.seq
    BY <2>4, <2>5
  <2> QED
    BY <2>1, <2>3, <2>4, <2>6 DEF CommittedInv, new
<1>5. CASE Resume \/ StoreHeader \/ StoreEpoch \/ Crash \/ PublishRefused
           \/ UNCHANGED vars \/ \E m \in Minors : NewPageWriter(m)
  <2>1. /\ seq' = seq /\ body' = body /\ committed' = committed
    BY <1>5 DEF Resume, AdoptedSeq, AdoptedEpoch, StoreOrder, StoreHeader, IdentWord, StoreEpoch, Crash, NewPageWriter,
       PublishRefused, vars, page, history
  <2> QED
    BY <1>1, <2>1
<1> QED
  BY <1>2, <1>3, <1>4, <1>5 DEF WriterStep, WriterProgress

-----------------------------------------------------------------------------
LEMMA KeyInit == Init => KeyInv
  BY DEF Init, InitWriter, KeyInv

\* The key the writer published last is the key on the page.
LEMMA KeyStep ==
  TypeOK /\ SeqInv /\ BodyInv /\ KeyInv /\ [WriterStep]_vars => KeyInv'
<1> SUFFICES ASSUME TypeOK, SeqInv, BodyInv, KeyInv, [WriterStep]_vars
             PROVE  KeyInv'
  OBVIOUS
<1>0. /\ seq \in Nat /\ wseq \in Nat /\ wminor \in Minors /\ Len(log) \in Nat
      /\ BodyWords[wminor] \in Nat \ {0}
  BY LenFacts DEF TypeOK
<1>1. ASSUME NEW m \in Minors, NewPageWriter(m)
      PROVE  KeyInv'
  BY <1>1 DEF NewPageWriter, KeyInv
<1>2. CASE Resume
  BY <1>2 DEF Resume, AdoptedSeq, AdoptedEpoch, StoreOrder, KeyInv
<1>3. CASE StoreHeader
  BY <1>3 DEF StoreHeader, IdentWord, KeyInv
<1>4. ASSUME NEW k \in Keys, Publish(k)
      PROVE  KeyInv'
  BY <1>4 DEF Publish, KeyInv
<1>5. CASE StoreBody
  BY <1>5 DEF StoreBody, KeyInv
<1>6. CASE StoreEven
  <2>1. /\ wpc = "even" /\ seq' = wseq + 2
        /\ body' = body /\ log' = log /\ key' = key
    BY <1>6 DEF StoreEven
  <2>2. /\ Len(log) > 0 /\ log[Len(log)].key = key
        /\ \A i \in 1..BodyWords[wminor] : body[i] = Len(log)
    BY <1>0, <2>1 DEF BodyInv
  <2>3. body[1] = Len(log)
    BY <1>0, <2>2
  <2>4. seq' % 2 = 0
    BY <1>0, <2>1, Parity DEF SeqInv
  <2>5. key \in Keys
    BY <2>1 DEF KeyInv
  <2>6. CASE wpc' = "epoch"
    BY <1>0, <2>1, <2>2, <2>3, <2>5, <2>6 DEF KeyInv
  <2>7. CASE wpc' = "idle" /\ last' = key
    BY <1>0, <2>1, <2>2, <2>3, <2>4, <2>7 DEF KeyInv
  <2> QED
    BY <1>6, <2>6, <2>7 DEF StoreEven
<1>7. CASE StoreEpoch
  <2>1. wpc = "epoch" /\ wpc' = "idle" /\ last' = key /\ seq' = seq /\ body' = body /\ log' = log
    BY <1>7 DEF StoreEpoch, history
  <2> QED
    BY <2>1 DEF KeyInv, SeqInv
<1>8. CASE Crash
  BY <1>8 DEF Crash, KeyInv
<1>9. CASE PublishRefused \/ UNCHANGED vars
  BY <1>9 DEF PublishRefused, vars, page, writer, history, KeyInv
<1> QED
  BY <1>1, <1>2, <1>3, <1>4, <1>5, <1>6, <1>7, <1>8, <1>9
     DEF WriterStep, WriterProgress

-----------------------------------------------------------------------------
LEMMA ImagesInit == Init => ImagesInv
<1> SUFFICES ASSUME Init
             PROVE  ImagesInv
  OBVIOUS
<1>1. /\ body = [i \in Words |-> 0] /\ log = <<>>
      /\ committed = {[seq |-> seq, image |-> body]}
  BY DEF Init, InitWriter
<1>2. body \in [Words -> 0..Len(log)]
  BY <1>1
<1>3. body[1] = 0
  BY <1>1, WordsFacts
<1>4. Covered(body) = {}
  BY <1>3 DEF Covered
<1> QED
  BY <1>1, <1>2, <1>4 DEF ImagesInv

LEMMA ImagesStep ==
  TypeOK /\ HeaderInv /\ SeqInv /\ BodyInv /\ ImagesInv /\ [WriterStep]_vars => ImagesInv'
<1> SUFFICES ASSUME TypeOK, HeaderInv, SeqInv, BodyInv, ImagesInv, [WriterStep]_vars
             PROVE  ImagesInv'
  OBVIOUS
<1>0. seq \in Nat /\ wseq \in Nat /\ Len(log) \in Nat
  BY LenFacts DEF TypeOK
<1>1. CASE UNCHANGED <<log, committed>>
  BY <1>1 DEF ImagesInv, Covered
<1>2. ASSUME NEW k \in Keys, Publish(k)
      PROVE  ImagesInv'
  <2>1. committed' = committed
    BY <1>2 DEF Publish
  <2>2. Len(log') = Len(log) + 1 /\ \A i \in 1..Len(log) : log'[i] = log[i]
    BY <1>2, LogAppend, Zenon
  <2> SUFFICES ASSUME NEW c \in committed
               PROVE  /\ c.image \in [Words -> 0..Len(log')]
                      /\ \A i \in Covered(c.image)' : c.image[i] = c.image[1]
    BY <2>1 DEF ImagesInv, Covered
  <2>3. c.image \in [Words -> 0..Len(log)] /\ c.image[1] \in 0..Len(log)
    BY WordsFacts DEF ImagesInv
  <2>4. \A i \in Words : c.image[i] \in 0..(Len(log) + 1)
    BY <1>0, <2>3
  <2>5. Covered(c.image)' = Covered(c.image)
    <3>1. CASE c.image[1] = 0
      BY <3>1 DEF Covered
    <3>2. CASE c.image[1] \in 1..Len(log)
      <4>1. log'[c.image[1]] = log[c.image[1]]
        BY <2>2, <3>2
      <4> QED
        BY <4>1 DEF Covered
    <3> QED
      BY <1>0, <2>3, <3>1, <3>2
  <2> QED
    BY <2>2, <2>3, <2>4, <2>5 DEF ImagesInv
<1>3. CASE StoreEven
  <2> DEFINE new == [seq |-> wseq + 2, image |-> body]
  <2>1. committed' = committed \cup {new} /\ log' = log /\ body' = body
    BY <1>3 DEF StoreEven
  <2>2. BodyInv'
    BY BodyStep
  <2>3. seq' % 2 = 0
    BY <1>0, <1>3, Parity DEF StoreEven, SeqInv
  <2>4. /\ body \in [Words -> 0..Len(log)]
        /\ \A i \in Covered(body) : body[i] = body[1]
    BY <2>1, <2>2, <2>3 DEF BodyInv, EvenBodyWhole, Covered
  <2>5. ASSUME NEW c \in committed'
        PROVE  /\ c.image \in [Words -> 0..Len(log)]
               /\ \A i \in Covered(c.image) : c.image[i] = c.image[1]
    BY <2>1, <2>4 DEF ImagesInv
  <2> QED
    BY <2>1, <2>5 DEF ImagesInv, Covered
<1>4. CASE Resume \/ StoreHeader \/ StoreBody \/ StoreEpoch \/ Crash \/ PublishRefused
           \/ UNCHANGED vars \/ \E m \in Minors : NewPageWriter(m)
  <2>1. /\ log' = log /\ committed' = committed
    BY <1>4 DEF Resume, AdoptedSeq, AdoptedEpoch, StoreOrder, StoreHeader, IdentWord, StoreBody, StoreEpoch, Crash, NewPageWriter,
       PublishRefused, vars, history
  <2> QED
    BY <1>1, <2>1
<1> QED
  BY <1>2, <1>3, <1>4 DEF WriterStep, WriterProgress

-----------------------------------------------------------------------------
LEMMA PageInit == Init => PageInv
  BY TypeInit, HeaderInit, SeqInit, BodyInit, CommittedInit, KeyInit, ImagesInit
  DEF PageInv

\* The inductive invariant of the writer.  Module BudgetReaderProofs carries
\* it over to the page with its readers.
LEMMA PageStep == PageInv /\ [WriterStep]_vars => PageInv'
  BY TypeStep, HeaderStep, SeqStep, BodyStep, CommittedStep, KeyStep, ImagesStep
  DEF PageInv

=============================================================================
