------------------------- MODULE BudgetReaderProofs -------------------------
(***************************************************************************)
(* Proofs about the page with its readers (module BudgetReader), for every *)
(* set of readers and minors, every body size and every number of restarts *)
(* and publications.  The writer's part of the invariant is PageInv.       *)
(***************************************************************************)
EXTENDS BudgetReader, BudgetPageProofs

\* The reads so far are behind the page, never ahead of it.
BehindInv(r) ==
  /\ repoch[r] <= epoch
  /\ floor[r] <= seq
  /\ got[r].seq <= seq

\* A copy under way agrees with the body for as long as seq has not moved.
CopyInv(r) ==
  rpc[r] \in {"copy", "recheck"} =>
    /\ rseq[r] % 2 = 0
    /\ rseq[r] <= seq /\ rseq[r] >= floor[r] /\ rseq[r] >= got[r].seq
    /\ rpc[r] = "copy" => Len(copy[r]) < KnownWords(r)
    /\ rpc[r] = "recheck" => Len(copy[r]) = KnownWords(r)
    /\ seq = rseq[r] => \A i \in 1..Len(copy[r]) : copy[r][i] = body[i]

\* What a reader delivered is a committed body, cut to the words it knows.
GotInv(r) ==
  got[r] # Nothing =>
    \E c \in committed : /\ c.seq = got[r].seq
                         /\ got[r].image = Prefix(c.image, KnownWords(r))

\* A reader asleep on the current notifyEpoch knows the key published last.
SleepInv(r) ==
  rpc[r] = "wait" /\ repoch[r] = epoch /\ last # NoKey
                  /\ wpc \in {"idle", "body", "even"} =>
    got[r] # Nothing /\ KeyOf(got[r].image) = last

ReaderInv ==
  /\ ReaderTypeOK
  /\ PageInv
  /\ \A r \in Readers : BehindInv(r) /\ CopyInv(r) /\ GotInv(r) /\ SleepInv(r)

-----------------------------------------------------------------------------
LEMMA ReaderTypeInit == Init /\ InitReader => ReaderTypeOK
<1> SUFFICES ASSUME Init, InitReader
             PROVE  ReaderTypeOK
  OBVIOUS
<1>1. <<>> \in Seq(Int)
  BY EmptyFacts
<1>2. TypeOK
  BY TypeInit
<1> QED
  BY <1>1, <1>2 DEF InitReader, ReaderTypeOK, RPCs, Nothing

\* The newest committed seq is one of the committed seqs.
LEMMA LatestFacts ==
  ASSUME TypeOK, CommittedInv
  PROVE  /\ LatestCommitted \in Nat
         /\ \E c \in committed : /\ c.seq = LatestCommitted
                                 /\ \A d \in committed : d.seq <= c.seq
<1> DEFINE S == {c.seq : c \in committed}
<1>1. \E s \in S : \A c \in committed : c.seq <= s
  BY DEF CommittedInv
<1>2. LatestCommitted \in S /\ \A c \in committed : c.seq <= LatestCommitted
  BY <1>1 DEF LatestCommitted
<1> QED
  BY <1>2 DEF TypeOK

LEMMA KnownFacts ==
  ASSUME ReaderTypeOK, NEW r \in Readers
  PROVE  /\ KnownWords(r) \in Nat \ {0}
         /\ 1..KnownWords(r) \subseteq Words
         /\ 1 \in Words
<1>1. rminor[r] \in Minors
  BY DEF ReaderTypeOK
<1>2. BodyWords[rminor[r]] \in Nat \ {0}
  BY <1>1, BodyWordsAssumption
<1>3. 1..BodyWords[rminor[r]] \subseteq Words
  BY <1>1, WordsFacts
<1> QED
  BY <1>2, <1>3, WordsFacts DEF KnownWords

\* Every step keeps every reader variable in its type.
LEMMA ReaderTypeStep ==
  ReaderInv /\ [Next]_allvars => ReaderTypeOK'
<1> SUFFICES ASSUME ReaderTypeOK, PageInv, \A r \in Readers : CopyInv(r), [Next]_allvars
             PROVE  ReaderTypeOK'
  BY DEF ReaderInv
<1>0. TypeOK /\ CommittedInv
  BY DEF PageInv
<1>1. CASE (WriterStep \/ UNCHANGED vars) /\ UNCHANGED reader
  <2>1. TypeOK'
    BY <1>0, <1>1, TypeStep
  <2> QED
    BY <1>1, <2>1 DEF ReaderTypeOK, reader
<1>2. ASSUME NEW r \in Readers, ReaderStep(r)
      PROVE  ReaderTypeOK'
  <2>0. UNCHANGED vars
    BY <1>2 DEF ReaderStep, LoadEpoch, CheckMagic, CheckIdent, CheckSize, LoadSeq,
       CopyWord, Accept, Retry, Torn, Wake
  <2>1. TypeOK'
    BY <1>0, <2>0, TypeStep
  <2>2. CASE LoadEpoch(r)
    BY <1>0, <2>1, <2>2, LatestFacts, Zenon
       DEF LoadEpoch, Goto, ReaderTypeOK, RPCs, TypeOK
  <2>3. CASE CheckMagic(r) \/ CheckIdent(r) \/ CheckSize(r) \/ Wake(r)
    BY <2>1, <2>3, Zenon DEF CheckMagic, CheckIdent, CheckSize, Wake, Goto, ReaderTypeOK, RPCs
  <2>4. CASE LoadSeq(r)
    BY <2>1, <2>4, EmptyFacts, <1>0, Zenon DEF LoadSeq, Goto, ReaderTypeOK, RPCs, TypeOK
  <2>5. CASE CopyWord(r)
    <3>1. copy[r] \in Seq(Int)
      BY DEF ReaderTypeOK
    <3>2. body[Len(copy[r]) + 1] \in Int
      <4>1. Len(copy[r]) \in Nat
        BY <3>1, LenFacts
      <4>2. Len(copy[r]) + 1 \in 1..KnownWords(r)
        BY <2>5, <4>1, KnownFacts DEF CopyWord, CopyInv
      <4> QED
        BY <1>0, <4>2, KnownFacts DEF TypeOK
    <3>3. Append(copy[r], body[Len(copy[r]) + 1]) \in Seq(Int)
      BY <3>1, <3>2, AppendFacts
    <3>4. copy' \in [Readers -> Seq(Int)]
      BY <2>5, <3>3 DEF CopyWord, ReaderTypeOK
    <3>5. rpc' \in [Readers -> RPCs]
      BY <2>5 DEF CopyWord, Goto, ReaderTypeOK, RPCs
    <3> QED
      BY <2>1, <2>5, <3>4, <3>5 DEF CopyWord, ReaderTypeOK
  <2>6. CASE Accept(r)
    BY <2>1, <2>6, EmptyFacts DEF Accept, Goto, ReaderTypeOK, RPCs
  <2>7. CASE Retry(r)
    BY <2>1, <2>7, EmptyFacts DEF Retry, Goto, ReaderTypeOK, RPCs
  <2>8. CASE Torn(r)
    <3>1. /\ rpc' = [rpc EXCEPT ![r] = "start"]
          /\ copy' = [copy EXCEPT ![r] = <<>>]
          /\ rminor' = rminor /\ repoch' = repoch /\ rseq' = rseq /\ got' = got /\ floor' = floor
      BY <2>8 DEF Torn, Goto
    <3> QED
      BY <2>1, <3>1, EmptyFacts DEF ReaderTypeOK, RPCs
  <2> QED
    BY <1>2, <2>2, <2>3, <2>4, <2>5, <2>6, <2>7, <2>8 DEF ReaderStep
<1> QED
  BY <1>1, <1>2 DEF Next, allvars
-----------------------------------------------------------------------------
\* What a writer step leaves of a read under way.
LEMMA WriterKeepsReads ==
  ReaderInv /\ WriterStep /\ UNCHANGED reader =>
    \A r \in Readers : BehindInv(r)' /\ CopyInv(r)' /\ GotInv(r)' /\ SleepInv(r)'
<1> SUFFICES ASSUME ReaderInv, WriterStep, UNCHANGED reader, NEW r \in Readers
             PROVE  BehindInv(r)' /\ CopyInv(r)' /\ GotInv(r)' /\ SleepInv(r)'
  OBVIOUS
<1>0. /\ TypeOK /\ HeaderInv /\ SeqInv /\ BodyInv /\ CommittedInv /\ KeyInv /\ ImagesInv
      /\ ReaderTypeOK
      /\ BehindInv(r) /\ CopyInv(r) /\ GotInv(r) /\ SleepInv(r)
  BY DEF ReaderInv, PageInv
<1>1. /\ rpc' = rpc /\ rminor' = rminor /\ repoch' = repoch /\ rseq' = rseq
      /\ copy' = copy /\ got' = got /\ floor' = floor
  BY DEF reader
<1>2. /\ seq \in Nat /\ epoch \in Nat /\ wseq \in Nat /\ wepoch \in Nat
      /\ rseq[r] \in Nat /\ repoch[r] \in Nat /\ floor[r] \in Nat /\ got[r].seq \in Nat
  BY <1>0 DEF TypeOK, ReaderTypeOK
<1>3. seq' = seq \/ (seq' > seq /\ seq' \in Nat)
  BY <1>0, SeqGrows
<1>4. epoch' = epoch \/ (StoreEpoch /\ epoch' = epoch + 1)
  BY <1>0, Zenon DEF SeqInv, WriterStep, WriterProgress, NewPageWriter, Resume, StoreHeader, IdentWord,
     Publish, StoreBody, StoreEven, StoreEpoch, Crash, PublishRefused, vars, page
<1>5. BehindInv(r)'
  BY <1>0, <1>1, <1>2, <1>3, <1>4 DEF BehindInv
<1>6. body' = body \/ seq % 2 = 1
  BY <1>0, <1>2, Parity, Zenon DEF SeqInv, WriterStep, WriterProgress, NewPageWriter, Resume,
     StoreHeader, IdentWord, Publish, StoreBody, StoreEven, StoreEpoch, Crash, PublishRefused,
     vars, page
<1>7. CopyInv(r)'
  <2>1. KnownWords(r)' = KnownWords(r)
    BY <1>1 DEF KnownWords
  <2> SUFFICES ASSUME rpc[r] \in {"copy", "recheck"}
               PROVE  /\ rseq[r] <= seq'
                      /\ seq' = rseq[r] => \A i \in 1..Len(copy[r]) : copy[r][i] = body'[i]
    BY <1>0, <1>1, <2>1 DEF CopyInv
  <2>2. rseq[r] <= seq /\ rseq[r] % 2 = 0
    BY <1>0 DEF CopyInv
  <2>3. rseq[r] <= seq'
    BY <1>2, <1>3, <2>2
  <2>4. ASSUME seq' = rseq[r]
        PROVE  \A i \in 1..Len(copy[r]) : copy[r][i] = body'[i]
    <3>1. seq = rseq[r]
      BY <1>2, <1>3, <2>2, <2>4
    <3>2. body' = body
      BY <1>6, <2>2, <3>1
    <3> QED
      BY <1>0, <3>1, <3>2 DEF CopyInv
  <2> QED
    BY <2>3, <2>4
<1>8. committed \subseteq committed'
  BY Zenon DEF WriterStep, WriterProgress, NewPageWriter, Resume, StoreHeader, IdentWord, Publish,
     StoreBody, StoreEven, StoreEpoch, Crash, PublishRefused, vars, history
<1>9. GotInv(r)'
  <2>1. KnownWords(r)' = KnownWords(r)
    BY <1>1 DEF KnownWords
  <2> QED
    BY <1>0, <1>1, <1>8, <2>1 DEF GotInv
<1>10. SleepInv(r)'
  <2> SUFFICES ASSUME rpc[r] = "wait", repoch[r] = epoch', last' # NoKey,
                      wpc' \in {"idle", "body", "even"}
               PROVE  got[r] # Nothing /\ KeyOf(got[r].image)' = last'
    BY <1>1 DEF SleepInv, KeyOf
  <2>1. epoch' = epoch
    BY <1>0, <1>2, <1>4 DEF BehindInv
  <2>2. /\ ~StoreEpoch /\ ~Crash /\ ~StoreHeader /\ ~Resume
        /\ \A m \in Minors : ~NewPageWriter(m)
    <3>1. ~StoreEpoch
      BY <1>0, <1>2, <2>1 DEF StoreEpoch, SeqInv
    <3>2. ~Crash /\ ~Resume /\ \A m \in Minors : ~NewPageWriter(m)
      BY DEF Crash, Resume, NewPageWriter
    <3>3. ~StoreHeader
      BY <1>0 DEF StoreHeader, IdentWord, KeyInv
    <3> QED
      BY <3>1, <3>2, <3>3
  <2>3. /\ wpc \in {"idle", "body", "even"} /\ last # NoKey /\ last' = last
    <3>1. ASSUME NEW k \in Keys, Publish(k)
          PROVE  wpc = "idle" /\ last' = last
      BY <3>1 DEF Publish
    <3>2. CASE StoreBody
      BY <3>2 DEF StoreBody
    <3>3. CASE StoreEven
      <4>1. wpc = "even" /\ wpc' = "idle" /\ ~Due(last, key) /\ last' = key
        BY <3>3 DEF StoreEven
      <4> QED
        BY <4>1 DEF Due
    <3>4. CASE PublishRefused
      <4>1. /\ wpc' = wpc /\ last' = last
        BY <3>4 DEF PublishRefused, vars, writer
      <4> QED
        BY <4>1
    <3> QED
      BY <2>2, <3>1, <3>2, <3>3, <3>4 DEF WriterStep, WriterProgress
  <2>4. got[r] # Nothing /\ KeyOf(got[r].image) = last
    BY <1>0, <2>1, <2>3 DEF SleepInv
  <2>5. KeyOf(got[r].image)' = KeyOf(got[r].image)
    <3>1. ~(got[r].image[1] <= 0)
      BY <2>3, <2>4 DEF KeyOf
    <3>2. PICK c \in committed : got[r].image = Prefix(c.image, KnownWords(r))
      BY <1>0, <2>4 DEF GotInv
    <3>3. got[r].image[1] = c.image[1]
      BY <1>0, <3>2, KnownFacts DEF Prefix
    <3>4. got[r].image[1] \in 1..Len(log)
      <4>1. c.image[1] \in 0..Len(log)
        BY <1>0, KnownFacts DEF ImagesInv
      <4>2. Len(log) \in Nat
        BY <1>0, LenFacts DEF TypeOK
      <4> QED
        BY <3>1, <3>3, <4>1, <4>2
    <3>5. log'[got[r].image[1]] = log[got[r].image[1]]
      <4>1. CASE log' = log
        BY <4>1
      <4>2. CASE \E k \in Keys : Publish(k)
        BY <1>0, <3>4, <4>2, LogAppend, Zenon
      <4> QED
        BY <4>1, <4>2, <2>2 DEF WriterStep, WriterProgress, StoreBody, StoreEven,
           PublishRefused, vars, history
    <3> QED
      BY <1>1, <3>5 DEF KeyOf
  <2> QED
    BY <2>3, <2>4, <2>5
<1> QED
  BY <1>5, <1>7, <1>9, <1>10

-----------------------------------------------------------------------------
\* What a step of reader r leaves of its own read: the copy is compared with
\* the body only while seq stands still.
LEMMA ReaderKeepsReads ==
  ASSUME ReaderInv, NEW r \in Readers, ReaderStep(r)
  PROVE  BehindInv(r)' /\ CopyInv(r)' /\ GotInv(r)' /\ SleepInv(r)'
<1>0. /\ TypeOK /\ SeqInv /\ BodyInv /\ CommittedInv /\ KeyInv
      /\ ReaderTypeOK
      /\ BehindInv(r) /\ CopyInv(r) /\ GotInv(r) /\ SleepInv(r)
  BY DEF ReaderInv, PageInv
<1>1. UNCHANGED vars /\ rminor' = rminor
  BY DEF ReaderStep, LoadEpoch, CheckMagic, CheckIdent, CheckSize, LoadSeq,
     CopyWord, Accept, Retry, Torn, Wake
<1>2. /\ seq' = seq /\ epoch' = epoch /\ body' = body /\ wpc' = wpc
      /\ last' = last /\ log' = log /\ committed' = committed
  BY <1>1 DEF vars, page, writer, history
<1>3. /\ seq \in Nat /\ epoch \in Nat
      /\ rseq[r] \in Nat /\ repoch[r] \in Nat /\ floor[r] \in Nat /\ got[r].seq \in Nat
      /\ KnownWords(r)' = KnownWords(r) /\ KnownWords(r) \in Nat \ {0}
  <2>1. KnownWords(r)' = KnownWords(r)
    BY <1>1 DEF KnownWords
  <2>2. KnownWords(r) \in Nat \ {0}
    BY <1>0, KnownFacts
  <2> QED
    BY <1>0, <2>1, <2>2 DEF TypeOK, ReaderTypeOK
<1>13. copy[r] \in Seq(Int) /\ Len(copy[r]) \in Nat
  BY <1>0, LenFacts DEF ReaderTypeOK
<1>4. KeyOf(got[r].image)' = KeyOf(got'[r].image)
  BY <1>2 DEF KeyOf
<1>14. ASSUME got' = got PROVE GotInv(r)'
  BY <1>0, <1>2, <1>3, <1>14 DEF GotInv
<1>5. CASE LoadEpoch(r)
  <2>1. /\ rpc'[r] = "magic" /\ repoch'[r] = epoch /\ floor'[r] = LatestCommitted
        /\ got' = got
    BY <1>0, <1>5 DEF LoadEpoch, Goto, ReaderTypeOK
  <2>2. LatestCommitted <= seq
    BY <1>0, LatestFacts DEF CommittedInv
  <2>5. BehindInv(r)'
    <3>1. repoch'[r] <= epoch'
      BY <1>2, <1>3, <2>1
    <3> QED
      BY <1>0, <1>2, <2>1, <2>2, <3>1 DEF BehindInv
  <2>6. CopyInv(r)'
    BY <1>2, <1>3, <2>1, <2>2 DEF CopyInv
  <2>7. SleepInv(r)'
    BY <2>1 DEF SleepInv
  <2>8. GotInv(r)'
    BY <1>14, <2>1
  <2> QED
    BY <2>5, <2>6, <2>7, <2>8
<1>6. CASE CheckMagic(r) \/ CheckIdent(r) \/ CheckSize(r) \/ Retry(r) \/ Torn(r) \/ Wake(r)
  <2>1. /\ rpc'[r] \notin {"copy", "recheck", "wait"}
        /\ repoch' = repoch /\ got' = got /\ floor' = floor
    BY <1>0, <1>6 DEF CheckMagic, CheckIdent, CheckSize, Retry, Torn, Wake, Goto, ReaderTypeOK
  <2>5. BehindInv(r)'
    BY <1>0, <1>2, <1>3, <2>1 DEF BehindInv
  <2>6. CopyInv(r)'
    BY <1>2, <1>3, <2>1 DEF CopyInv
  <2>7. SleepInv(r)'
    BY <2>1 DEF SleepInv
  <2>8. GotInv(r)'
    BY <1>14, <2>1
  <2> QED
    BY <2>5, <2>6, <2>7, <2>8
<1>7. CASE LoadSeq(r)
  <2>1. /\ rpc'[r] = "copy" /\ rseq'[r] = seq /\ copy'[r] = <<>> /\ seq % 2 = 0
        /\ repoch' = repoch /\ got' = got /\ floor' = floor
    BY <1>0, <1>7 DEF LoadSeq, Goto, ReaderTypeOK
  <2>2. Len(copy'[r]) = 0
    BY <2>1
  <2>5. BehindInv(r)'
    BY <1>0, <1>2, <2>1 DEF BehindInv
  <2>3. 1..Len(copy'[r]) = {}
    BY <2>2
  <2>4. /\ rseq'[r] <= seq' /\ rseq'[r] % 2 = 0
        /\ rseq'[r] >= floor'[r] /\ rseq'[r] >= got'[r].seq
    <3>1. rseq'[r] = seq /\ seq % 2 = 0 /\ floor' = floor /\ got' = got
      BY <2>1
    <3>2. floor[r] <= seq /\ got[r].seq <= seq
      BY <1>0 DEF BehindInv
    <3> QED
      BY <1>2, <1>3, <3>1, <3>2
  <2>9. Len(copy'[r]) < KnownWords(r)'
    BY <1>3, <2>2
  <2>6. CopyInv(r)'
    BY <2>1, <2>3, <2>4, <2>9 DEF CopyInv
  <2>7. SleepInv(r)'
    BY <2>1 DEF SleepInv
  <2>8. GotInv(r)'
    BY <1>14, <2>1
  <2> QED
    BY <2>5, <2>6, <2>7, <2>8
<1>8. CASE CopyWord(r)
  <2> DEFINE n == Len(copy[r])
  <2>1. /\ rpc[r] = "copy"
        /\ rpc'[r] = IF n + 1 = KnownWords(r) THEN "recheck" ELSE "copy"
        /\ copy'[r] = Append(copy[r], body[n + 1])
        /\ repoch' = repoch /\ rseq' = rseq /\ got' = got /\ floor' = floor
    BY <1>0, <1>8 DEF CopyWord, Goto, ReaderTypeOK
  <2>2. n + 1 \in 1..KnownWords(r)
    <3>1. n < KnownWords(r)
      BY <1>0, <2>1 DEF CopyInv
    <3> HIDE DEF n
    <3>2. n \in Nat
      BY <1>13 DEF n
    <3> QED
      BY <1>3, <3>1, <3>2
  <2>3. body[n + 1] \in Int
    BY <1>0, <2>2, KnownFacts DEF TypeOK
  <2>4. /\ Len(copy'[r]) = n + 1
        /\ \A i \in 1..n : copy'[r][i] = copy[r][i]
        /\ copy'[r][n + 1] = body[n + 1]
    <3>1. copy[r] \in Seq(Int)
      BY <1>13
    <3>2. copy'[r] = Append(copy[r], body[n + 1])
      BY <2>1
    <3>3. /\ Len(Append(copy[r], body[n + 1])) = n + 1
          /\ \A i \in 1..n : Append(copy[r], body[n + 1])[i] = copy[r][i]
          /\ Append(copy[r], body[n + 1])[n + 1] = body[n + 1]
      <4>1. \A s \in Seq(Int), v \in Int :
              /\ Len(Append(s, v)) = Len(s) + 1
              /\ \A i \in 1..Len(s) : Append(s, v)[i] = s[i]
              /\ Append(s, v)[Len(s) + 1] = v
        BY AppendFacts
      <4> QED
        BY <2>3, <3>1, <4>1, Zenon
    <3> QED
      BY <3>2, <3>3, Zenon
  <2>5. seq = rseq[r] => \A i \in 1..(n + 1) : copy'[r][i] = body[i]
    <3> SUFFICES ASSUME seq = rseq[r], NEW i \in 1..(n + 1)
                 PROVE  copy'[r][i] = body[i]
      OBVIOUS
    <3>1. CASE i = n + 1
      BY <2>4, <3>1
    <3>2. CASE i \in 1..n
      BY <1>0, <2>1, <2>4, <3>2 DEF CopyInv
    <3>3. n \in Nat
      BY <1>13
    <3> HIDE DEF n
    <3>4. i = n + 1 \/ i \in 1..n
      BY <3>3
    <3> QED
      BY <3>1, <3>2, <3>4
  <2>6. CopyInv(r)'
    <3>1. /\ rseq[r] % 2 = 0 /\ rseq[r] <= seq
          /\ rseq[r] >= floor[r] /\ rseq[r] >= got[r].seq
      BY <1>0, <2>1 DEF CopyInv
    <3> HIDE DEF n
    <3>2. /\ rpc'[r] = "copy" => n + 1 < KnownWords(r)
          /\ rpc'[r] = "recheck" => n + 1 = KnownWords(r)
      BY <1>3, <2>1, <2>2
    <3>3. seq' = rseq'[r] => \A i \in 1..Len(copy'[r]) : copy'[r][i] = body'[i]
      BY <1>2, <2>1, <2>4, <2>5
    <3> QED
      BY <1>2, <1>3, <2>1, <2>4, <3>1, <3>2, <3>3 DEF CopyInv
  <2>7. BehindInv(r)'
    BY <1>0, <1>2, <2>1 DEF BehindInv
  <2>8. SleepInv(r)'
    BY <2>1 DEF SleepInv
  <2>9. GotInv(r)'
    BY <1>14, <2>1
  <2> QED
    BY <2>6, <2>7, <2>8, <2>9
<1>9. CASE Accept(r)
  <2>1. /\ rpc[r] = "recheck" /\ rpc'[r] = "wait" /\ seq = rseq[r]
        /\ got'[r] = [seq |-> rseq[r], image |-> copy[r]]
        /\ repoch' = repoch /\ rseq' = rseq /\ floor' = floor
    BY <1>0, <1>9 DEF Accept, Goto, ReaderTypeOK
  <2>2. /\ seq % 2 = 0 /\ Len(copy[r]) = KnownWords(r)
        /\ \A i \in 1..KnownWords(r) : copy[r][i] = body[i]
    BY <1>0, <2>1 DEF CopyInv
  <2>3. copy[r] = Prefix(body, KnownWords(r))
    <3>1. \A i \in 1..KnownWords(r) : body[i] \in Int
      BY <1>0, KnownFacts DEF TypeOK
    <3>2. Prefix(body, KnownWords(r)) \in Seq(Int) /\ Len(Prefix(body, KnownWords(r))) = KnownWords(r)
      BY <1>3, <3>1 DEF Prefix
    <3> QED
      BY <1>13, <2>2, <3>2, SameElements, Zenon DEF Prefix
  <2>4. [seq |-> seq, image |-> body] \in committed
    BY <1>0, <2>2 DEF CommittedInv
  <2>5. GotInv(r)'
    <3>1. PICK c \in committed : c.seq = seq /\ c.image = body
      BY <2>4
    <3>2. c \in committed' /\ KnownWords(r)' = KnownWords(r)
      BY <1>2, <1>3
    <3>3. got'[r].seq = seq /\ got'[r].image = copy[r]
      BY <2>1
    <3> QED
      BY <2>3, <3>1, <3>2, <3>3, Zenon DEF GotInv
  <2>6. ASSUME last # NoKey, wpc \in {"idle", "body", "even"}
        PROVE  got'[r] # Nothing /\ KeyOf(got'[r].image) = last
    <3>1. wpc = "idle"
      <4>1. wseq \in Nat
        BY <1>0 DEF TypeOK
      <4>2. wpc \in {"body", "even"} => seq % 2 = 1
        BY <1>0, <4>1, Parity DEF SeqInv
      <4> QED
        BY <2>2, <2>6, <4>2
    <3>2. body[1] > 0 /\ log[body[1]].key = last
      BY <1>0, <2>6, <3>1 DEF KeyInv
    <3>3. copy[r][1] = body[1] /\ body[1] \in Int
      <4>1. 1 \in 1..KnownWords(r)
        BY <1>3
      <4>2. 1 \in Words
        BY <1>0, KnownFacts
      <4> QED
        BY <1>0, <2>2, <4>1, <4>2 DEF TypeOK
    <3>4. copy[r] # <<>>
      BY <1>3, <2>2
    <3> QED
      <4>1. got'[r].image = copy[r]
        BY <2>1
      <4>2. got'[r] # Nothing
        <5>1. Nothing.image = <<>>
          BY DEF Nothing
        <5> QED
          BY <3>4, <4>1, <5>1
      <4>3. ~(copy[r][1] <= 0)
        BY <3>2, <3>3
      <4> QED
        BY <3>2, <3>3, <3>4, <4>1, <4>2, <4>3, Zenon DEF KeyOf
  <2>7. SleepInv(r)'
    BY <1>2, <1>4, <2>1, <2>6 DEF SleepInv
  <2>8. BehindInv(r)'
    <3>1. got'[r].seq = seq /\ repoch'[r] = repoch[r] /\ floor'[r] = floor[r]
      BY <2>1
    <3>2. repoch[r] <= epoch /\ floor[r] <= seq
      BY <1>0 DEF BehindInv
    <3>3. seq <= seq
      BY <1>3
    <3> QED
      BY <1>2, <3>1, <3>2, <3>3, Zenon DEF BehindInv
  <2>9. CopyInv(r)'
    BY <2>1 DEF CopyInv
  <2> QED
    BY <2>5, <2>7, <2>8, <2>9
<1> QED
  BY <1>5, <1>6, <1>7, <1>8, <1>9 DEF ReaderStep

\* A reader's step does not touch another reader's read.
LEMMA OtherReadsStay ==
  ASSUME ReaderInv, NEW r \in Readers, ReaderStep(r), NEW q \in Readers, q # r
  PROVE  BehindInv(q)' /\ CopyInv(q)' /\ GotInv(q)' /\ SleepInv(q)'
<1>0. /\ ReaderTypeOK
      /\ BehindInv(q) /\ CopyInv(q) /\ GotInv(q) /\ SleepInv(q)
  BY DEF ReaderInv
<1>1. UNCHANGED vars /\ rminor' = rminor
  BY DEF ReaderStep, LoadEpoch, CheckMagic, CheckIdent, CheckSize, LoadSeq,
     CopyWord, Accept, Retry, Torn, Wake
<1>2. /\ seq' = seq /\ epoch' = epoch /\ body' = body /\ wpc' = wpc
      /\ last' = last /\ log' = log /\ committed' = committed
  BY <1>1 DEF vars, page, writer, history
<1>3. /\ rpc'[q] = rpc[q] /\ repoch'[q] = repoch[q] /\ rseq'[q] = rseq[q]
      /\ copy'[q] = copy[q] /\ got'[q] = got[q] /\ floor'[q] = floor[q]
  BY <1>0 DEF ReaderStep, LoadEpoch, CheckMagic, CheckIdent, CheckSize, LoadSeq,
     CopyWord, Accept, Retry, Torn, Wake, Goto, ReaderTypeOK
<1>4. KnownWords(q)' = KnownWords(q) /\ KeyOf(got[q].image)' = KeyOf(got[q].image)
  BY <1>1, <1>2, <1>3 DEF KnownWords, KeyOf
<1>5. BehindInv(q)' /\ CopyInv(q)'
  BY <1>0, <1>2, <1>3, <1>4 DEF BehindInv, CopyInv
<1>6. GotInv(q)'
  BY <1>0, <1>2, <1>3, <1>4 DEF GotInv
<1>7. SleepInv(q)'
  BY <1>0, <1>2, <1>3, <1>4 DEF SleepInv
<1> QED
  BY <1>5, <1>6, <1>7

LEMMA ReaderInvInit == Init /\ InitReader => ReaderInv
<1> SUFFICES ASSUME Init, InitReader
             PROVE  ReaderInv
  OBVIOUS
<1>1. ReaderTypeOK /\ PageInv
  BY ReaderTypeInit, PageInit
<1>2. ASSUME NEW r \in Readers
      PROVE  BehindInv(r) /\ CopyInv(r) /\ GotInv(r) /\ SleepInv(r)
  <2>1. /\ rpc[r] = "start" /\ repoch[r] = 0 /\ got[r] = Nothing /\ floor[r] = 0
        /\ got[r].seq = 0
    BY DEF InitReader, Nothing
  <2>2. epoch = 0 /\ seq = 0
    BY DEF Init
  <2>3. BehindInv(r)
    BY <2>1, <2>2 DEF BehindInv
  <2> QED
    BY <2>1, <2>3 DEF CopyInv, GotInv, SleepInv
<1> QED
  BY <1>1, <1>2 DEF ReaderInv

\* The inductive invariant of the page with its readers.
LEMMA ReaderInvStep == ReaderInv /\ [Next]_allvars => ReaderInv'
<1> SUFFICES ASSUME ReaderInv, [Next]_allvars
             PROVE  ReaderInv'
  OBVIOUS
<1>1. ReaderTypeOK'
  BY ReaderTypeStep
<1>2. CASE WriterStep /\ UNCHANGED reader
  <2>1. PageInv'
    BY <1>2, PageStep DEF ReaderInv
  <2> QED
    BY <1>1, <1>2, <2>1, WriterKeepsReads DEF ReaderInv
<1>3. ASSUME NEW r \in Readers, ReaderStep(r)
      PROVE  ReaderInv'
  <2>1. UNCHANGED vars
    BY <1>3 DEF ReaderStep, LoadEpoch, CheckMagic, CheckIdent, CheckSize, LoadSeq,
       CopyWord, Accept, Retry, Torn, Wake
  <2>2. PageInv'
    BY <2>1, PageStep DEF ReaderInv
  <2>3. \A q \in Readers : BehindInv(q)' /\ CopyInv(q)' /\ GotInv(q)' /\ SleepInv(q)'
    BY <1>3, ReaderKeepsReads, OtherReadsStay
  <2> QED
    BY <1>1, <2>2, <2>3 DEF ReaderInv
<1>4. CASE UNCHANGED allvars
  <2>1. UNCHANGED vars /\ UNCHANGED reader
    BY <1>4 DEF allvars
  <2>2. PageInv'
    BY <2>1, PageStep DEF ReaderInv
  <2>3. UNCHANGED <<seq, epoch, body, wpc, last, log, committed,
                    rpc, rminor, repoch, rseq, copy, got, floor>>
    BY <2>1 DEF vars, page, writer, history, reader
  <2>4. ASSUME NEW r \in Readers
        PROVE  BehindInv(r)' /\ CopyInv(r)' /\ GotInv(r)' /\ SleepInv(r)'
    BY <2>3 DEF ReaderInv, BehindInv, CopyInv, GotInv, SleepInv, KnownWords, KeyOf
  <2> QED
    BY <1>1, <2>2, <2>4 DEF ReaderInv
<1> QED
  BY <1>2, <1>3, <1>4 DEF Next

LEMMA ReaderInvariant == Spec => []ReaderInv
  BY ReaderInvInit, ReaderInvStep, PTL DEF Spec, SystemInit

-----------------------------------------------------------------------------
\* Every variable of the page, its writers and its readers keeps its type.
THEOREM TypeCorrect == Spec => []ReaderTypeOK
<1>1. ReaderInv => ReaderTypeOK
  BY DEF ReaderInv
<1> QED
  BY <1>1, ReaderInvariant, PTL

\* The seqlock works for any number of readers, of any minor, against any
\* number of writers dying anywhere: an accepted copy is a committed body.
THEOREM ReadsAreCommitted == Spec => []AcceptedIsCommitted
<1>1. ReaderInv => AcceptedIsCommitted
  BY DEF ReaderInv, GotInv, AcceptedIsCommitted
<1> QED
  BY <1>1, ReaderInvariant, PTL

\* Publish keeps seq odd while the body is a mix, and Resume leaves it odd.
THEOREM EvenBodiesAreWhole == Spec => []EvenBodyWhole
<1>1. ReaderInv => EvenBodyWhole
  BY DEF ReaderInv, PageInv, BodyInv
<1> QED
  BY <1>1, ReaderInvariant, PTL

\* No word the publishing minor wrote is missing from an accepted read.
THEOREM ReadsAreWhole == Spec => []AcceptedWhole
<1>1. ASSUME ReaderInv
      PROVE  AcceptedWhole
  <2> SUFFICES ASSUME NEW r \in Readers, got[r] # Nothing,
                      NEW i \in Covered(got[r].image) \cap 1..KnownWords(r)
               PROVE  got[r].image[i] = got[r].image[1]
    BY DEF AcceptedWhole
  <2>0. ReaderTypeOK /\ ImagesInv /\ GotInv(r)
    BY <1>1 DEF ReaderInv, PageInv
  <2>1. PICK c \in committed : got[r].image = Prefix(c.image, KnownWords(r))
    BY <2>0 DEF GotInv
  <2>2. 1 \in 1..KnownWords(r)
    BY <2>0, KnownFacts
  <2>3. got[r].image[1] = c.image[1] /\ got[r].image[i] = c.image[i]
    BY <2>1, <2>2 DEF Prefix
  <2>4. Covered(got[r].image) = Covered(c.image)
    BY <2>3 DEF Covered
  <2> QED
    BY <2>0, <2>3, <2>4 DEF ImagesInv
<1> QED
  BY <1>1, ReaderInvariant, PTL

\* The seqlock of Publish, Resume and the readers' Load holds, for any number
\* of readers and of writers dying anywhere.
THEOREM SeqlockIsSound == Spec => []SeqlockHolds
  BY EvenBodiesAreWhole, ReadsAreCommitted, ReadsAreWhole, PTL DEF SeqlockHolds

\* PageNotifyDue and the order of Publish's last two stores lose no change of
\* key: a first publication is always due, and notifyEpoch follows the even seq.
THEOREM NoReaderSleepsThroughAKey == Spec => []NoLostWakeup
<1>1. ReaderInv => NoLostWakeup
  BY DEF ReaderInv, SleepInv, NoLostWakeup
<1> QED
  BY <1>1, ReaderInvariant, PTL

\* seq only grows, whoever writes the page.
THEOREM SeqNeverRepeats == Spec => SeqAdvances
<1>1. ReaderInv /\ [Next]_allvars => [seq' # seq => seq' > seq]_vars
  <2> SUFFICES ASSUME ReaderInv, [Next]_allvars
               PROVE  seq' = seq \/ seq' > seq
    OBVIOUS
  <2>1. [WriterStep]_vars
    BY DEF Next, ReaderStep, LoadEpoch, CheckMagic, CheckIdent, CheckSize, LoadSeq,
       CopyWord, Accept, Retry, Torn, Wake, allvars
  <2> QED
    BY <2>1, SeqGrows DEF ReaderInv, PageInv
<1> QED
  BY <1>1, ReaderInvariant, PTL DEF Spec, SystemInit, SeqAdvances

\* notifyEpoch is stored last, once the publication it announces is readable.
THEOREM EpochFollowsTheBody == Spec => EpochAfterEven
<1> DEFINE Announces ==
      epoch' # epoch =>
        /\ epoch' = epoch + 1
        /\ seq % 2 = 0
        /\ body[1] = Len(log)
        /\ \A i \in Covered(body) : body[i] = body[1]
<1>1. ReaderInv /\ [Next]_allvars => [Announces]_vars
  <2> SUFFICES ASSUME ReaderInv, [Next]_allvars, epoch' # epoch
               PROVE  Announces
    OBVIOUS
  <2>1. WriterStep
    BY DEF Next, ReaderStep, LoadEpoch, CheckMagic, CheckIdent, CheckSize, LoadSeq,
       CopyWord, Accept, Retry, Torn, Wake, allvars, vars, page
  <2>2. StoreEpoch
    BY <2>1, Zenon DEF WriterStep, WriterProgress, NewPageWriter, Resume, StoreHeader, IdentWord,
       Publish, StoreBody, StoreEven, Crash, PublishRefused, vars, page
  <2>3. /\ wpc = "epoch" /\ epoch' = wepoch + 1
        /\ SeqInv /\ BodyInv /\ KeyInv
    BY <2>2 DEF StoreEpoch, ReaderInv, PageInv
  <2> QED
    BY <2>3 DEF SeqInv, BodyInv, KeyInv, EvenBodyWhole
<1> QED
  BY <1>1, ReaderInvariant, PTL DEF Spec, SystemInit, EpochAfterEven

\* Whoever writes the page, seq grows and notifyEpoch follows the publication.
THEOREM StoresAreInOrder == Spec => StoresInOrder
  BY SeqNeverRepeats, EpochFollowsTheBody DEF StoresInOrder

-----------------------------------------------------------------------------
\* The page implements the register of module PageRegister: StoreEven replaces
\* its value, LoadEpoch begins a read, Accept delivers one, and every other
\* step of a writer or a reader leaves it alone.
THEOREM PageIsARegister == Spec => ImplementsRegister
<1> DEFINE known == [r \in Readers |-> KnownWords(r)]
<1>1. Init /\ InitReader => Register!RegInit
  BY DEF Init, InitWriter, InitReader, Register!RegInit, Nothing
<1>2. ReaderInv /\ [Next]_allvars => [Register!RegNext]_(Register!regvars)
  <2> SUFFICES ASSUME ReaderInv, [Next]_allvars
               PROVE  [Register!RegNext]_(Register!regvars)
    OBVIOUS
  <2>0. TypeOK /\ SeqInv /\ CommittedInv /\ ReaderTypeOK
    BY DEF ReaderInv, PageInv
  <2>1. known' = known
    <3>1. rminor' = rminor
      BY DEF Next, reader, ReaderStep, LoadEpoch, CheckMagic, CheckIdent, CheckSize,
         LoadSeq, CopyWord, Accept, Retry, Torn, Wake, allvars
    <3> QED
      BY <3>1 DEF KnownWords
  <2>2. CASE StoreEven /\ UNCHANGED reader
    <3> DEFINE new == [seq |-> wseq + 2, image |-> body]
    <3>1. committed' = committed \cup {new} /\ floor' = floor /\ got' = got
      BY <2>2 DEF StoreEven, reader
    <3>2. \A d \in committed : d.seq < new.seq
      <4>1. seq = wseq + 1 /\ wseq \in Nat
        BY <2>0, <2>2 DEF StoreEven, SeqInv, TypeOK
      <4>2. ASSUME NEW d \in committed
            PROVE  d.seq < wseq + 2
        <5>1. d.seq \in Nat /\ d.seq <= seq
          BY <2>0 DEF CommittedInv, TypeOK
        <5> QED
          BY <4>1, <5>1
      <4> QED
        BY <4>2
    <3>3. new \in committed'
      BY <3>1
    <3> HIDE DEF new
    <3>4. Register!Replace
      BY <2>1, <3>1, <3>2, <3>3 DEF Register!Replace
    <3> QED
      BY <3>4 DEF Register!RegNext
  <2>3. ASSUME NEW r \in Readers, LoadEpoch(r)
        PROVE  Register!RegNext
    <3>1. /\ floor' = [floor EXCEPT ![r] = LatestCommitted]
          /\ committed' = committed /\ got' = got
      BY <2>3 DEF LoadEpoch, vars, history
    <3>2. Register!Begin(r)
      BY <2>0, <2>1, <3>1, LatestFacts, Zenon DEF Register!Begin
    <3> QED
      BY <3>2 DEF Register!RegNext
  <2>4. ASSUME NEW r \in Readers, Accept(r)
        PROVE  Register!RegNext
    <3>1. /\ rpc[r] = "recheck" /\ seq = rseq[r]
          /\ got' = [got EXCEPT ![r] = [seq |-> rseq[r], image |-> copy[r]]]
          /\ committed' = committed /\ floor' = floor
      BY <2>4 DEF Accept, vars, history
    <3>2. GotInv(r)' /\ ReaderTypeOK'
      BY <2>4, ReaderKeepsReads, ReaderTypeStep DEF ReaderStep
    <3>3. PICK c \in committed : /\ c.seq = got'[r].seq
                                 /\ got'[r].image = Prefix(c.image, KnownWords(r))
      <4>1. got'[r].image = copy[r]
        BY <2>0, <3>1 DEF ReaderTypeOK
      <4>2. Len(copy[r]) = KnownWords(r) /\ KnownWords(r) # 0
        BY <2>0, <3>1, KnownFacts DEF ReaderInv, CopyInv
      <4>3. got'[r] # Nothing
        BY <4>1, <4>2 DEF Nothing
      <4>4. KnownWords(r)' = KnownWords(r)
        BY <2>4 DEF Accept, KnownWords
      <4> QED
        BY <3>1, <3>2, <4>3, <4>4 DEF GotInv
    <3>4. got'[r] = [seq |-> rseq[r], image |-> copy[r]]
      BY <2>0, <3>1 DEF ReaderTypeOK
    <3>5. /\ got' = [got EXCEPT ![r] =
                      [seq |-> c.seq, image |-> [i \in 1..known[r] |-> c.image[i]]]]
      BY <3>1, <3>3, <3>4, Zenon DEF Prefix
    <3>6. c.seq >= floor[r] /\ c.seq >= got[r].seq
      <4>1. c.seq = rseq[r]
        BY <3>3, <3>4
      <4> QED
        BY <3>1, <4>1 DEF ReaderInv, CopyInv
    <3> HIDE DEF known
    <3>7. Register!Deliver(r)
      BY <2>1, <3>1, <3>5, <3>6, Zenon DEF Register!Deliver, known
    <3> QED
      BY <3>7 DEF Register!RegNext
  <2>5. CASE UNCHANGED <<committed, floor, got>>
    BY <2>1, <2>5 DEF Register!regvars
  <2>6. CASE WriterStep /\ ~StoreEven /\ UNCHANGED reader
    <3>1. /\ committed' = committed /\ floor' = floor /\ got' = got
      BY <2>6, Zenon DEF WriterStep, WriterProgress, NewPageWriter, Resume, StoreHeader, IdentWord,
         Publish, StoreBody, StoreEpoch, Crash, PublishRefused, vars, history, reader
    <3> QED
      BY <2>5, <3>1
  <2>7. ASSUME NEW r \in Readers, ReaderStep(r), ~LoadEpoch(r), ~Accept(r)
        PROVE  [Register!RegNext]_(Register!regvars)
    <3>1. /\ committed' = committed /\ floor' = floor /\ got' = got
      BY <2>7 DEF ReaderStep, CheckMagic, CheckIdent, CheckSize, LoadSeq, CopyWord,
         Retry, Torn, Wake, vars, history
    <3> QED
      BY <2>5, <3>1
  <2>8. CASE UNCHANGED allvars
    BY <2>5, <2>8 DEF allvars, vars, history, reader
  <2> QED
    BY <2>2, <2>3, <2>4, <2>6, <2>7, <2>8 DEF Next
<1> QED
  BY <1>1, <1>2, ReaderInvariant, PTL DEF Spec, SystemInit, ImplementsRegister, Register!RegSpec

=============================================================================
