----------------------------- MODULE NotifyWait -----------------------------
(***************************************************************************)
(* Waiting on the notify word (budget/v1alpha1 page.go, pageLayoutHeader   *)
(* and Publish): notifyEpoch is a 64-bit counter that wraps, a reader      *)
(* waits on its low 32-bit word and compares for inequality only.  The     *)
(* widths are constants: the counter has Turns * Low values, the word Low. *)
(***************************************************************************)
EXTENDS Integers, TLAPS

CONSTANTS Low, Turns, MaxMissed

ASSUME WidthAssumption == Low \in Nat \ {0} /\ Turns \in Nat \ {0}

VARIABLES
    notifyEpoch,   \* notifyEpoch
    seen,    \* the low word the reader loaded
    missed,  \* notifications since that load
    pc       \* the reader: "idle", "loaded" (reads the page next), "asleep"
waitvars == <<notifyEpoch, seen, missed, pc>>

Full == Turns * Low

\* The four bytes after the offset's, which hold the high half.
LowWord_High(e) == e \div Low

LowWord(e) == e % Low

WaitInit == notifyEpoch \in 0..(Full - 1) /\ seen = LowWord(notifyEpoch) /\ missed = 0 /\ pc = "idle"

\* Publish of a snapshot that PageNotifyDue finds due: w.epoch++, stored.
Bump ==
    /\ missed < MaxMissed
    /\ notifyEpoch' = (notifyEpoch + 1) % Full
    /\ missed' = missed + 1
    /\ UNCHANGED <<seen, pc>>

\* The reader loads the word, then reads the page.
LoadWord == pc = "idle" /\ pc' = "loaded" /\ seen' = LowWord(notifyEpoch) /\ missed' = 0 /\ UNCHANGED notifyEpoch

\* The wait compares the word with the loaded one, and sleeps when equal.
Sleep == pc = "loaded" /\ LowWord(notifyEpoch) = seen /\ pc' = "asleep" /\ UNCHANGED <<notifyEpoch, seen, missed>>
Return == pc \in {"loaded", "asleep"} /\ LowWord(notifyEpoch) # seen /\ pc' = "idle" /\ UNCHANGED <<notifyEpoch, seen, missed>>

WaitNext == Bump \/ LoadWord \/ Sleep \/ Return
WaitSpec == WaitInit /\ [][WaitNext]_waitvars

-----------------------------------------------------------------------------
(* A reader whose word still compares equal has missed a whole number of     *)
(* turns of the word: after fewer than Low notifications the wait always     *)
(* returns, wherever the 64-bit counter wrapped meanwhile (Publish, the      *)
(* notifyEpoch rule of pageLayoutHeader).                                    *)
EqualWordsHideWholeTurns == LowWord(notifyEpoch) = seen => missed % Low = 0

-----------------------------------------------------------------------------
(* The same for words of every width. *)

(* The loaded word and the notifications since are the counter, up to whole *)
(* turns of the word.                                                       *)
Turned ==
    /\ notifyEpoch \in 0..(Full - 1)
    /\ seen \in 0..(Low - 1)
    /\ missed \in Nat
    /\ \E k \in Int : seen + missed = notifyEpoch + k * Low

(* The counter has at least one value, and a whole number of words (Full).  *)
LEMMA FullIsPositive == Full \in Nat /\ Full >= 1
  <1>1. ASSUME NEW a \in Nat \ {0}, NEW b \in Nat \ {0} PROVE a * b \in Nat /\ a * b >= 1
    <2>1. a * b \in Nat
      BY <1>1
    <2>2. a * b = (a - 1) * b + b /\ (a - 1) * b >= 0
      BY <1>1
    <2> QED BY <2>1, <2>2
  <1> QED BY <1>1, WidthAssumption DEF Full

(* The low word of a value differs from it by whole words (LowWord).         *)
LEMMA LowWordIsARemainder ==
    ASSUME NEW e \in Nat
    PROVE  LowWord(e) \in 0..(Low - 1) /\ \E q \in Int : e = q * Low + LowWord(e)
  <1> DEFINE q == e \div Low
  <1>1. e % Low \in 0..(Low - 1) /\ q \in Int /\ e = Low * q + (e % Low)
    BY WidthAssumption
  <1>2. Low * q = q * Low
    BY <1>1, WidthAssumption
  <1> HIDE DEF q
  <1> QED BY <1>1, <1>2 DEF LowWord

(* A value counted by whole words has no remainder.                          *)
LEMMA WholeTurnsHaveNoRemainder ==
    ASSUME NEW n \in Nat, NEW k \in Int, n = k * Low
    PROVE  n % Low = 0
  <1> DEFINE q == n \div Low
             r == n % Low
  <1>1. r \in 0..(Low - 1) /\ q \in Int /\ n = Low * q + r
    BY WidthAssumption
  <1> HIDE DEF q, r
  <1>2. r = (k - q) * Low
    BY <1>1, WidthAssumption
  <1>3. k - q \in Int /\ (k - q >= 1 \/ k - q = 0 \/ k - q <= -1)
    BY <1>1
  <1> DEFINE d == k - q
  <1> HIDE DEF d
  <1>4. d \in Int /\ r = d * Low /\ Low \in Int /\ Low >= 1
    BY <1>2, <1>3, WidthAssumption DEF d
  <1>5. ~ d >= 1
    <2>1. SUFFICES ASSUME d >= 1 PROVE FALSE
      OBVIOUS
    <2>2. d * Low = (d - 1) * Low + Low /\ (d - 1) * Low >= 0
      BY <1>4, <2>1
    <2> QED BY <1>1, <1>4, <2>2
  <1>6. ~ d <= -1
    <2>1. SUFFICES ASSUME d <= -1 PROVE FALSE
      OBVIOUS
    <2>2. d * Low = (d + 1) * Low - Low /\ (d + 1) * Low <= 0
      BY <1>4, <2>1
    <2> QED BY <1>1, <1>4, <2>2
  <1>7. r = 0
    BY <1>3, <1>4, <1>5, <1>6 DEF d
  <1> QED BY <1>7 DEF r

(* The reader starts with the word it loaded (WaitInit).                         *)
LEMMA InitIsTurned == WaitInit => Turned
  <1> SUFFICES ASSUME WaitInit PROVE Turned
    OBVIOUS
  <1>1. notifyEpoch \in 0..(Full - 1) /\ notifyEpoch \in Nat /\ missed = 0 /\ seen = LowWord(notifyEpoch)
    BY FullIsPositive DEF WaitInit
  <1>2. PICK q \in Int : seen \in 0..(Low - 1) /\ notifyEpoch = q * Low + seen
    BY <1>1, LowWordIsARemainder
  <1>3. -q \in Int /\ seen + missed = notifyEpoch + (-q) * Low
    BY <1>1, <1>2, WidthAssumption
  <1> QED BY <1>1, <1>2, <1>3 DEF Turned

(* Every step keeps the count: a bump adds one to both sides, and a counter  *)
(* that wraps drops a whole number of words (Publish).                       *)
LEMMA NextKeepsTurned == Turned /\ [WaitNext]_waitvars => Turned'
  <1> SUFFICES ASSUME Turned, [WaitNext]_waitvars PROVE Turned'
    OBVIOUS
  <1>0. notifyEpoch \in 0..(Full - 1) /\ notifyEpoch \in Nat /\ seen \in 0..(Low - 1) /\ missed \in Nat
    BY FullIsPositive DEF Turned
  <1>k. PICK k \in Int : seen + missed = notifyEpoch + k * Low
    BY DEF Turned
  <1>1. CASE Bump
    <2>1. missed' = missed + 1 /\ seen' = seen /\ notifyEpoch' = (notifyEpoch + 1) % Full
      BY <1>1 DEF Bump
    <2>2. CASE notifyEpoch + 1 < Full
      <3>1. notifyEpoch' = notifyEpoch + 1
        BY <1>0, <2>1, <2>2, FullIsPositive
      <3>2. seen' + missed' = notifyEpoch' + k * Low
        BY <1>0, <1>k, <2>1, <3>1, WidthAssumption
      <3> QED BY <1>0, <2>1, <2>2, <3>1, <3>2, FullIsPositive DEF Turned
    <2>3. CASE notifyEpoch + 1 = Full
      <3>1. notifyEpoch' = 0
        BY <2>1, <2>3, FullIsPositive
      <3>2. k + Turns \in Int /\ (k + Turns) * Low = k * Low + Turns * Low
        BY WidthAssumption
      <3>3. seen' + missed' = notifyEpoch' + (k + Turns) * Low
        BY <1>0, <1>k, <2>1, <2>3, <3>1, <3>2, WidthAssumption DEF Full
      <3> QED BY <1>0, <2>1, <3>1, <3>2, <3>3, FullIsPositive DEF Turned
    <2> QED BY <1>0, <2>2, <2>3, FullIsPositive
  <1>2. CASE LoadWord
    <2>1. notifyEpoch' = notifyEpoch /\ missed' = 0 /\ seen' = LowWord(notifyEpoch)
      BY <1>2 DEF LoadWord
    <2>2. PICK q \in Int : seen' \in 0..(Low - 1) /\ notifyEpoch = q * Low + seen'
      BY <1>0, <2>1, LowWordIsARemainder
    <2>3. -q \in Int /\ seen' + missed' = notifyEpoch' + (-q) * Low
      BY <1>0, <2>1, <2>2, WidthAssumption
    <2> QED BY <1>0, <2>1, <2>2, <2>3 DEF Turned
  <1>3. CASE Sleep \/ Return \/ UNCHANGED waitvars
    <2>1. notifyEpoch' = notifyEpoch /\ missed' = missed /\ seen' = seen
      BY <1>3 DEF Sleep, Return, waitvars
    <2> QED BY <1>0, <1>k, <2>1 DEF Turned
  <1> QED BY <1>1, <1>2, <1>3 DEF WaitNext

(* Whatever the widths, a reader whose word compares equal has missed a      *)
(* whole number of turns of it (Publish, the notifyEpoch rule).              *)
THEOREM WaitMissesOnlyWholeTurns == WaitSpec => []EqualWordsHideWholeTurns
  <1>1. Turned => EqualWordsHideWholeTurns
    <2> SUFFICES ASSUME Turned, LowWord(notifyEpoch) = seen PROVE missed % Low = 0
      BY DEF EqualWordsHideWholeTurns
    <2>0. notifyEpoch \in Nat /\ missed \in Nat /\ seen \in 0..(Low - 1)
      BY FullIsPositive DEF Turned
    <2>1. PICK k \in Int : seen + missed = notifyEpoch + k * Low
      BY DEF Turned
    <2>2. PICK q \in Int : notifyEpoch = q * Low + seen
      BY <2>0, LowWordIsARemainder
    <2>3. q + k \in Int /\ (q + k) * Low = q * Low + k * Low
      BY WidthAssumption
    <2>4. missed = (q + k) * Low
      BY <2>0, <2>1, <2>2, <2>3, WidthAssumption
    <2> QED BY <2>0, <2>3, <2>4, WholeTurnsHaveNoRemainder
  <1> QED BY <1>1, InitIsTurned, NextKeepsTurned, PTL DEF WaitSpec
=============================================================================
