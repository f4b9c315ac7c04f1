--------------------------- MODULE PageLayoutProofs ---------------------------
(***************************************************************************)
(* The layout loop's two promises, for every field table.                  *)
(***************************************************************************)
EXTENDS PageLayout, SeqFacts

(* Rounding up reaches a multiple and never goes back, for each alignment    *)
(* the layout uses.                                                          *)
LEMMA RoundUpFacts ==
    ASSUME NEW n \in Nat, NEW a \in {2, 4, 8, 64}
    PROVE  RoundUp(n, a) \in Nat /\ RoundUp(n, a) >= n /\ RoundUp(n, a) % a = 0
  <1>1. CASE a = 2 BY <1>1 DEF RoundUp
  <1>2. CASE a = 4 BY <1>2 DEF RoundUp
  <1>3. CASE a = 8 BY <1>3 DEF RoundUp
  <1>4. CASE a = 64 BY <1>4 DEF RoundUp
  <1> QED BY <1>1, <1>2, <1>3, <1>4

LEMMA AlignFacts ==
    ASSUME NEW f \in Fields
    PROVE  Align(f) \in {2, 4, 8, 64}
  BY DEF Align, Fields, Kinds, Alignments

(* The inductive invariant: the types, and the two properties. *)
IInv ==
    /\ specs \in Seq(Fields)
    /\ offsets \in Seq(Nat) /\ end \in Nat /\ Len(offsets) <= Len(specs)
    /\ FieldsAreApart /\ FieldsAreAligned

LEMMA InitInv == LayoutInit => IInv
  <1> SUFFICES ASSUME LayoutInit PROVE IInv
    OBVIOUS
  <1>1. specs \in Seq(Fields)
    BY TablesAssumption DEF LayoutInit
  <1>2. offsets \in Seq(Nat) /\ Len(offsets) = 0 /\ end = 0
    BY EmptyFacts DEF LayoutInit
  <1>3. Len(specs) \in Nat
    BY <1>1, LenFacts
  <1> QED BY <1>1, <1>2, <1>3 DEF IInv, FieldsAreApart, FieldsAreAligned

LEMMA StepInv == IInv /\ [Place]_layoutvars => IInv'
  <1> SUFFICES ASSUME IInv, [Place]_layoutvars PROVE IInv'
    OBVIOUS
  <1>1. CASE UNCHANGED layoutvars
    BY <1>1 DEF IInv, layoutvars, FieldsAreApart, FieldsAreAligned
  <1>2. CASE Place
    <2> DEFINE n == Len(offsets)
               f == specs[n + 1]
               a == Align(f)
               at == RoundUp(end, a)
    <2>1. n \in Nat /\ n + 1 <= Len(specs) /\ specs \in Seq(Fields) /\ offsets \in Seq(Nat) /\ end \in Nat
      BY <1>2, LenFacts DEF IInv, Place, TheNext
    <2>2. f \in Fields
      BY <2>1, LenFacts
    <2>3. f.size \in Nat /\ Align(f) \in {2, 4, 8, 64}
      BY <2>2, AlignFacts DEF Fields
    <2>4. at \in Nat /\ at >= end /\ at % Align(f) = 0
      <3>1. a \in {2, 4, 8, 64} /\ end \in Nat
        BY <2>1, <2>3
      <3> HIDE DEF a
      <3>2. RoundUp(end, a) \in Nat /\ RoundUp(end, a) >= end /\ RoundUp(end, a) % a = 0
        BY <3>1, RoundUpFacts
      <3> QED BY <3>2 DEF a
    <2>5. offsets' = Append(offsets, at) /\ end' = at + f.size /\ specs' = specs
      BY <1>2 DEF Place, TheNext
    <2> HIDE DEF at
    <2>6. /\ offsets' \in Seq(Nat) /\ Len(offsets') = n + 1
          /\ \A i \in 1..n : offsets'[i] = offsets[i]
          /\ offsets'[n + 1] = at
      BY <2>1, <2>4, <2>5, AppendFacts
    <2>7. end' \in Nat /\ end <= end'
      BY <2>1, <2>3, <2>4, <2>5
    <2>8. \A i \in 1..n : specs[i] \in Fields /\ offsets[i] \in Nat /\ specs[i].size \in Nat
      <3> SUFFICES ASSUME NEW i \in 1..n
                   PROVE  specs[i] \in Fields /\ offsets[i] \in Nat /\ specs[i].size \in Nat
        OBVIOUS
      <3>1. i \in 1..Len(specs) /\ i \in 1..Len(offsets)
        BY <2>1, LenFacts
      <3>2. specs[i] \in Fields
        BY <2>1, <3>1, LenFacts
      <3>3. offsets[i] \in Nat
        BY <2>1, <3>1, LenFacts
      <3> QED BY <3>2, <3>3 DEF Fields
    <2>9. \A i \in 1..n : offsets[i] + specs[i].size <= end
      BY DEF IInv, FieldsAreApart
    <2>10. \A i, j \in 1..n + 1 : i < j => offsets'[i] + specs[i].size <= offsets'[j]
      <3> SUFFICES ASSUME NEW i \in 1..n + 1, NEW j \in 1..n + 1, i < j
                   PROVE  offsets'[i] + specs[i].size <= offsets'[j]
        OBVIOUS
      <3>1. i \in 1..n
        BY <2>1
      <3>2. offsets'[i] = offsets[i] /\ offsets[i] \in Nat /\ specs[i].size \in Nat
        BY <3>1, <2>6, <2>8
      <3>3. CASE j \in 1..n
        <4>1. offsets[i] + specs[i].size <= offsets[j]
          BY <3>1, <3>3 DEF IInv, FieldsAreApart
        <4>2. offsets'[j] = offsets[j]
          BY <3>3, <2>6
        <4> QED BY <3>2, <4>1, <4>2
      <3>4. CASE j = n + 1
        <4>1. offsets[i] + specs[i].size <= end
          BY <3>1, <2>9
        <4>2. offsets'[j] = at
          BY <3>4, <2>6
        <4> HIDE DEF n, f, a
        <4> QED BY <2>1, <2>4, <3>2, <4>1, <4>2
      <3>5. j \in 1..n \/ j = n + 1
        BY <2>1
      <3> QED BY <3>3, <3>4, <3>5
    <2>11. \A i \in 1..n + 1 : offsets'[i] + specs[i].size <= end'
      <3> SUFFICES ASSUME NEW i \in 1..n + 1
                   PROVE  offsets'[i] + specs[i].size <= end'
        OBVIOUS
      <3>1. CASE i \in 1..n
        <4>1. offsets'[i] = offsets[i] /\ offsets[i] \in Nat /\ specs[i].size \in Nat
          BY <3>1, <2>6, <2>8
        <4>2. offsets[i] + specs[i].size <= end
          BY <3>1, <2>9
        <4> HIDE DEF n, f, a
        <4> QED BY <2>1, <2>7, <4>1, <4>2
      <3>2. CASE i = n + 1
        BY <3>2, <2>3, <2>4, <2>5, <2>6
      <3> QED BY <2>1, <3>1, <3>2
    <2>12. \A i \in 1..n + 1 : offsets'[i] % Align(specs[i]) = 0
      <3> SUFFICES ASSUME NEW i \in 1..n + 1
                   PROVE  offsets'[i] % Align(specs[i]) = 0
        OBVIOUS
      <3>1. CASE i \in 1..n
        BY <3>1, <2>6 DEF IInv, FieldsAreAligned
      <3>2. CASE i = n + 1
        BY <3>2, <2>4, <2>6
      <3> QED BY <2>1, <3>1, <3>2
    <2>13. FieldsAreApart'
      BY <2>5, <2>6, <2>10, <2>11 DEF FieldsAreApart
    <2>14. FieldsAreAligned'
      BY <2>5, <2>6, <2>12 DEF FieldsAreAligned, Align
    <2> QED BY <2>1, <2>5, <2>6, <2>7, <2>13, <2>14 DEF IInv
  <1> QED BY <1>1, <1>2

(* Whatever the table, no two fields of the page share a byte and each lies  *)
(* on its alignment: the offsets buildPageLayout computes need no check of   *)
(* their own.                                                                *)
THEOREM LayoutIsSound == LayoutSpec => []LayoutSound
  <1>1. IInv => LayoutSound
    BY DEF IInv, LayoutSound
  <1> QED BY InitInv, StepInv, <1>1, PTL DEF LayoutSpec
=============================================================================
