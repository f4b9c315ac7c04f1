------------------------------ MODULE PageLayout ------------------------------
(***************************************************************************)
(* How the budget page's fields get their offsets (budget/v1alpha1         *)
(* page.go, buildPageLayout): a loop over the field table, one step a      *)
(* field.  Nothing in the table is an offset, so every reader's and every  *)
(* older minor's view of the page rests on this loop.                      *)
(***************************************************************************)
EXTENDS Integers, Sequences

CONSTANT Tables  \* the field tables tried, each a sequence of fields

Kinds == {"bytes", "u16", "u32", "u64", "i64"}
Alignments == {0, 64}   \* a stricter alignment than the kind's own, or 0
Fields == [name : STRING, kind : Kinds, size : Nat \ {0}, align : Alignments]

ASSUME TablesAssumption == \A t \in Tables : t \in Seq(Fields)

VARIABLES specs,    \* the table being laid out
          offsets,  \* the offsets given so far, in order
          end       \* one past the last field placed
layoutvars == <<specs, offsets, end>>

LayoutInit == specs \in Tables /\ offsets = <<>> /\ end = 0

(* The alignment of a field. *)
Align(f) ==
    CASE f.align # 0 -> f.align
      [] f.align = 0 /\ f.kind = "u16" -> 2
      [] f.align = 0 /\ f.kind = "u32" -> 4
      [] OTHER -> 8

(* The least multiple of a that is not below n; a round down is not. *)
RoundUp_Down(n, a) == (n \div a) * a
RoundUp(n, a) == ((n + a - 1) \div a) * a

TheNext == Len(offsets) + 1

(* One turn of the loop. *)
Place ==
    /\ TheNext <= Len(specs)
    /\ LET at == RoundUp(end, Align(specs[TheNext]))
       IN /\ offsets' = Append(offsets, at)
          /\ end' = at + specs[TheNext].size
    /\ UNCHANGED specs

LayoutSpec == LayoutInit /\ [][Place]_layoutvars

-----------------------------------------------------------------------------
(* No two fields share a byte and every field ends below the end of the      *)
(* page's body so far, whatever the table (buildPageLayout).                 *)
FieldsAreApart ==
    /\ \A i, j \in 1..Len(offsets) : i < j => offsets[i] + specs[i].size <= offsets[j]
    /\ \A i \in 1..Len(offsets) : offsets[i] + specs[i].size <= end

(* Every field starts on its alignment: the words the writer stores and the  *)
(* readers load are whole fields (buildPageLayout).                          *)
FieldsAreAligned == \A i \in 1..Len(offsets) : offsets[i] % Align(specs[i]) = 0

(* The layout is sound: no byte belongs to two fields, and no field straddles *)
(* the words it is stored in (buildPageLayout).                              *)
LayoutSound == FieldsAreApart /\ FieldsAreAligned
=============================================================================
