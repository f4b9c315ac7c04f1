----------------------------- MODULE HeaderProbe -----------------------------
(***************************************************************************)
(* A reader that only looks at the header of the page of module            *)
(* BudgetPage, twice, as the concurrent readers of                         *)
(* TestResumeHeaderConcurrentReaders do: load the abiMinor word, load the  *)
(* bodySize word, and again.  Resume rewrites the two words with two       *)
(* stores, outside the seqlock, so a read is not a snapshot of them.       *)
(***************************************************************************)
EXTENDS BudgetPage

VARIABLES
  hpc,      \* loads made so far: 0..4
  reads,    \* the words loaded, in order
  heldSince,\* history: the headers the page held since the first load
  overlaps, \* history: the Resumes that ran, in part or whole, meanwhile
  shrank    \* history: one of them was shrinking the body

probe == <<hpc, reads, heldSince, overlaps, shrank>>
probevars == <<vars, probe>>

Header == <<ident, size>>

ProbeInit ==
  /\ (Init \/ InitForeign)
  /\ hpc = 0
  /\ reads = <<>>
  /\ heldSince = {}
  /\ overlaps = 0
  /\ shrank = FALSE

\* The probe loads its next header word; the first load starts the record.
Load ==
  /\ hpc < 4
  /\ hpc' = hpc + 1
  /\ reads' = Append(reads, IF hpc % 2 = 0 THEN ident ELSE size)
  /\ IF hpc = 0
     THEN /\ heldSince' = {Header}
          /\ overlaps' = IF wpc = "header" THEN 1 ELSE 0
          /\ shrank' = (wpc = "header" /\ order = ShrinkOrder)
     ELSE UNCHANGED <<heldSince, overlaps, shrank>>
  /\ UNCHANGED vars

\* A writer step, recorded while the probe is between its loads.
Write ==
  /\ WriterStep
  /\ IF hpc \in 1..3
     THEN /\ heldSince' = heldSince \cup {Header'}
          /\ overlaps' = overlaps + IF wpc = "new" /\ wpc' = "header" THEN 1 ELSE 0
          /\ shrank' = (shrank \/ (wpc = "new" /\ wpc' = "header" /\ size > BodyWords[wminor]))
     ELSE UNCHANGED <<heldSince, overlaps, shrank>>
  /\ UNCHANGED <<hpc, reads>>

ProbeNext == Load \/ Write

ProbeSpec == ProbeInit /\ [][ProbeNext]_probevars

First == <<reads[1], reads[2]>>
Second == <<reads[3], reads[4]>>

\* "Two identical consecutive reads are a header the page really held":
\* they hold up across two Resumes, also when the first of them died midway.
IdenticalReadsWereHeld ==
  hpc = 4 /\ First = Second /\ overlaps <= 2 => First \in heldSince

\* A single read is a header the page held unless a rollback was shrinking
\* the body meanwhile: in an upgrade the reader never finds a minor with the
\* body of a smaller one.
SingleReadHeldInUpgrade ==
  hpc = 4 /\ ~shrank /\ overlaps <= 1 => {First, Second} \subseteq heldSince

\* Two loads of the header give one the page held: two reads that agree while
\* at most two Resumes went by, and any read beside one upgrade.
HeaderReadsWereHeld == IdenticalReadsWereHeld /\ SingleReadHeldInUpgrade
=============================================================================
