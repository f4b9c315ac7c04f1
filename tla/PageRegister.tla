---------------------------- MODULE PageRegister ----------------------------
(***************************************************************************)
(* What the budget page promises its readers, stated without words, seq or *)
(* retries: a register that a writer replaces whole.  A read that delivers *)
(* a value delivers one the register held, and none older than the value   *)
(* it held when the read began or than the last value delivered to the     *)
(* same reader.  A read may also come to nothing.  Module BudgetReader     *)
(* implements it.                                                          *)
(***************************************************************************)
EXTENDS Integers

CONSTANT Readers

VARIABLES
  held,   \* the values the register has held: a set of [seq, image]
  known,  \* known[r]: how many words of a value reader r knows
  floor,  \* floor[r]: the number of the value held when r's read began
  got     \* got[r]: the value delivered to r last

regvars == <<held, known, floor, got>>

RegInit ==
  /\ \E c \in held : held = {c}
  /\ floor = [r \in Readers |-> 0]
  /\ got = [r \in Readers |-> [seq |-> 0, image |-> <<>>]]

\* The writer replaces the value.
Replace ==
  /\ \E c \in held' :
       /\ held' = held \cup {c}
       /\ \A d \in held : d.seq < c.seq
  /\ UNCHANGED <<known, floor, got>>

Begin(r) ==
  /\ \E c \in held :
       /\ \A d \in held : d.seq <= c.seq
       /\ floor' = [floor EXCEPT ![r] = c.seq]
  /\ UNCHANGED <<held, known, got>>

Deliver(r) ==
  /\ \E c \in held :
       /\ c.seq >= floor[r]
       /\ c.seq >= got[r].seq
       /\ got' = [got EXCEPT ![r] =
                   [seq |-> c.seq, image |-> [i \in 1..known[r] |-> c.image[i]]]]
  /\ UNCHANGED <<held, known, floor>>

RegNext == Replace \/ \E r \in Readers : Begin(r) \/ Deliver(r)

RegSpec == RegInit /\ [][RegNext]_regvars
=============================================================================
