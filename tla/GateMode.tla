------------------------------- MODULE GateMode -------------------------------
(***************************************************************************)
(* The gate's --packages mode: hack/lib/affected-mode.sh reads a list of   *)
(* affected packages line by line (read_packages), resolve_gate_mode turns *)
(* it into the package set of go vet and go test, and hack/ci.sh runs that *)
(* set, all packages, or nothing.  The list comes from another program and *)
(* may be absent, cut short, out of order or for other repositories; the   *)
(* change under test is a second input the list has to agree with.         *)
(*                                                                         *)
(* A line is [k |-> kind, n |-> number]: "pkg" n is the package n, and the *)
(* numbers are the byte order of the import paths; "full" and "check" are  *)
(* the keyed lines of this repository (n = 1) or of another one (n = 0);   *)
(* "junk" is any line the grammar does not hold.  The header's text has    *)
(* the form of an import path, so it is the package Header.                *)
(***************************************************************************)
EXTENDS Integers, Sequences, FiniteSets

CONSTANTS Pkgs,      \* the import paths, as their rank in byte order
          Own,       \* those of this module
          Header,    \* the rank of the text "k3sm-affected/v1"
          MaxLines   \* bound on the lines a list holds

VARIABLES st,        \* where the gate is
          lines,     \* the lines read so far
          phase,     \* 0 packages, 1 after a @full, 2 after a @check
          prev,      \* the last package line, 0 for none
          seen_end,
          pf_pkgs,   \* the packages read
          pf_full,   \* a @full line of this repository was read
          mode, test_set,
          changed    \* kinds of file the change holds

vars == <<st, lines, phase, prev, seen_end, pf_pkgs, pf_full, mode, test_set, changed>>
reader == <<lines, phase, prev, seen_end, pf_pkgs, pf_full>>

Kinds == {"go", "doc", "other"}
Line(k, n) == [k |-> k, n |-> n]
Lines == {Line("pkg", p) : p \in Pkgs}
         \cup {Line(k, n) : k \in {"full", "check"}, n \in {0, 1}}
         \cup {Line(k, 0) : k \in {"junk", "end"}}

Init ==
    /\ st = "start"
    /\ lines = <<>> /\ phase = 0 /\ prev = 0 /\ seen_end = FALSE
    /\ pf_pkgs = {} /\ pf_full = FALSE
    /\ mode = "full" /\ test_set = Pkgs
    /\ changed \in SUBSET Kinds

-----------------------------------------------------------------------------
(* read_packages *)

\* No --packages flag: the full gate.
NoFlag == /\ st = "start" /\ st' = "resolved"
          /\ UNCHANGED <<reader, mode, test_set, changed>>

\* A file that is absent, unreadable, empty, without a final newline, or not
\* UTF-8 text is refused before its first line.
BadFile == /\ st = "start" /\ st' = "refused"
           /\ UNCHANGED <<reader, mode, test_set, changed>>

Open == /\ st = "start" /\ st' = "reading"
        /\ UNCHANGED <<reader, mode, test_set, changed>>

\* What the loop accepts as the next line.  The first is the header; the same
\* text further down is one more package line, of no package of this module.
LineOK(l) ==
    CASE seen_end           -> FALSE
      [] lines = <<>>       -> l = Line("pkg", Header)
      [] l.k = "end"        -> TRUE
      [] l.k = "full"       -> phase <= 1
      [] l.k = "check"      -> TRUE
      [] l.k = "pkg"        -> phase = 0 /\ prev < l.n
      [] OTHER              -> FALSE

ReadLine(l) ==
    /\ st = "reading" /\ Len(lines) < MaxLines
    /\ lines' = Append(lines, l)
    /\ IF LineOK(l)
       THEN /\ st' = st
            /\ seen_end' = (l.k = "end")
            /\ phase' = CASE l.k = "full" -> 1 [] l.k = "check" -> 2 [] OTHER -> phase
            /\ LET package == l.k = "pkg" /\ lines # <<>> IN
               /\ prev' = IF package THEN l.n ELSE prev
               /\ pf_pkgs' = IF package THEN pf_pkgs \cup {l.n} ELSE pf_pkgs
            /\ pf_full' = (pf_full \/ l = Line("full", 1))
       ELSE st' = "refused" /\ UNCHANGED <<phase, prev, seen_end, pf_pkgs, pf_full>>
    /\ UNCHANGED <<mode, test_set, changed>>

EndOfFile_Truncated == /\ st = "reading" /\ lines # <<>> /\ st' = "read"
                       /\ UNCHANGED <<reader, mode, test_set, changed>>

\* The file ends; a list whose last line is not @end is refused.  The file is
\* not empty, so at least one line was read.
EndOfFile == /\ st = "reading" /\ lines # <<>>
             /\ st' = IF seen_end THEN "read" ELSE "refused"
             /\ UNCHANGED <<reader, mode, test_set, changed>>

-----------------------------------------------------------------------------
(* resolve_gate_mode *)

own == pf_pkgs \cap Own

\* A refused list, and a @full line of this repository, leave the full gate.
ResolveFull == /\ st = "refused" \/ (st = "read" /\ pf_full)
               /\ st' = "resolved"
               /\ UNCHANGED <<reader, mode, test_set, changed>>

ResolveOwn == /\ st = "read" /\ ~pf_full /\ own # {}
              /\ st' = "resolved" /\ mode' = "packages" /\ test_set' = own
              /\ UNCHANGED <<reader, changed>>

\* No package of this module is listed.  base: the diff base resolves and git
\* diff answers.  A Go change contradicts the list and fails the gate, a file
\* the gate cannot map runs the full gate, and only doc files skip the tests.
ResolveNone(base) ==
    /\ st = "read" /\ ~pf_full /\ own = {}
    /\ CASE ~base -> st' = "resolved" /\ UNCHANGED <<mode, test_set>>
         [] base /\ "go" \in changed -> st' = "failed" /\ UNCHANGED <<mode, test_set>>
         [] base /\ "go" \notin changed /\ "other" \in changed ->
              st' = "resolved" /\ UNCHANGED <<mode, test_set>>
         [] OTHER -> st' = "resolved" /\ mode' = "packages" /\ test_set' = {}
    /\ UNCHANGED <<reader, changed>>

\* hack/ci.sh: go list enumerates the packages (there are some), and its
\* failure is the gate's; then the set is tested, or its emptiness skipped.
RunTests(golist) ==
    /\ st = "resolved"
    /\ st' = CASE ~golist -> "failed"
               [] golist /\ test_set = {} -> "skipped"
               [] OTHER -> "tested"
    /\ UNCHANGED <<reader, mode, test_set, changed>>

Next ==
    \/ NoFlag \/ BadFile \/ Open
    \/ \E l \in Lines : ReadLine(l)
    \/ EndOfFile
    \/ ResolveFull \/ ResolveOwn
    \/ \E base \in BOOLEAN : ResolveNone(base)
    \/ \E golist \in BOOLEAN : RunTests(golist)

Spec == Init /\ [][Next]_vars

-----------------------------------------------------------------------------
(* Properties *)

\* The grammar of k3sm-affected/v1, on the whole list: the header, strictly
\* ascending packages, then the @full lines, then the @check lines, then @end.
WholeList(s) ==
    LET Before(ks, i) == \A j \in 2..(i - 1) : s[j].k \in ks
    IN /\ Len(s) >= 2 /\ s[1] = Line("pkg", Header) /\ s[Len(s)].k = "end"
       /\ \A i \in 2..(Len(s) - 1) :
             \/ /\ s[i].k = "pkg" /\ Before({"pkg"}, i)
                /\ \A j \in 2..(i - 1) : s[j].n < s[i].n
             \/ s[i].k = "full" /\ Before({"pkg", "full"}, i)
             \/ s[i].k = "check" /\ Before({"pkg", "full", "check"}, i)

\* The gate is narrowed only by a complete list: when the mode is packages, the
\* lines read are a whole k3sm-affected/v1 file that asks for no full run, and
\* the tested set is exactly this module's packages of it.  A list cut short by
\* its writer, or with a line out of place, runs everything.
NarrowedOnlyByAWholeList ==
    mode = "packages" =>
        /\ WholeList(lines)
        /\ \A i \in 1..Len(lines) : lines[i] # Line("full", 1)
        /\ test_set = {p \in Own : \E i \in 1..Len(lines) : lines[i] = Line("pkg", p)}

\* No silent green: the gate skips its tests only when the change holds nothing
\* but doc files; a list that names no package of this module never hides a Go
\* change or a file whose packages the gate cannot tell.
SkippedOnlyForDocs == st = "skipped" => changed \subseteq {"doc"}
=============================================================================
