------------------------------- MODULE PathSet -------------------------------
(***************************************************************************)
(* The paths of an artifact (artifact/v1 path.go): ValidatePath,           *)
(* ValidatePathSet's two passes over a list, and what the list is for, the *)
(* files of an artifact laid out on a volume that folds case.              *)
(*                                                                         *)
(* A path is the sequence of its components, as "/" splits it; a component *)
(* is a member of a small set, with its lower-case form.                   *)
(***************************************************************************)
EXTENDS Integers, Sequences, FiniteSets, SequencesExt, TLC

CONSTANTS
    Paths,         \* the paths an artifact may list
    MaxListed,     \* the longest list tried
    MaxPathDepth,
    MaxComponentBytes,
    MaxPaths

\* Components that differ from their lower-case form.
Lower == "A" :> "a" @@ "M.PY" :> "m.py"
ToLower(c) == IF c \in DOMAIN Lower THEN Lower[c] ELSE c
Folded(p) == [i \in DOMAIN p |-> ToLower(p[i])]

BadComponents == {"", ".", ".."}
ReservedComponents == {"..data", "._a"}     \* a leading ".." or "._"
TooLongComponents == {"long"}               \* more than MaxComponentBytes
ForeignComponents == {"a b"}                \* a byte pathByte does not know
CodeFiles == {"m.py"}                       \* a code extension, in lower case

\* Lengths: a component is empty, short or too long; "/" takes one byte.
ComponentBytes(c) == IF c = "" THEN 0 ELSE IF c \in TooLongComponents THEN MaxComponentBytes + 1 ELSE 1
PathBytes(p) == FoldLeft(LAMBDA n, c : n + ComponentBytes(c) + 1, -1, p)
MaxPathBytes == MaxPathDepth * (MaxComponentBytes + 1)

ValidatePath(p) ==
    /\ PathBytes(p) <= MaxPathBytes
    /\ \A i \in DOMAIN p : p[i] \notin ForeignComponents
    /\ Len(p) <= MaxPathDepth
    /\ \A i \in DOMAIN p : p[i] \notin BadComponents \cup ReservedComponents \cup TooLongComponents
    /\ ToLower(p[Len(p)]) \notin CodeFiles

\* The proper directory prefixes of a path.
Directories(p) == {SubSeq(p, 1, n) : n \in 1..(Len(p) - 1)}

VARIABLES
    paths,    \* the list
    at,       \* the element the pass is at
    exact,    \* the paths seen
    folded,   \* their folded forms
    verdict,  \* "first" or "second" pass, then "valid" or "refused"
    volume,   \* folded path -> the path that was written there
    dirs      \* folded directories of the volume
vars == <<paths, at, exact, folded, verdict, volume, dirs>>

Init ==
    /\ paths \in UNION {[1..n -> Paths] : n \in 0..MaxListed}
    /\ at = 1 /\ exact = {} /\ folded = {} /\ volume = <<>> /\ dirs = {}
    /\ verdict = IF Len(paths) > MaxPaths THEN "refused" ELSE "first"

\* The first pass: every path by itself, then against the ones before.
Enter ==
    /\ verdict = "first" /\ at <= Len(paths)
    /\ LET p == paths[at] IN
         IF ~ValidatePath(p) \/ p \in exact \/ Folded(p) \in folded
         THEN verdict' = "refused" /\ UNCHANGED <<at, exact, folded>>
         ELSE /\ exact' = exact \cup {p} /\ folded' = folded \cup {Folded(p)}
              /\ at' = at + 1 /\ UNCHANGED verdict
    /\ UNCHANGED <<paths, volume, dirs>>

SecondPass ==
    /\ verdict = "first" /\ at > Len(paths)
    /\ verdict' = "second" /\ at' = 1
    /\ UNCHANGED <<paths, exact, folded, volume, dirs>>

\* The second pass looks each directory up under the case it is written in.
FindConflict_Unfolded ==
    /\ verdict = "second" /\ at <= Len(paths)
    /\ IF Directories(paths[at]) \cap folded # {}
       THEN verdict' = "refused" /\ UNCHANGED at
       ELSE at' = at + 1 /\ UNCHANGED verdict
    /\ UNCHANGED <<paths, exact, folded, volume, dirs>>

\* The second pass: no directory of a path is a file of the set.
FindConflict ==
    /\ verdict = "second" /\ at <= Len(paths)
    /\ IF Directories(Folded(paths[at])) \cap folded # {}
       THEN verdict' = "refused" /\ UNCHANGED at
       ELSE at' = at + 1 /\ UNCHANGED verdict
    /\ UNCHANGED <<paths, exact, folded, volume, dirs>>

Accept ==
    /\ verdict = "second" /\ at > Len(paths)
    /\ verdict' = "valid"
    /\ UNCHANGED <<paths, at, exact, folded, volume, dirs>>

Written == {volume[f] : f \in DOMAIN volume}

\* The volume makes one more file of the artifact, with its directories, in
\* any order.
WriteFile(p) ==
    /\ verdict = "valid" /\ p \notin Written
    /\ volume' = (Folded(p) :> p) @@ volume
    /\ dirs' = dirs \cup Directories(Folded(p))
    /\ UNCHANGED <<paths, at, exact, folded, verdict>>

Done == verdict = "refused" \/ (verdict = "valid" /\ Written = {paths[i] : i \in DOMAIN paths})
Rest == Done /\ UNCHANGED vars

Next == Enter \/ SecondPass \/ FindConflict \/ Accept \/ (\E i \in DOMAIN paths : WriteFile(paths[i])) \/ Rest

Spec == Init /\ [][Next]_vars

-----------------------------------------------------------------------------
\* A step in which no file takes another's place and no name is both a file
\* and a directory.
LandsApart ==
    /\ \A f \in DOMAIN volume : f \in DOMAIN volume' /\ volume'[f] = volume[f]
    /\ DOMAIN volume' \cap dirs' = {}

(* The files of a list ValidatePathSet accepts can be laid out one by one,   *)
(* in any order, on a volume that folds case (ValidatePathSet).              *)
AcceptedFilesLandApart == [][LandsApart]_vars

(* The verdict is one of the list as a set of positions: accepted exactly    *)
(* when every path is valid and no folded path is another's or a directory   *)
(* of another's.  "The order of paths does not matter" (ValidatePathSet).    *)
VerdictIsOfTheSet ==
    verdict \in {"valid", "refused"} =>
       (verdict = "valid" <=>
          /\ Len(paths) <= MaxPaths
          /\ \A i \in DOMAIN paths : ValidatePath(paths[i])
          /\ \A i, j \in DOMAIN paths : i # j => ~IsPrefix(Folded(paths[i]), Folded(paths[j])))
=============================================================================
