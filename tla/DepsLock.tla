------------------------------- MODULE DepsLock -------------------------------
(***************************************************************************)
(* hack/verify-deps.sh over a branch's life: --update rewrites             *)
(* hack/deps.lock from the module graph and only then runs the cooldown    *)
(* and malicious-package stages, on the lines it added, so a run that      *)
(* fails or is killed leaves a lock whose lines nobody vetted, and the     *)
(* next --update takes them for old ones.  The lock is also a text anyone  *)
(* may edit.  The check that gates a merge re-reads the times of the lines *)
(* whose module the merge base does not hold, and trusts the others.       *)
(*                                                                         *)
(* A lock is a function from module lines to the time written beside them. *)
(* Times are days; the proxy's zero time is 0, and what is no time is      *)
(* negative.                                                               *)
(***************************************************************************)
EXTENDS Integers, FiniteSets

CONSTANTS Mods,       \* module lines: a path at a version or a replacement
          Locals,     \* those replaced by a directory
          PathOf,     \* the module path of a line
          Cooldown,   \* COOLDOWN_DAYS
          CommitDays, \* the commit times the proxy may record
          EditTimes,  \* what a hand edit may write beside a module
          FirstDay,
          MaxDay,     \* bound on the days that pass
          MaxEdits,   \* bound on hand edits of the lock
          MaxAdvised  \* bound on advisories

NoLine == -4     \* the lock has no such line
Unreadable == -3 \* a line read_lock raises on, which spoils the whole file
Garbled == -2    \* a text parse_time refuses
LocalMark == -1  \* the text "local"
ZeroTime == 0    \* 0001-01-01: the proxy does not know

ASSUME DepsAssumption ==
    /\ Locals \subseteq Mods
    /\ Cooldown \in Nat /\ FirstDay \in Nat /\ MaxDay \in Nat
    /\ CommitDays \subseteq Nat

VARIABLES day, commit,    \* the day, and the commit time the proxy records
          exempt,         \* the versions hack/deps.cooldown-exempt names
          advised,        \* versions with an OSV MAL- advisory
          graph,          \* the branch's module graph
          lock, base,     \* the branch's lock and the merge base's
          delta, pc,      \* the running script
          verdict,        \* how the last script ended on this lock and graph
          cleared,        \* history: what good checks cleared by the proxy's time
          edits           \* hand edits so far

depsvars == <<day, commit, exempt, advised, graph, lock, base, delta, pc, verdict, cleared, edits>>
world == <<day, commit, exempt, advised, graph>>

NoLock == [v \in Mods |-> NoLine]
Readable(l) == \A v \in Mods : l[v] # Unreadable
Lines(l) == {v \in Mods : l[v] # NoLine}
parse_time(t) == t >= ZeroTime

\* The branch starts from a main without modules.
DepsInit ==
    /\ day = FirstDay
    /\ commit \in [Mods \ Locals -> CommitDays]
    /\ exempt = {} /\ advised = {}
    /\ graph = {} /\ base = NoLock /\ lock = NoLock
    /\ delta = {} /\ pc = "idle" /\ verdict = "none" /\ cleared = {} /\ edits = 0

-----------------------------------------------------------------------------
(* The stages *)

\* cmd_cooldown: the lines it refuses, of ls with these times.  An exemption
\* excuses a young or an unknown age, never a time that does not parse.
CooldownRefuses(ls, time) ==
    {v \in ls \cap Locals : time[v] # LocalMark}
    \cup {v \in ls \ Locals :
            \/ ~parse_time(time[v])
            \/ v \notin exempt /\ (time[v] = ZeroTime \/ day - time[v] < Cooldown)}

\* cmd_update_plan: a line keeps its time when that is one; a lock that cannot
\* be read holds nothing.
Old == IF Readable(lock) THEN lock ELSE NoLock
Kept == {v \in graph : IF v \in Locals THEN Old[v] = LocalMark ELSE parse_time(Old[v])}

\* cmd_update_write: the new lines' times are the proxy's.
Rewritten == [v \in Mods |-> CASE v \notin graph -> NoLine
                               [] v \in graph \cap Locals -> LocalMark
                               [] v \in Kept \ Locals -> Old[v]
                               [] OTHER -> commit[v]]

\* A script that ends removes its scratch directory, the delta with it.
End(what) == pc' = "idle" /\ verdict' = what /\ delta' = {} /\ UNCHANGED <<lock, base, edits>>
Fail == End("failed") /\ UNCHANGED cleared

\* --update, up to the rename of the new lock over the old one; a fetch that
\* fails, or an earlier stage, ends it before anything is written.
UpdateWrite == /\ pc = "idle"
               /\ \/ Fail
                  \/ /\ lock' = Rewritten /\ delta' = graph \ Kept /\ pc' = "update"
                     /\ verdict' = "none" /\ UNCHANGED <<base, cleared, edits>>
               /\ UNCHANGED world

\* cmd_osv_build: a directory has no version to ask about.
OSVQueried(ls) == ls \ Locals

\* --update, the cooldown and malicious-package stages on the delta.
UpdateStages == /\ pc = "update"
                /\ \/ Fail
                   \/ /\ CooldownRefuses(delta, lock) = {} /\ OSVQueried(delta) \cap advised = {}
                      /\ End("updated") /\ UNCHANGED cleared
                /\ UNCHANGED world

\* The script is killed between the rename and its verdict.
Killed == /\ pc = "update" /\ pc' = "idle" /\ delta' = {}
          /\ UNCHANGED <<world, lock, base, verdict, cleared, edits>>

\* cmd_lockdiff goes by module path and the last line of a path counts: a
\* second version of a module of the graph is no drift when it comes earlier.
\* The lines' order is left out, so this is what some order passes.
LockMatchesGraph ==
    /\ Readable(lock) /\ graph \subseteq Lines(lock)
    /\ \A v \in Lines(lock) : \E w \in graph : PathOf[v] = PathOf[w]

\* Only what the last --update added.
Reread_Delta == delta \ Locals

\* cmd_verify_plan: the lines whose time is read again.  The base is compared
\* by module line, so a time edited in place is not read again.  A base that
\* cannot be resolved makes every line new, which refuses more.
Reread == Lines(lock) \ (Locals \cup Lines(base))

\* cmd_verify_times: the lock's time agrees with the proxy's, which is then
\* the one the cooldown uses.
Verified == \A v \in Reread : parse_time(lock[v]) /\ lock[v] = commit[v]
VerifiedTimes == [v \in Mods |-> IF v \in Reread THEN commit[v] ELSE lock[v]]

CheckPasses ==
    /\ LockMatchesGraph
    /\ Verified
    /\ CooldownRefuses(Lines(lock), VerifiedTimes) = {}
    /\ OSVQueried(Lines(lock)) \cap advised = {}

\* What the proxy's own time, or an exemption, clears today.
ClearToday(v) == v \in exempt \/ (commit[v] # ZeroTime /\ day - commit[v] >= Cooldown)

\* check: it fails on the network too, so only its success says anything.
Check == /\ pc = "idle"
         /\ \/ Fail
            \/ /\ CheckPasses /\ End("checked")
               /\ cleared' = cleared \cup {v \in Lines(lock) \ Locals : ClearToday(v)}
         /\ UNCHANGED world

-----------------------------------------------------------------------------
(* The branch and the world around the script *)

\* go.mod asks for a version of a module, or no longer for the module.
Require == /\ pc = "idle" /\ verdict' = "none"
           /\ \E v \in Mods :
                LET others == {w \in graph : PathOf[w] # PathOf[v]} IN
                graph' = IF v \in graph THEN others ELSE others \cup {v}
           /\ UNCHANGED <<day, commit, exempt, advised, lock, base, delta, pc, cleared, edits>>

\* Someone edits the lock, or resolves a conflict in it.
HandEdit == /\ pc = "idle" /\ verdict' = "none"
            /\ edits < MaxEdits /\ edits' = edits + 1
            /\ \E v \in Mods, t \in EditTimes : lock' = [lock EXCEPT ![v] = t]
            /\ UNCHANGED <<world, base, delta, pc, cleared>>

\* What is merged is the lock a check passed.
Merge == /\ pc = "idle" /\ verdict = "checked"
         /\ base' = lock /\ UNCHANGED <<world, lock, delta, pc, verdict, cleared, edits>>

Tomorrow == /\ day < MaxDay /\ day' = day + 1
            /\ UNCHANGED <<commit, exempt, advised, graph, lock, base, delta, pc, verdict, cleared, edits>>

\* An audit exempts a version, or an exemption is deleted.
Exempt == /\ \E v \in Mods \ Locals :
               exempt' = IF v \in exempt THEN exempt \ {v} ELSE exempt \cup {v}
          /\ UNCHANGED <<day, commit, advised, graph, lock, base, delta, pc, verdict, cleared, edits>>

Advisory == /\ Cardinality(advised) < MaxAdvised
            /\ \E v \in Mods \ (Locals \cup advised) : advised' = advised \cup {v}
            /\ UNCHANGED <<day, commit, exempt, graph, lock, base, delta, pc, verdict, cleared, edits>>

DepsNext == \/ UpdateWrite \/ UpdateStages \/ Killed \/ Check
        \/ Require \/ HandEdit \/ Merge \/ Tomorrow \/ Exempt \/ Advisory

DepsSpec == DepsInit /\ [][DepsNext]_depsvars

-----------------------------------------------------------------------------
(* Properties *)

MainCleared == Lines(base) \ Locals \subseteq cleared

\* "a forged lock time cannot clear the cooldown" (verify-deps.sh): every
\* version in main's lock, and every version in a lock a check just passed,
\* cleared the cooldown on the day of a good check by the time the proxy
\* records or by an exemption, and none of the latter carries an advisory.
\* It holds whatever updates failed or were killed, whatever they left in the
\* lock for the next --update to take as vetted, and whatever times were
\* written into the lock by hand, before or after the line reached main.
CheckVetsTheWholeLock ==
    /\ []MainCleared
    /\ [][Check /\ verdict' = "checked" =>
             \A v \in Lines(lock) \ Locals : v \in cleared' /\ v \notin advised]_depsvars
=============================================================================
