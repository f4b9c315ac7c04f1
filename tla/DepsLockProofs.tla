---------------------------- MODULE DepsLockProofs ----------------------------
(***************************************************************************)
(* For any modules, any cooldown, any number of days and of hand edits:    *)
(* what is on main, and what a good check of hack/verify-deps.sh passes,   *)
(* cleared the cooldown by the proxy's time or by an exemption.            *)
(*                                                                         *)
(* The check trusts the lock's time of a line the merge base holds, and    *)
(* that time may be anybody's.  What makes this sound is an invariant over *)
(* merges: main holds only lines that some good check cleared, and so does *)
(* a lock whose last script is a good check, which is all Merge takes.     *)
(***************************************************************************)
EXTENDS DepsLock, TLAPS

LockCleared == verdict = "checked" => Lines(lock) \ Locals \subseteq cleared

Types == day \in Nat /\ commit \in [Mods \ Locals -> Nat]

IInv == Types /\ MainCleared /\ LockCleared

(* Main and the branch's lock start empty.                                   *)
LEMMA InitInv == DepsInit => IInv
  <1> SUFFICES ASSUME DepsInit PROVE IInv
    OBVIOUS
  <1>1. Types
    BY DepsAssumption DEF DepsInit, Types
  <1>2. Lines(base) = {}
    BY DEF DepsInit, Lines, NoLock
  <1>3. verdict # "checked"
    BY DEF DepsInit
  <1> QED BY <1>1, <1>2, <1>3 DEF IInv, MainCleared, LockCleared

(* A version that is read again passes only by the proxy's time or by an     *)
(* exemption (cmd_verify_times, cmd_cooldown).                               *)
LEMMA RereadIsClear ==
    ASSUME Types, CheckPasses, NEW v \in Reread
    PROVE  ClearToday(v)
  <1>1. v \in Mods /\ v \in Lines(lock) /\ v \in Lines(lock) \ Locals
    BY DEF Reread, Lines
  <1>2. VerifiedTimes[v] = commit[v]
    BY <1>1 DEF VerifiedTimes
  <1>3. v \notin CooldownRefuses(Lines(lock), VerifiedTimes)
    BY DEF CheckPasses
  <1>4. v \in exempt \/ ~(commit[v] = ZeroTime \/ day - commit[v] < Cooldown)
    BY <1>1, <1>2, <1>3 DEF CooldownRefuses
  <1>5. day \in Nat /\ commit[v] \in Nat /\ Cooldown \in Nat
    BY <1>1, DepsAssumption DEF Types
  <1> QED BY <1>4, <1>5 DEF ClearToday

(* A good check leaves a lock all of whose versions are cleared: those it    *)
(* read again today, the others on the day of the check that let them into   *)
(* main.                                                                     *)
LEMMA GoodCheckClears ==
    ASSUME IInv, CheckPasses,
           cleared' = cleared \cup {v \in Lines(lock) \ Locals : ClearToday(v)}
    PROVE  Lines(lock) \ Locals \subseteq cleared'
  <1> SUFFICES ASSUME NEW v \in Lines(lock) \ Locals PROVE v \in cleared'
    OBVIOUS
  <1>1. CASE v \in Lines(base)
    BY <1>1 DEF IInv, MainCleared
  <1>2. CASE v \notin Lines(base)
    <2>1. v \in Reread
      BY <1>2 DEF Reread
    <2>2. ClearToday(v)
      BY <2>1, RereadIsClear DEF IInv
    <2> QED BY <2>2
  <1> QED BY <1>1, <1>2

LEMMA CheckStep == IInv /\ Check => IInv'
  <1> SUFFICES ASSUME IInv, Check PROVE IInv'
    OBVIOUS
  <1>1. UNCHANGED <<day, commit, lock, base>>
    BY DEF Check, Fail, End, world
  <1>2. Types' /\ Lines(base)' = Lines(base) /\ Lines(lock)' = Lines(lock)
    BY <1>1 DEF IInv, Types, Lines
  <1>3. CASE Fail
    <2>1. cleared' = cleared /\ verdict' = "failed"
      BY <1>3 DEF Fail, End
    <2> QED BY <1>2, <2>1 DEF IInv, MainCleared, LockCleared
  <1>4. CASE CheckPasses /\ cleared' = cleared \cup {v \in Lines(lock) \ Locals : ClearToday(v)}
    <2>1. Lines(lock) \ Locals \subseteq cleared'
      BY <1>4, GoodCheckClears
    <2>2. Lines(base) \ Locals \subseteq cleared'
      BY <1>4 DEF IInv, MainCleared
    <2> QED BY <1>2, <2>1, <2>2 DEF IInv, MainCleared, LockCleared
  <1> QED BY <1>3, <1>4 DEF Check

(* Main moves only to a lock whose last script is a good check.              *)
LEMMA MergeStep == IInv /\ Merge => IInv'
  <1> SUFFICES ASSUME IInv, Merge PROVE IInv'
    OBVIOUS
  <1>1. base' = lock /\ verdict = "checked" /\ UNCHANGED <<day, commit, lock, verdict, cleared>>
    BY DEF Merge, world
  <1>2. Lines(base)' = Lines(lock) /\ Lines(lock)' = Lines(lock)
    BY <1>1 DEF Lines
  <1> QED BY <1>1, <1>2 DEF IInv, Types, MainCleared, LockCleared

(* A step that leaves main and the history alone, and the lock too unless it *)
(* takes the verdict away.                                                   *)
LEMMA OtherStep ==
    ASSUME IInv, UNCHANGED <<commit, base, cleared>>, day' \in Nat,
           verdict' # "checked" \/ UNCHANGED <<lock, verdict>>
    PROVE  IInv'
  <1>1. Lines(base)' = Lines(base)
    BY DEF Lines
  <1>2. LockCleared'
    <2>1. CASE verdict' # "checked"
      BY <2>1 DEF LockCleared
    <2>2. CASE UNCHANGED <<lock, verdict>>
      BY <2>2 DEF IInv, LockCleared, Lines
    <2> QED BY <2>1, <2>2
  <1> QED BY <1>1, <1>2 DEF IInv, Types, MainCleared

LEMMA StepInv == IInv /\ [DepsNext]_depsvars => IInv'
  <1> SUFFICES ASSUME IInv, [DepsNext]_depsvars PROVE IInv'
    OBVIOUS
  <1>0. day \in Nat
    BY DEF IInv, Types
  <1>1. CASE UpdateWrite
    BY <1>0, <1>1, OtherStep DEF UpdateWrite, Fail, End, world
  <1>2. CASE UpdateStages
    BY <1>0, <1>2, OtherStep DEF UpdateStages, Fail, End, world
  <1>3. CASE Killed
    BY <1>0, <1>3, OtherStep DEF Killed, world
  <1>4. CASE Check
    BY <1>4, CheckStep
  <1>5. CASE Require \/ HandEdit
    BY <1>0, <1>5, OtherStep DEF Require, HandEdit, world
  <1>6. CASE Merge
    BY <1>6, MergeStep
  <1>7. CASE Tomorrow \/ Exempt \/ Advisory
    BY <1>0, <1>7, OtherStep DEF Tomorrow, Exempt, Advisory
  <1>8. CASE UNCHANGED depsvars
    BY <1>0, <1>8, OtherStep DEF depsvars
  <1> QED BY <1>1, <1>2, <1>3, <1>4, <1>5, <1>6, <1>7, <1>8 DEF DepsNext

(* The action half: what a check that ends well says of the lock.            *)
LEMMA GoodCheckVets ==
    ASSUME IInv, Check, verdict' = "checked"
    PROVE  \A v \in Lines(lock) \ Locals : v \in cleared' /\ v \notin advised
  <1>1. CheckPasses /\ cleared' = cleared \cup {v \in Lines(lock) \ Locals : ClearToday(v)}
    BY DEF Check, Fail, End
  <1>2. Lines(lock) \ Locals \subseteq cleared'
    BY <1>1, GoodCheckClears
  <1>3. (Lines(lock) \ Locals) \cap advised = {}
    BY <1>1 DEF CheckPasses, OSVQueried
  <1> QED BY <1>2, <1>3

(* Main and every lock a check passes hold only versions that cleared the    *)
(* cooldown by the proxy's time or an exemption, whatever updates failed or  *)
(* were killed and whatever times were written into the lock by hand         *)
(* (cooldown_verify, cmd_verify_plan).                                       *)
THEOREM ChecksVetTheWholeLock == DepsSpec => CheckVetsTheWholeLock
  <1>1. IInv => MainCleared
    BY DEF IInv
  <1>2. IInv /\ [DepsNext]_depsvars =>
          [Check /\ verdict' = "checked" =>
             \A v \in Lines(lock) \ Locals : v \in cleared' /\ v \notin advised]_depsvars
    BY GoodCheckVets
  <1> QED BY InitInv, StepInv, <1>1, <1>2, PTL DEF DepsSpec, CheckVetsTheWholeLock
=============================================================================
