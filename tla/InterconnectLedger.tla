-------------------------- MODULE InterconnectLedger --------------------------
(***************************************************************************)
(* The ledger of interconnect aliases (net/v1alpha1 interconnectledger.go) *)
(* across crashes of the network helper that keeps it.  The helper adds an *)
(* alias to the node's interface, rewrites the ledger file, and at start   *)
(* reads the file back, so that it removes only the aliases it owns.  A    *)
(* crash between the two leaves them apart.                                *)
(***************************************************************************)
EXTENDS Naturals, Sequences, SequencesExt

CONSTANTS Slots,      \* the slots in use
          Indexes,    \* the cluster indexes the node has had
          MaxEntries  \* the longest ledger

(* Marshal keeps the order of the list within a slot. *)
InsertBySlot(s, e) ==
    LET after == {i \in 1..Len(s) : s[i].slot > e.slot}
        at == IF after = {} THEN Len(s) + 1 ELSE CHOOSE i \in after : \A j \in after : i <= j
    IN InsertAt(s, at, e)

(* A Marshal that writes one alias a slot. *)
Marshal_OnePerSlot(aliases) ==
    FoldLeft(LAMBDA s, e : IF \E i \in 1..Len(s) : s[i].slot = e.slot THEN s ELSE InsertBySlot(s, e), <<>>, aliases)

(* The file: the aliases ordered by slot, the list itself left as it was. *)
Marshal(aliases) == FoldLeft(LAMBDA s, e : InsertBySlot(s, e), <<>>, aliases)

(* Lenient: {} is malformed JSON and an error, a file without the key (or an *)
(* empty object) an empty ledger, anything else its aliases, unchecked.      *)
ParseInterconnectLedger(file) ==
    IF file = {} THEN <<>> ELSE (CHOOSE f \in file : TRUE).aliases

-----------------------------------------------------------------------------
VARIABLES iface,    \* the aliases the helper added that are on the interface
          aliases,  \* the ledger the running helper holds
          file,     \* the file: {} is malformed
          helper,   \* "running", "unsaved" between a change and its rewrite, "down"
          changing, \* the alias of the change that is not saved
          cut       \* history: aliases whose change a crash or a damaged file lost
vars == <<iface, aliases, file, helper, changing, cut>>

(* One address for each index and slot: two entries share a slot when the    *)
(* node's cluster index changed.                                             *)
Alias(index, slot) == [slot |-> slot, address |-> <<index, slot>>]

Init ==
    /\ iface = {} /\ aliases = <<>> /\ helper = "running"
    /\ file = {[aliases |-> <<>>]}
    /\ changing = {} /\ cut = {}

\* The interface first, then the file: an alias that is still there from before
\* a crash is taken up again.
Add(e) ==
    /\ helper = "running" /\ Len(aliases) < MaxEntries /\ e \notin ToSet(aliases)
    /\ iface' = iface \cup {e}
    /\ aliases' = Append(aliases, e)
    /\ helper' = "unsaved" /\ changing' = {e} /\ UNCHANGED <<file, cut>>

Drop(i) ==
    /\ helper = "running" /\ i <= Len(aliases)
    /\ iface' = iface \ {aliases[i]}
    /\ aliases' = RemoveAt(aliases, i)
    /\ helper' = "unsaved" /\ changing' = {aliases[i]} /\ UNCHANGED <<file, cut>>

Rewrite ==
    /\ helper \in {"running", "unsaved"}
    /\ file' = {[aliases |-> Marshal(aliases)]}
    /\ helper' = "running" /\ changing' = {} /\ UNCHANGED <<iface, aliases, cut>>

\* The interface keeps its aliases.
Crash ==
    /\ helper # "down" /\ helper' = "down"
    /\ aliases' = <<>> /\ changing' = {} /\ cut' = cut \cup changing
    /\ UNCHANGED <<iface, file>>

(* The file is lost or damaged while the helper is down. *)
Damage ==
    /\ helper = "down" /\ file' = {} /\ cut' = cut \cup iface
    /\ UNCHANGED <<iface, aliases, helper, changing>>

\* A file that does not parse is taken for an empty ledger.
Start ==
    /\ helper = "down"
    /\ aliases' = ParseInterconnectLedger(file)
    /\ helper' = "running" /\ UNCHANGED <<iface, file, changing, cut>>

Next ==
    \/ \E index \in Indexes, slot \in Slots : Add(Alias(index, slot))
    \/ \E i \in 1..MaxEntries : Drop(i)
    \/ Rewrite \/ Crash \/ Damage \/ Start

Spec == Init /\ [][Next]_vars

-----------------------------------------------------------------------------
(* The ledger and the interface part only over a change that a crash cut off *)
(* before its rewrite, or that a damaged file lost: whatever else is on the  *)
(* interface the file lists, and it lists nothing else, also when two        *)
(* aliases share a slot.  So what the helper removes after a restart it      *)
(* added, and what it forgets is known (Marshal, ParseInterconnectLedger).   *)
LedgerIsTheInterface ==
    LET listed == ToSet(ParseInterconnectLedger(file)) IN
    (iface \ listed) \cup (listed \ iface) \subseteq cut \cup changing

(* A restart that changes nothing leaves the file as it was: rewriting what  *)
(* was read back writes the same bytes (Marshal's stable order).             *)
RestartLeavesTheFile ==
    file # {} => Marshal(ParseInterconnectLedger(file)) = ParseInterconnectLedger(file)
=============================================================================
