--------------------------- MODULE PolicyChoice ---------------------------
(***************************************************************************)
(* The list of policies SelectPolicy is called with, as a lister serves it *)
(* (in any order), while policies come, change and go and the node is      *)
(* relabelled.                                                             *)
(***************************************************************************)
EXTENDS BudgetPolicy, SequencesExt

CONSTANTS
    Names,      \* names of policies, natural numbers in lexical order
    Specs,      \* specs an admin may write
    Labellings  \* labels the node may carry

VARIABLES policies, labels

vars == <<policies, labels>>

Choice == SelectPolicy(policies, labels)

Init == policies = <<>> /\ labels \in Labellings

\* Names are unique, as those of a cluster-scoped kind are.
Create(n, s) ==
    /\ \A i \in DOMAIN policies : policies[i].name # n
    /\ \E at \in 1..(Len(policies) + 1) :
          policies' = InsertAt(policies, at, [name |-> n, spec |-> s])
    /\ UNCHANGED labels

Update(i, s) ==
    /\ policies' = [policies EXCEPT ![i].spec = s]
    /\ UNCHANGED labels

Delete(i) ==
    /\ policies' = RemoveAt(policies, i)
    /\ UNCHANGED labels

\* The same policies, listed in another order.
Relist(i, j) ==
    /\ i # j
    /\ policies' = [policies EXCEPT ![i] = policies[j], ![j] = policies[i]]
    /\ UNCHANGED labels

Relabel ==
    /\ labels' \in Labellings
    /\ UNCHANGED policies

Next ==
    \/ \E n \in Names, s \in Specs : Create(n, s)
    \/ \E i \in DOMAIN policies, s \in Specs : Update(i, s)
    \/ \E i \in DOMAIN policies : Delete(i)
    \/ \E i, j \in DOMAIN policies : Relist(i, j)
    \/ Relabel

Spec == Init /\ [][Next]_vars

---------------------------------------------------------------------------
\* The policies whose every selector label the node carries with its value.
Selecting ==
    {p \in ToSet(policies) :
        {<<k, p.spec.selector[k]>> : k \in DOMAIN p.spec.selector}
            \subseteq {<<k, labels[k]>> : k \in DOMAIN labels}}

\* SelectPolicy returns the policies that select the node, each once: first
\* the one of the highest priority and among those of the smallest name, and
\* the losers the PolicyConflict condition names in the same precedence.
ChoiceFollowsPrecedence ==
    /\ ToSet(Choice) = Selecting
    /\ Len(Choice) = Cardinality(Selecting)
    /\ \A i, j \in DOMAIN Choice : i < j =>
          \/ Choice[i].spec.priority > Choice[j].spec.priority
          \/ /\ Choice[i].spec.priority = Choice[j].spec.priority
             /\ Choice[i].name < Choice[j].name

\* Neither the winner nor the order of the losers depends on the order in
\* which SelectPolicy is given the policies, so two relays, or one before and
\* after a restart, relay the same policy.
SamePolicies == ToSet(policies') = ToSet(policies) /\ UNCHANGED labels
===========================================================================
