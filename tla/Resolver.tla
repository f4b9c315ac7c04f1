------------------------------ MODULE Resolver ------------------------------
(***************************************************************************)
(* The in-pod DNS configuration (net/v1/dns.go).  A config is edited field *)
(* by field on its way from the pod spec to the resolver; Validate is the  *)
(* only gate before it is rendered as resolv.conf text and read back by a  *)
(* resolver that knows nothing of its fields.                              *)
(*                                                                         *)
(* A text is a sequence of characters: "n" is the word ndots in one case,  *)
(* "N" in another, "t" any other name or value, ":" and "=" the separators *)
(* and " " a blank or control character.  An address is the text a caller  *)
(* wrote and what netip.ParseAddr makes of it.                             *)
(***************************************************************************)
EXTENDS Naturals, Integers, Sequences

CONSTANTS Texts,      \* the texts tried as the name and the value of an option
          MaxServers  \* the longest nameserver list tried

DefaultNDots == 5
MaxNameservers == 3
DNSPolicyClusterFirst == ""
DNSPolicyNone == "None"

Address(text, parsed, zone) == [text |-> text, parsed |-> parsed, zone |-> zone]
Addresses == {Address("10.0.0.1", "A", ""), Address("fd00::1", "B", ""), Address("fd00:0::1", "B", ""),
              Address("fe80::1%en2", "D", "en2"), Address("resolver", "", "")}

hasSpaceOrControl(s) == \E i \in 1..Len(s) : s[i] = " "

(* A check that only refuses the option in the case it is written in. *)
validateDNSOption_ExactCase(o) ==
    /\ o.name # <<>> /\ o.name # <<"n">>
    /\ ~hasSpaceOrControl(o.name)
    /\ \A i \in 1..Len(o.name) : o.name[i] \notin {":", "="}
    /\ ~hasSpaceOrControl(o.value)

validateDNSOption(o) ==
    /\ o.name # <<>> /\ o.name \notin {<<"n">>, <<"N">>}
    /\ ~hasSpaceOrControl(o.name)
    /\ \A i \in 1..Len(o.name) : o.name[i] \notin {":", "="}
    /\ ~hasSpaceOrControl(o.value)

validateNameservers(ns) ==
    /\ Len(ns) \in 1..MaxNameservers
    /\ \A i \in 1..Len(ns) : ns[i].parsed # "" /\ ns[i].zone = ""
    /\ \A i, j \in 1..Len(ns) : <<ns[i].parsed, ns[i].zone>> = <<ns[j].parsed, ns[j].zone>> => i = j

Validate(c) ==
    /\ \/ /\ c.policy = DNSPolicyClusterFirst
          /\ c.clusterDNSIP # "" /\ c.clusterDomain # ""
          /\ c.nameservers = <<>> /\ c.options = <<>>
       \/ /\ c.policy = DNSPolicyNone
          /\ validateNameservers(c.nameservers)
          /\ c.clusterDNSIP = ""
    /\ c.ndots >= 0
    /\ \A i \in 1..Len(c.options) : validateDNSOption(c.options[i])

WithDefaults(c) == [c EXCEPT !.ndots = IF @ = 0 THEN DefaultNDots ELSE @]

Servers(c) ==
    CASE c.policy = DNSPolicyClusterFirst -> IF c.clusterDNSIP = "" THEN <<>> ELSE <<c.clusterDNSIP>>
      [] c.policy = DNSPolicyNone -> [i \in 1..Len(c.nameservers) |-> c.nameservers[i].parsed]
      [] OTHER -> <<>>

-----------------------------------------------------------------------------
(* The options line: name or name:value, a blank between two of them, ndots  *)
(* (a number, written "d" here) first.  A resolver splits it at the blanks   *)
(* and each word at its first colon or equals sign.                          *)
Word(o) == IF o.value = <<>> THEN o.name ELSE o.name \o <<":">> \o o.value

RECURSIVE Line(_)
Line(options) == IF options = <<>> THEN <<>> ELSE <<" ">> \o Word(options[1]) \o Line(Tail(options))
Rendered(c) == <<"n", ":", "d">> \o Line(c.options)

RECURSIVE Words(_, _)
Words(line, word) ==
    IF line = <<>> THEN (IF word = <<>> THEN <<>> ELSE <<word>>)
    ELSE IF line[1] = " "
         THEN (IF word = <<>> THEN <<>> ELSE <<word>>) \o Words(Tail(line), <<>>)
         ELSE Words(Tail(line), Append(word, line[1]))

Cuts(word) == {i \in 1..Len(word) : word[i] \in {":", "="}}
OptionOf(word) ==
    IF Cuts(word) = {} THEN [name |-> word, value |-> <<>>]
    ELSE LET i == CHOOSE i \in Cuts(word) : \A j \in Cuts(word) : i <= j
         IN  [name |-> SubSeq(word, 1, i - 1), value |-> SubSeq(word, i + 1, Len(word))]
Read(line) == LET words == Words(line, <<>>) IN [i \in 1..Len(words) |-> OptionOf(words[i])]

-----------------------------------------------------------------------------
VARIABLE config

Init == config = [policy |-> DNSPolicyClusterFirst, clusterDNSIP |-> "10.43.0.10", clusterDomain |-> "cluster.local",
                  ndots |-> 0, nameservers |-> <<>>, options |-> <<>>]

SetPolicy == \E p \in {DNSPolicyClusterFirst, DNSPolicyNone, "ClusterFirst"} : config' = [config EXCEPT !.policy = p]
SetCluster == \E ip \in {"", "10.43.0.10"} : config' = [config EXCEPT !.clusterDNSIP = ip]
SetNDots == \E n \in {-1, 0} : config' = [config EXCEPT !.ndots = n]
AddNameserver == /\ Len(config.nameservers) < MaxServers
                 /\ \E a \in Addresses : config' = [config EXCEPT !.nameservers = Append(@, a)]
AddOption == /\ config.options = <<>>
             /\ \E n, v \in Texts : config' = [config EXCEPT !.options = <<[name |-> n, value |-> v]>>]
Next == SetPolicy \/ SetCluster \/ SetNDots \/ AddNameserver \/ AddOption
Spec == Init /\ [][Next]_config

(* What a valid config renders as says what the config says: the resolver    *)
(* reads ndots once, from its own field, and then exactly the options.       *)
ResolverReadsTheConfig ==
    Validate(config) =>
        LET read == Read(Rendered(config)) IN
        /\ Tail(read) = config.options
        /\ \A i \in 1..Len(read) : read[i].name \in {<<"n">>, <<"N">>} => i = 1

(* A valid config has somewhere to ask, no slot of which is wasted, and asks *)
(* the cluster or the pod's own servers, never both: not even a reader that  *)
(* knows nothing of policies finds a cluster address in an exclusive config. *)
ServersAreDistinctAndExclusive ==
    Validate(config) =>
        /\ Len(Servers(config)) > 0
        /\ \A i, j \in 1..Len(Servers(config)) : Servers(config)[i] = Servers(config)[j] => i = j
        /\ config.clusterDNSIP = "" <=> config.nameservers # <<>>
        /\ Validate(WithDefaults(config)) /\ Servers(WithDefaults(config)) = Servers(config)
=============================================================================
