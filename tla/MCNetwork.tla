------------------------------ MODULE MCNetwork ------------------------------
(***************************************************************************)
(* The parts of the network API, none of which shares state with another.  *)
(* part is the one under way, and s1 .. s6 hold its state.                 *)
(***************************************************************************)
EXTENDS Integers, Sequences

VARIABLES part, s1, s2, s3, s4, s5, s6

Unused == {}

\* Two nodes, one of which joins; the first and last cluster index of each half
\* and one past them; the first and last port ordinal and one past them; names of
\* up to two and four bytes.
Mesh == INSTANCE MeshEnroll WITH
    Nodes <- {1, 2}, Joining <- {1}, Indexes <- {0, 30, 31, 61, 62}, Ordinals <- {0, 7, 8},
    maxDNSLabelLen <- 2, maxDNSSubdomainLen <- 4,
    index <- s1, wire <- s2, joined <- s3, member <- s4, peers <- s5

\* Every host name of up to one byte more than the bound.
MaxLabel == 3
MaxName == 5
Names == INSTANCE DNSNames WITH maxDNSLabelLen <- MaxLabel, maxDNSSubdomainLen <- MaxName
NameBytes == Names!lowerAlnum \cup Names!upperAlnum \cup {".", "-", "_"}
Spell == Len(s1) <= MaxName /\ \E c \in NameBytes : s1' = Append(s1, c)

\* One nameserver more than the limit, and options whose texts hold the
\* characters the line is cut at.
Config == INSTANCE Resolver WITH
    MaxServers <- 4, config <- s1,
    Texts <- {<<>>, <<"n">>, <<"N">>, <<"t">>, <<"t", "t">>, <<"n", ":", "t">>, <<"n", "=", "t">>,
              <<"t", " ", "n">>, <<"t", ":">>, <<":", "t">>}

\* The ends of the port range and their neighbours.
Proxy == INSTANCE ServiceProxy WITH
    Numbers <- {0, 1, 65535, 65536}, MaxPorts <- 1, service <- s1, backend <- s2

\* Lists of two, and a payload of six bytes that a rule and a model fill.
Desired == INSTANCE InterconnectDesired WITH
    MaxInterconnectListItems <- 2, MaxInterconnectReportBytes <- 6,
    MaxInterconnectReportPeers <- 2, MaxLocalUUIDs <- 1,
    object <- s1, models <- s2, desired <- s3, report <- s4

\* Two slots, each with more than one entry.
Ledger == INSTANCE InterconnectLedger WITH
    Slots <- {0, 1}, Indexes <- {1, 2}, MaxEntries <- 3,
    iface <- s1, aliases <- s2, file <- s3, helper <- s4, changing <- s5, cut <- s6

MCInit ==
    \/ part = "mesh" /\ Mesh!Init /\ s6 = Unused
    \/ part = "names" /\ s1 = <<>> /\ s2 = Unused /\ s3 = Unused /\ s4 = Unused /\ s5 = Unused /\ s6 = Unused
    \/ part = "config" /\ Config!Init /\ s2 = Unused /\ s3 = Unused /\ s4 = Unused /\ s5 = Unused /\ s6 = Unused
    \/ part = "proxy" /\ Proxy!Init /\ s3 = Unused /\ s4 = Unused /\ s5 = Unused /\ s6 = Unused
    \/ part = "desired" /\ Desired!Init /\ s5 = Unused /\ s6 = Unused
    \/ part = "ledger" /\ Ledger!Init

MCNext ==
    /\ UNCHANGED part
    /\ \/ part = "mesh" /\ Mesh!Next /\ UNCHANGED s6
       \/ part = "names" /\ Spell /\ UNCHANGED <<s2, s3, s4, s5, s6>>
       \/ part = "names" /\ Len(s1) > MaxName /\ UNCHANGED <<s1, s2, s3, s4, s5, s6>>   \* spelled
       \/ part = "config" /\ Config!Next /\ UNCHANGED <<s2, s3, s4, s5, s6>>
       \/ part = "proxy" /\ Proxy!Next /\ UNCHANGED <<s3, s4, s5, s6>>
       \/ part = "desired" /\ Desired!Next /\ UNCHANGED <<s5, s6>>
       \/ part = "ledger" /\ Ledger!Next

MCSpec == MCInit /\ [][MCNext]_<<part, s1, s2, s3, s4, s5, s6>>

-----------------------------------------------------------------------------
\* A dial reaches the node it is meant for: a link-local address of a validated
\* peer is answered by one node at most, and by the peer when LinkIP derived it
\* for it; a reader off the cable dials the underlay; and what LinkIP derives, in
\* either half, the mesh admits.
DialReachesTheNode ==
    part = "mesh" => /\ Mesh!LinkLocalNamesOneNode
                     /\ Mesh!OffTheCableDialsTheUnderlay
                     /\ Mesh!DerivedAddressesAreAdmitted

\* The labels of a name, its longest stretches without a dot, fit.
LabelsFit(name) ==
    \A i \in 1..Len(name) : \A j \in i..Len(name) :
        (\A k \in i..j : name[k] # ".") => j - i < MaxLabel

\* The scanner decides the grammar: mesh.go takes a host name exactly when it
\* is a subdomain apart from the case of its letters, of labels that fit.
ScannerDecidesTheGrammar ==
    part = "names" =>
        (Names!validDNSName(s1) <=> /\ Len(s1) <= MaxName
                                    /\ Names!dns1123SubdomainRE(Names!ToLower(s1))
                                    /\ LabelsFit(s1))

\* A resolver reads from a valid config's text what the config says, and asks
\* the cluster or the pod's own servers, each one once.
ResolverReadsTheConfig ==
    part = "config" => Config!ResolverReadsTheConfig /\ Config!ServersAreDistinctAndExclusive

\* A Service means the same once it is sockets: Validate answers alike before
\* and after ServiceVIP.WithDefaults, and every port of an accepted Service
\* survives the 16 bits of a socket address.
ServiceKeepsItsPorts ==
    part = "proxy" => Proxy!SocketsKeepTheirPorts /\ Proxy!DefaultsKeepTheVerdict

\* The rule a node applies is the rule of the Interconnect it was written from:
\* one the API admits is encoded unless its text is too long, what Encode
\* returned Parse accepts, and a payload of a newer schema is told apart from a
\* malformed one while its text is within the bound and its schema a number.
NodeAppliesTheAdminsRule ==
    part = "desired" => /\ Desired!AdmittedIsSent
                        /\ Desired!NodeDecidesAsTheObject
                        /\ Desired!WrittenIsReadable
                        /\ Desired!NewerIsNotMalformed

\* The ledger file lists the aliases the helper has on the interface, but for a
\* change a crash or a damaged file lost, and reading it back and rewriting it
\* leaves it as it was.
LedgerHoldsTheOwnedAliases ==
    part = "ledger" => Ledger!LedgerIsTheInterface /\ Ledger!RestartLeavesTheFile
=============================================================================
