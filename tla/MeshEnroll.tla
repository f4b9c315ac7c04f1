----------------------------- MODULE MeshEnroll -----------------------------
(***************************************************************************)
(* A node joining the mesh (net/v1/mesh.go) over addresses that may be     *)
(* those of a direct cable (net/v1alpha1/linkip.go).  A node sends a       *)
(* MeshEnrollRequest, the server checks it and turns it into a MeshPeer,   *)
(* the node later republishes its peer with the candidates it is reachable *)
(* at, and every other node dials what it reads.                           *)
(*                                                                         *)
(* An endpoint string is what the two parsers see of it: whether it splits *)
(* into host and port, what its host is, the port number.  Identity fields *)
(* (name, key, pod CIDR) are filled in or empty; nothing here depends on   *)
(* their text.                                                             *)
(***************************************************************************)
EXTENDS LinkAddress, DNSNames, FiniteSets

CONSTANTS Nodes,    \* the nodes with an index
          Joining,  \* those whose joining is followed
          Indexes,  \* the cluster indexes IPAM may hand out
          Ordinals  \* the port ordinals a node derives an address for

MeshPeerSchemaVersion == 1
MeshEnrollSchemaVersion == 1
DefaultPersistentKeepaliveSeconds == 25

-----------------------------------------------------------------------------
(* Hosts and endpoints. *)
V4(b) == [kind |-> "v4", bytes |-> b, text |-> <<>>]
Mapped(b) == [kind |-> "mapped", bytes |-> b, text |-> <<>>]
V6 == [kind |-> "v6", bytes |-> <<>>, text |-> <<>>]
Text(t) == [kind |-> "text", bytes |-> <<>>, text |-> t]

HostPort(host, port) == [splits |-> TRUE, host |-> host, port |-> port]
NotHostPort == [splits |-> FALSE, host |-> Text(<<>>), port |-> 0]

IsLinkLocal(host) == host.kind \in {"v4", "mapped"} /\ host.bytes[1] = 169 /\ host.bytes[2] = 254

inReservedLinkHalf(b) == b[1] = 169 /\ b[2] = 254 /\ (b[3] = 0 \/ b[3] = 255)

validateHostPort(e) ==
    /\ e.splits
    /\ e.host # Text(<<>>)
    /\ e.host.kind # "text" \/ validDNSName(e.host.text)
    /\ e.port \in 1..65535

(* A rule that lets any link-local address through. *)
validateLinkLocal_AnySelfAssigned(e, allowReserved) ==
    IsLinkLocal(e.host) => allowReserved

validateLinkLocal(e, allowReserved) ==
    IsLinkLocal(e.host) => inReservedLinkHalf(e.host.bytes) /\ allowReserved

-----------------------------------------------------------------------------
(* The payloads. *)
EndpointLinks == {"underlay", "direct"}

EndpointCandidate_validate(c) ==
    /\ c.link \in EndpointLinks
    /\ validateHostPort(c.address)
    /\ validateLinkLocal(c.address, c.link = "direct")

MeshPeerSpec_WithDefaults(s) ==
    [s EXCEPT !.schemaVersion = IF @ = 0 THEN MeshPeerSchemaVersion ELSE @,
              !.keepalive = IF @ = 0 THEN DefaultPersistentKeepaliveSeconds ELSE @]

MeshPeerSpec_Validate(s) ==
    /\ s.schemaVersion # 0
    /\ s.identity                     \* nodeName and publicKey are there
    /\ validateHostPort(s.endpoint)   \* the empty endpoint does not split
    /\ validateLinkLocal(s.endpoint, TRUE)
    /\ \A i \in 1..Len(s.endpoints) : EndpointCandidate_validate(s.endpoints[i])
    /\ s.podCIDR # "" /\ s.allowedIPs # {}

MeshEnrollRequest_WithDefaults(r) ==
    [r EXCEPT !.schemaVersion = IF @ = 0 THEN MeshEnrollSchemaVersion ELSE @]

MeshEnrollRequest_Validate(r) ==
    /\ r.schemaVersion # 0
    /\ r.identity
    /\ validateHostPort(r.endpoint)

MeshEnrollResponse_WithDefaults(r) ==
    [r EXCEPT !.schemaVersion = IF @ = 0 THEN MeshEnrollSchemaVersion ELSE @]

MeshEnrollResponse_Validate(r) ==
    r.schemaVersion # 0 /\ r.nodeName # "" /\ r.podCIDR # ""

-----------------------------------------------------------------------------
(* The exchange.  "none" is no message on the wire, and no peer.           *)
VARIABLES index,  \* each node's cluster index
          wire,   \* the one join exchange in flight
          joined, \* the nodes whose request the server accepted
          member, \* the nodes that know it
          peers   \* the MeshPeer each node has in the API, if any

vars == <<index, wire, joined, member, peers>>

NoPeer == {}
Idle == [kind |-> "idle"]
Port == 51820

Underlay(n) == V4(<<192, 168, 1, n>>)
SelfAssigned == <<169, 254, 7, 9>>   \* any two hosts may pick the same one
Derived(n) == {LinkIP(index[n], p) : p \in Ordinals} \ {NoAddress}

(* What a node may publish: an address of its own, well formed or not, or    *)
(* one of the cable that is another node's, or nobody's.                     *)
Unassigned == {<<169, 254, 0, 0>>, <<169, 254, 255, 255>>}
HostsOf(n) == {Underlay(n), V6, Text(<<"a", ".", "b">>), Text(<<"a", ".">>), Text(<<>>),
               V4(SelfAssigned), Mapped(SelfAssigned)}
              \cup {V4(a) : a \in Unassigned \cup UNION {Derived(m) : m \in Nodes}}
EndpointsOf(n) == {HostPort(h, Port) : h \in HostsOf(n)}
                  \cup {HostPort(Underlay(n), 0), HostPort(Underlay(n), 65536), NotHostPort}

Init ==
    /\ index \in {f \in [Nodes -> Indexes] : \A m, n \in Nodes : f[m] = f[n] => m = n}
    /\ wire = Idle
    /\ joined = {}
    /\ member = {}
    /\ peers = [n \in Joining |-> NoPeer]

(* A node asks to join, again if it likes: an answer may have been lost.    *)
Ask(n) ==
    /\ wire = Idle
    /\ \E e \in EndpointsOf(n), stamped \in BOOLEAN :
         LET r == [schemaVersion |-> 0, identity |-> TRUE, endpoint |-> e]
         IN  wire' = [kind |-> "request", node |-> n,
                      body |-> IF stamped THEN MeshEnrollRequest_WithDefaults(r) ELSE r]
    /\ UNCHANGED <<index, joined, member, peers>>

(* The server checks the request and writes the node's peer from it, with   *)
(* the pod CIDR it assigned; what the peer's own check refuses is not       *)
(* written.                                                                 *)
Enrolled(r) ==
    MeshPeerSpec_WithDefaults(
        [schemaVersion |-> 0, identity |-> r.identity, endpoint |-> r.endpoint, endpoints |-> <<>>,
         podCIDR |-> "assigned", allowedIPs |-> {"assigned"}, keepalive |-> 0])

Answer ==
    /\ wire.kind = "request"
    /\ LET n == wire.node
           ok == MeshEnrollRequest_Validate(wire.body)
           spec == Enrolled(wire.body)
       IN  /\ joined' = IF ok THEN joined \cup {n} ELSE joined
           /\ peers' = IF ok /\ MeshPeerSpec_Validate(spec)
                       THEN [peers EXCEPT ![n] = {spec}] ELSE peers
           /\ wire' = IF ~ok THEN Idle
                      ELSE [kind |-> "response", node |-> n,
                            body |-> MeshEnrollResponse_WithDefaults(
                                       [schemaVersion |-> 0, nodeName |-> "n", podCIDR |-> "assigned"])]
    /\ UNCHANGED <<index, member>>

Receive ==
    /\ wire.kind = "response"
    /\ member' = IF MeshEnrollResponse_Validate(wire.body) THEN member \cup {wire.node} ELSE member
    /\ wire' = Idle
    /\ UNCHANGED <<index, joined, peers>>

Lose ==
    /\ wire # Idle
    /\ wire' = Idle
    /\ UNCHANGED <<index, joined, member, peers>>

(* A member republishes its peer with a candidate, of a kind this      *)
(* version knows or of a later one.                                         *)
Republish(n) ==
    /\ n \in member /\ wire = Idle
    /\ \E e \in EndpointsOf(n), h \in HostsOf(n), link \in EndpointLinks \cup {"later"} :
         LET spec == [Enrolled([identity |-> TRUE, endpoint |-> e])
                        EXCEPT !.endpoints = <<[address |-> HostPort(h, Port), link |-> link]>>]
         IN  /\ MeshPeerSpec_Validate(spec)
             /\ peers' = [peers EXCEPT ![n] = {spec}]
    /\ UNCHANGED <<index, wire, joined, member>>

Next == Answer \/ Receive \/ Lose \/ \E n \in Joining : Ask(n) \/ Republish(n)
Spec == Init /\ [][Next]_vars

-----------------------------------------------------------------------------
(* What a reader dials: a direct candidate while its own cable route is up, *)
(* else an underlay candidate, else the endpoint.                           *)
Candidates(spec, link) == {spec.endpoints[i].address : i \in
                              {i \in 1..Len(spec.endpoints) : spec.endpoints[i].link = link}}
Dials(spec, routeUp) ==
    IF routeUp /\ Candidates(spec, "direct") # {} THEN Candidates(spec, "direct")
    ELSE IF Candidates(spec, "underlay") # {} THEN Candidates(spec, "underlay")
         ELSE {spec.endpoint}

Reaches(n) == UNION {Dials(spec, routeUp) : spec \in peers[n], routeUp \in BOOLEAN}

(* The nodes that may answer at a link-local address: the one that derived   *)
(* it, and any at all when hosts assign it to themselves, which RFC 3927     *)
(* forbids in the reserved halves only.                                      *)
AnswersAt(b) == {n \in Nodes : b \in Derived(n)} \cup (IF inReservedLinkHalf(b) THEN {} ELSE Nodes)

(* A link-local address that is dialled is answered by one node at most,     *)
(* whatever was published, and by the peer when the peer derived it.  The    *)
(* mesh checks the class of an address and not whose it is: a peer that      *)
(* publishes another node's is admitted, and the dial reaches that other.    *)
LinkLocalNamesOneNode ==
    \A n \in Joining : \A e \in Reaches(n) : IsLinkLocal(e.host) =>
        /\ Cardinality(AnswersAt(e.host.bytes)) <= 1
        /\ e.host.bytes \in Derived(n) => AnswersAt(e.host.bytes) = {n}

(* A reader without the cable never dials it while the peer is reachable     *)
(* otherwise: an underlay candidate is never an address of the cable.        *)
OffTheCableDialsTheUnderlay ==
    \A n \in Joining : \A spec \in peers[n] :
        Candidates(spec, "underlay") # {} => \A e \in Dials(spec, FALSE) : ~IsLinkLocal(e.host)

(* Every address the cable derivation gives a node, in either half, is one   *)
(* the mesh admits as its endpoint and as a direct candidate.                *)
DerivedAddressesAreAdmitted ==
    \A n \in Nodes : \A a \in Derived(n) :
        LET e == HostPort(V4(a), Port) IN
        /\ MeshPeerSpec_Validate(Enrolled([identity |-> TRUE, endpoint |-> e]))
        /\ EndpointCandidate_validate([address |-> e, link |-> "direct"])
=============================================================================
