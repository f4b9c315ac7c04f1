---------------------------- MODULE ServiceProxy ----------------------------
(***************************************************************************)
(* The Service shapes the userspace proxy works from (net/v1/service.go).  *)
(* Ports are int32 on the wire and sixteen bits in a socket address, a     *)
(* protocol may be left out, and the proxy checks a Service either as it   *)
(* arrived or after filling in defaults.                                   *)
(***************************************************************************)
EXTENDS Naturals, Integers, Sequences, FiniteSets

CONSTANTS Numbers,  \* the port numbers tried, besides a negative one
          MaxPorts  \* the most ports of a Service

ProtocolTCP == "TCP"
ProtocolUDP == "UDP"
Protocol_Valid(p) == p \in {ProtocolTCP, ProtocolUDP}

(* A check one past the largest port. *)
validPort_OneOver(p) == p >= 1 /\ p <= 65536

validPort(p) == p >= 1 /\ p <= 65535

ServicePort_Validate(sp) ==
    /\ Protocol_Valid(IF sp.protocol = "" THEN ProtocolTCP ELSE sp.protocol)
    /\ validPort(sp.port) /\ validPort(sp.targetPort)
    /\ sp.nodePort # 0 => validPort(sp.nodePort)

ServiceVIP_WithDefaults(s) ==
    [s EXCEPT !.ports = [i \in 1..Len(@) |->
        [@[i] EXCEPT !.protocol = IF @ = "" THEN ProtocolTCP ELSE @]]]

ServiceVIP_Validate(s) ==
    /\ s.identity /\ s.clusterIP # ""   \* identity: namespace and name are there
    /\ Len(s.ports) > 0
    /\ \A i \in 1..Len(s.ports) : ServicePort_Validate(s.ports[i])

Endpoint_Validate(e) == e.ip # "" /\ validPort(e.port)

-----------------------------------------------------------------------------
(* A Service and a backend, as updates build them up. *)
PortNumbers == Numbers \cup {-1}

VARIABLES service, backend
vars == <<service, backend>>

Init == /\ service = [identity |-> TRUE, clusterIP |-> "", ports |-> <<>>]
        /\ backend = [ip |-> "", port |-> 0, ready |-> FALSE]

Allocate == \E ip \in {"", "10.43.0.7"} : service' = [service EXCEPT !.clusterIP = ip] /\ UNCHANGED backend
AddPort ==
    /\ Len(service.ports) < MaxPorts
    /\ \E p, t, n \in PortNumbers, proto \in {"", ProtocolTCP, ProtocolUDP, "SCTP"} :
         service' = [service EXCEPT !.ports = Append(@, [port |-> p, targetPort |-> t, nodePort |-> n, protocol |-> proto])]
    /\ UNCHANGED backend
SetBackend == \E ip \in {"", "10.42.0.9"}, p \in PortNumbers, r \in BOOLEAN :
                 backend' = [ip |-> ip, port |-> p, ready |-> r] /\ UNCHANGED service
Next == Allocate \/ AddPort \/ SetBackend
Spec == Init /\ [][Next]_vars

(* A socket address keeps the low sixteen bits of a port. *)
Socket(p) == p % 65536

(* What the proxy binds and dials is what was declared: for a Service and a  *)
(* backend that pass their checks, no port is another one, or the wildcard   *)
(* port, once it is sixteen bits wide.                                       *)
SocketsKeepTheirPorts ==
    /\ ServiceVIP_Validate(service) =>
         \A i \in 1..Len(service.ports) :
            LET sp == service.ports[i] IN
            /\ Socket(sp.port) = sp.port /\ Socket(sp.targetPort) = sp.targetPort
            /\ 0 \notin {Socket(sp.port), Socket(sp.targetPort)}
            /\ Socket(sp.nodePort) = sp.nodePort
    /\ Endpoint_Validate(backend) => Socket(backend.port) = backend.port /\ Socket(backend.port) # 0

(* Filling in defaults is invisible to the check, and leaves nothing for a   *)
(* second pass: checking before or after it is the same, and every port of   *)
(* an accepted Service has a protocol the proxy serves.                      *)
DefaultsKeepTheVerdict ==
    LET filled == ServiceVIP_WithDefaults(service) IN
    /\ ServiceVIP_Validate(filled) <=> ServiceVIP_Validate(service)
    /\ ServiceVIP_WithDefaults(filled) = filled
    /\ ServiceVIP_Validate(service) => \A i \in 1..Len(filled.ports) : Protocol_Valid(filled.ports[i].protocol)
=============================================================================
