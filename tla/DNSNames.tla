------------------------------ MODULE DNSNames ------------------------------
(***************************************************************************)
(* The three ways this repository reads a DNS name: the regular expression *)
(* of one RFC 1123 label, the one of a subdomain (both written out in      *)
(* net/v1alpha1, budget/v1alpha1 and storage/v1), and the scanner of       *)
(* net/v1/mesh.go, which goes through a host name byte by byte.            *)
(*                                                                         *)
(* A name is a sequence of bytes.  The names "a" and "b" stand for any two *)
(* lower-case letters or digits, "A" and "B" for the upper-case letters of *)
(* the same, and every byte no grammar admits behaves alike.               *)
(***************************************************************************)
EXTENDS Naturals, Integers, Sequences

CONSTANTS maxDNSLabelLen,     \* 63 in the code
          maxDNSSubdomainLen  \* 253 in the code

lowerAlnum == {"a", "b"}
upperAlnum == {"A", "B"}

Lower(c) == IF c = "A" THEN "a" ELSE IF c = "B" THEN "b" ELSE c
ToLower(s) == [i \in 1..Len(s) |-> Lower(s[i])]

(* ^[a-z0-9]([-a-z0-9]*[a-z0-9])?$ *)
dns1123LabelRE(s) ==
    /\ Len(s) > 0
    /\ \A i \in 1..Len(s) : s[i] \in lowerAlnum \cup {"-"}
    /\ s[1] # "-" /\ s[Len(s)] # "-"

(* The same, any number of times, with a dot between two labels. *)
dns1123SubdomainRE(s) ==
    /\ Len(s) > 0
    /\ \A i \in 1..Len(s) : s[i] \in lowerAlnum \cup {"-", "."}
    /\ s[1] \in lowerAlnum /\ s[Len(s)] \in lowerAlnum
    /\ \A i \in 1..(Len(s) - 1) :
          "." \in {s[i], s[i + 1]} => lowerAlnum \cap {s[i], s[i + 1]} # {}

isNodeName(s) == Len(s) <= maxDNSSubdomainLen /\ dns1123SubdomainRE(s)
isNamespaceName(s) == Len(s) <= maxDNSLabelLen /\ dns1123LabelRE(s)

-----------------------------------------------------------------------------
(* The scanner.  After i bytes it holds the number of bytes of the label it *)
(* is in; a negative number is a refusal.                                   *)
Refused == -1

(* A scanner that never looks back at the byte before a dot. *)
ScanByte_NoLookBack(h, i, label) ==
    LET c == h[i] IN
    CASE c = "." -> IF label = 0 THEN Refused ELSE 0
      [] c \in lowerAlnum \cup upperAlnum \/ (c = "-" /\ label # 0) ->
            IF label + 1 > maxDNSLabelLen THEN Refused ELSE label + 1
      [] OTHER -> Refused

ScanByte(h, i, label) ==
    LET c == h[i] IN
    CASE c = "." -> IF label = 0 \/ h[i - 1] = "-" THEN Refused ELSE 0
      [] c \in lowerAlnum \cup upperAlnum \/ (c = "-" /\ label # 0) ->
            IF label + 1 > maxDNSLabelLen THEN Refused ELSE label + 1
      [] OTHER -> Refused

validDNSName(h) ==
    LET label[i \in 0..Len(h)] ==
            IF i = 0 THEN 0
            ELSE IF label[i - 1] = Refused THEN Refused
                 ELSE ScanByte(h, i, label[i - 1])
    IN  /\ Len(h) <= maxDNSSubdomainLen
        /\ label[Len(h)] > 0
        /\ h[Len(h)] # "-"

=============================================================================
