---------------------------- MODULE LinkAddress -----------------------------
(***************************************************************************)
(* The addresses of the direct cable (net/v1alpha1).  They are derived     *)
(* from a node's cluster index and a port or slot number, never allocated, *)
(* so two nodes that never talked to each other must still never derive    *)
(* the same one.  An IPv4 address is its four bytes; NoAddress is what the *)
(* code returns beside an error.                                           *)
(***************************************************************************)
EXTENDS Integers, Sequences, TLAPS

MaxLinkNodeIndex == 61
MaxPortOrdinal == 7
lowHalfMaxIndex == 30
portsPerNode == MaxPortOrdinal + 1

MaxInterconnectNodeIndex == 30
MaxInterconnectSlot == 7
interconnectSlotsPerNode == MaxInterconnectSlot + 1
InterconnectSlotNode == 0

NoAddress == <<>>

(* Go's conversion to byte keeps the low eight bits. *)
Byte(n) == n % 256

-----------------------------------------------------------------------------
LinkIP(idx, portOrdinal) ==
    IF ~(portOrdinal \in 0..MaxPortOrdinal)
    THEN NoAddress
    ELSE IF idx \in 0..lowHalfMaxIndex
         THEN <<169, 254, 0, Byte(portsPerNode * idx + portOrdinal + 1)>>
         ELSE IF idx \in (lowHalfMaxIndex + 1)..MaxLinkNodeIndex
              THEN <<169, 254, 255, Byte(portsPerNode * (idx - lowHalfMaxIndex - 1) + portOrdinal + 1)>>
              ELSE NoAddress

InterconnectSlotAddress(idx, slot) ==
    IF ~(idx \in 0..MaxInterconnectNodeIndex) \/ ~(slot \in 0..MaxInterconnectSlot)
    THEN NoAddress
    ELSE <<169, 254, 0, Byte(interconnectSlotsPerNode * idx + slot + 1)>>

(* IsLinkAddress on the bytes of an IPv4 address; the caller has unmapped an *)
(* IPv4-mapped IPv6 address first.                                           *)
IsLinkAddress(b) == b[1] = 169 /\ b[2] = 254 /\ (b[3] = 0 \/ b[3] = 255)

-----------------------------------------------------------------------------
(* What the comments of linkip.go and interconnectaddr.go promise of the     *)
(* derived addresses, for every integer a caller may pass: the tests try     *)
(* the corners and one of them every pair in range.                          *)

(* The arguments an address exists for. *)
Ports == (0..MaxLinkNodeIndex) \X (0..MaxPortOrdinal)

(* The host byte never wraps: within the bounds the sum is already a byte,   *)
(* and the largest is 248, so byte() drops nothing.                          *)
LEMMA HostByte ==
    ASSUME NEW i \in 0..lowHalfMaxIndex, NEW p \in 0..MaxPortOrdinal
    PROVE  /\ Byte(portsPerNode * i + p + 1) = 8 * i + p + 1
           /\ 8 * i + p + 1 \in 1..248
  <1>1. portsPerNode * i + p + 1 = 8 * i + p + 1
    BY DEF portsPerNode, MaxPortOrdinal
  <1>2. 8 * i + p + 1 \in 1..248
    BY DEF lowHalfMaxIndex, MaxPortOrdinal
  <1>3. (8 * i + p + 1) % 256 = 8 * i + p + 1
    BY <1>2
  <1> QED BY <1>1, <1>2, <1>3 DEF Byte

(* Where LinkIP puts a port: the low half for the first 31 nodes, the high   *)
(* half for the next 31, at eight addresses a node.                          *)
LEMMA LinkIPValue ==
    ASSUME NEW i \in 0..MaxLinkNodeIndex, NEW p \in 0..MaxPortOrdinal
    PROVE  /\ i <= 30 => LinkIP(i, p) = <<169, 254, 0, 8 * i + p + 1>>
           /\ i > 30  => LinkIP(i, p) = <<169, 254, 255, 8 * (i - 31) + p + 1>>
  <1>1. CASE i <= 30
    <2>1. i \in 0..lowHalfMaxIndex
      BY <1>1 DEF lowHalfMaxIndex
    <2>2. LinkIP(i, p) = <<169, 254, 0, Byte(portsPerNode * i + p + 1)>>
      BY <2>1 DEF LinkIP
    <2> QED BY <1>1, <2>1, <2>2, HostByte
  <1>2. CASE i > 30
    <2>1. i \notin 0..lowHalfMaxIndex /\ i \in (lowHalfMaxIndex + 1)..MaxLinkNodeIndex
      BY <1>2 DEF lowHalfMaxIndex, MaxLinkNodeIndex
    <2>2. LinkIP(i, p) = <<169, 254, 255, Byte(portsPerNode * (i - lowHalfMaxIndex - 1) + p + 1)>>
      BY <2>1 DEF LinkIP
    <2>3. i - lowHalfMaxIndex - 1 \in 0..lowHalfMaxIndex /\ i - lowHalfMaxIndex - 1 = i - 31
      BY <1>2 DEF lowHalfMaxIndex, MaxLinkNodeIndex
    <2> QED BY <1>2, <2>2, <2>3, HostByte
  <1> QED BY <1>1, <1>2 DEF MaxLinkNodeIndex

(* Every (index, port) pair has its own address: linkip.go's "every (idx, p) *)
(* pair maps to a distinct address".                                         *)
THEOREM LinkIPIsInjective ==
    ASSUME NEW i \in 0..MaxLinkNodeIndex, NEW p \in 0..MaxPortOrdinal,
           NEW j \in 0..MaxLinkNodeIndex, NEW q \in 0..MaxPortOrdinal,
           LinkIP(i, p) = LinkIP(j, q)
    PROVE  i = j /\ p = q
  <1>0. p \in 0..7 /\ q \in 0..7 /\ i \in 0..61 /\ j \in 0..61
    BY DEF MaxPortOrdinal, MaxLinkNodeIndex
  <1>1. CASE i <= 30 /\ j <= 30
    <2>1. <<169, 254, 0, 8 * i + p + 1>> = <<169, 254, 0, 8 * j + q + 1>>
      BY <1>1, LinkIPValue
    <2>2. 8 * i + p + 1 = 8 * j + q + 1
      BY <2>1
    <2> QED BY <1>0, <2>2
  <1>2. CASE i <= 30 /\ j > 30
    <2>1. <<169, 254, 0, 8 * i + p + 1>> = <<169, 254, 255, 8 * (j - 31) + q + 1>>
      BY <1>2, LinkIPValue
    <2> QED BY <2>1
  <1>3. CASE i > 30 /\ j <= 30
    <2>1. <<169, 254, 255, 8 * (i - 31) + p + 1>> = <<169, 254, 0, 8 * j + q + 1>>
      BY <1>3, LinkIPValue
    <2> QED BY <2>1
  <1>4. CASE i > 30 /\ j > 30
    <2>1. <<169, 254, 255, 8 * (i - 31) + p + 1>> = <<169, 254, 255, 8 * (j - 31) + q + 1>>
      BY <1>4, LinkIPValue
    <2>2. 8 * (i - 31) + p + 1 = 8 * (j - 31) + q + 1
      BY <2>1
    <2> QED BY <1>0, <2>2
  <1> QED BY <1>0, <1>1, <1>2, <1>3, <1>4

(* For any integers at all: an address is returned exactly within the        *)
(* bounds, lies in a reserved half, and is neither the network nor the       *)
(* broadcast address of it.                                                  *)
THEOREM LinkIPStaysInTheReservedHalves ==
    ASSUME NEW i \in Int, NEW p \in Int
    PROVE  /\ (LinkIP(i, p) # NoAddress) <=> (<<i, p>> \in Ports)
           /\ LinkIP(i, p) # NoAddress => /\ IsLinkAddress(LinkIP(i, p))
                                          /\ LinkIP(i, p)[4] \in 1..248
  <1>1. CASE i \in 0..MaxLinkNodeIndex /\ p \in 0..MaxPortOrdinal
    <2>1. <<i, p>> \in Ports
      BY <1>1 DEF Ports
    <2>2. CASE i <= 30
      <3>1. LinkIP(i, p) = <<169, 254, 0, 8 * i + p + 1>>
        BY <1>1, <2>2, LinkIPValue
      <3>2. 8 * i + p + 1 \in 1..248
        BY <1>1, <2>2 DEF MaxPortOrdinal
      <3> QED BY <2>1, <3>1, <3>2 DEF IsLinkAddress, NoAddress
    <2>3. CASE i > 30
      <3>1. LinkIP(i, p) = <<169, 254, 255, 8 * (i - 31) + p + 1>>
        BY <1>1, <2>3, LinkIPValue
      <3>2. 8 * (i - 31) + p + 1 \in 1..248
        BY <1>1, <2>3 DEF MaxPortOrdinal, MaxLinkNodeIndex
      <3> QED BY <2>1, <3>1, <3>2 DEF IsLinkAddress, NoAddress
    <2> QED BY <2>2, <2>3
  <1>2. CASE ~(i \in 0..MaxLinkNodeIndex /\ p \in 0..MaxPortOrdinal)
    <2>1. <<i, p>> \notin Ports
      BY <1>2 DEF Ports
    <2>2. CASE p \notin 0..MaxPortOrdinal
      BY <2>1, <2>2 DEF LinkIP
    <2>3. CASE p \in 0..MaxPortOrdinal
      <3>1. i \notin 0..lowHalfMaxIndex /\ i \notin (lowHalfMaxIndex + 1)..MaxLinkNodeIndex
        BY <1>2, <2>3 DEF lowHalfMaxIndex, MaxLinkNodeIndex
      <3> QED BY <2>1, <2>3, <3>1 DEF LinkIP
    <2> QED BY <2>2, <2>3
  <1> QED BY <1>1, <1>2

(* The interconnect's own derivation is LinkIP cut off at the cable's node   *)
(* ceiling: equal up to index 30, and no address beyond.                     *)
THEOREM InterconnectIsTheLowHalf ==
    ASSUME NEW i \in Int, NEW s \in Int
    PROVE  InterconnectSlotAddress(i, s)
             = IF i <= MaxInterconnectNodeIndex THEN LinkIP(i, s) ELSE NoAddress
  <1>1. CASE i \in 0..30 /\ s \in 0..7
    BY <1>1 DEF InterconnectSlotAddress, LinkIP, MaxInterconnectNodeIndex, MaxInterconnectSlot,
                MaxPortOrdinal, lowHalfMaxIndex, portsPerNode, interconnectSlotsPerNode
  <1>2. CASE ~(i \in 0..30 /\ s \in 0..7)
    <2>1. InterconnectSlotAddress(i, s) = NoAddress
      BY <1>2 DEF InterconnectSlotAddress, MaxInterconnectNodeIndex, MaxInterconnectSlot
    <2>2. i <= 30 => LinkIP(i, s) = NoAddress
      BY <1>2 DEF LinkIP, MaxPortOrdinal, lowHalfMaxIndex, MaxLinkNodeIndex
    <2> QED BY <2>1, <2>2 DEF MaxInterconnectNodeIndex
  <1> QED BY <1>1, <1>2
=============================================================================
