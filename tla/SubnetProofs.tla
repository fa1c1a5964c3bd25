---------------------------- MODULE SubnetProofs ----------------------------
(***************************************************************************)
(* What isSameSubnet decides, for addresses and bytes of any size.         *)
(***************************************************************************)
EXTENDS Subnet, FiniteSetTheorems, TLAPS

-----------------------------------------------------------------------------
(* Full bytes and remaining bits.                                          *)

(* Division by the bits of a byte, whose number is not a literal.          *)
LEMMA Division ==
    ASSUME NEW p \in Nat
    PROVE  /\ FullBytes(p) \in Nat /\ p % CHAR_BIT \in 0 .. CHAR_BIT - 1
           /\ p = CHAR_BIT * FullBytes(p) + (p % CHAR_BIT)
<1> DEFINE b == CHAR_BIT
<1>1. b \in Nat \ {0}
  BY SubnetAssumption
<1>2. p \div b \in Nat
  BY <1>1
<1>3. p % b \in 0 .. b - 1
  BY <1>1
<1>4. p = b * (p \div b) + (p % b)
  BY <1>1
<1> QED
  BY <1>2, <1>3, <1>4 DEF FullBytes

(* Multiplication keeps the order.                                         *)
LEMMA Multiples ==
    ASSUME NEW a \in Nat, NEW b \in Nat, a <= b
    PROVE  CHAR_BIT * a \in Nat /\ CHAR_BIT * b \in Nat /\ CHAR_BIT * a <= CHAR_BIT * b
<1>1. CHAR_BIT \in Nat
  BY SubnetAssumption
<1>2. PICK d \in Nat : b = a + d
  <2>1. b - a \in Nat /\ b = a + (b - a)
    OBVIOUS
  <2> QED
    BY <2>1
<1>3. CHAR_BIT * a \in Nat /\ CHAR_BIT * d \in Nat
  BY <1>1
<1>4. CHAR_BIT * b = CHAR_BIT * a + CHAR_BIT * d
  BY <1>1, <1>2
<1> QED
  BY <1>3, <1>4

(* The number of bits compared is a number of whole bytes: the full ones,  *)
(* and one more when their number is odd.                                  *)
LEMMA ComparedBytes ==
    ASSUME NEW p \in Nat
    PROVE  /\ FullBytes(p) \in Nat /\ FullBytes(p) % 2 \in {0, 1}
           /\ RemainingBits(p) = IF FullBytes(p) % 2 = 1 THEN CHAR_BIT ELSE 0
           /\ CHAR_BIT * FullBytes(p) \in Nat /\ RemainingBits(p) \in Nat
           /\ CHAR_BIT * FullBytes(p) <= p
<1>1. FullBytes(p) \in Nat
  BY Division
<1>2. FullBytes(p) % 2 \in {0, 1}
  BY <1>1
<1>3. RemainingBits(p) = IF FullBytes(p) % 2 = 1 THEN CHAR_BIT ELSE 0
  BY <1>2, SubnetAssumption DEF RemainingBits
<1>4. CHAR_BIT * FullBytes(p) \in Nat
  BY <1>1, SubnetAssumption
<1>5. CHAR_BIT * FullBytes(p) <= p
  BY <1>4, Division
<1> QED
  BY <1>1, <1>2, <1>3, <1>4, <1>5, SubnetAssumption

(* The bits that isSameSubnet compares are bits of the address, for every  *)
(* prefix length: the byte it takes after the full ones (lines 56-63) is   *)
(* taken after an odd number of them only, and an address has an even      *)
(* number of bytes.                                                        *)
THEOREM ComparedBitsExist ==
    ASSUME NEW p \in Length
    PROVE  CHAR_BIT * FullBytes(p) + RemainingBits(p) <= CHAR_BIT * Bytes
<1>1. /\ CHAR_BIT \in Nat \ {0} /\ Bytes \in Nat /\ Bytes % 2 = 0
      /\ CHAR_BIT * Bytes \in Nat /\ p \in Nat /\ p <= CHAR_BIT * Bytes
  BY SubnetAssumption DEF Length
<1>2. /\ FullBytes(p) \in Nat /\ FullBytes(p) % 2 \in {0, 1}
      /\ RemainingBits(p) = IF FullBytes(p) % 2 = 1 THEN CHAR_BIT ELSE 0
      /\ CHAR_BIT * FullBytes(p) \in Nat /\ CHAR_BIT * FullBytes(p) <= p
  BY <1>1, ComparedBytes
<1>3. CASE FullBytes(p) % 2 = 0
  BY <1>1, <1>2, <1>3
<1>4. CASE FullBytes(p) % 2 = 1
  <2>1. FullBytes(p) <= Bytes
    <3> SUFFICES ASSUME Bytes + 1 <= FullBytes(p) PROVE FALSE
      BY <1>1, <1>2
    <3>1. CHAR_BIT * (Bytes + 1) <= CHAR_BIT * FullBytes(p)
      BY <1>1, <1>2, Multiples
    <3>2. CHAR_BIT * (Bytes + 1) = CHAR_BIT * Bytes + CHAR_BIT
      BY <1>1
    <3> QED
      BY <1>1, <1>2, <3>1, <3>2
  <2>2. FullBytes(p) + 1 <= Bytes
    BY <1>1, <1>2, <1>4, <2>1
  <2>3. CHAR_BIT * (FullBytes(p) + 1) <= CHAR_BIT * Bytes
    BY <1>1, <1>2, <2>2, Multiples
  <2>4. CHAR_BIT * (FullBytes(p) + 1) = CHAR_BIT * FullBytes(p) + CHAR_BIT
    BY <1>1, <1>2
  <2> QED
    BY <1>2, <1>4, <2>3, <2>4
<1> QED
  BY <1>2, <1>3, <1>4

-----------------------------------------------------------------------------
(* IPv6.                                                                   *)

(* The bits compared are one interval.                                     *)
LEMMA ComparedInterval ==
    ASSUME NEW ip1 \in IPv6Info, NEW ip2 \in IPv6Info
    PROVE  IsSameSubnet6(ip1, ip2) <=>
               /\ ip1.prefixLength = ip2.prefixLength
               /\ EqualBits(ip1.address, ip2.address, 1,
                            CHAR_BIT * FullBytes(ip1.prefixLength)
                                + RemainingBits(ip1.prefixLength))
<1>1. ip1.prefixLength \in Nat
  BY SubnetAssumption DEF IPv6Info, Length
<1>2. /\ CHAR_BIT * FullBytes(ip1.prefixLength) \in Nat
      /\ RemainingBits(ip1.prefixLength) \in Nat
  BY <1>1, ComparedBytes
<1> QED
  BY <1>2, Z3 DEF IsSameSubnet6, EqualBits

(* isSameSubnet of IPv6 is an equivalence, so that the addresses it takes  *)
(* for the same subnet can be represented by one value, as LocalHost does. *)
THEOREM SameSubnet6Equivalence ==
    ASSUME NEW a \in IPv6Info, NEW b \in IPv6Info, NEW c \in IPv6Info
    PROVE  /\ IsSameSubnet6(a, a)
           /\ IsSameSubnet6(a, b) => IsSameSubnet6(b, a)
           /\ IsSameSubnet6(a, b) /\ IsSameSubnet6(b, c) => IsSameSubnet6(a, c)
BY ComparedInterval DEF EqualBits

(* The same of IPv4, with what it decides: equal bits wherever the netmask *)
(* has a one (lines 15-36).                                                *)
THEOREM SameSubnet4IsMasked ==
    ASSUME NEW ip1 \in IPv4Info, NEW ip2 \in IPv4Info
    PROVE  IsSameSubnet4(ip1, ip2) <=> SameMasked(ip1, ip2)
<1>1. /\ ip1.address \in Address /\ ip2.address \in Address /\ ip1.netmask \in Address
      /\ ip2.netmask \in Address
  BY DEF IPv4Info
<1>2. /\ DOMAIN And(ip1.address, ip1.netmask) = Bit
      /\ DOMAIN And(ip2.address, ip1.netmask) = Bit
      /\ And(ip1.address, ip1.netmask) = [i \in Bit |-> And(ip1.address, ip1.netmask)[i]]
      /\ And(ip2.address, ip1.netmask) = [i \in Bit |-> And(ip2.address, ip1.netmask)[i]]
  BY DEF And
<1>3. ASSUME NEW i \in Bit
      PROVE  And(ip1.address, ip1.netmask)[i] = And(ip2.address, ip1.netmask)[i]
                <=> (ip1.netmask[i] = 1 => ip1.address[i] = ip2.address[i])
  <2>1. ip1.netmask[i] \in {0, 1} /\ ip1.address[i] \in {0, 1} /\ ip2.address[i] \in {0, 1}
    BY <1>1 DEF Address
  <2> QED
    BY <2>1 DEF And
<1>4. And(ip1.address, ip1.netmask) = And(ip2.address, ip1.netmask) <=>
          \A i \in Bit : And(ip1.address, ip1.netmask)[i] = And(ip2.address, ip1.netmask)[i]
  BY <1>2
<1> QED
  BY <1>3, <1>4 DEF IsSameSubnet4, SameMasked

THEOREM SameSubnet4Equivalence ==
    ASSUME NEW a \in IPv4Info, NEW b \in IPv4Info, NEW c \in IPv4Info
    PROVE  /\ IsSameSubnet4(a, a)
           /\ IsSameSubnet4(a, b) => IsSameSubnet4(b, a)
           /\ IsSameSubnet4(a, b) /\ IsSameSubnet4(b, c) => IsSameSubnet4(a, c)
BY DEF IsSameSubnet4

-----------------------------------------------------------------------------
(* IPv6 prefixes.                                                          *)

(* No address outside of the prefix matches, when the prefix is of whole   *)
(* bytes or of an odd number of full ones; Exact: all of those inside do.  *)
THEOREM SoundPrefixes ==
    ASSUME NEW ip1 \in IPv6Info, NEW ip2 \in IPv6Info, Sound(ip1.prefixLength)
    PROVE  IsSameSubnet6(ip1, ip2) => SamePrefix(ip1, ip2)
<1> DEFINE p == ip1.prefixLength
<1>1. p \in Nat /\ CHAR_BIT \in Nat \ {0}
  BY SubnetAssumption DEF IPv6Info, Length
<1>2. /\ FullBytes(p) \in Nat /\ p % CHAR_BIT \in 0 .. CHAR_BIT - 1
      /\ p = CHAR_BIT * FullBytes(p) + (p % CHAR_BIT)
  BY <1>1, Division
<1>3. /\ CHAR_BIT * FullBytes(p) \in Nat /\ RemainingBits(p) \in Nat
      /\ RemainingBits(p) = IF FullBytes(p) % 2 = 1 THEN CHAR_BIT ELSE 0
  BY <1>1, ComparedBytes
<1>4. p <= CHAR_BIT * FullBytes(p) + RemainingBits(p)
  BY <1>1, <1>2, <1>3 DEF Sound
<1> QED
  BY <1>1, <1>3, <1>4, ComparedInterval DEF SamePrefix, EqualBits

THEOREM ExactPrefixes ==
    ASSUME NEW ip1 \in IPv6Info, NEW ip2 \in IPv6Info, Exact(ip1.prefixLength)
    PROVE  IsSameSubnet6(ip1, ip2) <=> SamePrefix(ip1, ip2)
<1> DEFINE p == ip1.prefixLength
<1>1. p \in Nat /\ CHAR_BIT \in Nat \ {0}
  BY SubnetAssumption DEF IPv6Info, Length
<1>2. /\ p % CHAR_BIT = 0 /\ CHAR_BIT * FullBytes(p) \in Nat
      /\ p = CHAR_BIT * FullBytes(p) + (p % CHAR_BIT)
  BY <1>1, Division, ComparedBytes DEF Exact
<1>3. RemainingBits(p) = 0
  BY <1>1, ComparedBytes DEF Exact
<1>4. CHAR_BIT * FullBytes(p) + RemainingBits(p) = p
  BY <1>2, <1>3
<1> QED
  BY <1>4, ComparedInterval DEF SamePrefix

(* getInterfaces makes a prefix length of every netmask.                   *)
LEMMA PrefixLengthType ==
    ASSUME NEW netmask \in Address
    PROVE  PrefixLength(netmask) \in Length
<1> DEFINE Ones == {i \in Bit : \A j \in (i - ((i - 1) % CHAR_BIT)) .. i : netmask[j] = 1}
<1>1. CHAR_BIT * Bytes \in Nat
  BY SubnetAssumption
<1>2. IsFiniteSet(Bit) /\ Cardinality(Bit) = CHAR_BIT * Bytes
  BY <1>1, FS_Interval DEF Bit
<1>3. IsFiniteSet(Ones) /\ Cardinality(Ones) <= Cardinality(Bit)
  BY <1>2, FS_Subset
<1>4. Cardinality(Ones) \in Nat
  BY <1>3, FS_CardinalityType
<1> QED
  BY <1>1, <1>2, <1>3, <1>4 DEF PrefixLength, Length
=============================================================================
