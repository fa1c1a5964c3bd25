------------------------------- MODULE Subnet -------------------------------
(***************************************************************************)
(* Network::NetInterfaces::IPAddressManager                                *)
(* (include/Network/NetInterfaces/IPAddressManager.cpp) and the netmask    *)
(* bits that NetInterfaceManager::getInterfaces counts.                    *)
(*                                                                         *)
(* An address is a function from its bits, the most significant first:     *)
(* what inet_pton makes of the text, which it never refuses here since     *)
(* inet_ntop wrote it.  CHAR_BIT and the Bytes of an address (8, and 4 or  *)
(* 16) are parameters.                                                     *)
(***************************************************************************)
EXTENDS Integers, FiniteSets

CONSTANTS
    CHAR_BIT,   \* bits of a byte
    Bytes       \* bytes of an address

ASSUME SubnetAssumption ==
    /\ CHAR_BIT \in Nat \ {0} /\ \E k \in 0 .. CHAR_BIT : CHAR_BIT = 2 ^ k
    /\ Bytes \in Nat \ {0} /\ Bytes % 2 = 0

Bit == 1 .. CHAR_BIT * Bytes
Address == [Bit -> {0, 1}]
Length == 0 .. CHAR_BIT * Bytes

IPv4Info == [address : Address, netmask : Address]
IPv6Info == [address : Address, prefixLength : Length]

And(a, mask) == [i \in Bit |-> a[i] * mask[i]]

(* isSameSubnet of IPv4: the same netmask, and equal under it.             *)
IsSameSubnet4(ip1, ip2) ==
    /\ ip1.netmask = ip2.netmask
    /\ And(ip1.address, ip1.netmask) = And(ip2.address, ip1.netmask)

EqualBits(a, b, from, to) == \A i \in from .. to : a[i] = b[i]

FullBytes(prefixLength) == prefixLength \div CHAR_BIT

(* prefixLength & CHAR_BIT, the one bit that CHAR_BIT has: CHAR_BIT when   *)
(* the number of full bytes is odd and 0 when it is even, whatever is left *)
(* after the full bytes.                                                   *)
RemainingBits(prefixLength) == CHAR_BIT * (FullBytes(prefixLength) % 2)

(* Mutant of IsSameSubnet6: the lengths are compared, the bits are not.    *)
SameLength(ip1, ip2) == ip1.prefixLength = ip2.prefixLength

(* isSameSubnet of IPv6: memcmp of the full bytes, then the first          *)
(* RemainingBits bits of the next one.                                     *)
IsSameSubnet6(ip1, ip2) ==
    LET full == CHAR_BIT * FullBytes(ip1.prefixLength)
        remaining == RemainingBits(ip1.prefixLength)
    IN  /\ ip1.prefixLength = ip2.prefixLength
        /\ EqualBits(ip1.address, ip2.address, 1, full)
        /\ remaining > 0 =>
              EqualBits(ip1.address, ip2.address, full + 1, full + remaining)

(* getInterfaces: the break of line 80 leaves the loop over one byte, so   *)
(* a bit is counted when it and those before it in its byte are set.       *)
PrefixLength(netmask) ==
    Cardinality({i \in Bit : \A j \in (i - ((i - 1) % CHAR_BIT)) .. i : netmask[j] = 1})

(* What the prefix of an address means, for IPv6 and for the netmasks of   *)
(* IPv4 that are prefixes: the reference of the definitions above.         *)
SamePrefix(ip1, ip2) ==
    /\ ip1.prefixLength = ip2.prefixLength
    /\ EqualBits(ip1.address, ip2.address, 1, ip1.prefixLength)

SameMasked(ip1, ip2) ==
    /\ ip1.netmask = ip2.netmask
    /\ \A i \in Bit : ip1.netmask[i] = 1 => ip1.address[i] = ip2.address[i]

(* Prefix lengths for which no more is matched than the prefix says, and   *)
(* for which it is compared as it should be.                               *)
Sound(prefixLength) ==
    prefixLength % CHAR_BIT = 0 \/ FullBytes(prefixLength) % 2 = 1
Exact(prefixLength) ==
    prefixLength % CHAR_BIT = 0 /\ FullBytes(prefixLength) % 2 = 0
=============================================================================
