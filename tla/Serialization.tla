---------------------------- MODULE Serialization ----------------------------
(***************************************************************************)
(* Utility::Serialization (Serializer.hpp, Deserializer.hpp) and the       *)
(* serialize and deserializeImpl of NetInterface, IPv4Info and IPv6Info    *)
(* (Serializations.cpp, Deserializations.cpp).                             *)
(*                                                                         *)
(* A buffer is a sequence of bytes, here natural numbers.  A length is a   *)
(* uint64_t, WordSize bytes of which the first holds the value: the bytes  *)
(* of a little-endian host for a length below 256, and one cell for all    *)
(* eight above.  A string is the sequence of its characters.               *)
(*                                                                         *)
(* A deserialize returns its value and moves the offset; here it returns   *)
(* [ok, thrown, val, offset], or what failed first, which every caller     *)
(* returns: Failed for an error, Thrown for an exception.  Only a length   *)
(* that no serialize wrote makes one throw, for the std::string or the     *)
(* std::vector that it asks for cannot be made (std::length_error or       *)
(* std::bad_alloc).                                                        *)
(***************************************************************************)
EXTENDS Integers, SequencesExt

CONSTANTS
    WordSize,    \* sizeof(std::uint64_t)
    WordLimit,   \* 2^64, where a sum of two of them wraps
    MaxSize      \* the longest buffer, string or vector there is memory for

ASSUME SerializationAssumption ==
    /\ WordSize \in Nat \ {0} /\ WordLimit \in Nat /\ MaxSize \in Nat
    /\ 2 * MaxSize < WordLimit

-----------------------------------------------------------------------------
(* What is serialized.                                                     *)

Vectors(S) == {v \in Seq(S) : Len(v) <= MaxSize}

Strings == Vectors(Nat)
IPv4Infos == [address : Strings, netmask : Strings]
IPv6Infos == [address : Strings, prefixLength : Nat]
NetInterfaces ==
    [name : Strings, mac : Strings, ipv4s : Vectors(IPv4Infos), ipv6s : Vectors(IPv6Infos)]

-----------------------------------------------------------------------------
(* Serializer.                                                             *)

Word(n) == [i \in 1 .. WordSize |-> IF i = 1 THEN n ELSE 0]

String(s) == Word(Len(s)) \o s

(* The encodings of the items, one after the other.                        *)
Vector(items) == Word(Len(items)) \o FlattenSeq(items)

IPv4Info(ip) == String(ip.address) \o String(ip.netmask)

(* Mutant of IPv6Info: prefixLength goes out as a word, not as a uint8_t.  *)
IPv6InfoWide(ip) == String(ip.address) \o Word(ip.prefixLength)

IPv6Info(ip) == String(ip.address) \o <<ip.prefixLength>>

NetInterface(nif) ==
    String(nif.name) \o String(nif.mac)
        \o Vector([i \in DOMAIN nif.ipv4s |-> IPv4Info(nif.ipv4s[i])])
        \o Vector([i \in DOMAIN nif.ipv6s |-> IPv6Info(nif.ipv6s[i])])

serialize(nifs) == Vector([i \in DOMAIN nifs |-> NetInterface(nifs[i])])

-----------------------------------------------------------------------------
(* Deserializer.                                                           *)

Failed == [ok |-> FALSE, thrown |-> FALSE, val |-> <<>>, offset |-> 0]
Thrown == [ok |-> FALSE, thrown |-> TRUE, val |-> <<>>, offset |-> 0]
Done(val, offset) == [ok |-> TRUE, thrown |-> FALSE, val |-> val, offset |-> offset]

(* The sum of two 64-bit numbers.                                          *)
Plus(a, b) == IF a + b < WordLimit THEN a + b ELSE a + b - WordLimit

(* Mutant of GetPrimitive: what ends the buffer overflows it.              *)
GetPrimitiveBefore(size, buff, offset) ==
    IF offset + size >= Len(buff) THEN Failed
                                  ELSE Done(buff[offset + 1], offset + size)

(* A primitive of the given size, of which the first byte is the value.    *)
GetPrimitive(size, buff, offset) ==
    IF offset + size > Len(buff) THEN Failed
                                 ELSE Done(buff[offset + 1], offset + size)

GetString(buff, offset) ==
    LET length == GetPrimitive(WordSize, buff, offset)
        end == Plus(length.offset, length.val)
    IN  IF ~length.ok THEN Failed
        ELSE IF end > Len(buff) THEN Failed
        ELSE IF length.val > MaxSize THEN Thrown
        ELSE Done(SubSeq(buff, length.offset + 1, end), end)

(* Mutant of Sequel: an item that does not deserialize ends the vector.    *)
SequelOrEnd(so_far, item, val) ==
    IF item.ok THEN Done(val, item.offset) ELSE so_far

(* What comes of the items so far and the next one.                        *)
Sequel(so_far, item, val) ==
    IF ~so_far.ok THEN so_far ELSE IF item.ok THEN Done(val, item.offset) ELSE item

(* What reading one item more makes of vec; item_at is what deserializing  *)
(* an item gives at each offset.                                           *)
Push(item_at, vec) ==
    LET item == item_at[vec.offset]
    IN  Sequel(vec, item, Append(vec.val, item.val))

GetVector(item_at, buff, offset) ==
    LET length == GetPrimitive(WordSize, buff, offset)
        vec[n \in 0 .. length.val] ==
            IF n = 0 THEN Done(<<>>, length.offset) ELSE Push(item_at, vec[n - 1])
    IN  IF ~length.ok THEN Failed
        ELSE IF length.val > MaxSize THEN Thrown   \* vec.reserve(length)
        ELSE vec[length.val]

(* Two things that follow each other in the buffer.                        *)
GetIPv4Info(buff, offset) ==
    LET address == GetString(buff, offset)
        netmask == GetString(buff, address.offset)
    IN  Sequel(address, netmask, [address |-> address.val, netmask |-> netmask.val])

GetIPv6Info(buff, offset) ==
    LET address == GetString(buff, offset)
        prefixLength == GetPrimitive(1, buff, address.offset)
    IN  Sequel(address, prefixLength,
               [address |-> address.val, prefixLength |-> prefixLength.val])

GetNetInterface(buff, offset) ==
    LET name == GetString(buff, offset)
        mac == GetString(buff, name.offset)
        ipv4s == GetVector([o \in 0 .. Len(buff) |-> GetIPv4Info(buff, o)], buff, mac.offset)
        ipv6s == GetVector([o \in 0 .. Len(buff) |-> GetIPv6Info(buff, o)], buff, ipv4s.offset)
    IN  IF ~name.ok THEN name
        ELSE IF ~mac.ok THEN mac
        ELSE Sequel(ipv4s, ipv6s, [name |-> name.val, mac |-> mac.val,
                                   ipv4s |-> ipv4s.val, ipv6s |-> ipv6s.val])

deserialize(buff) ==
    GetVector([o \in 0 .. Len(buff) |-> GetNetInterface(buff, o)], buff, 0)
=============================================================================
