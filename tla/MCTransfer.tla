----------------------------- MODULE MCTransfer -----------------------------
(***************************************************************************)
(* The instance of AnswerTransfer that TLC checks: words of two bytes, of  *)
(* which the encoding of a list takes at least one and that of an          *)
(* interface four.                                                         *)
(***************************************************************************)
EXTENDS AnswerTransfer

(* Characters and prefix lengths are bytes; 0, 1 and 2 are also lengths,   *)
(* so that a string read from the wrong offset can pass for a length.      *)
Ipv4 == [address |-> <<1>>, netmask |-> <<2>>]
Ipv6 == [address |-> <<2, 0>>, prefixLength |-> 1]

Nif(mac, ipv4s, ipv6s) ==
    [name |-> <<1>>, mac |-> mac, ipv4s |-> ipv4s, ipv6s |-> ipv6s]

MCAnswers ==
    {<<>>,
     <<Nif(<<2>>, <<>>, <<Ipv6>>)>>,
     <<Nif(<<>>, <<Ipv4>>, <<>>)>>,
     <<Nif(<<2>>, <<Ipv4>>, <<Ipv6, Ipv6>>)>>,
     <<Nif(<<1>>, <<>>, <<Ipv6>>), Nif(<<2>>, <<Ipv4>>, <<>>)>>,
     <<Nif(<<0>>, <<>>, <<>>), Nif(<<1>>, <<>>, <<>>), Nif(<<2>>, <<>>, <<>>)>>}

MCChunks == 1 .. 40
=============================================================================
