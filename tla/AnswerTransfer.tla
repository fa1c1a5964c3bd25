--------------------------- MODULE AnswerTransfer ---------------------------
(***************************************************************************)
(* The bytes of an answer on their way from the daemon (line 304 of        *)
(* NetworkNeighborDiscoverer.cpp, UnixSocket::send) to the CLI program     *)
(* (UnixSocket::receive, and the loop and deserialize of                   *)
(* CppCliNeighborRequestor.cpp).  NeighborDiscoverySystem has this as one  *)
(* step; here is what it takes for that to be so.                          *)
(*                                                                         *)
(* The daemon's write blocks until the kernel has taken all of the buffer, *)
(* a chunk at a time; a chunk is half of the send buffer.  The program     *)
(* polls, and takes what its first read with data returns for the answer.  *)
(***************************************************************************)
EXTENDS Serialization

CONSTANTS
    Answers,      \* the lists of interfaces there may be in the table
    Chunks,       \* how much the kernel may take at once
    MaxMessage    \* Config::SINGLE_MESSAGE_MAX_SIZE_BYTES

ASSUME TransferAssumption ==
    /\ Answers \subseteq Vectors(NetInterfaces)
    /\ \A a \in Answers : Len(serialize(a)) <= MaxSize
    /\ Chunks \subseteq Nat \ {0}
    /\ MaxMessage \in Nat \ {0} /\ MaxMessage <= MaxSize

VARIABLES
    answer,    \* neighbors.data() when the daemon answers
    chunk,     \* what the kernel takes at once in this behavior
    daemon,    \* "sending", "sent", "sigpipe", or "off": ended from outside
    left,      \* bytes the daemon has yet to write
    stream,    \* bytes written and not read
    program,   \* where the program is, or how it ended
    printed    \* the neighbors it printed

vars == <<answer, chunk, daemon, left, stream, program, printed>>

Daemon == {"sending", "sent", "sigpipe", "off"}
Ended == {"printed", "undecodable", "gaveUp"}
Program == {"polling", "testing"} \cup Ended

First(n, s) == SubSeq(s, 1, IF n < Len(s) THEN n ELSE Len(s))
Rest(n, s) == SubSeq(s, n + 1, Len(s))

(* What an answer decodes to, cut anywhere.                                *)
Cuts(a) == {First(n, serialize(a)) : n \in 0 .. Len(serialize(a))}
Decoded == [buff \in UNION {Cuts(a) : a \in Answers} |-> deserialize(buff)]

Init ==
    /\ answer \in Answers /\ chunk \in Chunks
    /\ daemon = "sending" /\ left = serialize(answer) /\ stream = <<>>
    /\ program = "polling" /\ printed = <<>>

-----------------------------------------------------------------------------
(* The daemon.                                                             *)

Write ==
    /\ daemon = "sending" /\ left # <<>>
    /\ program \notin Ended /\ Len(stream) < 2 * chunk
    /\ stream' = stream \o First(chunk, left)
    /\ left' = Rest(chunk, left)
    /\ UNCHANGED <<answer, chunk, daemon, program, printed>>

(* Mutant of WriteToClosed: send tries again after this error too.         *)
WriteAgain ==
    /\ daemon = "sending" /\ left # <<>> /\ program \in Ended
    /\ UNCHANGED vars

(* The program has closed its end: a write in progress returns, and that   *)
(* of what is left raises SIGPIPE.                                         *)
WriteToClosed ==
    /\ daemon = "sending" /\ left # <<>> /\ program \in Ended
    /\ daemon' = "sigpipe"
    /\ UNCHANGED <<answer, chunk, left, stream, program, printed>>

(* send returns, the iteration ends and clientSocket closes its end.       *)
Sent ==
    /\ daemon = "sending" /\ left = <<>>
    /\ daemon' = "sent"
    /\ UNCHANGED <<answer, chunk, left, stream, program, printed>>

Kill ==
    /\ daemon = "sending"
    /\ daemon' = "off"
    /\ UNCHANGED <<answer, chunk, left, stream, program, printed>>

-----------------------------------------------------------------------------
(* The program.                                                            *)

(* receive with data, and what becomes of it: buff is resized to what was  *)
(* read and deserialized.  In either case, and after an exception, the     *)
(* program ends.                                                           *)
Receive ==
    LET result == Decoded[First(MaxMessage, stream)]
    IN  /\ program = "polling" /\ stream # <<>>
        /\ stream' = Rest(MaxMessage, stream)
        /\ program' = IF result.ok THEN "printed" ELSE "undecodable"
        /\ printed' = result.val
        /\ UNCHANGED <<answer, chunk, daemon, left>>

(* EAGAIN, or the end of file that a daemon which ended leaves: the same   *)
(* empty buffer.                                                           *)
ReceiveNothing ==
    /\ program = "polling" /\ stream = <<>>
    /\ program' = "testing"
    /\ UNCHANGED <<answer, chunk, daemon, left, stream, printed>>

(* The time is tested after the read: data may have come in between.       *)
PollAgain ==
    /\ program = "testing"
    /\ program' = "polling"
    /\ UNCHANGED <<answer, chunk, daemon, left, stream, printed>>

GiveUp ==
    /\ program = "testing"
    /\ program' = "gaveUp"
    /\ UNCHANGED <<answer, chunk, daemon, left, stream, printed>>

-----------------------------------------------------------------------------
ProgramStep == Receive \/ ReceiveNothing \/ PollAgain \/ GiveUp

Next == Write \/ WriteToClosed \/ Sent \/ Kill \/ ProgramStep

(* Both programs keep running, and the wait of the program comes to an end *)
(* at some test of the time.                                               *)
Fairness ==
    /\ WF_vars(Write \/ WriteToClosed \/ Sent)
    /\ WF_vars(ProgramStep) /\ SF_vars(GiveUp)

SafetySpec == Init /\ [][Next]_vars
Spec == SafetySpec /\ Fairness

-----------------------------------------------------------------------------
(* Properties.                                                             *)

(* The codec on a list: deserialize accepts what serialize made of it, and *)
(* no shorter beginning of that.                                           *)
RoundTrips(a) ==
    /\ serialize(a) \in Seq(Nat) /\ Decoded[serialize(a)].val = a
    /\ \A buff \in Cuts(a) : Decoded[buff].ok <=> buff = serialize(a)

RoundTrip == \A a \in Answers : RoundTrips(a)

(* The two directions agree on every type that is sent, empty strings and  *)
(* lists included, and the length that comes first in each lets no cut     *)
(* pass for a shorter list (Serializer.hpp:36-57, Deserializer.hpp:60-109, *)
(* and the serialize and deserializeImpl of each type).                    *)
AnswersRoundTrip == RoundTrips(answer)

(* A program never prints anything but the whole list it was sent, in its  *)
(* order: no cut of the answer at a chunk, at MaxMessage or at the end of  *)
(* the daemon decodes to a shorter or another list.                        *)
PrintsTheAnswer == program = "printed" => printed = answer

(* One read is enough when the answer is no longer than a chunk and than   *)
(* MaxMessage: a program that waited gets to print it, whatever the        *)
(* interleaving and even if the daemon ends, and the daemon does not die   *)
(* of it.  ("deserialization shoudln't fail unless buffers are mutated     *)
(* outside of this program", Deserializer.hpp:28, holds so far.)           *)
Short == Len(serialize(answer)) <= MaxMessage /\ Len(serialize(answer)) <= chunk

ShortAnswersArrive ==
    Short => /\ program # "undecodable"
             /\ daemon = "sigpipe" => program = "gaveUp"

(* The same list as an announcement: recvfrom cuts it at maxBufferSize and *)
(* leaves the rest of the buffer zero (line 175), and the buffer decodes   *)
(* if and only if nothing was cut, to the list that was sent; what was cut *)
(* is an error, which the caller logs (line 186), and no exception, which  *)
(* would end the daemon.                                                   *)
Datagram(sent) == [i \in 1 .. MaxMessage |-> IF i <= Len(sent) THEN sent[i] ELSE 0]
DecodedDatagram == [a \in Answers |-> deserialize(Datagram(serialize(a)))]

AnnouncementsDecodeWhole ==
    LET result == DecodedDatagram[answer]
    IN  /\ result.ok <=> Len(serialize(answer)) <= MaxMessage
        /\ result.ok => result.val = answer
        /\ ~result.thrown

(* The transfer comes to an end on both sides: neither waits for the other *)
(* for ever, in particular not the daemon for a program that reads no more.*)
TransferEnds == <>(daemon # "sending" /\ program \in Ended)
=============================================================================
