--------------------------- MODULE TransferProofs ---------------------------
(***************************************************************************)
(* What becomes of an answer or of an announcement on its way, for every   *)
(* set of lists of interfaces there is memory for (TransferAssumption),    *)
(* whatever the kernel takes at once and however the two programs          *)
(* interleave.                                                             *)
(*                                                                         *)
(* First the codec: reading back an encoding, at any offset of a buffer    *)
(* that may end before it does, gives what was written or fails (Reads),   *)
(* for a word, a string, and then for every type in the order the types    *)
(* are built.  A vector takes an induction over its length (Inductive) and *)
(* over the partial encodings (Flatten) and partial results (ItemsRead).   *)
(* Then the two programs: the invariant TransferInv.                       *)
(***************************************************************************)
EXTENDS AnswerTransfer, SequenceTheorems, WellFoundedInduction, TLAPS

-----------------------------------------------------------------------------
(* Induction and recursion on the natural numbers, on sets and functions.  *)

LEMMA Inductive ==
    ASSUME NEW S, 0 \in S, \A n \in S \cap Nat : n + 1 \in S
    PROVE  Nat \subseteq S
<1> DEFINE R == {p \in Nat \X Nat : p[1] < p[2]}
           T == Nat \ S
<1>1. IsWellFoundedOn(R, Nat)
  BY NatLessThanWellFounded DEF OpToRel
<1>2. SUFFICES ASSUME T # {} PROVE FALSE
  OBVIOUS
<1>3. PICK x \in T : \A y \in T : ~(<<y, x>> \in R)
  <2> HIDE DEF R
  <2> QED
    BY <1>1, <1>2, WFMin DEF R
<1>4. x \in Nat /\ x # 0
  OBVIOUS
<1>5. x - 1 \in Nat /\ <<x - 1, x>> \in R
  BY <1>4
<1> QED
  BY <1>3, <1>4, <1>5

(* f is defined by recursion on 0 .. N.                                    *)
Recurs(f, N, S, base, step) ==
    /\ f \in [0 .. N -> S]
    /\ f[0] = base /\ \A n \in 1 .. N : f[n] = step[<<f[n - 1], n>>]

Steps(step, S) == \A s \in S, n \in Nat : step[<<s, n>>] \in S

LEMMA Recursion ==
    ASSUME NEW S, NEW base \in S, NEW step, Steps(step, S), NEW N \in Nat
    PROVE  \E f : Recurs(f, N, S, base, step)
<1> DEFINE Solves(f, k) ==
              f[0] = base /\ \A n \in 1 .. k : f[n] = step[<<f[n - 1], n>>]
           Solvable == {k \in Nat : \E f \in [0 .. k -> S] : Solves(f, k)}
<1> USE DEF Steps
<1>1. 0 \in Solvable
  <2> DEFINE f == [n \in 0 .. 0 |-> base]
  <2>1. f \in [0 .. 0 -> S] /\ Solves(f, 0)
    OBVIOUS
  <2> QED
    BY <2>1
<1>2. ASSUME NEW k \in Solvable \cap Nat
      PROVE  k + 1 \in Solvable
  <2>1. PICK f \in [0 .. k -> S] : Solves(f, k)
    OBVIOUS
  <2> DEFINE g == [n \in 0 .. k + 1 |-> IF n = k + 1 THEN step[<<f[k], k + 1>>] ELSE f[n]]
  <2>2. step[<<f[k], k + 1>>] \in S
    OBVIOUS
  <2>3. g \in [0 .. k + 1 -> S]
    BY <2>2
  <2>4. g[0] = base
    BY <2>1
  <2>5. ASSUME NEW n \in 1 .. k + 1
        PROVE  g[n] = step[<<g[n - 1], n>>]
    <3>1. CASE n = k + 1
      <4>1. g[n] = step[<<f[k], n>>] /\ g[n - 1] = f[k]
        BY <3>1
      <4> QED
        BY <4>1
    <3>2. CASE n \in 1 .. k
      <4>1. g[n] = f[n] /\ g[n - 1] = f[n - 1]
        BY <3>2
      <4> QED
        BY <2>1, <3>2, <4>1
    <3> QED
      BY <3>1, <3>2
  <2>6. Solves(g, k + 1)
    BY <2>4, <2>5
  <2> HIDE DEF g, Solves
  <2> QED
    BY <2>3, <2>6
<1>3. N \in Solvable
  <2> HIDE DEF Solvable
  <2> QED
    BY <1>1, <1>2, Inductive
<1> QED
  BY <1>3 DEF Recurs

-----------------------------------------------------------------------------
(* The encodings of the items, one after the other.                        *)

(* The first n encodings.                                                  *)
LEMMA Flatten ==
    ASSUME NEW encs \in Seq(Seq(Nat))
    PROVE  \E upto \in [0 .. Len(encs) -> Seq(Nat)] :
              /\ upto[0] = <<>>
              /\ \A n \in 1 .. Len(encs) : upto[n] = upto[n - 1] \o encs[n]
              /\ upto[Len(encs)] = FlattenSeq(encs)
<1> DEFINE N == Len(encs)
           step == [p \in Seq(Nat) \X Nat |-> p[1] \o (IF p[2] \in 1 .. N THEN encs[p[2]] ELSE <<>>)]
<1>0. N \in Nat /\ \A n \in 1 .. N : encs[n] \in Seq(Nat)
  OBVIOUS
<1>1. \A s \in Seq(Nat), n \in Nat :
         /\ step[<<s, n>>] = s \o (IF n \in 1 .. N THEN encs[n] ELSE <<>>)
         /\ step[<<s, n>>] \in Seq(Nat)
  <2>1. ASSUME NEW s \in Seq(Nat), NEW n \in Nat
        PROVE  /\ step[<<s, n>>] = s \o (IF n \in 1 .. N THEN encs[n] ELSE <<>>)
               /\ step[<<s, n>>] \in Seq(Nat)
    <3>1. step[<<s, n>>] = s \o (IF n \in 1 .. N THEN encs[n] ELSE <<>>)
      OBVIOUS
    <3>2. (IF n \in 1 .. N THEN encs[n] ELSE <<>>) \in Seq(Nat)
      BY <1>0, EmptySeq
    <3>3. s \o (IF n \in 1 .. N THEN encs[n] ELSE <<>>) \in Seq(Nat)
      <4> HIDE DEF N, step
      <4> QED
        BY <3>2, ConcatProperties
    <3> QED
      BY <3>1, <3>3
  <2> QED
    BY <2>1
<1>2. PICK upto \in [0 .. N -> Seq(Nat)] :
         upto[0] = <<>> /\ \A n \in 1 .. N : upto[n] = step[<<upto[n - 1], n>>]
  <2>1. <<>> \in Seq(Nat) /\ N \in Nat
    BY <1>0, EmptySeq
  <2>2. Steps(step, Seq(Nat))
    BY <1>1 DEF Steps
  <2> HIDE DEF step, N
  <2>3. \E f : Recurs(f, N, Seq(Nat), <<>>, step)
    BY <2>1, <2>2, Recursion
  <2> QED
    BY <2>3 DEF Recurs
<1>3. ASSUME NEW n \in 1 .. N
      PROVE  upto[n] = upto[n - 1] \o encs[n]
  <2>1. n - 1 \in 0 .. N /\ n \in Nat
    BY <1>0
  <2> HIDE DEF step, N
  <2> QED
    BY <1>1, <1>2, <2>1
<1>4. CASE N = 0
  <2>1. encs = <<>>
    BY <1>4, EmptySeq
  <2> QED
    BY <1>2, <1>3, <1>4, <2>1 DEF FlattenSeq
<1>5. CASE N # 0
  <2> DEFINE solves(f) == f = [i \in 1 .. N |-> IF i = 1 THEN encs[i] ELSE f[i - 1] \o encs[i]]
             fix == CHOOSE f : solves(f)
  <2>1. FlattenSeq(encs) = fix[N]
    BY <1>5 DEF FlattenSeq
  <2>2. solves([i \in 1 .. N |-> upto[i]])
    <3> DEFINE g == [i \in 1 .. N |-> upto[i]]
    <3>1. ASSUME NEW i \in 1 .. N
          PROVE  g[i] = IF i = 1 THEN encs[i] ELSE g[i - 1] \o encs[i]
      <4>1. upto[i] = upto[i - 1] \o encs[i]
        BY <1>3
      <4>2. i = 1 => upto[i] = encs[i]
        BY <1>0, <1>2, <4>1, ConcatEmptySeq
      <4>3. i # 1 => g[i - 1] = upto[i - 1]
        BY <1>0
      <4> QED
        BY <4>1, <4>2, <4>3
    <3> QED
      BY <3>1
  <2>3. solves(fix)
    <3> HIDE DEF solves
    <3> QED
      BY <2>2
  <2>4. \A i \in 1 .. N : fix[i] = IF i = 1 THEN encs[i] ELSE fix[i - 1] \o encs[i]
    <3> HIDE DEF fix
    <3> QED
      BY <2>3
  <2>5. ASSUME NEW i \in Nat, i + 1 \in 1 .. N => fix[i + 1] = upto[i + 1], i + 2 \in 1 .. N
        PROVE  fix[i + 2] = upto[i + 2]
    <3> HIDE DEF fix, N
    <3>1. i + 1 \in 1 .. N /\ fix[i + 1] = upto[i + 1] /\ (i + 2) - 1 = i + 1 /\ i + 2 # 1
      BY <1>0, <2>5
    <3>2. fix[i + 2] = fix[i + 1] \o encs[i + 2]
      BY <2>4, <2>5, <3>1
    <3>3. upto[i + 2] = upto[i + 1] \o encs[i + 2]
      BY <1>3, <2>5, <3>1
    <3> QED
      BY <3>1, <3>2, <3>3
  <2>6. \A i \in Nat : i + 1 \in 1 .. N => fix[i + 1] = upto[i + 1]
    <3> DEFINE same == {i \in Nat : i + 1 \in 1 .. N => fix[i + 1] = upto[i + 1]}
    <3> HIDE DEF fix, N
    <3>1. 0 \in same
      <4>1. 1 \in 1 .. N /\ 1 - 1 = 0
        BY <1>0, <1>5
      <4>2. fix[1] = encs[1]
        BY <2>4, <4>1
      <4>3. upto[1] = upto[0] \o encs[1]
        BY <1>3, <4>1
      <4> QED
        BY <1>0, <1>2, <4>1, <4>2, <4>3, ConcatEmptySeq
    <3>2. \A i \in same \cap Nat : i + 1 \in same
      BY <2>5
    <3>3. Nat \subseteq same
      <4> HIDE DEF same
      <4> QED
        BY <3>1, <3>2, Inductive
    <3> QED
      BY <3>3
  <2>7. fix[N] = upto[N]
    <3> HIDE DEF fix, N
    <3>1. N - 1 \in Nat /\ (N - 1) + 1 = N /\ N \in 1 .. N
      BY <1>0, <1>5
    <3> QED
      BY <2>6, <3>1
  <2> QED
    BY <1>2, <1>3, <2>1, <2>7
<1> QED
  BY <1>4, <1>5

-----------------------------------------------------------------------------
(* Reading back what was written.                                          *)

(* What is in buff from the offset on is enc, as far as buff goes.         *)
Carries(buff, offset, enc) ==
    \A i \in 1 .. Len(enc) : offset + i <= Len(buff) => buff[offset + i] = enc[i]

(* What reading gives if it was the encoding of val, whole or cut: val and *)
(* the offset behind it, or a failure.                                     *)
Reads(result, val, buff, offset, enc) ==
    result = IF offset + Len(enc) <= Len(buff) THEN Done(val, offset + Len(enc)) ELSE Failed

LEMMA CarriesBoth ==
    ASSUME NEW s \in Seq(Nat), NEW t \in Seq(Nat), NEW buff, NEW offset \in Nat,
           Carries(buff, offset, s \o t)
    PROVE  /\ s \o t \in Seq(Nat) /\ Len(s \o t) = Len(s) + Len(t)
           /\ Carries(buff, offset, s) /\ Carries(buff, offset + Len(s), t)
<1>1. /\ s \o t \in Seq(Nat) /\ Len(s \o t) = Len(s) + Len(t)
      /\ \A i \in 1 .. Len(s) + Len(t) :
            (s \o t)[i] = IF i <= Len(s) THEN s[i] ELSE t[i - Len(s)]
  BY ConcatProperties
<1>2. Len(s) \in Nat /\ Len(t) \in Nat
  OBVIOUS
<1>3. Carries(buff, offset, s)
  BY <1>1, <1>2 DEF Carries
<1>4. ASSUME NEW i \in 1 .. Len(t), (offset + Len(s)) + i <= Len(buff)
      PROVE  buff[(offset + Len(s)) + i] = t[i]
  <2>1. Len(s) + i \in 1 .. Len(s) + Len(t) /\ ~(Len(s) + i <= Len(s))
        /\ (Len(s) + i) - Len(s) = i /\ offset + (Len(s) + i) = (offset + Len(s)) + i
    BY <1>2
  <2>2. (s \o t)[Len(s) + i] = t[i]
    BY <1>1, <2>1
  <2>3. buff[offset + (Len(s) + i)] = (s \o t)[Len(s) + i]
    BY <1>1, <1>4, <2>1 DEF Carries
  <2> QED
    BY <2>1, <2>2, <2>3
<1> QED
  BY <1>1, <1>3, <1>4 DEF Carries

(* The types of the encodings.                                             *)
LEMMA WordType ==
    ASSUME NEW n \in Nat
    PROVE  Word(n) \in Seq(Nat) /\ Len(Word(n)) = WordSize /\ Word(n)[1] = n
BY SerializationAssumption DEF Word

LEMMA StringType ==
    ASSUME NEW s \in Strings
    PROVE  String(s) \in Seq(Nat)
<1>1. s \in Seq(Nat) /\ Len(s) \in Nat
  BY DEF Strings, Vectors
<1>2. Word(Len(s)) \in Seq(Nat)
  BY <1>1, WordType
<1> QED
  BY <1>1, <1>2, ConcatProperties DEF String

LEMMA WordRead ==
    ASSUME NEW n \in Nat, NEW buff, Len(buff) \in Nat, NEW offset \in Nat,
           Carries(buff, offset, Word(n))
    PROVE  Reads(GetPrimitive(WordSize, buff, offset), n, buff, offset, Word(n))
<1>1. WordSize \in Nat \ {0}
  BY SerializationAssumption
<1>2. Word(n) \in Seq(Nat) /\ Len(Word(n)) = WordSize /\ Word(n)[1] = n
  BY WordType
<1>3. offset + WordSize <= Len(buff) => buff[offset + 1] = n
  BY <1>1, <1>2 DEF Carries
<1> QED
  BY <1>1, <1>2, <1>3 DEF GetPrimitive, Reads

LEMMA StringRead ==
    ASSUME NEW s \in Strings, NEW buff \in Vectors(Nat), NEW offset \in 0 .. Len(buff),
           Carries(buff, offset, String(s))
    PROVE  Reads(GetString(buff, offset), s, buff, offset, String(s))
<1> DEFINE N == Len(s)
           from == offset + WordSize
<1>0. buff \in Seq(Nat) /\ Len(buff) <= MaxSize /\ N <= MaxSize
  BY DEF Strings, Vectors
<1>1. s \in Seq(Nat) /\ N \in Nat /\ WordSize \in Nat \ {0} /\ offset \in Nat /\ Len(buff) \in Nat
  BY <1>0, SerializationAssumption DEF Strings, Vectors
<1>2. Word(N) \in Seq(Nat) /\ Len(Word(N)) = WordSize
  BY <1>1, WordType
<1>3. /\ String(s) \in Seq(Nat) /\ Len(String(s)) = WordSize + N
      /\ Carries(buff, offset, Word(N)) /\ Carries(buff, from, s)
  <2> HIDE DEF N
  <2>1. String(s) = Word(N) \o s
    BY DEF String, N
  <2>2. Carries(buff, offset, Word(N) \o s)
    BY <2>1
  <2>3. /\ Word(N) \o s \in Seq(Nat) /\ Len(Word(N) \o s) = Len(Word(N)) + Len(s)
        /\ Carries(buff, offset, Word(N)) /\ Carries(buff, offset + Len(Word(N)), s)
    BY <1>1, <1>2, <2>2, CarriesBoth
  <2> QED
    BY <1>2, <2>1, <2>3 DEF N
<1>4. GetPrimitive(WordSize, buff, offset)
        = IF from <= Len(buff) THEN Done(N, from) ELSE Failed
  <2> HIDE DEF N
  <2> QED
    BY <1>1, <1>2, <1>3, WordRead DEF Reads
<1>5. CASE from > Len(buff)
  <2>1. GetPrimitive(WordSize, buff, offset) = Failed
    BY <1>1, <1>4, <1>5
  <2> QED
    BY <1>1, <1>3, <1>5, <2>1 DEF GetString, Reads, Failed
<1>6. CASE from <= Len(buff)
  <2>1. GetPrimitive(WordSize, buff, offset) = Done(N, from)
    BY <1>4, <1>6
  <2>2. GetString(buff, offset) =
          IF from + N > Len(buff) THEN Failed
          ELSE Done(SubSeq(buff, from + 1, from + N), from + N)
    <3>1. from + N < WordLimit
      BY <1>0, <1>1, <1>6, SerializationAssumption
    <3>2. Plus(from, N) = from + N
      BY <3>1 DEF Plus
    <3>3. ~(N > MaxSize)
      BY <1>0, <1>1, SerializationAssumption
    <3> HIDE DEF N, from
    <3> QED
      BY <2>1, <3>2, <3>3 DEF GetString, Done
  <2>3. ASSUME from + N <= Len(buff)
        PROVE  SubSeq(buff, from + 1, from + N) = s
    <3>1. \A i \in from + 1 .. from + N : buff[i] \in Nat
      BY <1>0, <1>1, <2>3
    <3>2. from \in Nat /\ from + 1 \in Int /\ from + N \in Int
      BY <1>1
    <3>3. /\ SubSeq(buff, from + 1, from + N) \in Seq(Nat)
          /\ Len(SubSeq(buff, from + 1, from + N))
               = IF from + 1 <= from + N THEN (from + N) - (from + 1) + 1 ELSE 0
          /\ \A i \in 1 .. (from + N) - (from + 1) + 1 :
                SubSeq(buff, from + 1, from + N)[i] = buff[from + 1 + i - 1]
      <4> HIDE DEF from, N
      <4> QED
        BY <3>1, <3>2, SubSeqProperties
    <3>4. Len(SubSeq(buff, from + 1, from + N)) = N
      BY <1>1, <3>2, <3>3
    <3>5. ASSUME NEW i \in 1 .. N
          PROVE  SubSeq(buff, from + 1, from + N)[i] = s[i]
      <4>1. i \in 1 .. (from + N) - (from + 1) + 1 /\ from + 1 + i - 1 = from + i
            /\ from + i <= Len(buff)
        BY <1>1, <2>3, <3>2
      <4>2. buff[from + i] = s[i]
        BY <1>3, <4>1 DEF Carries
      <4> QED
        BY <3>3, <4>1, <4>2
    <3> HIDE DEF from
    <3> QED
      BY <1>1, <3>3, <3>4, <3>5, SeqEqual
  <2>4. from + N = offset + Len(String(s))
    BY <1>1, <1>3
  <2>5. from + N \in Nat /\ Len(buff) \in Nat
    BY <1>1
  <2> HIDE DEF from, N
  <2>6. Reads(GetString(buff, offset), s, buff, offset, String(s))
    <3>1. CASE from + N > Len(buff)
      <4>1. GetString(buff, offset) = Failed /\ ~(offset + Len(String(s)) <= Len(buff))
        BY <2>2, <2>4, <2>5, <3>1
      <4> QED
        BY <4>1 DEF Reads
    <3>2. CASE from + N <= Len(buff)
      <4>1. ~(from + N > Len(buff)) /\ SubSeq(buff, from + 1, from + N) = s
        BY <2>3, <2>5, <3>2
      <4>2. GetString(buff, offset) = Done(s, from + N)
        BY <2>2, <4>1
      <4>3. offset + Len(String(s)) <= Len(buff)
        BY <2>4, <3>2
      <4> QED
        BY <2>4, <4>2, <4>3 DEF Reads
    <3> QED
      BY <2>5, <3>1, <3>2
  <2> QED
    BY <1>3, <2>6
<1> QED
  BY <1>1, <1>3, <1>5, <1>6

LEMMA ReadsOk ==
    ASSUME NEW r, NEW val, NEW buff, Len(buff) \in Nat, NEW offset \in Nat,
           NEW enc \in Seq(Nat), Reads(r, val, buff, offset, enc)
    PROVE  /\ r.ok <=> offset + Len(enc) <= Len(buff)
           /\ r.ok => r.val = val /\ r.offset = offset + Len(enc)
           /\ ~r.ok => r = Failed
           /\ ~r.thrown
<1>1. CASE offset + Len(enc) <= Len(buff)
  BY <1>1 DEF Reads, Done
<1>2. CASE ~(offset + Len(enc) <= Len(buff))
  BY <1>2 DEF Reads, Failed
<1> QED
  BY <1>1, <1>2

(* One thing behind another.                                               *)
LEMMA BothRead ==
    ASSUME NEW s \in Seq(Nat), NEW t \in Seq(Nat),
           NEW buff, Len(buff) \in Nat, NEW offset \in Nat,
           NEW a, NEW b, NEW val, NEW read, NEW first, NEW second,
           Reads(first, a, buff, offset, s),
           first.ok => Reads(second, b, buff, offset + Len(s), t),
           first.ok /\ second.ok => read = val
    PROVE  Reads(Sequel(first, second, read), val, buff, offset, s \o t)
<1>1. Len(s \o t) = Len(s) + Len(t) /\ Len(s) \in Nat /\ Len(t) \in Nat
  BY ConcatProperties
<1>2. CASE ~first.ok
  <2>1. ~(offset + Len(s) <= Len(buff))
    BY <1>2, ReadsOk
  <2>2. ~(offset + Len(s \o t) <= Len(buff))
    BY <1>1, <2>1
  <2>3. first = Failed
    BY <1>2, ReadsOk
  <2> QED
    BY <1>2, <2>2, <2>3 DEF Sequel, Reads
<1>3. CASE first.ok
  <2>1. Reads(second, b, buff, offset + Len(s), t) /\ offset + Len(s) \in Nat
    BY <1>1, <1>3
  <2>2. (offset + Len(s)) + Len(t) = offset + Len(s \o t)
    BY <1>1
  <2>3. CASE second.ok
    <3>1. second.offset = (offset + Len(s)) + Len(t) /\ (offset + Len(s)) + Len(t) <= Len(buff)
      BY <2>1, <2>3, ReadsOk
    <3> QED
      BY <1>3, <2>2, <2>3, <3>1 DEF Sequel, Reads
  <2>4. CASE ~second.ok
    <3>1. ~((offset + Len(s)) + Len(t) <= Len(buff)) /\ second = Failed
      BY <2>1, <2>4, ReadsOk
    <3> QED
      BY <1>3, <2>2, <2>4, <3>1 DEF Sequel, Reads
  <2> QED
    BY <2>3, <2>4
<1> QED
  BY <1>2, <1>3

LEMMA IPv4Read ==
    ASSUME NEW ip \in IPv4Infos, NEW buff \in Vectors(Nat), NEW offset \in 0 .. Len(buff),
           Carries(buff, offset, IPv4Info(ip))
    PROVE  Reads(GetIPv4Info(buff, offset), ip, buff, offset, IPv4Info(ip))
<1> DEFINE s == String(ip.address)
           t == String(ip.netmask)
           first == GetString(buff, offset)
           second == GetString(buff, first.offset)
<1>1. /\ ip.address \in Strings /\ ip.netmask \in Strings
      /\ ip = [address |-> ip.address, netmask |-> ip.netmask]
      /\ offset \in Nat /\ Len(buff) \in Nat
  BY DEF IPv4Infos, Vectors
<1>2. s \in Seq(Nat) /\ t \in Seq(Nat)
  BY <1>1, StringType
<1>3. Carries(buff, offset, s) /\ Carries(buff, offset + Len(s), t)
  <2> HIDE DEF s, t
  <2> QED
    BY <1>1, <1>2, CarriesBoth DEF IPv4Info, s, t
<1>4. Reads(first, ip.address, buff, offset, s)
  BY <1>1, <1>3, StringRead
<1>5. ASSUME first.ok
      PROVE  Reads(second, ip.netmask, buff, offset + Len(s), t)
  <2> HIDE DEF s, t, first
  <2>1. first.offset = offset + Len(s) /\ offset + Len(s) \in 0 .. Len(buff)
    BY <1>1, <1>2, <1>4, <1>5, ReadsOk
  <2> QED
    BY <1>1, <1>3, <2>1, StringRead DEF t
<1> DEFINE read == [address |-> first.val, netmask |-> second.val]
<1>6. ASSUME first.ok, second.ok
      PROVE  read = ip
  <2> HIDE DEF s, t, first, second
  <2>1. offset + Len(s) \in Nat
    BY <1>1, <1>2
  <2>2. first.val = ip.address /\ second.val = ip.netmask
    BY <1>1, <1>2, <1>4, <1>5, <1>6, <2>1, ReadsOk
  <2> QED
    BY <1>1, <2>2
<1>7. GetIPv4Info(buff, offset) = Sequel(first, second, read) /\ IPv4Info(ip) = s \o t
  BY DEF GetIPv4Info, IPv4Info
<1> HIDE DEF s, t, first, second, read
<1>8. Reads(Sequel(first, second, read), ip, buff, offset, s \o t)
  BY <1>1, <1>2, <1>4, <1>5, <1>6, BothRead
<1> QED
  BY <1>7, <1>8

LEMMA IPv6Read ==
    ASSUME NEW ip \in IPv6Infos, NEW buff \in Vectors(Nat), NEW offset \in 0 .. Len(buff),
           Carries(buff, offset, IPv6Info(ip))
    PROVE  Reads(GetIPv6Info(buff, offset), ip, buff, offset, IPv6Info(ip))
<1> DEFINE s == String(ip.address)
           t == <<ip.prefixLength>>
           first == GetString(buff, offset)
           second == GetPrimitive(1, buff, first.offset)
<1>1. /\ ip.address \in Strings /\ ip.prefixLength \in Nat
      /\ ip = [address |-> ip.address, prefixLength |-> ip.prefixLength]
      /\ offset \in Nat /\ Len(buff) \in Nat
  BY DEF IPv6Infos, Vectors
<1>2. s \in Seq(Nat) /\ t \in Seq(Nat) /\ Len(t) = 1
  BY <1>1, StringType
<1>3. Carries(buff, offset, s) /\ Carries(buff, offset + Len(s), t)
  <2> HIDE DEF s, t
  <2> QED
    BY <1>1, <1>2, CarriesBoth DEF IPv6Info, s, t
<1>4. Reads(first, ip.address, buff, offset, s)
  BY <1>1, <1>3, StringRead
<1>5. ASSUME first.ok
      PROVE  Reads(second, ip.prefixLength, buff, offset + Len(s), t)
  <2>0. t[1] = ip.prefixLength
    OBVIOUS
  <2> HIDE DEF s, t, first
  <2>1. first.offset = offset + Len(s) /\ offset + Len(s) \in Nat
    BY <1>1, <1>2, <1>4, <1>5, ReadsOk
  <2>2. (offset + Len(s)) + 1 <= Len(buff) => buff[(offset + Len(s)) + 1] = ip.prefixLength
    BY <1>2, <1>3, <2>0 DEF Carries
  <2> QED
    BY <1>1, <1>2, <2>1, <2>2 DEF GetPrimitive, Reads
<1> DEFINE read == [address |-> first.val, prefixLength |-> second.val]
<1>6. ASSUME first.ok, second.ok
      PROVE  read = ip
  <2> HIDE DEF s, t, first, second
  <2>1. offset + Len(s) \in Nat
    BY <1>1, <1>2
  <2>2. first.val = ip.address /\ second.val = ip.prefixLength
    BY <1>1, <1>2, <1>4, <1>5, <1>6, <2>1, ReadsOk
  <2> QED
    BY <1>1, <2>2
<1>7. GetIPv6Info(buff, offset) = Sequel(first, second, read) /\ IPv6Info(ip) = s \o t
  BY DEF GetIPv6Info, IPv6Info
<1> HIDE DEF s, t, first, second, read
<1>8. Reads(Sequel(first, second, read), ip, buff, offset, s \o t)
  BY <1>1, <1>2, <1>4, <1>5, <1>6, BothRead
<1> QED
  BY <1>7, <1>8

-----------------------------------------------------------------------------
(* Vectors.                                                                *)

(* item_at reads each of the items where its encoding is.                  *)
ReadsItems(item_at, items, buff, encs) ==
    \A i \in 1 .. Len(encs) : \A offset \in 0 .. Len(buff) :
        Carries(buff, offset, encs[i]) => Reads(item_at[offset], items[i], buff, offset, encs[i])

(* All beginnings of what is carried are carried.                          *)
LEMMA CarriesPrefixes ==
    ASSUME NEW encs \in Seq(Seq(Nat)), NEW upto \in [0 .. Len(encs) -> Seq(Nat)],
           \A n \in 1 .. Len(encs) : upto[n] = upto[n - 1] \o encs[n],
           NEW buff, NEW offset \in Nat, Carries(buff, offset, upto[Len(encs)])
    PROVE  \A n \in 0 .. Len(encs) : Carries(buff, offset, upto[n])
<1> DEFINE N == Len(encs)
           carried == {k \in Nat : k \in 0 .. N => Carries(buff, offset, upto[N - k])}
<1>0. N \in Nat /\ \A n \in 1 .. N : encs[n] \in Seq(Nat)
  OBVIOUS
<1>1. 0 \in carried
  <2>1. N - 0 = N
    BY <1>0
  <2> QED
    BY <2>1
<1>2. ASSUME NEW k \in carried \cap Nat
      PROVE  k + 1 \in carried
  <2> SUFFICES ASSUME k + 1 \in 0 .. N PROVE Carries(buff, offset, upto[N - (k + 1)])
    OBVIOUS
  <2>1. /\ k \in 0 .. N /\ N - k \in 1 .. N /\ (N - k) - 1 = N - (k + 1)
        /\ N - (k + 1) \in 0 .. N
    BY <1>0
  <2>2. Carries(buff, offset, upto[N - k])
    BY <2>1
  <2> HIDE DEF N
  <2>3. upto[N - k] = upto[N - (k + 1)] \o encs[N - k]
    BY <2>1 DEF N
  <2>4. upto[N - (k + 1)] \in Seq(Nat) /\ encs[N - k] \in Seq(Nat)
    BY <1>0, <2>1 DEF N
  <2> QED
    BY <2>2, <2>3, <2>4, CarriesBoth
<1>3. Nat \subseteq carried
  <2> HIDE DEF carried
  <2> QED
    BY <1>1, <1>2, Inductive
<1>4. ASSUME NEW n \in 0 .. N
      PROVE  Carries(buff, offset, upto[n])
  <2>1. N - n \in Nat /\ N - n \in 0 .. N /\ N - (N - n) = n
    BY <1>0
  <2>2. N - n \in carried
    <3> HIDE DEF carried
    <3> QED
      BY <1>3, <2>1
  <2> QED
    BY <2>1, <2>2
<1> QED
  BY <1>4

(* One item more.                                                          *)
LEMMA PushRead ==
    ASSUME NEW V, NEW items \in Seq(V), NEW encs \in Seq(Seq(Nat)), Len(items) = Len(encs),
           NEW buff \in Seq(Nat), NEW item_at, ReadsItems(item_at, items, buff, encs),
           NEW start \in Nat, NEW n \in 1 .. Len(encs), NEW before \in Seq(Nat),
           Carries(buff, start, before \o encs[n]),
           NEW vec, Reads(vec, SubSeq(items, 1, n - 1), buff, start, before)
    PROVE  Reads(Push(item_at, vec), SubSeq(items, 1, n), buff, start, before \o encs[n])
<1> DEFINE item == item_at[vec.offset]
           read == Append(vec.val, item.val)
<1>1. /\ encs[n] \in Seq(Nat) /\ items[n] \in V /\ Len(buff) \in Nat /\ Len(before) \in Nat
      /\ n \in 1 .. Len(items) /\ n \in Nat
  OBVIOUS
<1>2. Carries(buff, start + Len(before), encs[n])
  BY <1>1, CarriesBoth
<1>3. ASSUME vec.ok
      PROVE  /\ vec.val = SubSeq(items, 1, n - 1)
             /\ Reads(item, items[n], buff, start + Len(before), encs[n])
  <2>1. /\ vec.val = SubSeq(items, 1, n - 1) /\ vec.offset = start + Len(before)
        /\ start + Len(before) <= Len(buff)
    BY <1>1, <1>3, ReadsOk
  <2>2. start + Len(before) \in 0 .. Len(buff)
    BY <1>1, <2>1
  <2> QED
    BY <1>2, <2>1, <2>2 DEF ReadsItems
<1>4. ASSUME vec.ok, item.ok
      PROVE  read = SubSeq(items, 1, n)
  <2> HIDE DEF item
  <2>1. start + Len(before) \in Nat
    BY <1>1
  <2>2. item.val = items[n]
    BY <1>1, <1>3, <1>4, <2>1, ReadsOk
  <2>3. SubSeq(items, 1, n - 1) \in Seq(V)
    <3>1. n - 1 \in Int /\ \A i \in 1 .. n - 1 : items[i] \in V
      OBVIOUS
    <3> QED
      BY <3>1, SubSeqProperties
  <2>4. SubSeq(items, 1, n) = SubSeq(items, 1, n - 1) \o <<items[n]>>
    <3>1. 1 \in 1 .. Len(items) /\ n \in 1 .. Len(items)
      BY <1>1
    <3> QED
      BY <3>1, SubSeqRecursiveSecond
  <2>5. Append(SubSeq(items, 1, n - 1), items[n]) = SubSeq(items, 1, n - 1) \o <<items[n]>>
    BY <1>1, <2>3, AppendIsConcat
  <2> QED
    BY <1>3, <1>4, <2>2, <2>4, <2>5
<1>5. Push(item_at, vec) = Sequel(vec, item, read)
  BY DEF Push
<1> HIDE DEF item, read
<1>6. Reads(Sequel(vec, item, read), SubSeq(items, 1, n), buff, start, before \o encs[n])
  BY <1>1, <1>3, <1>4, BothRead
<1> QED
  BY <1>5, <1>6

(* The recursion of GetVector.                                             *)
LEMMA ItemsRead ==
    ASSUME NEW V, NEW items \in Seq(V), NEW encs \in Seq(Seq(Nat)), Len(items) = Len(encs),
           NEW buff \in Seq(Nat), NEW item_at, ReadsItems(item_at, items, buff, encs),
           NEW start \in 0 .. Len(buff), Carries(buff, start, FlattenSeq(encs))
    PROVE  LET vec[n \in 0 .. Len(items)] ==
                   IF n = 0 THEN Done(<<>>, start) ELSE Push(item_at, vec[n - 1])
           IN  Reads(vec[Len(items)], items, buff, start, FlattenSeq(encs))
<1> DEFINE N == Len(items)
           Solves(f) == f = [n \in 0 .. N |-> IF n = 0 THEN Done(<<>>, start)
                                                       ELSE Push(item_at, f[n - 1])]
           vec == CHOOSE f : Solves(f)
<1>0. N \in Nat /\ Len(buff) \in Nat /\ start \in Nat
  OBVIOUS
<1>1. PICK upto \in [0 .. Len(encs) -> Seq(Nat)] :
         /\ upto[0] = <<>>
         /\ \A n \in 1 .. Len(encs) : upto[n] = upto[n - 1] \o encs[n]
         /\ upto[Len(encs)] = FlattenSeq(encs)
  BY Flatten
<1>2. \A n \in 0 .. N : Carries(buff, start, upto[n])
  <2>1. Carries(buff, start, upto[Len(encs)])
    BY <1>1
  <2> QED
    BY <1>0, <1>1, <2>1, CarriesPrefixes
(* What reading gives after n items; the recursion has this solution.      *)
<1> DEFINE Given(n) == IF start + Len(upto[n]) <= Len(buff)
                       THEN Done(SubSeq(items, 1, n), start + Len(upto[n])) ELSE Failed
           given == [n \in 0 .. N |-> Given(n)]
<1>3. ASSUME NEW n \in 0 .. N
      PROVE  /\ Reads(given[n], SubSeq(items, 1, n), buff, start, upto[n])
             /\ \A r : Reads(r, SubSeq(items, 1, n), buff, start, upto[n]) => r = given[n]
  BY DEF Reads
<1> HIDE DEF given
<1>4. given[0] = Done(<<>>, start)
  <2>1. 0 \in 0 .. N /\ SubSeq(items, 1, 0) = <<>>
    BY <1>0, SubSeqEmpty
  <2>2. Reads(Done(<<>>, start), <<>>, buff, start, <<>>)
    <3>1. Len(<<>>) = 0 /\ start + 0 = start /\ start <= Len(buff)
      BY <1>0
    <3> QED
      BY <3>1 DEF Reads
  <2> QED
    BY <1>1, <1>3, <2>1, <2>2
<1>5. ASSUME NEW n \in 1 .. N
      PROVE  given[n] = Push(item_at, given[n - 1])
  <2>1. n \in 0 .. N /\ n - 1 \in 0 .. N /\ n \in 1 .. Len(encs) /\ n - 1 \in 0 .. Len(encs)
    BY <1>0
  <2>2. upto[n] = upto[n - 1] \o encs[n] /\ upto[n - 1] \in Seq(Nat)
    BY <1>1, <2>1
  <2>3. Reads(given[n - 1], SubSeq(items, 1, n - 1), buff, start, upto[n - 1])
    BY <1>3, <2>1
  <2>4. Carries(buff, start, upto[n - 1] \o encs[n])
    BY <1>2, <2>1, <2>2
  <2> HIDE DEF N
  <2>5. Reads(Push(item_at, given[n - 1]), SubSeq(items, 1, n), buff, start, upto[n - 1] \o encs[n])
    BY <1>0, <2>1, <2>2, <2>3, <2>4, PushRead
  <2> QED
    BY <1>3, <2>1, <2>2, <2>5
<1> HIDE DEF N
<1>6. Solves(given)
  <2>1. ASSUME NEW n \in 0 .. N
        PROVE  given[n] = IF n = 0 THEN Done(<<>>, start) ELSE Push(item_at, given[n - 1])
    <3>1. n # 0 => n \in 1 .. N
      BY <1>0
    <3> QED
      BY <1>4, <1>5, <3>1
  <2> QED
    BY <2>1 DEF given
<1>7. Solves(vec)
  <2> HIDE DEF Solves
  <2> QED
    BY <1>6
<1> HIDE DEF vec
<1>8. \A n \in 0 .. N : vec[n] = IF n = 0 THEN Done(<<>>, start) ELSE Push(item_at, vec[n - 1])
  BY <1>7
<1> DEFINE same == {n \in Nat : n \in 0 .. N => vec[n] = given[n]}
<1>9. 0 \in same
  BY <1>0, <1>4, <1>8
<1>10. ASSUME NEW n \in same \cap Nat
       PROVE  n + 1 \in same
  <2> SUFFICES ASSUME n + 1 \in 0 .. N PROVE vec[n + 1] = given[n + 1]
    OBVIOUS
  <2>1. n \in 0 .. N /\ n + 1 \in 1 .. N /\ (n + 1) - 1 = n /\ n + 1 # 0
    BY <1>0
  <2>2. vec[n] = given[n]
    BY <2>1
  <2>3. vec[n + 1] = Push(item_at, vec[n])
    BY <1>8, <2>1
  <2>4. given[n + 1] = Push(item_at, given[n])
    BY <1>5, <2>1
  <2> QED
    BY <2>2, <2>3, <2>4
<1>11. vec[N] = given[N]
  <2>1. Nat \subseteq same
    <3> HIDE DEF same
    <3> QED
      BY <1>9, <1>10, Inductive
  <2> QED
    BY <1>0, <2>1
<1>12. Reads(vec[N], items, buff, start, FlattenSeq(encs))
  <2>1. SubSeq(items, 1, N) = items /\ N \in 0 .. N
    BY <1>0, SubSeqFull DEF N
  <2>2. Reads(given[N], SubSeq(items, 1, N), buff, start, upto[N])
    BY <1>3, <2>1
  <2>3. upto[N] = FlattenSeq(encs)
    BY <1>1 DEF N
  <2> QED
    BY <1>11, <2>1, <2>2, <2>3
<1> QED
  BY <1>12 DEF vec, N

LEMMA VectorType ==
    ASSUME NEW encs \in Seq(Seq(Nat))
    PROVE  /\ FlattenSeq(encs) \in Seq(Nat) /\ Vector(encs) \in Seq(Nat)
           /\ Len(Vector(encs)) = WordSize + Len(FlattenSeq(encs))
<1>1. Len(encs) \in Nat /\ Len(encs) \in 0 .. Len(encs)
  OBVIOUS
<1>2. FlattenSeq(encs) \in Seq(Nat)
  BY <1>1, Flatten
<1>3. Word(Len(encs)) \in Seq(Nat) /\ Len(Word(Len(encs))) = WordSize
  BY <1>1, WordType
<1> QED
  BY <1>2, <1>3, ConcatProperties DEF Vector

LEMMA VectorRead ==
    ASSUME NEW V, NEW items \in Seq(V), NEW encs \in Seq(Seq(Nat)), Len(items) = Len(encs),
           NEW buff \in Seq(Nat), NEW item_at, ReadsItems(item_at, items, buff, encs),
           NEW offset \in 0 .. Len(buff), Carries(buff, offset, Vector(encs)),
           Len(items) <= MaxSize
    PROVE  Reads(GetVector(item_at, buff, offset), items, buff, offset, Vector(encs))
<1> DEFINE N == Len(items)
           start == offset + WordSize
           body == FlattenSeq(encs)
           vec[n \in 0 .. N] == IF n = 0 THEN Done(<<>>, start) ELSE Push(item_at, vec[n - 1])
<1>1. /\ N \in Nat /\ WordSize \in Nat \ {0} /\ offset \in Nat /\ Len(buff) \in Nat
      /\ start \in Nat
  BY SerializationAssumption
<1>2. /\ Word(N) \in Seq(Nat) /\ Len(Word(N)) = WordSize /\ body \in Seq(Nat)
      /\ Len(Vector(encs)) = WordSize + Len(body) /\ Len(body) \in Nat
  BY <1>1, WordType, VectorType, LenProperties
<1>3. Carries(buff, offset, Word(N)) /\ Carries(buff, start, body)
  <2> HIDE DEF N, body
  <2>1. Carries(buff, offset, Word(N) \o body)
    BY DEF Vector, N, body
  <2> QED
    BY <1>1, <1>2, <2>1, CarriesBoth
<1>4. Reads(GetPrimitive(WordSize, buff, offset), N, buff, offset, Word(N))
  BY <1>1, <1>3, WordRead
<1>5. CASE start <= Len(buff)
  <2>1. GetPrimitive(WordSize, buff, offset) = Done(N, start)
    BY <1>2, <1>4, <1>5 DEF Reads
  <2>2. GetVector(item_at, buff, offset) = vec[N]
    <3>1. ~(N > MaxSize)
      BY <1>1, SerializationAssumption
    <3> HIDE DEF N, start
    <3> QED
      BY <2>1, <3>1 DEF GetVector, Done
  <2>3. Reads(vec[N], items, buff, start, body)
    <3>1. start \in 0 .. Len(buff)
      BY <1>1, <1>5
    <3> QED
      BY <1>3, <3>1, ItemsRead, ZenonT(40)
  <2>4. start + Len(body) = offset + Len(Vector(encs))
    BY <1>1, <1>2
  <2> HIDE DEF vec, N, start, body
  <2> QED
    BY <2>2, <2>3, <2>4 DEF Reads
<1>6. CASE ~(start <= Len(buff))
  <2>1. GetPrimitive(WordSize, buff, offset) = Failed
    BY <1>2, <1>4, <1>6 DEF Reads
  <2>2. GetVector(item_at, buff, offset) = Failed
    BY <2>1 DEF GetVector, Failed
  <2>3. ~(offset + Len(Vector(encs)) <= Len(buff))
    BY <1>1, <1>2, <1>6
  <2> QED
    BY <2>2, <2>3 DEF Reads
<1> QED
  BY <1>5, <1>6

-----------------------------------------------------------------------------
(* Interfaces and lists of them.                                           *)

LEMMA InfoTypes ==
    /\ \A ip \in IPv4Infos : IPv4Info(ip) \in Seq(Nat)
    /\ \A ip \in IPv6Infos : IPv6Info(ip) \in Seq(Nat)
<1>1. ASSUME NEW ip \in IPv4Infos
      PROVE  IPv4Info(ip) \in Seq(Nat)
  <2>1. String(ip.address) \in Seq(Nat) /\ String(ip.netmask) \in Seq(Nat)
    BY StringType DEF IPv4Infos
  <2> QED
    BY <2>1, ConcatProperties DEF IPv4Info
<1>2. ASSUME NEW ip \in IPv6Infos
      PROVE  IPv6Info(ip) \in Seq(Nat)
  <2>1. String(ip.address) \in Seq(Nat) /\ <<ip.prefixLength>> \in Seq(Nat)
    BY StringType DEF IPv6Infos
  <2> QED
    BY <2>1, ConcatProperties DEF IPv6Info
<1> QED
  BY <1>1, <1>2

Encodings4(nif) == [i \in DOMAIN nif.ipv4s |-> IPv4Info(nif.ipv4s[i])]
Encodings6(nif) == [i \in DOMAIN nif.ipv6s |-> IPv6Info(nif.ipv6s[i])]

LEMMA EncodingsType ==
    ASSUME NEW nif \in NetInterfaces
    PROVE  /\ Encodings4(nif) \in Seq(Seq(Nat)) /\ Len(Encodings4(nif)) = Len(nif.ipv4s)
           /\ Encodings6(nif) \in Seq(Seq(Nat)) /\ Len(Encodings6(nif)) = Len(nif.ipv6s)
<1>1. nif.ipv4s \in Seq(IPv4Infos) /\ nif.ipv6s \in Seq(IPv6Infos)
  BY DEF NetInterfaces, Vectors
<1>2. Encodings4(nif) \in Seq(Seq(Nat)) /\ Len(Encodings4(nif)) = Len(nif.ipv4s)
  <2> DEFINE n == Len(nif.ipv4s)
  <2>1. DOMAIN nif.ipv4s = 1 .. n /\ n \in Nat
    BY <1>1
  <2>2. \A i \in 1 .. n : IPv4Info(nif.ipv4s[i]) \in Seq(Nat)
    BY <1>1, InfoTypes
  <2>3. Encodings4(nif) = [i \in 1 .. n |-> IPv4Info(nif.ipv4s[i])]
    BY <2>1 DEF Encodings4
  <2> HIDE DEF n
  <2>4. Encodings4(nif) \in Seq(Seq(Nat)) /\ Len(Encodings4(nif)) = n
    BY <2>1, <2>2, <2>3
  <2> QED
    BY <2>4 DEF n
<1>3. Encodings6(nif) \in Seq(Seq(Nat)) /\ Len(Encodings6(nif)) = Len(nif.ipv6s)
  <2> DEFINE n == Len(nif.ipv6s)
  <2>1. DOMAIN nif.ipv6s = 1 .. n /\ n \in Nat
    BY <1>1
  <2>2. \A i \in 1 .. n : IPv6Info(nif.ipv6s[i]) \in Seq(Nat)
    BY <1>1, InfoTypes
  <2>3. Encodings6(nif) = [i \in 1 .. n |-> IPv6Info(nif.ipv6s[i])]
    BY <2>1 DEF Encodings6
  <2> HIDE DEF n
  <2>4. Encodings6(nif) \in Seq(Seq(Nat)) /\ Len(Encodings6(nif)) = n
    BY <2>1, <2>2, <2>3
  <2> QED
    BY <2>4 DEF n
<1> QED
  BY <1>2, <1>3

(* The two vectors of an interface.                                        *)
LEMMA AddressesRead ==
    ASSUME NEW nif \in NetInterfaces, NEW buff \in Vectors(Nat), NEW offset \in 0 .. Len(buff)
    PROVE  /\ Carries(buff, offset, Vector(Encodings4(nif))) =>
              Reads(GetVector([o \in 0 .. Len(buff) |-> GetIPv4Info(buff, o)], buff, offset),
                    nif.ipv4s, buff, offset, Vector(Encodings4(nif)))
           /\ Carries(buff, offset, Vector(Encodings6(nif))) =>
              Reads(GetVector([o \in 0 .. Len(buff) |-> GetIPv6Info(buff, o)], buff, offset),
                    nif.ipv6s, buff, offset, Vector(Encodings6(nif)))
<1> DEFINE at4 == [o \in 0 .. Len(buff) |-> GetIPv4Info(buff, o)]
           at6 == [o \in 0 .. Len(buff) |-> GetIPv6Info(buff, o)]
<1>1. nif.ipv4s \in Seq(IPv4Infos) /\ nif.ipv6s \in Seq(IPv6Infos)
  BY DEF NetInterfaces, Vectors
<1>2. /\ Encodings4(nif) \in Seq(Seq(Nat)) /\ Len(Encodings4(nif)) = Len(nif.ipv4s)
      /\ Encodings6(nif) \in Seq(Seq(Nat)) /\ Len(Encodings6(nif)) = Len(nif.ipv6s)
  BY EncodingsType
<1>0. /\ buff \in Seq(Nat)
      /\ Len(nif.ipv4s) <= MaxSize /\ Len(nif.ipv6s) <= MaxSize
  BY DEF NetInterfaces, Vectors
<1>3. ReadsItems(at4, nif.ipv4s, buff, Encodings4(nif))
  <2>1. ASSUME NEW i \in 1 .. Len(Encodings4(nif)), NEW o \in 0 .. Len(buff),
               Carries(buff, o, Encodings4(nif)[i])
        PROVE  Reads(at4[o], nif.ipv4s[i], buff, o, Encodings4(nif)[i])
    <3>1. nif.ipv4s[i] \in IPv4Infos /\ Encodings4(nif)[i] = IPv4Info(nif.ipv4s[i])
      BY <1>1, <1>2 DEF Encodings4
    <3>2. at4[o] = GetIPv4Info(buff, o)
      OBVIOUS
    <3> HIDE DEF at4
    <3> QED
      BY <2>1, <3>1, <3>2, IPv4Read
  <2> HIDE DEF at4
  <2> QED
    BY <2>1 DEF ReadsItems
<1>4. ReadsItems(at6, nif.ipv6s, buff, Encodings6(nif))
  <2>1. ASSUME NEW i \in 1 .. Len(Encodings6(nif)), NEW o \in 0 .. Len(buff),
               Carries(buff, o, Encodings6(nif)[i])
        PROVE  Reads(at6[o], nif.ipv6s[i], buff, o, Encodings6(nif)[i])
    <3>1. nif.ipv6s[i] \in IPv6Infos /\ Encodings6(nif)[i] = IPv6Info(nif.ipv6s[i])
      BY <1>1, <1>2 DEF Encodings6
    <3>2. at6[o] = GetIPv6Info(buff, o)
      OBVIOUS
    <3> HIDE DEF at6
    <3> QED
      BY <2>1, <3>1, <3>2, IPv6Read
  <2> HIDE DEF at6
  <2> QED
    BY <2>1 DEF ReadsItems
<1> HIDE DEF at4, at6
<1>5. Carries(buff, offset, Vector(Encodings4(nif))) =>
         Reads(GetVector(at4, buff, offset), nif.ipv4s, buff, offset, Vector(Encodings4(nif)))
  BY <1>0, <1>1, <1>2, <1>3, VectorRead
<1>6. Carries(buff, offset, Vector(Encodings6(nif))) =>
         Reads(GetVector(at6, buff, offset), nif.ipv6s, buff, offset, Vector(Encodings6(nif)))
  BY <1>0, <1>1, <1>2, <1>4, VectorRead
<1> QED
  BY <1>5, <1>6 DEF at4, at6

(* The four parts of an interface, one behind the other.                   *)
LEMMA NetInterfaceParts ==
    ASSUME NEW nif \in NetInterfaces, NEW buff, NEW offset \in Nat
    PROVE  LET s1 == String(nif.name)
               s2 == String(nif.mac)
               s3 == Vector(Encodings4(nif))
               s4 == Vector(Encodings6(nif))
           IN  /\ s1 \in Seq(Nat) /\ s2 \in Seq(Nat) /\ s3 \in Seq(Nat) /\ s4 \in Seq(Nat)
               /\ NetInterface(nif) \in Seq(Nat)
               /\ Len(NetInterface(nif)) = Len(s1) + Len(s2) + Len(s3) + Len(s4)
               /\ Carries(buff, offset, NetInterface(nif)) =>
                     /\ Carries(buff, offset, s1)
                     /\ Carries(buff, offset + Len(s1), s2)
                     /\ Carries(buff, offset + Len(s1) + Len(s2), s3)
                     /\ Carries(buff, offset + Len(s1) + Len(s2) + Len(s3), s4)
<1> DEFINE s1 == String(nif.name)
           s2 == String(nif.mac)
           s3 == Vector(Encodings4(nif))
           s4 == Vector(Encodings6(nif))
<1>1. nif.ipv4s \in Seq(IPv4Infos) /\ nif.ipv6s \in Seq(IPv6Infos)
  BY DEF NetInterfaces, Vectors
<1>2. /\ Encodings4(nif) \in Seq(Seq(Nat)) /\ Encodings6(nif) \in Seq(Seq(Nat))
  BY EncodingsType
<1>3. s3 \in Seq(Nat) /\ s4 \in Seq(Nat)
  BY <1>2, VectorType
<1>4. s1 \in Seq(Nat) /\ s2 \in Seq(Nat)
  BY StringType DEF NetInterfaces
<1>5. NetInterface(nif) = ((s1 \o s2) \o s3) \o s4
  BY DEF NetInterface, Encodings4, Encodings6
<1> HIDE DEF s1, s2, s3, s4
<1>6. s1 \o s2 \in Seq(Nat) /\ Len(s1 \o s2) = Len(s1) + Len(s2)
  BY <1>4, ConcatProperties
<1>7. /\ (s1 \o s2) \o s3 \in Seq(Nat)
      /\ Len((s1 \o s2) \o s3) = Len(s1 \o s2) + Len(s3)
  BY <1>3, <1>6, ConcatProperties
<1>8. /\ NetInterface(nif) \in Seq(Nat)
      /\ Len(NetInterface(nif)) = Len((s1 \o s2) \o s3) + Len(s4)
  BY <1>3, <1>5, <1>7, ConcatProperties
<1>9. ASSUME Carries(buff, offset, NetInterface(nif))
      PROVE  /\ Carries(buff, offset, s1)
             /\ Carries(buff, offset + Len(s1), s2)
             /\ Carries(buff, offset + Len(s1) + Len(s2), s3)
             /\ Carries(buff, offset + Len(s1) + Len(s2) + Len(s3), s4)
  <2>0. Carries(buff, offset, ((s1 \o s2) \o s3) \o s4)
    BY <1>5, <1>9
  <2>1. /\ Carries(buff, offset, (s1 \o s2) \o s3)
        /\ Carries(buff, offset + Len((s1 \o s2) \o s3), s4)
    BY <1>3, <1>7, <2>0, CarriesBoth
  <2>2. Carries(buff, offset, s1 \o s2) /\ Carries(buff, offset + Len(s1 \o s2), s3)
    BY <1>3, <1>6, <2>1, CarriesBoth
  <2>3. Carries(buff, offset, s1) /\ Carries(buff, offset + Len(s1), s2)
    BY <1>4, <2>2, CarriesBoth
  <2>4. /\ offset + Len(s1 \o s2) = offset + Len(s1) + Len(s2)
        /\ offset + Len((s1 \o s2) \o s3) = offset + Len(s1) + Len(s2) + Len(s3)
    BY <1>3, <1>4, <1>6, <1>7
  <2> QED
    BY <2>1, <2>2, <2>3, <2>4
<1>10. Len(NetInterface(nif)) = Len(s1) + Len(s2) + Len(s3) + Len(s4)
  BY <1>6, <1>7, <1>8
<1> QED
  BY <1>3, <1>4, <1>8, <1>9, <1>10 DEF s1, s2, s3, s4

LEMMA NetInterfaceRead ==
    ASSUME NEW nif \in NetInterfaces, NEW buff \in Vectors(Nat), NEW offset \in 0 .. Len(buff),
           Carries(buff, offset, NetInterface(nif))
    PROVE  Reads(GetNetInterface(buff, offset), nif, buff, offset, NetInterface(nif))
<1> DEFINE s1 == String(nif.name)
           s2 == String(nif.mac)
           s3 == Vector(Encodings4(nif))
           s4 == Vector(Encodings6(nif))
           o1 == offset + Len(s1)
           o2 == o1 + Len(s2)
           o3 == o2 + Len(s3)
           at4 == [o \in 0 .. Len(buff) |-> GetIPv4Info(buff, o)]
           at6 == [o \in 0 .. Len(buff) |-> GetIPv6Info(buff, o)]
           name == GetString(buff, offset)
           mac == GetString(buff, name.offset)
           ipv4s == GetVector(at4, buff, mac.offset)
           ipv6s == GetVector(at6, buff, ipv4s.offset)
           read == [name |-> name.val, mac |-> mac.val, ipv4s |-> ipv4s.val, ipv6s |-> ipv6s.val]
<1>1. /\ nif.name \in Strings /\ nif.mac \in Strings
      /\ nif = [name |-> nif.name, mac |-> nif.mac, ipv4s |-> nif.ipv4s, ipv6s |-> nif.ipv6s]
      /\ offset \in Nat /\ Len(buff) \in Nat
  BY DEF NetInterfaces, Vectors
<1>2. /\ s1 \in Seq(Nat) /\ s2 \in Seq(Nat) /\ s3 \in Seq(Nat) /\ s4 \in Seq(Nat)
      /\ Len(NetInterface(nif)) = Len(s1) + Len(s2) + Len(s3) + Len(s4)
      /\ Carries(buff, offset, s1) /\ Carries(buff, o1, s2)
      /\ Carries(buff, o2, s3) /\ Carries(buff, o3, s4)
  BY <1>1, NetInterfaceParts
<1>3. GetNetInterface(buff, offset) =
         IF ~name.ok THEN name ELSE IF ~mac.ok THEN mac ELSE Sequel(ipv4s, ipv6s, read)
  BY DEF GetNetInterface
<1> HIDE DEF s1, s2, s3, s4
<1>4. /\ Len(s1) \in Nat /\ Len(s2) \in Nat /\ Len(s3) \in Nat /\ Len(s4) \in Nat
      /\ o1 \in Nat /\ o2 \in Nat /\ o3 \in Nat
      /\ offset + Len(NetInterface(nif)) = o3 + Len(s4)
      /\ o1 + Len(s2) = o2 /\ o2 + Len(s3) = o3
  BY <1>1, <1>2
<1> HIDE DEF o1, o2, o3
<1>5. Reads(name, nif.name, buff, offset, s1)
  BY <1>1, <1>2, StringRead DEF s1
<1>6. ASSUME name.ok
      PROVE  name.val = nif.name /\ Reads(mac, nif.mac, buff, o1, s2)
  <2>1. name.val = nif.name /\ name.offset = o1 /\ o1 <= Len(buff)
    BY <1>1, <1>2, <1>5, <1>6, ReadsOk, SMTT(30) DEF o1
  <2>2. o1 \in 0 .. Len(buff)
    BY <1>1, <1>4, <2>1
  <2> HIDE DEF name
  <2> QED
    BY <1>1, <1>2, <2>1, <2>2, StringRead DEF s2
<1>7. ASSUME name.ok, mac.ok
      PROVE  mac.val = nif.mac /\ Reads(ipv4s, nif.ipv4s, buff, o2, s3)
  <2> HIDE DEF mac
  <2>1. mac.val = nif.mac /\ mac.offset = o2 /\ o2 <= Len(buff)
    BY <1>1, <1>2, <1>4, <1>6, <1>7, ReadsOk, SMTT(30)
  <2>2. o2 \in 0 .. Len(buff)
    BY <1>1, <1>4, <2>1
  <2> QED
    BY <1>2, <2>1, <2>2, AddressesRead DEF s3
<1> HIDE DEF name, mac
<1>8. ASSUME name.ok, mac.ok, ipv4s.ok
      PROVE  ipv4s.val = nif.ipv4s /\ Reads(ipv6s, nif.ipv6s, buff, o3, s4)
  <2> HIDE DEF ipv4s
  <2>1. ipv4s.val = nif.ipv4s /\ ipv4s.offset = o3 /\ o3 <= Len(buff)
    BY <1>1, <1>2, <1>4, <1>7, <1>8, ReadsOk, SMTT(30)
  <2>2. o3 \in 0 .. Len(buff)
    BY <1>1, <1>4, <2>1
  <2> QED
    BY <1>2, <2>1, <2>2, AddressesRead DEF s4
<1> HIDE DEF ipv4s, ipv6s
<1>9. CASE ~name.ok
  <2>1. ~(offset + Len(s1) <= Len(buff)) /\ name = Failed
    BY <1>1, <1>2, <1>5, <1>9, ReadsOk, SMTT(30)
  <2>2. ~(offset + Len(NetInterface(nif)) <= Len(buff))
    BY <1>1, <1>2, <1>4, <2>1, SMTT(30)
  <2> QED
    BY <1>3, <1>9, <2>1, <2>2 DEF Reads
<1>10. CASE name.ok /\ ~mac.ok
  <2>1. ~(o2 <= Len(buff)) /\ mac = Failed
    BY <1>1, <1>2, <1>4, <1>6, <1>10, ReadsOk, SMTT(30)
  <2>2. ~(offset + Len(NetInterface(nif)) <= Len(buff))
    BY <1>1, <1>4, <2>1
  <2> QED
    BY <1>3, <1>10, <2>1, <2>2 DEF Reads
<1>11. CASE name.ok /\ mac.ok /\ ~ipv4s.ok
  <2>1. ~(o3 <= Len(buff)) /\ ipv4s = Failed
    BY <1>1, <1>2, <1>4, <1>7, <1>11, ReadsOk, SMTT(30)
  <2>2. ~(offset + Len(NetInterface(nif)) <= Len(buff))
    BY <1>1, <1>4, <2>1
  <2> QED
    BY <1>3, <1>11, <2>1, <2>2 DEF Reads, Sequel
<1>12. CASE name.ok /\ mac.ok /\ ipv4s.ok /\ ~ipv6s.ok
  <2>1. ~(o3 + Len(s4) <= Len(buff)) /\ ipv6s = Failed
    BY <1>1, <1>2, <1>4, <1>8, <1>12, ReadsOk, SMTT(30)
  <2> QED
    BY <1>3, <1>4, <1>12, <2>1 DEF Reads, Sequel
<1>13. CASE name.ok /\ mac.ok /\ ipv4s.ok /\ ipv6s.ok
  <2>1. /\ o3 + Len(s4) <= Len(buff) /\ ipv6s.offset = o3 + Len(s4)
        /\ ipv6s.val = nif.ipv6s
    BY <1>1, <1>2, <1>4, <1>8, <1>13, ReadsOk
  <2>2. read = nif
    BY <1>1, <1>6, <1>7, <1>8, <1>13, <2>1
  <2> HIDE DEF read
  <2> QED
    BY <1>3, <1>4, <1>13, <2>1, <2>2 DEF Reads, Sequel
<1> QED
  BY <1>9, <1>10, <1>11, <1>12, <1>13

(* Reading a list gives the list, or fails if the buffer ends before it.   *)
LEMMA ListRead ==
    ASSUME NEW nifs \in Vectors(NetInterfaces), NEW buff \in Vectors(Nat),
           Carries(buff, 0, serialize(nifs))
    PROVE  /\ serialize(nifs) \in Seq(Nat)
           /\ Reads(deserialize(buff), nifs, buff, 0, serialize(nifs))
<1> DEFINE encs == [i \in DOMAIN nifs |-> NetInterface(nifs[i])]
           n == Len(nifs)
           at == [o \in 0 .. Len(buff) |-> GetNetInterface(buff, o)]
<1>0. nifs \in Seq(NetInterfaces) /\ n <= MaxSize /\ buff \in Seq(Nat)
  BY DEF Vectors
<1>1. n \in Nat /\ DOMAIN nifs = 1 .. n /\ \A i \in 1 .. n : nifs[i] \in NetInterfaces
  BY <1>0
<1>2. encs \in Seq(Seq(Nat)) /\ Len(encs) = n
  <2>1. \A i \in 1 .. n : NetInterface(nifs[i]) \in Seq(Nat)
    BY <1>1, NetInterfaceParts
  <2>2. encs = [i \in 1 .. n |-> NetInterface(nifs[i])]
    BY <1>1
  <2> HIDE DEF encs, n
  <2> QED
    BY <1>1, <2>1, <2>2
<1>3. ReadsItems(at, nifs, buff, encs)
  <2>1. ASSUME NEW i \in 1 .. Len(encs), NEW o \in 0 .. Len(buff),
               Carries(buff, o, encs[i])
        PROVE  Reads(at[o], nifs[i], buff, o, encs[i])
    <3>1. nifs[i] \in NetInterfaces /\ encs[i] = NetInterface(nifs[i])
      BY <1>1, <1>2
    <3>2. at[o] = GetNetInterface(buff, o)
      OBVIOUS
    <3> HIDE DEF at, encs
    <3> QED
      BY <2>1, <3>1, <3>2, NetInterfaceRead
  <2> HIDE DEF at, encs
  <2> QED
    BY <2>1 DEF ReadsItems
<1>4. serialize(nifs) = Vector(encs) /\ deserialize(buff) = GetVector(at, buff, 0)
  BY DEF serialize, deserialize
<1> HIDE DEF at, encs
<1>5. 0 \in 0 .. Len(buff)
  BY <1>0
<1>6. Reads(GetVector(at, buff, 0), nifs, buff, 0, Vector(encs))
  BY <1>0, <1>2, <1>3, <1>4, <1>5, VectorRead
<1> QED
  BY <1>2, <1>4, <1>6, VectorType

LEMMA SerializeType ==
    ASSUME NEW nifs \in Vectors(NetInterfaces)
    PROVE  serialize(nifs) \in Seq(Nat)
<1>1. <<>> \in Seq(Nat) /\ Len(<<>>) = 0
  BY EmptySeq
<1>2. nifs \in Seq(NetInterfaces) /\ DOMAIN nifs = 1 .. Len(nifs) /\ Len(nifs) \in Nat
  BY DEF Vectors
<1> DEFINE n == Len(nifs)
           encs == [i \in DOMAIN nifs |-> NetInterface(nifs[i])]
<1>3. \A i \in 1 .. n : NetInterface(nifs[i]) \in Seq(Nat)
  <2>1. \A i \in 1 .. n : nifs[i] \in NetInterfaces
    BY <1>2
  <2> QED
    BY <2>1, NetInterfaceParts
<1>4. encs = [i \in 1 .. n |-> NetInterface(nifs[i])]
  BY <1>2
<1>5. encs \in Seq(Seq(Nat))
  <2> HIDE DEF encs, n
  <2> QED
    BY <1>2, <1>3, <1>4 DEF n
<1> HIDE DEF encs
<1> QED
  BY <1>5, VectorType DEF serialize, encs

-----------------------------------------------------------------------------
(* The codec on every answer.                                              *)

LEMMA CutsOf ==
    ASSUME NEW a \in Answers, NEW buff \in Cuts(a)
    PROVE  /\ buff \in Vectors(Nat) /\ Carries(buff, 0, serialize(a))
           /\ Len(buff) <= Len(serialize(a))
           /\ Len(buff) = Len(serialize(a)) => buff = serialize(a)
<1> DEFINE enc == serialize(a)
<1>1. enc \in Seq(Nat) /\ Len(enc) \in Nat /\ Len(enc) <= MaxSize /\ MaxSize \in Nat
  BY SerializeType, TransferAssumption, SerializationAssumption, LenProperties
<1> HIDE DEF enc
<1>2. PICK n \in 0 .. Len(enc) : buff = First(n, enc)
  BY DEF Cuts, enc
<1>3. buff = SubSeq(enc, 1, n)
  BY <1>1, <1>2 DEF First
<1>4. \A i \in 1 .. n : enc[i] \in Nat
  BY <1>1
<1>5. /\ buff \in Seq(Nat) /\ Len(buff) = n /\ \A i \in 1 .. n : buff[i] = enc[i]
  <2>1. /\ SubSeq(enc, 1, n) \in Seq(Nat)
        /\ Len(SubSeq(enc, 1, n)) = IF 1 <= n THEN n - 1 + 1 ELSE 0
        /\ \A i \in 1 .. n - 1 + 1 : SubSeq(enc, 1, n)[i] = enc[1 + i - 1]
    BY <1>4, SubSeqProperties
  <2> QED
    BY <1>3, <2>1
<1>6. Carries(buff, 0, enc)
  BY <1>1, <1>5 DEF Carries
<1>7. Len(buff) = Len(enc) => buff = enc
  BY <1>1, <1>3, <1>5, SubSeqFull
<1>8. buff \in Vectors(Nat)
  BY <1>1, <1>5 DEF Vectors
<1> QED
  BY <1>1, <1>5, <1>6, <1>7, <1>8 DEF enc

LEMMA RoundTripHolds == RoundTrip
<1> SUFFICES ASSUME NEW a \in Answers PROVE RoundTrips(a)
  BY DEF RoundTrip
<1> DEFINE enc == serialize(a)
<1>1. a \in Vectors(NetInterfaces) /\ enc \in Seq(Nat) /\ Len(enc) \in Nat
  BY SerializeType, TransferAssumption, LenProperties
<1>2. ASSUME NEW buff \in Cuts(a)
      PROVE  /\ Decoded[buff].ok <=> buff = enc
             /\ Decoded[buff].ok => Decoded[buff].val = a
  <2>1. Decoded[buff] = deserialize(buff)
    BY DEF Decoded
  <2>2. /\ buff \in Vectors(Nat) /\ Carries(buff, 0, enc) /\ Len(buff) \in Nat
        /\ Len(buff) <= Len(enc) /\ (Len(buff) = Len(enc) => buff = enc)
    BY CutsOf, LenProperties DEF Vectors
  <2>3. Reads(deserialize(buff), a, buff, 0, enc)
    BY <1>1, <2>2, ListRead
  <2> HIDE DEF enc
  <2>4. /\ deserialize(buff).ok <=> Len(enc) <= Len(buff)
        /\ deserialize(buff).ok => deserialize(buff).val = a
    <3>1. 0 + Len(enc) = Len(enc) /\ 0 \in Nat
      BY <1>1
    <3> QED
      BY <1>1, <2>2, <2>3, <3>1, ReadsOk
  <2> QED
    BY <1>1, <2>1, <2>2, <2>4
<1>3. enc \in Cuts(a)
  <2>1. Len(enc) \in 0 .. Len(enc) /\ First(Len(enc), enc) = enc
    BY <1>1, SubSeqFull DEF First
  <2> QED
    BY <2>1 DEF Cuts
<1> QED
  BY <1>1, <1>2, <1>3 DEF RoundTrips

LEMMA DatagramHolds ==
    ASSUME NEW a \in Answers
    PROVE  /\ DecodedDatagram[a].ok <=> Len(serialize(a)) <= MaxMessage
           /\ DecodedDatagram[a].ok => DecodedDatagram[a].val = a
           /\ ~DecodedDatagram[a].thrown
<1> DEFINE enc == serialize(a)
           buff == Datagram(enc)
<1>1. /\ a \in Vectors(NetInterfaces) /\ enc \in Seq(Nat) /\ Len(enc) \in Nat
      /\ MaxMessage \in Nat /\ MaxMessage <= MaxSize
  BY SerializeType, TransferAssumption, LenProperties
<1>2. DecodedDatagram[a] = deserialize(buff)
  BY DEF DecodedDatagram
<1> HIDE DEF enc
<1>3. buff \in Vectors(Nat) /\ Len(buff) = MaxMessage
  <2>1. buff \in Seq(Nat) /\ Len(buff) = MaxMessage
    BY <1>1 DEF Datagram
  <2> QED
    BY <1>1, <2>1 DEF Vectors
<1>4. Carries(buff, 0, enc)
  BY <1>1, <1>3 DEF Datagram, Carries
<1> HIDE DEF buff
<1>5. Reads(deserialize(buff), a, buff, 0, enc)
  BY <1>1, <1>3, <1>4, ListRead DEF enc
<1>6. 0 + Len(enc) = Len(enc) /\ 0 \in Nat
  BY <1>1
<1>7. /\ deserialize(buff).ok <=> Len(enc) <= MaxMessage
      /\ deserialize(buff).ok => deserialize(buff).val = a
      /\ ~deserialize(buff).thrown
  BY <1>1, <1>3, <1>5, <1>6, ReadsOk
<1> QED
  BY <1>2, <1>7 DEF enc

-----------------------------------------------------------------------------
(* Cutting a sequence.                                                     *)

LEMMA FirstRest ==
    ASSUME NEW S, NEW s \in Seq(S), NEW n \in Nat \ {0}
    PROVE  /\ First(n, s) \in Seq(S) /\ Rest(n, s) \in Seq(S)
           /\ First(n, s) \o Rest(n, s) = s
           /\ Len(s) <= n => First(n, s) = s /\ Rest(n, s) = <<>>
<1>1. CASE Len(s) <= n
  <2>1. First(n, s) = s
    BY <1>1, SubSeqFull DEF First
  <2>2. Rest(n, s) = <<>>
    BY <1>1, SubSeqEmpty DEF Rest
  <2> QED
    BY <2>1, <2>2, ConcatEmptySeq
<1>2. CASE n < Len(s)
  <2>1. \A i \in 1 .. Len(s) : s[i] \in S
    OBVIOUS
  <2>2. First(n, s) \in Seq(S)
    BY <1>2, <2>1, SubSeqProperties DEF First
  <2>3. Rest(n, s) \in Seq(S)
    BY <1>2, <2>1, SubSeqProperties DEF Rest
  <2>4. First(n, s) \o Rest(n, s) = SubSeq(s, 1, Len(s))
    <3>1. First(n, s) = SubSeq(s, 1, n) /\ Rest(n, s) = SubSeq(s, n + 1, Len(s))
      BY <1>2 DEF First, Rest
    <3>2. 1 \in 1 .. Len(s) + 1 /\ n \in 1 - 1 .. Len(s) /\ Len(s) \in n .. Len(s)
      BY <1>2
    <3>3. SubSeq(s, 1, n) \o SubSeq(s, n + 1, Len(s)) = SubSeq(s, 1, Len(s))
      BY <3>2, ConcatAdjacentSubSeq
    <3> QED
      BY <3>1, <3>3
  <2> QED
    BY <1>2, <2>2, <2>3, <2>4, SubSeqFull
<1> QED
  BY <1>1, <1>2

(* What the program reads of an answer in transit is a cut of it.          *)
LEMMA ReadIsCut ==
    ASSUME NEW s \in Seq(Nat), NEW t \in Seq(Nat), s \o t = serialize(answer),
           NEW n \in Nat \ {0}
    PROVE  First(n, s) \in Cuts(answer)
<1> DEFINE k == IF n < Len(s) THEN n ELSE Len(s)
<1>1. k \in 0 .. Len(s) /\ Len(s \o t) = Len(s) + Len(t)
  BY ConcatProperties
<1>2. k \in 0 .. Len(serialize(answer)) /\ ~(Len(serialize(answer)) < k)
  BY <1>1
<1>3. First(k, serialize(answer)) = SubSeq(s \o t, 1, k)
  BY <1>2 DEF First
<1>4. SubSeq(s \o t, 1, k) = SubSeq(s, 1, k)
  BY <1>1, SubSeqOfConcat1
<1> QED
  BY <1>2, <1>3, <1>4 DEF First, Cuts

-----------------------------------------------------------------------------
(* The invariant.                                                          *)

(* Until the program reads, what was written and what is left make up the  *)
(* answer; a program that printed has read all of it.                      *)
NothingLost ==
    /\ left \in Seq(Nat) /\ stream \in Seq(Nat)
    /\ program \notin Ended => stream \o left = serialize(answer)
    /\ program = "printed" => left = <<>>

(* A short answer is written by one write; the daemon gets a signal only   *)
(* for what it had left to write to a program that ended.                  *)
OneWrite ==
    /\ Short /\ program \notin Ended => stream = <<>> \/ left = <<>>
    /\ Short => program # "undecodable"
    /\ daemon = "sigpipe" => program \in Ended /\ left # <<>>

TransferInv ==
    /\ answer \in Answers /\ chunk \in Chunks /\ program \in Program
    /\ NothingLost /\ OneWrite /\ PrintsTheAnswer

LEMMA TransferInit == Init => TransferInv
<1> SUFFICES ASSUME Init PROVE TransferInv
  OBVIOUS
<1>1. serialize(answer) \in Seq(Nat)
  BY RoundTripHolds DEF RoundTrip, RoundTrips, Init
<1>2. <<>> \in Seq(Nat) /\ <<>> \o serialize(answer) = serialize(answer)
  BY <1>1, ConcatEmptySeq, EmptySeq
<1> QED
  BY <1>1, <1>2 DEF Init, TransferInv, NothingLost, OneWrite, PrintsTheAnswer, Program, Ended

LEMMA WriteStep ==
    ASSUME TransferInv, Write
    PROVE  TransferInv'
<1>1. chunk \in Nat \ {0} /\ left \in Seq(Nat) /\ stream \in Seq(Nat)
  BY TransferAssumption DEF TransferInv, NothingLost
<1>2. stream' = stream \o First(chunk, left) /\ left' = Rest(chunk, left)
      /\ UNCHANGED <<answer, chunk, daemon, program, printed>>
      /\ daemon = "sending" /\ program \notin Ended /\ left # <<>>
  BY DEF Write
<1>3. /\ First(chunk, left) \in Seq(Nat) /\ Rest(chunk, left) \in Seq(Nat)
      /\ First(chunk, left) \o Rest(chunk, left) = left
      /\ Len(left) <= chunk => First(chunk, left) = left /\ Rest(chunk, left) = <<>>
  BY <1>1, FirstRest
<1>4. NothingLost'
  <2>1. stream' \in Seq(Nat) /\ left' \in Seq(Nat)
    BY <1>1, <1>2, <1>3, ConcatProperties
  <2>2. stream' \o left' = stream \o left
    <3>1. First(chunk, left) \in Seq(Nat) /\ Rest(chunk, left) \in Seq(Nat)
      BY <1>3
    <3>2. (stream \o First(chunk, left)) \o Rest(chunk, left)
            = stream \o (First(chunk, left) \o Rest(chunk, left))
      <4>1. ASSUME NEW s \in Seq(Nat), NEW t \in Seq(Nat), NEW u \in Seq(Nat)
            PROVE  (s \o t) \o u = s \o (t \o u)
        BY ConcatAssociative, SMTT(30)
      <4>2. stream \in Seq(Nat)
        BY <1>1
      <4> QED
        BY <3>1, <4>1, <4>2, Zenon
    <3> QED
      BY <1>2, <1>3, <3>2, Zenon
  <2> QED
    BY <1>2, <2>1, <2>2 DEF TransferInv, NothingLost, Ended
<1>5. OneWrite'
  <2>1. ASSUME Short
        PROVE  left' = <<>>
    <3>1. stream = <<>>
      BY <1>2, <2>1 DEF TransferInv, OneWrite
    <3>2. left = serialize(answer)
      BY <1>1, <1>2, <3>1, ConcatEmptySeq DEF TransferInv, NothingLost
    <3> QED
      BY <1>2, <1>3, <2>1, <3>2 DEF Short
  <2>2. Short' = Short
    BY <1>2 DEF Short
  <2> QED
    BY <1>2, <2>1, <2>2 DEF TransferInv, OneWrite
<1> QED
  BY <1>2, <1>4, <1>5 DEF TransferInv, PrintsTheAnswer

LEMMA ReceiveStep ==
    ASSUME TransferInv, Receive
    PROVE  TransferInv'
<1> DEFINE buff == First(MaxMessage, stream)
<1>1. /\ MaxMessage \in Nat \ {0} /\ left \in Seq(Nat) /\ stream \in Seq(Nat)
      /\ answer \in Answers /\ program \notin Ended /\ daemon # "sigpipe"
      /\ stream # <<>> /\ stream \o left = serialize(answer)
  BY TransferAssumption DEF TransferInv, NothingLost, OneWrite, Receive, Ended
<1>2. /\ program' = IF Decoded[buff].ok THEN "printed" ELSE "undecodable"
      /\ printed' = Decoded[buff].val /\ stream' = Rest(MaxMessage, stream)
      /\ UNCHANGED <<answer, chunk, daemon, left>>
  BY DEF Receive
<1>3. /\ buff \in Seq(Nat) /\ Rest(MaxMessage, stream) \in Seq(Nat)
      /\ buff \o Rest(MaxMessage, stream) = stream
      /\ Len(stream) <= MaxMessage => buff = stream
  BY <1>1, FirstRest
<1>4. Decoded[buff].ok <=> buff = serialize(answer)
  BY <1>1, ReadIsCut, RoundTripHolds DEF RoundTrip, RoundTrips
<1> HIDE DEF buff
<1>5. ASSUME Decoded[buff].ok
      PROVE  left = <<>> /\ printed' = answer
  <2>1. Len(buff) = Len(serialize(answer))
    BY <1>4, <1>5
  <2>2. /\ Len(stream) = Len(buff) + Len(Rest(MaxMessage, stream))
        /\ Len(serialize(answer)) = Len(stream) + Len(left)
    BY <1>1, <1>3, ConcatProperties
  <2>3. Len(left) = 0
    BY <1>1, <1>3, <2>1, <2>2
  <2> QED
    BY <1>1, <1>2, <1>4, <1>5, <2>3, EmptySeq, RoundTripHolds DEF RoundTrip, RoundTrips
<1>6. ASSUME Short
      PROVE  Decoded[buff].ok
  <2>1. stream = serialize(answer)
    <3>1. left = <<>>
      BY <1>1, <1>6 DEF TransferInv, OneWrite
    <3> QED
      BY <1>1, <3>1, ConcatEmptySeq
  <2> QED
    BY <1>3, <1>4, <1>6, <2>1 DEF Short
<1>7. NothingLost'
  BY <1>1, <1>2, <1>3, <1>5 DEF NothingLost, Ended
<1>8. OneWrite'
  BY <1>1, <1>2, <1>6 DEF OneWrite, Short, Ended
<1> QED
  BY <1>2, <1>5, <1>7, <1>8 DEF TransferInv, PrintsTheAnswer, Program, Ended

LEMMA TransferNext == TransferInv /\ [Next]_vars => TransferInv'
<1> SUFFICES ASSUME TransferInv, [Next]_vars PROVE TransferInv'
  OBVIOUS
<1> USE DEF TransferInv, NothingLost, OneWrite, PrintsTheAnswer, Short, Program, Ended
<1>1. CASE Write
  BY <1>1, WriteStep
<1>2. CASE WriteToClosed
  BY <1>2 DEF WriteToClosed
<1>3. CASE Sent
  BY <1>3 DEF Sent
<1>4. CASE Kill
  BY <1>4 DEF Kill
<1>5. CASE Receive
  BY <1>5, ReceiveStep
<1>6. CASE ReceiveNothing
  BY <1>6 DEF ReceiveNothing
<1>7. CASE PollAgain
  BY <1>7 DEF PollAgain
<1>8. CASE GiveUp
  BY <1>8 DEF GiveUp
<1>9. CASE UNCHANGED vars
  BY <1>9 DEF vars
<1> QED
  BY <1>1, <1>2, <1>3, <1>4, <1>5, <1>6, <1>7, <1>8, <1>9 DEF Next, ProgramStep

-----------------------------------------------------------------------------
(* Every answer, whole or cut anywhere, decodes to itself or not at all:   *)
(* Serializer.hpp:36-57, Deserializer.hpp:60-109, and the serialize and    *)
(* deserializeImpl of every type sent.                                     *)
THEOREM CodecRoundTrips == SafetySpec => []AnswersRoundTrip
<1>1. Init => TransferInv
  BY TransferInit
<1>2. TransferInv /\ [Next]_vars => TransferInv'
  BY TransferNext
<1>3. TransferInv => AnswersRoundTrip
  BY RoundTripHolds DEF TransferInv, RoundTrip, AnswersRoundTrip
<1> QED
  BY <1>1, <1>2, <1>3, PTL DEF SafetySpec

(* An announcement in the fixed buffer of recvfrom decodes if and only if  *)
(* it fits, and then to what was sent, however much zero follows it, and   *)
(* no cut makes it throw (NetworkNeighborDiscoverer.cpp:175-188).          *)
THEOREM WholeAnnouncements == SafetySpec => []AnnouncementsDecodeWhole
<1>1. Init => TransferInv
  BY TransferInit
<1>2. TransferInv /\ [Next]_vars => TransferInv'
  BY TransferNext
<1>3. TransferInv => AnnouncementsDecodeWhole
  BY DatagramHolds DEF TransferInv, AnnouncementsDecodeWhole
<1> QED
  BY <1>1, <1>2, <1>3, PTL DEF SafetySpec

(* The program prints the whole list it was sent or none, wherever the     *)
(* kernel cuts the answer (CppCliNeighborRequestor.cpp:40-66).             *)
THEOREM WholeAnswers == SafetySpec => []PrintsTheAnswer
<1>1. Init => TransferInv
  BY TransferInit
<1>2. TransferInv /\ [Next]_vars => TransferInv'
  BY TransferNext
<1>3. TransferInv => PrintsTheAnswer
  BY DEF TransferInv
<1> QED
  BY <1>1, <1>2, <1>3, PTL DEF SafetySpec

(* An answer no longer than a chunk and than MaxMessage is never taken for *)
(* an undecodable one, and the write of it ends the daemon only when the   *)
(* program had given up before (NetworkNeighborDiscoverer.cpp:305).        *)
THEOREM ShortAnswers == SafetySpec => []ShortAnswersArrive
<1>1. Init => TransferInv
  BY TransferInit
<1>2. TransferInv /\ [Next]_vars => TransferInv'
  BY TransferNext
<1>3. TransferInv => ShortAnswersArrive
  BY DEF TransferInv, NothingLost, OneWrite, ShortAnswersArrive, Ended
<1> QED
  BY <1>1, <1>2, <1>3, PTL DEF SafetySpec
=============================================================================
