------------------------ MODULE BuilderSession_proofs ------------------------
(***************************************************************************)
(* What a builder wrote is there for good: proofs that BuilderSession's    *)
(* buffers read back, are aligned and share what they should, for all      *)
(* contents and any number of calls.                                       *)
(*                                                                         *)
(* A builder writes at the front, so an object is described by bytes at a  *)
(* distance from the END of the buffer (Spot), which no later call moves   *)
(* (Kept).  In order: sequences and bytes; buffers that grow at the front; *)
(* what each operation writes, from Align to CreateVectorOfStrings,        *)
(* CreateVector64 and EndTable; what the readers return when the bytes are *)
(* there; Finish; the inductive invariant IInv, which says that the bytes  *)
(* of every object made are there; one lemma for each call; the theorems.  *)
(***************************************************************************)
EXTENDS BuilderSession, SequenceTheorems, WellFoundedInduction, TLAPS

-----------------------------------------------------------------------------
(* Induction over the natural numbers, for a set given explicitly. *)

LEMMA Induction ==
  ASSUME NEW S, 0 \in S, \A n \in Nat : n \in S => n + 1 \in S
  PROVE  \A n \in Nat : n \in S
<1>. DEFINE T == Nat \ S
<1>1. SUFFICES ASSUME T # {} PROVE FALSE
  OBVIOUS
<1>2. PICK x \in T : \A y \in T : <<y, x>> \notin OpToRel(<, Nat)
  <2>1. T \subseteq Nat
    OBVIOUS
  <2>. HIDE DEF T
  <2>. QED BY <1>1, <2>1, NatLessThanWellFounded, WFMin
<1>3. \A y \in T : ~ (y < x)
  <2>1. OpToRel(<, Nat) = {ss \in Nat \X Nat : ss[1] < ss[2]}
    BY DEF OpToRel
  <2>2. \A y \in T : <<y, x>> \notin {ss \in Nat \X Nat : ss[1] < ss[2]}
    BY <1>2, <2>1, Zenon
  <2>. QED BY <2>2
<1>4. x - 1 \in Nat /\ x - 1 \in S
  BY <1>3
<1>. QED BY <1>4

-----------------------------------------------------------------------------
(* Sequences of sequences. *)

\* What a concatenation is, in the form the proofs below use.
Joined(u, s, t) ==
  /\ Len(u) = Len(s) + Len(t)
  /\ \A k \in 1 .. Len(s) : u[k] = s[k]
  /\ \A j \in 1 .. Len(t) : u[Len(s) + j] = t[j]

LEMMA Concatenation ==
  ASSUME NEW S, NEW s \in Seq(S), NEW t \in Seq(S)
  PROVE  s \o t \in Seq(S) /\ Joined(s \o t, s, t)
<1>1. s \o t \in Seq(S) /\ Len(s \o t) = Len(s) + Len(t)
  BY ConcatProperties
<1>2. \A i \in 1 .. Len(s) + Len(t) : (s \o t)[i] = IF i <= Len(s) THEN s[i] ELSE t[i - Len(s)]
  BY ConcatProperties
<1>3. Len(s) \in Nat /\ Len(t) \in Nat
  OBVIOUS
<1>4. ASSUME NEW j \in 1 .. Len(t) PROVE (s \o t)[Len(s) + j] = t[j]
  <2>1. /\ Len(s) + j \in 1 .. Len(s) + Len(t) /\ ~ (Len(s) + j <= Len(s))
        /\ (Len(s) + j) - Len(s) = j
    BY <1>3
  <2>. QED BY <2>1, <1>2
<1>5. ASSUME NEW j \in 1 .. Len(s) PROVE (s \o t)[j] = s[j]
  BY <1>2, <1>3
<1>. QED BY <1>1, <1>4, <1>5 DEF Joined

\* The recursion of FlattenSeq.
Flatten(seqs, n, f) ==
  f = [i \in 1 .. n |-> IF i = 1 THEN seqs[i] ELSE f[i - 1] \o seqs[i]]

LEMMA FlattenExists ==
  ASSUME NEW seqs
  PROVE  \A n \in Nat : \E f : Flatten(seqs, n, f)
<1>. DEFINE S == {n \in Nat : \E f : Flatten(seqs, n, f)}
<1>1. 0 \in S
  <2>. DEFINE f == [i \in 1 .. 0 |-> <<>>]
  <2>1. Flatten(seqs, 0, f)
    BY DEF Flatten
  <2>. QED BY <2>1
<1>2. ASSUME NEW n \in Nat, n \in S PROVE n + 1 \in S
  <2>1. PICK f : Flatten(seqs, n, f)
    BY <1>2
  <2>. DEFINE g == [i \in 1 .. n + 1 |-> IF i = n + 1
                      THEN (IF i = 1 THEN seqs[i] ELSE f[i - 1] \o seqs[i]) ELSE f[i]]
  <2>2. Flatten(seqs, n + 1, g)
    <3>1. \A i \in 1 .. n : f[i] = IF i = 1 THEN seqs[i] ELSE f[i - 1] \o seqs[i]
      BY <2>1 DEF Flatten
    <3>2. \A i \in 1 .. n + 1 : g[i] = IF i = 1 THEN seqs[i] ELSE g[i - 1] \o seqs[i]
      BY <3>1
    <3>. QED BY <3>2, Zenon DEF Flatten
  <2>. QED BY <2>2
<1>3. \A n \in Nat : n \in S
  <2>. HIDE DEF S
  <2>. QED BY <1>1, <1>2, Induction
<1>. QED BY <1>3

LEMMA FlattenSeqIs ==
  ASSUME NEW S, NEW seqs \in Seq(Seq(S)), seqs # <<>>
  PROVE  \E f : Flatten(seqs, Len(seqs), f) /\ FlattenSeq(seqs) = f[Len(seqs)]
<1>. DEFINE F == CHOOSE f : Flatten(seqs, Len(seqs), f)
<1>1. Flatten(seqs, Len(seqs), F)
  <2>1. Len(seqs) \in Nat
    OBVIOUS
  <2>. QED BY <2>1, FlattenExists, Zenon
<1>2. FlattenSeq(seqs) = F[Len(seqs)]
  <2>1. Len(seqs) # 0
    OBVIOUS
  <2>. QED BY <2>1, Zenon DEF FlattenSeq, Flatten
<1>. QED BY <1>1, <1>2

LEMMA TimesMonotonic ==
  ASSUME NEW w \in Nat, NEW x \in Nat, NEW y \in Nat, x <= y
  PROVE  x * w <= y * w
<1>1. y * w = x * w + (y - x) * w /\ (y - x) * w \in Nat /\ x * w \in Nat
  OBVIOUS
<1>. QED BY <1>1

\* The first n of equally long sequences, one after the other.
Place(i, w) == (i - 1) * w
InArray(s, seqs, n, w) ==
  /\ Len(s) = Place(n + 1, w)
  /\ \A i \in 1 .. n, j \in 1 .. w : s[Place(i, w) + j] = seqs[i][j]

LEMMA Places ==
  ASSUME NEW w \in Nat, NEW n \in Nat
  PROVE  /\ Place(n + 1, w) \in Nat
         /\ Place(n + 2, w) = Place(n + 1, w) + w
         /\ Place(1, w) = 0 /\ Place(n + 1, w) = n * w
         /\ \A i \in 1 .. n : Place(i, w) \in Nat /\ Place(i, w) + w <= Place(n + 1, w)
<1>1. \A x, y \in Nat : x <= y => x * w <= y * w
  BY TimesMonotonic
<1>2. ASSUME NEW i \in 1 .. n PROVE Place(i, w) \in Nat /\ Place(i, w) + w <= Place(n + 1, w)
  <2>1. (i - 1) * w + w = i * w /\ (i - 1) * w \in Nat
    OBVIOUS
  <2>2. i * w <= n * w
    BY <1>1
  <2>. QED BY <2>1, <2>2 DEF Place
<1>3. Place(n + 1, w) \in Nat /\ Place(n + 2, w) = Place(n + 1, w) + w
  BY DEF Place
<1>4. Place(1, w) = 0 /\ Place(n + 1, w) = n * w
  BY DEF Place
<1>. QED BY <1>2, <1>3, <1>4

LEMMA FlattenStep ==
  ASSUME NEW S, NEW x \in Seq(S), NEW n \in Nat, NEW w \in Nat,
         NEW e, e[n + 1] \in Seq(S), Len(e[n + 1]) = w, InArray(x, e, n, w)
  PROVE  x \o e[n + 1] \in Seq(S) /\ InArray(x \o e[n + 1], e, n + 1, w)
<1>. DEFINE z == x \o e[n + 1]
<1>1. /\ z \in Seq(S) /\ Len(z) = Len(x) + w
      /\ \A k \in 1 .. Len(x) : z[k] = x[k]
      /\ \A j \in 1 .. w : z[Len(x) + j] = e[n + 1][j]
  <2>. DEFINE y == e[n + 1]
  <2>1. y \in Seq(S) /\ Len(y) = w
    OBVIOUS
  <2>. HIDE DEF y
  <2>2. x \o y \in Seq(S) /\ Joined(x \o y, x, y)
    BY <2>1, Concatenation
  <2>. QED BY <2>1, <2>2 DEF Joined, y
<1>. HIDE DEF z
<1>2. Len(x) = Place(n + 1, w)
  BY DEF InArray
<1>3. ASSUME NEW i \in 1 .. n + 1, NEW j \in 1 .. w
      PROVE  z[Place(i, w) + j] = e[i][j]
  <2>1. CASE i = n + 1
    BY <2>1, <1>1, <1>2
  <2>2. CASE i \in 1 .. n
    <3>1. x[Place(i, w) + j] = e[i][j]
      BY <2>2 DEF InArray
    <3>2. Place(i, w) + j \in 1 .. Len(x)
      <4>1. Place(i, w) \in Nat /\ Place(i, w) + w <= Place(n + 1, w)
        BY <2>2, Places
      <4>. QED BY <4>1, <1>2
    <3>. QED BY <3>1, <3>2, <1>1
  <2>3. i = n + 1 \/ i \in 1 .. n
    OBVIOUS
  <2>. QED BY <2>1, <2>2, <2>3, Zenon
<1>4. Len(z) = Place(n + 1 + 1, w)
  BY <1>1, <1>2, Places
<1>. QED BY <1>1, <1>3, <1>4 DEF InArray, z

\* Of equally long sequences, each is where it would be in an array.
LEMMA FlattenSeqProperties ==
  ASSUME NEW S, NEW seqs \in Seq(Seq(S)), NEW w \in Nat,
         \A i \in 1 .. Len(seqs) : Len(seqs[i]) = w
  PROVE  /\ FlattenSeq(seqs) \in Seq(S)
         /\ InArray(FlattenSeq(seqs), seqs, Len(seqs), w)
<1>1. CASE seqs = <<>>
  BY <1>1, Places DEF FlattenSeq, InArray
<1>2. CASE seqs # <<>>
  <2>1. PICK f : Flatten(seqs, Len(seqs), f) /\ FlattenSeq(seqs) = f[Len(seqs)]
    BY <1>2, FlattenSeqIs
  <2>a. \A i \in 1 .. Len(seqs) : f[i] = IF i = 1 THEN seqs[i] ELSE f[i - 1] \o seqs[i]
    <3>1. f = [i \in 1 .. Len(seqs) |-> IF i = 1 THEN seqs[i] ELSE f[i - 1] \o seqs[i]]
      BY <2>1 DEF Flatten
    <3>. DEFINE V(i) == IF i = 1 THEN seqs[i] ELSE f[i - 1] \o seqs[i]
    <3>2. f = [i \in 1 .. Len(seqs) |-> V(i)]
      BY <3>1
    <3>. HIDE DEF V
    <3>3. \A i \in 1 .. Len(seqs) : f[i] = V(i)
      BY <3>2
    <3>. QED BY <3>3 DEF V
  <2>. DEFINE Good(n) == /\ f[n] \in Seq(S) /\ InArray(f[n], seqs, n, w)
              T == {n \in Nat : n \in 1 .. Len(seqs) => Good(n)}
  <2>2. 0 \in T
    OBVIOUS
  <2>3. ASSUME NEW n \in Nat, n \in T PROVE n + 1 \in T
    <3>. SUFFICES ASSUME n + 1 \in 1 .. Len(seqs) PROVE Good(n + 1)
      OBVIOUS
    <3>1. seqs[n + 1] \in Seq(S) /\ Len(seqs[n + 1]) = w
      OBVIOUS
    <3>2. CASE n = 0
      <4>1. f[1] = seqs[1]
        BY <2>a, <3>2
      <4>2. f[1] \in Seq(S) /\ Len(f[1]) = w
        BY <4>1, <3>1, <3>2
      <4>3. Place(1, w) = 0 /\ Place(1 + 1, w) = w
        BY DEF Place
      <4>4. InArray(f[1], seqs, 1, w)
        BY <4>1, <4>2, <4>3 DEF InArray
      <4>. QED BY <4>2, <4>4, <3>2
    <3>3. CASE n # 0
      <4>1. Good(n)
        BY <2>3, <3>3
      <4>2. f[n + 1] = f[n] \o seqs[n + 1]
        <5>1. n + 1 # 1 /\ (n + 1) - 1 = n
          BY <3>3
        <5>2. f[n + 1] = IF n + 1 = 1 THEN seqs[n + 1] ELSE f[(n + 1) - 1] \o seqs[n + 1]
          BY <2>a
        <5>. QED BY <5>1, <5>2
      <4>. DEFINE x == f[n]
      <4>3. x \in Seq(S) /\ InArray(x, seqs, n, w)
        BY <4>1
      <4>. HIDE DEF x, Good
      <4>4. x \o seqs[n + 1] \in Seq(S) /\ InArray(x \o seqs[n + 1], seqs, n + 1, w)
        BY <4>3, <3>1, FlattenStep
      <4>. QED BY <4>2, <4>4 DEF x, Good
    <3>. QED BY <3>2, <3>3
  <2>4. \A n \in Nat : n \in T
    <3>. HIDE DEF T
    <3>. QED BY <2>2, <2>3, Induction
  <2>5. Len(seqs) \in Nat /\ Len(seqs) \in 1 .. Len(seqs)
    BY <1>2
  <2>. QED BY <2>1, <2>4, <2>5
<1>. QED BY <1>1, <1>2

-----------------------------------------------------------------------------
(* Bytes. *)

Octet == 0 .. 255
Sizes == {1, 2, 4, 8}

LEMMA ByteIs ==
  ASSUME NEW v \in Int
  PROVE  /\ Byte(v, 0) = v % 256 /\ Byte(v, 1) = (v \div 256) % 256
         /\ Byte(v, 2) = (v \div 65536) % 256 /\ Byte(v, 3) = (v \div 16777216) % 256
<1>1. v \div 1 = v
  BY SMT
<1>2. /\ <<1, 256, 65536, 16777216>>[0 + 1] = 1 /\ <<1, 256, 65536, 16777216>>[1 + 1] = 256
      /\ <<1, 256, 65536, 16777216>>[2 + 1] = 65536
      /\ <<1, 256, 65536, 16777216>>[3 + 1] = 16777216
  BY SMT
<1>. QED BY <1>1, <1>2, SMT DEF Byte

LEMMA HighBytes ==
  ASSUME NEW v \in Nat, NEW i \in 4 .. 7
  PROVE  Byte(v, i) = 0
BY DEF Byte

LEMMA ByteType ==
  ASSUME NEW v \in Int, NEW i \in 0 .. 7
  PROVE  Byte(v, i) \in Octet
<1>1. \A x \in Int : x % 256 \in 0 .. 255
  OBVIOUS
<1>2. i \in {0, 1, 2, 3} =>
        <<1, 256, 65536, 16777216>>[i + 1] \in {1, 256, 65536, 16777216}
  BY SMT
<1>3. \A x \in Int : \A d \in {1, 256, 65536, 16777216} : x \div d \in Int
  BY SMT
<1>. QED BY <1>1, <1>2, <1>3, SMT DEF Octet, Byte

LEMMA ScalarType ==
  ASSUME NEW v \in Int, NEW w \in Sizes
  PROVE  /\ Scalar(v, w) \in Seq(Octet) /\ Len(Scalar(v, w)) = w
         /\ \A i \in 1 .. w : Scalar(v, w)[i] = Byte(v, i - 1)
<1>1. \A i \in 1 .. w : Byte(v, i - 1) \in Octet
  BY ByteType DEF Sizes
<1>. QED BY <1>1 DEF Scalar, Sizes

LEMMA ZerosType ==
  ASSUME NEW n \in Nat
  PROVE  /\ Zeros(n) \in Seq(Octet) /\ Len(Zeros(n)) = n
         /\ \A i \in 1 .. n : Zeros(n)[i] = 0
BY DEF Zeros, Octet

\* What is read where a scalar was written.
IsInt32(v) ==
  /\ v \in Int
  /\ 0 - FLATBUFFERS_MAX_BUFFER_SIZE <= v /\ v <= FLATBUFFERS_MAX_BUFFER_SIZE

LEMMA FourBytes ==
  ASSUME NEW v, IsInt32(v)
  PROVE  /\ v \in Int /\ v \div 256 \in Int /\ v \div 65536 \in Int
         /\ v \div 16777216 \in -128 .. 127
         /\ v = 256 * (v \div 256) + (v % 256)
         /\ v \div 256 = 256 * (v \div 65536) + ((v \div 256) % 256)
         /\ v \div 65536 = 256 * (v \div 16777216) + ((v \div 65536) % 256)
<1>1. v \in Int /\ v >= 0 - 2147483647 /\ v <= 2147483647
  BY SMT DEF IsInt32, FLATBUFFERS_MAX_BUFFER_SIZE
<1>2. v \div 256 \in Int /\ v \div 65536 \in Int
  BY <1>1, SMT
<1>3. v \div 16777216 >= -128 /\ v \div 16777216 <= 127 /\ v \div 16777216 \in Int
  BY <1>1, SMT
<1>4. /\ v \div 65536 = (v \div 256) \div 256
      /\ v \div 16777216 = (v \div 65536) \div 256
  BY <1>1, SMT
<1>5. \A x \in Int : x = 256 * (x \div 256) + (x % 256)
  OBVIOUS
<1>. QED BY <1>1, <1>2, <1>3, <1>4, <1>5, SMT

LEMMA ReadsInt32 ==
  ASSUME NEW v, IsInt32(v), NEW buf, NEW a \in Int,
         \A i \in 1 .. 4 : buf[a + i] = Byte(v, i - 1)
  PROVE  soffset(buf, a) = v
<1>. DEFINE p == v \div 256
            q == v \div 65536
            r == v \div 16777216
<1>1. /\ v \in Int /\ p \in Int /\ q \in Int /\ r \in -128 .. 127
      /\ v = 256 * p + (v % 256) /\ p = 256 * q + (p % 256) /\ q = 256 * r + (q % 256)
  BY FourBytes, SMT
<1>2. /\ Byte(v, 0) = v % 256 /\ Byte(v, 1) = p % 256
      /\ Byte(v, 2) = q % 256 /\ Byte(v, 3) = r % 256
  <2>1. v \in Int
    BY <1>1
  <2>. QED BY ByteIs, <2>1
<1>. HIDE DEF p, q, r
<1>3. r = IF r % 256 > 127 THEN (r % 256) - 256 ELSE r % 256
  BY <1>1
<1>4. v = (v % 256) + 256 * (p % 256) + 65536 * (q % 256) + 16777216 * r
  BY <1>1, SMT
<1>5. /\ buf[a + 1] = v % 256 /\ buf[a + 2] = p % 256
      /\ buf[a + 3] = q % 256 /\ buf[a + 4] = r % 256
  <2>1. /\ buf[a + 1] = Byte(v, 1 - 1) /\ buf[a + 2] = Byte(v, 2 - 1)
        /\ buf[a + 3] = Byte(v, 3 - 1) /\ buf[a + 4] = Byte(v, 4 - 1)
    OBVIOUS
  <2>. QED BY <2>1, <1>2
<1>. QED BY <1>1, <1>3, <1>4, <1>5, SMT DEF soffset, voffset

\* A size or an offset of a buffer.
IsSize(v) == v \in Nat /\ v <= FLATBUFFERS_MAX_BUFFER_SIZE

LEMMA ReadsUInt32 ==
  ASSUME NEW v, IsSize(v), NEW buf, NEW a \in Int,
         \A i \in 1 .. 4 : buf[a + i] = Byte(v, i - 1)
  PROVE  uoffset(buf, a) = v
<1>1. IsInt32(v) /\ ~(v < 0)
  BY SMT DEF IsInt32, IsSize, FLATBUFFERS_MAX_BUFFER_SIZE
<1>2. soffset(buf, a) = v
  BY <1>1, ReadsInt32
<1>. QED BY <1>1, <1>2 DEF uoffset

LEMMA ReadsUInt64 ==
  ASSUME NEW v, IsSize(v), NEW buf, NEW a \in Int,
         \A i \in 1 .. 8 : buf[a + i] = Byte(v, i - 1)
  PROVE  uoffset64(buf, a) = v
<1>1. v \in Nat
  BY SMT DEF IsSize
<1>2. \A i \in 4 .. 7 : Byte(v, i) = 0
  BY <1>1, HighBytes
<1>3. ASSUME NEW i \in 5 .. 8 PROVE buf[a + i] = 0
  <2>1. i - 1 \in 4 .. 7
    OBVIOUS
  <2>. QED BY <2>1, <1>2
<1>4. uoffset(buf, a) = v
  BY ReadsUInt32
<1>. QED BY <1>3, <1>4 DEF uoffset64

IsShort(v) == v \in Nat /\ v <= 65535

LEMMA TwoBytes ==
  ASSUME NEW v, IsShort(v)
  PROVE  v \in Int /\ v = 256 * ((v \div 256) % 256) + (v % 256)
<1>1. v \in Int /\ v >= 0 /\ v <= 65535
  BY SMT DEF IsShort
<1>2. v \div 256 \in Int /\ v \div 256 >= 0 /\ v \div 256 <= 255
  BY <1>1, SMT
<1>3. v = 256 * (v \div 256) + (v % 256)
  BY <1>1, SMT
<1>4. (v \div 256) % 256 = v \div 256
  BY <1>2, SMT
<1>. QED BY <1>1, <1>3, <1>4

LEMMA ReadsUInt16 ==
  ASSUME NEW v, IsShort(v), NEW buf, NEW a \in Int,
         \A i \in 1 .. 2 : buf[a + i] = Byte(v, i - 1)
  PROVE  voffset(buf, a) = v
<1>1. v \in Int
  BY TwoBytes
<1>2. Byte(v, 0) = v % 256 /\ Byte(v, 1) = (v \div 256) % 256
  BY <1>1, ByteIs
<1>3. buf[a + 1] = Byte(v, 1 - 1) /\ buf[a + 2] = Byte(v, 2 - 1)
  OBVIOUS
<1>4. v % 256 \in Int /\ (v \div 256) % 256 \in Int
  BY <1>1
<1>. QED BY <1>1, <1>2, <1>3, <1>4, TwoBytes DEF voffset

\* Padding.
LEMMA Padding ==
  ASSUME NEW n \in Nat, NEW size \in Sizes
  PROVE  /\ PaddingBytes(n, size) \in 0 .. size - 1
         /\ (n + PaddingBytes(n, size)) % size = 0
         /\ n % size = 0 => PaddingBytes(n, size) = 0
BY DEF PaddingBytes, Sizes

-----------------------------------------------------------------------------
(* Buffers that grow at the front. *)

\* The bytes s are at the distance off from the end of the buffer.
Holds(buf, off, s) ==
  /\ Len(s) <= off /\ off <= Len(buf) /\ off \in Nat
  /\ \A i \in 1 .. Len(s) : buf[Len(buf) - off + i] = s[i]

\* t ends with s.
Behind(s, t) ==
  /\ Len(s) <= Len(t)
  /\ \A i \in 1 .. Len(s) : t[Len(t) - Len(s) + i] = s[i]

LEMMA BehindSelf ==
  ASSUME NEW s \in Seq(Octet)
  PROVE  Behind(s, s)
<1>1. Len(s) \in Nat
  OBVIOUS
<1>2. \A i \in 1 .. Len(s) : Len(s) - Len(s) + i = i
  BY <1>1
<1>. QED BY <1>1, <1>2 DEF Behind

LEMMA BehindTransitive ==
  ASSUME NEW s \in Seq(Octet), NEW t \in Seq(Octet), NEW u \in Seq(Octet),
         Behind(s, t), Behind(t, u)
  PROVE  Behind(s, u)
<1>1. Len(s) \in Nat /\ Len(t) \in Nat /\ Len(u) \in Nat
  OBVIOUS
<1>2. Len(s) <= Len(t) /\ Len(t) <= Len(u)
  BY DEF Behind
<1>3. ASSUME NEW i \in 1 .. Len(s) PROVE u[Len(u) - Len(s) + i] = s[i]
  <2>1. /\ Len(t) - Len(s) + i \in 1 .. Len(t)
        /\ Len(u) - Len(t) + (Len(t) - Len(s) + i) = Len(u) - Len(s) + i
    BY <1>1, <1>2
  <2>2. u[Len(u) - Len(t) + (Len(t) - Len(s) + i)] = t[Len(t) - Len(s) + i]
    BY <2>1 DEF Behind
  <2>3. t[Len(t) - Len(s) + i] = s[i]
    BY DEF Behind
  <2>. QED BY <2>1, <2>2, <2>3
<1>. QED BY <1>1, <1>2, <1>3 DEF Behind

LEMMA HoldsBehind ==
  ASSUME NEW s \in Seq(Octet), NEW t \in Seq(Octet), Behind(s, t),
         NEW off, NEW x \in Seq(Octet), Holds(s, off, x)
  PROVE  Holds(t, off, x)
<1>1. Len(s) \in Nat /\ Len(t) \in Nat /\ Len(x) \in Nat /\ off \in Nat
  BY DEF Holds
<1>2. Len(s) <= Len(t) /\ Len(x) <= off /\ off <= Len(s)
  BY DEF Behind, Holds
<1>3. ASSUME NEW i \in 1 .. Len(x) PROVE t[Len(t) - off + i] = x[i]
  <2>1. /\ Len(s) - off + i \in 1 .. Len(s)
        /\ Len(t) - Len(s) + (Len(s) - off + i) = Len(t) - off + i
    BY <1>1, <1>2
  <2>2. t[Len(t) - Len(s) + (Len(s) - off + i)] = s[Len(s) - off + i]
    BY <2>1 DEF Behind
  <2>3. s[Len(s) - off + i] = x[i]
    BY DEF Holds
  <2>. QED BY <2>1, <2>2, <2>3
<1>. QED BY <1>1, <1>2, <1>3 DEF Holds

LEMMA JoinedFront ==
  ASSUME NEW x \in Seq(Octet), NEW s \in Seq(Octet)
  PROVE  /\ x \o s \in Seq(Octet) /\ Len(x \o s) = Len(x) + Len(s)
         /\ Behind(s, x \o s) /\ Holds(x \o s, Len(x) + Len(s), x)
<1>. DEFINE t == x \o s
<1>1. t \in Seq(Octet) /\ Joined(t, x, s)
  BY Concatenation
<1>. HIDE DEF t
<1>2. Len(x) \in Nat /\ Len(s) \in Nat /\ Len(t) = Len(x) + Len(s)
  BY <1>1 DEF Joined
<1>3. ASSUME NEW i \in 1 .. Len(s) PROVE t[Len(t) - Len(s) + i] = s[i]
  <2>1. Len(t) - Len(s) + i = Len(x) + i
    BY <1>2
  <2>. QED BY <1>1, <2>1 DEF Joined
<1>4. ASSUME NEW i \in 1 .. Len(x) PROVE t[Len(t) - (Len(x) + Len(s)) + i] = x[i]
  <2>1. Len(t) - (Len(x) + Len(s)) + i = i
    BY <1>2
  <2>. QED BY <1>1, <2>1 DEF Joined
<1>5. Behind(s, t)
  <2>1. Len(s) <= Len(t)
    BY <1>2
  <2>. QED BY <2>1, <1>3 DEF Behind
<1>6. Holds(t, Len(x) + Len(s), x)
  BY <1>2, <1>4 DEF Holds
<1>. QED BY <1>1, <1>2, <1>5, <1>6 DEF t

\* Taking back what was put in front.
LEMMA BehindPopped ==
  ASSUME NEW s \in Seq(Octet), NEW t \in Seq(Octet), Behind(s, t)
  PROVE  SubSeq(t, (Len(t) - Len(s)) + 1, Len(t)) = s
<1>1. Len(s) \in Nat /\ Len(t) \in Nat /\ Len(s) <= Len(t)
  BY DEF Behind
<1>. DEFINE u == SubSeq(t, (Len(t) - Len(s)) + 1, Len(t))
<1>2. /\ u \in Seq(Octet) /\ Len(u) = Len(s)
      /\ \A i \in 1 .. Len(s) : u[i] = t[(Len(t) - Len(s)) + 1 + i - 1]
  <2>. DEFINE m == (Len(t) - Len(s)) + 1
  <2>1. m \in Int /\ Len(t) \in Int /\ Len(t) - m + 1 = Len(s) /\ m >= 1
        /\ (m <= Len(t) \/ Len(s) = 0)
    BY <1>1
  <2>2. \A i \in m .. Len(t) : t[i] \in Octet
    BY <2>1
  <2>. HIDE DEF m
  <2>3. /\ SubSeq(t, m, Len(t)) \in Seq(Octet)
        /\ Len(SubSeq(t, m, Len(t))) = IF m <= Len(t) THEN Len(t) - m + 1 ELSE 0
        /\ \A i \in 1 .. Len(t) - m + 1 : SubSeq(t, m, Len(t))[i] = t[m + i - 1]
    BY <2>1, <2>2, SubSeqProperties
  <2>4. /\ SubSeq(t, m, Len(t)) \in Seq(Octet) /\ Len(SubSeq(t, m, Len(t))) = Len(s)
        /\ \A i \in 1 .. Len(s) : SubSeq(t, m, Len(t))[i] = t[m + i - 1]
    BY <2>1, <2>3, <1>1
  <2>. QED BY <2>4 DEF m
<1>. HIDE DEF u
<1>3. ASSUME NEW i \in 1 .. Len(s) PROVE u[i] = s[i]
  <2>1. (Len(t) - Len(s)) + 1 + i - 1 = Len(t) - Len(s) + i
    BY <1>1
  <2>2. u[i] = t[Len(t) - Len(s) + i]
    BY <1>2, <2>1
  <2>. QED BY <2>2 DEF Behind
<1>4. u = s
  BY <1>2, <1>3, SeqEqual
<1>. QED BY <1>4 DEF u

-----------------------------------------------------------------------------
(* What the operations of a builder leave alone. *)

\* The builder's members, by their types.
FieldLoc == [off : Int, id : Int]
Builder ==
  [buf : Seq(Octet), vtables : Seq(Int), fields : Seq(FieldLoc),
   max_voffset_ : Nat, nested : BOOLEAN, finished : BOOLEAN, minalign_ : Sizes,
   length64 : Nat, is64 : BOOLEAN, force_defaults_ : BOOLEAN, dedup_vtables_ : BOOLEAN]

\* All but the buffer, its alignment and nested.
SameRest(d, c) ==
  /\ c.vtables = d.vtables /\ c.fields = d.fields /\ c.max_voffset_ = d.max_voffset_
  /\ c.finished = d.finished /\ c.length64 = d.length64 /\ c.is64 = d.is64
  /\ c.force_defaults_ = d.force_defaults_ /\ c.dedup_vtables_ = d.dedup_vtables_

\* What is in the buffer stays there.
Kept(d, c) == Behind(d.buf, c.buf) /\ d.minalign_ <= c.minalign_

Grown(d, c) == c \in Builder /\ SameRest(d, c) /\ Kept(d, c)

\* The bytes x at a distance off from the end that is a multiple of al, as is the
\* size of a finished buffer.
Spot(d, off, x, al) == Holds(d.buf, off, x) /\ al <= d.minalign_ /\ (off % al) = 0

LEMMA BuilderType ==
  ASSUME NEW d \in Builder
  PROVE  /\ d.buf \in Seq(Octet) /\ GetSize(d) \in Nat /\ GetSize(d) = Len(d.buf)
         /\ d.minalign_ \in Sizes /\ d.minalign_ \in Nat /\ d.length64 \in Nat
         /\ GetSizeRelative32BitRegion(d) \in Int
         /\ GetSizeRelative32BitRegion(d) = GetSize(d) - d.length64
BY DEF Builder, GetSize, GetSizeRelative32BitRegion, Sizes

LEMMA KeptSelf ==
  ASSUME NEW d \in Builder
  PROVE  Kept(d, d)
BY BuilderType, BehindSelf DEF Kept

LEMMA GrownSelf ==
  ASSUME NEW d \in Builder
  PROVE  Grown(d, d)
BY KeptSelf DEF Grown, SameRest

LEMMA KeptTransitive ==
  ASSUME NEW d \in Builder, NEW c \in Builder, NEW e \in Builder, Kept(d, c), Kept(c, e)
  PROVE  Kept(d, e)
<1>1. /\ d.buf \in Seq(Octet) /\ c.buf \in Seq(Octet) /\ e.buf \in Seq(Octet)
      /\ d.minalign_ \in Nat /\ c.minalign_ \in Nat /\ e.minalign_ \in Nat
  BY BuilderType
<1>2. /\ Behind(d.buf, c.buf) /\ Behind(c.buf, e.buf)
      /\ d.minalign_ <= c.minalign_ /\ c.minalign_ <= e.minalign_
  BY DEF Kept
<1>3. Behind(d.buf, e.buf)
  BY <1>1, <1>2, BehindTransitive
<1>4. d.minalign_ <= e.minalign_
  BY <1>1, <1>2
<1>. QED BY <1>3, <1>4 DEF Kept

LEMMA GrownTransitive ==
  ASSUME NEW d \in Builder, NEW c, NEW e, Grown(d, c), Grown(c, e)
  PROVE  Grown(d, e)
<1>1. c \in Builder /\ e \in Builder /\ Kept(d, c) /\ Kept(c, e)
  BY DEF Grown
<1>2. Kept(d, e)
  BY <1>1, KeptTransitive
<1>3. SameRest(d, e)
  BY DEF Grown, SameRest
<1>. QED BY <1>1, <1>2, <1>3 DEF Grown

LEMMA KeptSize ==
  ASSUME NEW d \in Builder, NEW c \in Builder, Kept(d, c)
  PROVE  GetSize(d) <= GetSize(c) /\ d.minalign_ <= c.minalign_
BY DEF Kept, Behind, GetSize

LEMMA SpotKept ==
  ASSUME NEW d \in Builder, NEW c \in Builder, Kept(d, c),
         NEW off, NEW x \in Seq(Octet), NEW al \in Sizes, Spot(d, off, x, al)
  PROVE  Spot(c, off, x, al)
<1>1. /\ d.buf \in Seq(Octet) /\ c.buf \in Seq(Octet) /\ al \in Nat
      /\ d.minalign_ \in Nat /\ c.minalign_ \in Nat
  BY BuilderType DEF Sizes
<1>2. Behind(d.buf, c.buf) /\ d.minalign_ <= c.minalign_
  BY DEF Kept
<1>3. Holds(d.buf, off, x) /\ al <= d.minalign_ /\ (off % al) = 0
  BY DEF Spot
<1>4. Holds(c.buf, off, x)
  BY <1>1, <1>2, <1>3, HoldsBehind
<1>5. al <= c.minalign_
  BY <1>1, <1>2, <1>3
<1>. QED BY <1>3, <1>4, <1>5 DEF Spot

\* Where the bytes are in the buffer.
BytesAt(buf, a, x) == \A i \in 1 .. Len(x) : buf[a + i] = x[i]

LEMMA SpotBytes ==
  ASSUME NEW d \in Builder, NEW off, NEW x \in Seq(Octet), NEW al \in Sizes,
         Spot(d, off, x, al)
  PROVE  /\ off \in Nat /\ Len(x) <= off /\ off <= GetSize(d) /\ (off % al) = 0
         /\ BytesAt(d.buf, GetSize(d) - off, x)
BY DEF Spot, Holds, GetSize, BytesAt

LEMMA AnySpot ==
  ASSUME NEW d \in Builder, NEW off, NEW x, Holds(d.buf, off, x)
  PROVE  Spot(d, off, x, 1)
<1>1. off \in Nat
  BY DEF Holds
<1>2. (off % 1) = 0 /\ 1 <= d.minalign_
  BY <1>1, BuilderType DEF Sizes
<1>. QED BY <1>2 DEF Spot

LEMMA Pushing ==
  ASSUME NEW d \in Builder, NEW x \in Seq(Octet)
  PROVE  /\ Grown(d, PushBytes(d, x)) /\ PushBytes(d, x).nested = d.nested
         /\ PushBytes(d, x).minalign_ = d.minalign_
         /\ GetSize(PushBytes(d, x)) = GetSize(d) + Len(x)
         /\ Spot(PushBytes(d, x), GetSize(PushBytes(d, x)), x, 1)
<1>. DEFINE c == PushBytes(d, x)
<1>1. d.buf \in Seq(Octet) /\ d.minalign_ \in Nat /\ Len(x) \in Nat /\ GetSize(d) \in Nat
  BY BuilderType
<1>2. c = [d EXCEPT !.buf = x \o d.buf]
  BY DEF PushBytes
<1>3. /\ x \o d.buf \in Seq(Octet) /\ Len(x \o d.buf) = Len(x) + Len(d.buf)
      /\ Behind(d.buf, x \o d.buf) /\ Holds(x \o d.buf, Len(x) + Len(d.buf), x)
  BY <1>1, JoinedFront
<1>4. c \in Builder /\ c.buf = x \o d.buf /\ c.minalign_ = d.minalign_ /\ c.nested = d.nested
  BY <1>2, <1>3 DEF Builder
<1>5. SameRest(d, c)
  BY <1>2 DEF SameRest, Builder
<1>6. d.minalign_ <= c.minalign_
  BY <1>1, <1>4
<1>. HIDE DEF c
<1>7. Grown(d, c)
  BY <1>3, <1>4, <1>5, <1>6 DEF Grown, Kept
<1>8. GetSize(c) = GetSize(d) + Len(x) /\ GetSize(c) = Len(x) + Len(d.buf)
  BY <1>1, <1>3, <1>4 DEF GetSize
<1>9. Holds(c.buf, GetSize(c), x)
  BY <1>3, <1>4, <1>8
<1>10. Spot(c, GetSize(c), x, 1)
  BY <1>4, <1>9, AnySpot
<1>. QED BY <1>4, <1>7, <1>8, <1>10 DEF c

LEMMA Padded ==
  ASSUME NEW d \in Builder, NEW n \in Nat
  PROVE  /\ Grown(d, Pad(d, n)) /\ Pad(d, n).nested = d.nested
         /\ Pad(d, n).minalign_ = d.minalign_ /\ GetSize(Pad(d, n)) = GetSize(d) + n
         /\ Spot(Pad(d, n), GetSize(Pad(d, n)), Zeros(n), 1)
<1>1. Zeros(n) \in Seq(Octet) /\ Len(Zeros(n)) = n
  BY ZerosType
<1>2. Pad(d, n) = PushBytes(d, Zeros(n))
  BY DEF Pad
<1>. QED BY <1>1, <1>2, Pushing

LEMMA Tracking ==
  ASSUME NEW d \in Builder, NEW al \in Sizes
  PROVE  /\ Grown(d, TrackMinAlign(d, al)) /\ TrackMinAlign(d, al).nested = d.nested
         /\ GetSize(TrackMinAlign(d, al)) = GetSize(d)
         /\ TrackMinAlign(d, al).buf = d.buf
         /\ al <= TrackMinAlign(d, al).minalign_
<1>. DEFINE c == TrackMinAlign(d, al)
<1>1. d.buf \in Seq(Octet) /\ d.minalign_ \in Nat /\ al \in Nat /\ d.minalign_ \in Sizes
  BY BuilderType DEF Sizes
<1>2. c = [d EXCEPT !.minalign_ = IF al > d.minalign_ THEN al ELSE d.minalign_]
  BY DEF TrackMinAlign
<1>3. (IF al > d.minalign_ THEN al ELSE d.minalign_) \in Sizes
  BY <1>1
<1>4. /\ c \in Builder /\ c.buf = d.buf /\ c.nested = d.nested
      /\ c.minalign_ = IF al > d.minalign_ THEN al ELSE d.minalign_
  BY <1>2, <1>3 DEF Builder
<1>5. SameRest(d, c)
  BY <1>2 DEF SameRest, Builder
<1>. HIDE DEF c
<1>6. d.minalign_ <= c.minalign_ /\ al <= c.minalign_
  BY <1>1, <1>4
<1>7. Behind(d.buf, c.buf)
  BY <1>1, <1>4, BehindSelf
<1>8. GetSize(c) = GetSize(d)
  BY <1>4 DEF GetSize
<1>. QED BY <1>4, <1>5, <1>6, <1>7, <1>8 DEF c, Grown, Kept

-----------------------------------------------------------------------------
(* Alignment, scalars and offsets. *)

LEMMA SizesAre ==
  ASSUME NEW al \in Sizes
  PROVE  /\ al \in Nat /\ al >= 1 /\ (0 % al) = 0
         /\ \A n \in Nat : (n % al) \in 0 .. al - 1
BY DEF Sizes

LEMMA Aligning ==
  ASSUME NEW d \in Builder, NEW al \in Sizes
  PROVE  /\ Grown(d, Align(d, al)) /\ Align(d, al).nested = d.nested
         /\ (GetSize(Align(d, al)) % al) = 0 /\ al <= Align(d, al).minalign_
         /\ GetSize(Align(d, al)) = GetSize(d) + PaddingBytes(GetSize(d), al)
         /\ (GetSize(d) % al) = 0 => GetSize(Align(d, al)) = GetSize(d)
<1>. DEFINE n == PaddingBytes(GetSize(d), al)
            t == TrackMinAlign(d, al)
            c == Pad(t, n)
<1>1. GetSize(d) \in Nat
  BY BuilderType
<1>2. /\ n \in 0 .. al - 1 /\ ((GetSize(d) + n) % al) = 0
      /\ (GetSize(d) % al) = 0 => n = 0
  BY <1>1, Padding
<1>3. /\ Grown(d, t) /\ t.nested = d.nested /\ GetSize(t) = GetSize(d)
      /\ al <= t.minalign_ /\ t \in Builder
  BY Tracking DEF Grown
<1>4. n \in Nat
  BY <1>2, SizesAre
<1>5. Align(d, al) = c
  BY DEF Align
<1>. HIDE DEF n, t
<1>6. /\ Grown(t, c) /\ c.nested = t.nested /\ c.minalign_ = t.minalign_
      /\ GetSize(c) = GetSize(t) + n
  BY <1>3, <1>4, Padded
<1>. HIDE DEF c
<1>7. Grown(d, c)
  BY <1>3, <1>6, GrownTransitive
<1>8. GetSize(c) = GetSize(d) + n /\ (GetSize(c) % al) = 0 /\ al <= c.minalign_
  BY <1>2, <1>3, <1>6
<1>9. (GetSize(d) % al) = 0 => GetSize(c) = GetSize(d)
  BY <1>1, <1>2, <1>8
<1>. QED BY <1>3, <1>5, <1>6, <1>7, <1>8, <1>9 DEF n

LEMMA PreAligning ==
  ASSUME NEW d \in Builder, NEW n \in Nat, NEW al \in Sizes
  PROVE  /\ Grown(d, PreAlign(d, n, al)) /\ PreAlign(d, n, al).nested = d.nested
         /\ n # 0 => /\ ((GetSize(PreAlign(d, n, al)) + n) % al) = 0
                     /\ al <= PreAlign(d, n, al).minalign_
         /\ ((GetSize(d) + n) % al) = 0 => GetSize(PreAlign(d, n, al)) = GetSize(d)
         /\ GetSize(d) <= GetSize(PreAlign(d, n, al))
<1>1. CASE n = 0
  BY <1>1, GrownSelf, BuilderType DEF PreAlign
<1>2. CASE n # 0
  <2>. DEFINE p == PaddingBytes(GetSize(d) + n, al)
              t == TrackMinAlign(d, al)
              c == Pad(t, p)
  <2>1. GetSize(d) \in Nat /\ GetSize(d) + n \in Nat
    BY BuilderType
  <2>2. /\ p \in 0 .. al - 1 /\ (((GetSize(d) + n) + p) % al) = 0
        /\ ((GetSize(d) + n) % al) = 0 => p = 0
    BY <2>1, Padding
  <2>3. /\ Grown(d, t) /\ t.nested = d.nested /\ GetSize(t) = GetSize(d)
        /\ al <= t.minalign_ /\ t \in Builder
    BY Tracking DEF Grown
  <2>4. p \in Nat
    BY <2>2, SizesAre
  <2>5. PreAlign(d, n, al) = c
    BY <1>2 DEF PreAlign
  <2>. HIDE DEF p, t
  <2>6. /\ Grown(t, c) /\ c.nested = t.nested /\ c.minalign_ = t.minalign_
        /\ GetSize(c) = GetSize(t) + p
    BY <2>3, <2>4, Padded
  <2>. HIDE DEF c
  <2>7. Grown(d, c)
    BY <2>3, <2>6, GrownTransitive
  <2>8. GetSize(c) = GetSize(d) + p /\ GetSize(c) + n = (GetSize(d) + n) + p
    BY <2>1, <2>3, <2>4, <2>6
  <2>9. /\ ((GetSize(c) + n) % al) = 0 /\ al <= c.minalign_
        /\ ((GetSize(d) + n) % al) = 0 => GetSize(c) = GetSize(d)
        /\ GetSize(d) <= GetSize(c)
    BY <2>1, <2>2, <2>3, <2>4, <2>6, <2>8
  <2>. QED BY <2>3, <2>5, <2>6, <2>7, <2>9
<1>. QED BY <1>1, <1>2

LEMMA PushingElement ==
  ASSUME NEW d \in Builder, NEW x \in Seq(Octet), NEW w \in Sizes, Len(x) = w
  PROVE  /\ Grown(d, PushElement(d, x)) /\ PushElement(d, x).nested = d.nested
         /\ Spot(PushElement(d, x), GetSize(PushElement(d, x)), x, w)
         /\ GetSize(PushElement(d, x)) = GetSize(d) + PaddingBytes(GetSize(d), w) + w
         /\ (GetSize(d) % w) = 0 => GetSize(PushElement(d, x)) = GetSize(d) + w
         /\ GetSize(d) + w <= GetSize(PushElement(d, x))
<1>. DEFINE a == Align(d, w)
            c == PushBytes(a, x)
<1>1. /\ Grown(d, a) /\ a.nested = d.nested /\ (GetSize(a) % w) = 0 /\ w <= a.minalign_
      /\ GetSize(a) = GetSize(d) + PaddingBytes(GetSize(d), w)
      /\ (GetSize(d) % w) = 0 => GetSize(a) = GetSize(d)
  BY Aligning
<1>2. PushElement(d, x) = c
  BY DEF PushElement
<1>3. a \in Builder /\ GetSize(d) \in Nat
  BY <1>1, BuilderType DEF Grown
<1>. HIDE DEF a
<1>4. /\ Grown(a, c) /\ c.nested = a.nested /\ c.minalign_ = a.minalign_
      /\ GetSize(c) = GetSize(a) + Len(x) /\ Spot(c, GetSize(c), x, 1)
  BY <1>3, Pushing
<1>. HIDE DEF c
<1>5. Grown(d, c)
  BY <1>1, <1>4, GrownTransitive
<1>6. PaddingBytes(GetSize(d), w) \in Nat
  BY <1>3, Padding, SizesAre
<1>7. (GetSize(c) % w) = 0
  <2>1. GetSize(a) \in Nat /\ GetSize(c) = GetSize(a) + w
    BY <1>3, <1>4, BuilderType
  <2>2. \A n \in Nat : (n % w) = 0 => ((n + w) % w) = 0
    BY DEF Sizes
  <2>. QED BY <2>1, <2>2, <1>1
<1>8. Spot(c, GetSize(c), x, w)
  BY <1>1, <1>4, <1>7 DEF Spot
<1>9. /\ GetSize(c) = GetSize(d) + PaddingBytes(GetSize(d), w) + w
      /\ GetSize(d) + w <= GetSize(c)
  BY <1>1, <1>3, <1>4, <1>6, SizesAre
<1>. QED BY <1>1, <1>2, <1>4, <1>5, <1>8, <1>9

\* A reference is aligned and, once it is there, is the distance from itself to off.
LEMMA PushingReference ==
  ASSUME NEW d \in Builder, NEW off \in Int
  PROVE  /\ Grown(d, PushReference(d, off)) /\ PushReference(d, off).nested = d.nested
         /\ Spot(PushReference(d, off), GetSize(PushReference(d, off)),
                 Scalar(GetSizeRelative32BitRegion(PushReference(d, off)) - off, 4), 4)
         /\ (GetSize(d) % 4) = 0 => GetSize(PushReference(d, off)) = GetSize(d) + 4
         /\ GetSize(d) + 4 <= GetSize(PushReference(d, off))
<1>. DEFINE a == Align(d, 4)
            v == GetSizeRelative32BitRegion(a) - off + 4
            c == PushElement(a, Scalar(v, 4))
<1>0. 4 \in Sizes
  BY DEF Sizes
<1>1. /\ Grown(d, a) /\ a.nested = d.nested /\ (GetSize(a) % 4) = 0
      /\ GetSize(a) = GetSize(d) + PaddingBytes(GetSize(d), 4)
      /\ (GetSize(d) % 4) = 0 => GetSize(a) = GetSize(d)
  BY <1>0, Aligning
<1>2. PushReference(d, off) = c
  BY DEF PushReference
<1>3. a \in Builder /\ GetSize(d) \in Nat
  BY <1>1, BuilderType DEF Grown
<1>. HIDE DEF a
<1>4. /\ v \in Int /\ GetSize(a) \in Nat /\ a.length64 \in Nat
      /\ GetSizeRelative32BitRegion(a) = GetSize(a) - a.length64
  BY <1>3, BuilderType
<1>. HIDE DEF v
<1>5. Scalar(v, 4) \in Seq(Octet) /\ Len(Scalar(v, 4)) = 4
  BY <1>0, <1>4, ScalarType
<1>6. /\ Grown(a, c) /\ c.nested = a.nested /\ Spot(c, GetSize(c), Scalar(v, 4), 4)
      /\ GetSize(c) = GetSize(a) + 4
  BY <1>0, <1>1, <1>3, <1>5, PushingElement
<1>. HIDE DEF c
<1>7. Grown(d, c)
  BY <1>1, <1>6, GrownTransitive
<1>8. GetSizeRelative32BitRegion(c) = GetSizeRelative32BitRegion(a) + 4
  BY <1>4, <1>6 DEF Grown, SameRest, GetSizeRelative32BitRegion
<1>9. v = GetSizeRelative32BitRegion(c) - off
  BY <1>4, <1>8 DEF v
<1>10. PaddingBytes(GetSize(d), 4) \in Nat
  BY <1>0, <1>3, Padding
<1>11. /\ (GetSize(d) % 4) = 0 => GetSize(c) = GetSize(d) + 4
       /\ GetSize(d) + 4 <= GetSize(c)
  BY <1>1, <1>3, <1>6, <1>10
<1>. QED BY <1>1, <1>2, <1>6, <1>7, <1>9, <1>11

LEMMA PushingReference64 ==
  ASSUME NEW d \in Builder, NEW off \in Int
  PROVE  /\ Grown(d, PushReference64(d, off)) /\ PushReference64(d, off).nested = d.nested
         /\ Spot(PushReference64(d, off), GetSize(PushReference64(d, off)),
                 Scalar(GetSize(PushReference64(d, off)) - off, 8), 8)
         /\ GetSize(d) + 8 <= GetSize(PushReference64(d, off))
<1>. DEFINE a == Align(d, 8)
            v == GetSize(a) - off + 8
            c == PushElement(a, Scalar(v, 8))
<1>0. 8 \in Sizes
  BY DEF Sizes
<1>1. /\ Grown(d, a) /\ a.nested = d.nested /\ (GetSize(a) % 8) = 0
      /\ GetSize(a) = GetSize(d) + PaddingBytes(GetSize(d), 8)
  BY <1>0, Aligning
<1>2. PushReference64(d, off) = c
  BY DEF PushReference64
<1>3. a \in Builder /\ GetSize(d) \in Nat
  BY <1>1, BuilderType DEF Grown
<1>. HIDE DEF a
<1>4. v \in Int /\ GetSize(a) \in Nat
  BY <1>3, BuilderType
<1>. HIDE DEF v
<1>5. Scalar(v, 8) \in Seq(Octet) /\ Len(Scalar(v, 8)) = 8
  BY <1>0, <1>4, ScalarType
<1>6. /\ Grown(a, c) /\ c.nested = a.nested /\ Spot(c, GetSize(c), Scalar(v, 8), 8)
      /\ GetSize(c) = GetSize(a) + 8
  BY <1>0, <1>1, <1>3, <1>5, PushingElement
<1>. HIDE DEF c
<1>7. Grown(d, c)
  BY <1>1, <1>6, GrownTransitive
<1>9. v = GetSize(c) - off
  BY <1>4, <1>6 DEF v
<1>10. PaddingBytes(GetSize(d), 8) \in Nat
  BY <1>0, <1>3, Padding
<1>11. GetSize(d) + 8 <= GetSize(c)
  BY <1>1, <1>3, <1>6, <1>10
<1>. QED BY <1>1, <1>2, <1>6, <1>7, <1>9, <1>11

-----------------------------------------------------------------------------
(* Strings and vectors. *)

\* A string whose length is at the distance off from the end.
StringThere(d, off, s, al) ==
  /\ s \in Seq(Octet)
  /\ Spot(d, off, Scalar(Len(s), 4), 4) /\ Spot(d, off - 4, s, al)
  /\ Spot(d, off - 4 - Len(s), Zeros(1), 1)

\* Elements of w bytes each.
Elements(v, w) == v \in Seq(Seq(Octet)) /\ w \in Sizes /\ \A i \in 1 .. Len(v) : Len(v[i]) = w

\* A vector whose length is at the distance off: al, its elements' alignment, counts only
\* when there are elements.
VectorThere(d, off, v, w, al) ==
  /\ Elements(v, w)
  /\ Spot(d, off, Scalar(Len(v), 4), 4)
  /\ Spot(d, off - 4, FlattenSeq(v), IF v = <<>> THEN 1 ELSE al)

\* A reference to what was there already.
Reference(d, off, target) ==
  /\ target \in Int /\ 0 < target /\ target <= off - d.length64 /\ off \in Int
  /\ Spot(d, off, Scalar(off - d.length64 - target, 4), 4)

LEMMA LengthType ==
  ASSUME NEW n \in Int
  PROVE  Scalar(n, 4) \in Seq(Octet) /\ Len(Scalar(n, 4)) = 4
BY ScalarType DEF Sizes

LEMMA StringKept ==
  ASSUME NEW d \in Builder, NEW c \in Builder, Kept(d, c),
         NEW off, NEW s, NEW al \in Sizes, StringThere(d, off, s, al)
  PROVE  StringThere(c, off, s, al)
<1>1. s \in Seq(Octet) /\ Len(s) \in Int
  BY DEF StringThere
<1>2. Scalar(Len(s), 4) \in Seq(Octet) /\ Zeros(1) \in Seq(Octet)
  BY <1>1, LengthType, ZerosType
<1>3. 4 \in Sizes /\ 1 \in Sizes
  BY DEF Sizes
<1>4. /\ Spot(d, off, Scalar(Len(s), 4), 4) /\ Spot(d, off - 4, s, al)
      /\ Spot(d, off - 4 - Len(s), Zeros(1), 1)
  BY DEF StringThere
<1>5. Spot(c, off, Scalar(Len(s), 4), 4)
  BY <1>2, <1>3, <1>4, SpotKept
<1>6. Spot(c, off - 4, s, al)
  BY <1>1, <1>4, SpotKept
<1>7. Spot(c, off - 4 - Len(s), Zeros(1), 1)
  BY <1>2, <1>3, <1>4, SpotKept
<1>. QED BY <1>1, <1>5, <1>6, <1>7 DEF StringThere

LEMMA ElementsFlat ==
  ASSUME NEW v, NEW w, Elements(v, w)
  PROVE  /\ v \in Seq(Seq(Octet)) /\ Len(v) \in Nat /\ w \in Sizes /\ Len(v) * w \in Nat
         /\ FlattenSeq(v) \in Seq(Octet) /\ Len(FlattenSeq(v)) = Len(v) * w
         /\ InArray(FlattenSeq(v), v, Len(v), w)
         /\ Len(v) <= Len(v) * w /\ (Len(v) * w = 0 <=> v = <<>>)
<1>1. v \in Seq(Seq(Octet)) /\ w \in Sizes /\ \A i \in 1 .. Len(v) : Len(v[i]) = w
  BY DEF Elements
<1>2. Len(v) \in Nat /\ w \in Nat /\ w >= 1
  BY <1>1, SizesAre
<1>3. FlattenSeq(v) \in Seq(Octet) /\ InArray(FlattenSeq(v), v, Len(v), w)
  BY <1>1, <1>2, FlattenSeqProperties
<1>4. Len(FlattenSeq(v)) = Len(v) * w
  BY <1>2, <1>3, Places DEF InArray
<1>5. v = <<>> <=> Len(v) = 0
  BY <1>1
<1>6. \A n \in Nat : n * w \in Nat /\ n <= n * w /\ (n * w = 0 <=> n = 0)
  BY <1>1 DEF Sizes
<1>. QED BY <1>1, <1>2, <1>3, <1>4, <1>5, <1>6

LEMMA VectorKept ==
  ASSUME NEW d \in Builder, NEW c \in Builder, Kept(d, c),
         NEW off, NEW v, NEW w, NEW al \in Sizes, VectorThere(d, off, v, w, al)
  PROVE  VectorThere(c, off, v, w, al)
<1>1. Elements(v, w)
  BY DEF VectorThere
<1>2. Len(v) \in Int /\ FlattenSeq(v) \in Seq(Octet)
  BY <1>1, ElementsFlat
<1>3. Scalar(Len(v), 4) \in Seq(Octet) /\ 4 \in Sizes
  BY <1>2, LengthType DEF Sizes
<1>4. Spot(c, off, Scalar(Len(v), 4), 4)
  BY <1>3, SpotKept DEF VectorThere
<1>5. (IF v = <<>> THEN 1 ELSE al) \in Sizes
  BY DEF Sizes
<1>6. Spot(c, off - 4, FlattenSeq(v), IF v = <<>> THEN 1 ELSE al)
  BY <1>2, <1>5, SpotKept DEF VectorThere
<1>. QED BY <1>1, <1>4, <1>6 DEF VectorThere

LEMMA ReferenceKept ==
  ASSUME NEW d \in Builder, NEW c \in Builder, Kept(d, c), c.length64 = d.length64,
         NEW off, NEW target, Reference(d, off, target)
  PROVE  Reference(c, off, target)
<1>1. off - d.length64 - target \in Int
  BY BuilderType DEF Reference
<1>2. Scalar(off - d.length64 - target, 4) \in Seq(Octet) /\ 4 \in Sizes
  BY <1>1, LengthType DEF Sizes
<1>3. Spot(c, off, Scalar(off - d.length64 - target, 4), 4)
  BY <1>2, SpotKept DEF Reference
<1>. QED BY <1>3 DEF Reference

LEMMA Referring ==
  ASSUME NEW d \in Builder, NEW target \in Int, CanReferTo(d, target)
  PROVE  Reference(PushReference(d, target), GetSize(PushReference(d, target)), target)
<1>. DEFINE c == PushReference(d, target)
<1>1. /\ Grown(d, c) /\ GetSize(d) + 4 <= GetSize(c)
      /\ Spot(c, GetSize(c), Scalar(GetSizeRelative32BitRegion(c) - target, 4), 4)
  BY PushingReference
<1>2. c \in Builder /\ c.length64 = d.length64
  BY <1>1 DEF Grown, SameRest
<1>. HIDE DEF c
<1>3. /\ GetSize(d) \in Nat /\ GetSize(c) \in Nat /\ d.length64 \in Nat
      /\ GetSizeRelative32BitRegion(c) = GetSize(c) - c.length64
      /\ GetSizeRelative32BitRegion(d) = GetSize(d) - d.length64
  BY <1>2, BuilderType
<1>4. 0 < target /\ target <= GetSize(c) - c.length64
  BY <1>1, <1>2, <1>3 DEF CanReferTo
<1>5. Reference(c, GetSize(c), target)
  BY <1>1, <1>3, <1>4 DEF Reference
<1>. QED BY <1>5 DEF c

\* al is 8 for a string whose alignment was forced before.
LEMMA CreatingString ==
  ASSUME NEW d \in Builder, NEW s \in Seq(Octet), NEW al \in {1, 8},
         al <= d.minalign_, ((GetSize(d) + (Len(s) + 1)) % al) = 0
  PROVE  /\ Grown(d, CreateString(d, s)) /\ CreateString(d, s).nested = d.nested
         /\ StringThere(CreateString(d, s), GetSize(CreateString(d, s)), s, al)
         /\ GetSize(d) + Len(s) + 5 <= GetSize(CreateString(d, s))
<1>. DEFINE n == Len(s) + 1
            p == PreAlign(d, n, 4)
            z == Pad(p, 1)
            q == PushBytes(z, s)
            c == PushElement(q, Scalar(Len(s), 4))
<1>0. 4 \in Sizes /\ 1 \in Nat /\ Len(s) \in Nat /\ n \in Nat /\ n # 0
  BY DEF Sizes
<1>1. c = CreateString(d, s)
  BY DEF CreateString
<1>2. /\ Grown(d, p) /\ p.nested = d.nested
      /\ ((GetSize(p) + n) % 4) = 0
      /\ ((GetSize(d) + n) % 4) = 0 => GetSize(p) = GetSize(d)
      /\ GetSize(d) <= GetSize(p)
  BY <1>0, PreAligning
<1>3. p \in Builder
  BY <1>2 DEF Grown
<1>4. GetSize(p) \in Nat /\ GetSize(d) \in Nat
  BY <1>3, BuilderType
<1>. HIDE DEF p
<1>5. /\ Grown(p, z) /\ z.nested = p.nested /\ GetSize(z) = GetSize(p) + 1
      /\ Spot(z, GetSize(z), Zeros(1), 1)
  BY <1>0, <1>3, Padded
<1>6. z \in Builder
  BY <1>5 DEF Grown
<1>. HIDE DEF z
<1>7. /\ Grown(z, q) /\ q.nested = z.nested /\ GetSize(q) = GetSize(z) + Len(s)
      /\ Spot(q, GetSize(q), s, 1)
  BY <1>6, Pushing
<1>8. q \in Builder
  BY <1>7 DEF Grown
<1>. HIDE DEF q
<1>9. Scalar(Len(s), 4) \in Seq(Octet) /\ Len(Scalar(Len(s), 4)) = 4
  BY <1>0, LengthType
<1>10. GetSize(q) = GetSize(p) + n
  BY <1>0, <1>4, <1>5, <1>7
<1>11. /\ Grown(q, c) /\ c.nested = q.nested
       /\ Spot(c, GetSize(c), Scalar(Len(s), 4), 4)
       /\ GetSize(c) = GetSize(q) + 4
  BY <1>0, <1>2, <1>8, <1>9, <1>10, PushingElement
<1>12. c \in Builder
  BY <1>11 DEF Grown
<1>. HIDE DEF c
<1>13. Grown(d, q) /\ Grown(z, c) /\ Grown(d, c)
  <2>1. Grown(d, z)
    BY <1>2, <1>5, GrownTransitive
  <2>2. Grown(d, q)
    BY <2>1, <1>7, GrownTransitive
  <2>3. Grown(d, c)
    BY <2>2, <1>11, GrownTransitive
  <2>4. Grown(z, c)
    BY <1>6, <1>7, <1>11, GrownTransitive
  <2>. QED BY <2>2, <2>3, <2>4
<1>14. Spot(q, GetSize(q), s, al)
  <2>1. (GetSize(q) % al) = 0
    <3>1. CASE al = 1
      BY <3>1, <1>4, <1>10, <1>0
    <3>2. CASE al = 8
      <4>1. GetSize(d) + n \in Nat /\ ((GetSize(d) + n) % 8) = 0
        BY <1>0, <1>4, <3>2
      <4>2. ((GetSize(d) + n) % 4) = 0
        <5>1. \A k \in Nat : (k % 8) = 0 => (k % 4) = 0
          OBVIOUS
        <5>. QED BY <4>1, <5>1
      <4>. QED BY <4>1, <4>2, <1>2, <1>10, <3>2
    <3>. QED BY <3>1, <3>2
  <2>2. al <= q.minalign_
    <3>1. d.minalign_ \in Nat /\ q.minalign_ \in Nat /\ d.minalign_ <= q.minalign_ /\ al \in Nat
      BY <1>8, <1>13, BuilderType, KeptSize DEF Grown
    <3>. QED BY <3>1
  <2>. QED BY <2>1, <2>2, <1>7 DEF Spot
<1>15. Spot(c, GetSize(c) - 4, s, al)
  <2>a. GetSize(q) \in Nat
    BY <1>8, BuilderType
  <2>1. GetSize(c) - 4 = GetSize(q) /\ al \in Sizes
    BY <2>a, <1>11 DEF Sizes
  <2>2. Kept(q, c)
    BY <1>11 DEF Grown
  <2>3. Spot(c, GetSize(q), s, al)
    BY <2>1, <2>2, <1>8, <1>12, <1>14, SpotKept
  <2>. QED BY <2>1, <2>3
<1>16. Spot(c, GetSize(c) - 4 - Len(s), Zeros(1), 1)
  <2>a. GetSize(z) \in Nat
    BY <1>6, BuilderType
  <2>1. GetSize(c) - 4 - Len(s) = GetSize(z) /\ 1 \in Sizes
    BY <2>a, <1>0, <1>7, <1>11 DEF Sizes
  <2>2. Zeros(1) \in Seq(Octet) /\ Kept(z, c)
    BY <1>13, ZerosType DEF Grown
  <2>3. Spot(c, GetSize(z), Zeros(1), 1)
    BY <2>1, <2>2, <1>5, <1>6, <1>12, SpotKept
  <2>. QED BY <2>1, <2>3
<1>17. GetSize(d) + Len(s) + 5 <= GetSize(c)
  BY <1>0, <1>2, <1>4, <1>10, <1>11
<1>. QED BY <1>1, <1>2, <1>5, <1>7, <1>11, <1>13, <1>15, <1>16, <1>17 DEF StringThere

LEMMA Nesting ==
  ASSUME NEW d \in Builder, NEW v \in BOOLEAN
  PROVE  /\ Grown(d, [d EXCEPT !.nested = v]) /\ [d EXCEPT !.nested = v].nested = v
         /\ [d EXCEPT !.nested = v].buf = d.buf
         /\ [d EXCEPT !.nested = v].minalign_ = d.minalign_
         /\ GetSize([d EXCEPT !.nested = v]) = GetSize(d)
<1>. DEFINE c == [d EXCEPT !.nested = v]
<1>1. c \in Builder /\ c.buf = d.buf /\ c.minalign_ = d.minalign_
  BY DEF Builder
<1>2. c.nested = v
  BY Zenon DEF Builder
<1>3. SameRest(d, c)
  BY DEF SameRest, Builder
<1>. HIDE DEF c
<1>4. Kept(d, c)
  BY <1>1, KeptSelf DEF Kept
<1>5. GetSize(c) = GetSize(d)
  BY <1>1 DEF GetSize
<1>. QED BY <1>1, <1>2, <1>3, <1>4, <1>5 DEF Grown, c

\* The vectors of scalars and of structs.
VectorOf(d, v, w, al) ==
  EndVector(PushBytes(StartVector(d, Len(v), w, al), FlattenSeq(v)), Len(v))

LEMMA SpotNested ==
  ASSUME NEW d \in Builder, NEW v \in BOOLEAN, NEW off, NEW x, NEW al, Spot(d, off, x, al)
  PROVE  Spot([d EXCEPT !.nested = v], off, x, al)
BY Nesting DEF Spot

\* With the product that StartVector takes as one number.
Started(d, n, al) == [PreAlign(PreAlign(d, n, 4), n, al) EXCEPT !.nested = TRUE]

LEMMA StartingVector ==
  ASSUME NEW d \in Builder, NEW n \in Nat, NEW al \in Sizes
  PROVE  /\ Grown(d, Started(d, n, al))
         /\ n # 0 => /\ ((GetSize(Started(d, n, al)) + n) % al) = 0
                     /\ ((GetSize(Started(d, n, al)) + n) % 4) = 0
                     /\ al <= Started(d, n, al).minalign_
         /\ ((GetSize(d) + n) % 8) = 0 => GetSize(Started(d, n, al)) = GetSize(d)
         /\ GetSize(d) <= GetSize(Started(d, n, al))
<1>. DEFINE p == PreAlign(d, n, 4)
            r == PreAlign(p, n, al)
            c == [r EXCEPT !.nested = TRUE]
<1>0. 4 \in Sizes
  BY DEF Sizes
<1>1. Started(d, n, al) = c
  BY DEF Started
<1>2. /\ Grown(d, p)
      /\ n # 0 => ((GetSize(p) + n) % 4) = 0
      /\ ((GetSize(d) + n) % 4) = 0 => GetSize(p) = GetSize(d)
      /\ GetSize(d) <= GetSize(p)
  BY <1>0, PreAligning
<1>3. p \in Builder
  BY <1>2 DEF Grown
<1>. HIDE DEF p
<1>4. /\ Grown(p, r)
      /\ n # 0 => ((GetSize(r) + n) % al) = 0 /\ al <= r.minalign_
      /\ ((GetSize(p) + n) % al) = 0 => GetSize(r) = GetSize(p)
      /\ GetSize(p) <= GetSize(r)
  BY <1>3, PreAligning
<1>5. r \in Builder
  BY <1>4 DEF Grown
<1>. HIDE DEF r
<1>6. Grown(r, c) /\ GetSize(c) = GetSize(r) /\ c.minalign_ = r.minalign_
  BY <1>5, Nesting
<1>. HIDE DEF c
<1>7. Grown(d, c)
  <2>1. Grown(d, r)
    BY <1>2, <1>4, GrownTransitive
  <2>. QED BY <2>1, <1>6, GrownTransitive
<1>8. GetSize(d) \in Nat /\ GetSize(p) \in Nat /\ GetSize(r) \in Nat
  BY <1>3, <1>5, BuilderType
<1>9. n # 0 => ((GetSize(r) + n) % 4) = 0
  <2>1. \A k \in Nat : (k % 8) = 0 => (k % 4) = 0
    OBVIOUS
  <2>2. \A k \in Nat : (k % 4) = 0 => (k % 2) = 0 /\ (k % 1) = 0
    OBVIOUS
  <2>3. GetSize(r) + n \in Nat /\ GetSize(p) + n \in Nat
    BY <1>8
  <2>4. CASE al = 8
    BY <2>1, <2>3, <2>4, <1>4
  <2>5. CASE al \in {1, 2, 4}
    BY <2>2, <2>3, <2>5, <1>2, <1>4
  <2>. QED BY <2>4, <2>5 DEF Sizes
<1>10. ((GetSize(d) + n) % 8) = 0 => GetSize(r) = GetSize(d)
  <2>1. \A k \in Nat : (k % 8) = 0 => (k % 4) = 0 /\ (k % 2) = 0 /\ (k % 1) = 0
    OBVIOUS
  <2>2. GetSize(d) + n \in Nat
    BY <1>8
  <2>3. SUFFICES ASSUME ((GetSize(d) + n) % 8) = 0 PROVE GetSize(r) = GetSize(d)
    OBVIOUS
  <2>4. ((GetSize(d) + n) % 4) = 0 /\ ((GetSize(d) + n) % al) = 0
    BY <2>1, <2>2, <2>3 DEF Sizes
  <2>5. GetSize(p) = GetSize(d)
    BY <2>4, <1>2
  <2>. QED BY <2>4, <2>5, <1>4
<1>11. GetSize(d) <= GetSize(r)
  BY <1>2, <1>4, <1>8
<1>. QED BY <1>1, <1>4, <1>6, <1>7, <1>9, <1>10, <1>11

LEMMA EndingVector ==
  ASSUME NEW d \in Builder, NEW n \in Nat
  PROVE  /\ Grown(d, EndVector(d, n)) /\ EndVector(d, n).nested = FALSE
         /\ Spot(EndVector(d, n), GetSize(EndVector(d, n)), Scalar(n, 4), 4)
         /\ (GetSize(d) % 4) = 0 => GetSize(EndVector(d, n)) = GetSize(d) + 4
         /\ GetSize(d) + 4 <= GetSize(EndVector(d, n))
<1>. DEFINE e == PushElement(d, Scalar(n, 4))
            c == [e EXCEPT !.nested = FALSE]
<1>0. 4 \in Sizes /\ n \in Int
  BY DEF Sizes
<1>1. Scalar(n, 4) \in Seq(Octet) /\ Len(Scalar(n, 4)) = 4
  BY <1>0, LengthType
<1>2. c = EndVector(d, n)
  BY DEF EndVector
<1>3. /\ Grown(d, e) /\ Spot(e, GetSize(e), Scalar(n, 4), 4)
      /\ (GetSize(d) % 4) = 0 => GetSize(e) = GetSize(d) + 4
      /\ GetSize(d) + 4 <= GetSize(e)
  BY <1>0, <1>1, PushingElement
<1>4. e \in Builder
  BY <1>3 DEF Grown
<1>. HIDE DEF e
<1>5. Grown(e, c) /\ c.nested = FALSE /\ GetSize(c) = GetSize(e)
  BY <1>4, Nesting
<1>6. Spot(c, GetSize(c), Scalar(n, 4), 4)
  BY <1>3, <1>4, <1>5, SpotNested
<1>. HIDE DEF c
<1>7. Grown(d, c)
  BY <1>3, <1>5, GrownTransitive
<1>. QED BY <1>2, <1>3, <1>5, <1>6, <1>7

LEMMA CreatingVector ==
  ASSUME NEW d \in Builder, NEW v, NEW w, Elements(v, w), NEW al \in Sizes
  PROVE  /\ Grown(d, VectorOf(d, v, w, al)) /\ VectorOf(d, v, w, al).nested = FALSE
         /\ VectorThere(VectorOf(d, v, w, al), GetSize(VectorOf(d, v, w, al)), v, w, al)
         /\ ((GetSize(d) + Len(v) * w) % 8) = 0 /\ v # <<>>
              => GetSize(VectorOf(d, v, w, al)) = GetSize(d) + Len(v) * w + 4
         /\ GetSize(d) + 4 <= GetSize(VectorOf(d, v, w, al))
<1>. DEFINE n == Len(v) * w
            r == StartVector(d, Len(v), w, al)
            q == PushBytes(r, FlattenSeq(v))
            c == EndVector(q, Len(v))
<1>1. /\ v \in Seq(Seq(Octet)) /\ Len(v) \in Nat /\ w \in Sizes /\ n \in Nat
      /\ FlattenSeq(v) \in Seq(Octet) /\ Len(FlattenSeq(v)) = n
      /\ (n = 0 <=> v = <<>>) /\ w \in Nat
  BY ElementsFlat, SizesAre
<1>2. c = VectorOf(d, v, w, al)
  BY DEF VectorOf
<1>n. r = Started(d, n, al)
  BY DEF StartVector, Started
<1>. HIDE DEF n, r
<1>3. /\ Grown(d, r)
      /\ n # 0 => /\ ((GetSize(r) + n) % al) = 0 /\ ((GetSize(r) + n) % 4) = 0
                  /\ al <= r.minalign_
      /\ ((GetSize(d) + n) % 8) = 0 => GetSize(r) = GetSize(d)
      /\ GetSize(d) <= GetSize(r)
  BY <1>1, <1>n, StartingVector
<1>4. r \in Builder
  BY <1>3 DEF Grown
<1>5. /\ Grown(r, q) /\ q.minalign_ = r.minalign_
      /\ GetSize(q) = GetSize(r) + n /\ Spot(q, GetSize(q), FlattenSeq(v), 1)
  BY <1>1, <1>4, Pushing
<1>6. q \in Builder
  BY <1>5 DEF Grown
<1>. HIDE DEF q
<1>7. /\ Grown(q, c) /\ c.nested = FALSE /\ Spot(c, GetSize(c), Scalar(Len(v), 4), 4)
      /\ (GetSize(q) % 4) = 0 => GetSize(c) = GetSize(q) + 4
      /\ GetSize(q) + 4 <= GetSize(c)
  BY <1>1, <1>6, EndingVector
<1>8. c \in Builder /\ Kept(q, c)
  BY <1>7 DEF Grown
<1>. HIDE DEF c
<1>9. Grown(d, c)
  <2>1. Grown(d, q)
    BY <1>3, <1>5, GrownTransitive
  <2>. QED BY <2>1, <1>7, GrownTransitive
<1>10. GetSize(d) \in Nat /\ GetSize(r) \in Nat /\ GetSize(q) \in Nat /\ GetSize(c) \in Nat
  BY <1>4, <1>6, <1>8, BuilderType
<1>11. Spot(c, GetSize(c) - 4, FlattenSeq(v), IF v = <<>> THEN 1 ELSE al)
  <2>1. CASE v = <<>>
    <3>1. Len(FlattenSeq(v)) = 0
      BY <2>1, <1>1
    <3>2. GetSize(c) - 4 \in Nat /\ GetSize(c) - 4 <= GetSize(c) /\ 0 <= GetSize(c) - 4
      BY <1>7, <1>10
    <3>3. Holds(c.buf, GetSize(c) - 4, FlattenSeq(v))
      BY <3>1, <3>2 DEF Holds, GetSize
    <3>4. Spot(c, GetSize(c) - 4, FlattenSeq(v), 1)
      BY <3>3, <1>8, AnySpot
    <3>. QED BY <2>1, <3>4
  <2>2. CASE v # <<>>
    <3>1. (GetSize(q) % al) = 0 /\ (GetSize(q) % 4) = 0 /\ al <= q.minalign_
      BY <2>2, <1>1, <1>3, <1>5
    <3>2. Spot(q, GetSize(q), FlattenSeq(v), al)
      BY <3>1, <1>5 DEF Spot
    <3>3. Spot(c, GetSize(q), FlattenSeq(v), al)
      BY <3>2, <1>1, <1>6, <1>8, SpotKept
    <3>4. GetSize(c) - 4 = GetSize(q)
      BY <3>1, <1>7, <1>10
    <3>. QED BY <2>2, <3>3, <3>4
  <2>. QED BY <2>1, <2>2
<1>12. VectorThere(c, GetSize(c), v, w, al)
  BY <1>7, <1>11 DEF VectorThere
<1>13. ((GetSize(d) + n) % 8) = 0 /\ v # <<>> => GetSize(c) = GetSize(d) + n + 4
  BY <1>1, <1>3, <1>5, <1>7, <1>10
<1>14. GetSize(d) + 4 <= GetSize(c)
  BY <1>1, <1>3, <1>5, <1>7, <1>10
<1>. QED BY <1>2, <1>7, <1>9, <1>12, <1>13, <1>14 DEF n

LEMMA MaxOfTwo ==
  /\ SUBSET (1 .. 2) = {{}, {1}, {2}, {1, 2}}
  /\ Max({1}) = 1 /\ Max({2}) = 2 /\ Max({1, 2}) = 2
<1>1. 1 .. 2 = {1, 2}
  OBVIOUS
<1>2. SUBSET {1, 2} = {{}, {1}, {2}, {1, 2}}
  OBVIOUS
<1>3. Max({1}) = 1
  BY DEF Max
<1>4. Max({2}) = 2
  BY DEF Max
<1>5. Max({1, 2}) = 2
  BY DEF Max
<1>. QED BY <1>1, <1>2, <1>3, <1>4, <1>5

\* The references of a vector of two offsets, the last one first.
Iteration(g, d, s) ==
  g = [t \in SUBSET (1 .. 2) |->
         IF t = {} THEN d ELSE PushReference(g[t \ {Max(t)}], s[Max(t)])]

LEMMA FoldingReferences ==
  ASSUME NEW d, NEW x, NEW y
  PROVE  CreateVectorOfOffsets(d, <<y, x>>)
           = EndVector(PushReference(PushReference(StartVector(d, 2, 4, 4), x), y), 2)
<1>. DEFINE u == <<y, x>>
            s == Reverse(u)
            e == StartVector(d, Len(u), 4, 4)
            g == CHOOSE h : Iteration(h, e, s)
            G == [t \in SUBSET (1 .. 2) |->
                   IF t = {} THEN e
                   ELSE IF t = {1} THEN PushReference(e, x)
                   ELSE IF t = {2} THEN PushReference(e, y)
                   ELSE PushReference(PushReference(e, x), y)]
<1>1. DOMAIN s = 1 .. 2 /\ s[1] = x /\ s[2] = y
  BY DEF Reverse
<1>l. Len(u) = 2
  OBVIOUS
<1>. HIDE DEF u
<1>2. CreateVectorOfOffsets(d, u) = EndVector(g[1 .. 2], Len(u))
  BY <1>1, Zenon DEF CreateVectorOfOffsets, FoldLeft, MapThenFoldSet, Iteration
<1>. HIDE DEF s, e
<1>3. /\ {1} \ {Max({1})} = {} /\ {2} \ {Max({2})} = {} /\ {1, 2} \ {Max({1, 2})} = {1}
      /\ {1} # {} /\ {2} # {} /\ {1, 2} # {} /\ {1} # {2} /\ {1, 2} # {1} /\ {1, 2} # {2}
      /\ 1 .. 2 = {1, 2}
  BY MaxOfTwo
<1>4. Iteration(G, e, s)
  <2>1. /\ G[{}] = e /\ G[{1}] = PushReference(e, x) /\ G[{2}] = PushReference(e, y)
        /\ G[{1, 2}] = PushReference(PushReference(e, x), y)
    BY MaxOfTwo, <1>3
  <2>2. \A t \in SUBSET (1 .. 2) :
          G[t] = IF t = {} THEN e ELSE PushReference(G[t \ {Max(t)}], s[Max(t)])
    <3>. DEFINE V(t) == IF t = {} THEN e ELSE PushReference(G[t \ {Max(t)}], s[Max(t)])
    <3>1. G[{}] = V({})
      BY <2>1, Zenon
    <3>2. G[{1}] = V({1})
      BY <2>1, <1>1, <1>3, MaxOfTwo, Zenon
    <3>3. G[{2}] = V({2})
      BY <2>1, <1>1, <1>3, MaxOfTwo, Zenon
    <3>4. G[{1, 2}] = V({1, 2})
      BY <2>1, <1>1, <1>3, MaxOfTwo, Zenon
    <3>5. \A t \in {{}, {1}, {2}, {1, 2}} : G[t] = V(t)
      <4>. HIDE DEF V, G
      <4>. QED BY <3>1, <3>2, <3>3, <3>4
    <3>6. \A t \in SUBSET (1 .. 2) : G[t] = V(t)
      <4>. HIDE DEF V, G
      <4>. QED BY <3>5, MaxOfTwo
    <3>. QED BY <3>6, Zenon
  <2>. QED BY <2>2, Zenon DEF Iteration
<1>5. Iteration(g, e, s)
  BY <1>4
<1>. HIDE DEF g, G
<1>6. \A t \in SUBSET (1 .. 2) :
        g[t] = IF t = {} THEN e ELSE PushReference(g[t \ {Max(t)}], s[Max(t)])
  BY <1>5, Zenon DEF Iteration
<1>7. g[{}] = e
  BY <1>6, MaxOfTwo
<1>8. g[{1}] = PushReference(e, x)
  <2>1. {1} \in SUBSET (1 .. 2)
    BY MaxOfTwo
  <2>2. g[{1}] = IF {1} = {} THEN e ELSE PushReference(g[{1} \ {Max({1})}], s[Max({1})])
    BY <1>6, <2>1, Zenon
  <2>. QED BY <2>2, <1>7, <1>1, <1>3, MaxOfTwo
<1>9. g[{1, 2}] = PushReference(PushReference(e, x), y)
  <2>1. {1, 2} \in SUBSET (1 .. 2)
    BY MaxOfTwo, <1>3
  <2>2. g[{1, 2}] = IF {1, 2} = {} THEN e
                    ELSE PushReference(g[{1, 2} \ {Max({1, 2})}], s[Max({1, 2})])
    BY <1>6, <2>1, Zenon
  <2>3. g[{1, 2}] = PushReference(g[{1}], y)
    BY <2>2, <1>1, <1>3, MaxOfTwo
  <2>. QED BY <2>3, <1>8
<1>. QED BY <1>2, <1>l, <1>3, <1>9 DEF e, u

\* The strings of a vector of two, the first one first.
WithString(acc, str) ==
  LET c == CreateString(acc.b, str) IN
  [b |-> c, offs |-> Append(acc.offs, GetSizeRelative32BitRegion(c))]

StringIteration(g, d, s) ==
  g = [t \in SUBSET (1 .. 2) |->
         IF t = {} THEN [b |-> d, offs |-> <<>>]
         ELSE WithString(g[t \ {Max(t)}], s[Max(t)])]

LEMMA FoldingStrings ==
  ASSUME NEW d, NEW x, NEW y
  PROVE  CreateVectorOfStrings(d, <<x, y>>)
           = CreateVectorOfOffsets(CreateString(CreateString(d, x), y),
               <<GetSizeRelative32BitRegion(CreateString(d, x)),
                 GetSizeRelative32BitRegion(CreateString(CreateString(d, x), y))>>)
<1>. DEFINE s == <<x, y>>
            e == [b |-> d, offs |-> <<>>]
            g == CHOOSE h : StringIteration(h, d, s)
            G == [t \in SUBSET (1 .. 2) |->
                   IF t = {} THEN e
                   ELSE IF t = {1} THEN WithString(e, x)
                   ELSE IF t = {2} THEN WithString(e, y)
                   ELSE WithString(WithString(e, x), y)]
<1>1. DOMAIN s = 1 .. 2 /\ s[1] = x /\ s[2] = y
  OBVIOUS
<1>2. CreateVectorOfStrings(d, s) = CreateVectorOfOffsets(g[1 .. 2].b, g[1 .. 2].offs)
  BY <1>1, Zenon
     DEF CreateVectorOfStrings, FoldLeft, MapThenFoldSet, StringIteration, WithString
<1>. HIDE DEF s, e
<1>3. /\ {1} \ {Max({1})} = {} /\ {2} \ {Max({2})} = {} /\ {1, 2} \ {Max({1, 2})} = {1}
      /\ {1} # {} /\ {2} # {} /\ {1, 2} # {} /\ {1} # {2} /\ {1, 2} # {1} /\ {1, 2} # {2}
      /\ 1 .. 2 = {1, 2}
  BY MaxOfTwo
<1>4. StringIteration(G, d, s)
  <2>1. /\ G[{}] = e /\ G[{1}] = WithString(e, x) /\ G[{2}] = WithString(e, y)
        /\ G[{1, 2}] = WithString(WithString(e, x), y)
    BY MaxOfTwo, <1>3
  <2>2. \A t \in SUBSET (1 .. 2) :
          G[t] = IF t = {} THEN e ELSE WithString(G[t \ {Max(t)}], s[Max(t)])
    <3>. DEFINE V(t) == IF t = {} THEN e ELSE WithString(G[t \ {Max(t)}], s[Max(t)])
    <3>1. G[{}] = V({})
      BY <2>1, Zenon
    <3>2. G[{1}] = V({1})
      BY <2>1, <1>1, <1>3, MaxOfTwo, Zenon
    <3>3. G[{2}] = V({2})
      BY <2>1, <1>1, <1>3, MaxOfTwo, Zenon
    <3>4. G[{1, 2}] = V({1, 2})
      BY <2>1, <1>1, <1>3, MaxOfTwo, Zenon
    <3>5. \A t \in {{}, {1}, {2}, {1, 2}} : G[t] = V(t)
      <4>. HIDE DEF V, G
      <4>. QED BY <3>1, <3>2, <3>3, <3>4
    <3>6. \A t \in SUBSET (1 .. 2) : G[t] = V(t)
      <4>. HIDE DEF V, G
      <4>. QED BY <3>5, MaxOfTwo
    <3>. QED BY <3>6, Zenon
  <2>. QED BY <2>2, Zenon DEF StringIteration, e
<1>5. StringIteration(g, d, s)
  BY <1>4
<1>. HIDE DEF g, G
<1>6. \A t \in SUBSET (1 .. 2) :
        g[t] = IF t = {} THEN e ELSE WithString(g[t \ {Max(t)}], s[Max(t)])
  BY <1>5, Zenon DEF StringIteration, e
<1>7. g[{}] = e
  BY <1>6, MaxOfTwo
<1>8. g[{1}] = WithString(e, x)
  <2>1. {1} \in SUBSET (1 .. 2)
    BY MaxOfTwo
  <2>2. g[{1}] = IF {1} = {} THEN e ELSE WithString(g[{1} \ {Max({1})}], s[Max({1})])
    BY <1>6, <2>1, Zenon
  <2>. QED BY <2>2, <1>7, <1>1, <1>3, MaxOfTwo
<1>9. g[{1, 2}] = WithString(WithString(e, x), y)
  <2>1. {1, 2} \in SUBSET (1 .. 2)
    BY MaxOfTwo, <1>3
  <2>2. g[{1, 2}] = IF {1, 2} = {} THEN e
                    ELSE WithString(g[{1, 2} \ {Max({1, 2})}], s[Max({1, 2})])
    BY <1>6, <2>1, Zenon
  <2>3. g[{1, 2}] = WithString(g[{1}], y)
    BY <2>2, <1>1, <1>3, MaxOfTwo
  <2>. QED BY <2>3, <1>8
<1>10. WithString(e, x) = [b |-> CreateString(d, x),
                           offs |-> <<GetSizeRelative32BitRegion(CreateString(d, x))>>]
  BY DEF WithString, e
<1>11. /\ g[1 .. 2].b = CreateString(CreateString(d, x), y)
       /\ g[1 .. 2].offs = <<GetSizeRelative32BitRegion(CreateString(d, x)),
                 GetSizeRelative32BitRegion(CreateString(CreateString(d, x), y))>>
  BY <1>9, <1>10, <1>3 DEF WithString
<1>. QED BY <1>2, <1>11 DEF s
-----------------------------------------------------------------------------
(* What else is created at once. *)

\* A vector of two offsets.
OffsetsThere(d, off, x, y) ==
  /\ off \in Nat
  /\ Spot(d, off, Scalar(2, 4), 4)
  /\ Reference(d, off - 4, x) /\ Reference(d, off - 8, y)

LEMMA OffsetsKept ==
  ASSUME NEW d \in Builder, NEW c \in Builder, Kept(d, c), c.length64 = d.length64,
         NEW off, NEW x, NEW y, OffsetsThere(d, off, x, y)
  PROVE  OffsetsThere(c, off, x, y)
<1>1. Scalar(2, 4) \in Seq(Octet) /\ 4 \in Sizes
  BY LengthType DEF Sizes
<1>2. Spot(c, off, Scalar(2, 4), 4)
  BY <1>1, SpotKept DEF OffsetsThere
<1>3. Reference(d, off - 4, x) /\ Reference(d, off - 8, y)
  BY DEF OffsetsThere
<1>4. Reference(c, off - 4, x)
  BY <1>3, ReferenceKept
<1>5. Reference(c, off - 8, y)
  BY <1>3, ReferenceKept
<1>. QED BY <1>2, <1>4, <1>5 DEF OffsetsThere

LEMMA CanStillRefer ==
  ASSUME NEW d \in Builder, NEW c, Grown(d, c), NEW x \in Int, CanReferTo(d, x)
  PROVE  CanReferTo(c, x)
<1>1. c \in Builder /\ Kept(d, c) /\ c.length64 = d.length64
  BY DEF Grown, SameRest
<1>2. /\ GetSize(d) \in Nat /\ GetSize(c) \in Nat /\ GetSize(d) <= GetSize(c)
      /\ d.length64 \in Nat
      /\ GetSizeRelative32BitRegion(d) = GetSize(d) - d.length64
      /\ GetSizeRelative32BitRegion(c) = GetSize(c) - c.length64
  BY <1>1, BuilderType, KeptSize
<1>. QED BY <1>1, <1>2 DEF CanReferTo

LEMMA CreatingOffsets ==
  ASSUME NEW d \in Builder, NEW x \in Int, NEW y \in Int, CanReferTo(d, x), CanReferTo(d, y)
  PROVE  /\ Grown(d, CreateVectorOfOffsets(d, <<x, y>>))
         /\ CreateVectorOfOffsets(d, <<x, y>>).nested = FALSE
         /\ OffsetsThere(CreateVectorOfOffsets(d, <<x, y>>),
                         GetSize(CreateVectorOfOffsets(d, <<x, y>>)), x, y)
         /\ GetSize(d) + 12 <= GetSize(CreateVectorOfOffsets(d, <<x, y>>))
<1>. DEFINE r == Started(d, 8, 4)
            p == PushReference(r, y)
            q == PushReference(p, x)
            c == EndVector(q, 2)
<1>0. 4 \in Sizes /\ 2 * 4 = 8
  BY DEF Sizes
<1>1. c = CreateVectorOfOffsets(d, <<x, y>>)
  <2>1. StartVector(d, 2, 4, 4) = r
    BY <1>0 DEF StartVector, Started
  <2>. QED BY <2>1, FoldingReferences
<1>2. Grown(d, r) /\ ((GetSize(r) + 8) % 4) = 0 /\ GetSize(d) <= GetSize(r)
  BY <1>0, StartingVector
<1>3. r \in Builder
  BY <1>2 DEF Grown
<1>. HIDE DEF r
<1>4. GetSize(r) \in Nat /\ (GetSize(r) % 4) = 0
  <2>1. GetSize(r) \in Nat
    BY <1>3, BuilderType
  <2>2. \A k \in Nat : ((k + 8) % 4) = 0 => (k % 4) = 0
    OBVIOUS
  <2>. QED BY <2>1, <2>2, <1>2
<1>5. CanReferTo(r, y) /\ CanReferTo(r, x)
  BY <1>2, CanStillRefer
<1>6. Grown(r, p) /\ GetSize(p) = GetSize(r) + 4 /\ Reference(p, GetSize(p), y)
  BY <1>3, <1>4, <1>5, PushingReference, Referring
<1>7. p \in Builder
  BY <1>6 DEF Grown
<1>. HIDE DEF p
<1>8. CanReferTo(p, x)
  BY <1>3, <1>5, <1>6, CanStillRefer
<1>9. (GetSize(p) % 4) = 0
  BY <1>4, <1>6
<1>10. Grown(p, q) /\ GetSize(q) = GetSize(p) + 4 /\ Reference(q, GetSize(q), x)
  BY <1>7, <1>8, <1>9, PushingReference, Referring
<1>11. q \in Builder
  BY <1>10 DEF Grown
<1>. HIDE DEF q
<1>12. (GetSize(q) % 4) = 0
  BY <1>4, <1>6, <1>10
<1>13. /\ Grown(q, c) /\ c.nested = FALSE /\ Spot(c, GetSize(c), Scalar(2, 4), 4)
       /\ GetSize(c) = GetSize(q) + 4
  BY <1>11, <1>12, EndingVector
<1>14. c \in Builder
  BY <1>13 DEF Grown
<1>. HIDE DEF c
<1>15. Grown(p, c) /\ Grown(d, c)
  <2>1. Grown(p, c)
    BY <1>7, <1>10, <1>13, GrownTransitive
  <2>2. Grown(d, p)
    BY <1>2, <1>6, GrownTransitive
  <2>3. Grown(d, c)
    BY <2>1, <2>2, GrownTransitive
  <2>. QED BY <2>1, <2>3
<1>16. GetSize(q) = GetSize(c) - 4 /\ GetSize(p) = GetSize(c) - 8 /\ GetSize(c) \in Nat
       /\ GetSize(d) + 12 <= GetSize(c)
  <2>1. GetSize(d) \in Nat
    BY BuilderType
  <2>. QED BY <2>1, <1>2, <1>4, <1>6, <1>10, <1>13
<1>17. Reference(c, GetSize(q), x)
  BY <1>10, <1>11, <1>13, <1>14, ReferenceKept DEF Grown, SameRest
<1>18. Reference(c, GetSize(p), y)
  BY <1>6, <1>7, <1>14, <1>15, ReferenceKept DEF Grown, SameRest
<1>19. OffsetsThere(c, GetSize(c), x, y)
  BY <1>13, <1>16, <1>17, <1>18 DEF OffsetsThere
<1>. QED BY <1>1, <1>13, <1>15, <1>16, <1>19

\* A vector of two strings.
StringsThere(d, off, x, y) ==
  \E p, q \in Int :
    /\ OffsetsThere(d, off, p, q)
    /\ StringThere(d, p + d.length64, x, 1) /\ StringThere(d, q + d.length64, y, 1)

LEMMA StringsKept ==
  ASSUME NEW d \in Builder, NEW c \in Builder, Kept(d, c), c.length64 = d.length64,
         NEW off, NEW x, NEW y, StringsThere(d, off, x, y)
  PROVE  StringsThere(c, off, x, y)
<1>1. PICK p, q \in Int :
        /\ OffsetsThere(d, off, p, q)
        /\ StringThere(d, p + d.length64, x, 1) /\ StringThere(d, q + d.length64, y, 1)
  BY DEF StringsThere
<1>2. 1 \in Sizes
  BY DEF Sizes
<1>3. OffsetsThere(c, off, p, q)
  BY <1>1, OffsetsKept
<1>4. StringThere(c, p + d.length64, x, 1)
  BY <1>1, <1>2, StringKept
<1>5. StringThere(c, q + d.length64, y, 1)
  BY <1>1, <1>2, StringKept
<1>. QED BY <1>3, <1>4, <1>5 DEF StringsThere

LEMMA CreatingPlainString ==
  ASSUME NEW d \in Builder, NEW s \in Seq(Octet)
  PROVE  /\ Grown(d, CreateString(d, s)) /\ CreateString(d, s).nested = d.nested
         /\ StringThere(CreateString(d, s), GetSize(CreateString(d, s)), s, 1)
         /\ GetSize(d) + Len(s) + 5 <= GetSize(CreateString(d, s))
<1>1. d.minalign_ \in Sizes /\ GetSize(d) \in Nat /\ Len(s) \in Nat
  BY BuilderType
<1>2. 1 <= d.minalign_ /\ GetSize(d) + (Len(s) + 1) \in Nat
  BY <1>1 DEF Sizes
<1>3. ((GetSize(d) + (Len(s) + 1)) % 1) = 0
  <2>1. \A n \in Nat : (n % 1) = 0
    OBVIOUS
  <2>. QED BY <2>1, <1>2
<1>. QED BY <1>2, <1>3, CreatingString

LEMMA CreatingStrings ==
  ASSUME NEW d \in Builder, d.length64 <= GetSize(d),
         NEW x \in Seq(Octet), NEW y \in Seq(Octet)
  PROVE  /\ Grown(d, CreateVectorOfStrings(d, <<x, y>>))
         /\ CreateVectorOfStrings(d, <<x, y>>).nested = FALSE
         /\ StringsThere(CreateVectorOfStrings(d, <<x, y>>),
                         GetSize(CreateVectorOfStrings(d, <<x, y>>)), x, y)
         /\ GetSize(d) + 12 <= GetSize(CreateVectorOfStrings(d, <<x, y>>))
<1>. DEFINE e == CreateString(d, x)
            f == CreateString(e, y)
            p == GetSizeRelative32BitRegion(e)
            q == GetSizeRelative32BitRegion(f)
            c == CreateVectorOfOffsets(f, <<p, q>>)
<1>1. c = CreateVectorOfStrings(d, <<x, y>>)
  BY FoldingStrings
<1>2. /\ Grown(d, e) /\ StringThere(e, GetSize(e), x, 1)
      /\ GetSize(d) + Len(x) + 5 <= GetSize(e)
  BY CreatingPlainString
<1>3. e \in Builder
  BY <1>2 DEF Grown
<1>. HIDE DEF e
<1>4. /\ Grown(e, f) /\ StringThere(f, GetSize(f), y, 1)
      /\ GetSize(e) + Len(y) + 5 <= GetSize(f)
  BY <1>3, CreatingPlainString
<1>5. f \in Builder
  BY <1>4 DEF Grown
<1>. HIDE DEF f
<1>6. /\ GetSize(d) \in Nat /\ GetSize(e) \in Nat /\ GetSize(f) \in Nat /\ d.length64 \in Nat
      /\ Len(x) \in Nat /\ Len(y) \in Nat
  BY <1>3, <1>5, BuilderType
<1>7. e.length64 = d.length64 /\ f.length64 = d.length64
  BY <1>2, <1>4 DEF Grown, SameRest
<1>8. /\ p = GetSize(e) - d.length64 /\ q = GetSize(f) - d.length64
      /\ p \in Int /\ q \in Int /\ 0 < p /\ p <= q /\ 0 < q
  BY <1>2, <1>4, <1>6, <1>7 DEF GetSizeRelative32BitRegion
<1>9. CanReferTo(f, p) /\ CanReferTo(f, q)
  BY <1>8 DEF CanReferTo
<1>. HIDE DEF p, q
<1>10. /\ Grown(f, c) /\ c.nested = FALSE /\ OffsetsThere(c, GetSize(c), p, q)
       /\ GetSize(f) + 12 <= GetSize(c)
  BY <1>5, <1>8, <1>9, CreatingOffsets
<1>11. c \in Builder /\ c.length64 = f.length64
  BY <1>10 DEF Grown, SameRest
<1>. HIDE DEF c
<1>12. Grown(e, c) /\ Grown(d, c)
  <2>1. Grown(e, c)
    BY <1>3, <1>4, <1>10, GrownTransitive
  <2>2. Grown(d, c)
    BY <2>1, <1>2, GrownTransitive
  <2>. QED BY <2>1, <2>2
<1>13. p + c.length64 = GetSize(e) /\ q + c.length64 = GetSize(f) /\ 1 \in Sizes
  BY <1>6, <1>7, <1>8, <1>11 DEF Sizes
<1>14. StringThere(c, p + c.length64, x, 1)
  BY <1>2, <1>3, <1>11, <1>12, <1>13, StringKept DEF Grown
<1>15. StringThere(c, q + c.length64, y, 1)
  BY <1>4, <1>5, <1>10, <1>11, <1>13, StringKept DEF Grown
<1>16. StringsThere(c, GetSize(c), x, y)
  BY <1>8, <1>10, <1>14, <1>15 DEF StringsThere
<1>17. GetSize(d) + 12 <= GetSize(c)
  <2>1. GetSize(c) \in Nat
    BY <1>11, BuilderType
  <2>. QED BY <2>1, <1>2, <1>4, <1>6, <1>10
<1>. QED BY <1>1, <1>10, <1>12, <1>16, <1>17

\* A struct, or bytes of which only the alignment is known.
LEMMA CreatingStruct ==
  ASSUME NEW d \in Builder, NEW x \in Seq(Octet), NEW al \in Sizes, (Len(x) % al) = 0
  PROVE  /\ Grown(d, CreateStruct(d, x, al)) /\ CreateStruct(d, x, al).nested = d.nested
         /\ Spot(CreateStruct(d, x, al), GetSize(CreateStruct(d, x, al)), x, al)
         /\ GetSize(d) + Len(x) <= GetSize(CreateStruct(d, x, al))
<1>. DEFINE a == Align(d, al)
            c == PushBytes(a, x)
<1>1. /\ Grown(d, a) /\ a.nested = d.nested /\ (GetSize(a) % al) = 0 /\ al <= a.minalign_
  BY Aligning
<1>2. CreateStruct(d, x, al) = c
  BY DEF CreateStruct
<1>3. a \in Builder /\ Kept(d, a)
  BY <1>1 DEF Grown
<1>4. GetSize(d) \in Nat /\ GetSize(a) \in Nat /\ GetSize(d) <= GetSize(a) /\ Len(x) \in Nat
  BY <1>3, BuilderType, KeptSize
<1>. HIDE DEF a
<1>5. /\ Grown(a, c) /\ c.nested = a.nested /\ c.minalign_ = a.minalign_
      /\ GetSize(c) = GetSize(a) + Len(x) /\ Spot(c, GetSize(c), x, 1)
  BY <1>3, Pushing
<1>. HIDE DEF c
<1>6. Grown(d, c)
  BY <1>1, <1>5, GrownTransitive
<1>7. (GetSize(c) % al) = 0
  <2>1. \A m, n \in Nat : (m % al) = 0 /\ (n % al) = 0 => ((m + n) % al) = 0
    BY DEF Sizes
  <2>. QED BY <2>1, <1>1, <1>4, <1>5
<1>8. Spot(c, GetSize(c), x, al)
  BY <1>1, <1>5, <1>7 DEF Spot
<1>. QED BY <1>1, <1>2, <1>4, <1>5, <1>6, <1>8
-----------------------------------------------------------------------------
(* The 64-bit region. *)

\* What is in the buffer stays there, though the 32-bit region may start anew.
Rebuilt(d, c) ==
  /\ c \in Builder /\ Kept(d, c)
  /\ c.vtables = d.vtables /\ c.fields = d.fields /\ c.max_voffset_ = d.max_voffset_
  /\ c.finished = d.finished /\ c.is64 = d.is64
  /\ c.force_defaults_ = d.force_defaults_ /\ c.dedup_vtables_ = d.dedup_vtables_

LEMMA GrownIsRebuilt ==
  ASSUME NEW d, NEW c, Grown(d, c)
  PROVE  Rebuilt(d, c) /\ c.length64 = d.length64
BY DEF Grown, SameRest, Rebuilt

LEMMA RebuiltTransitive ==
  ASSUME NEW d \in Builder, NEW c, NEW e, Rebuilt(d, c), Rebuilt(c, e)
  PROVE  Rebuilt(d, e)
<1>1. c \in Builder /\ e \in Builder /\ Kept(d, c) /\ Kept(c, e)
  BY DEF Rebuilt
<1>2. Kept(d, e)
  BY <1>1, KeptTransitive
<1>. QED BY <1>1, <1>2 DEF Rebuilt

LEMMA Regions ==
  ASSUME NEW d \in Builder
  PROVE  /\ Rebuilt(d, Region64(d)) /\ Region64(d).nested = d.nested
         /\ Region64(d).length64 = GetSize(Region64(d))
         /\ Region64(d).buf = d.buf /\ GetSize(Region64(d)) = GetSize(d)
<1>. DEFINE c == Region64(d)
<1>1. GetSize(d) \in Nat
  BY BuilderType
<1>2. c = [d EXCEPT !.length64 = GetSize(d)]
  BY DEF Region64
<1>3. /\ c \in Builder /\ c.buf = d.buf /\ c.minalign_ = d.minalign_
      /\ c.length64 = GetSize(d) /\ c.nested = d.nested
  BY <1>1, <1>2 DEF Builder
<1>4. /\ c.vtables = d.vtables /\ c.fields = d.fields /\ c.max_voffset_ = d.max_voffset_
      /\ c.finished = d.finished /\ c.is64 = d.is64
      /\ c.force_defaults_ = d.force_defaults_ /\ c.dedup_vtables_ = d.dedup_vtables_
  BY <1>2 DEF Builder
<1>. HIDE DEF c
<1>5. Kept(d, c)
  BY <1>3, KeptSelf DEF Kept
<1>6. GetSize(c) = GetSize(d)
  BY <1>3 DEF GetSize
<1>. QED BY <1>3, <1>4, <1>5, <1>6 DEF c, Rebuilt

LEMMA CreatingString64 ==
  ASSUME NEW d \in Builder, NEW s \in Seq(Octet)
  PROVE  /\ Rebuilt(d, CreateString64(d, s)) /\ CreateString64(d, s).nested = d.nested
         /\ CreateString64(d, s).length64 = GetSize(CreateString64(d, s))
         /\ StringThere(CreateString64(d, s), GetSize(CreateString64(d, s)), s, 1)
<1>. DEFINE e == CreateString(d, s)
            c == Region64(e)
<1>1. c = CreateString64(d, s)
  BY DEF CreateString64
<1>2. Grown(d, e) /\ e.nested = d.nested /\ StringThere(e, GetSize(e), s, 1)
  BY CreatingPlainString
<1>3. e \in Builder /\ Rebuilt(d, e)
  BY <1>2, GrownIsRebuilt DEF Grown
<1>. HIDE DEF e
<1>4. /\ Rebuilt(e, c) /\ c.nested = e.nested /\ c.length64 = GetSize(c)
      /\ GetSize(c) = GetSize(e)
  BY <1>3, Regions
<1>5. c \in Builder /\ Kept(e, c) /\ 1 \in Sizes
  BY <1>4 DEF Rebuilt, Sizes
<1>. HIDE DEF c
<1>6. Rebuilt(d, c)
  BY <1>3, <1>4, RebuiltTransitive
<1>7. StringThere(c, GetSize(c), s, 1)
  BY <1>2, <1>3, <1>4, <1>5, StringKept
<1>. QED BY <1>1, <1>2, <1>4, <1>6, <1>7

Vector64There(d, off, v, w) ==
  /\ Elements(v, w)
  /\ Spot(d, off, Scalar(Len(v), 8), 8)
  /\ Spot(d, off - 8, FlattenSeq(v), IF v = <<>> THEN 1 ELSE w)

LEMMA Vector64Kept ==
  ASSUME NEW d \in Builder, NEW c \in Builder, Kept(d, c),
         NEW off, NEW v, NEW w, Vector64There(d, off, v, w)
  PROVE  Vector64There(c, off, v, w)
<1>1. Elements(v, w)
  BY DEF Vector64There
<1>2. Len(v) \in Int /\ FlattenSeq(v) \in Seq(Octet) /\ w \in Sizes
  BY <1>1, ElementsFlat
<1>3. Scalar(Len(v), 8) \in Seq(Octet) /\ 8 \in Sizes
  BY <1>2, ScalarType DEF Sizes
<1>4. Spot(c, off, Scalar(Len(v), 8), 8)
  BY <1>3, SpotKept DEF Vector64There
<1>5. (IF v = <<>> THEN 1 ELSE w) \in Sizes
  BY <1>2 DEF Sizes
<1>6. Spot(c, off - 8, FlattenSeq(v), IF v = <<>> THEN 1 ELSE w)
  BY <1>2, <1>5, SpotKept DEF Vector64There
<1>. QED BY <1>1, <1>4, <1>6 DEF Vector64There

Started64(d, n, w) == PreAlign(PreAlign(d, n, 8), n, w)

LEMMA StartingVector64 ==
  ASSUME NEW d \in Builder, NEW n \in Nat, NEW w \in Sizes
  PROVE  /\ Grown(d, Started64(d, n, w)) /\ Started64(d, n, w).nested = d.nested
         /\ n # 0 => /\ ((GetSize(Started64(d, n, w)) + n) % w) = 0
                     /\ ((GetSize(Started64(d, n, w)) + n) % 8) = 0
                     /\ w <= Started64(d, n, w).minalign_
<1>. DEFINE p == PreAlign(d, n, 8)
            r == PreAlign(p, n, w)
<1>0. 8 \in Sizes
  BY DEF Sizes
<1>1. Started64(d, n, w) = r
  BY DEF Started64
<1>2. /\ Grown(d, p) /\ p.nested = d.nested
      /\ n # 0 => ((GetSize(p) + n) % 8) = 0
  BY <1>0, PreAligning
<1>3. p \in Builder
  BY <1>2 DEF Grown
<1>. HIDE DEF p
<1>4. /\ Grown(p, r) /\ r.nested = p.nested
      /\ n # 0 => ((GetSize(r) + n) % w) = 0 /\ w <= r.minalign_
      /\ ((GetSize(p) + n) % w) = 0 => GetSize(r) = GetSize(p)
  BY <1>3, PreAligning
<1>. HIDE DEF r
<1>5. Grown(d, r)
  BY <1>2, <1>4, GrownTransitive
<1>6. n # 0 => ((GetSize(r) + n) % 8) = 0
  <2>1. \A k \in Nat : (k % 8) = 0 => (k % 4) = 0 /\ (k % 2) = 0 /\ (k % 1) = 0
    OBVIOUS
  <2>2. GetSize(p) + n \in Nat
    BY <1>3, BuilderType
  <2>3. ((GetSize(p) + n) % 8) = 0 => ((GetSize(p) + n) % w) = 0
    BY <2>1, <2>2 DEF Sizes
  <2>. QED BY <2>3, <1>2, <1>4
<1>. QED BY <1>1, <1>2, <1>4, <1>5, <1>6

LEMMA CreatingVector64 ==
  ASSUME NEW d \in Builder, NEW v, NEW w, Elements(v, w)
  PROVE  /\ Rebuilt(d, CreateVector64(d, v, w)) /\ CreateVector64(d, v, w).nested = d.nested
         /\ CreateVector64(d, v, w).length64 = GetSize(CreateVector64(d, v, w))
         /\ Vector64There(CreateVector64(d, v, w), GetSize(CreateVector64(d, v, w)), v, w)
<1>. DEFINE n == Len(v) * w
            r == PreAlign(PreAlign(d, n, 8), n, w)
            q == PushBytes(r, FlattenSeq(v))
            e == PushElement(q, Scalar(Len(v), 8))
            c == Region64(e)
<1>1. /\ Len(v) \in Nat /\ w \in Sizes /\ n \in Nat
      /\ FlattenSeq(v) \in Seq(Octet) /\ Len(FlattenSeq(v)) = n
      /\ (n = 0 <=> v = <<>>) /\ Len(v) \in Int
  BY ElementsFlat
<1>2. c = CreateVector64(d, v, w)
  BY DEF CreateVector64
<1>n. r = Started64(d, n, w)
  BY DEF Started64
<1>. HIDE DEF n, r
<1>3. /\ Grown(d, r) /\ r.nested = d.nested
      /\ n # 0 => /\ ((GetSize(r) + n) % w) = 0 /\ ((GetSize(r) + n) % 8) = 0
                  /\ w <= r.minalign_
  BY <1>1, <1>n, StartingVector64
<1>4. r \in Builder
  BY <1>3 DEF Grown
<1>5. /\ Grown(r, q) /\ q.minalign_ = r.minalign_ /\ q.nested = r.nested
      /\ GetSize(q) = GetSize(r) + n /\ Spot(q, GetSize(q), FlattenSeq(v), 1)
  BY <1>1, <1>4, Pushing
<1>6. q \in Builder
  BY <1>5 DEF Grown
<1>. HIDE DEF q
<1>7. Scalar(Len(v), 8) \in Seq(Octet) /\ Len(Scalar(Len(v), 8)) = 8 /\ 8 \in Sizes
  BY <1>1, ScalarType DEF Sizes
<1>8. /\ Grown(q, e) /\ e.nested = q.nested /\ Spot(e, GetSize(e), Scalar(Len(v), 8), 8)
      /\ (GetSize(q) % 8) = 0 => GetSize(e) = GetSize(q) + 8
      /\ GetSize(q) + 8 <= GetSize(e)
  BY <1>6, <1>7, PushingElement
<1>9. e \in Builder /\ Kept(q, e)
  BY <1>8 DEF Grown
<1>. HIDE DEF e
<1>10. /\ Rebuilt(e, c) /\ c.nested = e.nested /\ c.length64 = GetSize(c)
       /\ GetSize(c) = GetSize(e)
  BY <1>9, Regions
<1>11. c \in Builder /\ Kept(e, c)
  BY <1>10 DEF Rebuilt
<1>. HIDE DEF c
<1>12. Rebuilt(d, c)
  <2>1. Grown(d, q)
    BY <1>3, <1>5, GrownTransitive
  <2>2. Grown(d, e)
    BY <2>1, <1>8, GrownTransitive
  <2>. QED BY <2>2, <1>10, GrownIsRebuilt, RebuiltTransitive
<1>13. GetSize(q) \in Nat /\ GetSize(e) \in Nat
  BY <1>6, <1>9, BuilderType
<1>14. Spot(e, GetSize(e) - 8, FlattenSeq(v), IF v = <<>> THEN 1 ELSE w)
  <2>1. CASE v = <<>>
    <3>1. Len(FlattenSeq(v)) = 0
      BY <2>1, <1>1
    <3>2. GetSize(e) - 8 \in Nat /\ GetSize(e) - 8 <= GetSize(e) /\ 0 <= GetSize(e) - 8
      BY <1>8, <1>13
    <3>3. Holds(e.buf, GetSize(e) - 8, FlattenSeq(v))
      BY <3>1, <3>2 DEF Holds, GetSize
    <3>4. Spot(e, GetSize(e) - 8, FlattenSeq(v), 1)
      BY <3>3, <1>9, AnySpot
    <3>. QED BY <2>1, <3>4
  <2>2. CASE v # <<>>
    <3>1. (GetSize(q) % w) = 0 /\ (GetSize(q) % 8) = 0 /\ w <= q.minalign_
      BY <2>2, <1>1, <1>3, <1>5
    <3>2. Spot(q, GetSize(q), FlattenSeq(v), w)
      BY <3>1, <1>5 DEF Spot
    <3>3. Spot(e, GetSize(q), FlattenSeq(v), w)
      BY <3>2, <1>1, <1>6, <1>9, SpotKept
    <3>4. GetSize(e) - 8 = GetSize(q)
      BY <3>1, <1>8, <1>13
    <3>. QED BY <2>2, <3>3, <3>4
  <2>. QED BY <2>1, <2>2
<1>15. Vector64There(e, GetSize(e), v, w)
  BY <1>8, <1>14 DEF Vector64There
<1>16. Vector64There(c, GetSize(c), v, w)
  BY <1>9, <1>10, <1>11, <1>15, Vector64Kept
<1>. QED BY <1>2, <1>3, <1>5, <1>8, <1>10, <1>12, <1>16

-----------------------------------------------------------------------------
(* Tables. *)

LEMMA Writing ==
  ASSUME NEW buf \in Seq(Octet), NEW off \in Nat, NEW x \in Seq(Octet),
         Len(x) <= off, off <= Len(buf)
  PROVE  /\ WriteScalar(buf, Len(buf) - off, x) \in Seq(Octet)
         /\ Len(WriteScalar(buf, Len(buf) - off, x)) = Len(buf)
         /\ Holds(WriteScalar(buf, Len(buf) - off, x), off, x)
         /\ \A i \in 1 .. Len(buf) :
              (i <= Len(buf) - off \/ i > Len(buf) - off + Len(x))
                => WriteScalar(buf, Len(buf) - off, x)[i] = buf[i]
<1>. DEFINE a == Len(buf) - off
            u == WriteScalar(buf, a, x)
<1>1. Len(buf) \in Nat /\ Len(x) \in Nat /\ a \in Nat /\ a + Len(x) <= Len(buf)
  OBVIOUS
<1>2. u = [i \in 1 .. Len(buf) |->
             IF a < i /\ i <= a + Len(x) THEN x[i - a] ELSE buf[i]]
  BY DEF WriteScalar
<1>a. a = Len(buf) - off
  OBVIOUS
<1>. HIDE DEF a, u
<1>3. ASSUME NEW i \in 1 .. Len(buf)
      PROVE  (IF a < i /\ i <= a + Len(x) THEN x[i - a] ELSE buf[i]) \in Octet
  <2>1. a < i /\ i <= a + Len(x) => i - a \in 1 .. Len(x)
    BY <1>1
  <2>. QED BY <2>1
<1>4. u \in Seq(Octet) /\ Len(u) = Len(buf)
  BY <1>1, <1>2, <1>3
<1>5. \A i \in 1 .. Len(buf) :
        u[i] = IF a < i /\ i <= a + Len(x) THEN x[i - a] ELSE buf[i]
  BY <1>2
<1>6. ASSUME NEW i \in 1 .. Len(x) PROVE u[Len(u) - off + i] = x[i]
  <2>1. /\ Len(u) - off + i = a + i /\ a + i \in 1 .. Len(buf) /\ (a + i) - a = i
        /\ a < a + i /\ a + i <= a + Len(x)
    BY <1>1, <1>4, <1>a
  <2>. QED BY <2>1, <1>5
<1>7. Holds(u, off, x)
  BY <1>4, <1>6 DEF Holds
<1>8. \A i \in 1 .. Len(buf) : (i <= a \/ i > a + Len(x)) => u[i] = buf[i]
  BY <1>1, <1>5
<1>. QED BY <1>4, <1>7, <1>8 DEF a, u

LEMMA WritingKeeps ==
  ASSUME NEW buf \in Seq(Octet), NEW off \in Nat, NEW x \in Seq(Octet),
         Len(x) <= off, off <= Len(buf)
  PROVE  /\ \A s \in Seq(Octet) : Behind(s, buf) /\ Len(s) <= off - Len(x)
              => Behind(s, WriteScalar(buf, Len(buf) - off, x))
         /\ \A o \in Nat, s \in Seq(Octet) : Holds(buf, o, s) /\ off <= o - Len(s)
              => Holds(WriteScalar(buf, Len(buf) - off, x), o, s)
<1>. DEFINE u == WriteScalar(buf, Len(buf) - off, x)
<1>1. /\ u \in Seq(Octet) /\ Len(u) = Len(buf)
      /\ \A i \in 1 .. Len(buf) :
           (i <= Len(buf) - off \/ i > Len(buf) - off + Len(x)) => u[i] = buf[i]
  BY Writing
<1>2. Len(buf) \in Nat /\ Len(x) \in Nat
  OBVIOUS
<1>. HIDE DEF u
<1>3. ASSUME NEW s \in Seq(Octet), Behind(s, buf), Len(s) <= off - Len(x)
      PROVE  Behind(s, u)
  <2>1. Len(s) \in Nat /\ Len(s) <= Len(buf)
    BY <1>3 DEF Behind
  <2>2. ASSUME NEW i \in 1 .. Len(s) PROVE u[Len(u) - Len(s) + i] = s[i]
    <3>1. /\ Len(u) - Len(s) + i = Len(buf) - Len(s) + i
          /\ Len(buf) - Len(s) + i \in 1 .. Len(buf)
          /\ Len(buf) - Len(s) + i > Len(buf) - off + Len(x)
      BY <1>1, <1>2, <1>3, <2>1
    <3>2. buf[Len(buf) - Len(s) + i] = s[i]
      BY <1>3 DEF Behind
    <3>. QED BY <3>1, <3>2, <1>1
  <2>. QED BY <1>1, <2>1, <2>2 DEF Behind
<1>4. ASSUME NEW o \in Nat, NEW s \in Seq(Octet), Holds(buf, o, s), off <= o - Len(s)
      PROVE  Holds(u, o, s)
  <2>1. Len(s) \in Nat /\ Len(s) <= o /\ o <= Len(buf)
    BY <1>4 DEF Holds
  <2>2. ASSUME NEW i \in 1 .. Len(s) PROVE u[Len(u) - o + i] = s[i]
    <3>1. /\ Len(u) - o + i = Len(buf) - o + i
          /\ Len(buf) - o + i \in 1 .. Len(buf)
          /\ Len(buf) - o + i <= Len(buf) - off
      BY <1>1, <1>2, <1>4, <2>1
    <3>2. buf[Len(buf) - o + i] = s[i]
      BY <1>4 DEF Holds
    <3>. QED BY <3>1, <3>2, <1>1
  <2>. QED BY <1>1, <2>1, <2>2 DEF Holds
<1>. QED BY <1>3, <1>4 DEF u

\* A vtable: the place of the field with the offset id in the table at the offset at.
Slot(y, at, id) ==
  LET here == {i \in DOMAIN y : y[i].id = id} IN
  IF here = {} THEN 0 ELSE at - y[CHOOSE i \in here : TRUE].off

IsVTableSize(n) == n \in Nat /\ 4 <= n /\ n <= 65534 /\ (n % 2) = 0
IsFieldOffset(id) == id \in Nat /\ 4 <= id /\ id <= 65532 /\ (id % 2) = 0

LEMMA HalfOf ==
  ASSUME NEW n \in Nat, (n % 2) = 0
  PROVE  n \div 2 \in Nat /\ 2 * (n \div 2) = n
OBVIOUS

\* The bytes of a vtable.
IsVTable(u, size, tableSize, y, at) ==
  /\ u \in Seq(Octet) /\ Len(u) = size
  /\ \A i \in 1 .. 2 : u[i] = Byte(size, i - 1)
  /\ \A id \in 4 .. size - 2 : (id % 2) = 0 =>
       \A j \in 1 .. 2 : u[id + j] = Byte(Slot(y, at, id), j - 1)

LEMMA SlotType ==
  ASSUME NEW y \in Seq(FieldLoc), NEW at \in Int, NEW id
  PROVE  Slot(y, at, id) \in Int
<1>. DEFINE here == {i \in DOMAIN y : y[i].id = id}
<1>1. here # {} => (CHOOSE i \in here : TRUE) \in DOMAIN y
  OBVIOUS
<1>2. ASSUME NEW i \in DOMAIN y PROVE y[i].off \in Int
  <2>1. y[i] \in FieldLoc
    OBVIOUS
  <2>. QED BY <2>1 DEF FieldLoc
<1>. QED BY <1>1, <1>2 DEF Slot

LEMMA VTableIs ==
  ASSUME NEW size, IsVTableSize(size), NEW tableSize \in Int,
         NEW y \in Seq(FieldLoc), NEW at \in Int
  PROVE  IsVTable(VTable(size, tableSize, y, at), size, tableSize, y, at)
<1>. DEFINE m == (size - 4) \div 2
            seqs == [k \in 1 .. m |-> Scalar(Slot(y, at, 2 * k + 2), 2)]
            h == Scalar(size, 2) \o Scalar(tableSize, 2)
            f == FlattenSeq(seqs)
            u == h \o f
<1>1. /\ size \in Int /\ size \in Nat /\ size >= 4 /\ m \in Nat /\ 2 * m = size - 4
      /\ 2 \in Sizes
  <2>1. size \in Nat /\ size >= 4 /\ (size % 2) = 0
    BY DEF IsVTableSize
  <2>2. size - 4 \in Nat /\ ((size - 4) % 2) = 0
    BY <2>1
  <2>3. m \in Nat /\ 2 * m = size - 4
    BY <2>2, HalfOf
  <2>. QED BY <2>1, <2>3 DEF Sizes
<1>2. u = VTable(size, tableSize, y, at)
  BY DEF VTable, Slot
<1>. HIDE DEF m
<1>3. /\ \A k \in 1 .. m : /\ Scalar(Slot(y, at, 2 * k + 2), 2) \in Seq(Octet)
                           /\ Len(Scalar(Slot(y, at, 2 * k + 2), 2)) = 2
                           /\ \A j \in 1 .. 2 : Scalar(Slot(y, at, 2 * k + 2), 2)[j]
                                                  = Byte(Slot(y, at, 2 * k + 2), j - 1)
  BY <1>1, SlotType, ScalarType
<1>4. /\ seqs \in Seq(Seq(Octet)) /\ Len(seqs) = m
      /\ \A k \in 1 .. m : seqs[k] = Scalar(Slot(y, at, 2 * k + 2), 2)
  BY <1>1, <1>3
<1>. HIDE DEF seqs
<1>5. f \in Seq(Octet) /\ InArray(f, seqs, m, 2)
  BY <1>1, <1>3, <1>4, FlattenSeqProperties
<1>6. /\ Len(f) = size - 4
      /\ \A k \in 1 .. m, j \in 1 .. 2 :
           f[2 * k - 2 + j] = Byte(Slot(y, at, 2 * k + 2), j - 1)
  <2>1. /\ Len(f) = Place(m + 1, 2)
        /\ \A k \in 1 .. m, j \in 1 .. 2 : f[Place(k, 2) + j] = seqs[k][j]
    BY <1>5 DEF InArray
  <2>2. Place(m + 1, 2) = 2 * m /\ \A k \in 1 .. m : Place(k, 2) = 2 * k - 2
    BY <1>1 DEF Place
  <2>3. ASSUME NEW k \in 1 .. m, NEW j \in 1 .. 2
        PROVE  f[2 * k - 2 + j] = Byte(Slot(y, at, 2 * k + 2), j - 1)
    <3>1. f[Place(k, 2) + j] = seqs[k][j]
      BY <2>1
    <3>2. seqs[k] = Scalar(Slot(y, at, 2 * k + 2), 2)
      BY <1>4
    <3>3. Scalar(Slot(y, at, 2 * k + 2), 2)[j] = Byte(Slot(y, at, 2 * k + 2), j - 1)
      BY <1>3
    <3>. QED BY <3>1, <3>2, <3>3, <2>2
  <2>4. Len(f) = size - 4
    BY <2>1, <2>2, <1>1
  <2>. QED BY <2>3, <2>4
<1>. HIDE DEF f
<1>7. /\ h \in Seq(Octet) /\ Len(h) = 4 /\ \A i \in 1 .. 2 : h[i] = Byte(size, i - 1)
  <2>1. /\ Scalar(size, 2) \in Seq(Octet) /\ Len(Scalar(size, 2)) = 2
        /\ \A i \in 1 .. 2 : Scalar(size, 2)[i] = Byte(size, i - 1)
    BY <1>1, ScalarType
  <2>2. Scalar(tableSize, 2) \in Seq(Octet) /\ Len(Scalar(tableSize, 2)) = 2
    BY <1>1, ScalarType
  <2>3. h \in Seq(Octet) /\ Joined(h, Scalar(size, 2), Scalar(tableSize, 2))
    BY <2>1, <2>2, Concatenation
  <2>. HIDE DEF h
  <2>4. /\ Len(h) = Len(Scalar(size, 2)) + Len(Scalar(tableSize, 2))
        /\ \A k \in 1 .. Len(Scalar(size, 2)) : h[k] = Scalar(size, 2)[k]
    BY <2>3 DEF Joined
  <2>. QED BY <2>1, <2>2, <2>3, <2>4
<1>. HIDE DEF h
<1>8. u \in Seq(Octet) /\ Joined(u, h, f)
  BY <1>5, <1>7, Concatenation
<1>. HIDE DEF u
<1>9. Len(u) = size
  BY <1>1, <1>6, <1>7, <1>8 DEF Joined
<1>10. \A i \in 1 .. 2 : u[i] = Byte(size, i - 1)
  BY <1>7, <1>8 DEF Joined
<1>11. ASSUME NEW id \in 4 .. size - 2, (id % 2) = 0, NEW j \in 1 .. 2
       PROVE  u[id + j] = Byte(Slot(y, at, id), j - 1)
  <2>1. PICK k \in 1 .. m : 2 * k + 2 = id
    <3>1. id - 2 \in Nat /\ ((id - 2) % 2) = 0 /\ id >= 4 /\ id <= size - 2
      BY <1>1, <1>11
    <3>2. (id - 2) \div 2 \in Nat /\ 2 * ((id - 2) \div 2) = id - 2
      BY <3>1, HalfOf
    <3>3. (id - 2) \div 2 \in 1 .. m /\ 2 * ((id - 2) \div 2) + 2 = id
      BY <3>1, <3>2, <1>1
    <3>. QED BY <3>3
  <2>2. id + j = Len(h) + (2 * k - 2 + j) /\ 2 * k - 2 + j \in 1 .. Len(f)
    BY <2>1, <1>1, <1>6, <1>7
  <2>3. u[id + j] = f[2 * k - 2 + j]
    BY <2>2, <1>8 DEF Joined
  <2>. QED BY <2>1, <2>3, <1>6
<1>. QED BY <1>2, <1>8, <1>9, <1>10, <1>11 DEF IsVTable

\* The bytes of the vtable at a distance from the end, as it counts itself.
Whole(v) == v \in Seq(Octet) /\ 4 <= Len(v) /\ v[1] + 256 * v[2] = Len(v)
VBytes(d, o) == VTableAt(d, GetSize(d) - o)
VTableThere(d, o) == o \in Int /\ Whole(VBytes(d, o)) /\ Spot(d, o, VBytes(d, o), 2)

LEMMA BytesThere ==
  ASSUME NEW d \in Builder, NEW off, NEW x \in Seq(Octet), NEW al \in Sizes,
         Spot(d, off, x, al)
  PROVE  Bytes(d.buf, GetSize(d) - off, Len(x)) = x
<1>. DEFINE a == GetSize(d) - off
            y == SubSeq(d.buf, a + 1, a + Len(x))
<1>1. /\ d.buf \in Seq(Octet) /\ GetSize(d) \in Nat /\ GetSize(d) = Len(d.buf)
      /\ Len(x) \in Nat
  BY BuilderType
<1>2. /\ off \in Nat /\ Len(x) <= off /\ off <= GetSize(d)
      /\ BytesAt(d.buf, a, x)
  BY SpotBytes
<1>3. a \in Nat /\ a + Len(x) <= Len(d.buf)
  BY <1>1, <1>2
<1>4. Bytes(d.buf, GetSize(d) - off, Len(x)) = y
  BY DEF Bytes
<1>5. /\ y \in Seq(Octet) /\ Len(y) = Len(x)
      /\ \A i \in 1 .. Len(x) : y[i] = d.buf[a + i]
  <2>. DEFINE m == a + 1
              n == a + Len(x)
  <2>1. /\ m \in Int /\ n \in Int /\ n - m + 1 = Len(x) /\ m >= 1 /\ n <= Len(d.buf)
        /\ (m <= n \/ Len(x) = 0)
    BY <1>1, <1>3
  <2>2. \A i \in m .. n : d.buf[i] \in Octet
    BY <2>1, <1>1
  <2>3. \A i \in 1 .. Len(x) : m + i - 1 = a + i
    BY <1>3
  <2>4. y = SubSeq(d.buf, m, n)
    OBVIOUS
  <2>. HIDE DEF m, n, y
  <2>5. /\ y \in Seq(Octet) /\ Len(y) = (IF m <= n THEN n - m + 1 ELSE 0)
        /\ \A i \in 1 .. n - m + 1 : y[i] = d.buf[m + i - 1]
    BY <2>1, <2>2, <2>4, SubSeqProperties
  <2>. QED BY <2>1, <2>3, <2>5, <1>1
<1>. HIDE DEF y
<1>6. \A i \in 1 .. Len(x) : y[i] = x[i]
  BY <1>2, <1>5 DEF BytesAt
<1>7. y = x
  BY <1>5, <1>6, SeqEqual
<1>. QED BY <1>4, <1>7

LEMMA VTableFound ==
  ASSUME NEW d \in Builder, NEW o, NEW v, Whole(v), Spot(d, o, v, 2)
  PROVE  VBytes(d, o) = v /\ VTableThere(d, o)
<1>. DEFINE a == GetSize(d) - o
<1>1. v \in Seq(Octet) /\ Len(v) \in Nat /\ 4 <= Len(v) /\ v[1] + 256 * v[2] = Len(v)
      /\ 2 \in Sizes
  BY DEF Whole, Sizes
<1>2. o \in Nat /\ BytesAt(d.buf, a, v)
  BY <1>1, SpotBytes
<1>3. d.buf[a + 1] = v[1] /\ d.buf[a + 2] = v[2]
  BY <1>1, <1>2 DEF BytesAt
<1>4. voffset(d.buf, a) = Len(v)
  BY <1>1, <1>3 DEF voffset
<1>5. VBytes(d, o) = v
  BY <1>1, <1>4, BytesThere DEF VBytes, VTableAt
<1>. QED BY <1>2, <1>5 DEF VTableThere

LEMMA VTableKept ==
  ASSUME NEW d \in Builder, NEW c \in Builder, Kept(d, c), NEW o, VTableThere(d, o)
  PROVE  VTableThere(c, o) /\ VBytes(c, o) = VBytes(d, o)
<1>. DEFINE v == VBytes(d, o)
<1>1. Whole(v) /\ Spot(d, o, v, 2)
  BY DEF VTableThere
<1>2. v \in Seq(Octet) /\ 2 \in Sizes
  BY <1>1 DEF Whole, Sizes
<1>. HIDE DEF v
<1>3. Spot(c, o, v, 2)
  BY <1>1, <1>2, SpotKept
<1>4. VBytes(c, o) = v /\ VTableThere(c, o)
  BY <1>1, <1>3, VTableFound
<1>. QED BY <1>4 DEF v

LEMMA SameVTableIs ==
  ASSUME NEW d \in Builder, NEW o, VTableThere(d, o), NEW u, Whole(u),
         Holds(d.buf, GetSize(d), u)
  PROVE  SameVTable(d, o) <=> VBytes(d, o) = u
<1>. DEFINE a == GetSize(d) - o
            v == VBytes(d, o)
<1>1. Whole(v) /\ Spot(d, o, v, 2) /\ 2 \in Sizes
  BY DEF VTableThere, Sizes
<1>2. /\ v \in Seq(Octet) /\ Len(v) \in Nat /\ 4 <= Len(v) /\ v[1] + 256 * v[2] = Len(v)
      /\ u \in Seq(Octet) /\ Len(u) \in Nat /\ 4 <= Len(u) /\ u[1] + 256 * u[2] = Len(u)
  BY <1>1 DEF Whole
<1>. HIDE DEF v
<1>s. o \in Nat /\ o <= GetSize(d) /\ BytesAt(d.buf, a, v)
  BY <1>1, <1>2, SpotBytes
<1>3. /\ o \in Nat /\ o <= GetSize(d) /\ \A i \in 1 .. Len(v) : d.buf[a + i] = v[i]
      /\ GetSize(d) \in Nat /\ GetSize(d) = Len(d.buf)
  BY <1>s, BuilderType DEF BytesAt
<1>4. \A i \in 1 .. Len(u) : d.buf[i] = u[i]
  <2>1. \A i \in 1 .. Len(u) : d.buf[Len(d.buf) - GetSize(d) + i] = u[i]
    BY DEF Holds
  <2>2. \A i \in 1 .. Len(u) : Len(d.buf) - GetSize(d) + i = i
    BY <1>3
  <2>. QED BY <2>1, <2>2
<1>5. voffset(d.buf, a) = Len(v)
  <2>1. d.buf[a + 1] = v[1] /\ d.buf[a + 2] = v[2]
    BY <1>2, <1>3
  <2>. QED BY <2>1, <1>2 DEF voffset
<1>6. voffset(d.buf, 0) = Len(u)
  <2>1. d.buf[0 + 1] = u[1] /\ d.buf[0 + 2] = u[2]
    BY <1>2, <1>4
  <2>. QED BY <2>1, <1>2 DEF voffset
<1>7. SameVTable(d, o) <=> Len(v) = Len(u) /\ \A i \in 1 .. Len(v) : d.buf[a + i] = d.buf[i]
  BY <1>5, <1>6 DEF SameVTable, data_at
<1>8. SameVTable(d, o) <=> Len(v) = Len(u) /\ \A i \in 1 .. Len(v) : v[i] = u[i]
  BY <1>3, <1>4, <1>7
<1>9. v = u <=> Len(v) = Len(u) /\ \A i \in 1 .. Len(v) : v[i] = u[i]
  BY <1>2, SeqEqual
<1>. QED BY <1>8, <1>9 DEF v

LEMMA VTableWhole ==
  ASSUME NEW u, NEW size, IsVTableSize(size), NEW n, NEW y, NEW at,
         IsVTable(u, size, n, y, at)
  PROVE  Whole(u)
<1>1. u \in Seq(Octet) /\ Len(u) = size /\ \A i \in 1 .. 2 : u[i] = Byte(size, i - 1)
  BY DEF IsVTable
<1>2. size \in Nat /\ 4 <= size /\ size <= 65534
  BY DEF IsVTableSize
<1>3. IsShort(size) /\ size \in Int
  BY <1>2 DEF IsShort
<1>4. u[1] = Byte(size, 0) /\ u[2] = Byte(size, 1)
  <2>1. u[1] = Byte(size, 1 - 1) /\ u[2] = Byte(size, 2 - 1)
    BY <1>1
  <2>. QED BY <2>1
<1>5. u[1] = size % 256 /\ u[2] = (size \div 256) % 256
  BY <1>3, <1>4, ByteIs
<1>6. size % 256 \in Int /\ (size \div 256) % 256 \in Int
  BY <1>3
<1>7. u[1] + 256 * u[2] = size
  BY <1>3, <1>5, <1>6, TwoBytes
<1>. QED BY <1>1, <1>2, <1>7 DEF Whole

\* The parts of EndTable.
Placed(d) == PushElement(d, Zeros(4))
TableAt(d) == GetSizeRelative32BitRegion(Placed(d))
VTableSize(d) == IF d.max_voffset_ + 2 > 4 THEN d.max_voffset_ + 2 ELSE 4
NewVTable(d, s) == VTable(VTableSize(d), TableAt(d) - s, d.fields, TableAt(d))
Written(d, s) == ClearOffsets(PushBytes(Placed(d), NewVTable(d, s)))
Same(d, s) ==
  IF d.dedup_vtables_ THEN {i \in DOMAIN d.vtables : SameVTable(Written(d, s), d.vtables[i])}
  ELSE {}
Closed(k, o, v) ==
  [k EXCEPT !.buf = WriteScalar(@, data_at(k, o), Scalar(v, 4)), !.nested = FALSE]

LEMMA MinIs ==
  ASSUME NEW S, S # {}, \A j \in S : j \in Nat
  PROVE  Min(S) \in S
<1>1. PICK x \in S : \A y \in S : <<y, x>> \notin OpToRel(<, Nat)
  <2>1. S \subseteq Nat
    OBVIOUS
  <2>. QED BY <2>1, NatLessThanWellFounded, WFMin
<1>2. OpToRel(<, Nat) = {ss \in Nat \X Nat : ss[1] < ss[2]}
  BY DEF OpToRel
<1>3. \A y \in S : <<y, x>> \notin {ss \in Nat \X Nat : ss[1] < ss[2]}
  BY <1>1, <1>2, Zenon
<1>4. ASSUME NEW y \in S PROVE x <= y
  <2>1. x \in Nat /\ y \in Nat
    OBVIOUS
  <2>2. <<y, x>> \in Nat \X Nat /\ <<y, x>>[1] = y /\ <<y, x>>[2] = x
    BY <2>1
  <2>3. ~ (y < x)
    BY <1>3, <2>2
  <2>. QED BY <2>1, <2>3
<1>5. \E z \in S : \A y \in S : z <= y
  BY <1>4
<1>. QED BY <1>5, Zenon DEF Min

LEMMA EndTableIs ==
  ASSUME NEW d, NEW s
  PROVE  EndTable(d, s) =
           IF Same(d, s) = {}
           THEN Closed(Remembered(Written(d, s)), TableAt(d) + d.length64,
                       GetSizeRelative32BitRegion(Written(d, s)) - TableAt(d))
           ELSE Closed(PopBytes(Written(d, s),
                                GetSizeRelative32BitRegion(Written(d, s)) - TableAt(d)),
                       TableAt(d) + d.length64, d.vtables[Min(Same(d, s))] - TableAt(d))
<1>1. CASE Same(d, s) = {}
  BY <1>1, Zenon
     DEF EndTable, Same, Written, NewVTable, VTableSize, TableAt, Placed, Closed
<1>2. CASE Same(d, s) # {}
  BY <1>2, Zenon
     DEF EndTable, Same, Written, NewVTable, VTableSize, TableAt, Placed, Closed
<1>. QED BY <1>1, <1>2

\* All but the buffer, its alignment, nested, and what the scratch pad holds.
SameOptions(d, c) ==
  /\ c.finished = d.finished /\ c.length64 = d.length64 /\ c.is64 = d.is64
  /\ c.force_defaults_ = d.force_defaults_ /\ c.dedup_vtables_ = d.dedup_vtables_

\* The offset to the vtable is written where room was left for it.
FrontKept(k, c, o) ==
  \A p \in Nat, y \in Seq(Octet) : Holds(k.buf, p, y) /\ o <= p - Len(y)
    => Holds(c.buf, p, y)

OffsetWritten(d, k, c, o, v) ==
  /\ c \in Builder /\ Kept(d, c) /\ c.nested = FALSE /\ SameOptions(k, c)
  /\ c.vtables = k.vtables /\ c.fields = k.fields /\ c.max_voffset_ = k.max_voffset_
  /\ c.minalign_ = k.minalign_ /\ GetSize(c) = GetSize(k)
  /\ Holds(c.buf, o, Scalar(v, 4)) /\ FrontKept(k, c, o)

LEMMA Closing ==
  ASSUME NEW d \in Builder, NEW k \in Builder, Kept(d, k), NEW o \in Nat,
         GetSize(d) <= o - 4, o <= GetSize(k), NEW v \in Int
  PROVE  OffsetWritten(d, k, Closed(k, o, v), o, v)
<1>. DEFINE x == Scalar(v, 4)
            w == WriteScalar(k.buf, Len(k.buf) - o, x)
            c == Closed(k, o, v)
<1>1. x \in Seq(Octet) /\ Len(x) = 4
  BY LengthType
<1>2. /\ k.buf \in Seq(Octet) /\ GetSize(k) = Len(k.buf) /\ GetSize(k) \in Nat
      /\ d.buf \in Seq(Octet) /\ GetSize(d) = Len(d.buf) /\ GetSize(d) \in Nat
      /\ d.minalign_ <= k.minalign_ /\ Behind(d.buf, k.buf)
  BY BuilderType, KeptSize DEF Kept
<1>3. c = [k EXCEPT !.buf = w, !.nested = FALSE]
  BY <1>2 DEF Closed, data_at
<1>. HIDE DEF x
<1>4. Len(x) <= o /\ o <= Len(k.buf)
  BY <1>1, <1>2
<1>5. w \in Seq(Octet) /\ Len(w) = Len(k.buf) /\ Holds(w, o, x)
  BY <1>1, <1>2, <1>4, Writing
<1>6. /\ \A s \in Seq(Octet) : Behind(s, k.buf) /\ Len(s) <= o - Len(x) => Behind(s, w)
      /\ \A p \in Nat, s \in Seq(Octet) : Holds(k.buf, p, s) /\ o <= p - Len(s)
           => Holds(w, p, s)
  BY <1>1, <1>2, <1>4, WritingKeeps
<1>. HIDE DEF w
<1>7. c \in Builder /\ c.buf = w /\ c.minalign_ = k.minalign_
  BY <1>3, <1>5 DEF Builder
<1>8. c.nested = FALSE
  BY <1>3, Zenon DEF Builder
<1>9. /\ c.vtables = k.vtables /\ c.fields = k.fields /\ c.max_voffset_ = k.max_voffset_
      /\ SameOptions(k, c)
  BY <1>3 DEF Builder, SameOptions
<1>. HIDE DEF c
<1>10. Len(d.buf) <= o - Len(x)
  BY <1>1, <1>2
<1>11. Behind(d.buf, w)
  BY <1>2, <1>6, <1>10
<1>12. Kept(d, c)
  BY <1>2, <1>7, <1>11 DEF Kept
<1>13. GetSize(c) = GetSize(k)
  BY <1>2, <1>5, <1>7 DEF GetSize
<1>14. FrontKept(k, c, o)
  <2>1. ASSUME NEW p \in Nat, NEW y \in Seq(Octet), Holds(k.buf, p, y), o <= p - Len(y)
        PROVE  Holds(c.buf, p, y)
    BY <2>1, <1>6, <1>7
  <2>. QED BY <2>1 DEF FrontKept
<1>. QED BY <1>5, <1>6, <1>7, <1>8, <1>9, <1>12, <1>13, <1>14 DEF c, x, OffsetWritten

LEMMA Placing ==
  ASSUME NEW d \in Builder
  PROVE  /\ Placed(d) \in Builder /\ Kept(d, Placed(d)) /\ SameOptions(d, Placed(d))
         /\ Placed(d).vtables = d.vtables
         /\ 4 <= Placed(d).minalign_ /\ (GetSize(Placed(d)) % 4) = 0
         /\ TableAt(d) \in Int /\ TableAt(d) + d.length64 = GetSize(Placed(d))
         /\ GetSize(d) + 4 <= GetSize(Placed(d)) /\ GetSize(Placed(d)) \in Nat
<1>. DEFINE p == Placed(d)
<1>1. Zeros(4) \in Seq(Octet) /\ Len(Zeros(4)) = 4 /\ 4 \in Sizes
  BY ZerosType DEF Sizes
<1>2. /\ Grown(d, p) /\ Spot(p, GetSize(p), Zeros(4), 4)
      /\ GetSize(d) + 4 <= GetSize(p)
  BY <1>1, PushingElement DEF Placed
<1>. HIDE DEF p
<1>3. /\ p \in Builder /\ Kept(d, p) /\ SameOptions(d, p) /\ p.length64 = d.length64
      /\ p.vtables = d.vtables
  BY <1>2 DEF Grown, SameRest, SameOptions
<1>4. 4 <= p.minalign_ /\ (GetSize(p) % 4) = 0
  BY <1>2 DEF Spot
<1>5. /\ GetSize(p) \in Nat /\ d.length64 \in Nat
      /\ GetSizeRelative32BitRegion(p) = GetSize(p) - p.length64
  BY <1>3, BuilderType
<1>6. TableAt(d) \in Int /\ TableAt(d) + d.length64 = GetSize(p)
  BY <1>3, <1>5 DEF TableAt, p
<1>. QED BY <1>2, <1>3, <1>4, <1>5, <1>6 DEF p

LEMMA ClearingOffsets ==
  ASSUME NEW d \in Builder
  PROVE  /\ ClearOffsets(d) \in Builder /\ ClearOffsets(d).buf = d.buf
         /\ ClearOffsets(d).minalign_ = d.minalign_ /\ ClearOffsets(d).nested = d.nested
         /\ ClearOffsets(d).fields = <<>> /\ ClearOffsets(d).max_voffset_ = 0
         /\ ClearOffsets(d).vtables = d.vtables /\ SameOptions(d, ClearOffsets(d))
<1>. DEFINE e == [d EXCEPT !.fields = <<>>]
            c == [e EXCEPT !.max_voffset_ = 0]
<1>1. c = ClearOffsets(d)
  BY DEF ClearOffsets
<1>2. <<>> \in Seq(FieldLoc)
  OBVIOUS
<1>3. e \in Builder /\ e.fields = <<>>
  BY <1>2 DEF Builder
<1>4. /\ e.buf = d.buf /\ e.minalign_ = d.minalign_ /\ e.nested = d.nested
      /\ e.vtables = d.vtables /\ SameOptions(d, e)
  BY DEF Builder, SameOptions
<1>. HIDE DEF e
<1>5. c \in Builder /\ c.max_voffset_ = 0
  BY <1>3 DEF Builder
<1>6. /\ c.buf = e.buf /\ c.minalign_ = e.minalign_ /\ c.nested = e.nested
      /\ c.vtables = e.vtables /\ c.fields = e.fields /\ SameOptions(e, c)
  BY <1>3 DEF Builder, SameOptions
<1>. HIDE DEF c
<1>7. SameOptions(d, c)
  BY <1>4, <1>6 DEF SameOptions
<1>. QED BY <1>1, <1>3, <1>4, <1>5, <1>6, <1>7

LEMMA WritingVTable ==
  ASSUME NEW d \in Builder, NEW s \in Int, IsVTableSize(VTableSize(d))
  PROVE  /\ Written(d, s) \in Builder /\ Kept(Placed(d), Written(d, s))
         /\ SameOptions(d, Written(d, s)) /\ Written(d, s).vtables = d.vtables
         /\ Written(d, s).fields = <<>> /\ Written(d, s).max_voffset_ = 0
         /\ Spot(Written(d, s), GetSize(Written(d, s)), NewVTable(d, s), 2)
         /\ GetSize(Written(d, s)) = GetSize(Placed(d)) + Len(NewVTable(d, s))
         /\ IsVTable(NewVTable(d, s), VTableSize(d), TableAt(d) - s, d.fields, TableAt(d))
<1>. DEFINE p == Placed(d)
            u == NewVTable(d, s)
            q == PushBytes(p, u)
            w == Written(d, s)
<1>1. /\ p \in Builder /\ SameOptions(d, p) /\ p.vtables = d.vtables
      /\ 4 <= p.minalign_ /\ (GetSize(p) % 4) = 0 /\ TableAt(d) \in Int
      /\ GetSize(p) \in Nat
  BY Placing
<1>2. d.fields \in Seq(FieldLoc) /\ TableAt(d) - s \in Int
  BY <1>1 DEF Builder
<1>3. IsVTable(u, VTableSize(d), TableAt(d) - s, d.fields, TableAt(d))
  BY <1>1, <1>2, VTableIs DEF NewVTable
<1>4. /\ u \in Seq(Octet) /\ Len(u) = VTableSize(d)
      /\ Len(u) \in Nat /\ (Len(u) % 2) = 0
  BY <1>3 DEF IsVTable, IsVTableSize
<1>5. w = ClearOffsets(q)
  BY DEF Written
<1>. HIDE DEF p, u
<1>6. /\ Grown(p, q) /\ q.minalign_ = p.minalign_
      /\ GetSize(q) = GetSize(p) + Len(u) /\ Spot(q, GetSize(q), u, 1)
  BY <1>1, <1>4, Pushing
<1>7. q \in Builder /\ Kept(p, q) /\ SameRest(p, q)
  BY <1>6 DEF Grown
<1>. HIDE DEF q
<1>8. /\ w \in Builder /\ w.buf = q.buf /\ w.minalign_ = q.minalign_
      /\ w.fields = <<>> /\ w.max_voffset_ = 0 /\ w.vtables = q.vtables
      /\ SameOptions(q, w)
  BY <1>5, <1>7, ClearingOffsets
<1>. HIDE DEF w
<1>10. SameOptions(d, w) /\ w.vtables = d.vtables
  BY <1>1, <1>7, <1>8 DEF SameOptions, SameRest
<1>11. Kept(p, w)
  BY <1>7, <1>8 DEF Kept
<1>12. GetSize(w) = GetSize(q)
  BY <1>8 DEF GetSize
<1>13. (GetSize(q) % 2) = 0 /\ 2 <= w.minalign_
  <2>1. \A m, n \in Nat : (m % 4) = 0 /\ (n % 2) = 0 => ((m + n) % 2) = 0
    OBVIOUS
  <2>2. (GetSize(q) % 2) = 0
    BY <2>1, <1>1, <1>4, <1>6
  <2>3. w.minalign_ \in Nat /\ w.minalign_ = p.minalign_
    BY <1>6, <1>8, BuilderType
  <2>. QED BY <2>2, <2>3, <1>1
<1>14. Spot(w, GetSize(w), u, 2)
  BY <1>6, <1>8, <1>12, <1>13 DEF Spot
<1>. QED BY <1>3, <1>6, <1>8, <1>10, <1>11, <1>12, <1>14 DEF p, u, w

\* What EndTable leaves: a table at an offset v to a vtable, and v remembered.
EndedTable(d, s, c, v) ==
  /\ c \in Builder /\ Kept(d, c) /\ c.nested = FALSE
  /\ SameOptions(d, c) /\ c.fields = <<>> /\ c.max_voffset_ = 0
  /\ v \in Int
  /\ Spot(c, TableAt(d) + d.length64, Scalar(v - TableAt(d), 4), 4)
  /\ VTableThere(c, v + d.length64)
  /\ IsVTable(VBytes(c, v + d.length64), VTableSize(d), TableAt(d) - s, d.fields, TableAt(d))

LEMMA EndingNewLayout ==
  ASSUME NEW d \in Builder, NEW s \in Int, IsVTableSize(VTableSize(d)), Same(d, s) = {}
  PROVE  \E v : /\ EndedTable(d, s, EndTable(d, s), v)
                /\ EndTable(d, s).vtables = Append(d.vtables, v)
                /\ VBytes(EndTable(d, s), v + d.length64) = NewVTable(d, s)
<1>. DEFINE p == Placed(d)
            w == Written(d, s)
            u == NewVTable(d, s)
            at == TableAt(d)
            v == GetSizeRelative32BitRegion(w)
            k == Remembered(w)
            o == at + d.length64
            z == v - at
            c == Closed(k, o, z)
<1>1. EndTable(d, s) = c
  BY EndTableIs
<1>2. /\ p \in Builder /\ Kept(d, p) /\ SameOptions(d, p)
      /\ 4 <= p.minalign_ /\ (GetSize(p) % 4) = 0 /\ at \in Int /\ o = GetSize(p)
      /\ GetSize(d) + 4 <= GetSize(p) /\ GetSize(p) \in Nat
  BY Placing
<1>3. /\ w \in Builder /\ Kept(p, w) /\ SameOptions(d, w) /\ w.vtables = d.vtables
      /\ w.fields = <<>> /\ w.max_voffset_ = 0
      /\ Spot(w, GetSize(w), u, 2) /\ GetSize(w) = GetSize(p) + Len(u)
      /\ IsVTable(u, VTableSize(d), at - s, d.fields, at)
  BY WritingVTable
<1>4. Whole(u)
  BY <1>3, VTableWhole
<1>5. u \in Seq(Octet) /\ Len(u) \in Nat
  BY <1>4 DEF Whole
<1>6. k = [w EXCEPT !.vtables = Append(w.vtables, v)]
  BY DEF Remembered
<1>. HIDE DEF p, w, u, at, k, o
<1>7. /\ v \in Int /\ v = GetSize(w) - w.length64 /\ GetSize(w) \in Nat
      /\ w.length64 = d.length64 /\ d.length64 \in Nat
  BY <1>3, BuilderType DEF SameOptions
<1>. HIDE DEF v, z
<1>8. /\ k \in Builder /\ k.buf = w.buf /\ k.minalign_ = w.minalign_
      /\ k.vtables = Append(d.vtables, v) /\ k.fields = <<>> /\ k.max_voffset_ = 0
  <2>1. Append(w.vtables, v) \in Seq(Int)
    BY <1>3, <1>7 DEF Builder
  <2>. QED BY <2>1, <1>3, <1>6 DEF Builder
<1>9. SameOptions(d, k)
  BY <1>3, <1>6 DEF SameOptions, Builder
<1>10. GetSize(k) = GetSize(w)
  BY <1>8 DEF GetSize
<1>11. Kept(p, k)
  BY <1>3, <1>8 DEF Kept
<1>12. Kept(d, k)
  BY <1>2, <1>8, <1>11, KeptTransitive
<1>13. o \in Nat /\ GetSize(d) <= o - 4 /\ o <= GetSize(k) /\ z \in Int
  <2>1. GetSize(d) \in Nat
    BY BuilderType
  <2>. QED BY <2>1, <1>2, <1>3, <1>5, <1>7, <1>10 DEF z
<1>14. /\ c \in Builder /\ Kept(d, c) /\ c.nested = FALSE /\ SameOptions(k, c)
       /\ c.vtables = k.vtables /\ c.fields = k.fields /\ c.max_voffset_ = k.max_voffset_
       /\ c.minalign_ = k.minalign_ /\ GetSize(c) = GetSize(k)
       /\ Holds(c.buf, o, Scalar(z, 4))
       /\ FrontKept(k, c, o)
  <2>1. k \in Builder
    BY <1>8
  <2>2. OffsetWritten(d, k, c, o, z)
    BY <2>1, <1>12, <1>13, Closing
  <2>. QED BY <2>2 DEF OffsetWritten
<1>. HIDE DEF c
<1>15. Spot(c, o, Scalar(z, 4), 4)
  <2>1. 4 <= c.minalign_
    <3>1. p.minalign_ \in Nat /\ k.minalign_ \in Nat /\ p.minalign_ <= k.minalign_
      BY <1>2, <1>8, <1>11, BuilderType, KeptSize
    <3>. QED BY <3>1, <1>2, <1>14
  <2>2. (o % 4) = 0
    BY <1>2
  <2>. QED BY <2>1, <2>2, <1>14 DEF Spot
<1>16. Spot(c, GetSize(w), u, 2)
  <2>1. Holds(k.buf, GetSize(w), u) /\ 2 <= c.minalign_ /\ (GetSize(w) % 2) = 0
    BY <1>3, <1>8, <1>14 DEF Spot
  <2>2. o <= GetSize(w) - Len(u)
    BY <1>2, <1>3, <1>5, <1>7
  <2>3. Holds(c.buf, GetSize(w), u)
    BY <2>1, <2>2, <1>5, <1>7, <1>14 DEF FrontKept
  <2>. QED BY <2>1, <2>3 DEF Spot
<1>17. v + d.length64 = GetSize(w)
  BY <1>7
<1>18. VBytes(c, v + d.length64) = u /\ VTableThere(c, v + d.length64)
  BY <1>4, <1>14, <1>16, <1>17, VTableFound
<1>19. SameOptions(d, c)
  BY <1>9, <1>14 DEF SameOptions
<1>20. EndedTable(d, s, c, v)
  BY <1>3, <1>7, <1>8, <1>14, <1>15, <1>18, <1>19 DEF EndedTable, o, at, z
<1>. QED BY <1>1, <1>8, <1>14, <1>18, <1>20 DEF u

LEMMA EndingSharedLayout ==
  ASSUME NEW d \in Builder, NEW s \in Int, IsVTableSize(VTableSize(d)), Same(d, s) # {},
         d.length64 = 0, \A i \in DOMAIN d.vtables : VTableThere(d, d.vtables[i])
  PROVE  \E i \in DOMAIN d.vtables :
            /\ EndedTable(d, s, EndTable(d, s), d.vtables[i])
            /\ EndTable(d, s).vtables = d.vtables
            /\ VBytes(EndTable(d, s), d.vtables[i] + d.length64) = NewVTable(d, s)
<1>. DEFINE p == Placed(d)
            w == Written(d, s)
            u == NewVTable(d, s)
            at == TableAt(d)
            i == Min(Same(d, s))
            v == d.vtables[i]
            n == GetSizeRelative32BitRegion(w) - at
            k == PopBytes(w, n)
            o == at + d.length64
            c == Closed(k, o, v - at)
<1>1. EndTable(d, s) = c
  BY EndTableIs
<1>2. /\ p \in Builder /\ Kept(d, p) /\ SameOptions(d, p)
      /\ 4 <= p.minalign_ /\ (GetSize(p) % 4) = 0 /\ at \in Int /\ o = GetSize(p)
      /\ GetSize(d) + 4 <= GetSize(p) /\ GetSize(p) \in Nat
  BY Placing
<1>3. /\ w \in Builder /\ Kept(p, w) /\ SameOptions(d, w) /\ w.vtables = d.vtables
      /\ w.fields = <<>> /\ w.max_voffset_ = 0
      /\ Spot(w, GetSize(w), u, 2) /\ GetSize(w) = GetSize(p) + Len(u)
      /\ IsVTable(u, VTableSize(d), at - s, d.fields, at)
  BY WritingVTable
<1>4. Whole(u)
  BY <1>3, VTableWhole
<1>5. u \in Seq(Octet) /\ Len(u) \in Nat
  BY <1>4 DEF Whole
<1>6. k = [w EXCEPT !.buf = SubSeq(w.buf, n + 1, Len(w.buf))]
  BY DEF PopBytes
<1>7. i \in DOMAIN d.vtables /\ SameVTable(w, v)
  <2>1. Same(d, s) \subseteq {j \in DOMAIN d.vtables : SameVTable(w, d.vtables[j])}
    BY DEF Same
  <2>2. \A j \in Same(d, s) : j \in Nat
    <3>1. d.vtables \in Seq(Int)
      BY DEF Builder
    <3>. QED BY <2>1, <3>1
  <2>3. i \in Same(d, s)
    BY <2>2, MinIs
  <2>. QED BY <2>1, <2>3
<1>8. v \in Int /\ VTableThere(d, v)
  BY <1>7 DEF VTableThere
<1>. HIDE DEF p, w, u, at, i, v, n, k, o
<1>9. Kept(d, w)
  BY <1>2, <1>3, KeptTransitive
<1>10. VTableThere(w, v) /\ VBytes(w, v) = VBytes(d, v)
  BY <1>3, <1>8, <1>9, VTableKept
<1>11. VBytes(d, v) = u
  <2>1. Holds(w.buf, GetSize(w), u)
    BY <1>3 DEF Spot
  <2>. QED BY <2>1, <1>3, <1>4, <1>7, <1>10, SameVTableIs
<1>12. /\ w.length64 = 0 /\ o = at /\ GetSize(w) \in Nat
       /\ GetSizeRelative32BitRegion(w) = GetSize(w) - w.length64
  BY <1>2, <1>3, BuilderType DEF SameOptions, o
<1>13. SubSeq(w.buf, n + 1, Len(w.buf)) = p.buf
  <2>1. /\ w.buf \in Seq(Octet) /\ p.buf \in Seq(Octet) /\ Behind(p.buf, w.buf)
        /\ GetSize(w) = Len(w.buf) /\ GetSize(p) = Len(p.buf)
    BY <1>2, <1>3, BuilderType DEF Kept
  <2>2. n = Len(w.buf) - Len(p.buf)
    BY <2>1, <1>2, <1>12 DEF n
  <2>. QED BY <2>1, <2>2, BehindPopped
<1>14. p.buf \in Seq(Octet)
  BY <1>2, BuilderType
<1>15. /\ k \in Builder /\ k.buf = p.buf /\ k.minalign_ = w.minalign_
       /\ k.vtables = d.vtables /\ k.fields = <<>> /\ k.max_voffset_ = 0
  BY <1>3, <1>6, <1>13, <1>14 DEF Builder
<1>16. SameOptions(d, k)
  BY <1>3, <1>6 DEF SameOptions, Builder
<1>17. GetSize(k) = GetSize(p)
  BY <1>15 DEF GetSize
<1>18. Kept(d, k) /\ p.minalign_ <= k.minalign_
  <2>1. Behind(d.buf, p.buf) /\ d.minalign_ <= w.minalign_ /\ p.minalign_ <= w.minalign_
    BY <1>2, <1>3, <1>9 DEF Kept
  <2>. QED BY <2>1, <1>15 DEF Kept
<1>19. o \in Nat /\ GetSize(d) <= o - 4 /\ o <= GetSize(k) /\ v - at \in Int
  <2>1. GetSize(d) \in Nat
    BY BuilderType
  <2>. QED BY <2>1, <1>2, <1>8, <1>17
<1>20. /\ c \in Builder /\ Kept(d, c) /\ c.nested = FALSE /\ SameOptions(k, c)
       /\ c.vtables = k.vtables /\ c.fields = k.fields /\ c.max_voffset_ = k.max_voffset_
       /\ c.minalign_ = k.minalign_ /\ GetSize(c) = GetSize(k)
       /\ Holds(c.buf, o, Scalar(v - at, 4))
  <2>1. k \in Builder
    BY <1>15
  <2>2. OffsetWritten(d, k, c, o, v - at)
    BY <2>1, <1>18, <1>19, Closing
  <2>. QED BY <2>2 DEF OffsetWritten
<1>. HIDE DEF c
<1>21. Spot(c, o, Scalar(v - at, 4), 4)
  <2>1. 4 <= c.minalign_
    <3>1. p.minalign_ \in Nat /\ k.minalign_ \in Nat
      BY <1>2, <1>15, BuilderType
    <3>. QED BY <3>1, <1>2, <1>18, <1>20
  <2>2. (o % 4) = 0
    BY <1>2
  <2>. QED BY <2>1, <2>2, <1>20 DEF Spot
<1>22. VTableThere(c, v) /\ VBytes(c, v) = u
  BY <1>8, <1>11, <1>20, VTableKept
<1>23. v + d.length64 = v
  BY <1>8
<1>24. SameOptions(d, c)
  BY <1>16, <1>20 DEF SameOptions
<1>25. EndedTable(d, s, c, v)
  BY <1>3, <1>8, <1>15, <1>20, <1>21, <1>22, <1>23, <1>24 DEF EndedTable, o, at
<1>. QED BY <1>1, <1>7, <1>15, <1>20, <1>22, <1>23, <1>25 DEF u, v

-----------------------------------------------------------------------------
(* What is read is what was written. *)

LEMMA ReadsBytes ==
  ASSUME NEW buf \in Seq(Octet), NEW a \in Nat, NEW x \in Seq(Octet), NEW w \in Nat,
         w = Len(x), a + Len(x) <= Len(buf), BytesAt(buf, a, x)
  PROVE  Bytes(buf, a, w) = x
<1>. DEFINE y == SubSeq(buf, a + 1, a + w)
<1>1. Len(x) \in Nat /\ Len(buf) \in Nat
  OBVIOUS
<1>2. /\ y \in Seq(Octet) /\ Len(y) = Len(x)
      /\ \A i \in 1 .. Len(x) : y[i] = buf[a + i]
  <2>. DEFINE m == a + 1
              n == a + w
  <2>1. /\ m \in Int /\ n \in Int /\ n - m + 1 = Len(x) /\ m >= 1 /\ n <= Len(buf)
        /\ (m <= n \/ Len(x) = 0)
    BY <1>1
  <2>2. \A i \in m .. n : buf[i] \in Octet
    BY <2>1, <1>1
  <2>3. \A i \in 1 .. Len(x) : m + i - 1 = a + i
    BY <1>1
  <2>4. y = SubSeq(buf, m, n)
    OBVIOUS
  <2>. HIDE DEF m, n, y
  <2>5. /\ y \in Seq(Octet) /\ Len(y) = (IF m <= n THEN n - m + 1 ELSE 0)
        /\ \A i \in 1 .. n - m + 1 : y[i] = buf[m + i - 1]
    BY <2>1, <2>2, <2>4, SubSeqProperties
  <2>. QED BY <2>1, <2>3, <2>5, <1>1
<1>3. Bytes(buf, a, w) = y
  BY DEF Bytes
<1>. HIDE DEF y
<1>4. \A i \in 1 .. Len(x) : y[i] = x[i]
  BY <1>2 DEF BytesAt
<1>. QED BY <1>2, <1>3, <1>4, SeqEqual

LEMMA SpotScalar ==
  ASSUME NEW d \in Builder, NEW off, NEW v \in Int, NEW w \in Sizes, NEW al \in Sizes,
         Spot(d, off, Scalar(v, w), al)
  PROVE  /\ off \in Nat /\ w <= off /\ off <= GetSize(d) /\ GetSize(d) - off \in Int
         /\ \A i \in 1 .. w : d.buf[GetSize(d) - off + i] = Byte(v, i - 1)
<1>1. /\ Scalar(v, w) \in Seq(Octet) /\ Len(Scalar(v, w)) = w
      /\ \A i \in 1 .. w : Scalar(v, w)[i] = Byte(v, i - 1)
  BY ScalarType
<1>2. /\ off \in Nat /\ Len(Scalar(v, w)) <= off /\ off <= GetSize(d)
      /\ BytesAt(d.buf, GetSize(d) - off, Scalar(v, w))
  BY <1>1, SpotBytes
<1>3. GetSize(d) \in Nat
  BY BuilderType
<1>. QED BY <1>1, <1>2, <1>3 DEF BytesAt

LEMMA ReadsOffset ==
  ASSUME NEW d \in Builder, NEW off, NEW v, IsSize(v), NEW al \in Sizes,
         Spot(d, off, Scalar(v, 4), al)
  PROVE  uoffset(d.buf, GetSize(d) - off) = v
<1>1. v \in Int /\ 4 \in Sizes
  BY DEF IsSize, Sizes
<1>2. /\ GetSize(d) - off \in Int
      /\ \A i \in 1 .. 4 : d.buf[GetSize(d) - off + i] = Byte(v, i - 1)
  BY <1>1, SpotScalar
<1>. QED BY <1>2, ReadsUInt32

LEMMA ReadsSignedOffset ==
  ASSUME NEW d \in Builder, NEW off, NEW v, IsInt32(v), NEW al \in Sizes,
         Spot(d, off, Scalar(v, 4), al)
  PROVE  soffset(d.buf, GetSize(d) - off) = v
<1>1. v \in Int /\ 4 \in Sizes
  BY DEF IsInt32, Sizes
<1>2. /\ GetSize(d) - off \in Int
      /\ \A i \in 1 .. 4 : d.buf[GetSize(d) - off + i] = Byte(v, i - 1)
  BY <1>1, SpotScalar
<1>. QED BY <1>2, ReadsInt32

LEMMA ReadsOffset64 ==
  ASSUME NEW d \in Builder, NEW off, NEW v, IsSize(v), NEW al \in Sizes,
         Spot(d, off, Scalar(v, 8), al)
  PROVE  uoffset64(d.buf, GetSize(d) - off) = v
<1>1. v \in Int /\ 8 \in Sizes
  BY DEF IsSize, Sizes
<1>2. /\ GetSize(d) - off \in Int
      /\ \A i \in 1 .. 8 : d.buf[GetSize(d) - off + i] = Byte(v, i - 1)
  BY <1>1, SpotScalar
<1>. QED BY <1>2, ReadsUInt64

LEMMA Within ==
  ASSUME NEW d \in Builder, CanHold(d), NEW n \in Nat, n <= GetSize(d)
  PROVE  IsSize(n)
<1>1. GetSize(d) \in Nat
  BY BuilderType
<1>. QED BY <1>1, SMT DEF CanHold, IsSize, FLATBUFFERS_MAX_BUFFER_SIZE

LEMMA ReadsString ==
  ASSUME NEW d \in Builder, CanHold(d), NEW off, NEW s, NEW al \in Sizes,
         StringThere(d, off, s, al)
  PROVE  /\ GetString(d.buf, GetSize(d) - off) = s
         /\ d.buf[Data(GetSize(d) - off) + Len(s) + 1] = 0
<1>. DEFINE a == GetSize(d) - off
<1>1. /\ s \in Seq(Octet) /\ Len(s) \in Nat /\ 4 \in Sizes /\ 1 \in Sizes
      /\ Spot(d, off, Scalar(Len(s), 4), 4) /\ Spot(d, off - 4, s, al)
      /\ Spot(d, off - 4 - Len(s), Zeros(1), 1)
  BY DEF StringThere, Sizes
<1>2. /\ off - 4 \in Nat /\ Len(s) <= off - 4 /\ off - 4 <= GetSize(d)
      /\ BytesAt(d.buf, GetSize(d) - (off - 4), s)
  BY <1>1, SpotBytes
<1>3. Zeros(1) \in Seq(Octet) /\ Len(Zeros(1)) = 1 /\ \A i \in 1 .. 1 : Zeros(1)[i] = 0
  BY ZerosType
<1>4. /\ off - 4 - Len(s) \in Nat
      /\ BytesAt(d.buf, GetSize(d) - (off - 4 - Len(s)), Zeros(1))
  BY <1>1, <1>3, SpotBytes
<1>5. off \in Nat /\ off <= GetSize(d)
  <2>1. Scalar(Len(s), 4) \in Seq(Octet)
    BY <1>1, LengthType
  <2>. QED BY <2>1, <1>1, SpotBytes
<1>6. GetSize(d) \in Nat /\ d.buf \in Seq(Octet) /\ GetSize(d) = Len(d.buf)
  BY BuilderType
<1>7. IsSize(Len(s))
  BY <1>1, <1>2, <1>5, <1>6, Within
<1>8. uoffset(d.buf, a) = Len(s)
  BY <1>1, <1>7, ReadsOffset
<1>9. a \in Nat /\ a # Null /\ Data(a) = GetSize(d) - (off - 4)
  BY <1>5, <1>6 DEF Null, Data
<1>. HIDE DEF a
<1>10. Bytes(d.buf, Data(a), Len(s)) = s
  <2>1. Data(a) \in Nat /\ Data(a) + Len(s) <= Len(d.buf) /\ BytesAt(d.buf, Data(a), s)
    BY <1>1, <1>2, <1>5, <1>6, <1>9
  <2>. QED BY <2>1, <1>1, <1>6, ReadsBytes
<1>11. GetString(d.buf, a) = s
  BY <1>8, <1>9, <1>10 DEF GetString, VectorSize
<1>12. d.buf[Data(a) + Len(s) + 1] = 0
  <2>1. Data(a) + Len(s) = GetSize(d) - (off - 4 - Len(s))
    BY <1>1, <1>2, <1>5, <1>6, <1>9
  <2>2. d.buf[GetSize(d) - (off - 4 - Len(s)) + 1] = 0
    BY <1>3, <1>4 DEF BytesAt
  <2>. QED BY <2>1, <2>2
<1>. QED BY <1>11, <1>12 DEF a

\* An element of a vector of scalars or structs.
LEMMA ReadsElement ==
  ASSUME NEW buf \in Seq(Octet), NEW a \in Nat, NEW v, NEW w, Elements(v, w),
         a + Len(FlattenSeq(v)) <= Len(buf), BytesAt(buf, a, FlattenSeq(v)),
         NEW i \in 1 .. Len(v)
  PROVE  Bytes(buf, a + Place(i, w), w) = v[i]
<1>1. /\ Len(v) \in Nat /\ w \in Nat /\ v[i] \in Seq(Octet) /\ Len(v[i]) = w
  <2>1. /\ v \in Seq(Seq(Octet)) /\ w \in Sizes /\ \A k \in 1 .. Len(v) : Len(v[k]) = w
    BY DEF Elements
  <2>2. w \in Nat
    BY <2>1 DEF Sizes
  <2>3. Len(v[i]) = w
    BY <2>1
  <2>4. v[i] \in Seq(Octet)
    BY <2>1, ElementOfSeq
  <2>5. Len(v) \in Nat
    BY <2>1, LenProperties
  <2>. QED BY <2>2, <2>3, <2>4, <2>5
<1>. DEFINE f == FlattenSeq(v)
            n == Place(Len(v) + 1, w)
            p == Place(i, w)
            x == v[i]
<1>2. f \in Seq(Octet) /\ InArray(f, v, Len(v), w)
  BY ElementsFlat
<1>3. Len(f) = n /\ n \in Nat /\ p \in Nat /\ p + w <= n
  BY <1>1, <1>2, Places DEF InArray
<1>4. /\ \A j \in 1 .. w : f[p + j] = x[j]
      /\ x \in Seq(Octet) /\ Len(x) = w
  BY <1>1, <1>2 DEF InArray
<1>. HIDE DEF f, n, p, x
<1>5. a + Len(f) <= Len(buf) /\ BytesAt(buf, a, f) /\ Len(buf) \in Nat
  BY DEF f
<1>6. a + p \in Nat /\ (a + p) + w <= Len(buf)
  BY <1>1, <1>3, <1>5
<1>7. ASSUME NEW j \in 1 .. w PROVE buf[(a + p) + j] = x[j]
  <2>1. p + j \in 1 .. Len(f) /\ (a + p) + j = a + (p + j)
    BY <1>1, <1>3
  <2>2. buf[a + (p + j)] = f[p + j]
    BY <2>1, <1>5 DEF BytesAt
  <2>. QED BY <2>1, <2>2, <1>4
<1>8. BytesAt(buf, a + p, x)
  BY <1>4, <1>7 DEF BytesAt
<1>9. Bytes(buf, a + p, w) = x
  BY <1>1, <1>4, <1>6, <1>8, ReadsBytes
<1>. QED BY <1>9 DEF p, x

LEMMA ReadsVector ==
  ASSUME NEW d \in Builder, CanHold(d), NEW off, NEW v, NEW w, NEW al \in Sizes,
         VectorThere(d, off, v, w, al), NEW u, v = <<>> \/ u = w
  PROVE  /\ VectorSize(d.buf, GetSize(d) - off) = Len(v)
         /\ InlineElements(d.buf, GetSize(d) - off, u) = v
<1>. DEFINE a == GetSize(d) - off
            f == FlattenSeq(v)
<1>1. /\ Elements(v, w) /\ Spot(d, off, Scalar(Len(v), 4), 4)
      /\ Spot(d, off - 4, f, IF v = <<>> THEN 1 ELSE al)
  BY DEF VectorThere
<1>2. /\ v \in Seq(Seq(Octet)) /\ Len(v) \in Nat /\ f \in Seq(Octet)
      /\ Len(v) <= Len(f) /\ Len(f) \in Nat
  BY <1>1, ElementsFlat
<1>. HIDE DEF f
<1>3. 4 \in Sizes /\ (IF v = <<>> THEN 1 ELSE al) \in Sizes
  BY DEF Sizes
<1>4. /\ off - 4 \in Nat /\ Len(f) <= off - 4 /\ off - 4 <= GetSize(d)
      /\ BytesAt(d.buf, GetSize(d) - (off - 4), f)
  BY <1>1, <1>2, <1>3, SpotBytes
<1>5. off \in Nat /\ off <= GetSize(d)
  <2>1. Scalar(Len(v), 4) \in Seq(Octet)
    BY <1>2, LengthType
  <2>. QED BY <2>1, <1>1, <1>3, SpotBytes
<1>6. GetSize(d) \in Nat /\ d.buf \in Seq(Octet) /\ GetSize(d) = Len(d.buf)
  BY BuilderType
<1>7. IsSize(Len(v))
  BY <1>2, <1>4, <1>5, <1>6, Within
<1>8. uoffset(d.buf, a) = Len(v)
  BY <1>1, <1>3, <1>7, ReadsOffset
<1>9. /\ a \in Nat /\ a # Null /\ Data(a) = GetSize(d) - (off - 4) /\ Data(a) \in Nat
      /\ Data(a) + Len(f) <= Len(d.buf)
  BY <1>2, <1>4, <1>5, <1>6 DEF Null, Data
<1>. HIDE DEF a
<1>10. VectorSize(d.buf, a) = Len(v) /\ VectorLength(d.buf, a) = Len(v)
  BY <1>8, <1>9 DEF VectorSize, VectorLength
<1>11. ASSUME NEW i \in 1 .. Len(v) PROVE GetInline(d.buf, a, i - 1, u) = v[i]
  <2>1. Bytes(d.buf, Data(a) + Place(i, w), w) = v[i]
    BY <1>1, <1>4, <1>6, <1>9, ReadsElement DEF f
  <2>2. u = w
    BY <1>2
  <2>. QED BY <2>1, <2>2 DEF GetInline, Place
<1>12. InlineElements(d.buf, a, u) = [i \in 1 .. Len(v) |-> v[i]]
  BY <1>10, <1>11 DEF InlineElements
<1>13. v = [i \in 1 .. Len(v) |-> v[i]]
  BY <1>2
<1>. QED BY <1>10, <1>12, <1>13 DEF a

LEMMA ReadsVector64 ==
  ASSUME NEW d \in Builder, NEW off, NEW v, NEW w, Vector64There(d, off, v, w),
         NEW i \in 1 .. Len(v)
  PROVE  Bytes(d.buf, GetSize(d) - off + 8 + (i - 1) * w, w) = v[i]
<1>. DEFINE a == GetSize(d) - (off - 8)
            f == FlattenSeq(v)
<1>1. /\ Elements(v, w) /\ Spot(d, off, Scalar(Len(v), 8), 8)
      /\ Spot(d, off - 8, f, IF v = <<>> THEN 1 ELSE w)
  BY DEF Vector64There
<1>2. /\ v \in Seq(Seq(Octet)) /\ Len(v) \in Nat /\ f \in Seq(Octet) /\ w \in Sizes
      /\ Len(v) \in Int
  BY <1>1, ElementsFlat
<1>. HIDE DEF f
<1>3. 8 \in Sizes /\ (IF v = <<>> THEN 1 ELSE w) \in Sizes
  BY <1>2 DEF Sizes
<1>4. /\ off - 8 \in Nat /\ Len(f) <= off - 8 /\ off - 8 <= GetSize(d)
      /\ BytesAt(d.buf, a, f)
  BY <1>1, <1>2, <1>3, SpotBytes
<1>5. off \in Nat
  BY <1>1, <1>2, <1>3, SpotScalar
<1>6. GetSize(d) \in Nat /\ d.buf \in Seq(Octet) /\ GetSize(d) = Len(d.buf)
  BY BuilderType
<1>7. a \in Nat /\ a + Len(f) <= Len(d.buf) /\ a = GetSize(d) - off + 8
  BY <1>2, <1>4, <1>5, <1>6
<1>. HIDE DEF a
<1>8. Bytes(d.buf, a + Place(i, w), w) = v[i]
  BY <1>1, <1>4, <1>6, <1>7, ReadsElement DEF f
<1>. QED BY <1>7, <1>8 DEF Place

\* The place of what is off bytes from the end, or from the end of the 32-bit region.
AddressAt(d, off) == GetSize(d) - off
AddressAt32(d, off) == GetSizeRelative32BitRegion(d) - off

LEMMA ReadsReference ==
  ASSUME NEW d \in Builder, CanHold(d), NEW off, NEW target, Reference(d, off, target)
  PROVE  /\ AddressAt(d, off) \in Nat /\ uoffset(d.buf, AddressAt(d, off)) \in Nat
         /\ AddressAt(d, off) + uoffset(d.buf, AddressAt(d, off)) = AddressAt32(d, target)
<1>1. /\ target \in Int /\ 0 < target /\ target <= off - d.length64 /\ off \in Int
      /\ Spot(d, off, Scalar(off - d.length64 - target, 4), 4)
  BY DEF Reference
<1>. DEFINE v == off - d.length64 - target
<1>2. /\ d.length64 \in Nat /\ GetSize(d) \in Nat
      /\ GetSizeRelative32BitRegion(d) = GetSize(d) - d.length64
  BY BuilderType
<1>3. v \in Nat /\ v <= off
  BY <1>1, <1>2
<1>4. Spot(d, off, Scalar(v, 4), 4)
  BY <1>1
<1>. HIDE DEF v
<1>5. 4 \in Sizes /\ Scalar(v, 4) \in Seq(Octet)
  BY <1>3, LengthType DEF Sizes
<1>6. off \in Nat /\ off <= GetSize(d)
  BY <1>4, <1>5, SpotBytes
<1>7. IsSize(v)
  BY <1>2, <1>3, <1>6, Within
<1>8. uoffset(d.buf, GetSize(d) - off) = v
  BY <1>4, <1>5, <1>7, ReadsOffset
<1>9. AddressAt(d, off) \in Nat
  BY <1>2, <1>6 DEF AddressAt
<1>. QED BY <1>1, <1>2, <1>3, <1>6, <1>8, <1>9 DEF AddressAt, AddressAt32, v

LEMMA ReadsOffsets ==
  ASSUME NEW d \in Builder, CanHold(d), NEW off, NEW x, NEW y, OffsetsThere(d, off, x, y)
  PROVE  IndirectElements(d.buf, AddressAt(d, off)) = <<AddressAt32(d, x), AddressAt32(d, y)>>
<1>. DEFINE a == AddressAt(d, off)
<1>1. /\ off \in Nat /\ Spot(d, off, Scalar(2, 4), 4)
      /\ Reference(d, off - 4, x) /\ Reference(d, off - 8, y)
  BY DEF OffsetsThere
<1>2. 4 \in Sizes /\ Scalar(2, 4) \in Seq(Octet)
  BY LengthType DEF Sizes
<1>3. off <= GetSize(d) /\ GetSize(d) \in Nat
  BY <1>1, <1>2, SpotBytes, BuilderType
<1>4. uoffset(d.buf, a) = 2
  <2>1. IsSize(2)
    BY SMT DEF IsSize, FLATBUFFERS_MAX_BUFFER_SIZE
  <2>. QED BY <2>1, <1>1, <1>2, ReadsOffset DEF AddressAt
<1>5. /\ AddressAt(d, off - 4) + uoffset(d.buf, AddressAt(d, off - 4)) = AddressAt32(d, x)
      /\ AddressAt(d, off - 8) + uoffset(d.buf, AddressAt(d, off - 8)) = AddressAt32(d, y)
  BY <1>1, ReadsReference
<1>6. a \in Nat /\ AddressAt(d, off - 4) = a + 4 /\ AddressAt(d, off - 8) = a + 8
  BY <1>1, <1>3 DEF AddressAt
<1>. HIDE DEF a
<1>7. VectorLength(d.buf, a) = 2
  BY <1>4, <1>6 DEF VectorLength, VectorSize, Null
<1>8. Data(a) + 4 * 0 = a + 4 /\ Data(a) + 4 * 1 = a + 8
  BY <1>6 DEF Data
<1>9. /\ GetIndirect(d.buf, a, 0) = AddressAt32(d, x)
      /\ GetIndirect(d.buf, a, 1) = AddressAt32(d, y)
  BY <1>5, <1>6, <1>8 DEF GetIndirect
<1>. DEFINE g(i) == GetIndirect(d.buf, a, i)
<1>10. IndirectElements(d.buf, a) = [i \in 1 .. 2 |-> g(i - 1)]
  BY <1>7 DEF IndirectElements
<1>11. g(1 - 1) = AddressAt32(d, x) /\ g(2 - 1) = AddressAt32(d, y)
  <2>1. 1 - 1 = 0 /\ 2 - 1 = 1
    OBVIOUS
  <2>. QED BY <1>9, <2>1
<1>. HIDE DEF g
<1>12. [i \in 1 .. 2 |-> g(i - 1)] = <<g(1 - 1), g(2 - 1)>>
  OBVIOUS
<1>. QED BY <1>10, <1>11, <1>12 DEF a

LEMMA ReadsStrings ==
  ASSUME NEW d \in Builder, CanHold(d), NEW off, NEW x, NEW y, StringsThere(d, off, x, y)
  PROVE  \E s, t : /\ IndirectElements(d.buf, AddressAt(d, off)) = <<s, t>>
                   /\ GetString(d.buf, s) = x /\ GetString(d.buf, t) = y
<1>1. PICK p \in Int, q \in Int :
        /\ OffsetsThere(d, off, p, q)
        /\ StringThere(d, p + d.length64, x, 1) /\ StringThere(d, q + d.length64, y, 1)
  BY DEF StringsThere
<1>2. IndirectElements(d.buf, AddressAt(d, off)) = <<AddressAt32(d, p), AddressAt32(d, q)>>
  BY <1>1, ReadsOffsets
<1>3. /\ d.length64 \in Nat /\ GetSize(d) \in Nat
      /\ GetSizeRelative32BitRegion(d) = GetSize(d) - d.length64
  BY BuilderType
<1>4. /\ AddressAt32(d, p) = GetSize(d) - (p + d.length64)
      /\ AddressAt32(d, q) = GetSize(d) - (q + d.length64)
  BY <1>1, <1>3 DEF AddressAt32
<1>5. 1 \in Sizes
  BY DEF Sizes
<1>6. GetString(d.buf, AddressAt32(d, p)) = x /\ GetString(d.buf, AddressAt32(d, q)) = y
  BY <1>1, <1>4, <1>5, ReadsString
<1>. QED BY <1>2, <1>6

\* A 64-bit offset counts from the end of the buffer.
Reference64(d, off, target) ==
  /\ target \in Int /\ 0 < target /\ target <= off /\ off \in Int
  /\ Spot(d, off, Scalar(off - target, 8), 8)

LEMMA Referring64 ==
  ASSUME NEW d \in Builder, NEW target \in Int, CanReferTo64(d, target)
  PROVE  Reference64(PushReference64(d, target), GetSize(PushReference64(d, target)), target)
<1>. DEFINE c == PushReference64(d, target)
<1>1. /\ Grown(d, c) /\ Spot(c, GetSize(c), Scalar(GetSize(c) - target, 8), 8)
      /\ GetSize(d) + 8 <= GetSize(c)
  BY PushingReference64
<1>. HIDE DEF c
<1>2. c \in Builder
  BY <1>1 DEF Grown
<1>3. GetSize(c) \in Nat /\ GetSize(d) \in Nat
  BY <1>2, BuilderType
<1>4. 0 < target /\ target <= GetSize(d)
  BY DEF CanReferTo64
<1>5. Reference64(c, GetSize(c), target)
  BY <1>1, <1>3, <1>4 DEF Reference64
<1>. QED BY <1>5 DEF c

LEMMA Reference64Kept ==
  ASSUME NEW d \in Builder, NEW c \in Builder, Kept(d, c),
         NEW off, NEW target, Reference64(d, off, target)
  PROVE  Reference64(c, off, target)
<1>1. /\ target \in Int /\ 0 < target /\ target <= off /\ off \in Int
      /\ Spot(d, off, Scalar(off - target, 8), 8)
  BY DEF Reference64
<1>2. off - target \in Int /\ 8 \in Sizes
  BY <1>1 DEF Sizes
<1>3. Scalar(off - target, 8) \in Seq(Octet)
  BY <1>2, ScalarType
<1>4. Spot(c, off, Scalar(off - target, 8), 8)
  BY <1>1, <1>2, <1>3, SpotKept
<1>. QED BY <1>1, <1>4 DEF Reference64

LEMMA ReadsReference64 ==
  ASSUME NEW d \in Builder, CanHold(d), NEW off, NEW target, Reference64(d, off, target)
  PROVE  /\ AddressAt(d, off) \in Nat
         /\ AddressAt(d, off) + uoffset64(d.buf, AddressAt(d, off)) = AddressAt(d, target)
<1>1. /\ target \in Int /\ 0 < target /\ target <= off /\ off \in Int
      /\ Spot(d, off, Scalar(off - target, 8), 8)
  BY DEF Reference64
<1>. DEFINE v == off - target
<1>2. GetSize(d) \in Nat
  BY BuilderType
<1>3. v \in Nat /\ v <= off
  BY <1>1, <1>2
<1>4. Spot(d, off, Scalar(v, 8), 8)
  BY <1>1
<1>. HIDE DEF v
<1>5. 8 \in Sizes /\ Scalar(v, 8) \in Seq(Octet)
  <2>1. 8 \in Sizes
    BY DEF Sizes
  <2>. QED BY <1>3, <2>1, ScalarType
<1>6. off \in Nat /\ off <= GetSize(d)
  BY <1>4, <1>5, SpotBytes
<1>7. IsSize(v)
  BY <1>2, <1>3, <1>6, Within
<1>8. uoffset64(d.buf, GetSize(d) - off) = v
  BY <1>4, <1>5, <1>7, ReadsOffset64
<1>9. AddressAt(d, off) \in Nat
  BY <1>2, <1>6 DEF AddressAt
<1>. QED BY <1>1, <1>2, <1>6, <1>8, <1>9 DEF AddressAt, v

-----------------------------------------------------------------------------
(* The fields of a table.  y: where they are; f: what the caller set. *)

\* Field id is stored off bytes from the end.
StoredAt(d, y, id, off) == \E i \in DOMAIN y : y[i].id = id /\ y[i].off + d.length64 = off

Stored(d, y, id, x, al) == \E off : StoredAt(d, y, id, off) /\ Spot(d, off, x, al)

Unset(y, id) == \A i \in DOMAIN y : y[i].id # id

IsScalar(x) == x \in Seq(Octet) /\ Len(x) \in Sizes

ScalarThere(d, y, f) ==
  /\ f.kind = "scalar" /\ IsScalar(f.value)
  /\ (Unset(y, f.id) /\ f.value = Default(f.value))
       \/ Stored(d, y, f.id, f.value, Len(f.value))
OptionalThere(d, y, f) ==
  f.kind = "optional" /\ IsScalar(f.value) /\ Stored(d, y, f.id, f.value, Len(f.value))
StructThere(d, y, f) ==
  f.kind = "struct" /\ f.value = Struct /\ Stored(d, y, f.id, Struct, 4)
OffsetThere(d, y, f) ==
  f.kind = "offset" /\ \E off : StoredAt(d, y, f.id, off) /\ Reference(d, off, f.value)
Offset64There(d, y, f) ==
  f.kind = "offset64" /\ \E off : StoredAt(d, y, f.id, off) /\ Reference64(d, off, f.value)

FieldThere(d, y, f) ==
  /\ IsFieldOffset(f.id)
  /\ \/ ScalarThere(d, y, f) \/ OptionalThere(d, y, f) \/ StructThere(d, y, f)
     \/ OffsetThere(d, y, f) \/ Offset64There(d, y, f)

\* Every entry of y is in z.
Extended(y, z) ==
  /\ y \in Seq(FieldLoc) /\ z \in Seq(FieldLoc)
  /\ Len(y) <= Len(z) /\ \A i \in 1 .. Len(y) : z[i] = y[i]

LEMMA StructType == Struct \in Seq(Octet) /\ Len(Struct) = 8
BY DEF Struct, Octet

LEMMA StoredKept ==
  ASSUME NEW d \in Builder, NEW c \in Builder, Kept(d, c), c.length64 = d.length64,
         NEW y, NEW z, Extended(y, z)
  PROVE  /\ \A id, off : StoredAt(d, y, id, off) => StoredAt(c, z, id, off)
         /\ \A id : \A x \in Seq(Octet), al \in Sizes :
              Stored(d, y, id, x, al) => Stored(c, z, id, x, al)
<1>1. ASSUME NEW id, NEW off, StoredAt(d, y, id, off) PROVE StoredAt(c, z, id, off)
  <2>1. PICK i \in DOMAIN y : y[i].id = id /\ y[i].off + d.length64 = off
    BY <1>1 DEF StoredAt
  <2>2. i \in DOMAIN z /\ z[i] = y[i]
    BY DEF Extended
  <2>. QED BY <2>1, <2>2 DEF StoredAt
<1>2. ASSUME NEW id, NEW x \in Seq(Octet), NEW al \in Sizes, Stored(d, y, id, x, al)
      PROVE  Stored(c, z, id, x, al)
  <2>1. PICK off : StoredAt(d, y, id, off) /\ Spot(d, off, x, al)
    BY <1>2 DEF Stored
  <2>2. Spot(c, off, x, al)
    BY <2>1, SpotKept
  <2>. QED BY <2>1, <2>2, <1>1 DEF Stored
<1>. QED BY <1>1, <1>2

\* A field stays set when the buffer grows and others are set.
LEMMA FieldKept ==
  ASSUME NEW d \in Builder, NEW c \in Builder, Kept(d, c), c.length64 = d.length64,
         NEW y, NEW z, Extended(y, z), NEW f, FieldThere(d, y, f),
         Unset(y, f.id) => Unset(z, f.id)
  PROVE  FieldThere(c, z, f)
<1>1. \A id : \A x \in Seq(Octet), al \in Sizes : Stored(d, y, id, x, al) => Stored(c, z, id, x, al)
  BY StoredKept
<1>2. \A id, off : StoredAt(d, y, id, off) => StoredAt(c, z, id, off)
  BY StoredKept
<1>3. ScalarThere(d, y, f) => ScalarThere(c, z, f)
  BY <1>1 DEF ScalarThere, IsScalar
<1>4. OptionalThere(d, y, f) => OptionalThere(c, z, f)
  BY <1>1 DEF OptionalThere, IsScalar
<1>5. StructThere(d, y, f) => StructThere(c, z, f)
  <2>1. 4 \in Sizes
    BY DEF Sizes
  <2>. QED BY <1>1, <2>1, StructType DEF StructThere
<1>6. ASSUME OffsetThere(d, y, f) PROVE OffsetThere(c, z, f)
  <2>1. PICK off : StoredAt(d, y, f.id, off) /\ Reference(d, off, f.value)
    BY <1>6 DEF OffsetThere
  <2>2. Reference(c, off, f.value)
    BY <2>1, ReferenceKept
  <2>. QED BY <1>2, <1>6, <2>1, <2>2 DEF OffsetThere
<1>7. ASSUME Offset64There(d, y, f) PROVE Offset64There(c, z, f)
  <2>1. PICK off : StoredAt(d, y, f.id, off) /\ Reference64(d, off, f.value)
    BY <1>7 DEF Offset64There
  <2>2. Reference64(c, off, f.value)
    BY <2>1, Reference64Kept
  <2>. QED BY <1>2, <1>7, <2>1, <2>2 DEF Offset64There
<1>. QED BY <1>3, <1>4, <1>5, <1>6, <1>7 DEF FieldThere

\* Every field of F is set.
AllThere(d, y, F) == \A j \in DOMAIN F : FieldThere(d, y, F[j])

LEMMA ExtendedSelf ==
  ASSUME NEW y \in Seq(FieldLoc)
  PROVE  Extended(y, y)
BY DEF Extended

LEMMA AllKept ==
  ASSUME NEW d \in Builder, NEW c \in Builder, Kept(d, c), c.length64 = d.length64,
         NEW y \in Seq(FieldLoc), NEW F, AllThere(d, y, F)
  PROVE  AllThere(c, y, F)
<1>1. ASSUME NEW j \in DOMAIN F PROVE FieldThere(c, y, F[j])
  <2>1. FieldThere(d, y, F[j])
    BY DEF AllThere
  <2>. QED BY <2>1, ExtendedSelf, FieldKept
<1>. QED BY <1>1 DEF AllThere

\* A table under construction: what is noted of its fields.
Tracked(d, s, F) ==
  /\ \A i \in DOMAIN d.fields :
       /\ IsFieldOffset(d.fields[i].id) /\ d.fields[i].id <= d.max_voffset_
       /\ s < d.fields[i].off /\ d.fields[i].off <= GetSizeRelative32BitRegion(d)
       /\ \E j \in DOMAIN F : F[j].id = d.fields[i].id
  /\ d.max_voffset_ = 0 \/ IsFieldOffset(d.max_voffset_)
  /\ s \in Int /\ s <= GetSizeRelative32BitRegion(d)

Open(d, s, F) == Tracked(d, s, F) /\ AllThere(d, d.fields, F)

-----------------------------------------------------------------------------
(* Sequences of anything. *)

IsSeq(s) == \E S : s \in Seq(S)

Follows(t, s, x) ==
  /\ Len(s) \in Nat /\ DOMAIN s = 1 .. Len(s) /\ DOMAIN t = 1 .. Len(s) + 1
  /\ Len(t) = Len(s) + 1 /\ t[Len(s) + 1] = x
  /\ \A i \in 1 .. Len(s) : t[i] = s[i]

LEMMA Appended ==
  ASSUME NEW s, IsSeq(s), NEW x
  PROVE  IsSeq(Append(s, x)) /\ Follows(Append(s, x), s, x)
<1>1. PICK S : s \in Seq(S)
  BY DEF IsSeq
<1>. DEFINE T == S \union {x}
<1>2. s \in Seq(T) /\ x \in T
  <2>1. s \in [1 .. Len(s) -> S] /\ Len(s) \in Nat
    BY <1>1, LenProperties
  <2>2. s \in [1 .. Len(s) -> T]
    BY <2>1
  <2>. QED BY <2>1, <2>2, IsASeq
<1>. HIDE DEF T
<1>3. Append(s, x) \in Seq(T)
  BY <1>2, AppendProperties
<1>4. /\ Len(Append(s, x)) = Len(s) + 1 /\ Append(s, x)[Len(s) + 1] = x
      /\ \A i \in 1 .. Len(s) : Append(s, x)[i] = s[i]
  BY <1>2, AppendProperties
<1>5. /\ Len(s) \in Nat /\ DOMAIN s = 1 .. Len(s)
      /\ DOMAIN Append(s, x) = 1 .. Len(Append(s, x))
  BY <1>2, <1>3, LenProperties
<1>6. IsSeq(Append(s, x))
  BY <1>3 DEF IsSeq
<1>. QED BY <1>4, <1>5, <1>6 DEF Follows

-----------------------------------------------------------------------------
(* Adding a field. *)

LEMMA TrackingField ==
  ASSUME NEW d \in Builder, NEW id \in Nat
  PROVE  /\ TrackField(d, id) \in Builder /\ Kept(d, TrackField(d, id))
         /\ SameOptions(d, TrackField(d, id)) /\ TrackField(d, id).nested = d.nested
         /\ TrackField(d, id).vtables = d.vtables
         /\ GetSize(TrackField(d, id)) = GetSize(d)
         /\ Follows(TrackField(d, id).fields, d.fields,
                    [off |-> GetSizeRelative32BitRegion(d), id |-> id])
         /\ Extended(d.fields, TrackField(d, id).fields)
         /\ d.max_voffset_ <= TrackField(d, id).max_voffset_
         /\ id <= TrackField(d, id).max_voffset_
         /\ TrackField(d, id).max_voffset_ \in {d.max_voffset_, id}
<1>. DEFINE e == [off |-> GetSizeRelative32BitRegion(d), id |-> id]
            y == Append(d.fields, e)
            m == IF id > d.max_voffset_ THEN id ELSE d.max_voffset_
            d1 == [d EXCEPT !.fields = y]
            c == [d1 EXCEPT !.max_voffset_ = m]
<1>1. d.fields \in Seq(FieldLoc) /\ d.max_voffset_ \in Nat
  BY DEF Builder
<1>2. e \in FieldLoc
  BY BuilderType DEF FieldLoc
<1>3. y \in Seq(FieldLoc)
  BY <1>1, <1>2, AppendProperties
<1>4. Follows(y, d.fields, e)
  <2>1. IsSeq(d.fields)
    BY <1>1 DEF IsSeq
  <2>. HIDE DEF e
  <2>. QED BY <2>1, Appended
<1>5. Extended(d.fields, y)
  BY <1>1, <1>3, <1>4 DEF Extended, Follows
<1>6. m \in Nat /\ d.max_voffset_ <= m /\ id <= m /\ m \in {d.max_voffset_, id}
  BY <1>1
<1>7. TrackField(d, id) = c
  BY DEF TrackField, Builder
<1>. HIDE DEF e, y, m
<1>8. /\ d1 \in Builder /\ d1.fields = y /\ d1.buf = d.buf /\ d1.minalign_ = d.minalign_
      /\ d1.vtables = d.vtables /\ d1.max_voffset_ = d.max_voffset_
  BY <1>3 DEF Builder
<1>9. d1.nested = d.nested
  BY DEF Builder
<1>10. SameOptions(d, d1)
  BY DEF SameOptions, Builder
<1>. HIDE DEF d1
<1>11. /\ c \in Builder /\ c.fields = y /\ c.buf = d.buf /\ c.minalign_ = d.minalign_
       /\ c.vtables = d.vtables /\ c.max_voffset_ = m
  BY <1>6, <1>8 DEF Builder
<1>12. c.nested = d.nested
  BY <1>8, <1>9 DEF Builder
<1>13. SameOptions(d, c)
  BY <1>8, <1>10 DEF SameOptions, Builder
<1>. HIDE DEF c
<1>14. Kept(d, c) /\ GetSize(c) = GetSize(d)
  BY <1>11, KeptSelf DEF Kept, GetSize
<1>. QED BY <1>4, <1>5, <1>6, <1>7, <1>11, <1>12, <1>13, <1>14 DEF e

\* What adding a field changes of a builder.
FieldAdded(d, c) ==
  /\ c \in Builder /\ Kept(d, c) /\ SameOptions(d, c)
  /\ c.nested = d.nested /\ c.vtables = d.vtables

LEMMA NotSetYet ==
  ASSUME NEW d, NEW s, NEW F, Tracked(d, s, F), NEW id, Unset(F, id)
  PROVE  Unset(d.fields, id)
BY DEF Tracked, Unset

LEMMA AddingField ==
  ASSUME NEW d \in Builder, NEW s, NEW F, IsSeq(F), Open(d, s, F),
         NEW f, IsFieldOffset(f.id), Unset(F, f.id),
         NEW g, Grown(d, g), GetSize(d) < GetSize(g), g.nested = d.nested,
         NEW c, c = TrackField(g, f.id), FieldThere(c, c.fields, f)
  PROVE  FieldAdded(d, c) /\ Open(c, s, Append(F, f))
<1>. DEFINE e == [off |-> GetSizeRelative32BitRegion(g), id |-> f.id]
            G == Append(F, f)
<1>1. g \in Builder /\ SameRest(d, g) /\ Kept(d, g)
  BY DEF Grown
<1>2. f.id \in Nat
  BY DEF IsFieldOffset
<1>3. /\ c \in Builder /\ Kept(g, c) /\ SameOptions(g, c) /\ c.nested = g.nested
      /\ c.vtables = g.vtables /\ GetSize(c) = GetSize(g)
      /\ Follows(c.fields, g.fields, e) /\ Extended(g.fields, c.fields)
      /\ g.max_voffset_ <= c.max_voffset_ /\ f.id <= c.max_voffset_
      /\ c.max_voffset_ \in {g.max_voffset_, f.id}
  BY <1>1, <1>2, TrackingField
<1>4. FieldAdded(d, c) /\ c.length64 = d.length64
  BY <1>1, <1>3, KeptTransitive DEF FieldAdded, SameOptions, SameRest
<1>5. Kept(d, c)
  BY <1>4 DEF FieldAdded
<1>6. /\ Follows(c.fields, d.fields, e) /\ Extended(d.fields, c.fields)
      /\ d.max_voffset_ <= c.max_voffset_ /\ d.max_voffset_ \in Nat /\ c.max_voffset_ \in Nat
      /\ c.max_voffset_ \in {d.max_voffset_, f.id}
  BY <1>1, <1>3 DEF SameRest, Builder
<1>7. Follows(G, F, f)
  BY Appended
<1>8. /\ GetSizeRelative32BitRegion(d) \in Int /\ GetSizeRelative32BitRegion(c) \in Int
      /\ GetSizeRelative32BitRegion(d) < GetSizeRelative32BitRegion(c)
      /\ GetSizeRelative32BitRegion(c) = GetSizeRelative32BitRegion(g)
  <2>1. g.length64 = d.length64
    BY <1>1 DEF SameRest
  <2>2. /\ GetSizeRelative32BitRegion(d) = GetSize(d) - d.length64
        /\ GetSizeRelative32BitRegion(c) = GetSize(c) - c.length64
        /\ GetSizeRelative32BitRegion(g) = GetSize(g) - g.length64
        /\ GetSize(d) \in Nat /\ GetSize(c) \in Nat /\ d.length64 \in Nat
    BY <1>1, <1>3, BuilderType
  <2>. QED BY <1>3, <1>4, <2>1, <2>2
<1>9. Tracked(d, s, F) /\ AllThere(d, d.fields, F)
  BY DEF Open
<1>10. Unset(d.fields, f.id)
  BY <1>9, NotSetYet
<1>. HIDE DEF G
<1>11. Tracked(c, s, G)
  <2>1. s \in Int /\ s <= GetSizeRelative32BitRegion(c) /\ s < GetSizeRelative32BitRegion(c)
    BY <1>8, <1>9 DEF Tracked
  <2>2. c.max_voffset_ = 0 \/ IsFieldOffset(c.max_voffset_)
    BY <1>6, <1>9 DEF Tracked
  <2>3. ASSUME NEW i \in DOMAIN c.fields
        PROVE  /\ IsFieldOffset(c.fields[i].id) /\ c.fields[i].id <= c.max_voffset_
               /\ s < c.fields[i].off /\ c.fields[i].off <= GetSizeRelative32BitRegion(c)
               /\ \E j \in DOMAIN G : G[j].id = c.fields[i].id
    <3>1. CASE i \in DOMAIN d.fields
      <4>1. c.fields[i] = d.fields[i]
        BY <1>6, <3>1 DEF Follows
      <4>2. /\ IsFieldOffset(d.fields[i].id) /\ d.fields[i].id <= d.max_voffset_
            /\ s < d.fields[i].off /\ d.fields[i].off <= GetSizeRelative32BitRegion(d)
        BY <1>9, <3>1 DEF Tracked
      <4>3. PICK j \in DOMAIN F : F[j].id = d.fields[i].id
        BY <1>9, <3>1 DEF Tracked
      <4>4. j \in DOMAIN G /\ G[j] = F[j]
        BY <1>7 DEF Follows
      <4>5. d.fields[i].id \in Nat /\ d.fields[i].off \in Int
        <5>1. d.fields \in Seq(FieldLoc)
          BY DEF Builder
        <5>2. d.fields[i] \in FieldLoc
          BY <3>1, <5>1
        <5>. QED BY <4>2, <5>2 DEF FieldLoc, IsFieldOffset
      <4>6. d.fields[i].id <= c.max_voffset_
        BY <1>6, <4>2, <4>5
      <4>7. d.fields[i].off <= GetSizeRelative32BitRegion(c)
        BY <1>8, <4>2, <4>5
      <4>. QED BY <4>1, <4>2, <4>3, <4>4, <4>6, <4>7
    <3>2. CASE i \notin DOMAIN d.fields
      <4>1. c.fields[i] = e
        BY <1>6, <3>2 DEF Follows
      <4>2. /\ IsFieldOffset(f.id) /\ f.id <= c.max_voffset_
            /\ s < GetSizeRelative32BitRegion(g)
            /\ GetSizeRelative32BitRegion(g) <= GetSizeRelative32BitRegion(c)
        BY <1>3, <1>8, <2>1
      <4>3. Len(F) + 1 \in DOMAIN G /\ G[Len(F) + 1] = f
        BY <1>7 DEF Follows
      <4>. QED BY <4>1, <4>2, <4>3
    <3>. QED BY <3>1, <3>2
  <2>. QED BY <2>1, <2>2, <2>3 DEF Tracked
<1>12. ASSUME NEW j \in DOMAIN G PROVE FieldThere(c, c.fields, G[j])
  <2>1. CASE j \in DOMAIN F
    <3>1. G[j] = F[j]
      BY <1>7, <2>1 DEF Follows
    <3>2. FieldThere(d, d.fields, F[j]) /\ F[j].id # f.id
      BY <1>9, <2>1 DEF AllThere, Unset
    <3>3. ASSUME Unset(d.fields, F[j].id) PROVE Unset(c.fields, F[j].id)
      BY <1>6, <3>2, <3>3 DEF Unset, Follows
    <3>4. FieldThere(c, c.fields, F[j])
      BY <1>3, <1>4, <1>5, <1>6, <3>2, <3>3, FieldKept
    <3>. QED BY <3>1, <3>4
  <2>2. CASE j \notin DOMAIN F
    BY <1>7, <2>2 DEF Follows
  <2>. QED BY <2>1, <2>2
<1>13. Open(c, s, G)
  BY <1>11, <1>12 DEF Open, AllThere
<1>. QED BY <1>4, <1>13 DEF G

\* Where the field just added is.
LEMMA JustStored ==
  ASSUME NEW g \in Builder, NEW id \in Nat
  PROVE  /\ TrackField(g, id) \in Builder
         /\ Kept(g, TrackField(g, id)) /\ TrackField(g, id).length64 = g.length64
         /\ StoredAt(TrackField(g, id), TrackField(g, id).fields, id, GetSize(g))
<1>. DEFINE c == TrackField(g, id)
            e == [off |-> GetSizeRelative32BitRegion(g), id |-> id]
<1>1. c \in Builder /\ Kept(g, c) /\ SameOptions(g, c) /\ Follows(c.fields, g.fields, e)
  BY TrackingField
<1>. HIDE DEF c
<1>2. c.length64 = g.length64
  BY <1>1 DEF SameOptions
<1>3. Len(g.fields) + 1 \in DOMAIN c.fields /\ c.fields[Len(g.fields) + 1] = e
  BY <1>1 DEF Follows
<1>4. e.id = id /\ e.off + g.length64 = GetSize(g)
  BY BuilderType
<1>5. StoredAt(c, c.fields, id, GetSize(g))
  BY <1>2, <1>3, <1>4 DEF StoredAt
<1>. QED BY <1>1, <1>2, <1>5 DEF c

FieldOf(id, kind, value) == [id |-> id, kind |-> kind, value |-> value]

LEMMA AddingBytes ==
  ASSUME NEW d \in Builder, NEW s, NEW F, IsSeq(F), Open(d, s, F),
         NEW id, IsFieldOffset(id), Unset(F, id), NEW kind, NEW x \in Seq(Octet),
         NEW al \in Sizes, NEW g, Grown(d, g), GetSize(d) < GetSize(g), g.nested = d.nested,
         Spot(g, GetSize(g), x, al),
         \A c \in Builder : Stored(c, c.fields, id, x, al)
            => FieldThere(c, c.fields, FieldOf(id, kind, x))
  PROVE  /\ FieldAdded(d, TrackField(g, id))
         /\ Open(TrackField(g, id), s, Append(F, FieldOf(id, kind, x)))
<1>. DEFINE c == TrackField(g, id)
            f == FieldOf(id, kind, x)
<1>1. g \in Builder /\ id \in Nat
  BY DEF Grown, IsFieldOffset
<1>2. c \in Builder /\ Kept(g, c) /\ StoredAt(c, c.fields, id, GetSize(g))
  BY <1>1, JustStored
<1>3. c = TrackField(g, id) /\ f.id = id
  BY DEF FieldOf
<1>. HIDE DEF c
<1>4. Spot(c, GetSize(g), x, al)
  BY <1>1, <1>2, SpotKept
<1>5. Stored(c, c.fields, id, x, al)
  BY <1>2, <1>4 DEF Stored
<1>6. FieldThere(c, c.fields, f)
  BY <1>2, <1>5
<1>. HIDE DEF f
<1>7. FieldAdded(d, c) /\ Open(c, s, Append(F, f))
  BY <1>3, <1>6, AddingField
<1>. QED BY <1>7 DEF c, f

LEMMA PushingField ==
  ASSUME NEW d \in Builder, NEW x, IsScalar(x)
  PROVE  /\ Grown(d, PushElement(d, x)) /\ PushElement(d, x).nested = d.nested
         /\ GetSize(d) < GetSize(PushElement(d, x))
         /\ Spot(PushElement(d, x), GetSize(PushElement(d, x)), x, Len(x))
<1>1. x \in Seq(Octet) /\ Len(x) \in Sizes
  BY DEF IsScalar
<1>2. /\ Grown(d, PushElement(d, x)) /\ PushElement(d, x).nested = d.nested
      /\ GetSize(d) + Len(x) <= GetSize(PushElement(d, x))
      /\ Spot(PushElement(d, x), GetSize(PushElement(d, x)), x, Len(x))
  BY <1>1, PushingElement
<1>3. Len(x) \in Nat /\ Len(x) >= 1 /\ GetSize(d) \in Nat
  BY <1>1, SizesAre, BuilderType
<1>4. PushElement(d, x) \in Builder
  BY <1>2 DEF Grown
<1>5. GetSize(PushElement(d, x)) \in Nat
  BY <1>4, BuilderType
<1>. QED BY <1>2, <1>3, <1>5

LEMMA AddingOptional ==
  ASSUME NEW d \in Builder, NEW s, NEW F, IsSeq(F), Open(d, s, F),
         NEW id, IsFieldOffset(id), Unset(F, id), NEW x, IsScalar(x)
  PROVE  /\ FieldAdded(d, AddOptional(d, id, x))
         /\ Open(AddOptional(d, id, x), s, Append(F, FieldOf(id, "optional", x)))
<1>1. x \in Seq(Octet) /\ Len(x) \in Sizes
  BY DEF IsScalar
<1>2. ASSUME NEW c \in Builder, Stored(c, c.fields, id, x, Len(x))
      PROVE  FieldThere(c, c.fields, FieldOf(id, "optional", x))
  BY <1>2 DEF FieldThere, OptionalThere, FieldOf
<1>3. /\ FieldAdded(d, TrackField(PushElement(d, x), id))
      /\ Open(TrackField(PushElement(d, x), id), s, Append(F, FieldOf(id, "optional", x)))
  BY <1>1, <1>2, PushingField, AddingBytes
<1>. QED BY <1>3 DEF AddOptional

LEMMA AddingScalar ==
  ASSUME NEW d \in Builder, NEW s, NEW F, IsSeq(F), Open(d, s, F),
         NEW id, IsFieldOffset(id), Unset(F, id), NEW x, IsScalar(x)
  PROVE  /\ FieldAdded(d, AddElement(d, id, x, Default(x)))
         /\ Open(AddElement(d, id, x, Default(x)), s, Append(F, FieldOf(id, "scalar", x)))
<1>1. x \in Seq(Octet) /\ Len(x) \in Sizes
  BY DEF IsScalar
<1>2. ASSUME NEW c \in Builder, Stored(c, c.fields, id, x, Len(x))
      PROVE  FieldThere(c, c.fields, FieldOf(id, "scalar", x))
  BY <1>2 DEF FieldThere, ScalarThere, FieldOf
<1>3. /\ FieldAdded(d, TrackField(PushElement(d, x), id))
      /\ Open(TrackField(PushElement(d, x), id), s, Append(F, FieldOf(id, "scalar", x)))
  BY <1>1, <1>2, PushingField, AddingBytes
<1>4. CASE x = Default(x) /\ ~d.force_defaults_
  <2>. DEFINE f == FieldOf(id, "scalar", x)
              G == Append(F, f)
  <2>1. Tracked(d, s, F) /\ AllThere(d, d.fields, F) /\ Unset(d.fields, id)
    BY NotSetYet DEF Open
  <2>2. Follows(G, F, f)
    BY Appended
  <2>3. f.id = id /\ f.kind = "scalar" /\ f.value = x
    BY DEF FieldOf
  <2>. HIDE DEF f, G
  <2>4. FieldThere(d, d.fields, f)
    BY <1>4, <2>1, <2>3 DEF FieldThere, ScalarThere
  <2>5. Tracked(d, s, G)
    BY <2>1, <2>2 DEF Tracked, Follows
  <2>6. AllThere(d, d.fields, G)
    BY <2>1, <2>2, <2>4 DEF AllThere, Follows
  <2>7. FieldAdded(d, d)
    BY KeptSelf DEF FieldAdded, SameOptions
  <2>8. AddElement(d, id, x, Default(x)) = d
    BY <1>4 DEF AddElement, IsTheSameAs
  <2>. QED BY <2>5, <2>6, <2>7, <2>8 DEF Open, G, f
<1>5. CASE ~(x = Default(x) /\ ~d.force_defaults_)
  <2>1. AddElement(d, id, x, Default(x)) = TrackField(PushElement(d, x), id)
    BY <1>5 DEF AddElement, IsTheSameAs
  <2>. QED BY <1>3, <2>1
<1>. QED BY <1>4, <1>5

LEMMA AddingStruct ==
  ASSUME NEW d \in Builder, NEW s, NEW F, IsSeq(F), Open(d, s, F),
         NEW id, IsFieldOffset(id), Unset(F, id)
  PROVE  /\ FieldAdded(d, AddStruct(d, id, Struct, 4))
         /\ Open(AddStruct(d, id, Struct, 4), s, Append(F, FieldOf(id, "struct", Struct)))
<1>. DEFINE g == CreateStruct(d, Struct, 4)
<1>1. 4 \in Sizes /\ Struct \in Seq(Octet) /\ Len(Struct) = 8 /\ (8 % 4) = 0
  BY StructType DEF Sizes
<1>2. /\ Grown(d, g) /\ g.nested = d.nested /\ Spot(g, GetSize(g), Struct, 4)
      /\ GetSize(d) + Len(Struct) <= GetSize(g)
  BY <1>1, CreatingStruct
<1>3. g = PushBytes(Align(d, 4), Struct)
  BY DEF CreateStruct
<1>. HIDE DEF g
<1>4. g \in Builder
  BY <1>2 DEF Grown
<1>5. GetSize(d) \in Nat /\ GetSize(g) \in Nat
  BY <1>4, BuilderType
<1>6. GetSize(d) < GetSize(g)
  BY <1>1, <1>2, <1>5
<1>7. ASSUME NEW c \in Builder, Stored(c, c.fields, id, Struct, 4)
      PROVE  FieldThere(c, c.fields, FieldOf(id, "struct", Struct))
  BY <1>7 DEF FieldThere, StructThere, FieldOf
<1>8. /\ FieldAdded(d, TrackField(g, id))
      /\ Open(TrackField(g, id), s, Append(F, FieldOf(id, "struct", Struct)))
  BY <1>1, <1>2, <1>6, <1>7, AddingBytes
<1>. QED BY <1>3, <1>8 DEF AddStruct

LEMMA AddingOffset ==
  ASSUME NEW d \in Builder, NEW s, NEW F, IsSeq(F), Open(d, s, F),
         NEW id, IsFieldOffset(id), Unset(F, id), NEW target \in Int, CanReferTo(d, target)
  PROVE  /\ FieldAdded(d, AddOffset(d, id, target))
         /\ Open(AddOffset(d, id, target), s, Append(F, FieldOf(id, "offset", target)))
<1>. DEFINE g == PushReference(d, target)
            c == TrackField(g, id)
            f == FieldOf(id, "offset", target)
<1>1. /\ Grown(d, g) /\ g.nested = d.nested /\ GetSize(d) + 4 <= GetSize(g)
      /\ Reference(g, GetSize(g), target)
  BY PushingReference, Referring
<1>2. AddOffset(d, id, target) = c
  BY DEF AddOffset, CanReferTo
<1>. HIDE DEF g
<1>3. g \in Builder /\ id \in Nat
  BY <1>1 DEF Grown, IsFieldOffset
<1>4. GetSize(d) \in Nat /\ GetSize(g) \in Nat
  BY <1>3, BuilderType
<1>5. GetSize(d) < GetSize(g)
  BY <1>1, <1>4
<1>6. /\ c \in Builder /\ Kept(g, c) /\ c.length64 = g.length64
      /\ StoredAt(c, c.fields, id, GetSize(g))
  BY <1>3, JustStored
<1>7. c = TrackField(g, id) /\ f.id = id /\ f.kind = "offset" /\ f.value = target
  BY DEF FieldOf
<1>. HIDE DEF c, f
<1>8. Reference(c, GetSize(g), target)
  BY <1>1, <1>3, <1>6, ReferenceKept
<1>9. FieldThere(c, c.fields, f)
  BY <1>6, <1>7, <1>8 DEF FieldThere, OffsetThere
<1>10. FieldAdded(d, c) /\ Open(c, s, Append(F, f))
  BY <1>1, <1>5, <1>7, <1>9, AddingField
<1>. QED BY <1>2, <1>10 DEF f

LEMMA AddingOffset64 ==
  ASSUME NEW d \in Builder, NEW s, NEW F, IsSeq(F), Open(d, s, F),
         NEW id, IsFieldOffset(id), Unset(F, id), NEW target \in Int, CanReferTo64(d, target)
  PROVE  /\ FieldAdded(d, AddOffset64(d, id, target))
         /\ Open(AddOffset64(d, id, target), s, Append(F, FieldOf(id, "offset64", target)))
<1>. DEFINE g == PushReference64(d, target)
            c == TrackField(g, id)
            f == FieldOf(id, "offset64", target)
<1>1. /\ Grown(d, g) /\ g.nested = d.nested /\ GetSize(d) + 8 <= GetSize(g)
      /\ Reference64(g, GetSize(g), target)
  BY PushingReference64, Referring64
<1>2. AddOffset64(d, id, target) = c
  BY DEF AddOffset64, CanReferTo64
<1>. HIDE DEF g
<1>3. g \in Builder /\ id \in Nat
  BY <1>1 DEF Grown, IsFieldOffset
<1>4. GetSize(d) \in Nat /\ GetSize(g) \in Nat
  BY <1>3, BuilderType
<1>5. GetSize(d) < GetSize(g)
  BY <1>1, <1>4
<1>6. /\ c \in Builder /\ Kept(g, c)
      /\ StoredAt(c, c.fields, id, GetSize(g))
  BY <1>3, JustStored
<1>7. c = TrackField(g, id) /\ f.id = id /\ f.kind = "offset64" /\ f.value = target
  BY DEF FieldOf
<1>. HIDE DEF c, f
<1>8. Reference64(c, GetSize(g), target)
  BY <1>1, <1>3, <1>6, Reference64Kept
<1>9. FieldThere(c, c.fields, f)
  BY <1>6, <1>7, <1>8 DEF FieldThere, Offset64There
<1>10. FieldAdded(d, c) /\ Open(c, s, Append(F, f))
  BY <1>1, <1>5, <1>7, <1>9, AddingField
<1>. QED BY <1>2, <1>10 DEF f

-----------------------------------------------------------------------------
(* A finished table. *)

\* What a vtable says of the fields y of the table at offset at.
Located(y, at, size, F) ==
  /\ y \in Seq(FieldLoc) /\ at \in Int /\ IsVTableSize(size)
  /\ \A i \in DOMAIN y :
       /\ IsFieldOffset(y[i].id) /\ y[i].id <= size - 2
       /\ IsShort(at - y[i].off) /\ at - y[i].off # 0
       /\ \E j \in DOMAIN F : F[j].id = y[i].id
  /\ \A i, j \in DOMAIN y : i # j => y[i].id # y[j].id

\* The table at the offset at: an offset to the vtable at v, a whole vtable there, whose
\* slots say where the fields F are.
TableIs(d, at, v, F) ==
  /\ at \in Int /\ v \in Int
  /\ Spot(d, at + d.length64, Scalar(v - at, 4), 4)
  /\ VTableThere(d, v + d.length64)
  /\ \E size, n, y :
       /\ IsVTable(VBytes(d, v + d.length64), size, n, y, at)
       /\ Located(y, at, size, F) /\ AllThere(d, y, F)

LEMMA TableKept ==
  ASSUME NEW d \in Builder, NEW c \in Builder, Kept(d, c), c.length64 = d.length64,
         NEW at, NEW v, NEW F, TableIs(d, at, v, F)
  PROVE  TableIs(c, at, v, F)
<1>1. /\ at \in Int /\ v \in Int
      /\ Spot(d, at + d.length64, Scalar(v - at, 4), 4)
      /\ VTableThere(d, v + d.length64)
  BY DEF TableIs
<1>2. PICK size, n, y : /\ IsVTable(VBytes(d, v + d.length64), size, n, y, at)
                        /\ Located(y, at, size, F) /\ AllThere(d, y, F)
  BY DEF TableIs
<1>3. v - at \in Int /\ 4 \in Sizes
  BY <1>1 DEF Sizes
<1>4. Scalar(v - at, 4) \in Seq(Octet)
  BY <1>3, LengthType
<1>5. Spot(c, at + c.length64, Scalar(v - at, 4), 4)
  BY <1>1, <1>3, <1>4, SpotKept
<1>6. /\ VTableThere(c, v + c.length64)
      /\ VBytes(c, v + c.length64) = VBytes(d, v + d.length64)
  BY <1>1, VTableKept
<1>7. AllThere(c, y, F)
  BY <1>2, AllKept DEF Located
<1>. QED BY <1>1, <1>2, <1>5, <1>6, <1>7 DEF TableIs

LEMMA SlotIs ==
  ASSUME NEW y, NEW at, NEW size, NEW F, Located(y, at, size, F), NEW id
  PROVE  /\ Unset(y, id) => Slot(y, at, id) = 0
         /\ \A i \in DOMAIN y : y[i].id = id =>
              /\ Slot(y, at, id) = at - y[i].off /\ IsShort(Slot(y, at, id))
              /\ Slot(y, at, id) # 0 /\ id <= size - 2 /\ y[i].off \in Int
<1>. DEFINE here == {i \in DOMAIN y : y[i].id = id}
<1>1. Slot(y, at, id) = IF here = {} THEN 0 ELSE at - y[CHOOSE i \in here : TRUE].off
  BY DEF Slot
<1>2. ASSUME Unset(y, id) PROVE Slot(y, at, id) = 0
  <2>1. here = {}
    BY <1>2 DEF Unset
  <2>. QED BY <1>1, <2>1
<1>3. ASSUME NEW i \in DOMAIN y, y[i].id = id
      PROVE  /\ Slot(y, at, id) = at - y[i].off /\ IsShort(Slot(y, at, id))
             /\ Slot(y, at, id) # 0 /\ id <= size - 2 /\ y[i].off \in Int
  <2>1. here = {i}
    BY <1>3 DEF Located
  <2>2. Slot(y, at, id) = at - y[i].off
    <3>1. (CHOOSE k \in here : TRUE) = i
      BY <2>1
    <3>. HIDE DEF here
    <3>2. here # {}
      BY <2>1
    <3>. QED BY <1>1, <3>1, <3>2
  <2>3. IsShort(at - y[i].off) /\ at - y[i].off # 0 /\ y[i].id <= size - 2
    BY DEF Located
  <2>4. y[i].off \in Int
    <3>1. y \in Seq(FieldLoc)
      BY DEF Located
    <3>2. y[i] \in FieldLoc
      BY <3>1
    <3>. QED BY <3>2 DEF FieldLoc
  <2>. QED BY <1>3, <2>2, <2>3, <2>4
<1>. QED BY <1>2, <1>3

LEMMA ZeroIsShort == IsShort(0)
BY SMT DEF IsShort

LEMMA EvenBelow ==
  ASSUME NEW size, IsVTableSize(size), NEW id, IsFieldOffset(id)
  PROVE  /\ id \in Nat /\ size \in Nat /\ (id % 2) = 0 /\ IsShort(size) /\ 4 <= id
         /\ id < size <=> id <= size - 2
<1>1. /\ id \in Nat /\ size \in Nat /\ (id % 2) = 0 /\ (size % 2) = 0 /\ 4 <= id
      /\ IsShort(size)
  BY SMT DEF IsVTableSize, IsFieldOffset, IsShort
<1>2. id < size <=> id <= size - 2
  BY <1>1
<1>. QED BY <1>1, <1>2

\* The vtable of a table is found, and in it the place of each field.
LEMMA ReadsVTable ==
  ASSUME NEW d \in Builder, CanHold(d), NEW at, NEW v, NEW F, TableIs(d, at, v, F)
  PROVE  /\ GetVTable(d.buf, AddressAt32(d, at)) = GetSize(d) - (v + d.length64)
         /\ AddressAt32(d, at) = GetSize(d) - (at + d.length64) /\ AddressAt32(d, at) \in Nat
         /\ GetSize(d) - (v + d.length64) \in Nat
         /\ GetSize(d) - (at + d.length64) \in Nat
<1>1. /\ at \in Int /\ v \in Int
      /\ Spot(d, at + d.length64, Scalar(v - at, 4), 4)
      /\ VTableThere(d, v + d.length64)
  BY DEF TableIs
<1>2. /\ d.length64 \in Nat /\ GetSize(d) \in Nat
      /\ GetSizeRelative32BitRegion(d) = GetSize(d) - d.length64
  BY BuilderType
<1>3. v - at \in Int /\ 4 \in Sizes /\ 2 \in Sizes
  BY <1>1 DEF Sizes
<1>4. Scalar(v - at, 4) \in Seq(Octet)
  BY <1>3, LengthType
<1>5. at + d.length64 \in Nat /\ at + d.length64 <= GetSize(d)
  BY <1>1, <1>3, <1>4, SpotBytes
<1>6. v + d.length64 \in Nat /\ v + d.length64 <= GetSize(d)
  <2>1. /\ VBytes(d, v + d.length64) \in Seq(Octet)
        /\ Spot(d, v + d.length64, VBytes(d, v + d.length64), 2)
    BY <1>1 DEF VTableThere, Whole
  <2>. QED BY <1>3, <2>1, SpotBytes
<1>7. IsInt32(v - at)
  <2>1. 0 - GetSize(d) <= v - at /\ v - at <= GetSize(d)
    BY <1>1, <1>2, <1>5, <1>6
  <2>2. GetSize(d) < FLATBUFFERS_MAX_BUFFER_SIZE /\ FLATBUFFERS_MAX_BUFFER_SIZE \in Nat
    BY SMT DEF CanHold, FLATBUFFERS_MAX_BUFFER_SIZE
  <2>. QED BY <1>2, <1>3, <2>1, <2>2 DEF IsInt32
<1>8. soffset(d.buf, GetSize(d) - (at + d.length64)) = v - at
  BY <1>1, <1>3, <1>7, ReadsSignedOffset
<1>9. AddressAt32(d, at) = GetSize(d) - (at + d.length64)
  BY <1>1, <1>2 DEF AddressAt32
<1>10. GetVTable(d.buf, AddressAt32(d, at)) = GetSize(d) - (at + d.length64) - (v - at)
  BY <1>8, <1>9 DEF GetVTable
<1>. QED BY <1>1, <1>2, <1>5, <1>6, <1>9, <1>10

\* A table with its vtable, the fields y in it.
TableWith(d, at, v, F, size, n, y) ==
  /\ TableIs(d, at, v, F) /\ IsVTable(VBytes(d, v + d.length64), size, n, y, at)
  /\ Located(y, at, size, F)

LEMMA ReadsSlot ==
  ASSUME NEW d \in Builder, CanHold(d), NEW at, NEW v, NEW F, NEW size, NEW n, NEW y,
         TableWith(d, at, v, F, size, n, y), NEW id, IsFieldOffset(id)
  PROVE  GetOptionalFieldOffset(d.buf, AddressAt32(d, at), id) = Slot(y, at, id)
<1>0. /\ TableIs(d, at, v, F) /\ IsVTable(VBytes(d, v + d.length64), size, n, y, at)
      /\ Located(y, at, size, F)
  BY DEF TableWith
<1>. DEFINE t == AddressAt32(d, at)
            w == GetSize(d) - (v + d.length64)
            u == VBytes(d, v + d.length64)
<1>1. GetVTable(d.buf, t) = w /\ w \in Nat
  BY <1>0, ReadsVTable
<1>2. /\ u \in Seq(Octet) /\ Len(u) = size
      /\ \A i \in 1 .. 2 : u[i] = Byte(size, i - 1)
      /\ \A k \in 4 .. size - 2 : (k % 2) = 0 =>
           \A j \in 1 .. 2 : u[k + j] = Byte(Slot(y, at, k), j - 1)
  BY <1>0 DEF IsVTable
<1>3. BytesAt(d.buf, w, u)
  <2>1. Spot(d, v + d.length64, u, 2) /\ 2 \in Sizes
    BY <1>0 DEF TableIs, VTableThere, Sizes
  <2>. QED BY <1>2, <2>1, SpotBytes
<1>4. /\ id \in Nat /\ size \in Nat /\ (id % 2) = 0 /\ IsShort(size) /\ 4 <= id
      /\ id < size <=> id <= size - 2
  BY <1>0, EvenBelow DEF Located
<1>5. 4 <= size
  BY <1>0 DEF Located, IsVTableSize
<1>. HIDE DEF t, w, u
<1>6. voffset(d.buf, w) = size
  <2>1. ASSUME NEW i \in 1 .. 2 PROVE d.buf[w + i] = Byte(size, i - 1)
    <3>1. i \in 1 .. Len(u)
      BY <1>2, <1>4, <1>5
    <3>. QED BY <1>2, <1>3, <3>1 DEF BytesAt
  <2>2. w \in Int
    BY <1>1
  <2>. QED BY <1>4, <2>1, <2>2, ReadsUInt16
<1>7. Unset(y, id) \/ \E i \in DOMAIN y : y[i].id = id
  BY DEF Unset
<1>8. CASE id < size
  <2>1. id \in 4 .. size - 2
    BY <1>4, <1>8
  <2>2. IsShort(Slot(y, at, id))
    BY <1>0, <1>7, SlotIs, ZeroIsShort
  <2>3. w + id \in Int
    BY <1>1, <1>4
  <2>4. ASSUME NEW j \in 1 .. 2 PROVE d.buf[(w + id) + j] = Byte(Slot(y, at, id), j - 1)
    <3>1. id + j \in 1 .. Len(u) /\ (w + id) + j = w + (id + j)
      BY <1>1, <1>2, <1>4, <2>1
    <3>2. d.buf[w + (id + j)] = u[id + j]
      BY <1>3, <3>1 DEF BytesAt
    <3>3. u[id + j] = Byte(Slot(y, at, id), j - 1)
      BY <1>2, <1>4, <2>1
    <3>. QED BY <3>1, <3>2, <3>3
  <2>5. voffset(d.buf, w + id) = Slot(y, at, id)
    BY <2>2, <2>3, <2>4, ReadsUInt16
  <2>. QED BY <1>1, <1>6, <1>8, <2>5 DEF GetOptionalFieldOffset, t
<1>9. CASE ~(id < size)
  <2>1. \A i \in DOMAIN y : y[i].id # id
    BY <1>0, <1>4, <1>9, SlotIs
  <2>2. Slot(y, at, id) = 0
    BY <1>0, <2>1, SlotIs DEF Unset
  <2>. QED BY <1>1, <1>6, <1>9, <2>2 DEF GetOptionalFieldOffset, t
<1>. QED BY <1>8, <1>9

LEMMA ReadsStoredAddress ==
  ASSUME NEW d \in Builder, CanHold(d), NEW at, NEW v, NEW F, NEW size, NEW n, NEW y,
         TableWith(d, at, v, F, size, n, y), NEW id, IsFieldOffset(id)
  PROVE  /\ Unset(y, id) => /\ ~CheckField(d.buf, AddressAt32(d, at), id)
                            /\ GetAddressOf(d.buf, AddressAt32(d, at), id) = Null
         /\ \A off : StoredAt(d, y, id, off)
              => /\ CheckField(d.buf, AddressAt32(d, at), id)
                 /\ GetAddressOf(d.buf, AddressAt32(d, at), id) = AddressAt(d, off)
         /\ CheckField(d.buf, AddressAt32(d, at), id) => \E j \in DOMAIN F : F[j].id = id
<1>0. TableIs(d, at, v, F) /\ Located(y, at, size, F)
  BY DEF TableWith
<1>. DEFINE t == AddressAt32(d, at)
            s == Slot(y, at, id)
<1>1. GetOptionalFieldOffset(d.buf, t, id) = s
  BY ReadsSlot
<1>2. t = GetSize(d) - (at + d.length64) /\ t \in Nat
  BY <1>0, ReadsVTable
<1>3. GetSize(d) \in Nat /\ d.length64 \in Nat /\ at \in Int
  BY <1>0, BuilderType DEF TableIs
<1>. HIDE DEF t
<1>4. ASSUME Unset(y, id)
      PROVE  ~CheckField(d.buf, t, id) /\ GetAddressOf(d.buf, t, id) = Null
  <2>1. s = 0
    BY <1>0, <1>4, SlotIs
  <2>. QED BY <1>1, <2>1 DEF CheckField, GetAddressOf
<1>5. ASSUME NEW off, StoredAt(d, y, id, off)
      PROVE  CheckField(d.buf, t, id) /\ GetAddressOf(d.buf, t, id) = AddressAt(d, off)
  <2>1. PICK i \in DOMAIN y : y[i].id = id /\ y[i].off + d.length64 = off
    BY <1>5 DEF StoredAt
  <2>2. s = at - y[i].off /\ s # 0 /\ y[i].off \in Int
    BY <1>0, <2>1, SlotIs
  <2>3. CheckField(d.buf, t, id)
    BY <1>1, <2>2 DEF CheckField
  <2>4. GetAddressOf(d.buf, t, id) = t + s
    BY <1>1, <2>3 DEF GetAddressOf
  <2>5. t + s = GetSize(d) - off
    BY <1>2, <1>3, <2>1, <2>2
  <2>. QED BY <2>3, <2>4, <2>5 DEF AddressAt
<1>6. ASSUME CheckField(d.buf, t, id) PROVE \E j \in DOMAIN F : F[j].id = id
  <2>1. ~Unset(y, id)
    BY <1>4, <1>6
  <2>. QED BY <1>0, <2>1 DEF Unset, Located
<1>. QED BY <1>4, <1>5, <1>6 DEF t

LEMMA FrontOfSpot ==
  ASSUME NEW d \in Builder, NEW off, NEW x \in Seq(Octet), NEW al \in Sizes,
         Spot(d, off, x, al)
  PROVE  /\ AddressAt(d, off) \in Nat /\ AddressAt(d, off) # Null
         /\ Bytes(d.buf, AddressAt(d, off), Len(x)) = x
<1>1. off \in Nat /\ off <= GetSize(d) /\ GetSize(d) \in Nat
  BY SpotBytes, BuilderType
<1>2. Bytes(d.buf, GetSize(d) - off, Len(x)) = x
  BY BytesThere
<1>. QED BY <1>1, <1>2 DEF AddressAt, Null

\* What TLC compares for a field, of a builder d.
ReadsField(d, t, f) ==
  /\ f.kind = "scalar" => GetField(d.buf, t, f.id, Len(f.value), Default(f.value)) = f.value
  /\ f.kind \in {"optional", "struct"} =>
       /\ CheckField(d.buf, t, f.id)
       /\ Bytes(d.buf, GetAddressOf(d.buf, t, f.id), Len(f.value)) = f.value
  /\ f.kind = "offset" => GetPointer(d.buf, t, f.id) = AddressAt32(d, f.value)
  /\ f.kind = "offset64" => GetPointer64(d.buf, t, f.id) = AddressAt(d, f.value)
  /\ f.kind \in {"scalar", "optional", "struct", "offset", "offset64"}

LEMMA ReadsAField ==
  ASSUME NEW d \in Builder, CanHold(d), NEW at, NEW v, NEW F, NEW size, NEW n, NEW y,
         TableWith(d, at, v, F, size, n, y), NEW f, FieldThere(d, y, f)
  PROVE  ReadsField(d, AddressAt32(d, at), f)
<1>. DEFINE t == AddressAt32(d, at)
            id == f.id
            p == GetAddressOf(d.buf, t, id)
<1>1. IsFieldOffset(id)
  BY DEF FieldThere
<1>2. /\ Unset(y, id) => p = Null
      /\ \A off : StoredAt(d, y, id, off)
           => CheckField(d.buf, t, id) /\ p = AddressAt(d, off)
  BY <1>1, ReadsStoredAddress
<1>. HIDE DEF t
<1>3. ASSUME NEW x \in Seq(Octet), NEW al \in Sizes, Stored(d, y, id, x, al)
      PROVE  CheckField(d.buf, t, id) /\ p # Null /\ Bytes(d.buf, p, Len(x)) = x
  <2>1. PICK off : StoredAt(d, y, id, off) /\ Spot(d, off, x, al)
    BY <1>3 DEF Stored
  <2>2. CheckField(d.buf, t, id) /\ p = AddressAt(d, off)
    BY <1>2, <2>1
  <2>3. AddressAt(d, off) # Null /\ Bytes(d.buf, AddressAt(d, off), Len(x)) = x
    BY <2>1, FrontOfSpot
  <2>. QED BY <2>2, <2>3
<1>4. CASE ScalarThere(d, y, f)
  <2>1. f.kind = "scalar" /\ f.value \in Seq(Octet) /\ Len(f.value) \in Sizes
    BY <1>4 DEF ScalarThere, IsScalar
  <2>2. CASE Unset(y, id) /\ f.value = Default(f.value)
    <3>1. GetField(d.buf, t, id, Len(f.value), Default(f.value)) = f.value
      BY <1>2, <2>2 DEF GetField
    <3>. QED BY <2>1, <3>1 DEF ReadsField, t
  <2>3. CASE Stored(d, y, id, f.value, Len(f.value))
    <3>1. p # Null /\ Bytes(d.buf, p, Len(f.value)) = f.value
      BY <1>3, <2>1, <2>3
    <3>2. GetField(d.buf, t, id, Len(f.value), Default(f.value)) = f.value
      BY <3>1 DEF GetField
    <3>. QED BY <2>1, <3>2 DEF ReadsField, t
  <2>. QED BY <1>4, <2>2, <2>3 DEF ScalarThere
<1>5. CASE OptionalThere(d, y, f)
  <2>1. /\ f.kind = "optional" /\ f.value \in Seq(Octet) /\ Len(f.value) \in Sizes
        /\ Stored(d, y, id, f.value, Len(f.value))
    BY <1>5 DEF OptionalThere, IsScalar
  <2>2. CheckField(d.buf, t, id) /\ Bytes(d.buf, p, Len(f.value)) = f.value
    BY <1>3, <2>1
  <2>. QED BY <2>1, <2>2 DEF ReadsField, t
<1>6. CASE StructThere(d, y, f)
  <2>1. f.kind = "struct" /\ f.value = Struct /\ Stored(d, y, id, Struct, 4)
    BY <1>6 DEF StructThere
  <2>2. 4 \in Sizes
    BY DEF Sizes
  <2>3. CheckField(d.buf, t, id) /\ Bytes(d.buf, p, Len(Struct)) = Struct
    BY <1>3, <2>1, <2>2, StructType
  <2>. QED BY <2>1, <2>3 DEF ReadsField, t
<1>7. CASE OffsetThere(d, y, f)
  <2>1. f.kind = "offset"
    BY <1>7 DEF OffsetThere
  <2>2. PICK off : StoredAt(d, y, id, off) /\ Reference(d, off, f.value)
    BY <1>7 DEF OffsetThere
  <2>3. p = AddressAt(d, off)
    BY <1>2, <2>2
  <2>4. /\ AddressAt(d, off) \in Nat
        /\ AddressAt(d, off) + uoffset(d.buf, AddressAt(d, off)) = AddressAt32(d, f.value)
    BY <2>2, ReadsReference
  <2>5. p # Null /\ p + uoffset(d.buf, p) = AddressAt32(d, f.value)
    BY <2>3, <2>4 DEF Null
  <2>6. GetPointer(d.buf, t, id) = AddressAt32(d, f.value)
    BY <2>5 DEF GetPointer
  <2>. QED BY <2>1, <2>6 DEF ReadsField, t
<1>8. CASE Offset64There(d, y, f)
  <2>1. f.kind = "offset64"
    BY <1>8 DEF Offset64There
  <2>2. PICK off : StoredAt(d, y, id, off) /\ Reference64(d, off, f.value)
    BY <1>8 DEF Offset64There
  <2>3. p = AddressAt(d, off)
    BY <1>2, <2>2
  <2>4. /\ AddressAt(d, off) \in Nat
        /\ AddressAt(d, off) + uoffset64(d.buf, AddressAt(d, off)) = AddressAt(d, f.value)
    BY <2>2, ReadsReference64
  <2>5. p # Null /\ p + uoffset64(d.buf, p) = AddressAt(d, f.value)
    BY <2>3, <2>4 DEF Null
  <2>6. GetPointer64(d.buf, t, id) = AddressAt(d, f.value)
    BY <2>5 DEF GetPointer64
  <2>. QED BY <2>1, <2>6 DEF ReadsField, t
<1>. QED BY <1>4, <1>5, <1>6, <1>7, <1>8 DEF FieldThere

\* A table reads as it was built, and has no other fields.
LEMMA ReadsTable ==
  ASSUME NEW d \in Builder, CanHold(d), NEW at, NEW v, NEW F, TableIs(d, at, v, F)
  PROVE  /\ \A j \in DOMAIN F : ReadsField(d, AddressAt32(d, at), F[j])
         /\ \A id : IsFieldOffset(id) /\ CheckField(d.buf, AddressAt32(d, at), id)
              => \E j \in DOMAIN F : F[j].id = id
<1>1. PICK size, n, y : /\ IsVTable(VBytes(d, v + d.length64), size, n, y, at)
                        /\ Located(y, at, size, F) /\ AllThere(d, y, F)
  BY DEF TableIs
<1>0. TableWith(d, at, v, F, size, n, y)
  BY <1>1 DEF TableWith
<1>2. ASSUME NEW j \in DOMAIN F PROVE ReadsField(d, AddressAt32(d, at), F[j])
  <2>1. FieldThere(d, y, F[j])
    BY <1>1 DEF AllThere
  <2>. QED BY <1>0, <2>1, ReadsAField
<1>3. ASSUME NEW id, IsFieldOffset(id), CheckField(d.buf, AddressAt32(d, at), id)
      PROVE  \E j \in DOMAIN F : F[j].id = id
  BY <1>0, <1>3, ReadsStoredAddress
<1>. QED BY <1>2, <1>3

-----------------------------------------------------------------------------
(* EndTable. *)

LEMMA VTableSizeIs ==
  ASSUME NEW d \in Builder, NEW s, NEW F, Tracked(d, s, F)
  PROVE  /\ IsVTableSize(VTableSize(d))
         /\ \A i \in DOMAIN d.fields : d.fields[i].id <= VTableSize(d) - 2
<1>. DEFINE m == d.max_voffset_
<1>1. m = 0 \/ IsFieldOffset(m)
  BY DEF Tracked
<1>2. \A i \in DOMAIN d.fields : IsFieldOffset(d.fields[i].id) /\ d.fields[i].id <= m
  BY DEF Tracked
<1>3. VTableSize(d) = IF m + 2 > 4 THEN m + 2 ELSE 4
  BY DEF VTableSize
<1>. HIDE DEF m
<1>4. CASE m = 0
  <2>1. VTableSize(d) = 4
    BY <1>3, <1>4
  <2>2. IsVTableSize(4)
    BY SMT DEF IsVTableSize
  <2>3. \A i \in DOMAIN d.fields : FALSE
    BY <1>2, <1>4 DEF IsFieldOffset
  <2>. QED BY <2>1, <2>2, <2>3
<1>5. CASE IsFieldOffset(m)
  <2>1. m \in Nat /\ 4 <= m /\ m <= 65532 /\ (m % 2) = 0
    BY <1>5 DEF IsFieldOffset
  <2>2. VTableSize(d) = m + 2
    BY <1>3, <2>1
  <2>3. IsVTableSize(m + 2)
    BY <2>1, SMT DEF IsVTableSize
  <2>4. \A i \in DOMAIN d.fields : d.fields[i].id \in Nat /\ d.fields[i].id <= m
    BY <1>2 DEF IsFieldOffset
  <2>5. (m + 2) - 2 = m
    BY <2>1
  <2>. QED BY <2>2, <2>3, <2>4, <2>5
<1>. QED BY <1>1, <1>4, <1>5

LEMMA EndingLocates ==
  ASSUME NEW d \in Builder, NEW s, NEW F, Tracked(d, s, F), CanEndTable(d, s)
  PROVE  /\ Located(d.fields, TableAt(d), VTableSize(d), F)
         /\ 0 < TableAt(d) - s /\ s \in Int
<1>1. /\ s \in Int /\ s <= GetSizeRelative32BitRegion(d)
      /\ \A i \in DOMAIN d.fields :
           /\ IsFieldOffset(d.fields[i].id)
           /\ s < d.fields[i].off /\ d.fields[i].off <= GetSizeRelative32BitRegion(d)
           /\ \E j \in DOMAIN F : F[j].id = d.fields[i].id
  BY DEF Tracked
<1>2. /\ IsVTableSize(VTableSize(d))
      /\ \A i \in DOMAIN d.fields : d.fields[i].id <= VTableSize(d) - 2
  BY VTableSizeIs
<1>3. /\ TableAt(d) \in Int
      /\ GetSizeRelative32BitRegion(d) \in Int
      /\ GetSizeRelative32BitRegion(d) + 4 <= TableAt(d)
  <2>1. /\ TableAt(d) \in Int /\ TableAt(d) + d.length64 = GetSize(Placed(d))
        /\ GetSize(d) + 4 <= GetSize(Placed(d)) /\ GetSize(Placed(d)) \in Nat
    BY Placing
  <2>2. /\ GetSize(d) \in Nat /\ d.length64 \in Nat
        /\ GetSizeRelative32BitRegion(d) = GetSize(d) - d.length64
    BY BuilderType
  <2>. QED BY <2>1, <2>2
<1>4. /\ \A i, j \in DOMAIN d.fields : i # j => d.fields[i].id # d.fields[j].id
      /\ TableAt(d) - s < 65536
  BY DEF CanEndTable, TableAt, Placed
<1>5. d.fields \in Seq(FieldLoc)
  BY DEF Builder
<1>6. ASSUME NEW i \in DOMAIN d.fields
      PROVE  IsShort(TableAt(d) - d.fields[i].off) /\ TableAt(d) - d.fields[i].off # 0
  <2>1. d.fields[i] \in FieldLoc
    BY <1>5
  <2>2. d.fields[i].off \in Int
    BY <2>1 DEF FieldLoc
  <2>3. s < d.fields[i].off /\ d.fields[i].off <= GetSizeRelative32BitRegion(d)
    BY <1>1
  <2>. HIDE DEF TableAt, GetSizeRelative32BitRegion
  <2>4. /\ TableAt(d) - d.fields[i].off \in Nat /\ TableAt(d) - d.fields[i].off # 0
        /\ TableAt(d) - d.fields[i].off <= TableAt(d) - s
    BY <1>1, <1>3, <2>2, <2>3
  <2>5. TableAt(d) - d.fields[i].off <= 65535
    BY <1>1, <1>3, <1>4, <2>2, <2>4, SMT
  <2>. QED BY <2>4, <2>5 DEF IsShort
<1>7. 0 < TableAt(d) - s
  BY <1>1, <1>3
<1>. QED BY <1>1, <1>2, <1>3, <1>4, <1>5, <1>6, <1>7 DEF Located

\* The new vtable differs from those there.
LEMMA NewLayoutDiffers ==
  ASSUME NEW d \in Builder, NEW s \in Int, IsVTableSize(VTableSize(d)), Same(d, s) = {},
         d.dedup_vtables_, NEW i \in DOMAIN d.vtables, VTableThere(d, d.vtables[i]),
         d.length64 = 0
  PROVE  VBytes(d, d.vtables[i]) # NewVTable(d, s)
<1>. DEFINE w == Written(d, s)
            u == NewVTable(d, s)
<1>1. /\ w \in Builder /\ Kept(Placed(d), w) /\ Spot(w, GetSize(w), u, 2)
      /\ IsVTable(u, VTableSize(d), TableAt(d) - s, d.fields, TableAt(d))
  BY WritingVTable
<1>2. Placed(d) \in Builder /\ Kept(d, Placed(d))
  BY Placing
<1>3. ~SameVTable(w, d.vtables[i])
  BY DEF Same
<1>4. Whole(u)
  BY <1>1, VTableWhole
<1>. HIDE DEF w, u
<1>5. Kept(d, w)
  BY <1>1, <1>2, KeptTransitive
<1>6. VTableThere(w, d.vtables[i]) /\ VBytes(w, d.vtables[i]) = VBytes(d, d.vtables[i])
  BY <1>1, <1>5, VTableKept
<1>7. Holds(w.buf, GetSize(w), u)
  BY <1>1 DEF Spot
<1>8. SameVTable(w, d.vtables[i]) <=> VBytes(w, d.vtables[i]) = u
  BY <1>1, <1>4, <1>6, <1>7, SameVTableIs
<1>. QED BY <1>3, <1>6, <1>8 DEF u

LEMMA TableEnded ==
  ASSUME NEW d \in Builder, NEW s \in Int, NEW F, AllThere(d, d.fields, F),
         Located(d.fields, TableAt(d), VTableSize(d), F),
         NEW c, NEW v, EndedTable(d, s, c, v)
  PROVE  /\ TableIs(c, TableAt(d), v, F)
         /\ c \in Builder /\ Kept(d, c) /\ c.nested = FALSE /\ SameOptions(d, c)
         /\ c.fields = <<>> /\ c.max_voffset_ = 0
<1>1. /\ c \in Builder /\ Kept(d, c) /\ c.nested = FALSE
      /\ SameOptions(d, c) /\ c.fields = <<>> /\ c.max_voffset_ = 0
      /\ v \in Int
      /\ Spot(c, TableAt(d) + d.length64, Scalar(v - TableAt(d), 4), 4)
      /\ VTableThere(c, v + d.length64)
      /\ IsVTable(VBytes(c, v + d.length64), VTableSize(d), TableAt(d) - s, d.fields, TableAt(d))
  BY DEF EndedTable
<1>2. c.length64 = d.length64
  BY <1>1 DEF SameOptions
<1>3. AllThere(c, d.fields, F)
  BY <1>1, <1>2, AllKept DEF Located
<1>4. TableAt(d) \in Int
  BY DEF Located
<1>5. TableIs(c, TableAt(d), v, F)
  BY <1>1, <1>2, <1>3, <1>4 DEF TableIs
<1>. QED BY <1>1, <1>5

\* What EndTable does to a builder: v is the offset of the vtable used.
TableMade(d, c, v, F) ==
  /\ TableIs(c, TableAt(d), v, F)
  /\ c \in Builder /\ Kept(d, c) /\ c.nested = FALSE /\ SameOptions(d, c)
  /\ c.fields = <<>> /\ c.max_voffset_ = 0
  /\ \/ /\ c.vtables = Append(d.vtables, v)
        /\ d.dedup_vtables_ /\ d.length64 = 0
             => \A i \in DOMAIN d.vtables : VBytes(d, d.vtables[i]) # VBytes(c, v)
     \/ /\ c.vtables = d.vtables
        /\ \E i \in DOMAIN d.vtables : v = d.vtables[i]

LEMMA EndingTable ==
  ASSUME NEW d \in Builder, NEW s, NEW F, Open(d, s, F), CanEndTable(d, s),
         d.dedup_vtables_ =>
           d.length64 = 0 /\ \A i \in DOMAIN d.vtables : VTableThere(d, d.vtables[i])
  PROVE  \E v : TableMade(d, EndTable(d, s), v, F)
<1>. DEFINE c == EndTable(d, s)
<1>1. /\ Located(d.fields, TableAt(d), VTableSize(d), F) /\ s \in Int
      /\ AllThere(d, d.fields, F) /\ IsVTableSize(VTableSize(d))
  BY EndingLocates, VTableSizeIs DEF Open
<1>2. CASE Same(d, s) = {}
  <2>1. PICK v : /\ EndedTable(d, s, c, v) /\ c.vtables = Append(d.vtables, v)
                 /\ VBytes(c, v + d.length64) = NewVTable(d, s)
    BY <1>1, <1>2, EndingNewLayout
  <2>. HIDE DEF c
  <2>2. /\ TableIs(c, TableAt(d), v, F)
        /\ c \in Builder /\ Kept(d, c) /\ c.nested = FALSE /\ SameOptions(d, c)
        /\ c.fields = <<>> /\ c.max_voffset_ = 0
    BY <1>1, <2>1, TableEnded
  <2>3. ASSUME d.dedup_vtables_, d.length64 = 0, NEW i \in DOMAIN d.vtables
        PROVE  VBytes(d, d.vtables[i]) # VBytes(c, v)
    <3>1. VBytes(d, d.vtables[i]) # NewVTable(d, s)
      BY <1>1, <1>2, <2>3, NewLayoutDiffers
    <3>2. v \in Int
      BY <2>1 DEF EndedTable
    <3>3. v + d.length64 = v
      BY <2>3, <3>2
    <3>. QED BY <2>1, <3>1, <3>3
  <2>. QED BY <2>1, <2>2, <2>3 DEF TableMade, c
<1>3. CASE Same(d, s) # {}
  <2>1. d.dedup_vtables_
    BY <1>3 DEF Same
  <2>2. PICK i \in DOMAIN d.vtables :
          EndedTable(d, s, c, d.vtables[i]) /\ c.vtables = d.vtables
    BY <1>1, <1>3, <2>1, EndingSharedLayout
  <2>. HIDE DEF c
  <2>3. /\ TableIs(c, TableAt(d), d.vtables[i], F)
        /\ c \in Builder /\ Kept(d, c) /\ c.nested = FALSE /\ SameOptions(d, c)
        /\ c.fields = <<>> /\ c.max_voffset_ = 0
    BY <1>1, <2>2, TableEnded
  <2>4. TableMade(d, c, d.vtables[i], F)
    BY <2>2, <2>3 DEF TableMade
  <2>. QED BY <2>4 DEF c
<1>. QED BY <1>2, <1>3

-----------------------------------------------------------------------------
(* Finish. *)

Greater(m, al) == IF al > m THEN al ELSE m

LEMMA TrackingMin ==
  ASSUME NEW d \in Builder, NEW al \in Sizes
  PROVE  TrackMinAlign(d, al).minalign_ = Greater(d.minalign_, al)
BY DEF TrackMinAlign, Builder, Greater

LEMMA AligningMin ==
  ASSUME NEW d \in Builder, NEW al \in Sizes
  PROVE  Align(d, al).minalign_ = Greater(d.minalign_, al)
<1>. DEFINE n == PaddingBytes(GetSize(d), al)
            t == TrackMinAlign(d, al)
<1>1. t \in Builder /\ t.minalign_ = Greater(d.minalign_, al)
  BY Tracking, TrackingMin DEF Grown
<1>2. n \in Nat
  BY BuilderType, Padding, SizesAre
<1>3. Align(d, al) = Pad(t, n)
  BY DEF Align
<1>. HIDE DEF n, t
<1>. QED BY <1>1, <1>2, <1>3, Padded

LEMMA PreAligningMin ==
  ASSUME NEW d \in Builder, NEW n \in Nat, n # 0, NEW al \in Sizes
  PROVE  PreAlign(d, n, al).minalign_ = Greater(d.minalign_, al)
<1>. DEFINE k == PaddingBytes(GetSize(d) + n, al)
            t == TrackMinAlign(d, al)
<1>1. t \in Builder /\ t.minalign_ = Greater(d.minalign_, al)
  BY Tracking, TrackingMin DEF Grown
<1>2. k \in Nat
  <2>1. GetSize(d) + n \in Nat
    BY BuilderType
  <2>. QED BY <2>1, Padding, SizesAre
<1>3. PreAlign(d, n, al) = Pad(t, k)
  BY DEF PreAlign
<1>. HIDE DEF k, t
<1>. QED BY <1>1, <1>2, <1>3, Padded

LEMMA PushingElementMin ==
  ASSUME NEW d \in Builder, NEW x \in Seq(Octet), NEW w \in Sizes, Len(x) = w
  PROVE  PushElement(d, x).minalign_ = Greater(d.minalign_, w)
<1>. DEFINE a == Align(d, w)
<1>1. a \in Builder /\ a.minalign_ = Greater(d.minalign_, w)
  BY Aligning, AligningMin DEF Grown
<1>2. PushElement(d, x) = PushBytes(a, x)
  BY DEF PushElement
<1>. HIDE DEF a
<1>. QED BY <1>1, <1>2, Pushing

LEMMA PushingReferenceMin ==
  ASSUME NEW d \in Builder, NEW off \in Int
  PROVE  PushReference(d, off).minalign_ = Greater(d.minalign_, 4)
<1>. DEFINE a == Align(d, 4)
            x == Scalar(GetSizeRelative32BitRegion(a) - off + 4, 4)
<1>1. 4 \in Sizes
  BY DEF Sizes
<1>2. a \in Builder /\ a.minalign_ = Greater(d.minalign_, 4)
  BY <1>1, Aligning, AligningMin DEF Grown
<1>3. PushReference(d, off) = PushElement(a, x)
  BY DEF PushReference
<1>4. x \in Seq(Octet) /\ Len(x) = 4
  <2>1. GetSizeRelative32BitRegion(a) \in Int
    BY <1>2, BuilderType
  <2>2. GetSizeRelative32BitRegion(a) - off + 4 \in Int
    BY <2>1
  <2>. QED BY <2>2, LengthType
<1>5. d.minalign_ \in Sizes
  BY BuilderType
<1>. HIDE DEF a, x
<1>6. PushElement(a, x).minalign_ = Greater(a.minalign_, 4)
  BY <1>1, <1>2, <1>4, PushingElementMin
<1>7. Greater(Greater(d.minalign_, 4), 4) = Greater(d.minalign_, 4)
  BY <1>5 DEF Greater, Sizes
<1>. QED BY <1>2, <1>3, <1>6, <1>7

\* The room for the size prefix.
PrefixSize(d, size_prefix) == IF size_prefix THEN (IF d.is64 THEN 8 ELSE 4) ELSE 0

Rooted(d, target, identifier, prefix) ==
  LET tracked == TrackMinAlign(d, prefix)
      aligned == PreAlign(tracked, prefix + 4 + Len(identifier), tracked.minalign_) IN
  PushReference(PushBytes(aligned, identifier), target)

LEMMA TrackingNothing ==
  ASSUME NEW d \in Builder
  PROVE  TrackMinAlign(d, 0) = d
<1>1. d.minalign_ \in Nat
  BY BuilderType
<1>2. (IF 0 > d.minalign_ THEN 0 ELSE d.minalign_) = d.minalign_
  BY <1>1
<1>. QED BY <1>2 DEF TrackMinAlign, Builder

LEMMA Multiples ==
  ASSUME NEW m \in {4, 8}, NEW p \in {0, 4, 8}, p <= m, NEW l \in {0, 4}, NEW n \in Nat,
         ((n + (p + 4 + l)) % m) = 0
  PROVE  /\ ((n + l) % 4) = 0
         /\ (((n + l) + 4) + p) % m = 0
         /\ p # 0 => (((n + l) + 4) % p) = 0
<1>1. CASE m = 4
  BY <1>1
<1>2. CASE m = 8
  <2>1. CASE l = 0
    BY <1>2, <2>1
  <2>2. CASE l = 4
    BY <1>2, <2>2
  <2>. QED BY <2>1, <2>2
<1>. QED BY <1>1, <1>2

\* The offset of the root, and the identifier behind it.
LEMMA Rooting ==
  ASSUME NEW d \in Builder, NEW target \in Int, CanReferTo(d, target),
         NEW id \in Seq(Octet), Len(id) \in {0, 4}, NEW p \in {0, 4, 8}
  PROVE  /\ Grown(d, Rooted(d, target, id, p)) /\ Rooted(d, target, id, p).nested = d.nested
         /\ Reference(Rooted(d, target, id, p), GetSize(Rooted(d, target, id, p)), target)
         /\ p <= Rooted(d, target, id, p).minalign_
         /\ ((GetSize(Rooted(d, target, id, p)) + p) % Rooted(d, target, id, p).minalign_) = 0
         /\ p # 0 => (GetSize(Rooted(d, target, id, p)) % p) = 0
<1>. DEFINE t == TrackMinAlign(d, p)
            m == t.minalign_
            n == p + 4 + Len(id)
            a == PreAlign(t, n, m)
            e == PushBytes(a, id)
            c == PushReference(e, target)
<1>1. Rooted(d, target, id, p) = c
  BY DEF Rooted
<1>2. Grown(d, t) /\ t.nested = d.nested /\ GetSize(t) = GetSize(d) /\ p <= m
  <2>1. CASE p = 0
    BY <2>1, TrackingNothing, GrownSelf, BuilderType
  <2>2. CASE p \in {4, 8}
    <3>1. p \in Sizes
      BY <2>2 DEF Sizes
    <3>. QED BY <3>1, Tracking
  <2>. QED BY <2>1, <2>2
<1>3. n \in Nat /\ n # 0
  OBVIOUS
<1>. HIDE DEF t, n
<1>4. t \in Builder /\ m \in Sizes
  BY <1>2, BuilderType DEF Grown
<1>5. /\ Grown(t, a) /\ a.nested = t.nested /\ ((GetSize(a) + n) % m) = 0
      /\ a.minalign_ = m
  <2>1. a.minalign_ = Greater(m, m)
    BY <1>3, <1>4, PreAligningMin
  <2>2. Greater(m, m) = m
    BY DEF Greater
  <2>. HIDE DEF m
  <2>. QED BY <1>3, <1>4, <2>1, <2>2, PreAligning
<1>. HIDE DEF a, m
<1>6. a \in Builder
  BY <1>5 DEF Grown
<1>7. /\ Grown(a, e) /\ e.nested = a.nested /\ e.minalign_ = m
      /\ GetSize(e) = GetSize(a) + Len(id)
  BY <1>5, <1>6, Pushing
<1>. HIDE DEF e
<1>8. e \in Builder
  BY <1>7 DEF Grown
<1>9. /\ Grown(e, c) /\ c.nested = e.nested
      /\ (GetSize(e) % 4) = 0 => GetSize(c) = GetSize(e) + 4
      /\ Spot(c, GetSize(c), Scalar(GetSizeRelative32BitRegion(c) - target, 4), 4)
      /\ c.minalign_ = Greater(m, 4)
  BY <1>7, <1>8, PushingReference, PushingReferenceMin
<1>10. Grown(d, e)
  BY <1>2, <1>4, <1>5, <1>6, <1>7, GrownTransitive
<1>11. Grown(d, c)
  BY <1>8, <1>9, <1>10, GrownTransitive
<1>12. CanReferTo(e, target)
  BY <1>10, CanStillRefer
<1>13. Reference(c, GetSize(c), target)
  BY <1>8, <1>12, Referring
<1>14. (GetSize(c) % 4) = 0
  BY <1>9 DEF Spot
<1>. HIDE DEF c
<1>15. c \in Builder /\ GetSize(c) \in Nat /\ GetSize(a) \in Nat
  BY <1>6, <1>11, BuilderType DEF Grown
<1>16. /\ p <= c.minalign_ /\ ((GetSize(c) + p) % c.minalign_) = 0
       /\ p # 0 => (GetSize(c) % p) = 0
  <2>1. CASE m \in {1, 2}
    <3>1. p = 0 /\ c.minalign_ = 4
      BY <1>2, <1>9, <2>1 DEF Greater, m
    <3>. QED BY <1>14, <1>15, <3>1
  <2>2. CASE m \in {4, 8}
    <3>1. c.minalign_ = m
      BY <1>9, <2>2 DEF Greater
    <3>2. /\ ((GetSize(a) + Len(id)) % 4) = 0
          /\ (((GetSize(a) + Len(id)) + 4) + p) % m = 0
          /\ p # 0 => (((GetSize(a) + Len(id)) + 4) % p) = 0
      <4>1. ((GetSize(a) + (p + 4 + Len(id))) % m) = 0
        BY <1>5 DEF n
      <4>2. p <= m
        BY <1>2 DEF m
      <4>. QED BY <1>15, <2>2, <4>1, <4>2, Multiples
    <3>3. GetSize(c) = (GetSize(a) + Len(id)) + 4
      BY <1>7, <1>9, <3>2
    <3>. QED BY <1>2, <3>1, <3>2, <3>3 DEF m
  <2>. QED BY <1>4, <2>1, <2>2 DEF Sizes
<1>. QED BY <1>1, <1>2, <1>5, <1>7, <1>9, <1>11, <1>13, <1>16

\* The size in front.
Prefixed(r, p) == IF p # 0 THEN PushElement(r, Scalar(GetSize(r), p)) ELSE r

LEMMA Prefixing ==
  ASSUME NEW r \in Builder, NEW p \in {0, 4, 8}, NEW target,
         Reference(r, GetSize(r), target), p <= r.minalign_,
         ((GetSize(r) + p) % r.minalign_) = 0, p # 0 => (GetSize(r) % p) = 0
  PROVE  /\ Grown(r, Prefixed(r, p)) /\ Prefixed(r, p).nested = r.nested
         /\ (GetSize(Prefixed(r, p)) % Prefixed(r, p).minalign_) = 0
         /\ Reference(Prefixed(r, p), GetSize(Prefixed(r, p)) - p, target)
<1>1. GetSize(r) \in Nat /\ r.minalign_ \in Nat
  BY BuilderType
<1>2. CASE p = 0
  <2>1. Prefixed(r, p) = r
    BY <1>2 DEF Prefixed
  <2>2. GetSize(r) + p = GetSize(r) /\ GetSize(r) - p = GetSize(r)
    BY <1>1, <1>2
  <2>. QED BY <2>1, <2>2, GrownSelf
<1>3. CASE p # 0
  <2>. DEFINE x == Scalar(GetSize(r), p)
              c == PushElement(r, x)
  <2>1. p \in Sizes /\ p \in Nat
    BY <1>3 DEF Sizes
  <2>2. x \in Seq(Octet) /\ Len(x) = p
    BY <1>1, <2>1, ScalarType
  <2>3. Prefixed(r, p) = c
    BY <1>3 DEF Prefixed
  <2>. HIDE DEF x
  <2>4. /\ Grown(r, c) /\ c.nested = r.nested
        /\ (GetSize(r) % p) = 0 => GetSize(c) = GetSize(r) + p
    BY <2>1, <2>2, PushingElement
  <2>5. c.minalign_ = r.minalign_
    <3>1. c.minalign_ = Greater(r.minalign_, p)
      BY <2>1, <2>2, PushingElementMin
    <3>. QED BY <1>1, <2>1, <3>1 DEF Greater
  <2>6. GetSize(c) = GetSize(r) + p
    BY <1>3, <2>4
  <2>. HIDE DEF c
  <2>7. (GetSize(c) % c.minalign_) = 0
    BY <2>5, <2>6
  <2>8. c \in Builder /\ Kept(r, c) /\ c.length64 = r.length64
    BY <2>4 DEF Grown, SameRest
  <2>9. Reference(c, GetSize(r), target)
    BY <2>8, ReferenceKept
  <2>10. GetSize(c) - p = GetSize(r)
    BY <1>1, <2>1, <2>6
  <2>. QED BY <2>3, <2>4, <2>7, <2>9, <2>10
<1>. QED BY <1>2, <1>3

Sealed(d) == [d EXCEPT !.vtables = <<>>, !.finished = TRUE]

LEMMA Sealing ==
  ASSUME NEW d \in Builder
  PROVE  LET c == Sealed(d) IN
         /\ c \in Builder /\ c.buf = d.buf /\ c.minalign_ = d.minalign_
         /\ c.finished = TRUE /\ c.nested = d.nested /\ c.vtables = <<>>
         /\ c.fields = d.fields /\ c.max_voffset_ = d.max_voffset_
         /\ c.length64 = d.length64 /\ c.is64 = d.is64
         /\ c.force_defaults_ = d.force_defaults_ /\ c.dedup_vtables_ = d.dedup_vtables_
<1>. DEFINE e == [d EXCEPT !.vtables = <<>>]
            c == [e EXCEPT !.finished = TRUE]
<1>1. <<>> \in Seq(Int)
  OBVIOUS
<1>2. /\ e \in Builder /\ e.buf = d.buf /\ e.minalign_ = d.minalign_
      /\ e.vtables = <<>> /\ e.fields = d.fields /\ e.max_voffset_ = d.max_voffset_
      /\ e.length64 = d.length64
  BY <1>1 DEF Builder
<1>3. e.nested = d.nested /\ e.is64 = d.is64
  BY DEF Builder
<1>4. e.force_defaults_ = d.force_defaults_ /\ e.dedup_vtables_ = d.dedup_vtables_
  BY DEF Builder
<1>. HIDE DEF e
<1>5. /\ c \in Builder /\ c.buf = e.buf /\ c.minalign_ = e.minalign_
      /\ c.vtables = e.vtables /\ c.fields = e.fields /\ c.max_voffset_ = e.max_voffset_
      /\ c.length64 = e.length64
  BY <1>2 DEF Builder
<1>6. c.nested = e.nested /\ c.is64 = e.is64
  BY <1>2 DEF Builder
<1>7. c.force_defaults_ = e.force_defaults_ /\ c.dedup_vtables_ = e.dedup_vtables_
  BY <1>2 DEF Builder
<1>8. c.finished = TRUE
  BY <1>2, Zenon DEF Builder
<1>9. Sealed(d) = c
  BY DEF e, Sealed
<1>. HIDE DEF c
<1>. QED BY <1>2, <1>3, <1>4, <1>5, <1>6, <1>7, <1>8, <1>9

\* What Finish does to a builder.
FinishMade(d, c, target, p) ==
  /\ c \in Builder /\ Kept(d, c) /\ c.finished = TRUE /\ c.nested = d.nested
  /\ c.vtables = <<>> /\ c.fields = d.fields /\ c.max_voffset_ = d.max_voffset_
  /\ c.length64 = d.length64 /\ c.is64 = d.is64
  /\ c.force_defaults_ = d.force_defaults_ /\ c.dedup_vtables_ = d.dedup_vtables_
  /\ (GetSize(c) % c.minalign_) = 0
  /\ Reference(c, GetSize(c) - PrefixSize(d, p), target)

LEMMA FinishIs ==
  ASSUME NEW d, NEW target, NEW id, NEW p \in BOOLEAN
  PROVE  Finish(d, target, id, p)
           = Sealed(Prefixed(Rooted(d, target, id, PrefixSize(d, p)), PrefixSize(d, p)))
<1>1. CASE p = FALSE
  <2>1. PrefixSize(d, p) = 0
    BY <1>1 DEF PrefixSize
  <2>. QED BY <1>1, <2>1, Zenon DEF Finish, Prefixed, Rooted, PrefixSize, Sealed
<1>2. CASE p = TRUE
  <2>1. PrefixSize(d, p) # 0
    BY <1>2 DEF PrefixSize
  <2>. QED BY <1>2, <2>1, Zenon DEF Finish, Prefixed, Rooted, PrefixSize, Sealed
<1>. QED BY <1>1, <1>2

LEMMA Finishing ==
  ASSUME NEW d \in Builder, NEW target \in Int, CanReferTo(d, target),
         NEW id \in Seq(Octet), Len(id) \in {0, 4}, NEW p \in BOOLEAN
  PROVE  FinishMade(d, Finish(d, target, id, p), target, p)
<1>. DEFINE k == PrefixSize(d, p)
            r == Rooted(d, target, id, k)
            x == Prefixed(r, k)
            c == Sealed(x)
<1>1. k \in {0, 4, 8}
  BY DEF PrefixSize
<1>2. Finish(d, target, id, p) = c
  BY FinishIs
<1>. HIDE DEF k
<1>3. /\ Grown(d, r) /\ r.nested = d.nested /\ Reference(r, GetSize(r), target)
      /\ k <= r.minalign_ /\ ((GetSize(r) + k) % r.minalign_) = 0
      /\ k # 0 => (GetSize(r) % k) = 0
  BY <1>1, Rooting
<1>. HIDE DEF r
<1>4. r \in Builder
  BY <1>3 DEF Grown
<1>5. /\ Grown(r, x) /\ x.nested = r.nested /\ (GetSize(x) % x.minalign_) = 0
      /\ Reference(x, GetSize(x) - k, target)
  BY <1>1, <1>3, <1>4, Prefixing
<1>. HIDE DEF x
<1>6. Grown(d, x)
  BY <1>3, <1>5, GrownTransitive
<1>7. x \in Builder /\ SameRest(d, x) /\ Kept(d, x)
  BY <1>6 DEF Grown
<1>8. /\ c \in Builder /\ c.buf = x.buf /\ c.minalign_ = x.minalign_
      /\ c.finished = TRUE /\ c.nested = x.nested /\ c.vtables = <<>>
      /\ c.fields = x.fields /\ c.max_voffset_ = x.max_voffset_
      /\ c.length64 = x.length64 /\ c.is64 = x.is64
      /\ c.force_defaults_ = x.force_defaults_ /\ c.dedup_vtables_ = x.dedup_vtables_
  BY <1>7, Sealing
<1>. HIDE DEF c
<1>9. Kept(d, c) /\ GetSize(c) = GetSize(x)
  BY <1>7, <1>8 DEF Kept, GetSize
<1>10. Kept(x, c)
  BY <1>7, <1>8, KeptSelf DEF Kept
<1>11. Reference(c, GetSize(c) - k, target)
  BY <1>5, <1>7, <1>8, <1>9, <1>10, ReferenceKept
<1>12. (GetSize(c) % c.minalign_) = 0
  BY <1>5, <1>8, <1>9
<1>13. c.nested = d.nested
  BY <1>3, <1>5, <1>8
<1>14. /\ c.fields = d.fields /\ c.max_voffset_ = d.max_voffset_
       /\ c.length64 = d.length64 /\ c.is64 = d.is64
       /\ c.force_defaults_ = d.force_defaults_ /\ c.dedup_vtables_ = d.dedup_vtables_
  BY <1>7, <1>8 DEF SameRest
<1>. QED BY <1>2, <1>8, <1>9, <1>11, <1>12, <1>13, <1>14 DEF FinishMade, k

-----------------------------------------------------------------------------
(* The objects created. *)

\* How far an object is from the end of the buffer, and its bytes, one case for each kind.
Distance(d, o) == IF o.wide THEN o.at ELSE o.at + d.length64

StringBuilt(d, o) == o.kind = "string" /\ StringThere(d, Distance(d, o), o.value, 1)
ForcedStringBuilt(d, o) ==
  o.kind = "forcedstring" /\ StringThere(d, Distance(d, o), o.value, 8)
StructBuilt(d, o) ==
  o.kind = "struct" /\ o.value = Struct /\ Spot(d, Distance(d, o), Struct, 4)
VectorBuilt(d, o) ==
  /\ o.kind = "vector"
  /\ VectorThere(d, Distance(d, o), o.value, Width(o.value), Width(o.value))
StructsBuilt(d, o) ==
  o.kind = "structs" /\ VectorThere(d, Distance(d, o), o.value, Width(o.value), 4)
ForcedBuilt(d, o) ==
  /\ o.kind = "forced" /\ o.value # <<>>
  /\ VectorThere(d, Distance(d, o), o.value, Width(o.value), 8)
Vector64Built(d, o) ==
  o.kind = "vector64" /\ Vector64There(d, Distance(d, o), o.value, Width(o.value))
OffsetsBuilt(d, o) ==
  /\ o.kind = "offsets"
  /\ \E x, y : o.value = <<x, y>> /\ OffsetsThere(d, Distance(d, o), x, y)
StringsBuilt(d, o) ==
  /\ o.kind = "strings"
  /\ \E x, y : o.value = <<x, y>> /\ StringsThere(d, Distance(d, o), x, y)
TableBuilt(d, o) == o.kind = "table" /\ ~o.wide /\ \E v : TableIs(d, o.at, v, o.value)

Built(d, o) ==
  \/ StringBuilt(d, o) \/ ForcedStringBuilt(d, o) \/ StructBuilt(d, o) \/ VectorBuilt(d, o)
  \/ StructsBuilt(d, o) \/ ForcedBuilt(d, o) \/ Vector64Built(d, o) \/ OffsetsBuilt(d, o)
  \/ StringsBuilt(d, o) \/ TableBuilt(d, o)

\* It is in the part of the buffer its offset counts through.
Inside(d, o) ==
  /\ o.at \in Int /\ o.wide \in BOOLEAN /\ 0 < o.at
  /\ o.wide => o.at <= GetSize(d)
  /\ ~o.wide => o.at <= GetSizeRelative32BitRegion(d)

ObjectThere(d, o) == Inside(d, o) /\ Built(d, o)

LEMMA SizesMembers == 1 \in Sizes /\ 2 \in Sizes /\ 4 \in Sizes /\ 8 \in Sizes
BY DEF Sizes

LEMMA InsideKept ==
  ASSUME NEW d \in Builder, NEW c \in Builder, Kept(d, c), NEW o,
         o.wide \/ c.length64 = d.length64, Inside(d, o)
  PROVE  Inside(c, o) /\ Distance(c, o) = Distance(d, o)
<1>1. GetSize(d) <= GetSize(c)
  BY KeptSize
<1>2. /\ GetSize(d) \in Nat /\ GetSize(c) \in Nat /\ d.length64 \in Nat /\ c.length64 \in Nat
      /\ GetSizeRelative32BitRegion(d) = GetSize(d) - d.length64
      /\ GetSizeRelative32BitRegion(c) = GetSize(c) - c.length64
  BY BuilderType
<1>3. /\ o.at \in Int /\ o.wide \in BOOLEAN /\ 0 < o.at
      /\ o.wide => o.at <= GetSize(d)
      /\ ~o.wide => o.at <= GetSizeRelative32BitRegion(d)
  BY DEF Inside
<1>4. o.wide => o.at <= GetSize(c)
  BY <1>1, <1>2, <1>3
<1>5. ~o.wide => o.at <= GetSizeRelative32BitRegion(c)
  BY <1>1, <1>2, <1>3
<1>. QED BY <1>3, <1>4, <1>5 DEF Inside, Distance

\* What was created stays, when the buffer grows.
LEMMA BuiltKept ==
  ASSUME NEW d \in Builder, NEW c \in Builder, Kept(d, c), NEW o,
         o.wide \in BOOLEAN, o.wide \/ c.length64 = d.length64, Built(d, o),
         o.kind \in {"string", "vector64"} \/ ~o.wide
  PROVE  Built(c, o)
<1>1. Distance(c, o) = Distance(d, o)
  BY DEF Distance
<1>. DEFINE D == Distance(d, o)
<1>2. CASE StringBuilt(d, o)
  <2>1. StringThere(c, D, o.value, 1)
    BY <1>2, SizesMembers, StringKept DEF StringBuilt
  <2>. QED BY <1>1, <1>2, <2>1 DEF StringBuilt, Built
<1>3. CASE ForcedStringBuilt(d, o)
  <2>1. StringThere(c, D, o.value, 8)
    BY <1>3, SizesMembers, StringKept DEF ForcedStringBuilt
  <2>. QED BY <1>1, <1>3, <2>1 DEF ForcedStringBuilt, Built
<1>4. CASE StructBuilt(d, o)
  <2>1. Spot(c, D, Struct, 4)
    BY <1>4, SizesMembers, StructType, SpotKept DEF StructBuilt
  <2>. QED BY <1>1, <1>4, <2>1 DEF StructBuilt, Built
<1>5. CASE VectorBuilt(d, o)
  <2>1. Width(o.value) \in Sizes
    BY <1>5 DEF VectorBuilt, VectorThere, Elements
  <2>2. VectorThere(c, D, o.value, Width(o.value), Width(o.value))
    BY <1>5, <2>1, VectorKept DEF VectorBuilt
  <2>. QED BY <1>1, <1>5, <2>2 DEF VectorBuilt, Built
<1>6. CASE StructsBuilt(d, o)
  <2>1. VectorThere(c, D, o.value, Width(o.value), 4)
    BY <1>6, SizesMembers, VectorKept DEF StructsBuilt
  <2>. QED BY <1>1, <1>6, <2>1 DEF StructsBuilt, Built
<1>7. CASE ForcedBuilt(d, o)
  <2>1. VectorThere(c, D, o.value, Width(o.value), 8)
    BY <1>7, SizesMembers, VectorKept DEF ForcedBuilt
  <2>. QED BY <1>1, <1>7, <2>1 DEF ForcedBuilt, Built
<1>8. CASE Vector64Built(d, o)
  <2>1. Vector64There(c, D, o.value, Width(o.value))
    BY <1>8, Vector64Kept DEF Vector64Built
  <2>. QED BY <1>1, <1>8, <2>1 DEF Vector64Built, Built
<1>9. CASE OffsetsBuilt(d, o)
  <2>1. PICK x, y : o.value = <<x, y>> /\ OffsetsThere(d, D, x, y)
    BY <1>9 DEF OffsetsBuilt
  <2>2. c.length64 = d.length64
    BY <1>9 DEF OffsetsBuilt
  <2>3. OffsetsThere(c, D, x, y)
    BY <2>1, <2>2, OffsetsKept
  <2>. QED BY <1>1, <1>9, <2>1, <2>3 DEF OffsetsBuilt, Built
<1>10. CASE StringsBuilt(d, o)
  <2>1. PICK x, y : o.value = <<x, y>> /\ StringsThere(d, D, x, y)
    BY <1>10 DEF StringsBuilt
  <2>2. c.length64 = d.length64
    BY <1>10 DEF StringsBuilt
  <2>3. StringsThere(c, D, x, y)
    BY <2>1, <2>2, StringsKept
  <2>. QED BY <1>1, <1>10, <2>1, <2>3 DEF StringsBuilt, Built
<1>11. CASE TableBuilt(d, o)
  <2>1. PICK v : TableIs(d, o.at, v, o.value)
    BY <1>11 DEF TableBuilt
  <2>2. c.length64 = d.length64
    BY <1>11 DEF TableBuilt
  <2>3. TableIs(c, o.at, v, o.value)
    BY <2>1, <2>2, TableKept
  <2>. QED BY <1>11, <2>3 DEF TableBuilt, Built
<1>. QED BY <1>2, <1>3, <1>4, <1>5, <1>6, <1>7, <1>8, <1>9, <1>10, <1>11 DEF Built

\* Only strings and vectors of scalars have 64-bit offsets.
WideKind(o) == o.wide => o.kind \in {"string", "vector64"}

LEMMA ObjectKept ==
  ASSUME NEW d \in Builder, NEW c \in Builder, Kept(d, c), NEW o,
         o.wide \/ c.length64 = d.length64, ObjectThere(d, o), WideKind(o)
  PROVE  ObjectThere(c, o)
<1>1. o.wide \in BOOLEAN /\ Inside(d, o) /\ Built(d, o)
  BY DEF ObjectThere, Inside
<1>2. Inside(c, o)
  BY <1>1, InsideKept
<1>3. Built(c, o)
  BY <1>1, BuiltKept DEF WideKind
<1>. QED BY <1>2, <1>3 DEF ObjectThere

\* Objects: those there are for good, whatever else is done with the builder.
AllBuilt(d, objects) ==
  \A i \in DOMAIN objects : ObjectThere(d, objects[i]) /\ WideKind(objects[i])

LEMMA AllBuiltKept ==
  ASSUME NEW d \in Builder, NEW c \in Builder, Kept(d, c), NEW objects,
         AllBuilt(d, objects), c.length64 = d.length64 \/ GetSize(d) = d.length64
  PROVE  AllBuilt(c, objects)
<1>1. ASSUME NEW i \in DOMAIN objects
      PROVE  ObjectThere(c, objects[i]) /\ WideKind(objects[i])
  <2>. DEFINE o == objects[i]
  <2>1. ObjectThere(d, o) /\ WideKind(o)
    BY DEF AllBuilt
  <2>. HIDE DEF o
  <2>2. ASSUME GetSize(d) = d.length64 PROVE o.wide
    <3>1. /\ GetSize(d) \in Nat /\ GetSizeRelative32BitRegion(d) = GetSize(d) - d.length64
      BY BuilderType
    <3>2. GetSizeRelative32BitRegion(d) = 0
      BY <2>2, <3>1
    <3>. QED BY <2>1, <3>2 DEF ObjectThere, Inside
  <2>3. ObjectThere(c, o)
    BY <2>1, <2>2, ObjectKept
  <2>. QED BY <2>1, <2>3 DEF o
<1>. QED BY <1>1 DEF AllBuilt

-----------------------------------------------------------------------------
(* What is there reads as it was created. *)

LEMMA AddressIs ==
  ASSUME b \in Builder, NEW o, Inside(b, o)
  PROVE  /\ Address(o) = AddressAt(b, Distance(b, o))
         /\ ~o.wide => Address(o) = AddressAt32(b, o.at)
<1>1. /\ GetSize(b) \in Nat /\ b.length64 \in Nat
      /\ GetSizeRelative32BitRegion(b) = GetSize(b) - b.length64
  BY BuilderType
<1>2. o.at \in Int /\ o.wide \in BOOLEAN
  BY DEF Inside
<1>. QED BY <1>1, <1>2 DEF Address, AddressAt, AddressAt32, Distance

LEMMA ReadsTheField ==
  ASSUME b \in Builder, NEW t, NEW f, ReadsField(b, t, f)
  PROVE  FieldReads(t, f)
<1>1. CASE f.kind = "scalar"
  BY <1>1 DEF FieldReads, ReadsField
<1>2. CASE f.kind = "optional"
  BY <1>2 DEF FieldReads, ReadsField
<1>3. CASE f.kind = "struct"
  BY <1>3 DEF FieldReads, ReadsField
<1>4. CASE f.kind = "offset"
  BY <1>4 DEF FieldReads, ReadsField, At, AddressAt32
<1>5. CASE f.kind = "offset64"
  BY <1>5 DEF FieldReads, ReadsField, AddressAt
<1>. QED BY <1>1, <1>2, <1>3, <1>4, <1>5 DEF ReadsField

LEMMA ReadsTheVector ==
  ASSUME b \in Builder, CanHold(b), NEW o, Inside(b, o), NEW al \in Sizes,
         VectorThere(b, Distance(b, o), o.value, Width(o.value), al)
  PROVE  /\ VectorSize(b.buf, Address(o)) = Len(o.value)
         /\ InlineElements(b.buf, Address(o), Width(o.value)) = o.value
<1>1. /\ VectorSize(b.buf, GetSize(b) - Distance(b, o)) = Len(o.value)
      /\ InlineElements(b.buf, GetSize(b) - Distance(b, o), Width(o.value)) = o.value
  BY ReadsVector
<1>. QED BY <1>1, AddressIs DEF AddressAt

LEMMA ReadsTheString ==
  ASSUME b \in Builder, CanHold(b), NEW o, Inside(b, o), NEW al \in Sizes,
         StringThere(b, Distance(b, o), o.value, al)
  PROVE  /\ GetString(b.buf, Address(o)) = o.value
         /\ b.buf[Data(Address(o)) + Len(o.value) + 1] = 0
<1>1. /\ GetString(b.buf, GetSize(b) - Distance(b, o)) = o.value
      /\ b.buf[Data(GetSize(b) - Distance(b, o)) + Len(o.value) + 1] = 0
  BY ReadsString
<1>. QED BY <1>1, AddressIs DEF AddressAt

LEMMA ReadsTheObject ==
  ASSUME b \in Builder, CanHold(b), \A f \in use.ids : IsFieldOffset(f),
         NEW o, ObjectThere(b, o)
  PROVE  ObjectReads(o)
<1>1. Inside(b, o) /\ Built(b, o)
  BY DEF ObjectThere
<1>2. Address(o) = GetSize(b) - Distance(b, o)
  BY <1>1, AddressIs DEF AddressAt
<1>3. CASE StringBuilt(b, o)
  <2>1. /\ GetString(b.buf, Address(o)) = o.value
        /\ b.buf[Data(Address(o)) + Len(o.value) + 1] = 0
    BY <1>1, <1>3, SizesMembers, ReadsTheString DEF StringBuilt
  <2>2. o.kind = "string"
    BY <1>3 DEF StringBuilt
  <2>. QED BY <2>1, <2>2 DEF ObjectReads
<1>4. CASE ForcedStringBuilt(b, o)
  <2>1. /\ GetString(b.buf, Address(o)) = o.value
        /\ b.buf[Data(Address(o)) + Len(o.value) + 1] = 0
    BY <1>1, <1>4, SizesMembers, ReadsTheString DEF ForcedStringBuilt
  <2>2. o.kind = "forcedstring"
    BY <1>4 DEF ForcedStringBuilt
  <2>. QED BY <2>1, <2>2 DEF ObjectReads
<1>5. CASE StructBuilt(b, o)
  <2>1. Bytes(b.buf, Address(o), 8) = Struct
    <3>1. Spot(b, Distance(b, o), Struct, 4)
      BY <1>5 DEF StructBuilt
    <3>. QED BY <1>2, <3>1, StructType, SizesMembers, BytesThere
  <2>2. o.kind = "struct" /\ o.value = Struct
    BY <1>5 DEF StructBuilt
  <2>. QED BY <2>1, <2>2 DEF ObjectReads
<1>6. CASE VectorBuilt(b, o)
  <2>1. /\ o.kind = "vector" /\ Width(o.value) \in Sizes
        /\ VectorThere(b, Distance(b, o), o.value, Width(o.value), Width(o.value))
    BY <1>6 DEF VectorBuilt, VectorThere, Elements
  <2>2. /\ VectorSize(b.buf, Address(o)) = Len(o.value)
        /\ InlineElements(b.buf, Address(o), Width(o.value)) = o.value
    BY <1>1, <2>1, ReadsTheVector
  <2>. QED BY <2>1, <2>2 DEF ObjectReads
<1>7. CASE StructsBuilt(b, o)
  <2>1. /\ o.kind = "structs"
        /\ VectorThere(b, Distance(b, o), o.value, Width(o.value), 4)
    BY <1>7 DEF StructsBuilt
  <2>2. /\ VectorSize(b.buf, Address(o)) = Len(o.value)
        /\ InlineElements(b.buf, Address(o), Width(o.value)) = o.value
    BY <1>1, <2>1, SizesMembers, ReadsTheVector
  <2>. QED BY <2>1, <2>2 DEF ObjectReads
<1>8. CASE ForcedBuilt(b, o)
  <2>1. /\ o.kind = "forced"
        /\ VectorThere(b, Distance(b, o), o.value, Width(o.value), 8)
    BY <1>8 DEF ForcedBuilt
  <2>2. /\ VectorSize(b.buf, Address(o)) = Len(o.value)
        /\ InlineElements(b.buf, Address(o), Width(o.value)) = o.value
    BY <1>1, <2>1, SizesMembers, ReadsTheVector
  <2>. QED BY <2>1, <2>2 DEF ObjectReads
<1>9. CASE Vector64Built(b, o)
  <2>1. /\ o.kind = "vector64"
        /\ Vector64There(b, Distance(b, o), o.value, Width(o.value))
    BY <1>9 DEF Vector64Built
  <2>2. DOMAIN o.value = 1 .. Len(o.value)
    BY <2>1 DEF Vector64There, Elements
  <2>3. ASSUME NEW i \in DOMAIN o.value
        PROVE  Bytes(b.buf, Address(o) + 8 + (i - 1) * Width(o.value), Width(o.value))
                 = o.value[i]
    <3>1. i \in 1 .. Len(o.value)
      BY <2>2
    <3>2. Bytes(b.buf, GetSize(b) - Distance(b, o) + 8 + (i - 1) * Width(o.value),
                Width(o.value)) = o.value[i]
      BY <2>1, <3>1, ReadsVector64
    <3>. QED BY <1>2, <3>2
  <2>. QED BY <2>1, <2>3 DEF ObjectReads
<1>10. CASE OffsetsBuilt(b, o)
  <2>1. o.kind = "offsets"
    BY <1>10 DEF OffsetsBuilt
  <2>2. PICK x, y : o.value = <<x, y>> /\ OffsetsThere(b, Distance(b, o), x, y)
    BY <1>10 DEF OffsetsBuilt
  <2>3. IndirectElements(b.buf, AddressAt(b, Distance(b, o))) = <<AddressAt32(b, x), AddressAt32(b, y)>>
    BY <2>2, ReadsOffsets
  <2>4. [i \in DOMAIN o.value |-> At(o.value[i])] = <<At(x), At(y)>>
    BY <2>2
  <2>5. At(x) = AddressAt32(b, x) /\ At(y) = AddressAt32(b, y)
    BY DEF At, AddressAt32
  <2>6. IndirectElements(b.buf, Address(o)) = [i \in DOMAIN o.value |-> At(o.value[i])]
    BY <1>1, <2>3, <2>4, <2>5, AddressIs
  <2>. QED BY <2>1, <2>6 DEF ObjectReads
<1>11. CASE StringsBuilt(b, o)
  <2>1. o.kind = "strings"
    BY <1>11 DEF StringsBuilt
  <2>2. PICK x, y : o.value = <<x, y>> /\ StringsThere(b, Distance(b, o), x, y)
    BY <1>11 DEF StringsBuilt
  <2>3. PICK s, t : /\ IndirectElements(b.buf, AddressAt(b, Distance(b, o))) = <<s, t>>
                    /\ GetString(b.buf, s) = x /\ GetString(b.buf, t) = y
    BY <2>2, ReadsStrings
  <2>. DEFINE e == <<s, t>>
  <2>4. [i \in DOMAIN e |-> GetString(b.buf, e[i])] = <<GetString(b.buf, s), GetString(b.buf, t)>>
    OBVIOUS
  <2>5. IndirectElements(b.buf, Address(o)) = e
    BY <1>1, <2>3, AddressIs
  <2>. HIDE DEF e
  <2>6. [i \in DOMAIN e |-> GetString(b.buf, e[i])] = o.value
    BY <2>2, <2>3, <2>4
  <2>. QED BY <2>1, <2>5, <2>6 DEF ObjectReads
<1>12. CASE TableBuilt(b, o)
  <2>1. o.kind = "table" /\ ~o.wide
    BY <1>12 DEF TableBuilt
  <2>2. PICK v : TableIs(b, o.at, v, o.value)
    BY <1>12 DEF TableBuilt
  <2>3. Address(o) = AddressAt32(b, o.at)
    BY <1>1, <2>1, AddressIs
  <2>4. /\ \A j \in DOMAIN o.value : ReadsField(b, Address(o), o.value[j])
        /\ \A id : IsFieldOffset(id) /\ CheckField(b.buf, Address(o), id)
             => \E j \in DOMAIN o.value : o.value[j].id = id
    BY <2>2, <2>3, ReadsTable
  <2>5. \A j \in DOMAIN o.value : FieldReads(Address(o), o.value[j])
    BY <2>4, ReadsTheField
  <2>6. TableReads(o)
    BY <2>4, <2>5 DEF TableReads
  <2>. QED BY <2>1, <2>6 DEF ObjectReads
<1>. QED BY <1>1, <1>3, <1>4, <1>5, <1>6, <1>7, <1>8, <1>9, <1>10, <1>11, <1>12 DEF Built

\* The root of a finished buffer.
RootThere(d, target, p) == Reference(d, GetSize(d) - PrefixSize(d, p), target)

LEMMA ReadsTheRoot ==
  ASSUME b \in Builder, CanHold(b), b.is64 = use.is64, RootThere(b, root, prefixed)
  PROVE  (IF prefixed /\ ~use.is64 THEN GetSizePrefixedRoot(b.buf)
          ELSE IF prefixed THEN 8 + uoffset(b.buf, 8)
          ELSE GetRoot(b.buf)) = At(root)
<1>. DEFINE k == PrefixSize(b, prefixed)
            off == GetSize(b) - k
<1>1. /\ AddressAt(b, off) \in Nat /\ uoffset(b.buf, AddressAt(b, off)) \in Nat
      /\ AddressAt(b, off) + uoffset(b.buf, AddressAt(b, off)) = AddressAt32(b, root)
  BY ReadsReference DEF RootThere
<1>2. k \in {0, 4, 8} /\ GetSize(b) \in Nat
  BY BuilderType DEF PrefixSize
<1>3. AddressAt(b, off) = k
  BY <1>2 DEF AddressAt
<1>4. k + uoffset(b.buf, k) = At(root) /\ uoffset(b.buf, k) \in Nat
  BY <1>1, <1>3 DEF AddressAt32, At
<1>5. CASE prefixed /\ ~use.is64
  <2>1. k = 4
    BY <1>5 DEF PrefixSize
  <2>. QED BY <1>4, <1>5, <2>1 DEF GetSizePrefixedRoot
<1>6. CASE prefixed /\ use.is64
  <2>1. k = 8
    BY <1>6 DEF PrefixSize
  <2>. QED BY <1>4, <1>6, <2>1
<1>7. CASE ~prefixed
  <2>1. k = 0
    BY <1>7 DEF PrefixSize
  <2>2. uoffset(b.buf, 0) = At(root)
    BY <1>4, <2>1
  <2>. QED BY <1>7, <2>2 DEF GetRoot
<1>. QED BY <1>5, <1>6, <1>7

-----------------------------------------------------------------------------
(* The inductive invariant. *)

\* A builder of the class its use says, no larger than a 32-bit offset reaches.
Sound(d, u) ==
  /\ d \in Builder /\ CanHold(d) /\ u \in Uses /\ d.is64 = u.is64
  /\ d.length64 <= GetSize(d) /\ (~d.is64 => d.length64 = 0)

\* A root only when finished, fields only inside a table, which Finish does not interrupt.
Stage(d, s, F, r) ==
  /\ d.finished => ~d.nested
  /\ d.finished <=> r # 0
  /\ ~d.nested => s = 0 /\ F = <<>>

\* What a 64-bit builder is not used for.
Classes(d, P, n) == n \in Nat /\ (d.is64 => ~d.dedup_vtables_ /\ P = {} /\ n = 0)

\* What a 32-bit builder remembers in vtables is a whole vtable: EndTable compares with it.
Layouts(d) == ~d.is64 => \A i \in DOMAIN d.vtables : VTableThere(d, d.vtables[i])

\* V: the vtables of the tables among the objects, one for each layout.
Sharing(d, objects, V) ==
  /\ V \in Seq(Int)
  /\ \A i \in DOMAIN V : VTableThere(d, V[i])
  /\ \A i, j \in DOMAIN V : VBytes(d, V[i]) = VBytes(d, V[j]) => V[i] = V[j]
  /\ \A k \in DOMAIN objects : objects[k].kind = "table" =>
       \E i \in DOMAIN V : TableIs(d, objects[k].at, V[i], objects[k].value)

\* They are remembered until the buffer is finished.
Shares(u, d, objects, n) ==
  u.dedup /\ n = 0 =>
    /\ d.dedup_vtables_
    /\ \E V : Sharing(d, objects, V) /\ (~d.finished => V = d.vtables)

\* string_pool: each offset is that of a string, and no two have the same contents.
PoolThere(d, P) == \A o \in P : \E s : StringThere(d, o, s, 1)
OncePooled(d, P) == \A o, q \in P : StringAt(d, o) = StringAt(d, q) => o = q

\* A finished buffer starts with the way to its root, and its size is a multiple of
\* minalign_, so distances from the end are aligned as addresses are.
RootPlaced(d, r, p) ==
  d.finished => RootThere(d, r, p) /\ (GetSize(d) % d.minalign_) = 0

\* Every object made, every field of the table under construction (Open), every vtable and
\* pooled string is in the buffer, at the offset handed out for it.
IInv ==
  /\ Sound(b, use) /\ Stage(b, start, fields, root) /\ Classes(b, pool, options)
  /\ IsSeq(made) /\ IsSeq(fields)
  /\ Open(b, start, fields) /\ AllBuilt(b, made)
  /\ Layouts(b) /\ Shares(use, b, made, options)
  /\ PoolThere(b, pool) /\ OncePooled(b, pool)
  /\ RootPlaced(b, root, prefixed)

\* The builder went on: the buffer grew at the front, and the 64-bit region only while
\* there was nothing else.
Advanced(d, c) ==
  /\ c \in Builder /\ CanHold(c) /\ Kept(d, c) /\ c.is64 = d.is64
  /\ \/ c.length64 = d.length64
     \/ d.is64 /\ GetSize(d) = d.length64 /\ c.length64 = GetSize(c)

LEMMA SoundKept ==
  ASSUME NEW d, NEW c, NEW u, Sound(d, u), Advanced(d, c)
  PROVE  Sound(c, u) /\ (~c.is64 => c.length64 = d.length64)
<1>1. d \in Builder /\ c \in Builder /\ Kept(d, c)
  BY DEF Sound, Advanced
<1>2. /\ GetSize(d) <= GetSize(c) /\ GetSize(d) \in Nat /\ GetSize(c) \in Nat
      /\ d.length64 \in Nat /\ c.length64 \in Nat
  BY <1>1, KeptSize, BuilderType
<1>3. /\ d.length64 <= GetSize(d) /\ c.is64 = d.is64
      /\ c.length64 = d.length64 \/ (d.is64 /\ c.length64 = GetSize(c))
  BY DEF Sound, Advanced
<1>4. c.length64 <= GetSize(c)
  BY <1>2, <1>3
<1>. QED BY <1>1, <1>3, <1>4 DEF Sound, Advanced

LEMMA BuiltAdvanced ==
  ASSUME NEW d \in Builder, NEW c, Advanced(d, c), NEW objects, AllBuilt(d, objects)
  PROVE  AllBuilt(c, objects)
BY AllBuiltKept DEF Advanced

LEMMA PoolAdvanced ==
  ASSUME NEW d \in Builder, CanHold(d), NEW c, Advanced(d, c), NEW P, PoolThere(d, P)
  PROVE  PoolThere(c, P) /\ \A o \in P : StringAt(c, o) = StringAt(d, o)
<1>1. c \in Builder /\ CanHold(c) /\ Kept(d, c)
  BY DEF Advanced
<1>2. ASSUME NEW o \in P
      PROVE  (\E s : StringThere(c, o, s, 1)) /\ StringAt(c, o) = StringAt(d, o)
  <2>1. PICK s : StringThere(d, o, s, 1)
    BY DEF PoolThere
  <2>2. StringThere(c, o, s, 1)
    BY <1>1, <2>1, SizesMembers, StringKept
  <2>3. GetString(d.buf, GetSize(d) - o) = s /\ GetString(c.buf, GetSize(c) - o) = s
    BY <1>1, <2>1, <2>2, SizesMembers, ReadsString
  <2>. QED BY <2>2, <2>3 DEF StringAt, data_at
<1>. QED BY <1>2 DEF PoolThere

LEMMA LayoutsAdvanced ==
  ASSUME NEW d \in Builder, NEW c, Advanced(d, c), Layouts(d), c.vtables = d.vtables
  PROVE  Layouts(c)
<1>1. c \in Builder /\ Kept(d, c) /\ c.is64 = d.is64
  BY DEF Advanced
<1>. QED BY <1>1, VTableKept DEF Layouts

LEMMA SharingKept ==
  ASSUME NEW d \in Builder, NEW c \in Builder, Kept(d, c), c.length64 = d.length64,
         NEW objects, NEW V, Sharing(d, objects, V)
  PROVE  Sharing(c, objects, V)
<1>1. \A i \in DOMAIN V : VTableThere(c, V[i]) /\ VBytes(c, V[i]) = VBytes(d, V[i])
  BY VTableKept DEF Sharing
<1>2. ASSUME NEW k \in DOMAIN objects, objects[k].kind = "table"
      PROVE  \E i \in DOMAIN V : TableIs(c, objects[k].at, V[i], objects[k].value)
  <2>1. PICK i \in DOMAIN V : TableIs(d, objects[k].at, V[i], objects[k].value)
    BY <1>2 DEF Sharing
  <2>. QED BY <2>1, TableKept
<1>. QED BY <1>1, <1>2 DEF Sharing

\* Objects other than tables do not matter.
LEMMA SharingMore ==
  ASSUME NEW d, NEW objects, NEW V, Sharing(d, objects, V),
         NEW more, NEW o, Follows(more, objects, o), o.kind # "table"
  PROVE  Sharing(d, more, V)
<1>1. ASSUME NEW k \in DOMAIN more, more[k].kind = "table"
      PROVE  \E i \in DOMAIN V : TableIs(d, more[k].at, V[i], more[k].value)
  <2>1. k \in DOMAIN objects /\ more[k] = objects[k]
    BY <1>1 DEF Follows
  <2>. QED BY <1>1, <2>1 DEF Sharing
<1>. QED BY <1>1 DEF Sharing

LEMMA UseIs ==
  ASSUME NEW u \in Uses
  PROVE  /\ u.is64 \in BOOLEAN /\ u.dedup \in BOOLEAN
         /\ u.is64 => u.shared = {} /\ ~u.dedup /\ u.options = 0
         /\ \A s \in u.strings \union u.shared \union u.identifiers \union u.scalars :
              s \in Seq(Octet)
         /\ \A x \in u.scalars : IsScalar(x)
         /\ \A s \in u.identifiers : Len(s) \in {0, 4}
         /\ \A e \in u.elements : Elements(e, Width(e))
<1>1. u.is64 \in BOOLEAN /\ u.dedup \in BOOLEAN
  BY UsesAssumption
<1>6. u.is64 => u.shared = {} /\ ~u.dedup /\ u.options = 0
  BY UsesAssumption
<1>2. \A s \in u.strings \union u.shared \union u.identifiers \union u.scalars :
        s \in Seq(Octet)
  <2>1. (u.strings \union u.shared \union u.identifiers \union u.scalars) \subseteq Seq(0 .. 255)
    BY UsesAssumption
  <2>. QED BY <2>1 DEF Octet
<1>3. \A x \in u.scalars : IsScalar(x)
  <2>1. \A e \in u.scalars : Len(e) \in {1, 2, 4, 8}
    BY UsesAssumption
  <2>. QED BY <1>2, <2>1 DEF IsScalar, Sizes
<1>4. \A e \in u.elements : Elements(e, Width(e))
  <2>1. ASSUME NEW e \in u.elements PROVE Elements(e, Width(e))
    <3>1. e \in Seq(Seq(Octet)) /\ Width(e) \in Sizes /\ \A i \in DOMAIN e : Len(e[i]) = Width(e)
      <4>1. u.elements \subseteq Seq(Seq(0 .. 255))
        BY UsesAssumption
      <4>2. Width(e) \in {1, 2, 4, 8} /\ \A i \in DOMAIN e : Len(e[i]) = Width(e)
        BY UsesAssumption
      <4>. QED BY <4>1, <4>2 DEF Octet, Sizes
    <3>. QED BY <3>1 DEF Elements
  <2>. QED BY <2>1
<1>5. \A s \in u.identifiers : Len(s) \in {0, 4}
  BY UsesAssumption DEF kFileIdentifierLength
<1>. QED BY <1>1, <1>2, <1>3, <1>4, <1>5, <1>6

LEMMA IdsAre ==
  ASSUME NEW u \in Uses
  PROVE  \A f \in u.ids : IsFieldOffset(f)
BY UsesAssumption DEF IsFieldOffset

-----------------------------------------------------------------------------
(* The start. *)

LEMMA NewBuilderIs ==
  ASSUME NEW is64 \in BOOLEAN, NEW dedup \in BOOLEAN
  PROVE  LET d == DedupVtables(NewBuilder(is64), dedup) IN
         /\ d \in Builder /\ d.buf = <<>> /\ d.vtables = <<>> /\ d.fields = <<>>
         /\ d.max_voffset_ = 0 /\ d.nested = FALSE /\ d.finished = FALSE
         /\ d.length64 = 0 /\ d.is64 = is64 /\ d.dedup_vtables_ = dedup
<1>. DEFINE e == NewBuilder(is64)
            d == DedupVtables(e, dedup)
<1>1. <<>> \in Seq(Octet) /\ <<>> \in Seq(Int) /\ <<>> \in Seq(FieldLoc) /\ 1 \in Sizes
  BY SizesMembers
<1>2. /\ e \in Builder /\ e.buf = <<>> /\ e.vtables = <<>> /\ e.fields = <<>>
      /\ e.max_voffset_ = 0 /\ e.length64 = 0
  BY <1>1 DEF NewBuilder, Builder
<1>3. e.nested = FALSE /\ e.finished = FALSE /\ e.is64 = is64
  BY DEF NewBuilder
<1>. HIDE DEF e
<1>4. /\ d \in Builder /\ d.buf = <<>> /\ d.vtables = <<>> /\ d.fields = <<>>
      /\ d.max_voffset_ = 0 /\ d.length64 = 0
  BY <1>2 DEF DedupVtables, Builder
<1>5. d.nested = FALSE /\ d.finished = FALSE /\ d.is64 = is64
  BY <1>2, <1>3, Zenon DEF DedupVtables, Builder
<1>6. d.dedup_vtables_ = dedup
  BY <1>2, Zenon DEF DedupVtables, Builder
<1>. QED BY <1>4, <1>5, <1>6 DEF e

\* A builder without anything.
Empty(d) ==
  /\ d \in Builder /\ d.buf = <<>> /\ d.vtables = <<>> /\ d.fields = <<>>
  /\ d.max_voffset_ = 0 /\ d.nested = FALSE /\ d.finished = FALSE /\ d.length64 = 0

LEMMA EmptyIsGood ==
  ASSUME NEW d, Empty(d), NEW u \in Uses, d.is64 = u.is64
  PROVE  /\ Sound(d, u) /\ Stage(d, 0, <<>>, 0) /\ IsSeq(<<>>) /\ Open(d, 0, <<>>)
         /\ AllBuilt(d, <<>>) /\ Layouts(d) /\ PoolThere(d, {}) /\ OncePooled(d, {})
         /\ (\A r, p : RootPlaced(d, r, p)) /\ Sharing(d, <<>>, d.vtables)
<1>1. /\ d \in Builder /\ d.buf = <<>> /\ d.vtables = <<>> /\ d.fields = <<>>
      /\ d.max_voffset_ = 0 /\ d.nested = FALSE /\ d.finished = FALSE /\ d.length64 = 0
  BY DEF Empty
<1>2. GetSize(d) = 0 /\ GetSizeRelative32BitRegion(d) = 0
  BY <1>1 DEF GetSize, GetSizeRelative32BitRegion
<1>3. CanHold(d)
  BY <1>2, SMT DEF CanHold, FLATBUFFERS_MAX_BUFFER_SIZE
<1>4. Sound(d, u)
  BY <1>1, <1>2, <1>3 DEF Sound
<1>5. Stage(d, 0, <<>>, 0)
  BY <1>1 DEF Stage
<1>6. IsSeq(<<>>)
  <2>1. <<>> \in Seq({})
    OBVIOUS
  <2>. QED BY <2>1 DEF IsSeq
<1>7. Open(d, 0, <<>>)
  BY <1>1, <1>2 DEF Open, Tracked, AllThere
<1>8. AllBuilt(d, <<>>) /\ Layouts(d) /\ PoolThere(d, {}) /\ OncePooled(d, {})
  BY <1>1 DEF AllBuilt, Layouts, PoolThere, OncePooled
<1>9. Sharing(d, <<>>, d.vtables)
  BY <1>1 DEF Sharing
<1>10. \A r, p : RootPlaced(d, r, p)
  BY <1>1 DEF RootPlaced
<1>. QED BY <1>4, <1>5, <1>6, <1>7, <1>8, <1>9, <1>10

LEMMA Starting == Init => IInv
<1>. SUFFICES ASSUME Init PROVE IInv
  OBVIOUS
<1>1. /\ use \in Uses /\ b = DedupVtables(NewBuilder(use.is64), use.dedup) /\ pool = {}
      /\ start = 0 /\ fields = <<>> /\ made = <<>> /\ root = 0 /\ options = 0
  BY DEF Init
<1>2. /\ use.is64 \in BOOLEAN /\ use.dedup \in BOOLEAN /\ (use.is64 => ~use.dedup)
  BY <1>1, UseIs
<1>3. Empty(b) /\ b.is64 = use.is64 /\ b.dedup_vtables_ = use.dedup
  BY <1>1, <1>2, NewBuilderIs DEF Empty
<1>4. /\ Sound(b, use) /\ Stage(b, 0, <<>>, 0) /\ IsSeq(<<>>) /\ Open(b, 0, <<>>)
      /\ AllBuilt(b, <<>>) /\ Layouts(b) /\ PoolThere(b, {}) /\ OncePooled(b, {})
      /\ RootPlaced(b, root, prefixed) /\ Sharing(b, <<>>, b.vtables)
  BY <1>1, <1>3, EmptyIsGood
<1>5. Classes(b, {}, 0)
  BY <1>2, <1>3 DEF Classes
<1>6. Shares(use, b, <<>>, 0)
  BY <1>3, <1>4 DEF Shares
<1>. QED BY <1>1, <1>4, <1>5, <1>6 DEF IInv

-----------------------------------------------------------------------------
(* A step that creates an object. *)

LEMMA NoElements ==
  ASSUME NEW y \in Seq(FieldLoc), \A i \in DOMAIN y : FALSE
  PROVE  y = <<>>
BY EmptySeq

LEMMA OpenEmpty ==
  ASSUME NEW d \in Builder, NEW s, Open(d, s, <<>>), NEW c, Rebuilt(d, c),
         NEW u, Sound(c, u)
  PROVE  c.fields = <<>> /\ Open(c, 0, <<>>)
<1>1. c \in Builder /\ c.fields = d.fields /\ c.max_voffset_ = d.max_voffset_
  BY DEF Rebuilt
<1>2. \A i \in DOMAIN d.fields : FALSE
  BY DEF Open, Tracked
<1>3. d.fields \in Seq(FieldLoc)
  BY DEF Builder
<1>4. d.fields = <<>>
  BY <1>2, <1>3, NoElements
<1>5. 0 <= GetSizeRelative32BitRegion(c)
  <2>1. /\ GetSizeRelative32BitRegion(c) = GetSize(c) - c.length64
        /\ GetSize(c) \in Nat /\ c.length64 \in Nat
    BY <1>1, BuilderType
  <2>2. c.length64 <= GetSize(c)
    BY DEF Sound
  <2>. QED BY <2>1, <2>2
<1>6. d.max_voffset_ = 0 \/ IsFieldOffset(d.max_voffset_)
  BY DEF Open, Tracked
<1>7. Tracked(c, 0, <<>>)
  BY <1>1, <1>4, <1>5, <1>6 DEF Tracked
<1>8. AllThere(c, c.fields, <<>>)
  BY DEF AllThere
<1>. QED BY <1>1, <1>4, <1>7, <1>8 DEF Open

\* c: the builder afterwards; nothing but the object created is new.
Creates(d, c, o) ==
  /\ Rebuilt(d, c) /\ CanHold(c) /\ c.nested = FALSE
  /\ \/ c.length64 = d.length64
     \/ d.is64 /\ GetSize(d) = d.length64 /\ c.length64 = GetSize(c)
  /\ ObjectThere(c, o) /\ WideKind(o) /\ o.kind # "table"

LEMMA CreationAdvances ==
  ASSUME NEW d, NEW c, NEW o, Creates(d, c, o)
  PROVE  Advanced(d, c) /\ c.vtables = d.vtables /\ c.fields = d.fields
         /\ c.finished = d.finished /\ c.dedup_vtables_ = d.dedup_vtables_
BY DEF Creates, Advanced, Rebuilt

LEMMA MoreBuilt ==
  ASSUME NEW d, NEW objects, AllBuilt(d, objects), NEW more, NEW o,
         Follows(more, objects, o), ObjectThere(d, o), WideKind(o)
  PROVE  AllBuilt(d, more)
BY DEF AllBuilt, Follows

LEMMA CreationStep ==
  ASSUME IInv, ~b.finished, NotNested(b), NEW c, NEW o, Creates(b, c, o),
         NEW P, PoolThere(c, P), OncePooled(c, P), b.is64 => P = {},
         b' = c, made' = Append(made, o), pool' = P,
         UNCHANGED <<use, table, finish, options>>
  PROVE  IInv' /\ Kept(b, b')
<1>1. /\ Sound(b, use) /\ Stage(b, start, fields, root) /\ Classes(b, pool, options)
      /\ IsSeq(made) /\ IsSeq(fields) /\ Open(b, start, fields) /\ AllBuilt(b, made)
      /\ Layouts(b) /\ Shares(use, b, made, options)
  BY DEF IInv
<1>2. /\ Advanced(b, c) /\ c.vtables = b.vtables /\ c.fields = b.fields
      /\ c.finished = b.finished /\ c.dedup_vtables_ = b.dedup_vtables_
      /\ c.nested = FALSE /\ Rebuilt(b, c) /\ c \in Builder /\ b \in Builder
      /\ c.is64 = b.is64 /\ Kept(b, c)
  BY <1>1, CreationAdvances DEF Creates, Sound, Rebuilt
<1>3. Sound(c, use) /\ (~c.is64 => c.length64 = b.length64)
  BY <1>1, <1>2, SoundKept
<1>4. /\ use' = use /\ start' = start /\ fields' = fields /\ root' = root
      /\ prefixed' = prefixed /\ options' = options
  BY DEF table, finish
<1>5. start = 0 /\ fields = <<>> /\ Stage(c, start, fields, root)
  BY <1>1, <1>2 DEF Stage, NotNested
<1>6. Open(c, start, fields)
  BY <1>1, <1>2, <1>3, <1>5, OpenEmpty
<1>. DEFINE M == Append(made, o)
<1>7. IsSeq(M) /\ Follows(M, made, o)
  BY <1>1, Appended
<1>. HIDE DEF M
<1>8. AllBuilt(c, M)
  <2>1. AllBuilt(c, made)
    BY <1>1, <1>2, BuiltAdvanced
  <2>. QED BY <1>7, <2>1, MoreBuilt DEF Creates
<1>9. Classes(c, P, options)
  BY <1>1, <1>2 DEF Classes
<1>10. Layouts(c)
  BY <1>1, <1>2, LayoutsAdvanced
<1>11. Shares(use, c, M, options)
  <2>. SUFFICES ASSUME use.dedup, options = 0
                PROVE  /\ c.dedup_vtables_
                       /\ \E V : Sharing(c, M, V) /\ (~c.finished => V = c.vtables)
    BY DEF Shares
  <2>1. PICK V : b.dedup_vtables_ /\ Sharing(b, made, V) /\ (~b.finished => V = b.vtables)
    BY <1>1 DEF Shares
  <2>2. c.length64 = b.length64
    <3>1. ~c.is64
      BY <1>1, <1>2, UseIs DEF Sound
    <3>. QED BY <1>3, <3>1
  <2>3. Sharing(c, made, V)
    BY <1>2, <2>1, <2>2, SharingKept
  <2>4. Sharing(c, M, V)
    BY <1>7, <2>3, SharingMore DEF Creates
  <2>. QED BY <1>2, <2>1, <2>4
<1>12. RootPlaced(c, root, prefixed)
  BY <1>2 DEF RootPlaced
<1>13. made' = M
  BY DEF M
<1>14. IInv'
  BY <1>1, <1>3, <1>4, <1>5, <1>6, <1>7, <1>8, <1>9, <1>10, <1>11, <1>12, <1>13 DEF IInv
<1>15. Kept(b, b')
  BY <1>2
<1>. QED BY <1>14, <1>15

-----------------------------------------------------------------------------
(* The calls that create strings, vectors and structs. *)

\* The object at the front of c.
FrontObject(c, o, kind, value) ==
  o.kind = kind /\ o.value = value /\ Distance(c, o) = GetSize(c)

LEMMA AtFront ==
  ASSUME NEW c \in Builder, c.length64 < GetSize(c), NEW kind, NEW value
  PROVE  LET o == Object(kind, GetSizeRelative32BitRegion(c), value) IN
         /\ FrontObject(c, o, kind, value) /\ Inside(c, o) /\ WideKind(o) /\ o.wide = FALSE
<1>. DEFINE o == Object(kind, GetSizeRelative32BitRegion(c), value)
<1>1. /\ o.kind = kind /\ o.value = value /\ o.at = GetSizeRelative32BitRegion(c)
      /\ o.wide = FALSE
  BY DEF Object
<1>2. /\ GetSize(c) \in Nat /\ c.length64 \in Nat
      /\ GetSizeRelative32BitRegion(c) = GetSize(c) - c.length64
  BY BuilderType
<1>. HIDE DEF o
<1>3. o.at \in Int /\ 0 < o.at /\ o.at + c.length64 = GetSize(c)
  BY <1>1, <1>2
<1>4. o.at <= GetSizeRelative32BitRegion(c)
  BY <1>1, <1>3
<1>5. Inside(c, o)
  BY <1>1, <1>3, <1>4, Zenon DEF Inside
<1>6. Distance(c, o) = GetSize(c)
  BY <1>1, <1>3 DEF Distance
<1>. QED BY <1>1, <1>5, <1>6 DEF o, FrontObject, WideKind

LEMMA AtFront64 ==
  ASSUME NEW c \in Builder, 0 < GetSize(c), NEW kind \in {"string", "vector64"}, NEW value
  PROVE  LET o == [Object(kind, GetSize(c), value) EXCEPT !.wide = TRUE] IN
         /\ FrontObject(c, o, kind, value) /\ Inside(c, o) /\ WideKind(o)
<1>. DEFINE o == [Object(kind, GetSize(c), value) EXCEPT !.wide = TRUE]
<1>1. o.kind = kind /\ o.value = value /\ o.at = GetSize(c) /\ o.wide = TRUE
  BY DEF Object
<1>2. GetSize(c) \in Nat
  BY BuilderType
<1>. HIDE DEF o
<1>3. o.at \in Int /\ 0 < o.at /\ o.at <= GetSize(c)
  BY <1>1, <1>2
<1>5. Inside(c, o)
  BY <1>1, <1>3, Zenon DEF Inside
<1>6. Distance(c, o) = GetSize(c)
  BY <1>1, <1>3 DEF Distance
<1>. QED BY <1>1, <1>5, <1>6 DEF o, FrontObject, WideKind

LEMMA PoolStays ==
  ASSUME IInv, NEW c, Advanced(b, c)
  PROVE  PoolThere(c, pool) /\ OncePooled(c, pool)
<1>1. /\ b \in Builder /\ CanHold(b) /\ PoolThere(b, pool) /\ OncePooled(b, pool)
  BY DEF IInv, Sound
<1>2. PoolThere(c, pool) /\ \A o \in pool : StringAt(c, o) = StringAt(b, o)
  BY <1>1, PoolAdvanced
<1>. QED BY <1>1, <1>2 DEF OncePooled

LEMMA CreateStep ==
  ASSUME IInv, NotNested(b), NEW c, NEW kind, NEW value, Create(c, kind, value),
         Grown(b, c), c.nested = FALSE, GetSize(b) < GetSize(c), kind # "table",
         \A o : FrontObject(c, o, kind, value) => Built(c, o)
  PROVE  IInv' /\ Kept(b, b')
<1>. DEFINE o == Object(kind, GetSizeRelative32BitRegion(c), value)
<1>1. /\ ~b.finished /\ CanHold(c) /\ b' = c /\ made' = Append(made, o)
      /\ pool' = pool /\ UNCHANGED <<use, table, finish, options>>
  BY DEF Create
<1>2. b \in Builder /\ b.length64 <= GetSize(b) /\ (b.is64 => pool = {})
  BY DEF IInv, Sound, Classes
<1>3. c \in Builder /\ Rebuilt(b, c) /\ c.length64 = b.length64
  BY GrownIsRebuilt DEF Rebuilt
<1>4. c.length64 < GetSize(c)
  BY <1>2, <1>3, BuilderType
<1>5. /\ FrontObject(c, o, kind, value) /\ Inside(c, o) /\ WideKind(o)
  BY <1>3, <1>4, AtFront
<1>. HIDE DEF o
<1>6. Creates(b, c, o)
  BY <1>1, <1>3, <1>5 DEF Creates, ObjectThere, FrontObject
<1>7. PoolThere(c, pool) /\ OncePooled(c, pool)
  BY <1>2, <1>6, CreationAdvances, PoolStays
<1>. QED BY <1>1, <1>2, <1>6, <1>7, CreationStep

LEMMA Create64Step ==
  ASSUME IInv, NotNested(b), CanAddOffset64(b),
         NEW c, NEW kind \in {"string", "vector64"}, NEW value, Create64(c, kind, value),
         Rebuilt(b, c), c.length64 = GetSize(c), c.nested = FALSE, 0 < GetSize(c),
         \A o : FrontObject(c, o, kind, value) => Built(c, o)
  PROVE  IInv' /\ Kept(b, b')
<1>. DEFINE o == [Object(kind, GetSize(c), value) EXCEPT !.wide = TRUE]
<1>1. /\ ~b.finished /\ CanHold(c) /\ b' = c /\ made' = Append(made, o)
      /\ pool' = pool /\ UNCHANGED <<use, table, finish, options>>
  BY DEF Create64
<1>2. b \in Builder /\ (b.is64 => pool = {}) /\ b.is64 /\ GetSize(b) = b.length64
  BY DEF IInv, Sound, Classes, CanAddOffset64
<1>3. c \in Builder
  BY DEF Rebuilt
<1>4. FrontObject(c, o, kind, value) /\ Inside(c, o) /\ WideKind(o)
  BY <1>3, AtFront64
<1>. HIDE DEF o
<1>5. Creates(b, c, o)
  BY <1>1, <1>2, <1>4 DEF Creates, ObjectThere, FrontObject
<1>6. PoolThere(c, pool) /\ OncePooled(c, pool)
  BY <1>2, <1>5, CreationAdvances, PoolStays
<1>. QED BY <1>1, <1>2, <1>5, <1>6, CreationStep

LEMMA Stands ==
  ASSUME IInv
  PROVE  /\ b \in Builder /\ GetSize(b) \in Nat /\ use \in Uses
         /\ b.length64 <= GetSize(b) /\ b.length64 \in Nat /\ CanHold(b)
BY BuilderType DEF IInv, Sound

LEMMA StringStep ==
  ASSUME IInv, StringCall
  PROVE  IInv' /\ Kept(b, b')
<1>1. NotNested(b) /\ b \in Builder /\ GetSize(b) \in Nat /\ use \in Uses
  BY Stands DEF StringCall
<1>2. PICK s \in use.strings : Create(CreateString(b, s), "string", s)
  BY DEF StringCall
<1>3. s \in Seq(Octet) /\ Len(s) \in Nat
  <2>1. s \in Seq(Octet)
    BY <1>1, UseIs
  <2>. QED BY <2>1
<1>. DEFINE c == CreateString(b, s)
<1>4. /\ Grown(b, c) /\ c.nested = FALSE /\ StringThere(c, GetSize(c), s, 1)
      /\ GetSize(b) + Len(s) + 5 <= GetSize(c)
  BY <1>1, <1>3, CreatingPlainString DEF NotNested
<1>. HIDE DEF c
<1>5. GetSize(b) < GetSize(c)
  <2>1. GetSize(c) \in Nat
    BY <1>4, BuilderType DEF Grown
  <2>. QED BY <1>1, <1>3, <1>4, <2>1
<1>6. \A o : FrontObject(c, o, "string", s) => Built(c, o)
  BY <1>4 DEF FrontObject, Built, StringBuilt
<1>7. Create(c, "string", s)
  BY <1>2 DEF c
<1>. QED BY <1>1, <1>4, <1>5, <1>6, <1>7, CreateStep

LEMMA VectorStep ==
  ASSUME IInv, VectorCall
  PROVE  IInv' /\ Kept(b, b')
<1>1. NotNested(b) /\ b \in Builder /\ GetSize(b) \in Nat /\ use \in Uses
  BY Stands DEF VectorCall
<1>2. PICK e \in use.elements : Create(CreateVector(b, e, Width(e)), "vector", e)
  BY DEF VectorCall
<1>3. Elements(e, Width(e)) /\ Width(e) \in Sizes
  <2>1. Elements(e, Width(e))
    BY <1>1, UseIs
  <2>. QED BY <2>1 DEF Elements
<1>. DEFINE c == CreateVector(b, e, Width(e))
<1>4. c = VectorOf(b, e, Width(e), Width(e))
  BY DEF CreateVector, VectorOf
<1>5. /\ Grown(b, c) /\ c.nested = FALSE
      /\ VectorThere(c, GetSize(c), e, Width(e), Width(e)) /\ GetSize(b) + 4 <= GetSize(c)
  BY <1>1, <1>3, <1>4, CreatingVector
<1>6. Create(c, "vector", e)
  BY <1>2
<1>. HIDE DEF c
<1>7. GetSize(b) < GetSize(c)
  <2>1. GetSize(c) \in Nat
    BY <1>5, BuilderType DEF Grown
  <2>. QED BY <1>1, <1>5, <2>1
<1>8. \A o : FrontObject(c, o, "vector", e) => Built(c, o)
  BY <1>5 DEF FrontObject, Built, VectorBuilt
<1>. QED BY <1>1, <1>5, <1>6, <1>7, <1>8, CreateStep

LEMMA OffsetsThereAre ==
  ASSUME IInv
  PROVE  \A x \in Offsets : x \in Int /\ CanReferTo(b, x) /\ x # 0
<1>1. ASSUME NEW x \in Offsets PROVE x \in Int /\ CanReferTo(b, x) /\ x # 0
  <2>1. PICK i \in DOMAIN made : ~made[i].wide /\ made[i].at = x
    BY DEF Offsets
  <2>2. Inside(b, made[i])
    BY DEF IInv, AllBuilt, ObjectThere
  <2>. QED BY <2>1, <2>2 DEF Inside, CanReferTo
<1>. QED BY <1>1

LEMMA OffsetsStep ==
  ASSUME IInv, OffsetsCall
  PROVE  IInv' /\ Kept(b, b')
<1>1. NotNested(b) /\ b \in Builder /\ GetSize(b) \in Nat
  BY Stands DEF OffsetsCall
<1>2. PICK x \in Offsets, y \in Offsets :
        Create(CreateVectorOfOffsets(b, <<x, y>>), "offsets", <<x, y>>)
  BY DEF OffsetsCall
<1>3. x \in Int /\ CanReferTo(b, x) /\ y \in Int /\ CanReferTo(b, y)
  BY OffsetsThereAre
<1>. DEFINE c == CreateVectorOfOffsets(b, <<x, y>>)
<1>4. /\ Grown(b, c) /\ c.nested = FALSE /\ OffsetsThere(c, GetSize(c), x, y)
      /\ GetSize(b) + 12 <= GetSize(c)
  BY <1>1, <1>3, CreatingOffsets
<1>5. Create(c, "offsets", <<x, y>>)
  BY <1>2
<1>. HIDE DEF c
<1>6. GetSize(b) < GetSize(c)
  <2>1. GetSize(c) \in Nat
    BY <1>4, BuilderType DEF Grown
  <2>. QED BY <1>1, <1>4, <2>1
<1>7. \A o : FrontObject(c, o, "offsets", <<x, y>>) => Built(c, o)
  BY <1>4 DEF FrontObject, Built, OffsetsBuilt
<1>. QED BY <1>1, <1>4, <1>5, <1>6, <1>7, CreateStep

LEMMA StringsStep ==
  ASSUME IInv, StringsCall
  PROVE  IInv' /\ Kept(b, b')
<1>1. /\ NotNested(b) /\ b \in Builder /\ GetSize(b) \in Nat /\ use \in Uses
      /\ b.length64 <= GetSize(b)
  BY Stands DEF StringsCall
<1>2. PICK x \in use.strings, y \in use.strings :
        Create(CreateVectorOfStrings(b, <<x, y>>), "strings", <<x, y>>)
  BY DEF StringsCall
<1>3. x \in Seq(Octet) /\ y \in Seq(Octet)
  BY <1>1, UseIs
<1>. DEFINE c == CreateVectorOfStrings(b, <<x, y>>)
<1>4. /\ Grown(b, c) /\ c.nested = FALSE /\ StringsThere(c, GetSize(c), x, y)
      /\ GetSize(b) + 12 <= GetSize(c)
  BY <1>1, <1>3, CreatingStrings
<1>5. Create(c, "strings", <<x, y>>)
  BY <1>2
<1>. HIDE DEF c
<1>6. GetSize(b) < GetSize(c)
  <2>1. GetSize(c) \in Nat
    BY <1>4, BuilderType DEF Grown
  <2>. QED BY <1>1, <1>4, <2>1
<1>7. \A o : FrontObject(c, o, "strings", <<x, y>>) => Built(c, o)
  BY <1>4 DEF FrontObject, Built, StringsBuilt
<1>. QED BY <1>1, <1>4, <1>5, <1>6, <1>7, CreateStep

LEMMA StructIs ==
  /\ Struct \in Seq(Octet) /\ Len(Struct) = 8
  /\ Elements(<<Struct, Struct>>, 8) /\ Width(<<Struct, Struct>>) = 8
  /\ Elements(<<Struct>>, 8) /\ Width(<<Struct>>) = 8
<1>1. Struct \in Seq(Octet) /\ Len(Struct) = 8
  BY DEF Struct, Octet
<1>. DEFINE x == Struct
<1>2. x \in Seq(Octet) /\ Len(x) = 8
  BY <1>1
<1>. HIDE DEF x
<1>3. Elements(<<x, x>>, 8) /\ Elements(<<x>>, 8)
  BY <1>2 DEF Elements, Sizes
<1>4. Width(<<x, x>>) = 8 /\ Width(<<x>>) = 8
  BY <1>2 DEF Width
<1>. QED BY <1>1, <1>3, <1>4 DEF x

LEMMA StructsMade ==
  ASSUME IInv, NotNested(b), NEW v, Elements(v, 8), Width(v) = 8,
         Create(VectorOf(b, v, 8, 4), "structs", v)
  PROVE  IInv' /\ Kept(b, b')
<1>1. b \in Builder /\ GetSize(b) \in Nat
  BY Stands
<1>. DEFINE c == VectorOf(b, v, 8, 4)
<1>2. /\ Grown(b, c) /\ c.nested = FALSE
      /\ VectorThere(c, GetSize(c), v, 8, 4) /\ GetSize(b) + 4 <= GetSize(c)
  BY <1>1, CreatingVector, SizesMembers
<1>3. Create(c, "structs", v)
  OBVIOUS
<1>. HIDE DEF c
<1>4. GetSize(b) < GetSize(c)
  <2>1. GetSize(c) \in Nat
    BY <1>2, BuilderType DEF Grown
  <2>. QED BY <1>1, <1>2, <2>1
<1>5. \A o : FrontObject(c, o, "structs", v) => Built(c, o)
  BY <1>2 DEF FrontObject, Built, StructsBuilt
<1>. QED BY <1>2, <1>3, <1>4, <1>5, CreateStep

LEMMA StructMade ==
  ASSUME IInv, NotNested(b), Create(CreateStruct(b, Struct, 4), "struct", Struct)
  PROVE  IInv' /\ Kept(b, b')
<1>1. b \in Builder /\ GetSize(b) \in Nat /\ b.nested = FALSE
  BY Stands DEF NotNested, Builder
<1>0. (Len(Struct) % 4) = 0 /\ Struct \in Seq(Octet)
  BY StructIs
<1>. DEFINE c == CreateStruct(b, Struct, 4)
<1>2. /\ Grown(b, c) /\ c.nested = FALSE
      /\ Spot(c, GetSize(c), Struct, 4) /\ GetSize(b) + Len(Struct) <= GetSize(c)
  BY <1>0, <1>1, CreatingStruct, SizesMembers
<1>3. Create(c, "struct", Struct)
  OBVIOUS
<1>. HIDE DEF c
<1>4. GetSize(b) < GetSize(c)
  <2>1. GetSize(c) \in Nat
    BY <1>2, BuilderType DEF Grown
  <2>. QED BY <1>1, <1>2, <2>1, StructIs
<1>5. \A o : FrontObject(c, o, "struct", Struct) => Built(c, o)
  BY <1>2 DEF FrontObject, Built, StructBuilt
<1>. QED BY <1>2, <1>3, <1>4, <1>5, CreateStep

LEMMA StructsStep ==
  ASSUME IInv, StructsCall
  PROVE  IInv' /\ Kept(b, b')
<1>1. NotNested(b)
  BY DEF StructsCall
<1>2. CreateVectorOfStructs(b, <<Struct, Struct>>, 8, 4) = VectorOf(b, <<Struct, Struct>>, 8, 4)
  BY DEF CreateVectorOfStructs, VectorOf
<1>3. CreateUninitializedVector(b, <<Struct>>, 8, 4) = VectorOf(b, <<Struct>>, 8, 4)
  BY DEF CreateUninitializedVector, VectorOf
<1>4. CASE Create(VectorOf(b, <<Struct, Struct>>, 8, 4), "structs", <<Struct, Struct>>)
  BY <1>1, <1>4, StructsMade, StructIs
<1>5. CASE Create(VectorOf(b, <<Struct>>, 8, 4), "structs", <<Struct>>)
  BY <1>1, <1>5, StructsMade, StructIs
<1>6. CASE Create(CreateStruct(b, Struct, 4), "struct", Struct)
  BY <1>1, <1>6, StructMade
<1>. QED BY <1>2, <1>3, <1>4, <1>5, <1>6 DEF StructsCall

\* What is aligned to 8 when nothing else asked for it.
LEMMA SpotAligned ==
  ASSUME NEW d \in Builder, NEW off, NEW x, NEW al, Spot(d, off, x, al),
         8 <= d.minalign_, (off % 8) = 0
  PROVE  Spot(d, off, x, 8)
BY DEF Spot

LEMMA ForcingVector ==
  ASSUME NEW d \in Builder, NEW e, NEW w, Elements(e, w), e # <<>>
  PROVE  LET c == CreateVector(ForceVectorAlignment(d, Len(e), w, 8), e, w) IN
         /\ Grown(d, c) /\ c.nested = FALSE
         /\ VectorThere(c, GetSize(c), e, w, 8) /\ GetSize(d) + 4 <= GetSize(c)
<1>. DEFINE n == Len(e) * w
            g == PreAlign(d, n, 8)
            c == VectorOf(g, e, w, w)
<1>1. CreateVector(ForceVectorAlignment(d, Len(e), w, 8), e, w) = c
  BY DEF CreateVector, ForceVectorAlignment, VectorOf
<1>2. n \in Nat /\ n # 0 /\ w \in Sizes
  BY ElementsFlat
<1>. HIDE DEF n
<1>3. Grown(d, g) /\ ((GetSize(g) + n) % 8) = 0 /\ 8 <= g.minalign_ /\ GetSize(d) <= GetSize(g)
  BY <1>2, PreAligning, SizesMembers
<1>4. g \in Builder /\ GetSize(g) \in Nat /\ GetSize(d) \in Nat
  BY <1>3, BuilderType DEF Grown
<1>. HIDE DEF g
<1>5. /\ Grown(g, c) /\ c.nested = FALSE /\ VectorThere(c, GetSize(c), e, w, w)
      /\ ((GetSize(g) + Len(e) * w) % 8) = 0 /\ e # <<>>
           => GetSize(c) = GetSize(g) + Len(e) * w + 4
      /\ GetSize(g) + 4 <= GetSize(c)
  BY <1>2, <1>4, CreatingVector
<1>6. GetSize(c) = GetSize(g) + n + 4
  BY <1>3, <1>5 DEF n
<1>. HIDE DEF c
<1>7. Grown(d, c)
  BY <1>3, <1>5, GrownTransitive
<1>8. c \in Builder /\ GetSize(c) \in Nat /\ 8 <= c.minalign_
  <2>1. c \in Builder /\ Kept(g, c)
    BY <1>5 DEF Grown
  <2>2. g.minalign_ <= c.minalign_ /\ g.minalign_ \in Nat /\ c.minalign_ \in Nat
        /\ GetSize(c) \in Nat
    BY <1>4, <2>1, KeptSize, BuilderType
  <2>. QED BY <1>3, <2>1, <2>2
<1>9. ((GetSize(c) - 4) % 8) = 0
  <2>1. GetSize(c) - 4 = GetSize(g) + n
    BY <1>2, <1>4, <1>6
  <2>. QED BY <1>3, <2>1
<1>10. Spot(c, GetSize(c) - 4, FlattenSeq(e), w)
  BY <1>5, ElementsFlat DEF VectorThere
<1>11. Spot(c, GetSize(c) - 4, FlattenSeq(e), 8)
  BY <1>8, <1>9, <1>10, SpotAligned
<1>12. VectorThere(c, GetSize(c), e, w, 8)
  BY <1>5, <1>11 DEF VectorThere
<1>13. GetSize(d) + 4 <= GetSize(c)
  BY <1>3, <1>4, <1>5, <1>8
<1>. QED BY <1>1, <1>5, <1>7, <1>12, <1>13

LEMMA ForcedVectorMade ==
  ASSUME IInv, NotNested(b), NEW e \in use.elements, Width(e) = 1,
         Create(CreateVector(ForceVectorAlignment(b, Len(e), 1, 8), e, 1), "forced", e)
  PROVE  IInv' /\ Kept(b, b')
<1>1. b \in Builder /\ GetSize(b) \in Nat /\ use \in Uses
  BY Stands
<1>2. Elements(e, 1) /\ e # <<>>
  <2>1. Elements(e, Width(e))
    BY <1>1, UseIs
  <2>2. e # <<>>
    BY DEF Width
  <2>. QED BY <2>1, <2>2
<1>. DEFINE c == CreateVector(ForceVectorAlignment(b, Len(e), 1, 8), e, 1)
<1>3. /\ Grown(b, c) /\ c.nested = FALSE
      /\ VectorThere(c, GetSize(c), e, 1, 8) /\ GetSize(b) + 4 <= GetSize(c)
  BY <1>1, <1>2, ForcingVector
<1>4. Create(c, "forced", e)
  OBVIOUS
<1>. HIDE DEF c
<1>5. GetSize(b) < GetSize(c)
  <2>1. GetSize(c) \in Nat
    BY <1>3, BuilderType DEF Grown
  <2>. QED BY <1>1, <1>3, <2>1
<1>6. \A o : FrontObject(c, o, "forced", e) => Built(c, o)
  BY <1>2, <1>3 DEF FrontObject, Built, ForcedBuilt
<1>. QED BY <1>3, <1>4, <1>5, <1>6, CreateStep

LEMMA ForcingString ==
  ASSUME NEW d \in Builder, NEW s \in Seq(Octet), s # <<>>
  PROVE  LET c == CreateString(ForceStringAlignment(d, Len(s), 8), s) IN
         /\ Grown(d, c) /\ c.nested = d.nested
         /\ StringThere(c, GetSize(c), s, 8) /\ GetSize(d) + 4 <= GetSize(c)
<1>1. Len(s) \in Nat /\ Len(s) # 0
  BY EmptySeq
<1>. DEFINE n == Len(s) + 1
            g == PreAlign(d, n, 8)
            c == CreateString(g, s)
<1>2. CreateString(ForceStringAlignment(d, Len(s), 8), s) = c
  BY <1>1 DEF ForceStringAlignment
<1>3. n \in Nat /\ n # 0
  BY <1>1
<1>4. Grown(d, g) /\ ((GetSize(g) + n) % 8) = 0 /\ 8 <= g.minalign_
      /\ GetSize(d) <= GetSize(g) /\ g.nested = d.nested
  <2>. HIDE DEF n
  <2>. QED BY <1>3, PreAligning, SizesMembers
<1>5. g \in Builder /\ GetSize(g) \in Nat /\ GetSize(d) \in Nat
  BY <1>4, BuilderType DEF Grown
<1>6. ((GetSize(g) + (Len(s) + 1)) % 8) = 0
  BY <1>4
<1>. HIDE DEF g, n
<1>7. /\ Grown(g, c) /\ c.nested = g.nested /\ StringThere(c, GetSize(c), s, 8)
      /\ GetSize(g) + Len(s) + 5 <= GetSize(c)
  BY <1>4, <1>5, <1>6, CreatingString
<1>. HIDE DEF c
<1>8. Grown(d, c)
  BY <1>4, <1>7, GrownTransitive
<1>9. GetSize(c) \in Nat
  BY <1>7, BuilderType DEF Grown
<1>10. GetSize(d) + 4 <= GetSize(c)
  BY <1>1, <1>4, <1>5, <1>7, <1>9
<1>. QED BY <1>2, <1>4, <1>7, <1>8, <1>10

LEMMA ForcedStringMade ==
  ASSUME IInv, NotNested(b), NEW s \in use.strings, s # <<>>,
         Create(CreateString(ForceStringAlignment(b, Len(s), 8), s), "forcedstring", s)
  PROVE  IInv' /\ Kept(b, b')
<1>1. b \in Builder /\ GetSize(b) \in Nat /\ use \in Uses /\ b.nested = FALSE
  BY Stands DEF NotNested, Builder
<1>2. s \in Seq(Octet)
  BY <1>1, UseIs
<1>. DEFINE c == CreateString(ForceStringAlignment(b, Len(s), 8), s)
<1>3. /\ Grown(b, c) /\ c.nested = FALSE
      /\ StringThere(c, GetSize(c), s, 8) /\ GetSize(b) + 4 <= GetSize(c)
  BY <1>1, <1>2, ForcingString
<1>4. Create(c, "forcedstring", s)
  OBVIOUS
<1>. HIDE DEF c
<1>5. GetSize(b) < GetSize(c)
  <2>1. GetSize(c) \in Nat
    BY <1>3, BuilderType DEF Grown
  <2>. QED BY <1>1, <1>3, <2>1
<1>6. \A o : FrontObject(c, o, "forcedstring", s) => Built(c, o)
  BY <1>3 DEF FrontObject, Built, ForcedStringBuilt
<1>. QED BY <1>3, <1>4, <1>5, <1>6, CreateStep

LEMMA ForcedStep ==
  ASSUME IInv, ForcedCall
  PROVE  IInv' /\ Kept(b, b')
BY ForcedVectorMade, ForcedStringMade DEF ForcedCall

LEMMA String64Step ==
  ASSUME IInv, String64Call
  PROVE  IInv' /\ Kept(b, b')
<1>1. /\ NotNested(b) /\ CanAddOffset64(b) /\ b \in Builder /\ use \in Uses
      /\ b.nested = FALSE
  BY Stands DEF String64Call, NotNested, Builder
<1>2. PICK s \in use.strings : Create64(CreateString64(b, s), "string", s)
  BY DEF String64Call
<1>3. s \in Seq(Octet)
  BY <1>1, UseIs
<1>. DEFINE c == CreateString64(b, s)
<1>4. /\ Rebuilt(b, c) /\ c.nested = FALSE /\ c.length64 = GetSize(c)
      /\ StringThere(c, GetSize(c), s, 1)
  BY <1>1, <1>3, CreatingString64
<1>5. Create64(c, "string", s)
  BY <1>2
<1>. HIDE DEF c
<1>6. 0 < GetSize(c)
  <2>1. Spot(c, GetSize(c), Scalar(Len(s), 4), 4) /\ Len(s) \in Int
    BY <1>3, <1>4 DEF StringThere
  <2>2. c \in Builder
    BY <1>4 DEF Rebuilt
  <2>3. Len(Scalar(Len(s), 4)) = 4 /\ Scalar(Len(s), 4) \in Seq(Octet)
    BY <2>1, LengthType
  <2>4. GetSize(c) \in Nat /\ 4 <= GetSize(c)
    BY <2>1, <2>2, <2>3, SpotBytes, SizesMembers
  <2>. QED BY <2>4
<1>7. \A o : FrontObject(c, o, "string", s) => Built(c, o)
  BY <1>4 DEF FrontObject, Built, StringBuilt
<1>. QED BY <1>1, <1>4, <1>5, <1>6, <1>7, Create64Step

LEMMA Vector64Made ==
  ASSUME IInv, NotNested(b), CanAddOffset64(b), NEW v, NEW w, Elements(v, w),
         Width(v) = w, NEW d, Rebuilt(b, d), d.nested = FALSE,
         Create64(CreateVector64(d, v, w), "vector64", v)
  PROVE  IInv' /\ Kept(b, b')
<1>1. b \in Builder /\ d \in Builder
  BY Stands DEF Rebuilt
<1>. DEFINE c == CreateVector64(d, v, w)
<1>2. /\ Rebuilt(d, c) /\ c.nested = FALSE /\ c.length64 = GetSize(c)
      /\ Vector64There(c, GetSize(c), v, w)
  BY <1>1, CreatingVector64
<1>3. Create64(c, "vector64", v)
  OBVIOUS
<1>. HIDE DEF c
<1>4. Rebuilt(b, c)
  BY <1>1, <1>2, RebuiltTransitive
<1>5. 0 < GetSize(c)
  <2>1. Spot(c, GetSize(c), Scalar(Len(v), 8), 8) /\ Len(v) \in Int
    BY <1>2, ElementsFlat DEF Vector64There
  <2>2. c \in Builder
    BY <1>4 DEF Rebuilt
  <2>3. Len(Scalar(Len(v), 8)) = 8 /\ Scalar(Len(v), 8) \in Seq(Octet)
    BY <2>1, ScalarType, SizesMembers
  <2>4. GetSize(c) \in Nat /\ 8 <= GetSize(c)
    BY <2>1, <2>2, <2>3, SpotBytes, SizesMembers
  <2>. QED BY <2>4
<1>6. \A o : FrontObject(c, o, "vector64", v) => Built(c, o)
  BY <1>2 DEF FrontObject, Built, Vector64Built
<1>. QED BY <1>2, <1>3, <1>4, <1>5, <1>6, Create64Step

LEMMA Vector64Step ==
  ASSUME IInv, Vector64Call
  PROVE  IInv' /\ Kept(b, b')
<1>1. /\ NotNested(b) /\ CanAddOffset64(b) /\ b \in Builder /\ use \in Uses
      /\ b.nested = FALSE
  BY Stands DEF Vector64Call, NotNested, Builder
<1>2. PICK e \in use.elements :
       \/ Create64(CreateVector64(b, e, Width(e)), "vector64", e)
       \/ Create64(CreateVector64(ForceVectorAlignment64(b, Len(e), Width(e), 8), e,
                                  Width(e)), "vector64", e)
  BY DEF Vector64Call
<1>3. Elements(e, Width(e))
  BY <1>1, UseIs
<1>4. CASE Create64(CreateVector64(b, e, Width(e)), "vector64", e)
  <2>1. Rebuilt(b, b)
    BY <1>1, GrownSelf, GrownIsRebuilt
  <2>. QED BY <1>1, <1>3, <1>4, <2>1, Vector64Made
<1>5. CASE Create64(CreateVector64(ForceVectorAlignment64(b, Len(e), Width(e), 8), e,
                                   Width(e)), "vector64", e)
  <2>. DEFINE n == Len(e) * Width(e)
              g == PreAlign(b, n, 8)
              d == Region64(g)
  <2>1. n \in Nat
    BY <1>3, ElementsFlat
  <2>2. ForceVectorAlignment64(b, Len(e), Width(e), 8) = d
    BY DEF ForceVectorAlignment64, ForceVectorAlignment
  <2>. HIDE DEF n
  <2>3. Grown(b, g) /\ g.nested = FALSE
    BY <1>1, <2>1, PreAligning, SizesMembers
  <2>4. Rebuilt(b, g) /\ g \in Builder
    BY <2>3, GrownIsRebuilt DEF Rebuilt
  <2>. HIDE DEF g
  <2>5. Rebuilt(g, d) /\ d.nested = FALSE
    BY <2>3, <2>4, Regions
  <2>. HIDE DEF d
  <2>6. Rebuilt(b, d)
    BY <1>1, <2>4, <2>5, RebuiltTransitive
  <2>. QED BY <1>1, <1>3, <1>5, <2>2, <2>5, <2>6, Vector64Made
<1>. QED BY <1>2, <1>4, <1>5

-----------------------------------------------------------------------------
(* Shared strings. *)

LEMMA PooledString ==
  ASSUME NEW d \in Builder, CanHold(d), NEW o, NEW s, StringThere(d, o, s, 1)
  PROVE  StringAt(d, o) = s
BY ReadsString, SizesMembers DEF StringAt, data_at

LEMMA PoolMore ==
  ASSUME NEW d, NEW P, PoolThere(d, P), OncePooled(d, P), NEW o, NEW s,
         StringThere(d, o, s, 1), \A q \in P : StringAt(d, q) # StringAt(d, o)
  PROVE  PoolThere(d, P \union {o}) /\ OncePooled(d, P \union {o})
<1>1. PoolThere(d, P \union {o})
  BY DEF PoolThere
<1>2. OncePooled(d, P \union {o})
  BY DEF OncePooled
<1>. QED BY <1>1, <1>2

\* A string that is not there yet.
LEMMA SharedStringMade ==
  ASSUME IInv, NotNested(b), ~b.finished, ~b.is64, NEW s \in Seq(Octet),
         NEW c, c = CreateString(b, s), CanHold(c),
         NEW o, o = GetSizeRelative32BitRegion(c), Found(c, pool, o) = {},
         b' = c, pool' = pool \union {o}, made' = Append(made, Object("string", o, s)),
         UNCHANGED <<use, table, finish, options>>
  PROVE  IInv' /\ Kept(b, b')
<1>1. /\ b \in Builder /\ GetSize(b) \in Nat /\ b.length64 = 0
      /\ CanHold(b) /\ b.nested = FALSE
  BY Stands DEF IInv, Sound, NotNested, Builder
<1>2. /\ Grown(b, c) /\ c.nested = FALSE /\ StringThere(c, GetSize(c), s, 1)
      /\ GetSize(b) + Len(s) + 5 <= GetSize(c) /\ Len(s) \in Nat
  BY <1>1, CreatingPlainString
<1>3. c \in Builder /\ Rebuilt(b, c) /\ c.length64 = 0
  BY <1>1, <1>2, GrownIsRebuilt DEF Rebuilt
<1>4. GetSize(c) \in Nat /\ o = GetSize(c) /\ 0 < GetSize(c)
  <2>1. GetSize(c) \in Nat /\ GetSizeRelative32BitRegion(c) = GetSize(c) - 0
    BY <1>3, BuilderType
  <2>. QED BY <1>1, <1>2, <2>1
<1>. DEFINE x == Object("string", o, s)
<1>5. /\ FrontObject(c, x, "string", s) /\ Inside(c, x) /\ WideKind(x)
  BY <1>3, <1>4, AtFront
<1>6. x.kind = "string"
  BY DEF Object
<1>7. made' = Append(made, x)
  OBVIOUS
<1>. HIDE DEF x
<1>8. Built(c, x)
  BY <1>2, <1>5 DEF FrontObject, Built, StringBuilt
<1>9. Creates(b, c, x)
  BY <1>1, <1>2, <1>3, <1>5, <1>6, <1>8 DEF Creates, ObjectThere
<1>10. PoolThere(c, pool) /\ OncePooled(c, pool)
  BY <1>9, CreationAdvances, PoolStays
<1>11. \A q \in pool : StringAt(c, q) # StringAt(c, o)
  BY DEF Found
<1>. DEFINE P == pool \union {o}
<1>12. PoolThere(c, P) /\ OncePooled(c, P)
  BY <1>2, <1>4, <1>10, <1>11, PoolMore
<1>13. pool' = P
  OBVIOUS
<1>. HIDE DEF P
<1>. QED BY <1>7, <1>9, <1>12, <1>13, CreationStep

LEMMA TakingBack ==
  ASSUME NEW d \in Builder, NEW c, Grown(d, c), c.nested = d.nested
  PROVE  LET e == PopBytes(c, GetSize(c) - GetSize(d)) IN
         /\ Rebuilt(d, e) /\ e.nested = d.nested /\ e.length64 = d.length64
         /\ e.buf = d.buf
<1>1. /\ c \in Builder /\ SameRest(d, c) /\ Behind(d.buf, c.buf)
      /\ d.minalign_ <= c.minalign_
  BY DEF Grown, Kept
<1>2. d.buf \in Seq(Octet) /\ c.buf \in Seq(Octet) /\ GetSize(c) - GetSize(d) = Len(c.buf) - Len(d.buf)
  BY <1>1, BuilderType DEF GetSize
<1>3. SubSeq(c.buf, (GetSize(c) - GetSize(d)) + 1, Len(c.buf)) = d.buf
  BY <1>1, <1>2, BehindPopped
<1>. DEFINE e == PopBytes(c, GetSize(c) - GetSize(d))
<1>4. e = [c EXCEPT !.buf = d.buf]
  BY <1>1, <1>3 DEF PopBytes, Builder
<1>. HIDE DEF e
<1>5. /\ e \in Builder /\ e.buf = d.buf /\ e.minalign_ = c.minalign_
      /\ e.nested = c.nested /\ e.length64 = c.length64
  BY <1>1, <1>2, <1>4 DEF Builder
<1>6. /\ e.vtables = c.vtables /\ e.fields = c.fields /\ e.max_voffset_ = c.max_voffset_
      /\ e.finished = c.finished /\ e.is64 = c.is64
      /\ e.force_defaults_ = c.force_defaults_ /\ e.dedup_vtables_ = c.dedup_vtables_
  BY <1>1, <1>4 DEF Builder
<1>7. Kept(d, e)
  BY <1>1, <1>2, <1>5, BehindSelf DEF Kept
<1>8. Rebuilt(d, e)
  BY <1>1, <1>5, <1>6, <1>7 DEF Rebuilt, SameRest
<1>. QED BY <1>1, <1>5, <1>8 DEF e, SameRest

LEMMA StringSize ==
  ASSUME NEW d \in Builder, NEW off, NEW s, StringThere(d, off, s, 1)
  PROVE  off \in Nat /\ 0 < off /\ off <= GetSize(d)
<1>1. Spot(d, off, Scalar(Len(s), 4), 4) /\ Len(s) \in Int
  BY DEF StringThere
<1>2. Scalar(Len(s), 4) \in Seq(Octet) /\ Len(Scalar(Len(s), 4)) = 4
  BY <1>1, LengthType
<1>3. off \in Nat /\ 4 <= off /\ off <= GetSize(d)
  <2>1. 4 \in Sizes
    BY SizesMembers
  <2>2. off \in Nat /\ Len(Scalar(Len(s), 4)) <= off /\ off <= GetSize(d)
    BY <1>1, <1>2, <2>1, SpotBytes
  <2>. QED BY <1>2, <2>2
<1>. QED BY <1>3

\* A string that is there already.
LEMMA SharedStringFound ==
  ASSUME IInv, NotNested(b), ~b.finished, ~b.is64, NEW s \in Seq(Octet),
         NEW c, c = CreateString(b, s), CanHold(c),
         NEW o, o = GetSizeRelative32BitRegion(c), NEW off \in Found(c, pool, o),
         b' = PopBytes(c, GetSize(c) - GetSize(b)), pool' = pool,
         made' = Append(made, Object("string", off, s)),
         UNCHANGED <<use, table, finish, options>>
  PROVE  IInv' /\ Kept(b, b')
<1>1. /\ b \in Builder /\ GetSize(b) \in Nat /\ b.length64 = 0
      /\ CanHold(b) /\ b.nested = FALSE /\ PoolThere(b, pool)
  BY Stands DEF IInv, Sound, NotNested, Builder
<1>2. /\ Grown(b, c) /\ c.nested = FALSE /\ StringThere(c, GetSize(c), s, 1)
  BY <1>1, CreatingPlainString
<1>3. c \in Builder /\ Rebuilt(b, c) /\ c.length64 = 0
  BY <1>1, <1>2, GrownIsRebuilt DEF Rebuilt
<1>4. o = GetSize(c)
  <2>1. GetSize(c) \in Nat /\ GetSizeRelative32BitRegion(c) = GetSize(c) - 0
    BY <1>3, BuilderType
  <2>. QED BY <2>1
<1>5. StringAt(c, off) = s
  <2>1. StringAt(c, o) = s
    BY <1>2, <1>3, <1>4, PooledString
  <2>. QED BY <2>1 DEF Found
<1>6. off \in pool
  BY DEF Found
<1>7. StringThere(b, off, s, 1)
  <2>1. PICK t : StringThere(b, off, t, 1)
    BY <1>1, <1>6 DEF PoolThere
  <2>2. StringThere(c, off, t, 1)
    BY <1>1, <1>3, <2>1, StringKept, SizesMembers DEF Rebuilt
  <2>3. StringAt(c, off) = t
    BY <1>3, <2>2, PooledString
  <2>. QED BY <1>5, <2>1, <2>3
<1>. DEFINE e == PopBytes(c, GetSize(c) - GetSize(b))
<1>8. /\ Rebuilt(b, e) /\ e.nested = FALSE /\ e.length64 = 0 /\ e.buf = b.buf
  BY <1>1, <1>2, TakingBack
<1>9. b' = e
  OBVIOUS
<1>. HIDE DEF e
<1>10. e \in Builder /\ CanHold(e) /\ GetSize(e) = GetSize(b)
  BY <1>1, <1>8 DEF Rebuilt, CanHold, GetSize
<1>11. StringThere(e, off, s, 1)
  BY <1>1, <1>7, <1>8, <1>10, StringKept, SizesMembers DEF Rebuilt
<1>12. off \in Nat /\ 0 < off /\ off <= GetSize(e)
  BY <1>10, <1>11, StringSize
<1>. DEFINE x == Object("string", off, s)
<1>13. x.kind = "string" /\ x.at = off /\ x.value = s /\ x.wide = FALSE
  BY DEF Object
<1>14. made' = Append(made, x)
  OBVIOUS
<1>. HIDE DEF x
<1>15. Inside(e, x)
  <2>1. GetSizeRelative32BitRegion(e) = GetSize(e) - 0 /\ GetSize(e) \in Nat
    BY <1>8, <1>10, BuilderType
  <2>2. x.at \in Int /\ 0 < x.at /\ x.at <= GetSizeRelative32BitRegion(e)
    BY <1>12, <1>13, <2>1
  <2>. QED BY <1>13, <2>2, Zenon DEF Inside
<1>16. Distance(e, x) = off
  BY <1>8, <1>12, <1>13 DEF Distance
<1>17. Built(e, x) /\ WideKind(x)
  BY <1>11, <1>13, <1>16 DEF Built, StringBuilt, WideKind
<1>18. Creates(b, e, x)
  BY <1>1, <1>8, <1>10, <1>13, <1>15, <1>17 DEF Creates, ObjectThere
<1>19. PoolThere(e, pool) /\ OncePooled(e, pool)
  BY <1>18, CreationAdvances, PoolStays
<1>20. b.is64 => pool = {}
  OBVIOUS
<1>. QED BY <1>9, <1>14, <1>18, <1>19, <1>20, CreationStep

LEMMA SharedStringStep ==
  ASSUME IInv, SharedStringCall
  PROVE  IInv' /\ Kept(b, b')
<1>1. NotNested(b) /\ ~b.finished /\ UNCHANGED <<use, table, finish, options>>
  BY DEF SharedStringCall
<1>2. PICK s \in use.shared :
       LET c == CreateString(b, s)
           o == GetSizeRelative32BitRegion(c)
           found == Found(c, pool, o) IN
       /\ CanHold(c)
       /\ \/ /\ found = {}
             /\ b' = c /\ pool' = pool \union {o}
             /\ made' = Append(made, Object("string", o, s))
          \/ \E off \in found :
               /\ b' = PopBytes(c, GetSize(c) - GetSize(b)) /\ UNCHANGED pool
               /\ made' = Append(made, Object("string", off, s))
  BY DEF SharedStringCall
<1>3. use \in Uses /\ b.is64 = use.is64
  BY DEF IInv, Sound
<1>4. s \in Seq(Octet) /\ ~b.is64
  BY <1>3, UseIs
<1>. DEFINE c == CreateString(b, s)
            o == GetSizeRelative32BitRegion(c)
<1>5. CanHold(c)
  BY <1>2
<1>6. \/ /\ Found(c, pool, o) = {} /\ b' = c /\ pool' = pool \union {o}
         /\ made' = Append(made, Object("string", o, s))
      \/ \E off \in Found(c, pool, o) :
           /\ b' = PopBytes(c, GetSize(c) - GetSize(b)) /\ pool' = pool
           /\ made' = Append(made, Object("string", off, s))
  BY <1>2
<1>7. c = CreateString(b, s) /\ o = GetSizeRelative32BitRegion(c)
  OBVIOUS
<1>. HIDE DEF c, o
<1>8. CASE /\ Found(c, pool, o) = {} /\ b' = c /\ pool' = pool \union {o}
           /\ made' = Append(made, Object("string", o, s))
  BY <1>1, <1>4, <1>5, <1>7, <1>8, SharedStringMade
<1>9. CASE \E off \in Found(c, pool, o) :
           /\ b' = PopBytes(c, GetSize(c) - GetSize(b)) /\ pool' = pool
           /\ made' = Append(made, Object("string", off, s))
  <2>1. PICK off \in Found(c, pool, o) :
           /\ b' = PopBytes(c, GetSize(c) - GetSize(b)) /\ pool' = pool
           /\ made' = Append(made, Object("string", off, s))
    BY <1>9
  <2>. QED BY <1>1, <1>4, <1>5, <1>7, <2>1, SharedStringFound
<1>. QED BY <1>6, <1>8, <1>9

-----------------------------------------------------------------------------
(* The calls that create nothing yet. *)

LEMMA SharesKept ==
  ASSUME NEW u \in Uses, NEW d \in Builder, NEW c, Sound(d, u), Advanced(d, c),
         c.dedup_vtables_ = d.dedup_vtables_, NEW objects, NEW n, Shares(u, d, objects, n),
         c.finished \/ (~d.finished /\ c.vtables = d.vtables)
  PROVE  Shares(u, c, objects, n)
<1>. SUFFICES ASSUME u.dedup, n = 0
              PROVE  /\ c.dedup_vtables_
                     /\ \E V : Sharing(c, objects, V) /\ (~c.finished => V = c.vtables)
  BY DEF Shares
<1>1. PICK V : d.dedup_vtables_ /\ Sharing(d, objects, V) /\ (~d.finished => V = d.vtables)
  BY DEF Shares
<1>2. c \in Builder /\ Kept(d, c) /\ c.is64 = d.is64 /\ ~d.is64
  BY UseIs DEF Advanced, Sound
<1>3. c.length64 = d.length64
  BY <1>2, SoundKept
<1>4. Sharing(c, objects, V)
  BY <1>1, <1>2, <1>3, SharingKept
<1>. QED BY <1>1, <1>4

\* The state after a step that creates nothing, in a buffer that is not finished.
LEMMA GrowingStep ==
  ASSUME IInv, ~b.finished, NEW c, Advanced(b, c), c.length64 = b.length64,
         c.vtables = b.vtables, c.finished = FALSE,
         NEW s, NEW F, NEW n, IsSeq(F), Open(c, s, F), ~c.nested => s = 0 /\ F = <<>>,
         Classes(c, pool, n), Shares(use, c, made, n),
         b' = c, start' = s, fields' = F, options' = n,
         UNCHANGED <<use, pool, made, finish>>
  PROVE  IInv' /\ Kept(b, b')
<1>1. /\ Sound(b, use) /\ Stage(b, start, fields, root) /\ IsSeq(made) /\ AllBuilt(b, made)
      /\ Layouts(b) /\ b \in Builder
  BY DEF IInv, Sound
<1>2. use' = use /\ made' = made /\ pool' = pool /\ root' = root /\ prefixed' = prefixed
  BY DEF finish
<1>3. Sound(c, use)
  BY <1>1, SoundKept
<1>4. Stage(c, s, F, root)
  BY <1>1 DEF Stage
<1>5. AllBuilt(c, made)
  BY <1>1, BuiltAdvanced
<1>6. Layouts(c)
  BY <1>1, LayoutsAdvanced
<1>7. PoolThere(c, pool) /\ OncePooled(c, pool)
  BY PoolStays
<1>8. RootPlaced(c, root, prefixed)
  BY DEF RootPlaced
<1>9. IInv'
  BY <1>1, <1>2, <1>3, <1>4, <1>5, <1>6, <1>7, <1>8 DEF IInv
<1>10. Kept(b, b')
  BY DEF Advanced
<1>. QED BY <1>9, <1>10

LEMMA TableStep ==
  ASSUME IInv, TableCall
  PROVE  IInv' /\ Kept(b, b')
<1>1. /\ NotNested(b) /\ ~b.finished /\ b' = StartTable(b)
      /\ start' = GetSizeRelative32BitRegion(b)
      /\ UNCHANGED <<use, pool, fields, made, finish, options>>
  BY DEF TableCall
<1>2. /\ b \in Builder /\ CanHold(b) /\ use \in Uses /\ Sound(b, use)
      /\ Stage(b, start, fields, root) /\ Open(b, start, fields)
      /\ Classes(b, pool, options) /\ Shares(use, b, made, options)
  BY DEF IInv, Sound
<1>. DEFINE c == [b EXCEPT !.nested = TRUE]
            s == GetSizeRelative32BitRegion(b)
<1>3. /\ Grown(b, c) /\ c.nested = TRUE /\ c.buf = b.buf /\ GetSize(c) = GetSize(b)
  BY <1>2, Nesting
<1>4. b' = c
  BY <1>1 DEF StartTable
<1>5. start' = s
  BY <1>1
<1>6. s \in Int
  BY <1>2, BuilderType
<1>. HIDE DEF c
<1>7. /\ c \in Builder /\ Kept(b, c) /\ c.vtables = b.vtables /\ c.fields = b.fields
      /\ c.max_voffset_ = b.max_voffset_ /\ c.finished = b.finished
      /\ c.length64 = b.length64 /\ c.is64 = b.is64 /\ c.dedup_vtables_ = b.dedup_vtables_
  BY <1>3 DEF Grown, SameRest
<1>8. Advanced(b, c)
  BY <1>2, <1>3, <1>7 DEF Advanced, CanHold
<1>9. fields = <<>> /\ c.fields = <<>> /\ c.finished = FALSE
  BY <1>1, <1>2, <1>7 DEF Stage, NotNested, Builder
<1>10. GetSizeRelative32BitRegion(c) = s
  BY <1>3, <1>7 DEF GetSizeRelative32BitRegion
<1>. HIDE DEF s
<1>11. Open(c, s, fields)
  BY <1>2, <1>6, <1>7, <1>9, <1>10 DEF Open, Tracked, AllThere
<1>12. Classes(c, pool, options)
  BY <1>2, <1>7 DEF Classes
<1>13. Shares(use, c, made, options)
  BY <1>1, <1>2, <1>7, <1>8, SharesKept
<1>14. /\ fields' = fields /\ options' = options /\ IsSeq(fields)
       /\ UNCHANGED <<use, pool, made, finish>>
  BY <1>1 DEF IInv
<1>. QED BY <1>1, <1>3, <1>4, <1>5, <1>7, <1>8, <1>9, <1>11, <1>12, <1>13, <1>14, GrowingStep

LEMMA FieldStep ==
  ASSUME IInv, NEW id, NEW kind, NEW value, NEW c, Add(id, kind, value, c),
         FieldAdded(b, c), Open(c, start, Append(fields, FieldOf(id, kind, value)))
  PROVE  IInv' /\ Kept(b, b')
<1>1. /\ b.nested /\ CanHold(c) /\ b' = c
      /\ fields' = Append(fields, FieldOf(id, kind, value))
      /\ UNCHANGED <<use, pool, start, made, finish, options>>
  BY DEF Add, FieldOf
<1>2. /\ b \in Builder /\ use \in Uses /\ Sound(b, use) /\ Stage(b, start, fields, root)
      /\ IsSeq(fields) /\ Classes(b, pool, options) /\ Shares(use, b, made, options)
  BY DEF IInv, Sound
<1>3. /\ c \in Builder /\ Kept(b, c) /\ c.nested = b.nested /\ c.vtables = b.vtables
      /\ c.finished = b.finished /\ c.length64 = b.length64 /\ c.is64 = b.is64
      /\ c.dedup_vtables_ = b.dedup_vtables_
  BY DEF FieldAdded, SameOptions
<1>. DEFINE F == Append(fields, FieldOf(id, kind, value))
<1>4. IsSeq(F)
  BY <1>2, Appended
<1>5. Open(c, start, F) /\ fields' = F
  BY <1>1
<1>. HIDE DEF F
<1>6. Advanced(b, c)
  BY <1>1, <1>3 DEF Advanced
<1>7. ~b.finished /\ c.finished = FALSE
  BY <1>1, <1>2, <1>3 DEF Stage, Builder
<1>8. Classes(c, pool, options)
  BY <1>2, <1>3 DEF Classes
<1>9. Shares(use, c, made, options)
  BY <1>2, <1>3, <1>6, <1>7, SharesKept
<1>10. start' = start /\ options' = options /\ UNCHANGED <<use, pool, made, finish>>
  BY <1>1
<1>. QED BY <1>1, <1>3, <1>4, <1>5, <1>6, <1>7, <1>8, <1>9, <1>10, GrowingStep

LEMMA FieldsUnset ==
  ASSUME NEW id, NEW kind, NEW value, NEW c, Add(id, kind, value, c)
  PROVE  Unset(fields, id)
BY DEF Add, Unset

LEMMA FieldsOpen ==
  ASSUME IInv
  PROVE  /\ b \in Builder /\ IsSeq(fields) /\ Open(b, start, fields) /\ use \in Uses
         /\ \A id \in use.ids : IsFieldOffset(id)
BY IdsAre DEF IInv, Sound

LEMMA ScalarStep ==
  ASSUME IInv, ScalarCall
  PROVE  IInv' /\ Kept(b, b')
<1>1. PICK id \in use.ids, x \in use.scalars :
        \/ Add(id, "scalar", x, AddElement(b, id, x, Default(x)))
        \/ Add(id, "optional", x, AddOptional(b, id, x))
  BY DEF ScalarCall
<1>2. /\ b \in Builder /\ IsSeq(fields) /\ Open(b, start, fields) /\ use \in Uses
      /\ IsFieldOffset(id) /\ IsScalar(x)
  BY FieldsOpen, UseIs
<1>3. Unset(fields, id)
  BY <1>1, FieldsUnset
<1>4. CASE Add(id, "scalar", x, AddElement(b, id, x, Default(x)))
  <2>1. /\ FieldAdded(b, AddElement(b, id, x, Default(x)))
        /\ Open(AddElement(b, id, x, Default(x)), start,
                Append(fields, FieldOf(id, "scalar", x)))
    BY <1>2, <1>3, AddingScalar
  <2>. QED BY <1>4, <2>1, FieldStep
<1>5. CASE Add(id, "optional", x, AddOptional(b, id, x))
  <2>1. /\ FieldAdded(b, AddOptional(b, id, x))
        /\ Open(AddOptional(b, id, x), start, Append(fields, FieldOf(id, "optional", x)))
    BY <1>2, <1>3, AddingOptional
  <2>. QED BY <1>5, <2>1, FieldStep
<1>. QED BY <1>1, <1>4, <1>5

LEMMA OffsetStep ==
  ASSUME IInv, OffsetCall
  PROVE  IInv' /\ Kept(b, b')
<1>1. PICK id \in use.ids, i \in DOMAIN made :
        IF made[i].wide
        THEN Add(id, "offset64", made[i].at, AddOffset64(b, id, made[i].at))
        ELSE Add(id, "offset", made[i].at, AddOffset(b, id, made[i].at))
  BY DEF OffsetCall
<1>2. /\ b \in Builder /\ IsSeq(fields) /\ Open(b, start, fields) /\ use \in Uses
      /\ IsFieldOffset(id)
  BY FieldsOpen
<1>3. Inside(b, made[i])
  BY DEF IInv, AllBuilt, ObjectThere
<1>. DEFINE x == made[i].at
<1>4. x \in Int /\ Unset(fields, id)
  BY <1>1, <1>3, FieldsUnset DEF Inside
<1>5. CASE made[i].wide
  <2>1. CanReferTo64(b, x)
    BY <1>3, <1>5 DEF Inside, CanReferTo64
  <2>2. Add(id, "offset64", x, AddOffset64(b, id, x))
    BY <1>1, <1>5
  <2>. HIDE DEF x
  <2>3. /\ FieldAdded(b, AddOffset64(b, id, x))
        /\ Open(AddOffset64(b, id, x), start, Append(fields, FieldOf(id, "offset64", x)))
    BY <1>2, <1>4, <2>1, AddingOffset64
  <2>. QED BY <2>2, <2>3, FieldStep
<1>6. CASE ~made[i].wide
  <2>1. CanReferTo(b, x)
    BY <1>3, <1>6 DEF Inside, CanReferTo
  <2>2. Add(id, "offset", x, AddOffset(b, id, x))
    BY <1>1, <1>6
  <2>. HIDE DEF x
  <2>3. /\ FieldAdded(b, AddOffset(b, id, x))
        /\ Open(AddOffset(b, id, x), start, Append(fields, FieldOf(id, "offset", x)))
    BY <1>2, <1>4, <2>1, AddingOffset
  <2>. QED BY <2>2, <2>3, FieldStep
<1>. QED BY <1>5, <1>6

LEMMA StructStep ==
  ASSUME IInv, StructCall
  PROVE  IInv' /\ Kept(b, b')
<1>1. PICK id \in use.ids : Add(id, "struct", Struct, AddStruct(b, id, Struct, 4))
  BY DEF StructCall
<1>2. /\ b \in Builder /\ IsSeq(fields) /\ Open(b, start, fields) /\ IsFieldOffset(id)
  BY FieldsOpen
<1>3. Unset(fields, id)
  BY <1>1, FieldsUnset
<1>4. /\ FieldAdded(b, AddStruct(b, id, Struct, 4))
      /\ Open(AddStruct(b, id, Struct, 4), start,
              Append(fields, FieldOf(id, "struct", Struct)))
  BY <1>2, <1>3, AddingStruct
<1>. QED BY <1>1, <1>4, FieldStep

-----------------------------------------------------------------------------
(* EndTable. *)

LEMMA OpenNone ==
  ASSUME NEW c \in Builder, c.fields = <<>>, c.length64 <= GetSize(c),
         c.max_voffset_ = 0 \/ IsFieldOffset(c.max_voffset_)
  PROVE  Open(c, 0, <<>>)
<1>1. 0 <= GetSizeRelative32BitRegion(c)
  BY BuilderType
<1>. QED BY <1>1 DEF Open, Tracked, AllThere

LEMMA TableWithin ==
  ASSUME NEW d \in Builder, d.length64 <= GetSize(d), NEW c, NEW v, NEW F,
         TableMade(d, c, v, F)
  PROVE  /\ TableAt(d) \in Int /\ 0 < TableAt(d)
         /\ TableAt(d) <= GetSizeRelative32BitRegion(c)
<1>1. /\ TableAt(d) \in Int /\ TableAt(d) + d.length64 = GetSize(Placed(d))
      /\ GetSize(d) + 4 <= GetSize(Placed(d)) /\ GetSize(Placed(d)) \in Nat
  BY Placing
<1>2. d.length64 \in Nat /\ GetSize(d) \in Nat
  BY BuilderType
<1>3. c \in Builder /\ TableIs(c, TableAt(d), v, F) /\ c.length64 = d.length64
  BY DEF TableMade, SameOptions
<1>. DEFINE at == TableAt(d)
<1>. HIDE DEF at
<1>4. at \in Int /\ v \in Int /\ Spot(c, at + c.length64, Scalar(v - at, 4), 4)
  BY <1>3 DEF TableIs, at
<1>5. Scalar(v - at, 4) \in Seq(Octet) /\ 4 \in Sizes
  BY <1>4, LengthType, SizesMembers
<1>6. at + c.length64 <= GetSize(c)
  BY <1>3, <1>4, <1>5, SpotBytes
<1>7. GetSizeRelative32BitRegion(c) = GetSize(c) - c.length64 /\ GetSize(c) \in Nat
      /\ c.length64 \in Nat
  BY <1>3, BuilderType
<1>8. at \in Int /\ 0 < at
  BY <1>1, <1>2 DEF at
<1>9. at <= GetSizeRelative32BitRegion(c)
  BY <1>6, <1>7, <1>8
<1>. QED BY <1>8, <1>9 DEF at

LEMMA LayoutsEnded ==
  ASSUME NEW d \in Builder, NEW c, NEW v, NEW F, TableMade(d, c, v, F), Layouts(d),
         ~d.is64 => d.length64 = 0
  PROVE  Layouts(c)
<1>1. /\ c \in Builder /\ Kept(d, c) /\ c.is64 = d.is64 /\ c.length64 = d.length64
      /\ v \in Int /\ VTableThere(c, v + d.length64)
  BY DEF TableMade, TableIs, SameOptions
<1>. SUFFICES ASSUME ~d.is64, NEW i \in DOMAIN c.vtables
              PROVE  VTableThere(c, c.vtables[i])
  BY <1>1 DEF Layouts
<1>2. VTableThere(c, v)
  <2>1. v + d.length64 = v
    BY <1>1
  <2>. QED BY <1>1, <2>1
<1>3. ASSUME NEW j \in DOMAIN d.vtables PROVE VTableThere(c, d.vtables[j])
  BY <1>1, VTableKept DEF Layouts
<1>4. CASE c.vtables = Append(d.vtables, v)
  <2>1. d.vtables \in Seq(Int)
    BY DEF Builder
  <2>2. (i \in DOMAIN d.vtables /\ c.vtables[i] = d.vtables[i]) \/ c.vtables[i] = v
    BY <1>1, <1>4, <2>1, AppendProperties
  <2>. QED BY <1>2, <1>3, <2>2
<1>. QED BY <1>3, <1>4 DEF TableMade

\* A shared layout stays one, and a new one is unlike all others.
LEMMA SharingTable ==
  ASSUME NEW d \in Builder, d.length64 = 0, d.dedup_vtables_, NEW c, NEW v, NEW F,
         TableMade(d, c, v, F), NEW objects, Sharing(d, objects, d.vtables),
         NEW more, NEW o, Follows(more, objects, o), o.at = TableAt(d), o.value = F
  PROVE  Sharing(c, more, c.vtables)
<1>. DEFINE V == d.vtables
            W == c.vtables
<1>1. /\ c \in Builder /\ Kept(d, c) /\ c.length64 = d.length64
      /\ v \in Int /\ TableIs(c, o.at, v, o.value) /\ VTableThere(c, v + d.length64)
  BY DEF TableMade, TableIs, SameOptions
<1>2. Sharing(c, objects, V) /\ V \in Seq(Int)
  <2>1. Sharing(c, objects, V)
    BY <1>1, SharingKept
  <2>. QED BY <2>1 DEF Sharing
<1>3. VTableThere(c, v)
  <2>1. v + d.length64 = v
    BY <1>1
  <2>. QED BY <1>1, <2>1
<1>4. \A i \in DOMAIN V : VBytes(c, V[i]) = VBytes(d, V[i])
  <2>1. \A i \in DOMAIN V : VTableThere(d, V[i])
    BY DEF Sharing
  <2>. QED BY <1>1, <2>1, VTableKept
<1>5. /\ W \in Seq(Int)
      /\ \A i \in DOMAIN W : (i \in DOMAIN V /\ W[i] = V[i]) \/ W[i] = v
      /\ \A i \in DOMAIN V : i \in DOMAIN W /\ W[i] = V[i]
      /\ \E i \in DOMAIN W : W[i] = v
      /\ (\A i \in DOMAIN V : VBytes(d, V[i]) # VBytes(c, v)) \/ W = V
  <2>1. CASE /\ W = Append(V, v)
             /\ d.dedup_vtables_ /\ d.length64 = 0
                  => \A i \in DOMAIN V : VBytes(d, V[i]) # VBytes(c, v)
    BY <1>1, <1>2, <2>1, AppendProperties
  <2>2. CASE W = V /\ \E i \in DOMAIN V : v = V[i]
    BY <1>2, <2>2
  <2>. QED BY <2>1, <2>2 DEF TableMade
<1>. HIDE DEF V, W
<1>6. \A i \in DOMAIN W : VTableThere(c, W[i])
  BY <1>2, <1>3, <1>5 DEF Sharing
<1>7. \A i, j \in DOMAIN W : VBytes(c, W[i]) = VBytes(c, W[j]) => W[i] = W[j]
  <2>1. \A i, j \in DOMAIN V : VBytes(c, V[i]) = VBytes(c, V[j]) => V[i] = V[j]
    BY <1>2 DEF Sharing
  <2>2. CASE W = V
    BY <2>1, <2>2
  <2>3. CASE \A i \in DOMAIN V : VBytes(d, V[i]) # VBytes(c, v)
    BY <1>4, <1>5, <2>1, <2>3
  <2>. QED BY <1>5, <2>2, <2>3
<1>8. ASSUME NEW k \in DOMAIN more, more[k].kind = "table"
      PROVE  \E i \in DOMAIN W : TableIs(c, more[k].at, W[i], more[k].value)
  <2>1. CASE more[k] = o
    BY <1>1, <1>5, <2>1
  <2>2. CASE k \in DOMAIN objects /\ more[k] = objects[k]
    <3>1. PICK i \in DOMAIN V : TableIs(c, objects[k].at, V[i], objects[k].value)
      BY <1>2, <1>8, <2>2 DEF Sharing
    <3>. QED BY <1>5, <2>2, <3>1
  <2>3. more[k] = o \/ (k \in DOMAIN objects /\ more[k] = objects[k])
    BY DEF Follows
  <2>. QED BY <2>1, <2>2, <2>3
<1>9. Sharing(c, more, W)
  BY <1>5, <1>6, <1>7, <1>8 DEF Sharing
<1>. QED BY <1>9 DEF W

LEMMA EndTableStep ==
  ASSUME IInv, EndTableCall
  PROVE  IInv' /\ Kept(b, b')
<1>1. /\ Sound(b, use) /\ Stage(b, start, fields, root) /\ Classes(b, pool, options)
      /\ IsSeq(made) /\ Open(b, start, fields) /\ AllBuilt(b, made)
      /\ Layouts(b) /\ Shares(use, b, made, options) /\ b \in Builder /\ use \in Uses
      /\ b.length64 <= GetSize(b) /\ (~b.is64 => b.length64 = 0) /\ b.is64 = use.is64
  BY DEF IInv, Sound
<1>. DEFINE c == EndTable(b, start)
            o == Object("table", TableAt(b), fields)
            M == Append(made, o)
<1>2. /\ CanEndTable(b, start) /\ CanHold(c) /\ b' = c /\ fields' = <<>> /\ start' = 0
  BY DEF EndTableCall
<1>3. made' = M
  BY DEF EndTableCall, TableAt, Placed
<1>4. use' = use /\ pool' = pool /\ root' = root /\ prefixed' = prefixed
      /\ options' = options
  BY DEF EndTableCall, finish
<1>5. o.kind = "table" /\ o.at = TableAt(b) /\ o.value = fields /\ o.wide = FALSE
  BY DEF Object
<1>6. IsSeq(M) /\ Follows(M, made, o)
  BY <1>1, Appended
<1>7. \E v : TableMade(b, c, v, fields)
  <2>1. b.dedup_vtables_ =>
          b.length64 = 0 /\ \A i \in DOMAIN b.vtables : VTableThere(b, b.vtables[i])
    BY <1>1 DEF Classes, Layouts
  <2>. QED BY <1>1, <1>2, <2>1, EndingTable
<1>. HIDE DEF c, M, o
<1>8. PICK v : TableMade(b, c, v, fields)
  BY <1>7
<1>9. /\ TableIs(c, TableAt(b), v, fields) /\ c \in Builder /\ Kept(b, c)
      /\ c.nested = FALSE /\ c.fields = <<>> /\ c.max_voffset_ = 0
      /\ c.finished = b.finished /\ c.length64 = b.length64 /\ c.is64 = b.is64
      /\ c.dedup_vtables_ = b.dedup_vtables_
  BY <1>8 DEF TableMade, SameOptions
<1>10. Advanced(b, c)
  BY <1>2, <1>9 DEF Advanced
<1>11. Sound(c, use) /\ c.length64 <= GetSize(c)
  BY <1>1, <1>10, SoundKept DEF Sound
<1>12. ~b.finished /\ Stage(c, 0, <<>>, root)
  BY <1>1, <1>2, <1>9 DEF Stage, CanEndTable
<1>13. Open(c, 0, <<>>)
  BY <1>9, <1>11, OpenNone
<1>14. ObjectThere(c, o) /\ WideKind(o)
  <2>1. /\ TableAt(b) \in Int /\ 0 < TableAt(b)
        /\ TableAt(b) <= GetSizeRelative32BitRegion(c)
    BY <1>1, <1>8, TableWithin
  <2>2. Inside(c, o)
    BY <1>5, <2>1, Zenon DEF Inside
  <2>3. TableBuilt(c, o)
    BY <1>5, <1>9 DEF TableBuilt
  <2>. QED BY <1>5, <2>2, <2>3 DEF ObjectThere, Built, WideKind
<1>15. AllBuilt(c, M)
  <2>1. AllBuilt(c, made)
    BY <1>1, <1>10, BuiltAdvanced
  <2>. QED BY <1>6, <1>14, <2>1, MoreBuilt
<1>16. Classes(c, pool, options)
  BY <1>1, <1>9 DEF Classes
<1>17. Layouts(c)
  BY <1>1, <1>8, LayoutsEnded
<1>18. Shares(use, c, M, options)
  <2>. SUFFICES ASSUME use.dedup, options = 0
                PROVE  c.dedup_vtables_ /\ Sharing(c, M, c.vtables)
    BY DEF Shares
  <2>1. b.dedup_vtables_ /\ Sharing(b, made, b.vtables)
    BY <1>1, <1>12 DEF Shares
  <2>2. b.length64 = 0
    BY <1>1, UseIs
  <2>. QED BY <1>1, <1>5, <1>6, <1>8, <1>9, <2>1, <2>2, SharingTable
<1>19. PoolThere(c, pool) /\ OncePooled(c, pool)
  BY <1>10, PoolStays
<1>20. RootPlaced(c, root, prefixed)
  BY <1>9, <1>12 DEF RootPlaced
<1>21. IsSeq(<<>>)
  BY EmptySeq DEF IsSeq
<1>22. IInv'
  BY <1>2, <1>3, <1>4, <1>6, <1>11, <1>12, <1>13, <1>15, <1>16, <1>17, <1>18,
     <1>19, <1>20, <1>21 DEF IInv
<1>23. Kept(b, b')
  BY <1>2, <1>9
<1>. QED BY <1>22, <1>23

-----------------------------------------------------------------------------
(* Finish, Clear and the options. *)

LEMMA FinishStep ==
  ASSUME IInv, FinishCall
  PROVE  IInv' /\ Kept(b, b')
<1>1. /\ Sound(b, use) /\ Stage(b, start, fields, root) /\ Classes(b, pool, options)
      /\ IsSeq(made) /\ IsSeq(fields) /\ Open(b, start, fields) /\ AllBuilt(b, made)
      /\ Layouts(b) /\ Shares(use, b, made, options) /\ b \in Builder /\ use \in Uses
  BY DEF IInv, Sound
<1>2. /\ NotNested(b) /\ ~b.finished
      /\ use' = use /\ pool' = pool /\ start' = start /\ fields' = fields
      /\ made' = made /\ options' = options
  BY DEF FinishCall, CanFinish, table
<1>3. PICK o \in Offsets, id \in use.identifiers, p \in BOOLEAN :
        b' = Finish(b, o, id, p) /\ CanHold(b') /\ root' = o /\ prefixed' = p
  BY DEF FinishCall
<1>4. o \in Int /\ CanReferTo(b, o) /\ o # 0
  BY OffsetsThereAre
<1>5. id \in Seq(Octet) /\ Len(id) \in {0, 4}
  BY <1>1, UseIs
<1>. DEFINE c == Finish(b, o, id, p)
<1>6. FinishMade(b, c, o, p)
  BY <1>1, <1>4, <1>5, Finishing
<1>7. b' = c /\ CanHold(c)
  BY <1>3
<1>. HIDE DEF c
<1>8. /\ c \in Builder /\ Kept(b, c) /\ c.finished = TRUE /\ c.nested = b.nested
      /\ c.vtables = <<>> /\ c.fields = b.fields /\ c.max_voffset_ = b.max_voffset_
      /\ c.length64 = b.length64 /\ c.is64 = b.is64
      /\ c.dedup_vtables_ = b.dedup_vtables_
      /\ (GetSize(c) % c.minalign_) = 0
      /\ Reference(c, GetSize(c) - PrefixSize(b, p), o)
  BY <1>6 DEF FinishMade
<1>9. Advanced(b, c)
  BY <1>7, <1>8 DEF Advanced
<1>10. Sound(c, use) /\ c.length64 <= GetSize(c)
  BY <1>1, <1>9, SoundKept DEF Sound
<1>11. start = 0 /\ fields = <<>> /\ ~c.nested /\ c.fields = <<>>
  BY <1>1, <1>2, <1>8 DEF Stage, NotNested
<1>12. Stage(c, start, fields, o)
  BY <1>4, <1>8, <1>11 DEF Stage
<1>13. Open(c, start, fields)
  BY <1>1, <1>8, <1>10, <1>11, OpenNone DEF Open, Tracked
<1>14. AllBuilt(c, made)
  BY <1>1, <1>9, BuiltAdvanced
<1>15. Classes(c, pool, options)
  BY <1>1, <1>8 DEF Classes
<1>16. Layouts(c)
  BY <1>8 DEF Layouts
<1>17. Shares(use, c, made, options)
  BY <1>1, <1>8, <1>9, SharesKept
<1>18. PoolThere(c, pool) /\ OncePooled(c, pool)
  BY <1>9, PoolStays
<1>19. RootPlaced(c, o, p)
  BY <1>8 DEF RootPlaced, RootThere, PrefixSize
<1>20. IInv'
  BY <1>1, <1>2, <1>3, <1>7, <1>10, <1>12, <1>13, <1>14, <1>15, <1>16, <1>17,
     <1>18, <1>19 DEF IInv
<1>21. Kept(b, b')
  BY <1>7, <1>8
<1>. QED BY <1>20, <1>21

LEMMA Clearing ==
  ASSUME NEW d \in Builder
  PROVE  /\ Empty(Clear(d)) /\ Clear(d).is64 = d.is64
         /\ Clear(d).dedup_vtables_ = d.dedup_vtables_
<1>. DEFINE c == Clear(d)
<1>1. /\ c.buf = <<>> /\ c.vtables = <<>> /\ c.fields = <<>> /\ c.max_voffset_ = 0
      /\ c.nested = FALSE /\ c.finished = FALSE /\ c.minalign_ = 1 /\ c.length64 = 0
  BY DEF Clear, Builder
<1>2. /\ c.is64 = d.is64 /\ c.dedup_vtables_ = d.dedup_vtables_
      /\ c.force_defaults_ = d.force_defaults_
  BY DEF Clear, Builder
<1>3. c \in Builder
  <2>1. <<>> \in Seq(Octet) /\ <<>> \in Seq(Int) /\ <<>> \in Seq(FieldLoc) /\ 1 \in Sizes
    BY EmptySeq, SizesMembers
  <2>. QED BY <2>1 DEF Clear, Builder
<1>. QED BY <1>1, <1>2, <1>3 DEF Empty

LEMMA ClearStep ==
  ASSUME IInv, ClearCall
  PROVE  IInv'
<1>1. /\ b \in Builder /\ use \in Uses /\ b.is64 = use.is64
      /\ Classes(b, pool, options) /\ Shares(use, b, made, options)
  BY DEF IInv, Sound
<1>. DEFINE c == Clear(b)
<1>2. /\ b' = c /\ pool' = {} /\ start' = 0 /\ fields' = <<>> /\ made' = <<>>
      /\ root' = 0 /\ prefixed' = FALSE /\ use' = use /\ options' = options
  BY DEF ClearCall
<1>3. Empty(c) /\ c.is64 = b.is64 /\ c.dedup_vtables_ = b.dedup_vtables_
  BY <1>1, Clearing
<1>. HIDE DEF c
<1>4. /\ Sound(c, use) /\ Stage(c, 0, <<>>, 0) /\ IsSeq(<<>>) /\ Open(c, 0, <<>>)
      /\ AllBuilt(c, <<>>) /\ Layouts(c) /\ PoolThere(c, {}) /\ OncePooled(c, {})
      /\ RootPlaced(c, 0, FALSE) /\ Sharing(c, <<>>, c.vtables)
  BY <1>1, <1>3, EmptyIsGood
<1>5. Classes(c, {}, options)
  BY <1>1, <1>3 DEF Classes
<1>6. Shares(use, c, <<>>, options)
  BY <1>1, <1>3, <1>4 DEF Shares
<1>. QED BY <1>2, <1>4, <1>5, <1>6 DEF IInv

LEMMA Setting ==
  ASSUME NEW d \in Builder, NEW v \in BOOLEAN,
         NEW c \in {ForceDefaults(d, v), DedupVtables(d, v)}
  PROVE  /\ c \in Builder /\ c.buf = d.buf /\ c.minalign_ = d.minalign_
         /\ c.vtables = d.vtables /\ c.fields = d.fields /\ c.max_voffset_ = d.max_voffset_
         /\ c.nested = d.nested /\ c.finished = d.finished /\ c.length64 = d.length64
         /\ c.is64 = d.is64
<1>1. CASE c = ForceDefaults(d, v)
  <2>1. c \in Builder
    BY <1>1, Zenon DEF ForceDefaults, Builder
  <2>2. /\ c.buf = d.buf /\ c.minalign_ = d.minalign_
        /\ c.vtables = d.vtables /\ c.fields = d.fields /\ c.max_voffset_ = d.max_voffset_
        /\ c.nested = d.nested /\ c.finished = d.finished /\ c.length64 = d.length64
        /\ c.is64 = d.is64
    BY <1>1 DEF ForceDefaults, Builder
  <2>. QED BY <2>1, <2>2
<1>2. CASE c = DedupVtables(d, v)
  <2>1. c \in Builder
    BY <1>2, Zenon DEF DedupVtables, Builder
  <2>2. /\ c.buf = d.buf /\ c.minalign_ = d.minalign_
        /\ c.vtables = d.vtables /\ c.fields = d.fields /\ c.max_voffset_ = d.max_voffset_
        /\ c.nested = d.nested /\ c.finished = d.finished /\ c.length64 = d.length64
        /\ c.is64 = d.is64
    BY <1>2 DEF DedupVtables, Builder
  <2>. QED BY <2>1, <2>2
<1>. QED BY <1>1, <1>2

LEMMA OptionStep ==
  ASSUME IInv, OptionCall
  PROVE  IInv' /\ Kept(b, b')
<1>1. /\ Sound(b, use) /\ Stage(b, start, fields, root) /\ Classes(b, pool, options)
      /\ IsSeq(fields) /\ Open(b, start, fields) /\ b \in Builder /\ use \in Uses
      /\ CanHold(b) /\ b.is64 = use.is64
  BY DEF IInv, Sound
<1>2. PICK v \in BOOLEAN : b' \in {ForceDefaults(b, v), DedupVtables(b, v)}
  <2>1. (~b.force_defaults_) \in BOOLEAN /\ (~b.dedup_vtables_) \in BOOLEAN
    BY Zenon
  <2>2. b' = ForceDefaults(b, ~b.force_defaults_) \/ b' = DedupVtables(b, ~b.dedup_vtables_)
    BY DEF OptionCall
  <2>. QED BY <2>1, <2>2
<1>3. PICK c : c = b' /\ c \in {ForceDefaults(b, v), DedupVtables(b, v)}
  BY <1>2
<1>4. /\ c \in Builder /\ c.buf = b.buf /\ c.minalign_ = b.minalign_
      /\ c.vtables = b.vtables /\ c.fields = b.fields /\ c.max_voffset_ = b.max_voffset_
      /\ c.nested = b.nested /\ c.finished = b.finished /\ c.length64 = b.length64
      /\ c.is64 = b.is64
  BY <1>1, <1>3, Setting
<1>5. /\ options < use.options /\ ~b.finished /\ options' = options + 1
      /\ UNCHANGED <<use, pool, table, made, finish>>
  BY DEF OptionCall
<1>6. Kept(b, c)
  BY <1>1, <1>4, KeptSelf DEF Kept
<1>7. Advanced(b, c)
  BY <1>1, <1>4, <1>6 DEF Advanced, CanHold, GetSize
<1>8. GetSizeRelative32BitRegion(c) = GetSizeRelative32BitRegion(b)
  BY <1>4 DEF GetSizeRelative32BitRegion, GetSize
<1>9. Open(c, start, fields)
  <2>1. Tracked(c, start, fields)
    BY <1>1, <1>4, <1>8 DEF Open, Tracked
  <2>2. AllThere(c, b.fields, fields)
    <3>1. b.fields \in Seq(FieldLoc)
      BY <1>1 DEF Builder
    <3>. QED BY <1>1, <1>4, <1>6, <3>1, AllKept DEF Open
  <2>. QED BY <1>4, <2>1, <2>2 DEF Open
<1>10. options \in Nat /\ options + 1 \in Nat /\ options + 1 # 0
  BY <1>1 DEF Classes
<1>11. ~b.is64
  <2>1. b.is64 => options = 0 /\ use.options = 0
    BY <1>1, UseIs DEF Classes
  <2>. QED BY <1>5, <2>1
<1>12. Classes(c, pool, options + 1)
  BY <1>4, <1>10, <1>11 DEF Classes
<1>13. Shares(use, c, made, options + 1)
  BY <1>10 DEF Shares
<1>14. ~c.nested => start = 0 /\ fields = <<>>
  BY <1>1, <1>4 DEF Stage
<1>15. c.finished = FALSE
  BY <1>4, <1>5 DEF Builder
<1>16. start' = start /\ fields' = fields
  BY <1>5 DEF table
<1>. DEFINE n == options + 1
<1>17. options' = n /\ Classes(c, pool, n) /\ Shares(use, c, made, n)
  BY <1>5, <1>12, <1>13
<1>. HIDE DEF n
<1>18. b' = c /\ UNCHANGED <<use, pool, made, finish>>
  BY <1>3, <1>5
<1>. QED BY <1>1, <1>4, <1>5, <1>7, <1>9, <1>14, <1>15, <1>16, <1>17, <1>18, GrowingStep

LEMMA StutteringStep ==
  ASSUME IInv, UNCHANGED vars
  PROVE  IInv' /\ Kept(b, b')
<1>1. /\ b' = b /\ use' = use /\ pool' = pool /\ start' = start /\ fields' = fields
      /\ made' = made /\ root' = root /\ prefixed' = prefixed /\ options' = options
  BY DEF vars, table, finish
<1>2. IInv'
  BY <1>1 DEF IInv
<1>3. Kept(b, b)
  BY Stands, KeptSelf
<1>. QED BY <1>1, <1>2, <1>3

LEMMA Stepping ==
  ASSUME IInv, [Next]_vars
  PROVE  IInv' /\ (ClearCall \/ Kept(b, b'))
<1>1. CASE StringCall BY <1>1, StringStep
<1>2. CASE SharedStringCall BY <1>2, SharedStringStep
<1>3. CASE VectorCall BY <1>3, VectorStep
<1>4. CASE OffsetsCall BY <1>4, OffsetsStep
<1>5. CASE StringsCall BY <1>5, StringsStep
<1>6. CASE StructsCall BY <1>6, StructsStep
<1>7. CASE ForcedCall BY <1>7, ForcedStep
<1>8. CASE String64Call BY <1>8, String64Step
<1>9. CASE Vector64Call BY <1>9, Vector64Step
<1>10. CASE TableCall BY <1>10, TableStep
<1>11. CASE ScalarCall BY <1>11, ScalarStep
<1>12. CASE OffsetCall BY <1>12, OffsetStep
<1>13. CASE StructCall BY <1>13, StructStep
<1>14. CASE EndTableCall BY <1>14, EndTableStep
<1>15. CASE FinishCall BY <1>15, FinishStep
<1>16. CASE ClearCall BY <1>16, ClearStep
<1>17. CASE OptionCall BY <1>17, OptionStep
<1>18. CASE UNCHANGED vars BY <1>18, StutteringStep
<1>. QED BY <1>1, <1>2, <1>3, <1>4, <1>5, <1>6, <1>7, <1>8, <1>9, <1>10, <1>11, <1>12,
           <1>13, <1>14, <1>15, <1>16, <1>17, <1>18 DEF Next

\* No call of the builder's protocol breaks IInv: what it handed out an offset for is still
\* in the buffer, at that distance from the end, aligned, whatever is called next.
THEOREM Invariance == Spec => []IInv
<1>1. IInv /\ [Next]_vars => IInv'
  BY Stepping
<1>. QED BY <1>1, Starting, PTL DEF Spec

\* Every call but Clear leaves each byte of the buffer where it is, counted from the end:
\* what PopBytes takes back was put there by the same call.
THEOREM BytesStay == Spec => [][ClearCall \/ Behind(b.buf, b'.buf)]_vars
<1>1. ASSUME IInv, [Next]_vars PROVE [ClearCall \/ Behind(b.buf, b'.buf)]_vars
  BY <1>1, Stepping DEF Kept
<1>2. IInv /\ [Next]_vars => [ClearCall \/ Behind(b.buf, b'.buf)]_vars
  BY <1>1
<1>. QED BY <1>2, Invariance, PTL DEF Spec

-----------------------------------------------------------------------------
(* What is aligned. *)

Fits(d, a, al) == al <= d.minalign_ /\ (a % al) = 0

LEMMA SpotFits ==
  ASSUME NEW d \in Builder, (GetSize(d) % d.minalign_) = 0,
         NEW off, NEW x \in Seq(Octet), NEW al \in Sizes, Spot(d, off, x, al)
  PROVE  Fits(d, AddressAt(d, off), al) /\ AddressAt(d, off) \in Nat
<1>1. off \in Nat /\ off <= GetSize(d) /\ (off % al) = 0 /\ al <= d.minalign_
  BY SpotBytes DEF Spot
<1>2. GetSize(d) \in Nat /\ d.minalign_ \in Sizes
  BY BuilderType
<1>. DEFINE n == GetSize(d)
            m == d.minalign_
<1>3. n \in Nat /\ m \in {1, 2, 4, 8} /\ al \in {1, 2, 4, 8} /\ al <= m /\ (n % m) = 0
      /\ off \in Nat /\ off <= n /\ (off % al) = 0
  BY <1>1, <1>2 DEF Sizes
<1>. HIDE DEF n, m
<1>4. (n % al) = 0
  BY <1>3
<1>5. ((n - off) % al) = 0
  BY <1>3, <1>4
<1>. QED BY <1>1, <1>3, <1>5 DEF n, Fits, AddressAt

LEMMA StringFits ==
  ASSUME NEW d \in Builder, (GetSize(d) % d.minalign_) = 0,
         NEW off, NEW s, NEW al \in Sizes, StringThere(d, off, s, al)
  PROVE  Fits(d, AddressAt(d, off), 4) /\ Fits(d, Data(AddressAt(d, off)), al)
<1>1. /\ s \in Seq(Octet) /\ Len(s) \in Int
      /\ Spot(d, off, Scalar(Len(s), 4), 4) /\ Spot(d, off - 4, s, al)
  BY DEF StringThere
<1>2. Scalar(Len(s), 4) \in Seq(Octet)
  BY <1>1, LengthType
<1>3. Fits(d, AddressAt(d, off), 4) /\ Fits(d, AddressAt(d, off - 4), al)
  BY <1>1, <1>2, SpotFits, SizesMembers
<1>4. off \in Nat /\ GetSize(d) \in Nat
  BY <1>1, <1>2, SpotBytes, BuilderType, SizesMembers
<1>5. AddressAt(d, off - 4) = Data(AddressAt(d, off))
  BY <1>4 DEF AddressAt, Data
<1>. QED BY <1>3, <1>5

LEMMA VectorFits ==
  ASSUME NEW d \in Builder, (GetSize(d) % d.minalign_) = 0,
         NEW off, NEW v, NEW w, NEW al \in Sizes, VectorThere(d, off, v, w, al)
  PROVE  /\ Fits(d, AddressAt(d, off), 4) /\ AddressAt(d, off) \in Nat
         /\ v # <<>> => Fits(d, Data(AddressAt(d, off)), al)
<1>1. /\ Elements(v, w) /\ Len(v) \in Nat /\ FlattenSeq(v) \in Seq(Octet)
      /\ Spot(d, off, Scalar(Len(v), 4), 4)
      /\ Spot(d, off - 4, FlattenSeq(v), IF v = <<>> THEN 1 ELSE al)
  BY ElementsFlat DEF VectorThere
<1>2. Scalar(Len(v), 4) \in Seq(Octet)
  BY <1>1, LengthType
<1>3. Fits(d, AddressAt(d, off), 4) /\ AddressAt(d, off) \in Nat
  BY <1>1, <1>2, SpotFits, SizesMembers
<1>4. off \in Nat /\ GetSize(d) \in Nat
  BY <1>1, <1>2, SpotBytes, BuilderType, SizesMembers
<1>5. AddressAt(d, off - 4) = Data(AddressAt(d, off))
  BY <1>4 DEF AddressAt, Data
<1>6. ASSUME v # <<>> PROVE Fits(d, AddressAt(d, off - 4), al)
  <2>1. Spot(d, off - 4, FlattenSeq(v), al)
    BY <1>1, <1>6
  <2>. QED BY <1>1, <2>1, SpotFits
<1>. QED BY <1>3, <1>5, <1>6

LEMMA Vector64Fits ==
  ASSUME NEW d \in Builder, (GetSize(d) % d.minalign_) = 0,
         NEW off, NEW v, NEW w, Vector64There(d, off, v, w)
  PROVE  /\ Fits(d, AddressAt(d, off), 8)
         /\ v # <<>> => Fits(d, AddressAt(d, off) + 8, w)
<1>1. /\ Elements(v, w) /\ Len(v) \in Nat /\ FlattenSeq(v) \in Seq(Octet) /\ w \in Sizes
      /\ Spot(d, off, Scalar(Len(v), 8), 8)
      /\ Spot(d, off - 8, FlattenSeq(v), IF v = <<>> THEN 1 ELSE w)
  BY ElementsFlat DEF Vector64There
<1>2. Scalar(Len(v), 8) \in Seq(Octet)
  BY <1>1, ScalarType, SizesMembers
<1>3. Fits(d, AddressAt(d, off), 8)
  BY <1>1, <1>2, SpotFits, SizesMembers
<1>4. off \in Nat /\ GetSize(d) \in Nat
  BY <1>1, <1>2, SpotBytes, BuilderType, SizesMembers
<1>5. AddressAt(d, off - 8) = AddressAt(d, off) + 8
  BY <1>4 DEF AddressAt
<1>6. ASSUME v # <<>> PROVE Fits(d, AddressAt(d, off - 8), w)
  <2>1. Spot(d, off - 8, FlattenSeq(v), w)
    BY <1>1, <1>6
  <2>. QED BY <1>1, <2>1, SpotFits
<1>. QED BY <1>3, <1>5, <1>6

\* The alignment of a field.
FieldSize(f) ==
  CASE f.kind \in {"scalar", "optional"} -> Len(f.value)
    [] f.kind \in {"struct", "offset"} -> 4
    [] f.kind = "offset64" -> 8

LEMMA FieldFits ==
  ASSUME NEW d \in Builder, CanHold(d), (GetSize(d) % d.minalign_) = 0,
         NEW at, NEW v, NEW F, NEW size, NEW n, NEW y,
         TableWith(d, at, v, F, size, n, y), NEW f, FieldThere(d, y, f),
         CheckField(d.buf, AddressAt32(d, at), f.id)
  PROVE  Fits(d, GetAddressOf(d.buf, AddressAt32(d, at), f.id), FieldSize(f))
<1>. DEFINE t == AddressAt32(d, at)
            id == f.id
            p == GetAddressOf(d.buf, t, id)
<1>1. IsFieldOffset(id)
  BY DEF FieldThere
<1>2. /\ ~Unset(y, id)
      /\ \A off : StoredAt(d, y, id, off) => p = AddressAt(d, off)
  BY <1>1, ReadsStoredAddress
<1>. HIDE DEF t
<1>3. ASSUME NEW x \in Seq(Octet), NEW al \in Sizes, Stored(d, y, id, x, al)
      PROVE  Fits(d, p, al)
  <2>1. PICK off : StoredAt(d, y, id, off) /\ Spot(d, off, x, al)
    BY <1>3 DEF Stored
  <2>2. p = AddressAt(d, off)
    BY <1>2, <2>1
  <2>. QED BY <2>1, <2>2, SpotFits
<1>4. CASE ScalarThere(d, y, f) \/ OptionalThere(d, y, f)
  <2>1. /\ f.kind \in {"scalar", "optional"} /\ f.value \in Seq(Octet)
        /\ Len(f.value) \in Sizes /\ Stored(d, y, id, f.value, Len(f.value))
    BY <1>2, <1>4 DEF ScalarThere, OptionalThere, IsScalar
  <2>2. Fits(d, p, Len(f.value))
    BY <1>3, <2>1
  <2>. QED BY <2>1, <2>2 DEF FieldSize, t
<1>5. CASE StructThere(d, y, f)
  <2>1. f.kind = "struct" /\ Stored(d, y, id, Struct, 4)
    BY <1>5 DEF StructThere
  <2>2. Fits(d, p, 4)
    BY <1>3, <2>1, SizesMembers, StructType
  <2>. QED BY <2>1, <2>2 DEF FieldSize, t
<1>6. CASE OffsetThere(d, y, f)
  <2>1. f.kind = "offset"
    BY <1>6 DEF OffsetThere
  <2>2. PICK off : StoredAt(d, y, id, off) /\ Reference(d, off, f.value)
    BY <1>6 DEF OffsetThere
  <2>3. p = AddressAt(d, off)
    BY <1>2, <2>2
  <2>4. /\ f.value \in Int /\ off \in Int /\ d.length64 \in Nat
        /\ Spot(d, off, Scalar(off - d.length64 - f.value, 4), 4)
    BY <2>2, BuilderType DEF Reference
  <2>5. Scalar(off - d.length64 - f.value, 4) \in Seq(Octet)
    BY <2>4, LengthType
  <2>6. Fits(d, p, 4)
    BY <2>3, <2>4, <2>5, SpotFits, SizesMembers
  <2>. QED BY <2>1, <2>6 DEF FieldSize, t
<1>7. CASE Offset64There(d, y, f)
  <2>1. f.kind = "offset64"
    BY <1>7 DEF Offset64There
  <2>2. PICK off : StoredAt(d, y, id, off) /\ Reference64(d, off, f.value)
    BY <1>7 DEF Offset64There
  <2>3. p = AddressAt(d, off)
    BY <1>2, <2>2
  <2>4. /\ f.value \in Int /\ off \in Int
        /\ Spot(d, off, Scalar(off - f.value, 8), 8)
    BY <2>2 DEF Reference64
  <2>5. Scalar(off - f.value, 8) \in Seq(Octet)
    BY <2>4, ScalarType, SizesMembers
  <2>6. Fits(d, p, 8)
    BY <2>3, <2>4, <2>5, SpotFits, SizesMembers
  <2>. QED BY <2>1, <2>6 DEF FieldSize, t
<1>. QED BY <1>4, <1>5, <1>6, <1>7 DEF FieldThere

LEMMA TableFits ==
  ASSUME NEW d \in Builder, CanHold(d), (GetSize(d) % d.minalign_) = 0,
         NEW at, NEW v, NEW F, TableIs(d, at, v, F)
  PROVE  /\ Fits(d, AddressAt32(d, at), 4) /\ Fits(d, GetVTable(d.buf, AddressAt32(d, at)), 2)
         /\ \A j \in DOMAIN F : CheckField(d.buf, AddressAt32(d, at), F[j].id)
              => Fits(d, GetAddressOf(d.buf, AddressAt32(d, at), F[j].id), FieldSize(F[j]))
<1>1. PICK size, n, y : /\ IsVTable(VBytes(d, v + d.length64), size, n, y, at)
                        /\ Located(y, at, size, F) /\ AllThere(d, y, F)
  BY DEF TableIs
<1>2. TableWith(d, at, v, F, size, n, y)
  BY <1>1 DEF TableWith
<1>3. ASSUME NEW j \in DOMAIN F, CheckField(d.buf, AddressAt32(d, at), F[j].id)
      PROVE  Fits(d, GetAddressOf(d.buf, AddressAt32(d, at), F[j].id), FieldSize(F[j]))
  <2>1. FieldThere(d, y, F[j])
    BY <1>1 DEF AllThere
  <2>. QED BY <1>2, <1>3, <2>1, FieldFits
<1>4. /\ GetVTable(d.buf, AddressAt32(d, at)) = AddressAt(d, v + d.length64)
      /\ AddressAt32(d, at) = AddressAt(d, at + d.length64)
  BY ReadsVTable DEF AddressAt
<1>5. Fits(d, AddressAt(d, at + d.length64), 4)
  <2>1. /\ at \in Int /\ v \in Int
        /\ Spot(d, at + d.length64, Scalar(v - at, 4), 4)
    BY DEF TableIs
  <2>2. Scalar(v - at, 4) \in Seq(Octet)
    BY <2>1, LengthType
  <2>. QED BY <2>1, <2>2, SpotFits, SizesMembers
<1>6. Fits(d, AddressAt(d, v + d.length64), 2)
  <2>1. VTableThere(d, v + d.length64)
    BY DEF TableIs
  <2>. DEFINE o == v + d.length64
  <2>2. VBytes(d, o) \in Seq(Octet) /\ Spot(d, o, VBytes(d, o), 2)
    BY <2>1 DEF VTableThere, Whole
  <2>. HIDE DEF o
  <2>3. Fits(d, AddressAt(d, o), 2)
    BY <2>2, SpotFits, SizesMembers
  <2>. QED BY <2>3 DEF o
<1>. QED BY <1>3, <1>4, <1>5, <1>6

LEMMA AlignedObject ==
  ASSUME b \in Builder, CanHold(b), (GetSize(b) % b.minalign_) = 0,
         NEW o, ObjectThere(b, o), NEW p \in Alignments(o)
  PROVE  Fits(b, p[1], p[2])
<1>. DEFINE a == Address(o)
            off == Distance(b, o)
<1>1. Inside(b, o) /\ Built(b, o)
  BY DEF ObjectThere
<1>2. a = AddressAt(b, off) /\ (~o.wide => a = AddressAt32(b, o.at))
  BY <1>1, AddressIs
<1>. HIDE DEF a, off
<1>3. CASE StringBuilt(b, o)
  <2>1. o.kind = "string" /\ StringThere(b, off, o.value, 1)
    BY <1>3 DEF StringBuilt, off
  <2>2. Fits(b, a, 4)
    BY <1>2, <2>1, StringFits, SizesMembers
  <2>3. p = <<a, 4>>
    BY <2>1 DEF Alignments, a
  <2>. QED BY <2>2, <2>3
<1>4. CASE ForcedStringBuilt(b, o)
  <2>1. o.kind = "forcedstring" /\ StringThere(b, off, o.value, 8)
    BY <1>4 DEF ForcedStringBuilt, off
  <2>2. Fits(b, a, 4) /\ Fits(b, Data(a), 8)
    BY <1>2, <2>1, StringFits, SizesMembers
  <2>3. p = <<a, 4>> \/ p = <<Data(a), 8>>
    BY <2>1 DEF Alignments, a
  <2>. QED BY <2>2, <2>3
<1>5. CASE StructBuilt(b, o)
  <2>1. o.kind = "struct" /\ Spot(b, off, Struct, 4)
    BY <1>5 DEF StructBuilt, off
  <2>2. Fits(b, a, 4)
    BY <1>2, <2>1, SpotFits, SizesMembers, StructType
  <2>3. p = <<a, 4>>
    BY <2>1 DEF Alignments, a
  <2>. QED BY <2>2, <2>3
<1>6. CASE VectorBuilt(b, o)
  <2>1. o.kind = "vector" /\ VectorThere(b, off, o.value, Width(o.value), Width(o.value))
    BY <1>6 DEF VectorBuilt, off
  <2>2. Width(o.value) \in Sizes
    BY <2>1 DEF VectorThere, Elements
  <2>3. Fits(b, a, 4) /\ (o.value # <<>> => Fits(b, Data(a), Width(o.value)))
    BY <1>2, <2>1, <2>2, VectorFits
  <2>4. p = <<a, 4>> \/ (o.value # <<>> /\ p = <<Data(a), Width(o.value)>>)
    BY <2>1 DEF Alignments, a
  <2>. QED BY <2>3, <2>4
<1>7. CASE StructsBuilt(b, o)
  <2>1. o.kind = "structs" /\ VectorThere(b, off, o.value, Width(o.value), 4)
    BY <1>7 DEF StructsBuilt, off
  <2>2. Fits(b, a, 4) /\ a \in Nat
    BY <1>2, <2>1, VectorFits, SizesMembers
  <2>3. Fits(b, Data(a), 4)
    <3>1. ((a + 4) % 4) = 0
      BY <2>2 DEF Fits
    <3>. QED BY <2>2, <3>1 DEF Fits, Data
  <2>4. p = <<a, 4>> \/ p = <<Data(a), 4>>
    BY <2>1 DEF Alignments, a
  <2>. QED BY <2>2, <2>3, <2>4
<1>8. CASE ForcedBuilt(b, o)
  <2>1. /\ o.kind = "forced" /\ o.value # <<>>
        /\ VectorThere(b, off, o.value, Width(o.value), 8)
    BY <1>8 DEF ForcedBuilt, off
  <2>2. Fits(b, a, 4) /\ Fits(b, Data(a), 8)
    BY <1>2, <2>1, VectorFits, SizesMembers
  <2>3. p = <<a, 4>> \/ p = <<Data(a), 8>>
    BY <2>1 DEF Alignments, a
  <2>. QED BY <2>2, <2>3
<1>9. CASE Vector64Built(b, o)
  <2>1. o.kind = "vector64" /\ Vector64There(b, off, o.value, Width(o.value))
    BY <1>9 DEF Vector64Built, off
  <2>2. Fits(b, a, 8) /\ (o.value # <<>> => Fits(b, a + 8, Width(o.value)))
    BY <1>2, <2>1, Vector64Fits
  <2>3. p = <<a, 8>> \/ (o.value # <<>> /\ p = <<a + 8, Width(o.value)>>)
    BY <2>1 DEF Alignments, a
  <2>. QED BY <2>2, <2>3
<1>10. CASE OffsetsBuilt(b, o) \/ StringsBuilt(b, o)
  <2>1. PICK x, y : OffsetsThere(b, off, x, y)
    BY <1>10 DEF OffsetsBuilt, StringsBuilt, StringsThere, off
  <2>2. Spot(b, off, Scalar(2, 4), 4) /\ Scalar(2, 4) \in Seq(Octet)
    BY <2>1, LengthType DEF OffsetsThere
  <2>3. Fits(b, a, 4)
    BY <1>2, <2>2, SpotFits, SizesMembers
  <2>4. o.kind \in {"offsets", "strings"}
    BY <1>10 DEF OffsetsBuilt, StringsBuilt
  <2>5. p = <<a, 4>>
    BY <2>4 DEF Alignments, a
  <2>. QED BY <2>3, <2>5
<1>11. CASE TableBuilt(b, o)
  <2>1. PICK v : o.kind = "table" /\ ~o.wide /\ TableIs(b, o.at, v, o.value)
    BY <1>11 DEF TableBuilt
  <2>2. /\ Fits(b, a, 4) /\ Fits(b, GetVTable(b.buf, a), 2)
        /\ \A j \in DOMAIN o.value : CheckField(b.buf, a, o.value[j].id)
             => Fits(b, GetAddressOf(b.buf, a, o.value[j].id), FieldSize(o.value[j]))
    BY <1>2, <2>1, TableFits
  <2>3. \/ p = <<a, 4>> \/ p = <<GetVTable(b.buf, a), 2>>
        \/ \E f \in {g \in ToSet(o.value) : CheckField(b.buf, a, g.id)} :
             p = <<GetAddressOf(b.buf, a, f.id), FieldSize(f)>>
    BY <2>1 DEF Alignments, a, FieldSize
  <2>4. ASSUME NEW f \in ToSet(o.value), CheckField(b.buf, a, f.id),
               p = <<GetAddressOf(b.buf, a, f.id), FieldSize(f)>>
        PROVE  Fits(b, p[1], p[2])
    <3>1. PICK j \in DOMAIN o.value : o.value[j] = f
      BY DEF ToSet
    <3>. QED BY <2>2, <2>4, <3>1
  <2>. QED BY <2>2, <2>3, <2>4
<1>. QED BY <1>1, <1>3, <1>4, <1>5, <1>6, <1>7, <1>8, <1>9, <1>10, <1>11 DEF Built

-----------------------------------------------------------------------------
(* What follows from the inductive invariant. *)

LEMMA Types == IInv => TypeOK
<1>. SUFFICES ASSUME IInv PROVE TypeOK
  OBVIOUS
<1>1. b \in Builder /\ Stage(b, start, fields, root) /\ Tracked(b, start, fields)
  BY DEF IInv, Sound, Open
<1>2. \A i \in DOMAIN b.buf : b.buf[i] \in 0 .. 255
  <2>1. b.buf \in Seq(Octet)
    BY <1>1, BuilderType
  <2>2. \A i \in DOMAIN b.buf : b.buf[i] \in Octet
    BY <2>1
  <2>. QED BY <2>2 DEF Octet
<1>3. b.minalign_ \in {1, 2, 4, 8}
  BY <1>1, BuilderType DEF Sizes
<1>4. (b.finished <=> root # 0) /\ (~b.nested => start = 0 /\ fields = <<>>)
  BY <1>1 DEF Stage
<1>5. {b.fields[i].id : i \in DOMAIN b.fields} \subseteq {fields[i].id : i \in DOMAIN fields}
  BY <1>1 DEF Tracked
<1>. QED BY <1>2, <1>3, <1>4, <1>5 DEF TypeOK

LEMMA Pools == IInv => PooledOnce
BY DEF IInv, OncePooled, PooledOnce

LEMMA Reads == IInv => ReadsAsWritten
<1>. SUFFICES ASSUME IInv PROVE ReadsAsWritten
  OBVIOUS
<1>1. /\ b \in Builder /\ CanHold(b) /\ use \in Uses /\ b.is64 = use.is64
      /\ AllBuilt(b, made) /\ RootPlaced(b, root, prefixed)
  BY DEF IInv, Sound
<1>2. \A f \in use.ids : IsFieldOffset(f)
  BY <1>1, IdsAre
<1>3. ASSUME NEW i \in DOMAIN made PROVE ObjectReads(made[i])
  <2>1. ObjectThere(b, made[i])
    BY <1>1 DEF AllBuilt
  <2>. QED BY <1>1, <1>2, <2>1, ReadsTheObject
<1>4. ASSUME b.finished
      PROVE  (IF prefixed /\ ~use.is64 THEN GetSizePrefixedRoot(b.buf)
              ELSE IF prefixed THEN 8 + uoffset(b.buf, 8)
              ELSE GetRoot(b.buf)) = At(root)
  <2>1. RootThere(b, root, prefixed)
    BY <1>1, <1>4 DEF RootPlaced
  <2>. QED BY <1>1, <2>1, ReadsTheRoot
<1>. QED BY <1>3, <1>4 DEF ReadsAsWritten

LEMMA Alignment == IInv => Aligned
<1>. SUFFICES ASSUME IInv, b.finished
              PROVE  /\ (GetSize(b) % b.minalign_) = 0
                     /\ \A i \in DOMAIN made : \A p \in Alignments(made[i]) :
                          p[2] <= b.minalign_ /\ (p[1] % p[2]) = 0
  BY DEF Aligned
<1>1. /\ b \in Builder /\ CanHold(b) /\ AllBuilt(b, made)
      /\ (GetSize(b) % b.minalign_) = 0
  BY DEF IInv, Sound, RootPlaced
<1>2. ASSUME NEW i \in DOMAIN made, NEW p \in Alignments(made[i])
      PROVE  p[2] <= b.minalign_ /\ (p[1] % p[2]) = 0
  <2>1. ObjectThere(b, made[i])
    BY <1>1 DEF AllBuilt
  <2>2. Fits(b, p[1], p[2])
    BY <1>1, <2>1, AlignedObject
  <2>. QED BY <2>2 DEF Fits
<1>. QED BY <1>1, <1>2

\* Where the vtable of a shared layout is.
LEMMA TableVTable ==
  ASSUME b \in Builder, CanHold(b), b.length64 = 0, NEW o, Inside(b, o), ~o.wide,
         NEW v, TableIs(b, o.at, v, o.value)
  PROVE  /\ GetVTable(b.buf, Address(o)) = GetSize(b) - v
         /\ VTableAt(b, GetVTable(b.buf, Address(o))) = VBytes(b, v)
<1>1. Address(o) = AddressAt32(b, o.at)
  BY AddressIs
<1>2. GetVTable(b.buf, AddressAt32(b, o.at)) = GetSize(b) - (v + b.length64)
  BY ReadsVTable
<1>3. v + b.length64 = v
  BY DEF TableIs
<1>. QED BY <1>1, <1>2, <1>3 DEF VBytes

LEMMA Sharings == IInv => VTablesShared
<1>. SUFFICES ASSUME IInv, use.dedup, options = 0, NEW i \in DOMAIN made, NEW j \in DOMAIN made,
                     made[i].kind = "table", made[j].kind = "table",
                     VTableAt(b, GetVTable(b.buf, Address(made[i])))
                       = VTableAt(b, GetVTable(b.buf, Address(made[j])))
              PROVE  GetVTable(b.buf, Address(made[i])) = GetVTable(b.buf, Address(made[j]))
  BY DEF VTablesShared
<1>1. /\ b \in Builder /\ CanHold(b) /\ use \in Uses /\ b.is64 = use.is64
      /\ AllBuilt(b, made) /\ Shares(use, b, made, options)
      /\ (~b.is64 => b.length64 = 0)
  BY DEF IInv, Sound
<1>2. b.length64 = 0
  BY <1>1, UseIs
<1>3. PICK V : Sharing(b, made, V)
  BY <1>1 DEF Shares
<1>4. PICK k \in DOMAIN V : TableIs(b, made[i].at, V[k], made[i].value)
  BY <1>3 DEF Sharing
<1>5. PICK l \in DOMAIN V : TableIs(b, made[j].at, V[l], made[j].value)
  BY <1>3 DEF Sharing
<1>6. /\ Inside(b, made[i]) /\ ~made[i].wide
      /\ Inside(b, made[j]) /\ ~made[j].wide
  BY <1>1 DEF AllBuilt, ObjectThere, WideKind
<1>7. /\ GetVTable(b.buf, Address(made[i])) = GetSize(b) - V[k]
      /\ VTableAt(b, GetVTable(b.buf, Address(made[i]))) = VBytes(b, V[k])
  BY <1>1, <1>2, <1>4, <1>6, TableVTable
<1>8. /\ GetVTable(b.buf, Address(made[j])) = GetSize(b) - V[l]
      /\ VTableAt(b, GetVTable(b.buf, Address(made[j]))) = VBytes(b, V[l])
  BY <1>1, <1>2, <1>5, <1>6, TableVTable
<1>9. VBytes(b, V[k]) = VBytes(b, V[l])
  BY <1>7, <1>8
<1>10. V[k] = V[l]
  BY <1>3, <1>9 DEF Sharing
<1>. QED BY <1>7, <1>8, <1>10

\* Types, and how the members belong together: the buffer holds bytes, minalign_ is one of
\* the alignments TrackMinAlign was given, finished goes with a root, StartTable's result and
\* the fields are those of a table under construction.
THEOREM TypeCorrect == Spec => []TypeOK
BY Invariance, Types, PTL

\* What CreateString, CreateVector, CreateStruct, AddElement, AddOffset, EndTable and the
\* rest wrote is what GetString, Get, GetField, GetPointer and GetRoot read, for all contents:
\* no later call, no vtable shared or taken back, no string found in the pool changes it.
THEOREM Readable == Spec => []ReadsAsWritten
BY Invariance, Reads, PTL

\* After Finish (line 1272) every scalar, offset, vtable, struct and forced vector is at a
\* multiple of its size, if the buffer is at a multiple of GetBufferMinAlignment.
THEOREM AlignedWhenFinished == Spec => []Aligned
BY Invariance, Alignment, PTL

\* EndTable's search: tables of equal vtables point to one vtable, unless dedup_vtables_ was
\* ever switched off.
THEOREM OneVTablePerLayout == Spec => []VTablesShared
BY Invariance, Sharings, PTL

\* CreateSharedString: as long as the buffer is not cleared, no two offsets in string_pool are
\* those of strings with the same contents.
THEOREM OneStringPerContent == Spec => []PooledOnce
BY Invariance, Pools, PTL
=============================================================================
