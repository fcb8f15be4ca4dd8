--------------------------- MODULE FlatBufferFormat ---------------------------
(***************************************************************************)
(* The FlatBuffers wire format as base.h, buffer.h, table.h and vector.h   *)
(* read it.  A buffer is a sequence of bytes, an address the number of     *)
(* bytes before it, and the null pointer is Null.  A scalar that no offset *)
(* is computed from stays a sequence of bytes.                             *)
(*                                                                         *)
(* Reading outside the buffer is undefined, and so is the value of these   *)
(* operators there: whoever uses them shows first that it does not happen. *)
(***************************************************************************)
EXTENDS Integers, Sequences

Null == -1

\* A 32-bit offset of 2^31 or more points beyond any buffer; it reads as Far, which TLC's
\* integers can be added to.
Far == 2 ^ 30

\* Byte i of an integer of 32 bits, widened with its sign.
Byte(v, i) ==
  IF i > 3 THEN (IF v < 0 THEN 255 ELSE 0)
  ELSE (v \div <<1, 256, 65536, 16777216>>[i + 1]) % 256

-----------------------------------------------------------------------------
(* Scalars. *)

\* WriteScalar: the w bytes of an integer, the lowest first; of a negative one, those
\* of its two's complement.
Scalar(v, w) == [i \in 1 .. w |-> Byte(v, i - 1)]

WriteScalar(buf, a, bytes) ==
  [i \in 1 .. Len(buf) |->
     IF a < i /\ i <= a + Len(bytes) THEN bytes[i - a] ELSE buf[i]]

Bytes(buf, a, w) == SubSeq(buf, a + 1, a + w)

voffset(buf, a) == buf[a + 1] + 256 * buf[a + 2]

soffset(buf, a) ==
  voffset(buf, a) + 65536 * buf[a + 3]
    + 16777216 * (IF buf[a + 4] > 127 THEN buf[a + 4] - 256 ELSE buf[a + 4])

uoffset(buf, a) == IF soffset(buf, a) < 0 THEN Far ELSE soffset(buf, a)

\* A 64-bit offset.
uoffset64(buf, a) ==
  IF \A i \in 5 .. 8 : buf[a + i] = 0 THEN uoffset(buf, a) ELSE Far

\* How far n is from the next multiple of a power of 2.
PaddingBytes(n, size) == (0 - n) % size

IsTheSameAs(e, def) == e = def

-----------------------------------------------------------------------------
(* Tables. *)

GetVTable(buf, t) == t - soffset(buf, t)

\* Where the field is in the table, or 0: a field beyond the vtable is absent.
GetOptionalFieldOffset(buf, t, field) ==
  IF field < voffset(buf, GetVTable(buf, t))
  THEN voffset(buf, GetVTable(buf, t) + field) ELSE 0

CheckField(buf, t, field) == GetOptionalFieldOffset(buf, t, field) # 0

GetAddressOf(buf, t, field) ==
  IF CheckField(buf, t, field) THEN t + GetOptionalFieldOffset(buf, t, field) ELSE Null

GetField(buf, t, field, w, default) ==
  LET p == GetAddressOf(buf, t, field) IN IF p = Null THEN default ELSE Bytes(buf, p, w)

GetPointer(buf, t, field) ==
  LET p == GetAddressOf(buf, t, field) IN IF p = Null THEN Null ELSE p + uoffset(buf, p)

GetPointer64(buf, t, field) ==
  LET p == GetAddressOf(buf, t, field) IN IF p = Null THEN Null ELSE p + uoffset64(buf, p)

\* A field the table was built without cannot be set, except to its default.
CanSetField(buf, t, field, val, def) == CheckField(buf, t, field) \/ IsTheSameAs(val, def)

SetField(buf, t, field, val) ==
  LET p == GetAddressOf(buf, t, field) IN IF p = Null THEN buf ELSE WriteScalar(buf, p, val)

SetPointer(buf, t, field, target) ==
  LET p == GetAddressOf(buf, t, field) IN
  IF p = Null THEN buf ELSE WriteScalar(buf, p, Scalar(target - p, 4))

-----------------------------------------------------------------------------
(* Vectors and strings. *)

VectorSize(buf, v) == uoffset(buf, v)
VectorLength(buf, v) == IF v = Null THEN 0 ELSE VectorSize(buf, v)
Data(v) == v + 4

\* Element i, counted from 0: a scalar or a struct of w bytes in place ...
GetInline(buf, v, i, w) == Bytes(buf, Data(v) + i * w, w)

\* ... or what an offset, relative to its own place, points to.
GetIndirect(buf, v, i) == Data(v) + 4 * i + uoffset(buf, Data(v) + 4 * i)

\* The inverse of GetIndirect.
MutateOffset(buf, v, i, target) ==
  WriteScalar(buf, Data(v) + 4 * i, Scalar(target - (Data(v) + 4 * i), 4))

Mutate(buf, v, i, val) == WriteScalar(buf, Data(v) + i * Len(val), val)

InlineElements(buf, v, w) ==
  [i \in 1 .. VectorLength(buf, v) |-> GetInline(buf, v, i - 1, w)]
IndirectElements(buf, v) ==
  [i \in 1 .. VectorLength(buf, v) |-> GetIndirect(buf, v, i - 1)]

GetString(buf, v) ==
  IF v = Null THEN <<>> ELSE Bytes(buf, Data(v), VectorSize(buf, v))

\* Byte by byte, and a proper prefix first.
StringLessThan(a, b) ==
  \E n \in 0 .. Len(b) - 1 :
    /\ n <= Len(a) /\ SubSeq(a, 1, n) = SubSeq(b, 1, n)
    /\ n = Len(a) \/ a[n + 1] < b[n + 1]

-----------------------------------------------------------------------------
(* The root. *)

kFileIdentifierLength == 4

GetBufferIdentifier(buf, start) == Bytes(buf, start + 4, kFileIdentifierLength)

BufferHasIdentifier(buf, start, identifier) ==
  GetBufferIdentifier(buf, start) = identifier

GetRoot(buf) == uoffset(buf, 0)
GetSizePrefixedRoot(buf) == 4 + uoffset(buf, 4)
=============================================================================
