------------------------------- MODULE Verifier -------------------------------
(***************************************************************************)
(* verifier.h and the Verify... members of table.h: whether a buffer can   *)
(* be read as a table of some type.  A verifier is a record; each check    *)
(* takes it and gives it back, ok or not, and after the first check that   *)
(* fails nothing is read any more, which is the && of the code.            *)
(*                                                                         *)
(* The Verify member that flatc generates for a table makes one call for   *)
(* each field, by its kind (see TableTypes).                               *)
(***************************************************************************)
EXTENDS FlatBufferFormat, SequencesExt

CONSTANT Types     \* from the name of a table type to the type: the generated code

FLATBUFFERS_MAX_BUFFER_SIZE == 2147483647
FLATBUFFERS_MIN_BUFFER_SIZE == 4 + 4 + 2 + 2

\* opts: max_depth, max_tables, check_alignment, check_nested_flatbuffers, max_size, and
\* track for a SizeVerifier.
NewVerifier(buf, opts) ==
  [buf |-> buf, opts |-> opts, ok |-> TRUE, depth_ |-> 0, num_tables_ |-> 0,
   upper_bound_ |-> 0]

Check(v, cond) == IF v.ok /\ ~cond THEN [v EXCEPT !.ok = FALSE, !.upper_bound_ = 0] ELSE v

\* A range of the buffer.  Addresses are unsigned: a negative one is beyond the end.
Verify(v, elem, len) ==
  IF ~v.ok THEN v
  ELSE Check([v EXCEPT !.upper_bound_ = IF @ < elem + len THEN elem + len ELSE @],
             len < Len(v.buf) /\ 0 <= elem /\ elem <= Len(v.buf) - len)

VerifyAlignment(v, elem, align) == Check(v, elem % align = 0 \/ ~v.opts.check_alignment)

\* Fault: the width does not matter.
VerifyByte(v, elem, w) == Verify(v, elem, 1)

VerifyScalar(v, elem, w) == Verify(VerifyAlignment(v, elem, w), elem, w)

\* At most max_depth tables inside one another, at most max_tables in all.
VerifyComplexity(v) ==
  IF ~v.ok THEN v
  ELSE Check([v EXCEPT !.depth_ = @ + 1, !.num_tables_ = @ + 1],
             v.depth_ < v.opts.max_depth /\ v.num_tables_ < v.opts.max_tables)

\* Fault: the depth is never decreased.
EndTableDeep(v) == v

EndTable(v) == IF v.ok THEN [v EXCEPT !.depth_ = @ - 1] ELSE v

-----------------------------------------------------------------------------
(* Offsets, vectors and strings. *)

VerifyOffset(v, at) ==
  LET here == VerifyScalar(v, at, 4)
      o == uoffset(v.buf, at) IN
  Verify(Check(here, 0 < o /\ o < Far), at + o, 1)

VerifyVectorOrString(v, vec, elem_size) ==
  LET sized == VerifyScalar(v, vec, 4)
      size == VectorSize(v.buf, vec) IN
  Verify(Check(sized, size < v.opts.max_size \div elem_size), vec, 4 + elem_size * size)

VerifyVector(v, vec, elem_size) ==
  IF vec = Null THEN v ELSE VerifyVectorOrString(v, vec, elem_size)

\* Fault: the terminator is not looked for.
VerifyStringLength(v, str) == VerifyVector(v, str, 1)

\* A string has a terminator, which is 0.
VerifyString(v, str) ==
  LET end == Data(str) + VectorSize(v.buf, str) IN
  IF str = Null THEN v
  ELSE Check(Verify(VerifyVectorOrString(v, str, 1), end, 1), v.buf[end + 1] = 0)

\* After the vector of offsets itself: one check for each element.
ForElements(v, vec, Element(_, _)) ==
  IF ~v.ok THEN v ELSE FoldLeft(Element, v, IndirectElements(v.buf, vec))

VerifyVectorOfStrings(v, vec) == ForElements(v, vec, VerifyString)

-----------------------------------------------------------------------------
(* Tables. *)

\* The vtable offset, the size of the vtable, and all of the vtable.
VerifyTableStart(v, t) ==
  LET complex == VerifyComplexity(VerifyScalar(v, t, 4))
      vtable == GetVTable(v.buf, t)
      vsize == voffset(v.buf, vtable) IN
  Verify(Check(VerifyScalar(complex, vtable, 2), vsize % 2 = 0), vtable, vsize)

\* The field as a scalar, or as an offset; absent is fine unless it is required.
VerifyPresent(v, t, f, At(_, _)) ==
  IF ~v.ok THEN v
  ELSE IF CheckField(v.buf, t, f.vt) THEN At(v, GetAddressOf(v.buf, t, f.vt))
  ELSE Check(v, ~f.required)

RECURSIVE VerifyTable(_, _, _), VerifyUnionVector(_, _, _, _), VerifyNestedFlatBuffer(_, _, _, _)

\* What a field points to.  A union is verified by its tag; an unknown tag means
\* nothing can be said, and nothing is read.
VerifyContents(v, t, f) ==
  LET p == GetPointer(v.buf, t, f.vt)
      tags == GetPointer(v.buf, t, f.vt - 2)
      tag == GetField(v.buf, t, f.vt - 2, 1, <<0>>)[1]
      table(u, e) == VerifyTable(u, e, f.type) IN
  IF ~v.ok THEN v
  ELSE CASE f.kind = "string"  -> VerifyString(v, p)
         [] f.kind = "vector"  -> VerifyVector(v, p, f.width)
         [] f.kind = "strings" -> VerifyVectorOfStrings(VerifyVector(v, p, 4), p)
         [] f.kind = "tables"  -> ForElements(VerifyVector(v, p, 4), p, table)
         [] f.kind = "table"   -> VerifyTable(v, p, f.type)
         [] f.kind = "nested"  -> VerifyNestedFlatBuffer(VerifyVector(v, p, 1), p, f.type, <<>>)
         [] f.kind = "unions"  -> VerifyUnionVector(VerifyVector(v, p, 4), p, tags, f.types)
         [] f.kind = "union"   -> IF tag \in DOMAIN f.types
                                  THEN VerifyTable(v, p, f.types[tag]) ELSE v

VerifyField(v, t, f) ==
  LET scalar(u, at) == VerifyScalar(u, at, f.width) IN
  IF f.kind = "scalar" THEN VerifyPresent(v, t, f, scalar)
  ELSE VerifyContents(VerifyPresent(v, t, f, VerifyOffset), t, f)

VerifyTable(v, t, type) ==
  LET one(u, f) == VerifyField(u, t, f) IN
  IF ~v.ok \/ t = Null THEN v
  ELSE EndTable(FoldLeft(one, VerifyTableStart(v, t), Types[type].fields))

\* The elements of a vector of unions, by the tags in the vector beside it.
VerifyUnionVector(v, values, tags, types) ==
  LET tag(i) == GetInline(v.buf, tags, i - 1, 1)[1]
      one(u, i) == IF tag(i) \in DOMAIN types
                   THEN VerifyTable(u, GetIndirect(u.buf, values, i - 1), types[tag(i)])
                   ELSE u IN
  IF ~v.ok THEN v
  ELSE IF values = Null \/ tags = Null THEN [v EXCEPT !.ok = @ /\ values = tags]
  ELSE IF VectorSize(v.buf, values) # VectorSize(v.buf, tags) THEN [v EXCEPT !.ok = FALSE]
  ELSE FoldLeft(one, v, [i \in 1 .. VectorSize(v.buf, values) |-> i])

-----------------------------------------------------------------------------
(* The whole buffer. *)

\* Of a SizeVerifier: how long the message is, of whatever follows it in the buffer.
GetComputedSize(v) ==
  LET size == v.upper_bound_ + PaddingBytes(v.upper_bound_, 4) IN
  IF size > Len(v.buf) THEN 0 ELSE size

\* Without a size, a SizeVerifier says no.
Measured(v) == IF v.opts.track THEN [v EXCEPT !.ok = @ /\ GetComputedSize(v) # 0] ELSE v

\* identifier is <<>> for none.
VerifyBufferFromStart(v, type, identifier, start) ==
  LET large == Check(v, Len(v.buf) >= FLATBUFFERS_MIN_BUFFER_SIZE)
      named == IF identifier = <<>> THEN large
               ELSE Check(large, /\ Len(v.buf) >= 8
                                 /\ BufferHasIdentifier(v.buf, start, identifier))
      rooted == VerifyOffset(named, start) IN
  IF ~rooted.ok THEN rooted
  ELSE Measured(VerifyTable(rooted, start + uoffset(v.buf, start), type))

VerifyBuffer(v, type, identifier) == VerifyBufferFromStart(v, type, identifier, 0)

VerifySizePrefixedBuffer(v, type, identifier) ==
  LET prefixed == VerifyScalar(v, 0, 4) IN
  VerifyBufferFromStart(Check(prefixed, uoffset(v.buf, 0) + 4 <= Len(v.buf)),
                        type, identifier, 4)

\* A vector of bytes that is itself a buffer, with a verifier of its own.
VerifyNestedFlatBuffer(v, vec, type, identifier) ==
  LET bytes == Bytes(v.buf, Data(vec), VectorSize(v.buf, vec))
      nested == VerifyBuffer(NewVerifier(bytes, v.opts), type, identifier) IN
  IF ~v.ok \/ vec = Null \/ ~v.opts.check_nested_flatbuffers THEN v
  ELSE Check(v, VectorSize(v.buf, vec) >= FLATBUFFERS_MIN_BUFFER_SIZE /\ nested.ok)
=============================================================================
