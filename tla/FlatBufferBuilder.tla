--------------------------- MODULE FlatBufferBuilder ---------------------------
(***************************************************************************)
(* flatbuffer_builder.h: every operation of FlatBufferBuilder as a         *)
(* function from a builder to a builder.  The buffer grows from its end    *)
(* to its start: the first byte of buf is the last one pushed (that the    *)
(* memory behind it keeps them is shown in VectorDownward).  An offset is  *)
(* a distance from the end of the buffer, or of its 32-bit region.         *)
(*                                                                         *)
(* Where the code asserts, an operator named Can... is the assertion: a    *)
(* caller that breaks it is outside the library's protocol.                *)
(***************************************************************************)
EXTENDS FlatBufferFormat, FiniteSetsExt, SequencesExt

Zeros(n) == [i \in 1 .. n |-> 0]

\* The scratch pad holds the vtables, as offsets, then the fields of the table under
\* construction.  length64: length_of_64_bit_region_; is64: FlatBufferBuilder64.
NewBuilder(is64) ==
  [buf |-> <<>>, vtables |-> <<>>, fields |-> <<>>, max_voffset_ |-> 0,
   nested |-> FALSE, finished |-> FALSE, minalign_ |-> 1, length64 |-> 0,
   is64 |-> is64, force_defaults_ |-> FALSE, dedup_vtables_ |-> TRUE]

ForceDefaults(b, fd) == [b EXCEPT !.force_defaults_ = fd]
DedupVtables(b, dedup) == [b EXCEPT !.dedup_vtables_ = dedup]

\* Fault: the fields stay in the scratch pad.
ClearOffsetsNot(b) == [b EXCEPT !.max_voffset_ = 0]

ClearOffsets(b) == [b EXCEPT !.fields = <<>>, !.max_voffset_ = 0]

\* The options survive.
Clear(b) ==
  [b EXCEPT !.buf = <<>>, !.vtables = <<>>, !.fields = <<>>, !.max_voffset_ = 0,
            !.nested = FALSE, !.finished = FALSE, !.minalign_ = 1, !.length64 = 0]

GetSize(b) == Len(b.buf)
GetSizeRelative32BitRegion(b) == GetSize(b) - b.length64

\* Whenever space was made for more.  The 64-bit builder could hold more than the numbers
\* of this model.
FLATBUFFERS_MAX_BUFFER_SIZE == 2147483647
CanHold(b) == GetSize(b) < FLATBUFFERS_MAX_BUFFER_SIZE

\* The address of an offset from the end of the buffer.
data_at(b, off) == GetSize(b) - off

-----------------------------------------------------------------------------
(* Bytes, scalars and offsets. *)

FieldIndexToOffset(id) == 4 + 2 * id

PushBytes(b, bytes) == [b EXCEPT !.buf = bytes \o @]
Pad(b, n) == PushBytes(b, Zeros(n))
PopBytes(b, n) == [b EXCEPT !.buf = SubSeq(@, n + 1, Len(@))]

TrackMinAlign(b, size) == [b EXCEPT !.minalign_ = IF size > @ THEN size ELSE @]

Align(b, size) == Pad(TrackMinAlign(b, size), PaddingBytes(GetSize(b), size))

\* After len more bytes the size is a multiple of the alignment.
PreAlign(b, len, alignment) ==
  IF len = 0 THEN b
  ELSE Pad(TrackMinAlign(b, alignment), PaddingBytes(GetSize(b) + len, alignment))

PushElement(b, bytes) == PushBytes(Align(b, Len(bytes)), bytes)

\* An offset becomes a distance from where it is stored.  Both kinds must point to
\* something already there.
CanReferTo(b, off) == 0 < off /\ off <= GetSizeRelative32BitRegion(b)
CanReferTo64(b, off) == 0 < off /\ off <= GetSize(b)

\* Fault: the distance is taken before the alignment.
PushReferenceUnaligned(b, off) ==
  PushElement(b, Scalar(GetSizeRelative32BitRegion(b) - off + 4, 4))

PushReference(b, off) ==
  LET a == Align(b, 4) IN
  PushElement(a, Scalar(GetSizeRelative32BitRegion(a) - off + 4, 4))

PushReference64(b, off) ==
  LET a == Align(b, 8) IN PushElement(a, Scalar(GetSize(a) - off + 8, 8))

-----------------------------------------------------------------------------
(* Tables. *)

NotNested(b) == ~b.nested /\ b.fields = <<>>

TrackField(b, field) ==
  [b EXCEPT !.fields = Append(@, [off |-> GetSizeRelative32BitRegion(b), id |-> field]),
            !.max_voffset_ = IF field > @ THEN field ELSE @]

\* A default value is not stored.
AddElement(b, field, e, def) ==
  IF IsTheSameAs(e, def) /\ ~b.force_defaults_ THEN b
  ELSE TrackField(PushElement(b, e), field)

\* Without a default: an optional scalar.
AddOptional(b, field, e) == TrackField(PushElement(b, e), field)

\* No offset is stored for null.
AddOffset(b, field, off) ==
  IF off = 0 THEN b ELSE TrackField(PushReference(b, off), field)
AddOffset64(b, field, off) ==
  IF off = 0 THEN b ELSE TrackField(PushReference64(b, off), field)

AddStruct(b, field, bytes, alignment) ==
  TrackField(PushBytes(Align(b, alignment), bytes), field)

\* Returns the size, which EndTable takes as start.
StartTable(b) == [b EXCEPT !.nested = TRUE]

\* A field is set once, and a vtable has room for 16 bits of each number.
CanEndTable(b, start) ==
  /\ b.nested
  /\ \A i, j \in DOMAIN b.fields : i # j => b.fields[i].id # b.fields[j].id
  /\ GetSizeRelative32BitRegion(PushElement(b, Zeros(4))) - start < 65536

\* The vtable: its size, the size of the table, and where each field is in the table.
VTable(size, tableSize, fields, tableAt) ==
  Scalar(size, 2) \o Scalar(tableSize, 2) \o
  FlattenSeq([k \in 1 .. (size - 4) \div 2 |->
    LET here == {i \in DOMAIN fields : fields[i].id = 2 * k + 2} IN
    Scalar(IF here = {} THEN 0 ELSE tableAt - fields[CHOOSE i \in here : TRUE].off, 2)])

VTableAt(b, a) == Bytes(b.buf, a, voffset(b.buf, a))

\* Whether the vtable at the offset equals the one just written at the front.  The
\* offset counts from the end of the 32-bit region, data_at from the end of the buffer.
SameVTable(b, off) ==
  LET a == data_at(b, off)
      size == voffset(b.buf, a) IN
  size = voffset(b.buf, 0) /\ \A i \in 1 .. size : b.buf[a + i] = b.buf[i]

\* Fault: the vtable is not remembered.
RememberedNot(b) == b

Remembered(b) == [b EXCEPT !.vtables = Append(@, GetSizeRelative32BitRegion(b))]

\* The place of the vtable offset, the vtable in front of it, and, when an equal one
\* exists, that one instead; the offset then points from the table to its vtable.
EndTable(b, start) ==
  LET placed == PushElement(b, Zeros(4))
      tableAt == GetSizeRelative32BitRegion(placed)
      size == IF b.max_voffset_ + 2 > 4 THEN b.max_voffset_ + 2 ELSE 4
      written == ClearOffsets(PushBytes(placed,
                   VTable(size, tableAt - start, b.fields, tableAt)))
      same == IF b.dedup_vtables_
              THEN {i \in DOMAIN b.vtables : SameVTable(written, b.vtables[i])} ELSE {}
      use == IF same = {} THEN GetSizeRelative32BitRegion(written) ELSE b.vtables[Min(same)]
      kept == IF same = {} THEN Remembered(written)
              ELSE PopBytes(written, GetSizeRelative32BitRegion(written) - tableAt) IN
  [kept EXCEPT !.buf = WriteScalar(@, data_at(kept, tableAt + b.length64),
                                   Scalar(use - tableAt, 4)),
               !.nested = FALSE]

\* The assertion that a required field of a finished table is there.
Required(b, table, field) == CheckField(b.buf, data_at(b, table), field)

-----------------------------------------------------------------------------
(* Strings and vectors: the offset of what was created is the size afterwards. *)

CreateString(b, str) ==
  PushElement(PushBytes(Pad(PreAlign(b, Len(str) + 1, 4), 1), str), Scalar(Len(str), 4))

StartVector(b, len, elemsize, alignment) ==
  [PreAlign(PreAlign(b, len * elemsize, 4), len * elemsize, alignment)
     EXCEPT !.nested = TRUE]

EndVector(b, len) == [PushElement(b, Scalar(len, 4)) EXCEPT !.nested = FALSE]

\* Of scalars or structs, all of the same width: copied in one piece.
CreateVector(b, elements, width) ==
  EndVector(PushBytes(StartVector(b, Len(elements), width, width), FlattenSeq(elements)),
            Len(elements))

CreateVectorOfStructs(b, structs, width, alignment) ==
  EndVector(PushBytes(StartVector(b, Len(structs), width, alignment),
                      FlattenSeq(structs)), Len(structs))

\* Of offsets: the last one first.
CreateVectorOfOffsets(b, offs) ==
  EndVector(FoldLeft(PushReference, StartVector(b, Len(offs), 4, 4), Reverse(offs)),
            Len(offs))

\* The strings first; their offsets wait in the scratch pad.
CreateVectorOfStrings(b, strs) ==
  LET one(acc, str) ==
        LET c == CreateString(acc.b, str) IN
        [b |-> c, offs |-> Append(acc.offs, GetSizeRelative32BitRegion(c))]
      all == FoldLeft(one, [b |-> b, offs |-> <<>>], strs) IN
  CreateVectorOfOffsets(all.b, all.offs)

\* The caller writes the elements later, through a pointer to them.
CreateUninitializedVector(b, elements, width, alignment) ==
  EndVector(PushBytes(StartVector(b, Len(elements), width, alignment),
                      FlattenSeq(elements)), Len(elements))

CreateStruct(b, bytes, alignment) == PushBytes(Align(b, alignment), bytes)

ForceVectorAlignment(b, len, elemsize, alignment) == PreAlign(b, len * elemsize, alignment)
ForceStringAlignment(b, len, alignment) ==
  IF len = 0 THEN b ELSE PreAlign(b, len + 1, alignment)

-----------------------------------------------------------------------------
(* FlatBufferBuilder64: what is addressed by 64-bit offsets comes first. *)

CanAddOffset64(b) == b.is64 /\ GetSize(b) = b.length64

Region64(b) == [b EXCEPT !.length64 = GetSize(b)]

CreateString64(b, str) == Region64(CreateString(b, str))

\* A Vector64 has a 64-bit length.
CreateVector64(b, elements, width) ==
  LET len == Len(elements)
      started == PreAlign(PreAlign(b, len * width, 8), len * width, width) IN
  Region64(PushElement(PushBytes(started, FlattenSeq(elements)), Scalar(len, 8)))

ForceVectorAlignment64(b, len, elemsize, alignment) ==
  Region64(ForceVectorAlignment(b, len, elemsize, alignment))

-----------------------------------------------------------------------------
(* The finished buffer. *)

CanFinish(b) == ~b.finished /\ NotNested(b)

\* Fault: the identifier and the prefix are not counted when the buffer is aligned.
FinishMisaligned(b, root, identifier, size_prefix) ==
  LET aligned == PreAlign(b, 4, b.minalign_)
      rooted == PushReference(PushBytes(aligned, identifier), root) IN
  [IF size_prefix THEN PushElement(rooted, Scalar(GetSize(rooted), 4)) ELSE rooted
     EXCEPT !.vtables = <<>>, !.finished = TRUE]

\* The whole buffer is aligned: [size] root [identifier] ...; identifier is <<>> for none.
Finish(b, root, identifier, size_prefix) ==
  LET prefix == IF size_prefix THEN (IF b.is64 THEN 8 ELSE 4) ELSE 0
      tracked == TrackMinAlign(b, prefix)
      aligned == PreAlign(tracked, prefix + 4 + Len(identifier), tracked.minalign_)
      rooted == PushReference(PushBytes(aligned, identifier), root) IN
  [IF size_prefix THEN PushElement(rooted, Scalar(GetSize(rooted), prefix)) ELSE rooted
     EXCEPT !.vtables = <<>>, !.finished = TRUE]
=============================================================================
