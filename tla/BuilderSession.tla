---------------------------- MODULE BuilderSession ----------------------------
(***************************************************************************)
(* A FlatBufferBuilder in use: any calls its protocol allows, in any       *)
(* order.  made remembers what was created, and at which offset; from then *)
(* on the buffer must read back as just that, whatever is created later.   *)
(***************************************************************************)
EXTENDS FlatBufferBuilder

CONSTANT Uses  \* the ways a builder is used, see below

(* A use is a record of bounds: is64 and dedup (the class, and whether it shares vtables),
   the contents of strings (shared: of strings to be shared), of vectors (elements,
   sequences of equally long scalars), of fields (scalars, sequences of bytes), the vtable
   offsets of fields (ids), the file identifiers (<<>> for none), the number of objects,
   of fields in a table, and of changes of an option. *)

VARIABLES
  use,      \* one of Uses
  b,        \* the builder
  pool,     \* string_pool: the offsets of the shared strings
  start,    \* what StartTable returned
  fields,   \* history: the fields added to the table under construction
  made,     \* history: the objects created so far
  root,     \* history: the root given to Finish; 0 before
  prefixed, \* history: whether Finish wrote a size prefix
  options   \* how often an option was changed

table == <<start, fields>>
finish == <<root, prefixed>>
vars == <<use, b, pool, table, made, finish, options>>

\* Default of every field: zero, as wide as the value.
Default(e) == Zeros(Len(e))

Init ==
  /\ use \in Uses
  /\ b = DedupVtables(NewBuilder(use.is64), use.dedup) /\ pool = {}
  /\ start = 0 /\ fields = <<>> /\ made = <<>>
  /\ root = 0 /\ prefixed = FALSE /\ options = 0

\* A created object: its kind, its offset, its contents.  wide: a 64-bit offset.
Object(kind, at, value) == [kind |-> kind, at |-> at, wide |-> FALSE, value |-> value]

\* What the builder c has just created is at its front.
Create(c, kind, value) ==
  /\ Len(made) < use.objects /\ ~b.finished /\ CanHold(c)
  /\ b' = c
  /\ made' = Append(made, Object(kind, GetSizeRelative32BitRegion(c), value))
  /\ UNCHANGED <<use, pool, table, finish, options>>

Create64(c, kind, value) ==
  /\ Len(made) < use.objects /\ ~b.finished /\ CanHold(c)
  /\ b' = c
  /\ made' = Append(made, [Object(kind, GetSize(c), value) EXCEPT !.wide = TRUE])
  /\ UNCHANGED <<use, pool, table, finish, options>>

Width(elements) == IF elements = <<>> THEN 8 ELSE Len(elements[1])

\* What callers have to hand in, by the types of the parameters: bytes, scalars and elements
\* as wide as an integer or a double, vtable offsets of fields of 16 bits.  The 64-bit
\* builder would look for earlier vtables and shared strings in the wrong place.
ASSUME UsesAssumption ==
  \A u \in Uses :
    /\ u.is64 \in BOOLEAN /\ u.dedup \in BOOLEAN
    /\ (u.strings \union u.shared \union u.identifiers \union u.scalars) \subseteq Seq(0 .. 255)
    /\ u.elements \subseteq Seq(Seq(0 .. 255))
    /\ \A e \in u.elements :
         Width(e) \in {1, 2, 4, 8} /\ \A i \in DOMAIN e : Len(e[i]) = Width(e)
    /\ \A e \in u.scalars : Len(e) \in {1, 2, 4, 8}
    /\ \A id \in u.identifiers : Len(id) \in {0, kFileIdentifierLength}
    /\ \A f \in u.ids : f \in Nat /\ 4 <= f /\ f <= 65532 /\ (f % 2) = 0
    /\ u.is64 => u.shared = {} /\ ~u.dedup /\ u.options = 0

Offsets == {made[i].at : i \in {j \in DOMAIN made : ~made[j].wide}}

StringCall == NotNested(b) /\ \E s \in use.strings : Create(CreateString(b, s), "string", s)

StringAt(c, off) == GetString(c.buf, data_at(c, off))

\* Fault: the pool is not searched.
FoundNowhere(c, offs, off) == {}

\* The elements of the pool that are equivalent to off under StringOffsetCompare.
Found(c, offs, off) == {o \in offs : StringAt(c, o) = StringAt(c, off)}

\* CreateSharedString: written first, then looked up, then taken back if it is there.
SharedStringCall ==
  /\ NotNested(b) /\ Len(made) < use.objects /\ ~b.finished
  /\ \E str \in use.shared :
       LET c == CreateString(b, str)
           created == GetSizeRelative32BitRegion(c)
           found == Found(c, pool, created) IN
       /\ CanHold(c)
       /\ \/ /\ found = {}
             /\ b' = c /\ pool' = pool \union {created}
             /\ made' = Append(made, Object("string", created, str))
          \/ \E off \in found :
               /\ b' = PopBytes(c, GetSize(c) - GetSize(b)) /\ UNCHANGED pool
               /\ made' = Append(made, Object("string", off, str))
  /\ UNCHANGED <<use, table, finish, options>>

VectorCall ==
  /\ NotNested(b)
  /\ \E e \in use.elements : Create(CreateVector(b, e, Width(e)), "vector", e)

\* Of two objects, one of which may be there twice.
OffsetsCall ==
  /\ NotNested(b)
  /\ \E o, p \in Offsets :
       Create(CreateVectorOfOffsets(b, <<o, p>>), "offsets", <<o, p>>)

StringsCall ==
  /\ NotNested(b)
  /\ \E s, t \in use.strings :
       Create(CreateVectorOfStrings(b, <<s, t>>), "strings", <<s, t>>)

\* Structs of eight bytes that start at a multiple of 4.
Struct == <<1, 2, 0, 0, 3, 4, 5, 6>>

StructsCall ==
  /\ NotNested(b)
  /\ \/ Create(CreateVectorOfStructs(b, <<Struct, Struct>>, 8, 4), "structs",
              <<Struct, Struct>>)
     \/ Create(CreateUninitializedVector(b, <<Struct>>, 8, 4), "structs", <<Struct>>)
     \/ Create(CreateStruct(b, Struct, 4), "struct", Struct)

\* Bytes at a multiple of 8, such as a nested buffer.
ForcedCall ==
  /\ NotNested(b)
  /\ \/ \E e \in use.elements :
          /\ Width(e) = 1
          /\ Create(CreateVector(ForceVectorAlignment(b, Len(e), 1, 8), e, 1), "forced", e)
     \/ \E s \in use.strings : s # <<>> /\
          Create(CreateString(ForceStringAlignment(b, Len(s), 8), s), "forcedstring", s)

String64Call ==
  /\ NotNested(b) /\ CanAddOffset64(b)
  /\ \E s \in use.strings : Create64(CreateString64(b, s), "string", s)

Vector64Call ==
  /\ NotNested(b) /\ CanAddOffset64(b)
  /\ \E e \in use.elements :
       \/ Create64(CreateVector64(b, e, Width(e)), "vector64", e)
       \/ Create64(CreateVector64(ForceVectorAlignment64(b, Len(e), Width(e), 8), e,
                                  Width(e)), "vector64", e)

-----------------------------------------------------------------------------
TableCall ==
  /\ NotNested(b) /\ ~b.finished /\ Len(made) < use.objects
  /\ b' = StartTable(b) /\ start' = GetSizeRelative32BitRegion(b)
  /\ UNCHANGED <<use, pool, fields, made, finish, options>>

\* A field is not set twice (EndTable asserts it).
Add(field, kind, value, c) ==
  /\ b.nested /\ Len(fields) < use.fields
  /\ \A i \in DOMAIN fields : fields[i].id # field
  /\ CanHold(c)
  /\ b' = c
  /\ fields' = Append(fields, [id |-> field, kind |-> kind, value |-> value])
  /\ UNCHANGED <<use, pool, start, made, finish, options>>

ScalarCall ==
  \E f \in use.ids, e \in use.scalars :
    \/ Add(f, "scalar", e, AddElement(b, f, e, Default(e)))
    \/ Add(f, "optional", e, AddOptional(b, f, e))

OffsetCall ==
  \E f \in use.ids, i \in DOMAIN made :
    IF made[i].wide
    THEN Add(f, "offset64", made[i].at, AddOffset64(b, f, made[i].at))
    ELSE Add(f, "offset", made[i].at, AddOffset(b, f, made[i].at))

StructCall ==
  \E f \in use.ids : Add(f, "struct", Struct, AddStruct(b, f, Struct, 4))

EndTableCall ==
  /\ CanEndTable(b, start)
  /\ LET c == EndTable(b, start) IN
     /\ CanHold(c)
     /\ b' = c
     /\ made' = Append(made, Object("table",
          GetSizeRelative32BitRegion(PushElement(b, Zeros(4))), fields))
  /\ fields' = <<>> /\ start' = 0
  /\ UNCHANGED <<use, pool, finish, options>>

-----------------------------------------------------------------------------
FinishCall ==
  /\ CanFinish(b)
  /\ \E o \in Offsets, id \in use.identifiers, p \in BOOLEAN :
       /\ b' = Finish(b, o, id, p) /\ CanHold(b')
       /\ root' = o /\ prefixed' = p
  /\ UNCHANGED <<use, pool, table, made, options>>

\* At any time, also in the middle of a table.
ClearCall ==
  /\ made # <<>>
  /\ b' = Clear(b) /\ pool' = {}
  /\ start' = 0 /\ fields' = <<>> /\ made' = <<>> /\ root' = 0 /\ prefixed' = FALSE
  /\ UNCHANGED <<use, options>>

OptionCall ==
  /\ options < use.options /\ ~b.finished
  /\ b' \in {ForceDefaults(b, ~b.force_defaults_), DedupVtables(b, ~b.dedup_vtables_)}
  /\ options' = options + 1
  /\ UNCHANGED <<use, pool, table, made, finish>>

Next ==
  \/ StringCall \/ SharedStringCall \/ VectorCall \/ OffsetsCall \/ StringsCall
  \/ StructsCall \/ ForcedCall \/ String64Call \/ Vector64Call
  \/ TableCall \/ ScalarCall \/ OffsetCall \/ StructCall \/ EndTableCall
  \/ FinishCall \/ ClearCall \/ OptionCall

Spec == Init /\ [][Next]_vars

-----------------------------------------------------------------------------
(* Properties. *)

TypeOK ==
  /\ \A i \in DOMAIN b.buf : b.buf[i] \in 0 .. 255
  /\ b.minalign_ \in {1, 2, 4, 8}
  /\ b.finished <=> root # 0
  /\ ~b.nested => start = 0 /\ fields = <<>>
  /\ {b.fields[i].id : i \in DOMAIN b.fields} \subseteq {fields[i].id : i \in DOMAIN fields}

\* Where an object is in the buffer, whatever was pushed since.
Address(o) ==
  IF o.wide THEN GetSize(b) - o.at ELSE GetSizeRelative32BitRegion(b) - o.at
At(off) == GetSizeRelative32BitRegion(b) - off

FieldReads(t, f) ==
  CASE f.kind = "scalar" ->
         GetField(b.buf, t, f.id, Len(f.value), Default(f.value)) = f.value
    [] f.kind \in {"optional", "struct"} ->
         /\ CheckField(b.buf, t, f.id)
         /\ Bytes(b.buf, GetAddressOf(b.buf, t, f.id), Len(f.value)) = f.value
    [] f.kind = "offset" -> GetPointer(b.buf, t, f.id) = At(f.value)
    [] f.kind = "offset64" -> GetPointer64(b.buf, t, f.id) = GetSize(b) - f.value

\* The fields set are there, and no others.
TableReads(o) ==
  /\ \A i \in DOMAIN o.value : FieldReads(Address(o), o.value[i])
  /\ \A f \in use.ids : CheckField(b.buf, Address(o), f)
       => \E i \in DOMAIN o.value : o.value[i].id = f

ObjectReads(o) ==
  CASE o.kind \in {"string", "forcedstring"} ->
         GetString(b.buf, Address(o)) = o.value
           /\ b.buf[Data(Address(o)) + Len(o.value) + 1] = 0
    [] o.kind = "struct" -> Bytes(b.buf, Address(o), 8) = o.value
    [] o.kind \in {"vector", "structs", "forced"} ->
         VectorSize(b.buf, Address(o)) = Len(o.value)
           /\ InlineElements(b.buf, Address(o), Width(o.value)) = o.value
    [] o.kind = "vector64" ->
         \A i \in DOMAIN o.value :
           Bytes(b.buf, Address(o) + 8 + (i - 1) * Width(o.value), Width(o.value))
             = o.value[i]
    [] o.kind = "offsets" ->
         IndirectElements(b.buf, Address(o)) = [i \in DOMAIN o.value |-> At(o.value[i])]
    [] o.kind = "strings" ->
         LET elements == IndirectElements(b.buf, Address(o)) IN
         [i \in DOMAIN elements |-> GetString(b.buf, elements[i])] = o.value
    [] o.kind = "table" -> TableReads(o)

\* Every object reads back as it was created, whatever was created, cleared or shared
\* (a vtable) afterwards; and the finished buffer starts with the way to its root.
ReadsAsWritten ==
  /\ \A i \in DOMAIN made : ObjectReads(made[i])
  /\ b.finished => (IF prefixed /\ ~use.is64 THEN GetSizePrefixedRoot(b.buf)
                    ELSE IF prefixed THEN 8 + uoffset(b.buf, 8)
                    ELSE GetRoot(b.buf)) = At(root)

\* Line 1272: Finish aligns the whole buffer.  Where it starts at a multiple of
\* GetBufferMinAlignment, so does every scalar at a multiple of its size.
Alignments(o) ==
  LET a == Address(o) IN
  CASE o.kind \in {"string", "offsets", "strings"} -> {<<a, 4>>}
    [] o.kind = "struct" -> {<<a, 4>>}
    [] o.kind = "structs" -> {<<a, 4>>, <<Data(a), 4>>}
    [] o.kind \in {"forced", "forcedstring"} -> {<<a, 4>>, <<Data(a), 8>>}
    [] o.kind = "vector" ->
         {<<a, 4>>} \union (IF o.value = <<>> THEN {} ELSE {<<Data(a), Width(o.value)>>})
    [] o.kind = "vector64" ->
         {<<a, 8>>} \union (IF o.value = <<>> THEN {} ELSE {<<a + 8, Width(o.value)>>})
    [] o.kind = "table" ->
         {<<a, 4>>, <<GetVTable(b.buf, a), 2>>} \union
         {<<GetAddressOf(b.buf, a, f.id),
            CASE f.kind \in {"scalar", "optional"} -> Len(f.value)
              [] f.kind \in {"struct", "offset"} -> 4
              [] f.kind = "offset64" -> 8>> :
          f \in {g \in ToSet(o.value) : CheckField(b.buf, a, g.id)}}

Aligned ==
  b.finished =>
    /\ GetSize(b) % b.minalign_ = 0
    /\ \A i \in DOMAIN made : \A p \in Alignments(made[i]) :
         p[2] <= b.minalign_ /\ p[1] % p[2] = 0

\* Two tables of the same layout share a vtable, unless that was switched off.
VTablesShared ==
  use.dedup /\ options = 0 =>
    \A i, j \in DOMAIN made :
      made[i].kind = "table" /\ made[j].kind = "table" =>
        LET v == GetVTable(b.buf, Address(made[i]))
            w == GetVTable(b.buf, Address(made[j])) IN
        VTableAt(b, v) = VTableAt(b, w) => v = w

\* Strings with the same contents that were asked to be shared are one: the pool finds
\* each, wherever it is by now, until Clear.
PooledOnce == \A o, p \in pool : StringAt(b, o) = StringAt(b, p) => o = p
=============================================================================
