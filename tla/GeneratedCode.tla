----------------------------- MODULE GeneratedCode -----------------------------
(***************************************************************************)
(* What the functions that flatc generates for a table have in common: how *)
(* they build a table in a builder and how they read one.  Types is a      *)
(* schema as the module TableTypes describes it.                           *)
(*                                                                         *)
(* A document is the value of a table: its type, and values, a function    *)
(* from field names.  Every scalar has a value; a string, vector or table  *)
(* that is null has none.                                                  *)
(***************************************************************************)
EXTENDS FlatBufferBuilder, Functions

CONSTANT Types

Fields(type) == Types[type].fields
FieldNamed(type, name) == CHOOSE f \in ToSet(Fields(type)) : f.name = name

-----------------------------------------------------------------------------
(* Keys of sorted vectors. *)

\* A string, or the low bytes of an integer.
KeyOf(buf, t, type, key) ==
  LET f == FieldNamed(type, key) IN
  IF f.kind = "string" THEN GetString(buf, GetPointer(buf, t, f.vt))
  ELSE GetField(buf, t, f.vt, f.width, f.default)

KeyCompareLessThan(buf, p, q, type, key) ==
  LET a == KeyOf(buf, p, type, key)
      b == KeyOf(buf, q, type, key) IN
  IF FieldNamed(type, key).kind = "string" THEN StringLessThan(a, b)
  ELSE soffset(a, 0) < soffset(b, 0)

\* Negative, 0 or positive, as the key of the table is less than, equal to or greater
\* than the value.  Of strings this is strcmp: no key has a 0 inside.
KeyCompareWithValue(buf, p, type, key, value) ==
  LET a == KeyOf(buf, p, type, key)
      less(x, y) == IF FieldNamed(type, key).kind = "string" THEN StringLessThan(x, y)
                    ELSE soffset(x, 0) < soffset(y, 0) IN
  IF less(a, value) THEN -1 ELSE IF less(value, a) THEN 1 ELSE 0

\* Fault: the tables stay in the order they were given in.
SortedByNothing(b, offs, type, key) == offs

\* A stable sort by the keys of the tables the offsets lead to; without a key, none.
SortedTables(b, offs, type, key) ==
  LET less(j, k) ==
        KeyCompareLessThan(b.buf, data_at(b, offs[j]), data_at(b, offs[k]), type, key)
      before(j) == {k \in DOMAIN offs : less(k, j) \/ (k < j /\ ~less(j, k))} IN
  IF key = "" THEN offs
  ELSE [i \in DOMAIN offs |->
          offs[CHOOSE j \in DOMAIN offs : Cardinality(before(j)) = i - 1]]

\* std::bsearch between the elements numbered lo and hi.
RECURSIVE Search(_, _, _, _, _, _, _)
Search(buf, v, type, key, value, lo, hi) ==
  LET mid == (lo + hi) \div 2
      order == KeyCompareWithValue(buf, GetIndirect(buf, v, mid), type, key, value) IN
  IF lo > hi THEN Null
  ELSE IF order = 0 THEN GetIndirect(buf, v, mid)
  ELSE IF order < 0 THEN Search(buf, v, type, key, value, mid + 1, hi)
  ELSE Search(buf, v, type, key, value, lo, mid - 1)

LookupByKey(buf, v, type, key, value) ==
  Search(buf, v, type, key, value, 0, VectorSize(buf, v) - 1)

-----------------------------------------------------------------------------
(* Building. *)

\* add_...: the member of a table's Builder class for a field.
AddField(b, f, value) ==
  IF f.kind = "scalar" THEN AddElement(b, f.vt, value, f.default)
  ELSE AddOffset(b, f.vt, value)

\* Create...: the fields in the order of the code, the widest first.  The offset is that
\* of the table; a vtable may be in front of it.
Create(b, type, args) ==
  LET given(i) == Fields(type)[i].name \in DOMAIN args
      add(acc, i) == AddField(acc, Fields(type)[i], args[Fields(type)[i].name])
      ended(added) == [b |-> EndTable(added, GetSizeRelative32BitRegion(b)),
                       off |-> GetSizeRelative32BitRegion(PushElement(added, Zeros(4)))] IN
  ended(FoldLeft(add, StartTable(b), SelectSeq(Types[type].added, given)))

RECURSIVE Write(_, _)

\* Several tables, or strings, and their offsets.
WriteAll(b, docs, f) ==
  LET created(c) == [b |-> c, off |-> GetSizeRelative32BitRegion(c)]
      put(acc, w) == [b |-> w.b, offs |-> Append(acc.offs, w.off)]
      each(acc, x) ==
        put(acc, IF f.kind = "strings" THEN created(CreateString(acc.b, x))
                 ELSE Write(acc.b, x)) IN
  FoldLeft(each, [b |-> b, offs |-> <<>>], docs)

\* The buffer of a document.
Encode(doc, identifier, size_prefix) ==
  LET finished(w) == Finish(w.b, w.off, identifier, size_prefix) IN
  finished(Write(NewBuilder(FALSE), doc)).buf

Inner(f) == f.kind \in {"table", "union", "tables", "unions", "strings"}
Single(f) == f.kind \in {"table", "union"}

\* A string or a vector, of value or of the offsets of the tables in it.
CreateObject(b, f, value) ==
  LET single(bytes) == [i \in DOMAIN bytes |-> <<bytes[i]>>] IN
  CASE f.kind = "string"  -> CreateString(b, value)
    [] f.kind = "vector"  -> CreateVector(b, value, f.width)
    [] f.kind = "tables"  -> CreateVectorOfOffsets(b, SortedTables(b, value, f.type, f.key))
    [] f.kind \in {"unions", "strings"} -> CreateVectorOfOffsets(b, value)
    [] f.kind = "nested"  -> CreateVector(b, single(Encode(value, <<>>, FALSE)), 1)

\* Create...Direct: the strings and the vectors in the order of the parameters, then Create.
CreateDirect(b, type, args) ==
  LET given(f) == f.name \in DOMAIN args /\ f.kind # "scalar" /\ ~Single(f)
      keep(acc, f, c) ==
        [b |-> c, args |-> (f.name :> GetSizeRelative32BitRegion(c)) @@ acc.args]
      direct(acc, f) == keep(acc, f, CreateObject(acc.b, f, acc.args[f.name]))
      create(all) == Create(all.b, type, all.args) IN
  create(FoldLeft(direct, [b |-> b, args |-> args], SelectSeq(Fields(type), given)))

\* The caller first creates the tables, and the strings of vectors of strings.  StartTable
\* asserts that no other table is open.
Write(b, doc) ==
  LET given(f) == f.name \in DOMAIN doc.values /\ Inner(f)
      value(f) == doc.values[f.name]
      keep(acc, f, all) ==
        [b |-> all.b,
         args |-> (f.name :> IF Single(f) THEN all.offs[1] ELSE all.offs) @@ acc.args]
      inner(acc, f) ==
        keep(acc, f, WriteAll(acc.b, IF Single(f) THEN <<value(f)>> ELSE value(f), f))
      direct(all) == CreateDirect(all.b, doc.type, all.args) IN
  IF NotNested(b)
  THEN direct(FoldLeft(inner, [b |-> b, args |-> doc.values], SelectSeq(Fields(doc.type), given)))
  ELSE [b |-> b, off |-> Null]

-----------------------------------------------------------------------------
(* Reading. *)

RECURSIVE Read(_, _, _)

\* content_as...: null when the tag says another type.
ReadUnion(buf, tag, p, types) ==
  IF tag \in DOMAIN types THEN Read(buf, p, types[tag]) ELSE [type |-> "unknown"]

\* The accessor of a field that is there, and what is behind the pointer it returns.
ReadField(buf, t, f) ==
  LET p == GetPointer(buf, t, f.vt)
      elements == IndirectElements(buf, p)
      tag == GetField(buf, t, f.vt - 2, 1, <<0>>)[1]
      tags == GetPointer(buf, t, f.vt - 2) IN
  CASE f.kind = "scalar"  -> GetField(buf, t, f.vt, f.width, f.default)
    [] f.kind = "string"  -> GetString(buf, p)
    [] f.kind = "vector"  -> InlineElements(buf, p, f.width)
    [] f.kind = "strings" -> [k \in DOMAIN elements |-> GetString(buf, elements[k])]
    [] f.kind = "tables"  -> [k \in DOMAIN elements |-> Read(buf, elements[k], f.type)]
    [] f.kind = "table"   -> Read(buf, p, f.type)
    [] f.kind = "union"   -> ReadUnion(buf, tag, p, f.types)
    [] f.kind = "unions"  ->
         [k \in DOMAIN elements |->
            ReadUnion(buf, GetInline(buf, tags, k - 1, 1)[1], elements[k], f.types)]
    [] f.kind = "nested"  ->
         LET inner == Bytes(buf, Data(p), VectorSize(buf, p)) IN
         Read(inner, GetRoot(inner), f.type)

Read(buf, t, type) ==
  LET there == {f \in ToSet(Fields(type)) : f.kind = "scalar" \/ CheckField(buf, t, f.vt)} IN
  [type |-> type,
   values |-> [n \in {f.name : f \in there} |-> ReadField(buf, t, FieldNamed(type, n))]]

Decode(buf, type, size_prefix) ==
  Read(buf, IF size_prefix THEN GetSizePrefixedRoot(buf) ELSE GetRoot(buf), type)
=============================================================================
