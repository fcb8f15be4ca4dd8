----------------------------- MODULE BufferExchange -----------------------------
(***************************************************************************)
(* A finished buffer on its way: somebody builds it with generated code,   *)
(* it may arrive shorter, longer or with a byte changed, and the receiver  *)
(* verifies it before it reads it.                                         *)
(***************************************************************************)
EXTENDS Integers, Sequences, FiniteSets

CONSTANTS
  Types,          \* the generated code (see TableTypes)
  Keys,           \* what sorted vectors are searched for
  Traffics        \* the kinds of traffic, by name, see below

(* A traffic is a record of: the documents that are sent (see GeneratedCode), the file
   identifiers in use (<<>> for none), whether buffers carry a size in front (prefixes),
   the verifiers in use (options), what a changed byte may become (changes), how many
   bytes may be missing at the end (cuts), and the bytes that may follow (extra). *)

VARIABLES
  route,                         \* the kind of traffic
  doc, identifier, prefixed,     \* what was sent
  wire,                          \* what arrives
  damage,                        \* how it differs: none, changed, shorter, longer
  expected, opts,                \* the identifier and the verifier of the receiver
  verdict,                       \* what the verifier said
  size                           \* what a SizeVerifier took for the size

vars == <<route, doc, identifier, prefixed, wire, damage, expected, opts, verdict, size>>
sent == <<route, doc, identifier, prefixed>>
answer == <<expected, opts, verdict, size>>

G == INSTANCE GeneratedCode
V == INSTANCE Verifier

traffic == Traffics[route]

Init ==
  /\ route \in DOMAIN Traffics
  /\ doc \in traffic.documents
  /\ identifier \in traffic.identifiers /\ prefixed \in traffic.prefixes
  /\ wire = G!Encode(doc, identifier, prefixed)
  /\ damage = "none"
  /\ expected = <<>> /\ opts \in traffic.options /\ verdict = "none" /\ size = 0

-----------------------------------------------------------------------------
(* On the way. *)

Arrives == damage = "none" /\ verdict = "none"

ChangeByte(i, byte) ==
  /\ Arrives
  /\ wire[i] # byte
  /\ wire' = [wire EXCEPT ![i] = byte]
  /\ damage' = "changed"
  /\ UNCHANGED <<sent, answer>>

Shorten(n) ==
  /\ Arrives
  /\ n <= Len(wire)
  /\ wire' = SubSeq(wire, 1, Len(wire) - n)
  /\ damage' = "shorter"
  /\ UNCHANGED <<sent, answer>>

Lengthen(bytes) ==
  /\ Arrives
  /\ wire' = wire \o bytes
  /\ damage' = "longer"
  /\ UNCHANGED <<sent, answer>>

-----------------------------------------------------------------------------
(* At the receiver. *)

\* The generated Verify...Buffer and VerifySizePrefixed...Buffer.
VerifyMessage(id) ==
  LET v == V!NewVerifier(wire, opts) IN
  IF prefixed THEN V!VerifySizePrefixedBuffer(v, doc.type, id)
  ELSE V!VerifyBuffer(v, doc.type, id)

Receive(id) ==
  /\ verdict = "none"
  /\ expected' = id
  /\ LET v == VerifyMessage(id) IN
     /\ verdict' = IF v.ok THEN "accepted" ELSE "rejected"
     /\ size' = V!GetComputedSize(v)
  /\ UNCHANGED <<sent, wire, damage, opts>>

Next ==
  \/ \E i \in 1 .. Len(wire), byte \in traffic.changes : ChangeByte(i, byte)
  \/ \E n \in traffic.cuts : Shorten(n)
  \/ \E bytes \in traffic.extra : Lengthen(bytes)
  \/ \E id \in traffic.identifiers \union {<<>>} : Receive(id)

Spec == Init /\ [][Next]_vars

-----------------------------------------------------------------------------
(* What a reader of the buffer touches. *)

In(buf, a, w) == 0 <= a /\ a + w <= Len(buf)

\* A scalar is inside, and aligned if that was checked.
ScalarIn(buf, a, w) == In(buf, a, w) /\ (opts.check_alignment => a % w = 0)

OffsetIn(buf, a) == ScalarIn(buf, a, 4) /\ V!uoffset(buf, a) < V!Far

VectorIn(buf, v, w) == OffsetIn(buf, v) /\ In(buf, v, 4 + w * V!VectorSize(buf, v))

StringIn(buf, s) ==
  /\ VectorIn(buf, s, 1)
  /\ In(buf, s, 5 + V!VectorSize(buf, s))
  /\ buf[s + 5 + V!VectorSize(buf, s)] = 0

ElementsIn(buf, v, In1(_)) ==
  /\ VectorIn(buf, v, 4)
  /\ \A i \in 0 .. V!VectorSize(buf, v) - 1 :
       OffsetIn(buf, V!Data(v) + 4 * i) /\ In1(V!GetIndirect(buf, v, i))

RECURSIVE TableIn(_, _, _)

NestedIn(buf, v, type) ==
  LET inner == V!Bytes(buf, V!Data(v), V!VectorSize(buf, v)) IN
  /\ VectorIn(buf, v, 1)
  /\ opts.check_nested_flatbuffers =>
       /\ OffsetIn(inner, 0)
       /\ TableIn(inner, V!GetRoot(inner), type)

\* A vector of unions is as long as its vector of tags.
UnionsIn(buf, v, tags, types) ==
  /\ VectorIn(buf, v, 4) /\ VectorIn(buf, tags, 1)
  /\ V!VectorSize(buf, v) = V!VectorSize(buf, tags)
  /\ \A i \in 0 .. V!VectorSize(buf, v) - 1 :
       V!GetInline(buf, tags, i, 1)[1] \in DOMAIN types =>
         /\ OffsetIn(buf, V!Data(v) + 4 * i)
         /\ TableIn(buf, V!GetIndirect(buf, v, i), types[V!GetInline(buf, tags, i, 1)[1]])

FieldIn(buf, t, f) ==
  LET p == V!GetPointer(buf, t, f.vt)
      tag == V!GetField(buf, t, f.vt - 2, 1, <<0>>)[1]
      tags == V!GetPointer(buf, t, f.vt - 2)
      inside(e) == TableIn(buf, e, f.type)
      string(e) == StringIn(buf, e) IN
  IF ~V!CheckField(buf, t, f.vt) THEN ~f.required
  ELSE IF f.kind = "scalar" THEN ScalarIn(buf, V!GetAddressOf(buf, t, f.vt), f.width)
  ELSE /\ OffsetIn(buf, V!GetAddressOf(buf, t, f.vt))
       /\ CASE f.kind = "string"  -> StringIn(buf, p)
            [] f.kind = "vector"  -> VectorIn(buf, p, f.width)
            [] f.kind = "strings" -> ElementsIn(buf, p, string)
            [] f.kind = "tables"  -> ElementsIn(buf, p, inside)
            [] f.kind = "table"   -> TableIn(buf, p, f.type)
            [] f.kind = "nested"  -> NestedIn(buf, p, f.type)
            [] f.kind = "unions"  -> UnionsIn(buf, p, tags, f.types)
            [] f.kind = "union"   ->
                 tag \in DOMAIN f.types => TableIn(buf, p, f.types[tag])

TableIn(buf, t, type) ==
  /\ ScalarIn(buf, t, 4)
  /\ ScalarIn(buf, V!GetVTable(buf, t), 2)
  /\ In(buf, V!GetVTable(buf, t), V!voffset(buf, V!GetVTable(buf, t)))
  /\ V!voffset(buf, V!GetVTable(buf, t)) % 2 = 0
  /\ \A i \in DOMAIN Types[type].fields : FieldIn(buf, t, Types[type].fields[i])

MessageIn(buf) ==
  LET start == IF prefixed THEN 4 ELSE 0 IN
  OffsetIn(buf, start) /\ TableIn(buf, start + V!uoffset(buf, start), doc.type)

-----------------------------------------------------------------------------
(* What the sender meant. *)

TypeField(d, name) == G!FieldNamed(d.type, name)

\* The documents directly inside a document, in the same buffer.
Children(d) ==
  LET of(kinds) == {n \in DOMAIN d.values : TypeField(d, n).kind \in kinds} IN
  [single |-> {d.values[n] : n \in of({"table", "union"})},
   listed |-> UNION {{<<n, i>> : i \in DOMAIN d.values[n]} : n \in of({"tables", "unions"})},
   nested |-> {d.values[n] : n \in of({"nested"})}]

RECURSIVE Depth(_), Count(_), Within(_)

Largest(S) == CHOOSE x \in S : \A y \in S : y <= x

Depth(d) ==
  LET c == Children(d) IN
  1 + Largest({0} \union {Depth(x) : x \in c.single}
                  \union {Depth(d.values[x[1]][x[2]]) : x \in c.listed})

Count(d) ==
  LET c == Children(d)
      plus(sum, x) == sum + Count(x) IN
  G!FoldLeft(plus, 1, G!SetToSeq(c.single) \o
    [i \in 1 .. Cardinality(c.listed) |->
       LET x == G!SetToSeq(c.listed)[i] IN d.values[x[1]][x[2]]])

\* A nested buffer is verified with the same limits, counted from the start.
Within(d) ==
  /\ Depth(d) <= opts.max_depth /\ Count(d) <= opts.max_tables
  /\ opts.check_nested_flatbuffers => \A x \in Children(d).nested : Within(x)

RECURSIVE Sorted(_)

\* The document with its sorted vectors in order.
SortedValue(d, n) ==
  LET f == TypeField(d, n)
      v == d.values[n]
      keyIn(x) == x.values[f.key]
      less(x, y) == IF TypeField(x, f.key).kind = "string"
                    THEN G!StringLessThan(keyIn(x), keyIn(y))
                    ELSE G!soffset(keyIn(x), 0) < G!soffset(keyIn(y), 0) IN
  CASE f.kind \in {"table", "union"} -> Sorted(v)
    [] f.kind \in {"tables", "unions"} ->
         LET each == [i \in DOMAIN v |-> Sorted(v[i])] IN
         IF f.kind = "unions" THEN each
         ELSE IF f.key = "" THEN each ELSE G!SortSeq(each, less)
    [] OTHER -> v

Sorted(d) == [d EXCEPT !.values = [n \in DOMAIN @ |-> SortedValue(d, n)]]

\* In every sorted vector of a table, and of the tables inside, each key that was put in
\* is found, and no other.
RECURSIVE Searchable(_, _)
Searchable(d, t) ==
  \A n \in DOMAIN d.values :
    LET f == TypeField(d, n)
        p == G!GetPointer(wire, t, f.vt)
        wellTyped(k) == Len(k) = 8 <=> f.key = "value"
        found(k) == G!LookupByKey(wire, p, f.type, f.key, k)
        having(k) == {i \in DOMAIN d.values[n] : d.values[n][i].values[f.key] = k} IN
    IF f.kind = "table" THEN Searchable(d.values[n], p)
    ELSE f.kind = "tables" /\ f.key # "" =>
           \A k \in Keys : wellTyped(k) =>
             IF having(k) = {} THEN found(k) = G!Null
             ELSE found(k) # G!Null
                    /\ Searchable(d.values[n][CHOOSE i \in having(k) : TRUE], found(k))

-----------------------------------------------------------------------------
(* Properties. *)

\* Whatever arrives: after the verifier has said yes, no accessor, for no field, reads
\* outside the buffer or, if alignment was checked, a scalar that is not aligned.
AcceptedIsReadable == verdict = "accepted" => MessageIn(wire)

\* What was built and not damaged is accepted, unless it is deeper or has more tables than
\* the verifier allows or carries another identifier than the receiver expects; then it is not.
AcceptsWhatIsBuilt ==
  verdict # "none" /\ damage = "none" =>
    (verdict = "accepted" <=> Within(doc) /\ (expected = <<>> \/ expected = identifier))

\* What the verifier accepts, whole, cut off or with more behind it, reads as the document
\* that was sent: a missing end never goes unnoticed and changes a value.
ReadsAsSent ==
  verdict = "accepted" /\ damage # "changed" =>
    G!Decode(wire, doc.type, prefixed) = Sorted(doc)

\* A SizeVerifier finds where the buffer ends, whatever comes behind it.
FindsTheEnd ==
  verdict = "accepted" /\ opts.track /\ damage \in {"none", "longer"} =>
    size = Len(G!Encode(doc, identifier, prefixed))

\* LookupByKey, a binary search in a vector that CreateVectorOfSortedTables has sorted,
\* finds what is there: by strings and by signed numbers, at every level of a document.
KeysAreFound ==
  verdict = "accepted" /\ damage = "none" =>
    Searchable(doc, IF prefixed THEN G!GetSizePrefixedRoot(wire) ELSE G!GetRoot(wire))
=============================================================================
