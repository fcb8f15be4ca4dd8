------------------------------ MODULE TableTypes ------------------------------
(***************************************************************************)
(* How the modules of generated code describe a table type: a record of    *)
(* fields, the fields in the order in which Verify looks at them, and      *)
(* added, the indices of the fields in the order in which Create adds      *)
(* them.  A field has a name, its place vt in the vtable, and a kind.      *)
(***************************************************************************)
EXTENDS Integers, Sequences

Field(name, vt, kind) == [name |-> name, vt |-> vt, kind |-> kind, required |-> FALSE]

Required(f) == [f EXCEPT !.required = TRUE]

With(f, more) ==
  [k \in DOMAIN f \union DOMAIN more |-> IF k \in DOMAIN f THEN f[k] ELSE more[k]]

\* A scalar, its default as bytes.
ScalarField(name, vt, width, default) ==
  With(Field(name, vt, "scalar"), [width |-> width, default |-> default])

\* An integer that is 0 by default.
Scalar(name, vt, width) == ScalarField(name, vt, width, [i \in 1 .. width |-> 0])

String(name, vt) == Field(name, vt, "string")
Strings(name, vt) == Field(name, vt, "strings")
Table(name, vt, type) == With(Field(name, vt, "table"), [type |-> type])

\* A vector of scalars; a vector of tables, sorted by the field named key unless it is "".
Vector(name, vt, width) == With(Field(name, vt, "vector"), [width |-> width])
Tables(name, vt, type) == With(Field(name, vt, "tables"), [type |-> type, key |-> ""])
SortedTables(name, vt, type, key) ==
  With(Field(name, vt, "tables"), [type |-> type, key |-> key])

\* One of several tables, by the tag in the scalar field in front; a vector of those, by
\* the vector in front; a vector of bytes that is a buffer itself.
Union(name, vt, types) == With(Field(name, vt, "union"), [types |-> types])
Unions(name, vt, types) == With(Field(name, vt, "unions"), [types |-> types])
Nested(name, vt, type) == With(Field(name, vt, "nested"), [type |-> type])

TableType(fields, added) == [fields |-> fields, added |-> added]
=============================================================================
