-------------------------------- MODULE MCExchange --------------------------------
(***************************************************************************)
(* Buffers for TLC: messages of the protocol, binary schemas, and trees,   *)
(* tables that have a field of every kind there is.                        *)
(***************************************************************************)
EXTENDS MessageSchema, BufferExchange, TLC

R == INSTANCE ReflectionSchema

-----------------------------------------------------------------------------
(* Messages. *)

\* Strings that are null, empty, shorter than, as long as and longer than a scalar.
MCStrings == {<<>>, <<65, 66, 67>>, <<65, 66, 67, 68, 69>>}
MCIds == {<<0, 0, 0, 0>>, <<255, 255, 255, 255>>}

FieldsOf(type) == G!ToSet(MessageTypes[type].fields)

ValuesOf(f) ==
  IF f.kind = "string" THEN MCStrings
  ELSE IF f.width = 1 THEN {<<0>>, <<1>>} ELSE MCIds

\* What a table may hold; a string may also be null.
Contents(type) ==
  {values \in UNION {[{f.name : f \in S} -> UNION {ValuesOf(f) : f \in S}]
                      : S \in SUBSET FieldsOf(type)} :
     \A f \in FieldsOf(type) :
       IF f.name \in DOMAIN values THEN values[f.name] \in ValuesOf(f)
       ELSE f.kind = "string"}

Wrapper(type, values) ==
  [type |-> "MESSAGE_WRAPPER",
   values |-> [message_type |-> G!Scalar(EnumValue(type), 4),
               content_type |-> G!Scalar(EnumValue(type), 1),
               content |-> [type |-> type, values |-> values]]]

\* A wrapper with nothing in it.
Empty ==
  [type |-> "MESSAGE_WRAPPER", values |-> [message_type |-> G!Scalar(17, 4), content_type |-> <<0>>]]

MCTables == {EnumNameMessageContent(e) : e \in MessageContent \ {0}}

EveryMessage ==
  {Empty} \union
  UNION {{Wrapper(type, values) : values \in Contents(type)} : type \in MCTables}

\* Some of the messages, to be damaged everywhere.
SomeMessages ==
  {Empty,
   Wrapper("REQUEST_ROOM_CREATE", [id |-> <<7, 0, 0, 0>>, room_name |-> <<65>>,
                                   room_password |-> <<66, 67, 68>>]),
   Wrapper("RESPONSE_LOGIN", [id |-> <<1, 0, 0, 0>>, feedback |-> <<1>>]),
   Wrapper("REQUEST_LOGOUT", [id |-> <<9, 0, 0, 0>>])}

-----------------------------------------------------------------------------
(* Trees. *)

Leaf == TableType(<<ScalarField("count", 4, 2, <<5, 0>>)>>, <<1>>)

Trees == 1 :> "Tree" @@ 2 :> "Leaf"

Tree ==
  TableType(
    <<Scalar("value", 4, 8), Required(String("name", 6)), Table("child", 8, "Tree"),
      SortedTables("kids", 10, "Tree", "name"), Vector("tags", 12, 1),
      Unions("any", 14, Trees), Scalar("kind", 16, 1), Union("one", 18, Trees),
      Nested("inner", 20, "Tree"), Strings("words", 22), Tables("leaves", 24, "Leaf")>>,
    <<1, 11, 10, 9, 8, 6, 5, 4, 3, 2, 7>>)

Zero8 == [i \in 1 .. 8 |-> 0]

TreeOf(name, more) ==
  [type |-> "Tree",
   values |-> [name |-> name] @@ more @@ [value |-> Zero8, kind |-> <<0>>]]

LeafOf(n) == [type |-> "Leaf", values |-> [count |-> <<n, 0>>]]

Bare == TreeOf(<<65>>, <<>>)
Valued == TreeOf(<<>>, [value |-> <<1, 2, 3, 4, 5, 6, 7, 8>>, kind |-> <<9>>])
Chain == TreeOf(<<65, 66>>, [child |-> Bare])
Family ==
  TreeOf(<<70>>, [kids |-> <<TreeOf(<<67, 65>>, <<>>), TreeOf(<<66>>, <<>>),
                             TreeOf(<<67>>, <<>>)>>])
Either == TreeOf(<<71>>, [kind |-> <<2>>, one |-> LeafOf(5)])
Several ==
  TreeOf(<<72>>, [tags |-> <<<<2>>, <<1>>>>, any |-> <<LeafOf(6), Bare>>])
Holder == TreeOf(<<73>>, [inner |-> Chain])
Words ==
  TreeOf(<<74>>, [words |-> <<<<>>, <<65, 66, 67>>>>, leaves |-> <<LeafOf(7), LeafOf(5)>>])

EveryTree == {Bare, Valued, Chain, Family, Either, Several, Holder, Words}

-----------------------------------------------------------------------------
(* Schemas. *)

\* A document that may leave scalars out; Complete gives them their defaults.
Doc(type, values) == [type |-> type, values |-> values]

RECURSIVE Complete(_)

\* A document with the scalars that it does not give, in all of its tables.
Complete(d) ==
  LET named(fields, n) == CHOOSE f \in fields : f.name = n
      value(f, v) == IF f.kind = "table" THEN Complete(v)
                     ELSE IF f.kind = "tables" THEN [i \in DOMAIN v |-> Complete(v[i])] ELSE v
      values(fields) ==
        [n \in DOMAIN d.values |-> value(named(fields, n), d.values[n])] @@
        [n \in {f.name : f \in {g \in fields : g.kind = "scalar"}} |-> named(fields, n).default] IN
  [d EXCEPT !.values = values(G!ToSet(R!SchemaTypes[d.type].fields))]

TypeNamed(base) == Doc("Type", [base_type |-> <<R!BaseType(base)>>])
Entry(k) == Doc("KeyValue", [key |-> k])
FieldOf(name, base, more) ==
  Doc("Field", [name |-> name, type |-> TypeNamed(base)] @@ more)
ObjectOf(name, fields) == Doc("Object", [name |-> name, fields |-> fields])
Value(name, v) == Doc("EnumVal", [name |-> name, value |-> v])

Minus1 == [i \in 1 .. 8 |-> 255]
EnumOf(name, values) ==
  Doc("Enum", [name |-> name, values |-> values, underlying_type |-> TypeNamed("Byte")])

SchemaOf(objects, enums, more) ==
  Doc("Schema", [objects |-> objects, enums |-> enums] @@ more)

Room == ObjectOf(<<82>>, <<FieldOf(<<80, 87>>, "String", [id |-> <<2, 0>>]),
                           FieldOf(<<80>>, "Int", [default_integer |-> Minus1])>>)
Login == ObjectOf(<<76, 65>>, <<>>)

Objects == SchemaOf(<<Room, Login, ObjectOf(<<76>>, <<>>)>>, <<>>, [file_ident |-> <<77>>])
Enums ==
  SchemaOf(<<>>, <<EnumOf(<<69>>, <<Value(<<66>>, G!Scalar(3, 8)), Value(<<>>, Minus1),
                                    Value(<<67>>, G!Scalar(0, 8))>>)>>,
           [advanced_features |-> G!Scalar(4, 8)])
Services ==
  SchemaOf(<<>>, <<>>,
    [services |-> <<Doc("Service",
       [name |-> <<83>>, calls |-> <<Doc("RPCCall",
         [name |-> <<67>>, request |-> Login, response |-> Login])>>])>>])
Files ==
  SchemaOf(<<ObjectOf(<<76>>, <<>>)>>, <<>>,
    [fbs_files |-> <<Doc("SchemaFile", [filename |-> <<70>>, included_filenames |-> <<<<71>>>>])>>,
     services |-> <<Doc("Service", [name |-> <<84>>, documentation |-> <<<<68, 69>>, <<>>>>,
                                    attributes |-> <<Entry(<<90>>), Entry(<<89>>)>>])>>,
     root_table |-> Login])

EverySchema == {Complete(d) : d \in {Objects, Enums, Services, Files, SchemaOf(<<>>, <<>>, <<>>)}}

MCKeys == {<<>>, <<66>>, <<67>>, <<69>>, <<76>>, <<76, 65>>, <<80>>, <<80, 87>>, <<82>>,
         <<83>>, <<89>>, <<90>>, Minus1} \union {G!Scalar(n, 8) : n \in {0, 2, 3}}

-----------------------------------------------------------------------------
MCTypes == MessageTypes @@ R!SchemaTypes @@ [Tree |-> Tree, Leaf |-> Leaf]

Usual == [max_depth |-> 64, max_tables |-> 1000000, check_alignment |-> TRUE,
          check_nested_flatbuffers |-> TRUE, max_size |-> 2147483647, track |-> FALSE]

Tracking == [Usual EXCEPT !.track = TRUE]

\* Every message, not changed on the way.
Messages ==
  [documents |-> EveryMessage, identifiers |-> {<<>>, <<77, 83, 71, 49>>},
   prefixes |-> BOOLEAN, options |-> {Usual, Tracking}, changes |-> {}, cuts |-> {1, 4},
   extra |-> {<<0>>, <<1, 2, 3, 4, 5>>, <<0, 0, 0, 0, 0, 0, 0, 0>>}]

DamagedMessages ==
  [documents |-> SomeMessages, identifiers |-> {<<>>}, prefixes |-> BOOLEAN,
   options |-> {Usual, [Tracking EXCEPT !.check_alignment = FALSE],
                [Usual EXCEPT !.max_depth = 1]},
   changes |-> {0, 1, 2, 3, 4, 5, 6, 7, 8, 12, 16, 17, 20, 255}, cuts |-> 1 .. 100,
   extra |-> {<<0>>}]

EveryTreeTraffic ==
  [documents |-> EveryTree, identifiers |-> {<<>>, <<84, 82, 69, 69>>},
   prefixes |-> BOOLEAN,
   options |-> {Usual, [Usual EXCEPT !.max_depth = 2], [Usual EXCEPT !.max_tables = 2],
                [Tracking EXCEPT !.check_alignment = FALSE],
                [Usual EXCEPT !.max_depth = 1, !.check_nested_flatbuffers = FALSE]},
   changes |-> {0, 1, 4, 8, 22, 255}, cuts |-> 1 .. 300,
   extra |-> {<<1>>, <<0, 0, 0, 0, 0, 0, 0, 0>>}]

Schemas ==
  [documents |-> EverySchema, identifiers |-> {R!SchemaIdentifier}, prefixes |-> BOOLEAN,
   options |-> {Usual, [Usual EXCEPT !.max_tables = 8], [Usual EXCEPT !.max_depth = 3]},
   changes |-> {0, 4, 8, 255}, cuts |-> 1 .. 600, extra |-> {<<1>>}]

MCTraffics ==
  [messages |-> Messages, damaged |-> DamagedMessages, trees |-> EveryTreeTraffic,
   schemas |-> Schemas]
=============================================================================
