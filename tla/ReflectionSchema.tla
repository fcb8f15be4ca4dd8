---------------------------- MODULE ReflectionSchema ----------------------------
(***************************************************************************)
(* reflection_generated.h: the binary form of a schema, a buffer like any  *)
(* other.  As in MessageSchema, one definition per table; here some fields *)
(* are required, some defaults are not 0, vectors of tables are sorted by  *)
(* the key of the table, and tables are inside tables.                     *)
(***************************************************************************)
EXTENDS TableTypes

EnumNamesBaseType ==
  <<"None", "UType", "Bool", "Byte", "UByte", "Short", "UShort", "Int", "UInt", "Long",
    "ULong", "Float", "Double", "String", "Vector", "Obj", "Union", "Array", "Vector64">>

\* The value of a base type, in a byte.
BaseType(name) == CHOOSE v \in 0 .. 18 : EnumNamesBaseType[v + 1] = name

SchemaIdentifier == <<66, 70, 66, 83>>

-----------------------------------------------------------------------------
Bool(name, vt) == Scalar(name, vt, 1)

Documentation(vt) == Strings("documentation", vt)
Attributes(vt) == SortedTables("attributes", vt, "KeyValue", "key")
DeclarationFile(vt) == String("declaration_file", vt)
Name == Required(String("name", 4))

Type ==
  TableType(
    <<Scalar("base_type", 4, 1), Scalar("element", 6, 1),
      ScalarField("index", 8, 4, <<255, 255, 255, 255>>), Scalar("fixed_length", 10, 2),
      ScalarField("base_size", 12, 4, <<4, 0, 0, 0>>), Scalar("element_size", 14, 4)>>,
    <<6, 5, 3, 4, 2, 1>>)

KeyValue == TableType(<<Required(String("key", 4)), String("value", 6)>>, <<2, 1>>)

\* The field at 8 is no longer in use.
EnumVal ==
  TableType(
    <<Name, Scalar("value", 6, 8), Table("union_type", 10, "Type"), Documentation(12),
      Attributes(14)>>,
    <<2, 5, 4, 3, 1>>)

Enum ==
  TableType(
    <<Name, Required(SortedTables("values", 6, "EnumVal", "value")), Bool("is_union", 8),
      Required(Table("underlying_type", 10, "Type")), Attributes(12), Documentation(14),
      DeclarationFile(16)>>,
    <<7, 6, 5, 4, 2, 1, 3>>)

FieldFields ==
  <<Name, Required(Table("type", 6, "Type")), Scalar("id", 8, 2), Scalar("offset", 10, 2),
    Scalar("default_integer", 12, 8), Scalar("default_real", 14, 8), Bool("deprecated", 16),
    Bool("required", 18), Bool("key", 20), Attributes(22), Documentation(24),
    Bool("optional", 26), Scalar("padding", 28, 2), Bool("offset64", 30)>>

FieldTable == TableType(FieldFields, <<6, 5, 11, 10, 2, 1, 13, 4, 3, 14, 12, 9, 8, 7>>)

Object ==
  TableType(
    <<Name, Required(SortedTables("fields", 6, "Field", "name")), Bool("is_struct", 8),
      Scalar("minalign", 10, 4), Scalar("bytesize", 12, 4), Attributes(14),
      Documentation(16), DeclarationFile(18)>>,
    <<8, 7, 6, 5, 4, 2, 1, 3>>)

RPCCall ==
  TableType(
    <<Name, Required(Table("request", 6, "Object")), Required(Table("response", 8, "Object")),
      Attributes(10), Documentation(12)>>,
    <<5, 4, 3, 2, 1>>)

Service ==
  TableType(
    <<Name, SortedTables("calls", 6, "RPCCall", "name"), Attributes(8), Documentation(10),
      DeclarationFile(12)>>,
    <<5, 4, 3, 2, 1>>)

SchemaFile ==
  TableType(<<Required(String("filename", 4)), Strings("included_filenames", 6)>>, <<2, 1>>)

Schema ==
  TableType(
    <<Required(SortedTables("objects", 4, "Object", "name")),
      Required(SortedTables("enums", 6, "Enum", "name")), String("file_ident", 8),
      String("file_ext", 10), Table("root_table", 12, "Object"),
      SortedTables("services", 14, "Service", "name"), Scalar("advanced_features", 16, 8),
      SortedTables("fbs_files", 18, "SchemaFile", "filename")>>,
    <<7, 8, 6, 5, 4, 3, 2, 1>>)

SchemaTypes ==
  [Type |-> Type, KeyValue |-> KeyValue, EnumVal |-> EnumVal, Enum |-> Enum,
   Field |-> FieldTable, Object |-> Object, RPCCall |-> RPCCall, Service |-> Service,
   SchemaFile |-> SchemaFile, Schema |-> Schema]
=============================================================================
