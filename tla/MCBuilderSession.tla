---------------------------- MODULE MCBuilderSession ----------------------------
(* Uses of a builder for TLC. *)
EXTENDS BuilderSession

Wide == <<1, 2, 3, 4, 5, 6, 7, 8>>

\* Two objects of any kind, with all the options.
Everything ==
  [is64 |-> FALSE, dedup |-> TRUE, strings |-> {<<>>, <<97, 98, 99, 100>>}, shared |-> {},
   elements |-> {<<>>, <<<<1>>, <<2>>, <<3>>>>, <<Wide>>}, scalars |-> {<<7>>, Wide},
   ids |-> {4, 6}, identifiers |-> {<<>>, <<77, 83, 71, 49>>},
   objects |-> 2, fields |-> 2, options |-> 1]

\* Three objects, tables that refer to each other and share vtables.
Tables ==
  [Everything EXCEPT !.strings = {}, !.elements = {}, !.scalars = {<<7>>},
                     !.identifiers = {<<>>}, !.objects = 3, !.options = 0]

\* Four strings, shared or not.
Strings ==
  [Tables EXCEPT !.strings = {<<97, 98>>}, !.shared = {<<>>, <<97, 98>>, <<97, 99>>},
                 !.scalars = {}, !.ids = {4}, !.objects = 4, !.fields = 1]

\* 64-bit offsets.
Long ==
  [Everything EXCEPT !.is64 = TRUE, !.dedup = FALSE, !.strings = {<<97, 98, 99>>},
                     !.elements = {<<Wide>>}, !.identifiers = {<<>>}, !.options = 0]

MCUses == {Everything, Tables, Strings, Long}
=============================================================================
