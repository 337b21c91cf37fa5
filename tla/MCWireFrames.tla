---------------------------- MODULE MCWireFrames ----------------------------
(***************************************************************************)
(* Topics of one, two and too many cells, values and payloads on both      *)
(* sides of every limit, every combination of options, and one thing at a  *)
(* time that a serializer does not take or does not give back.             *)
(***************************************************************************)
EXTENDS WireFrames

SomeTopics == {<<"a">>, <<"a", "b">>, <<"a", "b", "c">>}

Holding(traits) == {{}} \cup {{t} : t \in traits}

SomeContents ==
    [DataFrame |-> Holding({Index, ColumnTypes, "mixed column", "naive datetime", "bytes"}),
     dict |-> Holding({"numpy scalar", "naive datetime", "NaN", "other keys", "bytes"}),
     str |-> Holding({"surrogate"}), bytes |-> Holding({"not UTF-8"}), list |-> {{}}]

\* msgspec knows no numpy scalar, pyarrow no column of values of several types.
LibraryRefuses ==
    [pyarrow |-> {"mixed column", "numpy scalar"}, msgpack |-> {"numpy scalar", "surrogate"},
     json |-> {"numpy scalar", "surrogate"}, str |-> {"surrogate"}, bytes |-> {}]

\* A datetime without a zone comes back as text, in JSON a key that is no text and
\* bytes do, too, and NaN as nothing.
LibraryAlters ==
    [pyarrow |-> {}, msgpack |-> {"naive datetime"},
     json |-> {"naive datetime", "NaN", "other keys", "bytes"}, str |-> {}, bytes |-> {}]
=============================================================================
