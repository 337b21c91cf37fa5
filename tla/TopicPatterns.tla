--------------------------- MODULE TopicPatterns ---------------------------
(***************************************************************************)
(* Topic names and subscription patterns (routing.py, _matches).           *)
(* A dotted name "a.b" is the sequence of its parts <<"a", "b">>: split on *)
(* "." and join are inverse to each other, so nothing is lost.  A pattern  *)
(* is a name and whether it carried the ".*" suffix.                       *)
(***************************************************************************)
EXTENDS Naturals, Sequences

Pattern(names) == [name : names, wild : BOOLEAN]

\* "topic == prefix or topic.startswith(prefix + '.')", part by part.
StartsWith(topic, prefix) ==
    /\ Len(prefix) <= Len(topic)
    /\ \A i \in 1 .. Len(prefix) : topic[i] = prefix[i]

Matches(pattern, topic) ==
    IF pattern.wild THEN StartsWith(topic, pattern.name)
                    ELSE pattern.name = topic
=============================================================================
