----------------------------- MODULE MCSelector -----------------------------
(* Instances of Selector for TLC. *)
EXTENDS Selector, TLC

CONSTANTS a, b, c

\* A group of two named outbounds and no provider.
TwoNamed  == <<a, b>>
NoContent == {<<>>}

\* A provider that loses, renews, doubles or filters out members, or has not the default one.
NoneNamed == <<>>
Changing  == {<<>>, <<a>>, <<a, b>>, <<b, b>>, <<c>>}
Switching == {<<a>>, <<b>>}

\* Connections and callers of the API are interchangeable.
Symmetry == Permutations(Conn) \cup Permutations(Api)
=============================================================================
