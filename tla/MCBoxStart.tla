----------------------------- MODULE MCBoxStart -----------------------------
(* Instances of BoxStart for TLC. *)
EXTENDS BoxStart

a == Tag("a")
b == Tag("b")
c == Tag("c")
p == Tag("p")

None == Tag("")

Numbers == <<Tag("0"), Tag("1"), Tag("2")>>
Labels  == <<Tag("[p]0"), Tag("[p]1"), Tag("[p]2")>>

\* Three tags, one missing that is depended on, two equal ones, and a tag that is
\* the number of an outbound without one.
GivenTags == {<<a, b, c>>, <<c, a>>, <<a, b, a>>, <<None, b, Tag("0")>>, <<None, a, b>>}

\* None; two alike; one that an own outbound has; one that looks renamed; no tags.
ProvidedTags ==
  {<<>>, <<p, p>>, <<a, p>>, <<p, Bracketed(p, 1), p>>, <<None, None>>, <<p, p, p>>}

Dependable == {a, b, c}
=============================================================================
