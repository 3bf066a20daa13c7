----------------------------- MODULE MCProvider -----------------------------
(* Instances of Provider for TLC. *)
EXTENDS Provider

CONSTANTS ok, other, bad, hollow, selector, urltest

\* A selector that misses its default outbound in one content, and a URL test
\* group that takes any.
TwoGroups == <<selector, urltest>>
Refusing  == [g \in {selector, urltest} |-> IF g = selector THEN {other} ELSE {}]
=============================================================================
