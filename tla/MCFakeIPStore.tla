---------------------------- MODULE MCFakeIPStore ----------------------------
(* Instances of FakeIPStore for TLC.  A range of three addresses has one    *)
(* that Create hands out, so every new domain takes the address of another; *)
(* a range of four has two.                                                 *)
EXTENDS FakeIPStore, TLC

Config(v4, v6) == [f \in Family |-> IF f = "v4" THEN v4 ELSE v6]

low  == [lo |-> 0, hi |-> 2]
high == [lo |-> 1, hi |-> 3]
wide == [lo |-> 0, hi |-> 3]

Moving == {Config(low, NoRange), Config(high, low)}
Fixed  == {Config(wide, NoRange)}
V4Only == {Config(low, NoRange), Config(high, NoRange)}

\* Clients, goroutines and domains are interchangeable.
Symmetry == Permutations(Client) \cup Permutations(Worker) \cup Permutations(Domain)
=============================================================================
