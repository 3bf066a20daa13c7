--------------------------- MODULE FakeIPContract ---------------------------
(* What the router needs from a FakeIP storage: a write-behind register per *)
(* fake address.  map is what Lookup answers, durable what a restart finds. *)
(* A lookup answers the domain assigned last; only that domain may be made *)
(* durable; a restart falls back to what is durable and to nothing else.   *)
CONSTANTS Addr, Value, NoValue

VARIABLES map, durable

Nothing == [a \in Addr |-> NoValue]

Init == map = Nothing /\ durable = Nothing

Assign(a, v) == /\ map' = [map EXCEPT ![a] = v]
                /\ UNCHANGED durable

Persist(a) == /\ map[a] # NoValue
              /\ durable' = [durable EXCEPT ![a] = map[a]]
              /\ UNCHANGED map

Restart == map' = durable /\ UNCHANGED durable

\* Only a storage with nothing left to persist may be cleared.
Reset == map = durable /\ map' = Nothing /\ durable' = Nothing

Next == \/ \E a \in Addr, v \in Value : Assign(a, v)
        \/ \E a \in Addr : Persist(a)
        \/ Restart
        \/ Reset

Spec == Init /\ [][Next]_<<map, durable>>
=============================================================================
