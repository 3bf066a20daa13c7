---------------------------- MODULE FakeIPTable ----------------------------
(* The two-way table between fake addresses and domains that every FakeIP  *)
(* storage keeps, one table per address family.  addr is the address ->    *)
(* domain direction (addressCache, bucket fakeip_address); dom is the      *)
(* domain -> address direction (domainCache4/6, buckets fakeip_domain4/6). *)
(* An address is its offset in the family's address space.                 *)
EXTENDS Integers

CONSTANTS Domain,    \* the domains clients ask for
          MaxIndex,  \* the last modelled address of a family
          NoDomain,  \* "no entry" in addr
          NoAddr     \* "no entry" in dom, and the zero netip.Addr

ASSUME TableAssumption == /\ MaxIndex \in Nat
                          /\ NoDomain \notin Domain
                          /\ NoAddr \notin Int

Index == 0..MaxIndex

Table == [addr : [Index -> Domain \cup {NoDomain}],
          dom  : [Domain -> Index \cup {NoAddr}]]

EmptyTable == [addr |-> [i \in Index |-> NoDomain],
               dom  |-> [d \in Domain |-> NoAddr]]

\* Mutant of Put: the domain that held the address keeps its entry.
PutKeepOld(t, i, d) == [addr |-> [t.addr EXCEPT ![i] = d],
                        dom  |-> [t.dom EXCEPT ![d] = i]]

\* FakeIPStore: the address takes the new domain, the domain that held the
\* address before loses its entry, and then the new domain gets its own.
Put(t, i, d) ==
  LET old == t.addr[i]
  IN  [addr |-> [t.addr EXCEPT ![i] = d],
       dom  |-> [e \in Domain |-> IF e = d THEN i
                                  ELSE IF e = old THEN NoAddr
                                  ELSE t.dom[e]]]

\* The entries of both directions are deleted, whatever they hold by now.
Drop(t, i, d) == [addr |-> [t.addr EXCEPT ![i] = NoDomain],
                  dom  |-> [t.dom EXCEPT ![d] = NoAddr]]

\* The part of a table routing relies on: an address that Create would answer
\* for a domain is resolved back to that domain by Lookup.
Resolves(t) == \A d \in Domain : t.dom[d] # NoAddr => t.addr[t.dom[d]] = d
=============================================================================
