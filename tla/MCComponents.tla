----------------------------- MODULE MCComponents ------------------------------
(* Fixtures, clocks, rates and models for TLC.                                   *)
EXTENDS Components

CONSTANTS c1, c2, db, m1, m2, pg, co, pe, op  \* names of sandbox fixtures

F(name, kind, of) == [name |-> name, kind |-> kind, of |-> of]
MCFixtures ==
  <<F(c1, "channel", {}), F(c2, "channel", {}), F(db, "database", {}),
    F(m1, "message", {c2}), F(m2, "message", {c2, m1}), F(pg, "page", {db}),
    F(co, "company", {}), F(pe, "person", {co}), F(op, "opportunity", {co, pe})>>
MCCrmFixtures ==
  <<[kind |-> "company", of |-> {}], [kind |-> "company", of |-> {}],
    [kind |-> "person", of |-> {1}], [kind |-> "person", of |-> {2}],
    [kind |-> "opportunity", of |-> {2, 3}]>>
MCSkews == {-1, 0, 1}
MCReplicaSkews == {0, 1}
MCCapacity == [requests |-> 1, tokens |-> 2]
MCRefill == [requests |-> 1, tokens |-> 1]
MCModelList == <<"small", "large">>
================================================================================
