---------------------------- MODULE MCInterchain ----------------------------
(* Topologies: a provider, a consumer and an independent chain; a provider    *)
(* with two consumers.                                                        *)
EXTENDS Interchain
CONSTANTS prov, cons, free, r1, r2, pA, pB

OwnID == [c \in Chains |-> c]
OneEach == [c \in Chains |-> IF c = prov THEN 2 ELSE 1]
Link(r, p, a, b) == [rp |-> <<r, p>>, ends |-> <<a, b>>]

MixedLinks == {Link(r1, pA, free, prov), Link(r2, pA, cons, free)}
MixedPCLinks == {Link(r1, pB, prov, cons)}
TwoConsumers == {Link(r1, pA, prov, cons), Link(r1, pB, prov, free)}
NoLinks == {}
=============================================================================
