---------------------------- MODULE MCDiscovery ----------------------------
(* Instances of Discovery for TLC: one advert at an RSS source, and one at *)
(* a source of the other kind.                                             *)
EXTENDS Discovery

MCAdverts == {1, 2}
MCOrder == <<"ss", "city24">>
MCSourceOf == [a \in MCAdverts |-> IF a = 1 THEN "ss" ELSE "city24"]
MCOffers == {[price |-> 1, facts |-> "brick"], [price |-> 0, facts |-> "wood"]}
=============================================================================
