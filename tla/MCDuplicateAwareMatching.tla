---------------------- MODULE MCDuplicateAwareMatching ----------------------
(* Instances of DuplicateAwareMatching for TLC.                            *)
EXTENDS DuplicateAwareMatching

TwoAdverts == {1, 2}
ThreeAdverts == {1, 2, 3}
OneUser == {"ann"}
NoUser == {}

(* The rule may take any two adverts for one property.                     *)
Pairs == {{1, 2}}
AllPairs == {{1, 2}, {1, 3}, {2, 3}}

(* The user takes every price.                                             *)
AnyPrice == [u \in OneUser |-> Prices]
=============================================================================
