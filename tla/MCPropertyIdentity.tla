-------------------------- MODULE MCPropertyIdentity --------------------------
(* Three flats at one address, the first of which is collected twice.  The *)
(* first advert shares a photo with the second at first and with the third *)
(* later, and these two share one as well, but differ in size by more than *)
(* 3% of the smaller and less than 3% of the larger.  The second and the   *)
(* fourth snapshot have similar photos and too little else in common.      *)
EXTENDS PropertyIdentity

MCListings == 1..3
MCSnapshots == 1..4
MCListingOf == [s \in MCSnapshots |-> IF s = 4 THEN 1 ELSE s]

Flat(size, photos, words) ==
  [property |-> 1, deal |-> 1, address |-> 1, area |-> Unknown,
   facts |-> [f \in Facts |-> CASE f = "rooms" -> 2 [] f = "size" -> size [] OTHER -> Unknown],
   photos |-> photos, words |-> words]
Shot(exact, bits) == [exact |-> exact, bits |-> bits]

Kitchen == Shot(1, {})
Bath == Shot(2, 0..10)
Hall == Shot(3, 20..30)
HallAgain == Shot(4, 20..31)
MCEvidenceOf ==
  [s \in MCSnapshots |->
     CASE s = 1 -> Flat(Unknown, {Kitchen}, {1})
       [] s = 2 -> Flat(2061, {Kitchen, Bath, HallAgain}, {2})
       [] s = 3 -> Flat(2000, {Bath, Hall}, {1, 2})
       [] s = 4 -> Flat(Unknown, {Hall}, {2, 3, 4})]
=============================================================================
