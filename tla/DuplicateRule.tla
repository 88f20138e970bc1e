---------------------------- MODULE DuplicateRule ----------------------------
(***************************************************************************)
(* When two adverts are taken for one property: the query that proposes    *)
(* candidates (sqlcgen/deduplication.sql.go) and the rule that decides on  *)
(* them (identity/resolver.go).  Pure functions of two pieces of evidence, *)
(* that of the advert being resolved and that of the other one.            *)
(*                                                                         *)
(* Measures are in tenths of a square metre, scores in ten-thousandths.    *)
(* Normalized texts (addresses, keys, series, types, words) are numbers    *)
(* that tell them apart.  All fingerprints are of one algorithm version.   *)
(***************************************************************************)
EXTENDS Integers, FiniteSets

Unknown == -1
Value == Nat \cup {Unknown}
Facts == {"rooms", "size", "floor", "floors", "series", "type", "land"}

(* A perceptual hash is the set of its bits that are one.                  *)
Photo == [exact : Nat, bits : SUBSET (0..63)]

Evidence == [property : Nat, deal : Nat, address : Value, area : Value,
             facts : [Facts -> Value],
             photos : SUBSET Photo, words : SUBSET Nat]

-----------------------------------------------------------------------------
(* Facts.                                                                  *)

Known(l, r, f) == l.facts[f] # Unknown /\ r.facts[f] # Unknown
MaxOf(x, y) == IF x <= y THEN y ELSE x
Distance(x, y) == IF x <= y THEN y - x ELSE x - y

(* How far a fact may be from x, in hundredths of its unit: 2 m2 or 3% of  *)
(* the area, 50 m2 or 10% of the land, nothing else.                       *)
Tolerance(f, x) ==
  CASE f = "size" -> MaxOf(2000, 3 * x)
    [] f = "land" -> MaxOf(50000, 10 * x)
    [] OTHER -> 0
Within(f, x, y, of) == 100 * Distance(x, y) <= Tolerance(f, of)

(* compareFacts: the tolerance is that of the larger value.                *)
Agree(l, r, f) ==
  LET x == l.facts[f]
      y == r.facts[f]
  IN Within(f, x, y, MaxOf(x, y))
Compatible(l, r) == {f \in Facts : Known(l, r, f) /\ Agree(l, r, f)}
Conflicting(l, r) == {f \in Facts : Known(l, r, f) /\ ~Agree(l, r, f)}

-----------------------------------------------------------------------------
(* FindDuplicateCandidateSnapshotIDs: r is among the candidates of l.  The *)
(* tolerance is that of l.                                                 *)

Blocking == {"rooms", "size", "floor", "land"}
Meets(l, r) ==
  /\ l.property = r.property /\ l.deal = r.deal
  /\ l.address # Unknown /\ l.address = r.address
  /\ Unknown \in {l.area, r.area} \/ l.area = r.area
  /\ \A f \in Blocking : Known(l, r, f) => Within(f, l.facts[f], r.facts[f], l.facts[f])

-----------------------------------------------------------------------------
(* EvaluateDuplicate.                                                      *)

(* comparePhotos.                                                          *)
Differing(p, q) == (p.bits \ q.bits) \cup (q.bits \ p.bits)
Same(l, r) == \E p \in l.photos, q \in r.photos : p.exact = q.exact
Alike(l, r) == \E p \in l.photos, q \in r.photos : Cardinality(Differing(p, q)) <= 10
PhotoScore(l, r) ==
  IF Same(l, r) THEN 6000 ELSE IF Alike(l, r) THEN 4800 ELSE 0

BothKnown(x, y) == x # Unknown /\ x = y

(* Mutant: the words of the advert being resolved alone are counted.       *)
MutantOwnWords(l, r) ==
  IF l.words = {} \/ r.words = {} THEN 0
  ELSE LET all == Cardinality(l.words)
       IN (2000 * Cardinality(l.words \cap r.words) + all) \div (2 * all)

(* tokenSimilarity, at most a tenth of the score and rounded as the score  *)
(* is; all its other terms are whole.                                      *)
WordScore(l, r) ==
  IF l.words = {} \/ r.words = {} THEN 0
  ELSE LET all == Cardinality(l.words \cup r.words)
       IN (2000 * Cardinality(l.words \cap r.words) + all) \div (2 * all)

Weight(f, F, n) == IF f \in F THEN n ELSE 0
FactScore(F) ==
  Weight("rooms", F, 500) + Weight("size", F, 600) + Weight("floor", F, 300)
    + Weight("floors", F, 200) + Weight("series", F, 200) + Weight("type", F, 200)
    + Weight("land", F, 500)
Penalty(F) == IF Cardinality(F) >= 3 THEN 3600 ELSE 1200 * Cardinality(F)

Score(l, r) ==
  LET sum == PhotoScore(l, r) + (IF BothKnown(l.address, r.address) THEN 1500 ELSE 0)
               + (IF BothKnown(l.area, r.area) THEN 800 ELSE 0)
               + FactScore(Compatible(l, r)) + WordScore(l, r) - Penalty(Conflicting(l, r))
  IN IF sum < 0 THEN 0 ELSE IF sum > 10000 THEN 10000 ELSE sum

(* Only what is accepted merges; ambiguous pairs are kept apart like the   *)
(* rejected ones.                                                          *)
Accepted(l, r) ==
  /\ Same(l, r) \/ Alike(l, r)
  /\ BothKnown(l.address, r.address)
  /\ Conflicting(l, r) = {}
  /\ Score(l, r) >= 7200
=============================================================================
