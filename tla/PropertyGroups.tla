--------------------------- MODULE PropertyGroups ---------------------------
(***************************************************************************)
(* What the property identities promise, with every decision, job and lock *)
(* left out.  An advert gets a property and always has one from then on.   *)
(* Adverts join as groups: whatever shares a property with one of them     *)
(* comes along, and the properties left behind are retired for good.  Only *)
(* an operator moves a single advert out of its group.                     *)
(*                                                                         *)
(* PropertyIdentity implements this with its jobs and its transactions,    *)
(* and so does DuplicateAwareMatching, which reduces them to their commits *)
(* and leaves the operator out.                                            *)
(***************************************************************************)
EXTENDS Naturals

CONSTANTS Adverts,
          Movable     \* the adverts an operator may move

VARIABLES member,     \* member[a]: the property of a, or 0
          known,      \* the properties given out
          retired     \* those that were merged into another

vars == <<member, known, retired>>

Init ==
  /\ member = [a \in Adverts |-> 0]
  /\ known = {} /\ retired = {}

(* What a group brings: the properties of its adverts, and new ones for    *)
(* those that have none.                                                   *)
Brought(G) == ({member[a] : a \in G} \ {0}) \cup (known' \ known)

Join(G) ==
  /\ known \subseteq known'
  /\ \E p \in Brought(G) :
       /\ member' = [a \in Adverts |-> IF a \in G \/ member[a] \in Brought(G) THEN p ELSE member[a]]
       /\ retired' = retired \cup (Brought(G) \ {p})

Move(a) ==
  /\ \E p \in known' \ retired :
       /\ known' = known \cup {p}
       /\ member' = [member EXCEPT ![a] = p]
  /\ UNCHANGED retired

Next ==
  \/ \E G \in (SUBSET Adverts) \ {{}} : Join(G)
  \/ \E a \in Movable : Move(a)

Spec == Init /\ [][Next]_vars
=============================================================================
