------------------------ MODULE AlertDelivery_proofs ------------------------
(***************************************************************************)
(* Proofs about AlertDelivery, for every set of filters, users and events, *)
(* whoever owns and wants what, and every bound.                           *)
(***************************************************************************)
EXTENDS AlertDelivery, WellFoundedInduction, TLAPS

(* The events a filter has a row for, or had when its batch was read.      *)
Handled(f, e) == note[<<f, e>>] # "none" \/ <<f, e>> \in notifier.batch

(* The rows a message may still be sent for.  The one in hand has had its  *)
(* message.                                                                *)
Sendable(f, e) ==
  /\ note[<<f, e>>] = "pending" \/ <<f, e>> \in notifier.batch
  /\ ~(notifier.pc = "mark" /\ notifier.row = <<f, e>>)

(* The parts of the inductive invariant: times only grow, the transaction  *)
(* in progress has one filter of every interested user, all of a user's    *)
(* rows for an event are one, and a message may be sent for it only if the *)
(* faults account for those sent before.                                   *)
TimesGrow ==
  /\ polled <= clock
  /\ \A e \in Events : occurred[e] <= clock /\ (e \in consumed => occurred[e] > 0)
  /\ \A f \in Filters : /\ created[f] <= activated[f] /\ activated[f] <= since[f] /\ since[f] <= clock
                        /\ \A t \in stamps[f] : t <= clock /\ (status[f] # "none" => created[f] <= t)
                        /\ status[f] = "none" => \A t, u \in stamps[f] : t = u
  /\ \A f \in Filters : status[f] = "none" =>
       f \notin matcher.selected /\ \A e \in Events : note[<<f, e>>] = "none"

MatchIsComplete ==
  /\ \A f, g \in matcher.selected : Owner[f] = Owner[g] => f = g
  /\ \A e \in matcher.event :
       /\ e \notin consumed /\ occurred[e] > 0
       /\ \A f \in matcher.selected : created[f] < occurred[e]
       /\ \A f \in InForce(e) : \E g \in matcher.selected : Owner[g] = Owner[f]

HandledOnce ==
  \A e \in Events :
    /\ \A f, g \in Filters : Handled(f, e) /\ Handled(g, e) /\ Owner[f] = Owner[g] => f = g
    /\ \A f \in Filters : Handled(f, e) => e \in consumed

SendsAreCounted ==
  /\ RepeatsNeedFaults
  /\ \A u \in Users, e \in Events : e \notin consumed => received[<<u, e>>] = 0
  /\ \A f \in Filters, e \in Events : Sendable(f, e) => received[<<Owner[f], e>>] <= faults
  /\ notifier.pc = "mark" => notifier.row \notin notifier.batch

RowsExplained == NoBacklog /\ InterestedUserHasRow

IInv == TimesGrow /\ MatchIsComplete /\ HandledOnce /\ RowsExplained /\ SendsAreCounted

-----------------------------------------------------------------------------
(* What the constants and the types say of single values.                  *)
LEMMA Values ==
  ASSUME TypeOK
  PROVE  /\ clock \in Nat /\ faults \in Nat
         /\ \A f \in Filters : f \in Nat /\ Owner[f] \in Users
         /\ \A f \in Filters : activated[f] \in Nat /\ created[f] \in Nat /\ since[f] \in Nat
         /\ \A f \in Filters : \A t \in stamps[f] : t \in Nat
         /\ polled \in Nat /\ \A e \in Events : occurred[e] \in Nat
         /\ \A u \in Users, e \in Events : received[<<u, e>>] \in Nat
         /\ matcher.selected \subseteq Filters /\ matcher.event \subseteq Events
         /\ notifier.batch \subseteq Rows
  BY FiltersAssumption, OwnerAssumption, AlertBoundsAssumption DEF TypeOK

(* Selected has exactly one filter of every user with a matching one.      *)
LEMMA SelectedFacts ==
  ASSUME TypeOK, NEW e \in Events
  PROVE  /\ Selected(e) \subseteq Matching(e) /\ Matching(e) \subseteq Filters
         /\ \A f, g \in Selected(e) : Owner[f] = Owner[g] => f = g
         /\ \A f \in Matching(e) : \E g \in Selected(e) : Owner[g] = Owner[f]
<1>1. Selected(e) \subseteq Matching(e) /\ Matching(e) \subseteq Filters
  BY DEF Selected, Matching
<1>2. ASSUME NEW f \in Selected(e), NEW g \in Selected(e), Owner[f] = Owner[g]
      PROVE  f = g
  <2>1. f <= g /\ g <= f
    BY <1>1, <1>2 DEF Selected
  <2>2. f \in Nat /\ g \in Nat
    BY <1>1, FiltersAssumption
  <2>. QED
    BY <2>1, <2>2
<1>3. ASSUME NEW f \in Matching(e)
      PROVE  \E g \in Selected(e) : Owner[g] = Owner[f]
  <2>. DEFINE S == {g \in Matching(e) : Owner[g] = Owner[f]}
  <2>1. S \subseteq Nat /\ S # {}
    BY <1>1, <1>3, FiltersAssumption
  <2>2. PICK x \in S : \A y \in S : ~(<<y, x>> \in OpToRel(<, Nat))
    BY <2>1, NatLessThanWellFounded, WFMin
  <2>3. \A y \in S : ~(y < x)
    BY <2>1, <2>2, Zenon DEF OpToRel
  <2>4. \A y \in S : x <= y
    BY <2>1, <2>3
  <2>5. x \in Selected(e)
    BY <2>4 DEF Selected
  <2>. QED
    BY <2>5
<1>. QED
  BY <1>1, <1>2, <1>3

LEMMA InitIInv == Init => TypeOK /\ IInv
<1>. SUFFICES ASSUME Init PROVE TypeOK /\ IInv
  OBVIOUS
<1>1. TypeOK
  BY AlertBoundsAssumption DEF Init, TypeOK, NoMatch, Resting, NoRow
<1>2. note \in [Rows -> {"none"}] /\ received \in [Users \X Events -> {0}]
  BY DEF Init
<1>3. TimesGrow /\ MatchIsComplete
  BY DEF Init, NoMatch, TimesGrow, MatchIsComplete, Rows
<1>4. HandledOnce /\ RowsExplained
  BY <1>2 DEF Init, Resting, HandledOnce, Handled, RowsExplained, NoBacklog, InterestedUserHasRow, Rows
<1>5. SendsAreCounted
  <2>1. \A u \in Users, e \in Events : received[<<u, e>>] = 0
    BY <1>2
  <2>2. \A f \in Filters, e \in Events : ~Sendable(f, e)
    BY <1>2 DEF Init, Resting, Sendable, Rows
  <2>3. RepeatsNeedFaults /\ notifier.pc # "mark"
    BY <2>1 DEF Init, Resting, RepeatsNeedFaults
  <2>. QED
    BY <2>1, <2>2, <2>3 DEF SendsAreCounted
<1>. QED
  BY <1>1, <1>3, <1>4, <1>5 DEF IInv

-----------------------------------------------------------------------------
(* The user's steps: rows may leave, activations move to a stamp in hand.  *)
UserFrame == UNCHANGED <<clock, occurred, polled, consumed, matcher, notifier, received, faults>>

UserChange ==
  /\ \A f \in Filters :
       /\ status'[f] = "none" => status[f] = "none"
       /\ \/ /\ since'[f] = since[f] /\ activated'[f] = activated[f]
             /\ status'[f] = "enabled" => status[f] = "enabled"
          \/ since'[f] = clock /\ activated'[f] \in stamps[f] /\ status'[f] # "none"
       /\ \/ created'[f] = created[f] /\ (status[f] = "none" => status'[f] = "none")
          \/ /\ status[f] = "none" /\ created'[f] = activated'[f] /\ activated'[f] \in stamps[f]
             /\ stamps'[f] = {}
       /\ \/ stamps'[f] \subseteq stamps[f]
          \/ stamps'[f] = stamps[f] \cup {clock} /\ (status'[f] = "none" => stamps[f] = {})
  /\ withdrawn \subseteq withdrawn'
  /\ \A f \in Filters, e \in Events :
       note'[<<f, e>>] = note[<<f, e>>] \/ (note'[<<f, e>>] = "none" /\ <<Owner[f], e>> \in withdrawn')

LEMMA UserKeeps ==
  ASSUME TypeOK, TypeOK', IInv, UserFrame, UserChange
  PROVE  IInv'
<1>. USE Values
<1>1. TimesGrow'
  <2>1. /\ polled' <= clock'
        /\ \A e \in Events : occurred'[e] <= clock' /\ (e \in consumed' => occurred'[e] > 0)
    BY DEF IInv, TimesGrow, UserFrame
  <2>2. ASSUME NEW f \in Filters
        PROVE  /\ created'[f] <= activated'[f] /\ activated'[f] <= since'[f] /\ since'[f] <= clock'
               /\ \A t \in stamps'[f] : t <= clock' /\ (status'[f] # "none" => created'[f] <= t)
               /\ status'[f] = "none" => \A t, u \in stamps'[f] : t = u
    <3>1. /\ created[f] <= activated[f] /\ activated[f] <= since[f] /\ since[f] <= clock
          /\ \A t \in stamps[f] : t <= clock /\ (status[f] # "none" => created[f] <= t)
          /\ status[f] = "none" => \A t, u \in stamps[f] : t = u
      BY DEF IInv, TimesGrow
    <3>2. clock' = clock
      BY DEF UserFrame
    <3>3. created'[f] <= activated'[f] /\ activated'[f] <= since'[f] /\ since'[f] <= clock
      BY <3>1 DEF UserChange
    <3>4. \A t \in stamps'[f] : t <= clock /\ (status'[f] # "none" => created'[f] <= t)
      BY <3>1 DEF UserChange
    <3>5. status'[f] = "none" => \A t, u \in stamps'[f] : t = u
      BY <3>1 DEF UserChange
    <3>. QED
      BY <3>2, <3>3, <3>4, <3>5
  <2>3. \A f \in Filters : status'[f] = "none" =>
          f \notin matcher'.selected /\ \A e \in Events : note'[<<f, e>>] = "none"
    <3>1. \A f \in Filters : status'[f] = "none" => status[f] = "none"
      BY DEF UserChange
    <3>2. \A f \in Filters, e \in Events : note[<<f, e>>] = "none" => note'[<<f, e>>] = "none"
      BY DEF UserChange
    <3>. QED
      BY <3>1, <3>2 DEF IInv, TimesGrow, UserFrame
  <2>. QED
    BY <2>1, <2>2, <2>3 DEF TimesGrow
<1>2. \A e \in Events : occurred[e] > 0 => InForce(e)' \subseteq InForce(e)
  BY DEF InForce, UserFrame, UserChange, IInv, TimesGrow
<1>3. MatchIsComplete'
  <2>1. \A f \in matcher.selected : created'[f] = created[f]
    BY DEF IInv, TimesGrow, UserChange
  <2>. QED
    BY <1>2, <2>1 DEF IInv, MatchIsComplete, UserFrame
<1>4. HandledOnce'
  <2>1. \A f \in Filters, e \in Events : Handled(f, e)' => Handled(f, e)
    BY DEF Handled, UserFrame, UserChange
  <2>. QED
    BY <2>1 DEF IInv, HandledOnce, UserFrame
<1>5. RowsExplained'
  <2>1. NoBacklog'
    <3>1. \A f \in Filters, e \in Events : note'[<<f, e>>] # "none" => note[<<f, e>>] # "none"
      BY DEF UserChange
    <3>2. \A f \in Filters, e \in Events : note[<<f, e>>] # "none" => status[f] # "none"
      BY DEF IInv, TimesGrow
    <3>3. \A f \in Filters : status[f] # "none" => created'[f] = created[f]
      BY DEF UserChange
    <3>. QED
      BY <3>1, <3>2, <3>3 DEF IInv, RowsExplained, NoBacklog, UserFrame
  <2>2. InterestedUserHasRow'
    <3>. SUFFICES ASSUME NEW e \in consumed, NEW f \in Filters, f \in InForce(e)',
                         <<Owner[f], e>> \notin withdrawn'
                  PROVE  \E g \in FiltersOf(Owner[f]) : note'[<<g, e>>] # "none"
      BY DEF InterestedUserHasRow, UserFrame
    <3>1. e \in Events /\ f \in InForce(e) /\ <<Owner[f], e>> \notin withdrawn
      BY <1>2 DEF TypeOK, IInv, TimesGrow, UserChange
    <3>2. PICK g \in FiltersOf(Owner[f]) : note[<<g, e>>] # "none"
      BY <3>1 DEF IInv, RowsExplained, InterestedUserHasRow
    <3>3. g \in Filters /\ Owner[g] = Owner[f]
      BY DEF FiltersOf
    <3>. QED
      BY <3>1, <3>2, <3>3 DEF UserChange
  <2>. QED
    BY <2>1, <2>2 DEF RowsExplained
<1>6. SendsAreCounted'
  <2>1. \A f \in Filters, e \in Events : Sendable(f, e)' => Sendable(f, e)
    BY DEF Sendable, UserFrame, UserChange
  <2>. QED
    BY <2>1 DEF IInv, SendsAreCounted, RepeatsNeedFaults, UserFrame
<1>. QED
  BY <1>1, <1>3, <1>4, <1>5, <1>6 DEF IInv

LEMMA WithdrawFacts ==
  ASSUME TypeOK, NEW f \in Filters, NEW S, Withdraw(f, S)
  PROVE  /\ note' \in [Rows -> {"none", "pending", "sent", "failed"}]
         /\ withdrawn \subseteq withdrawn' /\ withdrawn' \subseteq Users \X Events
         /\ \A g \in Filters, e \in Events :
              note'[<<g, e>>] = note[<<g, e>>] \/ (note'[<<g, e>>] = "none" /\ <<Owner[g], e>> \in withdrawn')
<1>1. note' \in [Rows -> {"none", "pending", "sent", "failed"}]
  BY DEF Withdraw, TypeOK
<1>2. withdrawn \subseteq withdrawn' /\ withdrawn' \subseteq Users \X Events
  <2>1. \A e \in Events : <<Owner[f], e>> \in Users \X Events
    BY OwnerAssumption
  <2>2. withdrawn' = withdrawn \cup {<<Owner[f], e>> : e \in {e \in Events : note[<<f, e>>] \in S}}
    BY DEF Withdraw
  <2>3. withdrawn \subseteq Users \X Events
    BY DEF TypeOK
  <2>. QED
    BY <2>1, <2>2, <2>3
<1>3. ASSUME NEW g \in Filters, NEW e \in Events
      PROVE  note'[<<g, e>>] = note[<<g, e>>] \/ (note'[<<g, e>>] = "none" /\ <<Owner[g], e>> \in withdrawn')
  <2>1. <<g, e>> \in Rows /\ <<g, e>>[1] = g /\ <<g, e>>[2] = e
    BY DEF Rows
  <2>. QED
    BY <2>1 DEF Withdraw
<1>. QED
  BY <1>1, <1>2, <1>3

LEMMA UserInv ==
  ASSUME TypeOK, IInv, UserStep
  PROVE  TypeOK' /\ IInv'
<1>. USE Values
<1>1. ASSUME NEW f \in Filters, NEW t \in stamps[f], CreateFilter(f, t)
      PROVE  TypeOK' /\ UserFrame /\ UserChange
  <2>1. TypeOK' /\ UserFrame
    BY <1>1 DEF CreateFilter, Activate, TypeOK, UserFrame
  <2>2. stamps'[f] = {}
    BY <1>1 DEF CreateFilter, Activate, TypeOK, IInv, TimesGrow
  <2>. QED
    BY <1>1, <2>1, <2>2 DEF CreateFilter, Activate, TypeOK, UserChange
<1>2. ASSUME NEW f \in Filters, Pause(f)
      PROVE  TypeOK' /\ UserFrame /\ UserChange
  BY <1>2, WithdrawFacts DEF Pause, TypeOK, UserFrame, UserChange
<1>3. ASSUME NEW f \in Filters, NEW t \in stamps[f], Resume(f, t)
      PROVE  TypeOK' /\ UserFrame /\ UserChange
  BY <1>3 DEF Resume, Activate, TypeOK, UserFrame, UserChange
<1>4. ASSUME NEW f \in Filters, DeleteFilter(f)
      PROVE  TypeOK' /\ UserFrame /\ UserChange
  BY <1>4, WithdrawFacts DEF DeleteFilter, TypeOK, UserFrame, UserChange
<1>5. ASSUME NEW f \in Filters, Press(f)
      PROVE  TypeOK' /\ UserFrame /\ UserChange
  BY <1>5 DEF Press, TypeOK, UserFrame, UserChange
<1>. QED
  BY <1>1, <1>2, <1>3, <1>4, <1>5, UserKeeps DEF UserStep

-----------------------------------------------------------------------------
(* Time passes, and events occur: none that is stamped before matches anew.*)
LEMMA TimeInv ==
  ASSUME TypeOK, IInv, Tick \/ PollBegins \/ PollCommits
  PROVE  TypeOK' /\ IInv'
<1>. USE Values
<1>1. CASE Tick \/ PollBegins
  <2>1. /\ clock' \in 0..MaxClock /\ clock <= clock' /\ polled' \in 0..MaxClock
        /\ polled' = polled \/ polled' = clock
        /\ UNCHANGED <<status, activated, created, stamps, since, withdrawn, occurred, consumed,
                       matcher, note, notifier, received, faults>>
    BY <1>1, AlertBoundsAssumption DEF Tick, PollBegins, filterVars, TypeOK
  <2>2. TypeOK' /\ TimesGrow'
    BY <2>1 DEF TypeOK, IInv, TimesGrow
  <2>3. MatchIsComplete'
    BY <2>1 DEF IInv, MatchIsComplete, InForce
  <2>4. HandledOnce' /\ RowsExplained'
    BY <2>1 DEF IInv, HandledOnce, Handled, RowsExplained, NoBacklog, InterestedUserHasRow, InForce
  <2>5. SendsAreCounted'
    BY <2>1 DEF IInv, SendsAreCounted, RepeatsNeedFaults, Sendable
  <2>. QED
    BY <2>2, <2>3, <2>4, <2>5 DEF IInv
<1>2. CASE PollCommits
  <2>1. PICK found \in SUBSET {e \in Events : occurred[e] = 0} :
          occurred' = [e \in Events |-> IF e \in found THEN polled ELSE occurred[e]]
    BY <1>2 DEF PollCommits
  <2>2. /\ polled > 0 /\ polled' = 0
        /\ UNCHANGED <<clock, status, activated, created, stamps, since, withdrawn, consumed,
                       matcher, note, notifier, received, faults>>
    BY <1>2 DEF PollCommits, filterVars
  <2>3. TypeOK'
    BY <2>1, <2>2, AlertBoundsAssumption DEF TypeOK
  <2>4. \A d \in Events : d \notin found => occurred'[d] = occurred[d]
    BY <2>1
  <2>5. \A d \in found : d \notin consumed /\ d \notin matcher.event
    BY <2>1 DEF IInv, TimesGrow, MatchIsComplete
  <2>6. TimesGrow'
    BY <2>1, <2>2 DEF IInv, TimesGrow, TypeOK
  <2>7. \A d \in Events : d \notin found => InForce(d)' = InForce(d)
    BY <2>2, <2>4 DEF InForce
  <2>8. MatchIsComplete'
    <3>1. \A d \in matcher.event : d \in Events /\ d \notin found
      BY <2>5
    <3>. QED
      BY <2>2, <2>4, <2>7, <3>1 DEF IInv, MatchIsComplete
  <2>9. HandledOnce'
    BY <2>2 DEF IInv, HandledOnce, Handled
  <2>10. NoBacklog'
    BY <2>2, <2>4, <2>5 DEF IInv, RowsExplained, NoBacklog, HandledOnce, Handled
  <2>11. InterestedUserHasRow'
    <3>1. \A d \in consumed : d \in Events /\ d \notin found
      BY <2>5 DEF TypeOK
    <3>. QED
      BY <2>2, <2>7, <3>1 DEF IInv, RowsExplained, InterestedUserHasRow
  <2>12. SendsAreCounted'
    BY <2>2 DEF IInv, SendsAreCounted, RepeatsNeedFaults, Sendable
  <2>. QED
    BY <2>3, <2>6, <2>8, <2>9, <2>10, <2>11, <2>12 DEF IInv, RowsExplained
<1>. QED
  BY <1>1, <1>2

-----------------------------------------------------------------------------
(* The match transaction.                                                  *)
LEMMA MatchBeginsInv ==
  ASSUME TypeOK, IInv, NEW e \in Events, MatchBegins(e)
  PROVE  TypeOK' /\ IInv'
<1>. USE Values
<1>1. /\ matcher' = [event |-> {e}, selected |-> Selected(e)]
      /\ occurred[e] > 0 /\ e \notin consumed
      /\ UNCHANGED <<clock, status, activated, created, stamps, since, withdrawn, occurred, polled, consumed,
                     note, notifier, received, faults>>
  BY DEF MatchBegins, filterVars
<1>2. matcher'.event = {e} /\ matcher'.selected = Selected(e)
  BY <1>1
<1>3. TypeOK'
  BY <1>1, SelectedFacts DEF TypeOK
<1>4. \A f \in Selected(e) : f \in Filters /\ status[f] = "enabled" /\ activated[f] < occurred[e]
  BY SelectedFacts DEF Matching
<1>5. TimesGrow'
  BY <1>1, <1>2, <1>4 DEF IInv, TimesGrow
<1>6. MatchIsComplete'
  <2>1. \A f \in Selected(e) : created[f] < occurred[e]
    BY <1>4 DEF IInv, TimesGrow
  <2>2. InForce(e)' \subseteq Matching(e)
    BY <1>1 DEF InForce, Matching, IInv, TimesGrow
  <2>. QED
    BY <1>1, <1>2, <2>1, <2>2, SelectedFacts DEF MatchIsComplete
<1>7. HandledOnce' /\ RowsExplained'
  BY <1>1 DEF IInv, HandledOnce, Handled, RowsExplained, NoBacklog, InterestedUserHasRow, InForce
<1>8. SendsAreCounted'
  BY <1>1 DEF IInv, SendsAreCounted, RepeatsNeedFaults, Sendable
<1>. QED
  BY <1>3, <1>5, <1>6, <1>7, <1>8 DEF IInv

(* A crash takes the handlers and the poll at work with it.                *)
FewerStamps == polled' \in {polled, 0} /\ \A f \in Filters : stamps'[f] \subseteq stamps[f]

(* A transaction that is gone leaves nothing behind.                       *)
LEMMA NoMatchInv ==
  ASSUME TypeOK, IInv, matcher' = NoMatch, FewerStamps,
         UNCHANGED <<clock, status, activated, created, since, withdrawn, occurred, consumed, note>>
  PROVE  TimesGrow' /\ MatchIsComplete' /\ RowsExplained'
<1>. USE Values
<1>1. matcher'.event = {} /\ matcher'.selected = {}
  BY DEF NoMatch
<1>. QED
  BY <1>1 DEF IInv, FewerStamps, TimesGrow, MatchIsComplete, RowsExplained, NoBacklog,
              InterestedUserHasRow, InForce

LEMMA MatchAbortsInv ==
  ASSUME TypeOK, IInv, MatchAborts
  PROVE  TypeOK' /\ IInv'
<1>1. TypeOK'
  BY DEF MatchAborts, TypeOK, filterVars, NoMatch
<1>2. TimesGrow' /\ MatchIsComplete' /\ RowsExplained'
  BY NoMatchInv DEF MatchAborts, FewerStamps, filterVars
<1>3. HandledOnce' /\ SendsAreCounted'
  BY DEF MatchAborts, IInv, HandledOnce, Handled, SendsAreCounted, RepeatsNeedFaults, Sendable
<1>. QED
  BY <1>1, <1>2, <1>3 DEF IInv

LEMMA MatchCommitsInv ==
  ASSUME TypeOK, IInv, MatchCommits
  PROVE  TypeOK' /\ IInv'
<1>. USE Values
<1>1. /\ consumed' = consumed \cup matcher.event /\ matcher' = NoMatch
      /\ UNCHANGED <<clock, status, activated, created, stamps, since, withdrawn, occurred, polled,
                     notifier, received, faults>>
  BY DEF MatchCommits, filterVars
<1>2. TypeOK'
  BY <1>1 DEF MatchCommits, NoMatch, TypeOK
<1>3. \A f \in Filters, e \in Events :
        note'[<<f, e>>] = IF f \in matcher.selected /\ e \in matcher.event /\ note[<<f, e>>] = "none"
                          THEN "pending" ELSE note[<<f, e>>]
  BY DEF MatchCommits, Rows
<1>4. \A e \in matcher.event : e \notin consumed /\ e \in Events
  BY DEF IInv, MatchIsComplete
<1>5. \A e \in matcher.event, f \in Filters : ~Handled(f, e) /\ ~Sendable(f, e)
  BY <1>4 DEF IInv, HandledOnce, Handled, Sendable
<1>6. \A f \in Filters, e \in Events :
        Handled(f, e)' => Handled(f, e) \/ (f \in matcher.selected /\ e \in matcher.event)
  BY <1>1, <1>3 DEF Handled
<1>7. TimesGrow'
  <2>1. \A e \in Events : occurred'[e] <= clock' /\ (e \in consumed' => occurred'[e] > 0)
    BY <1>1 DEF IInv, TimesGrow, MatchIsComplete
  <2>3. \A f \in Filters : status'[f] = "none" =>
          f \notin matcher'.selected /\ \A e \in Events : note'[<<f, e>>] = "none"
    BY <1>1, <1>3 DEF IInv, TimesGrow, NoMatch
  <2>. QED
    BY <1>1, <2>1, <2>3 DEF IInv, TimesGrow
<1>8. MatchIsComplete'
  BY <1>1 DEF NoMatch, MatchIsComplete
<1>9. HandledOnce'
  <2>1. ASSUME NEW e \in Events, NEW f \in Filters, NEW g \in Filters,
               Handled(f, e)', Handled(g, e)', Owner[f] = Owner[g]
        PROVE  f = g
    <3>1. CASE e \in matcher.event
      BY <1>5, <1>6, <2>1, <3>1 DEF IInv, MatchIsComplete
    <3>2. CASE e \notin matcher.event
      BY <1>6, <2>1, <3>2 DEF IInv, HandledOnce
    <3>. QED
      BY <3>1, <3>2
  <2>2. \A e \in Events, f \in Filters : Handled(f, e)' => e \in consumed'
    BY <1>1, <1>6 DEF IInv, HandledOnce
  <2>. QED
    BY <2>1, <2>2 DEF HandledOnce
<1>10. NoBacklog'
  BY <1>1, <1>3 DEF IInv, RowsExplained, NoBacklog, MatchIsComplete
<1>11. InterestedUserHasRow'
  <2>. SUFFICES ASSUME NEW e \in consumed', NEW f \in Filters, f \in InForce(e)',
                       <<Owner[f], e>> \notin withdrawn
                PROVE  \E g \in FiltersOf(Owner[f]) : note'[<<g, e>>] # "none"
    BY <1>1 DEF InterestedUserHasRow
  <2>1. e \in Events /\ f \in InForce(e)
    BY <1>1, <1>2 DEF TypeOK, InForce
  <2>2. CASE e \in matcher.event
    <3>1. PICK g \in matcher.selected : Owner[g] = Owner[f]
      BY <2>1, <2>2 DEF IInv, MatchIsComplete
    <3>2. g \in FiltersOf(Owner[f]) /\ g \in Filters
      BY <3>1 DEF FiltersOf
    <3>. QED
      BY <1>3, <2>1, <2>2, <3>1, <3>2
  <2>3. CASE e \in consumed
    <3>1. PICK g \in FiltersOf(Owner[f]) : note[<<g, e>>] # "none"
      BY <2>1, <2>3 DEF IInv, RowsExplained, InterestedUserHasRow
    <3>2. g \in Filters
      BY DEF FiltersOf
    <3>. QED
      BY <1>3, <2>1, <3>1, <3>2
  <2>. QED
    BY <1>1, <2>2, <2>3
<1>12. SendsAreCounted'
  <2>1. ASSUME NEW f \in Filters, NEW e \in Events, Sendable(f, e)'
        PROVE  received[<<Owner[f], e>>] <= faults
    <3>1. CASE e \in matcher.event
      <4>1. received[<<Owner[f], e>>] = 0
        BY <1>4, <3>1 DEF IInv, SendsAreCounted
      <4>. QED
        BY <4>1
    <3>2. CASE e \notin matcher.event
      <4>1. Sendable(f, e)
        BY <1>1, <1>3, <2>1, <3>2 DEF Sendable
      <4>. QED
        BY <4>1 DEF IInv, SendsAreCounted
    <3>. QED
      BY <3>1, <3>2
  <2>. QED
    BY <1>1, <2>1 DEF IInv, SendsAreCounted, RepeatsNeedFaults
<1>. QED
  BY <1>2, <1>7, <1>8, <1>9, <1>10, <1>11, <1>12 DEF IInv, RowsExplained

-----------------------------------------------------------------------------
(* The notifier.  It moves rows on, none back to pending and none out of   *)
(* the table, and handles what a batch it has read gave it.                *)
NotifierFrame ==
  /\ UNCHANGED <<clock, activated, created, since, withdrawn, occurred, consumed, matcher>>
  /\ FewerStamps

RowsMoveOn ==
  /\ \A f \in Filters : status'[f] = status[f] \/ (status[f] = "enabled" /\ status'[f] = "paused")
  /\ \A f \in Filters, e \in Events :
       /\ note'[<<f, e>>] = "none" <=> note[<<f, e>>] = "none"
       /\ <<f, e>> \in notifier'.batch => Handled(f, e)

LEMMA NotifierKeeps ==
  ASSUME TypeOK, IInv, NotifierFrame, RowsMoveOn
  PROVE  TimesGrow' /\ MatchIsComplete' /\ HandledOnce' /\ RowsExplained'
<1>. USE Values
<1>1. TimesGrow'
  BY DEF IInv, TimesGrow, NotifierFrame, FewerStamps, RowsMoveOn
<1>2. \A e \in Events : InForce(e)' \subseteq InForce(e)
  BY DEF InForce, NotifierFrame, FewerStamps, RowsMoveOn
<1>3. MatchIsComplete'
  BY <1>2 DEF IInv, MatchIsComplete, NotifierFrame
<1>4. \A f \in Filters, e \in Events : Handled(f, e)' => Handled(f, e)
  BY DEF Handled, RowsMoveOn
<1>5. HandledOnce'
  BY <1>4 DEF IInv, HandledOnce, NotifierFrame
<1>6. NoBacklog'
  BY DEF IInv, RowsExplained, NoBacklog, NotifierFrame, FewerStamps, RowsMoveOn
<1>7. InterestedUserHasRow'
  <2>. SUFFICES ASSUME NEW e \in consumed, NEW f \in Filters, f \in InForce(e)',
                       <<Owner[f], e>> \notin withdrawn
                PROVE  \E g \in FiltersOf(Owner[f]) : note'[<<g, e>>] # "none"
    BY DEF InterestedUserHasRow, NotifierFrame
  <2>1. e \in Events /\ f \in InForce(e)
    BY <1>2 DEF TypeOK
  <2>2. PICK g \in FiltersOf(Owner[f]) : note[<<g, e>>] # "none"
    BY <2>1 DEF IInv, RowsExplained, InterestedUserHasRow
  <2>3. g \in Filters
    BY DEF FiltersOf
  <2>. QED
    BY <2>1, <2>2, <2>3 DEF RowsMoveOn
<1>. QED
  BY <1>1, <1>3, <1>5, <1>6, <1>7 DEF RowsExplained

(* What the pieces of the notifier's steps do.                             *)
LEMMA SetRowFacts ==
  ASSUME TypeOK, NEW r, NEW s \in {"sent", "failed"}, SetRow(r, s)
  PROVE  /\ note' \in [Rows -> {"none", "pending", "sent", "failed"}]
         /\ \A q \in Rows : /\ note'[q] = "none" <=> note[q] = "none"
                            /\ note'[q] = "pending" => note[q] = "pending" /\ q # r
  BY DEF SetRow, TypeOK

LEMMA NextItemFacts ==
  ASSUME NEW batch, batch \subseteq Rows, NextItem(batch)
  PROVE  /\ notifier' \in [pc : {"poll", "send", "mark", "disable"}, batch : SUBSET Rows,
                           row : Rows \cup {NoRow}]
         /\ notifier'.pc # "mark" /\ notifier'.batch = batch
  BY DEF NextItem, Resting

(* A message counts once for its user and event.                           *)
LEMMA ReceivedFacts ==
  ASSUME TypeOK, NEW f \in Filters, NEW e \in Events, Received(<<f, e>>)
  PROVE  /\ received' \in [Users \X Events -> Nat]
         /\ received'[<<Owner[f], e>>] = received[<<Owner[f], e>>] + 1
         /\ \A u \in Users, d \in Events :
              u # Owner[f] \/ d # e => received'[<<u, d>>] = received[<<u, d>>]
<1>1. <<Owner[f], e>> \in Users \X Events
  BY OwnerAssumption
<1>2. received' = [received EXCEPT ![<<Owner[f], e>>] = @ + 1]
  BY DEF Received
<1>. QED
  BY <1>1, <1>2 DEF TypeOK

(* Without a message, what may be sent may be sent still.                  *)
LEMMA NothingSent ==
  ASSUME TypeOK, IInv, UNCHANGED <<received, consumed>>, faults' \in Nat, faults <= faults',
         \A f \in Filters, e \in Events :
           Sendable(f, e)' => Sendable(f, e) \/ faults < faults',
         notifier'.pc = "mark" => notifier'.row \notin notifier'.batch
  PROVE  SendsAreCounted'
<1>. USE Values
<1>1. \A u \in Users, e \in Events : received[<<u, e>>] <= 1 + faults
  BY DEF IInv, SendsAreCounted, RepeatsNeedFaults
<1>2. ASSUME NEW f \in Filters, NEW e \in Events, Sendable(f, e)'
      PROVE  received[<<Owner[f], e>>] <= faults'
  <2>1. received[<<Owner[f], e>>] <= 1 + faults
    BY <1>1
  <2>2. CASE Sendable(f, e)
    <3>1. received[<<Owner[f], e>>] <= faults
      BY <2>2 DEF IInv, SendsAreCounted
    <3>. QED
      BY <3>1
  <2>3. CASE faults < faults'
    BY <2>1, <2>3
  <2>. QED
    BY <1>2, <2>2, <2>3
<1>3. RepeatsNeedFaults'
  <2>. SUFFICES ASSUME NEW u \in Users, NEW e \in Events
                PROVE  received'[<<u, e>>] <= 1 + faults'
    BY DEF RepeatsNeedFaults
  <2>1. received[<<u, e>>] \in Nat /\ received[<<u, e>>] <= 1 + faults
    BY <1>1
  <2>. QED
    BY <2>1
<1>4. \A u \in Users, e \in Events : e \notin consumed' => received'[<<u, e>>] = 0
  BY DEF IInv, SendsAreCounted
<1>. QED
  BY <1>2, <1>3, <1>4 DEF SendsAreCounted

LEMMA PollInv ==
  ASSUME TypeOK, IInv, Poll
  PROVE  TypeOK' /\ IInv'
<1>1. PICK batch \in SUBSET Deliverable : notifier' = [pc |-> "send", batch |-> batch, row |-> NoRow]
  BY DEF Poll
<1>2. UNCHANGED <<clock, status, activated, created, stamps, since, withdrawn, occurred, polled, consumed,
                  matcher, note, received, faults>>
  BY DEF Poll, filterVars
<1>3. \A r \in batch : r \in Rows /\ note[r] = "pending"
  BY <1>1 DEF Deliverable
<1>4. notifier'.pc = "send" /\ notifier'.batch = batch
  BY <1>1
<1>5. TypeOK'
  BY <1>1, <1>2, <1>3 DEF TypeOK
<1>6. NotifierFrame /\ RowsMoveOn
  BY <1>2, <1>3, <1>4 DEF NotifierFrame, FewerStamps, RowsMoveOn, Handled
<1>7. \A f \in Filters, e \in Events : Sendable(f, e)' => Sendable(f, e)
  BY <1>2, <1>3, <1>4 DEF Sendable, Poll
<1>8. SendsAreCounted'
  BY <1>2, <1>4, <1>7, NothingSent, Values
<1>. QED
  BY <1>5, <1>6, <1>8, NotifierKeeps DEF IInv

LEMMA MarkSentInv ==
  ASSUME TypeOK, IInv, MarkSent
  PROVE  TypeOK' /\ IInv'
<1>1. UNCHANGED <<clock, status, activated, created, stamps, since, withdrawn, occurred, polled, consumed,
                  matcher, received, faults>>
  BY DEF MarkSent, filterVars
<1>2. /\ note' \in [Rows -> {"none", "pending", "sent", "failed"}]
      /\ \A q \in Rows : /\ note'[q] = "none" <=> note[q] = "none"
                         /\ note'[q] = "pending" => note[q] = "pending" /\ q # notifier.row
  BY SetRowFacts DEF MarkSent
<1>3. /\ notifier' \in [pc : {"poll", "send", "mark", "disable"}, batch : SUBSET Rows,
                        row : Rows \cup {NoRow}]
      /\ notifier'.pc # "mark" /\ notifier'.batch = notifier.batch
  BY NextItemFacts, Values DEF MarkSent
<1>4. TypeOK'
  BY <1>1, <1>2, <1>3 DEF TypeOK
<1>5. \A f \in Filters, e \in Events : <<f, e>> \in Rows
  BY DEF Rows
<1>6. NotifierFrame /\ RowsMoveOn
  BY <1>1, <1>2, <1>3, <1>5 DEF NotifierFrame, FewerStamps, RowsMoveOn, Handled
<1>7. \A f \in Filters, e \in Events : Sendable(f, e)' => Sendable(f, e)
  <2>1. notifier.pc = "mark" /\ notifier.row \notin notifier.batch
    BY DEF MarkSent, IInv, SendsAreCounted
  <2>. QED
    BY <1>2, <1>3, <1>5, <2>1 DEF Sendable
<1>8. SendsAreCounted'
  BY <1>1, <1>3, <1>7, NothingSent, Values
<1>. QED
  BY <1>4, <1>6, <1>8, NotifierKeeps DEF IInv

LEMMA DisableInv ==
  ASSUME TypeOK, IInv, DisableFiltersForChat
  PROVE  TypeOK' /\ IInv'
<1>1. UNCHANGED <<clock, activated, created, stamps, since, withdrawn, occurred, polled, consumed,
                  matcher, note, received, faults>>
  BY DEF DisableFiltersForChat
<1>2. /\ status' \in [Filters -> {"none", "enabled", "paused", "deleted"}]
      /\ \A f \in Filters :
           status'[f] = status[f] \/ (status[f] = "enabled" /\ status'[f] = "paused")
  BY DEF DisableFiltersForChat, TypeOK
<1>3. /\ notifier' \in [pc : {"poll", "send", "mark", "disable"}, batch : SUBSET Rows,
                        row : Rows \cup {NoRow}]
      /\ notifier'.pc # "mark" /\ notifier'.batch = notifier.batch
  BY NextItemFacts, Values DEF DisableFiltersForChat
<1>4. TypeOK'
  BY <1>1, <1>2, <1>3 DEF TypeOK
<1>5. NotifierFrame /\ RowsMoveOn
  BY <1>1, <1>2, <1>3 DEF NotifierFrame, FewerStamps, RowsMoveOn, Handled
<1>6. \A f \in Filters, e \in Events : Sendable(f, e)' => Sendable(f, e)
  BY <1>1, <1>3 DEF Sendable, DisableFiltersForChat
<1>7. SendsAreCounted'
  BY <1>1, <1>3, <1>6, NothingSent, Values
<1>. QED
  BY <1>4, <1>5, <1>7, NotifierKeeps DEF IInv

LEMMA SendForbiddenInv ==
  ASSUME TypeOK, IInv, NEW r \in Rows, SendForbidden(r)
  PROVE  TypeOK' /\ IInv'
<1>1. UNCHANGED <<clock, status, activated, created, stamps, since, withdrawn, occurred, polled, consumed,
                  matcher, received, faults>>
  BY DEF SendForbidden, filterVars
<1>2. /\ note' \in [Rows -> {"none", "pending", "sent", "failed"}]
      /\ \A q \in Rows : /\ note'[q] = "none" <=> note[q] = "none"
                         /\ note'[q] = "pending" => note[q] = "pending" /\ q # r
  BY SetRowFacts DEF SendForbidden
<1>3. notifier' = [pc |-> "disable", batch |-> notifier.batch \ {r}, row |-> r]
  BY DEF SendForbidden
<1>4. notifier'.pc = "disable" /\ notifier'.batch = notifier.batch \ {r}
  BY <1>3
<1>5. TypeOK'
  BY <1>1, <1>2, <1>3 DEF TypeOK
<1>6. \A f \in Filters, e \in Events : <<f, e>> \in Rows
  BY DEF Rows
<1>7. NotifierFrame /\ RowsMoveOn
  BY <1>1, <1>2, <1>4, <1>6 DEF NotifierFrame, FewerStamps, RowsMoveOn, Handled
<1>8. \A f \in Filters, e \in Events : Sendable(f, e)' => Sendable(f, e)
  BY <1>2, <1>4, <1>6 DEF Sendable, SendForbidden
<1>9. SendsAreCounted'
  BY <1>1, <1>4, <1>8, NothingSent, Values
<1>. QED
  BY <1>5, <1>7, <1>9, NotifierKeeps DEF IInv

(* Faults without a message: the notifier goes on, or begins again.        *)
LEMMA FaultInv ==
  ASSUME TypeOK, IInv, StoreFails \/ Crash \/ \E r \in Rows : SendFails(r)
  PROVE  TypeOK' /\ IInv'
<1>. USE Values
<1>1. /\ UNCHANGED <<clock, status, activated, created, since, withdrawn, occurred, consumed,
                     note, received>>
      /\ Fault /\ FewerStamps
      /\ stamps' \in [Filters -> SUBSET (0..MaxClock)] /\ polled' \in 0..MaxClock
  <2>1. CASE Crash
    BY <2>1, AlertBoundsAssumption DEF Crash, FewerStamps
  <2>2. CASE StoreFails \/ \E r \in Rows : SendFails(r)
    BY <2>2 DEF StoreFails, SendFails, filterVars, FewerStamps, TypeOK
  <2>. QED
    BY <2>1, <2>2
<1>2. faults' \in 0..MaxFaults /\ faults' = faults + 1
  BY <1>1, AlertBoundsAssumption DEF Fault, TypeOK
<1>3. /\ matcher' = matcher \/ matcher' = NoMatch
      /\ notifier' \in [pc : {"poll", "send", "mark", "disable"}, batch : SUBSET Rows,
                        row : Rows \cup {NoRow}]
      /\ notifier'.pc # "mark" /\ notifier'.batch \subseteq notifier.batch
  <2>1. CASE StoreFails
    BY <2>1, NextItemFacts DEF StoreFails
  <2>2. CASE Crash
    BY <2>2 DEF Crash, Resting
  <2>3. ASSUME NEW r \in Rows, SendFails(r)
        PROVE  /\ matcher' = matcher
               /\ notifier' \in [pc : {"poll", "send", "mark", "disable"}, batch : SUBSET Rows,
                                 row : Rows \cup {NoRow}]
               /\ notifier'.pc # "mark" /\ notifier'.batch \subseteq notifier.batch
    <3>1. NextItem(notifier.batch \ {r}) /\ notifier.batch \ {r} \subseteq Rows /\ matcher' = matcher
      BY <2>3 DEF SendFails
    <3>. QED
      BY <3>1, NextItemFacts
  <2>. QED
    BY <2>1, <2>2, <2>3
<1>4. TypeOK'
  BY <1>1, <1>2, <1>3 DEF TypeOK, NoMatch
<1>5. HandledOnce'
  BY <1>1, <1>3 DEF IInv, HandledOnce, Handled
<1>6. SendsAreCounted'
  BY <1>1, <1>2, <1>3, NothingSent
<1>7. TimesGrow' /\ MatchIsComplete' /\ RowsExplained'
  <2>1. CASE matcher' = matcher
    <3>1. NotifierFrame /\ RowsMoveOn
      BY <1>1, <1>3, <2>1 DEF NotifierFrame, FewerStamps, RowsMoveOn, Handled
    <3>. QED
      BY <3>1, NotifierKeeps
  <2>2. CASE matcher' = NoMatch
    BY <1>1, <2>2, NoMatchInv
  <2>. QED
    BY <1>3, <2>1, <2>2
<1>. QED
  BY <1>4, <1>5, <1>6, <1>7 DEF IInv

(* A message for r: it was the only one left for its user and event.       *)
LEMMA SentOnce ==
  ASSUME TypeOK, IInv, NEW f \in Filters, NEW e \in Events, <<f, e>> \in notifier.batch,
         notifier.pc = "send", Received(<<f, e>>), consumed' = consumed,
         faults' \in Nat, faults <= faults',
         \A g \in Filters, d \in Events :
           Sendable(g, d)' => /\ Sendable(g, d)
                              /\ <<g, d>> # <<f, e>> \/ faults < faults',
         notifier'.pc = "mark" => notifier'.row \notin notifier'.batch
  PROVE  SendsAreCounted'
<1>. USE Values, ReceivedFacts
<1>1. Sendable(f, e) /\ Handled(f, e)
  BY DEF Sendable, Handled
<1>2. received[<<Owner[f], e>>] <= faults
  BY <1>1 DEF IInv, SendsAreCounted
<1>3. ASSUME NEW u \in Users, NEW d \in Events
      PROVE  received'[<<u, d>>] <= 1 + faults'
  <2>1. CASE u = Owner[f] /\ d = e
    <3>1. received'[<<u, d>>] = received[<<Owner[f], e>>] + 1
      BY <2>1
    <3>. QED
      BY <1>2, <3>1
  <2>2. CASE ~(u = Owner[f] /\ d = e)
    <3>1. received'[<<u, d>>] = received[<<u, d>>] /\ received[<<u, d>>] \in Nat
      BY <2>2
    <3>2. received[<<u, d>>] <= 1 + faults
      BY DEF IInv, SendsAreCounted, RepeatsNeedFaults
    <3>. QED
      BY <3>1, <3>2
  <2>. QED
    BY <2>1, <2>2
<1>4. ASSUME NEW u \in Users, NEW d \in Events, d \notin consumed'
      PROVE  received'[<<u, d>>] = 0
  <2>1. d # e
    BY <1>1, <1>4 DEF IInv, HandledOnce
  <2>2. received'[<<u, d>>] = received[<<u, d>>]
    BY <2>1
  <2>. QED
    BY <1>4, <2>2 DEF IInv, SendsAreCounted
<1>5. ASSUME NEW g \in Filters, NEW d \in Events, Sendable(g, d)'
      PROVE  received'[<<Owner[g], d>>] <= faults'
  <2>1. Sendable(g, d) /\ Handled(g, d)
    BY <1>5 DEF Sendable, Handled
  <2>2. received[<<Owner[g], d>>] <= faults
    BY <2>1 DEF IInv, SendsAreCounted
  <2>3. CASE Owner[g] = Owner[f] /\ d = e
    <3>1. g = f
      BY <1>1, <2>1, <2>3 DEF IInv, HandledOnce
    <3>2. faults < faults'
      BY <1>5, <2>3, <3>1
    <3>3. received'[<<Owner[g], d>>] = received[<<Owner[f], e>>] + 1
      BY <2>3
    <3>. QED
      BY <1>2, <3>2, <3>3
  <2>4. CASE ~(Owner[g] = Owner[f] /\ d = e)
    <3>1. received'[<<Owner[g], d>>] = received[<<Owner[g], d>>]
      BY <2>4
    <3>. QED
      BY <2>2, <3>1
  <2>. QED
    BY <2>3, <2>4
<1>6. RepeatsNeedFaults'
  BY <1>3 DEF RepeatsNeedFaults
<1>. QED
  BY <1>4, <1>5, <1>6 DEF SendsAreCounted

LEMMA SendSucceedsInv ==
  ASSUME TypeOK, IInv, NEW r \in Rows, SendSucceeds(r)
  PROVE  TypeOK' /\ IInv'
<1>. USE Values
<1>1. PICK f \in Filters, e \in Events : r = <<f, e>>
  BY DEF Rows
<1>2. /\ notifier.pc = "send" /\ r \in notifier.batch
      /\ UNCHANGED <<clock, status, activated, created, stamps, since, withdrawn, occurred, polled, consumed,
                     matcher, note, faults>>
  BY DEF SendSucceeds, filterVars
<1>3. notifier' = [pc |-> "mark", batch |-> notifier.batch \ {r}, row |-> r]
  BY DEF SendSucceeds
<1>4. notifier'.pc = "mark" /\ notifier'.batch = notifier.batch \ {r} /\ notifier'.row = r
  BY <1>3
<1>5. Received(<<f, e>>)
  BY <1>1 DEF SendSucceeds
<1>6. TypeOK'
  BY <1>2, <1>3, <1>5, ReceivedFacts DEF TypeOK
<1>7. NotifierFrame /\ RowsMoveOn
  BY <1>2, <1>4 DEF NotifierFrame, FewerStamps, RowsMoveOn, Handled
<1>8. \A g \in Filters, d \in Events :
        Sendable(g, d)' => Sendable(g, d) /\ <<g, d>> # <<f, e>>
  BY <1>1, <1>2, <1>4 DEF Sendable
<1>9. SendsAreCounted'
  <2>1. faults' \in Nat /\ faults <= faults'
    BY <1>2
  <2>. QED
    BY <1>1, <1>2, <1>4, <1>5, <1>8, <2>1, SentOnce
<1>. QED
  BY <1>6, <1>7, <1>9, NotifierKeeps DEF IInv

LEMMA AnswerLostInv ==
  ASSUME TypeOK, IInv, NEW r \in Rows, AnswerLost(r)
  PROVE  TypeOK' /\ IInv'
<1>. USE Values
<1>1. PICK f \in Filters, e \in Events : r = <<f, e>>
  BY DEF Rows
<1>2. /\ notifier.pc = "send" /\ r \in notifier.batch
      /\ UNCHANGED <<clock, status, activated, created, stamps, since, withdrawn, occurred, polled, consumed,
                     matcher, note>>
      /\ faults' \in 0..MaxFaults /\ faults' = faults + 1
  BY AlertBoundsAssumption DEF AnswerLost, Fault, filterVars, TypeOK
<1>3. /\ notifier' \in [pc : {"poll", "send", "mark", "disable"}, batch : SUBSET Rows,
                        row : Rows \cup {NoRow}]
      /\ notifier'.pc # "mark" /\ notifier'.batch = notifier.batch \ {r}
  BY NextItemFacts DEF AnswerLost
<1>4. Received(<<f, e>>)
  BY <1>1 DEF AnswerLost
<1>5. TypeOK'
  BY <1>2, <1>3, <1>4, ReceivedFacts DEF TypeOK
<1>6. NotifierFrame /\ RowsMoveOn
  BY <1>2, <1>3 DEF NotifierFrame, FewerStamps, RowsMoveOn, Handled
<1>7. \A g \in Filters, d \in Events : Sendable(g, d)' => Sendable(g, d)
  BY <1>2, <1>3 DEF Sendable
<1>8. SendsAreCounted'
  <2>1. faults' \in Nat /\ faults < faults' /\ faults <= faults'
    BY <1>2
  <2>. QED
    BY <1>1, <1>2, <1>3, <1>4, <1>7, <2>1, SentOnce
<1>. QED
  BY <1>5, <1>6, <1>8, NotifierKeeps DEF IInv

LEMMA StepIInv ==
  ASSUME TypeOK, IInv, [Next]_vars
  PROVE  TypeOK' /\ IInv'
<1>1. CASE Tick \/ PollBegins \/ PollCommits
  BY <1>1, TimeInv
<1>2. CASE UserStep
  BY <1>2, UserInv
<1>3. CASE MatcherStep
  BY <1>3, MatchBeginsInv, MatchCommitsInv, MatchAbortsInv DEF MatcherStep
<1>4. CASE NotifierStep
  BY <1>4, PollInv, MarkSentInv, DisableInv, SendSucceedsInv, SendForbiddenInv DEF NotifierStep
<1>5. CASE FaultStep
  BY <1>5, FaultInv, AnswerLostInv DEF FaultStep
<1>6. CASE UNCHANGED vars
  <2>1. TypeOK'
    BY <1>6 DEF vars, filterVars, TypeOK
  <2>2. NotifierFrame /\ RowsMoveOn
    BY <1>6 DEF vars, filterVars, NotifierFrame, FewerStamps, RowsMoveOn, Handled
  <2>3. SendsAreCounted'
    BY <1>6 DEF vars, filterVars, IInv, SendsAreCounted, RepeatsNeedFaults, Sendable
  <2>. QED
    BY <2>1, <2>2, <2>3, NotifierKeeps DEF IInv
<1>. QED
  BY <1>1, <1>2, <1>3, <1>4, <1>5, <1>6 DEF Next

-----------------------------------------------------------------------------
(* The inductive invariant and type correctness of matcher, rows and       *)
(* notifier, in every execution.                                           *)
THEOREM Inductive == Spec => [](TypeOK /\ IInv)
  BY InitIInv, StepIInv, PTL DEF Spec

THEOREM TypeCorrect == Spec => []TypeOK
  BY Inductive, PTL

(* The rows of overlapping filters of one user are one row, and the event  *)
(* is consumed once they are there, however often it is delivered.         *)
THEOREM Coalesced == Spec => []OneRowPerUser
<1>1. HandledOnce => OneRowPerUser
  BY DEF HandledOnce, Handled, OneRowPerUser
<1>. QED
  BY <1>1, Inductive, PTL DEF IInv

(* No alert is about an event from before its filter.                      *)
THEOREM OnlyNew == Spec => []NoBacklog
<1>1. IInv => NoBacklog
  BY DEF IInv, RowsExplained
<1>. QED
  BY <1>1, Inductive, PTL

(* Nobody whose filter was in force before the event is forgotten.         *)
THEOREM NobodyForgotten == Spec => []InterestedUserHasRow
<1>1. IInv => InterestedUserHasRow
  BY DEF IInv, RowsExplained
<1>. QED
  BY <1>1, Inductive, PTL

(* Messages repeat only as often as something fails.                       *)
THEOREM RepeatsAreBounded == Spec => []RepeatsNeedFaults
<1>1. IInv => RepeatsNeedFaults
  BY DEF IInv, SendsAreCounted
<1>. QED
  BY <1>1, Inductive, PTL

-----------------------------------------------------------------------------
(* AlertDelivery implements AlertLife.  Two more facts are needed: a row   *)
(* in the notifier's hands is pending or was withdrawn meanwhile, and the  *)
(* message of the row to be marked is in its chat.                         *)
BatchIsLive ==
  \A f \in Filters, e \in Events : <<f, e>> \in notifier.batch =>
    note[<<f, e>>] = "pending" \/ (note[<<f, e>>] = "none" /\ <<Owner[f], e>> \in withdrawn)

MarkedIsReceived ==
  notifier.pc = "mark" =>
    \E f \in Filters, e \in Events :
      /\ notifier.row = <<f, e>> /\ received[<<Owner[f], e>>] > 0
      /\ note[<<f, e>>] \in {"pending", "none"}

MatchesOneEvent == matcher = NoMatch \/ \E e \in Events : matcher.event = {e}

HandInv == BatchIsLive /\ MarkedIsReceived /\ MatchesOneEvent

LEMMA InitHandInv == Init => HandInv
  BY DEF Init, Resting, HandInv, BatchIsLive, MarkedIsReceived, MatchesOneEvent

(* Other steps leave the rows in hand alone, or withdraw them.             *)
LEMMA HandKept ==
  ASSUME TypeOK, HandInv, notifier' = notifier, received' = received,
         withdrawn \subseteq withdrawn',
         \A f \in Filters, e \in Events :
           \/ note'[<<f, e>>] = note[<<f, e>>]
           \/ note'[<<f, e>>] = "none" /\ <<Owner[f], e>> \in withdrawn'
           \/ note'[<<f, e>>] = "pending" /\ note[<<f, e>>] = "none"
  PROVE  BatchIsLive' /\ MarkedIsReceived'
<1>1. BatchIsLive'
  BY DEF HandInv, BatchIsLive
<1>2. MarkedIsReceived'
  BY DEF HandInv, MarkedIsReceived
<1>. QED
  BY <1>1, <1>2

(* The notifier changes one row at most, and no longer holds it then.      *)
LEMMA BatchKept ==
  ASSUME TypeOK, HandInv, withdrawn' = withdrawn, NEW r,
         \A f \in Filters, e \in Events :
           <<f, e>> \in notifier'.batch => <<f, e>> \in notifier.batch /\ <<f, e>> # r,
         \A f \in Filters, e \in Events : <<f, e>> # r => note'[<<f, e>>] = note[<<f, e>>]
  PROVE  BatchIsLive'
  BY DEF HandInv, BatchIsLive

LEMMA NotMarking ==
  ASSUME notifier'.pc # "mark"
  PROVE  MarkedIsReceived'
  BY DEF MarkedIsReceived

(* What a status change writes.                                            *)
LEMMA SetRowElsewhere ==
  ASSUME TypeOK, NEW f \in Filters, NEW e \in Events, NEW s, SetRow(<<f, e>>, s)
  PROVE  /\ note'[<<f, e>>] = IF note[<<f, e>>] = "none" THEN "none" ELSE s
         /\ \A g \in Filters, d \in Events : <<g, d>> # <<f, e>> => note'[<<g, d>>] = note[<<g, d>>]
<1>1. <<f, e>> \in Rows /\ \A g \in Filters, d \in Events : <<g, d>> \in Rows
  BY DEF Rows
<1>. QED
  BY <1>1 DEF SetRow, TypeOK

LEMMA UserHand ==
  ASSUME TypeOK, HandInv, UserStep
  PROVE  HandInv'
<1>1. /\ notifier' = notifier /\ received' = received /\ matcher' = matcher
      /\ withdrawn \subseteq withdrawn'
      /\ \A f \in Filters, e \in Events :
           \/ note'[<<f, e>>] = note[<<f, e>>]
           \/ note'[<<f, e>>] = "none" /\ <<Owner[f], e>> \in withdrawn'
  BY WithdrawFacts DEF UserStep, Press, CreateFilter, Pause, Resume, DeleteFilter
<1>2. BatchIsLive' /\ MarkedIsReceived'
  BY <1>1, HandKept
<1>3. MatchesOneEvent'
  BY <1>1 DEF HandInv, MatchesOneEvent
<1>. QED
  BY <1>2, <1>3 DEF HandInv

LEMMA MatcherHand ==
  ASSUME TypeOK, HandInv, MatcherStep
  PROVE  HandInv'
<1>1. \A f \in Filters, e \in Events : <<f, e>> \in Rows
  BY DEF Rows
<1>2. /\ notifier' = notifier /\ received' = received /\ withdrawn' = withdrawn
      /\ \A f \in Filters, e \in Events :
           \/ note'[<<f, e>>] = note[<<f, e>>]
           \/ note'[<<f, e>>] = "pending" /\ note[<<f, e>>] = "none"
  BY <1>1 DEF MatcherStep, MatchBegins, MatchCommits, MatchAborts, filterVars
<1>3. MatchesOneEvent'
  BY DEF MatcherStep, MatchBegins, MatchCommits, MatchAborts, MatchesOneEvent
<1>4. BatchIsLive' /\ MarkedIsReceived'
  BY <1>2, HandKept
<1>. QED
  BY <1>3, <1>4 DEF HandInv

LEMMA NotifierHand ==
  ASSUME TypeOK, IInv, HandInv, NotifierStep
  PROVE  HandInv'
<1>. USE Values
<1>1. MatchesOneEvent'
  BY DEF HandInv, MatchesOneEvent, NotifierStep, Poll, MarkSent, DisableFiltersForChat,
         SendSucceeds, SendForbidden
<1>2. CASE Poll
  <2>1. PICK batch \in SUBSET Deliverable : notifier' = [pc |-> "send", batch |-> batch, row |-> NoRow]
    BY <1>2 DEF Poll
  <2>2. notifier'.pc # "mark" /\ notifier'.batch = batch
    BY <2>1
  <2>3. \A r \in batch : note[r] = "pending"
    BY DEF Deliverable
  <2>4. note' = note
    BY <1>2 DEF Poll
  <2>5. BatchIsLive'
    BY <2>2, <2>3, <2>4 DEF BatchIsLive
  <2>. QED
    BY <1>1, <2>2, <2>5, NotMarking DEF HandInv
<1>3. CASE MarkSent
  <2>1. PICK f \in Filters, e \in Events : notifier.row = <<f, e>>
    BY <1>3 DEF MarkSent, HandInv, MarkedIsReceived
  <2>2. <<f, e>> \notin notifier.batch
    BY <1>3, <2>1 DEF MarkSent, IInv, SendsAreCounted
  <2>3. withdrawn' = withdrawn /\ SetRow(<<f, e>>, "sent")
    BY <1>3, <2>1 DEF MarkSent, filterVars
  <2>4. notifier'.pc # "mark" /\ notifier'.batch = notifier.batch
    BY <1>3, NextItemFacts DEF MarkSent
  <2>5. BatchIsLive'
    <3>1. \A g \in Filters, d \in Events : <<g, d>> # <<f, e>> => note'[<<g, d>>] = note[<<g, d>>]
      BY <2>3, SetRowElsewhere
    <3>2. \A g \in Filters, d \in Events : <<g, d>> \in notifier'.batch =>
            <<g, d>> \in notifier.batch /\ <<g, d>> # <<f, e>>
      BY <2>2, <2>4
    <3>. QED
      BY <2>3, <3>1, <3>2, BatchKept
  <2>. QED
    BY <1>1, <2>4, <2>5, NotMarking DEF HandInv
<1>4. CASE DisableFiltersForChat
  <2>1. notifier'.pc # "mark" /\ notifier'.batch = notifier.batch
    BY <1>4, NextItemFacts DEF DisableFiltersForChat
  <2>2. note' = note /\ withdrawn' = withdrawn
    BY <1>4 DEF DisableFiltersForChat
  <2>3. BatchIsLive'
    BY <2>1, <2>2 DEF HandInv, BatchIsLive
  <2>. QED
    BY <1>1, <2>1, <2>3, NotMarking DEF HandInv
<1>5. ASSUME NEW r \in Rows, SendSucceeds(r)
      PROVE  HandInv'
  <2>1. PICK f \in Filters, e \in Events : r = <<f, e>>
    BY DEF Rows
  <2>2. /\ <<f, e>> \in notifier.batch /\ note' = note /\ withdrawn' = withdrawn
        /\ notifier' = [pc |-> "mark", batch |-> notifier.batch \ {r}, row |-> r]
        /\ Received(<<f, e>>)
    BY <1>5, <2>1 DEF SendSucceeds, filterVars
  <2>3. notifier'.batch = notifier.batch \ {r} /\ notifier'.row = <<f, e>>
    BY <2>1, <2>2
  <2>4. received'[<<Owner[f], e>>] > 0
    <3>1. received'[<<Owner[f], e>>] = received[<<Owner[f], e>>] + 1
      BY <2>2, ReceivedFacts
    <3>2. received[<<Owner[f], e>>] \in Nat
      OBVIOUS
    <3>. QED
      BY <3>1, <3>2
  <2>5. note'[<<f, e>>] \in {"pending", "none"}
    BY <2>2 DEF HandInv, BatchIsLive
  <2>6. MarkedIsReceived'
    BY <2>3, <2>4, <2>5 DEF MarkedIsReceived
  <2>7. BatchIsLive'
    BY <2>2, <2>3 DEF HandInv, BatchIsLive
  <2>. QED
    BY <1>1, <2>6, <2>7 DEF HandInv
<1>6. ASSUME NEW r \in Rows, SendForbidden(r)
      PROVE  HandInv'
  <2>1. PICK f \in Filters, e \in Events : r = <<f, e>>
    BY DEF Rows
  <2>2. /\ withdrawn' = withdrawn /\ SetRow(<<f, e>>, "failed")
        /\ notifier' = [pc |-> "disable", batch |-> notifier.batch \ {r}, row |-> r]
    BY <1>6, <2>1 DEF SendForbidden, filterVars
  <2>3. notifier'.pc # "mark" /\ notifier'.batch = notifier.batch \ {<<f, e>>}
    BY <2>1, <2>2
  <2>4. BatchIsLive'
    BY <2>2, <2>3, SetRowElsewhere, BatchKept
  <2>. QED
    BY <1>1, <2>3, <2>4, NotMarking DEF HandInv
<1>. QED
  BY <1>2, <1>3, <1>4, <1>5, <1>6 DEF NotifierStep

LEMMA FaultHand ==
  ASSUME TypeOK, IInv, HandInv, FaultStep
  PROVE  HandInv'
<1>. USE Values
<1>1. note' = note /\ withdrawn' = withdrawn /\ (matcher' = matcher \/ matcher' = NoMatch)
  BY DEF FaultStep, StoreFails, Crash, SendFails, AnswerLost, filterVars
<1>2. notifier'.pc # "mark" /\ notifier'.batch \subseteq notifier.batch
  <2>1. CASE StoreFails
    BY <2>1, NextItemFacts DEF StoreFails
  <2>2. CASE Crash
    BY <2>2 DEF Crash, Resting
  <2>3. ASSUME NEW r \in Rows, SendFails(r) \/ AnswerLost(r)
        PROVE  notifier'.pc # "mark" /\ notifier'.batch \subseteq notifier.batch
    <3>1. NextItem(notifier.batch \ {r}) /\ notifier.batch \ {r} \subseteq Rows
      BY <2>3 DEF SendFails, AnswerLost
    <3>. QED
      BY <3>1, NextItemFacts
  <2>. QED
    BY <2>1, <2>2, <2>3 DEF FaultStep
<1>3. BatchIsLive'
  BY <1>1, <1>2 DEF HandInv, BatchIsLive
<1>4. MatchesOneEvent'
  BY <1>1 DEF HandInv, MatchesOneEvent
<1>. QED
  BY <1>2, <1>3, <1>4, NotMarking DEF HandInv

LEMMA StepHandInv ==
  ASSUME TypeOK, IInv, HandInv, [Next]_vars
  PROVE  HandInv'
<1>1. CASE UNCHANGED vars \/ Tick \/ PollBegins \/ PollCommits
  BY <1>1 DEF vars, filterVars, Tick, PollBegins, PollCommits, HandInv, BatchIsLive, MarkedIsReceived, MatchesOneEvent
<1>. QED
  BY <1>1, UserHand, MatcherHand, NotifierHand, FaultHand DEF Next

(* The alert of a user is her row for the event, if she has one.           *)
LEMMA AlertIsRow ==
  ASSUME HandledOnce, NEW f \in Filters, NEW e \in Events, note[<<f, e>>] # "none"
  PROVE  AlertOf(Owner[f], e) = note[<<f, e>>]
<1>1. \A g \in FiltersOf(Owner[f]) : note[<<g, e>>] # "none" => g = f
  BY DEF HandledOnce, Handled, FiltersOf
<1>2. RowsOf(Owner[f], e) = {note[<<f, e>>]}
  BY <1>1 DEF RowsOf, FiltersOf
<1>. QED
  BY <1>2 DEF AlertOf

LEMMA AlertIsRowNext ==
  ASSUME HandledOnce', NEW f \in Filters, NEW e \in Events, note'[<<f, e>>] # "none"
  PROVE  AlertOf(Owner[f], e)' = note'[<<f, e>>]
<1>1. \A g \in FiltersOf(Owner[f]) : note'[<<g, e>>] # "none" => g = f
  BY DEF HandledOnce, Handled, FiltersOf
<1>2. RowsOf(Owner[f], e)' = {note'[<<f, e>>]}
  BY <1>1 DEF RowsOf, FiltersOf
<1>. QED
  BY <1>2 DEF AlertOf

(* Without a row it is withdrawn, or never was.                            *)
LEMMA AlertWithoutRow ==
  ASSUME NEW u \in Users, NEW e \in Events,
         \A f \in FiltersOf(u) : note[<<f, e>>] = "none"
  PROVE  AlertOf(u, e) = IF <<u, e>> \in withdrawn THEN "withdrawn" ELSE "none"
<1>1. RowsOf(u, e) = {}
  BY DEF RowsOf
<1>. QED
  BY <1>1 DEF AlertOf

LEMMA AlertWithoutRowNext ==
  ASSUME NEW u \in Users, NEW e \in Events,
         \A f \in FiltersOf(u) : note'[<<f, e>>] = "none"
  PROVE  AlertOf(u, e)' = IF <<u, e>> \in withdrawn' THEN "withdrawn" ELSE "none"
<1>1. RowsOf(u, e)' = {}
  BY DEF RowsOf
<1>. QED
  BY <1>1 DEF AlertOf

(* An alert changes only with a row of its user for its event.             *)
LEMMA AlertUnaffected ==
  ASSUME NEW u \in Users, NEW e \in Events,
         \A f \in FiltersOf(u) : note'[<<f, e>>] = note[<<f, e>>],
         <<u, e>> \in withdrawn' <=> <<u, e>> \in withdrawn
  PROVE  AlertOf(u, e)' = AlertOf(u, e)
<1>1. RowsOf(u, e)' = RowsOf(u, e)
  BY DEF RowsOf, FiltersOf
<1>. QED
  BY <1>1 DEF AlertOf

(* The mapped variables.                                                   *)
alert == [p \in Users \X Events |-> AlertOf(p[1], p[2])]
chat == {p \in Users \X Events : received[p] > 0}

LEMMA AlertAt ==
  ASSUME NEW u \in Users, NEW e \in Events
  PROVE  alert[<<u, e>>] = AlertOf(u, e) /\ alert'[<<u, e>>] = AlertOf(u, e)'
  BY DEF alert

LEMMA AlertsStay ==
  ASSUME note' = note, withdrawn' = withdrawn
  PROVE  alert' = alert
<1>1. \A u \in Users, e \in Events : AlertOf(u, e)' = AlertOf(u, e)
  BY AlertUnaffected
<1>2. \A p \in Users \X Events : p[1] \in Users /\ p[2] \in Events
  OBVIOUS
<1>3. \A p \in Users \X Events : AlertOf(p[1], p[2])' = AlertOf(p[1], p[2])
  BY <1>1, <1>2
<1>. QED
  BY <1>3 DEF alert

LEMMA ChatStays ==
  ASSUME received' = received
  PROVE  chat' = chat
  BY DEF chat

LEMMA LifeStutters ==
  ASSUME UNCHANGED <<consumed, note, withdrawn, received>>
  PROVE  UNCHANGED Life!vars
  BY AlertsStay, ChatStays DEF Life!vars, alert, chat

(* A step that sets the rows of some users for an event, and no other, sets*)
(* their alerts.                                                           *)
LEMMA AlertsSet ==
  ASSUME NEW X \in SUBSET (Users \X Events), NEW s,
         \A u \in Users, e \in Events : <<u, e>> \in X => AlertOf(u, e)' = s,
         \A u \in Users, e \in Events : <<u, e>> \notin X => AlertOf(u, e)' = AlertOf(u, e)
  PROVE  alert' = [p \in Users \X Events |-> IF p \in X THEN s ELSE alert[p]]
<1>1. ASSUME NEW p \in Users \X Events
      PROVE  AlertOf(p[1], p[2])' = IF p \in X THEN s ELSE alert[p]
  <2>1. PICK u \in Users, e \in Events : p = <<u, e>>
    OBVIOUS
  <2>2. alert[p] = AlertOf(u, e)
    BY <2>1, AlertAt
  <2>3. AlertOf(u, e)' = IF <<u, e>> \in X THEN s ELSE AlertOf(u, e)
    OBVIOUS
  <2>. QED
    BY <2>1, <2>2, <2>3
<1>. QED
  BY <1>1 DEF alert
(* The steps.  The commit of a match gives an alert to every user it has   *)
(* selected a filter of: none of them had a row for the event.             *)
LEMMA CommitMatches ==
  ASSUME TypeOK, TypeOK', IInv, IInv', HandInv, MatchCommits
  PROVE  Life!Next
<1>. USE Values
<1>1. PICK e \in Events : matcher.event = {e}
  BY DEF MatchCommits, HandInv, MatchesOneEvent
<1>. DEFINE U == {Owner[f] : f \in matcher.selected}
<1>. DEFINE X == {p \in Users \X Events : p[2] = e /\ p[1] \in U}
<1>2. /\ e \notin consumed /\ \A f \in Filters : note[<<f, e>>] = "none"
      /\ HandledOnce'
  BY <1>1 DEF IInv, MatchIsComplete, HandledOnce, Handled
<1>3. \A f \in Filters, d \in Events :
        note'[<<f, d>>] = IF f \in matcher.selected /\ d = e THEN "pending" ELSE note[<<f, d>>]
  BY <1>1, <1>2 DEF MatchCommits, Rows
<1>4. /\ consumed' = consumed \cup {e} /\ withdrawn' = withdrawn /\ received' = received
  BY <1>1 DEF MatchCommits, filterVars
<1>5. ASSUME NEW u \in Users, NEW d \in Events, <<u, d>> \in X
      PROVE  AlertOf(u, d)' = "pending"
  <2>1. PICK f \in matcher.selected : Owner[f] = u
    BY <1>5
  <2>2. d = e /\ f \in Filters /\ note'[<<f, e>>] = "pending"
    BY <1>3, <1>5, <2>1
  <2>. QED
    BY <1>2, <2>1, <2>2, AlertIsRowNext
<1>6. ASSUME NEW u \in Users, NEW d \in Events, <<u, d>> \notin X
      PROVE  AlertOf(u, d)' = AlertOf(u, d)
  <2>1. d # e \/ u \notin U
    BY <1>6
  <2>2. \A f \in FiltersOf(u) : note'[<<f, d>>] = note[<<f, d>>]
    BY <1>3, <2>1 DEF FiltersOf
  <2>. QED
    BY <1>4, <2>2, AlertUnaffected
<1>7. alert' = [p \in Users \X Events |-> IF p \in X THEN "pending" ELSE alert[p]]
  <2>. X \in SUBSET (Users \X Events)
    OBVIOUS
  <2>. HIDE DEF X
  <2>1. PICK XX \in SUBSET (Users \X Events) : XX = X
    OBVIOUS
  <2>2. \A u \in Users, d \in Events : <<u, d>> \in XX => AlertOf(u, d)' = "pending"
    BY <1>5, <2>1
  <2>3. \A u \in Users, d \in Events : <<u, d>> \notin XX => AlertOf(u, d)' = AlertOf(u, d)
    BY <1>6, <2>1
  <2>4. alert' = [p \in Users \X Events |-> IF p \in XX THEN "pending" ELSE alert[p]]
    BY <2>2, <2>3, AlertsSet
  <2>. QED
    BY <2>1, <2>4
<1>8. alert' = [p \in Users \X Events |-> IF p[2] = e /\ p[1] \in U THEN "pending" ELSE alert[p]]
  BY <1>7
<1>9. U \in SUBSET Users
  OBVIOUS
<1>10. chat' = chat
  BY <1>4, ChatStays
<1>11. Life!Match(e)
  <2>. HIDE DEF U
  <2>. QED
    BY <1>2, <1>4, <1>8, <1>9, <1>10 DEF Life!Match, Life!Alerts, alert, chat
<1>. QED
  BY <1>11 DEF Life!Next

(* A message is sent for an alert that is there, or was when it was read.  *)
LEMMA MessageSends ==
  ASSUME TypeOK, IInv, HandInv, NEW f \in Filters, NEW e \in Events,
         <<f, e>> \in notifier.batch, Received(<<f, e>>),
         UNCHANGED <<consumed, note, withdrawn>>
  PROVE  Life!Next
<1>. USE Values
<1>1. <<Owner[f], e>> \in Users \X Events
  OBVIOUS
<1>2. alert[<<Owner[f], e>>] # "none"
  <2>1. CASE note[<<f, e>>] # "none"
    BY <2>1, AlertIsRow, AlertAt DEF IInv
  <2>2. CASE note[<<f, e>>] = "none"
    <3>1. <<Owner[f], e>> \in withdrawn
      BY <2>2 DEF HandInv, BatchIsLive
    <3>2. \A g \in FiltersOf(Owner[f]) : note[<<g, e>>] = "none"
      <4>1. ASSUME NEW g \in FiltersOf(Owner[f]), note[<<g, e>>] # "none"
            PROVE  FALSE
        <5>1. g \in Filters /\ Owner[g] = Owner[f] /\ Handled(g, e) /\ Handled(f, e)
          BY <4>1 DEF FiltersOf, Handled
        <5>2. g = f
          BY <5>1 DEF IInv, HandledOnce
        <5>. QED
          BY <2>2, <4>1, <5>2
      <4>. QED
        BY <4>1
    <3>. QED
      BY <3>1, <3>2, AlertWithoutRow, AlertAt
  <2>. QED
    BY <2>1, <2>2
<1>3. alert' = alert
  BY AlertsStay
<1>4. chat' = chat \cup {<<Owner[f], e>>}
  <2>1. ASSUME NEW p \in Users \X Events
        PROVE  received'[p] > 0 <=> received[p] > 0 \/ p = <<Owner[f], e>>
    <3>1. PICK u \in Users, d \in Events : p = <<u, d>>
      OBVIOUS
    <3>2. CASE u = Owner[f] /\ d = e
      <4>1. received'[p] = received[<<Owner[f], e>>] + 1
        BY <3>1, <3>2, ReceivedFacts
      <4>. QED
        BY <3>1, <3>2, <4>1
    <3>3. CASE u # Owner[f] \/ d # e
      BY <3>1, <3>3, ReceivedFacts
    <3>. QED
      BY <3>2, <3>3
  <2>. QED
    BY <1>1, <2>1 DEF chat
<1>5. Life!Send(<<Owner[f], e>>)
  BY <1>2, <1>3, <1>4 DEF Life!Send, alert, chat
<1>. QED
  BY <1>1, <1>5 DEF Life!Next, Life!Alerts

(* A status that is written to a row that has left the table changes no    *)
(* alert, and one written to a row that is pending changes that alert.     *)
LEMMA RowSets ==
  ASSUME TypeOK, IInv, IInv', NEW f \in Filters, NEW e \in Events, NEW s \in {"sent", "failed"},
         SetRow(<<f, e>>, s), withdrawn' = withdrawn, note[<<f, e>>] \in {"pending", "none"}
  PROVE  \/ note' = note
         \/ /\ alert[<<Owner[f], e>>] = "pending"
            /\ alert' = [alert EXCEPT ![<<Owner[f], e>>] = s]
<1>. <<Owner[f], e>> \in Users \X Events
  BY Values
<1>1. CASE note[<<f, e>>] = "none"
  BY <1>1 DEF SetRow, TypeOK
<1>2. CASE note[<<f, e>>] = "pending"
  <2>. DEFINE X == {<<Owner[f], e>>}
  <2>1. alert[<<Owner[f], e>>] = "pending"
    BY <1>2, AlertIsRow, AlertAt DEF IInv
  <2>2. /\ note'[<<f, e>>] = s
        /\ \A g \in Filters, d \in Events : <<g, d>> # <<f, e>> => note'[<<g, d>>] = note[<<g, d>>]
    BY <1>2, SetRowElsewhere
  <2>3. \A u \in Users, d \in Events : <<u, d>> \in X => AlertOf(u, d)' = s
    BY <2>2, AlertIsRowNext DEF IInv
  <2>4. ASSUME NEW u \in Users, NEW d \in Events, <<u, d>> \notin X
        PROVE  AlertOf(u, d)' = AlertOf(u, d)
    <3>1. \A g \in FiltersOf(u) : note'[<<g, d>>] = note[<<g, d>>]
      BY <2>2, <2>4 DEF FiltersOf
    <3>. QED
      BY <3>1, AlertUnaffected
  <2>5. X \in SUBSET (Users \X Events)
    OBVIOUS
  <2>6. alert' = [p \in Users \X Events |-> IF p \in X THEN s ELSE alert[p]]
    <3>. HIDE DEF X
    <3>1. PICK XX \in SUBSET (Users \X Events) : XX = X
      BY <2>5
    <3>2. \A u \in Users, d \in Events : <<u, d>> \in XX => AlertOf(u, d)' = s
      BY <2>3, <3>1
    <3>3. \A u \in Users, d \in Events : <<u, d>> \notin XX => AlertOf(u, d)' = AlertOf(u, d)
      BY <2>4, <3>1
    <3>4. alert' = [p \in Users \X Events |-> IF p \in XX THEN s ELSE alert[p]]
      BY <3>2, <3>3, AlertsSet
    <3>. QED
      BY <3>1, <3>4
  <2>7. alert' = [alert EXCEPT ![<<Owner[f], e>>] = s]
    <3>1. alert = [p \in Users \X Events |-> alert[p]]
      BY DEF alert
    <3>. HIDE DEF alert
    <3>. QED
      BY <2>6, <3>1
  <2>. QED
    BY <2>1, <2>7
<1>. QED
  BY <1>1, <1>2

LEMMA MarkSentMarks ==
  ASSUME TypeOK, IInv, IInv', HandInv, MarkSent
  PROVE  Life!Next \/ UNCHANGED Life!vars
<1>. USE Values
<1>1. PICK f \in Filters, e \in Events :
        /\ notifier.row = <<f, e>> /\ received[<<Owner[f], e>>] > 0
        /\ note[<<f, e>>] \in {"pending", "none"}
  BY DEF MarkSent, HandInv, MarkedIsReceived
<1>2. SetRow(<<f, e>>, "sent") /\ UNCHANGED <<consumed, withdrawn, received>>
  BY <1>1 DEF MarkSent, filterVars
<1>3. CASE note' = note
  BY <1>2, <1>3, LifeStutters
<1>4. CASE /\ alert[<<Owner[f], e>>] = "pending"
           /\ alert' = [alert EXCEPT ![<<Owner[f], e>>] = "sent"]
  <2>1. <<Owner[f], e>> \in Users \X Events
    OBVIOUS
  <2>2. <<Owner[f], e>> \in chat /\ chat' = chat
    BY <1>1, <1>2, <2>1, ChatStays DEF chat
  <2>3. Life!MarkSent(<<Owner[f], e>>)
    BY <1>2, <1>4, <2>2 DEF Life!MarkSent, alert, chat
  <2>. QED
    BY <2>1, <2>3 DEF Life!Next, Life!Alerts
<1>. QED
  BY <1>1, <1>2, <1>3, <1>4, RowSets

LEMMA ForbiddenRefuses ==
  ASSUME TypeOK, IInv, IInv', HandInv, NEW r \in Rows, SendForbidden(r)
  PROVE  Life!Next \/ UNCHANGED Life!vars
<1>. USE Values
<1>1. PICK f \in Filters, e \in Events : r = <<f, e>>
  BY DEF Rows
<1>2. /\ SetRow(<<f, e>>, "failed") /\ UNCHANGED <<consumed, withdrawn, received>>
      /\ <<f, e>> \in notifier.batch
  BY <1>1 DEF SendForbidden, filterVars
<1>3. note[<<f, e>>] \in {"pending", "none"}
  BY <1>2 DEF HandInv, BatchIsLive
<1>4. CASE note' = note
  BY <1>2, <1>4, LifeStutters
<1>5. CASE /\ alert[<<Owner[f], e>>] = "pending"
           /\ alert' = [alert EXCEPT ![<<Owner[f], e>>] = "failed"]
  <2>1. <<Owner[f], e>> \in Users \X Events /\ chat' = chat
    BY <1>2, ChatStays
  <2>2. Life!Refuse(<<Owner[f], e>>)
    BY <1>2, <1>5, <2>1 DEF Life!Refuse, alert, chat
  <2>. QED
    BY <2>1, <2>2 DEF Life!Next, Life!Alerts
<1>. QED
  BY <1>2, <1>3, <1>4, <1>5, RowSets

(* The rows that leave with a pause or a deletion are their user's only    *)
(* ones for their events, so no other row keeps the alert there.           *)
LEMMA RowsWithdraw ==
  ASSUME TypeOK, IInv, NEW f \in Filters, NEW S, S \subseteq Life!Present, Withdraw(f, S),
         UNCHANGED <<consumed, received>>
  PROVE  Life!Next
<1>. USE Values
<1>. DEFINE gone == {e \in Events : note[<<f, e>>] \in S}
<1>. DEFINE W == {<<Owner[f], e>> : e \in gone}
<1>1. \A g \in Filters, e \in Events :
        note'[<<g, e>>] = IF g = f /\ e \in gone THEN "none" ELSE note[<<g, e>>]
  BY DEF Withdraw, Rows
<1>2. withdrawn' = withdrawn \cup W
  BY DEF Withdraw
<1>3. \A e \in gone : e \in Events /\ note[<<f, e>>] \in Life!Present /\ note[<<f, e>>] # "none"
  BY DEF Life!Present
<1>4. ASSUME NEW e \in gone
      PROVE  AlertOf(Owner[f], e) \in Life!Present /\ AlertOf(Owner[f], e)' = "withdrawn"
  <2>1. AlertOf(Owner[f], e) = note[<<f, e>>]
    BY <1>3, AlertIsRow DEF IInv
  <2>2. \A g \in FiltersOf(Owner[f]) : g # f => note[<<g, e>>] = "none"
    BY <1>3 DEF IInv, HandledOnce, Handled, FiltersOf
  <2>3. \A g \in FiltersOf(Owner[f]) : note'[<<g, e>>] = "none"
    BY <1>1, <2>2 DEF FiltersOf
  <2>4. <<Owner[f], e>> \in withdrawn'
    BY <1>2
  <2>5. AlertOf(Owner[f], e)' = "withdrawn"
    BY <1>3, <2>3, <2>4, AlertWithoutRowNext
  <2>. QED
    BY <1>3, <2>1, <2>5
<1>5. ASSUME NEW u \in Users, NEW d \in Events, <<u, d>> \in W
      PROVE  AlertOf(u, d)' = "withdrawn"
  BY <1>4, <1>5
<1>6. ASSUME NEW u \in Users, NEW d \in Events, <<u, d>> \notin W
      PROVE  AlertOf(u, d)' = AlertOf(u, d)
  <2>1. u # Owner[f] \/ d \notin gone
    BY <1>6
  <2>2. \A g \in FiltersOf(u) : note'[<<g, d>>] = note[<<g, d>>]
    BY <1>1, <2>1 DEF FiltersOf
  <2>. QED
    BY <1>2, <1>6, <2>2, AlertUnaffected
<1>7. /\ W \in SUBSET {p \in {Owner[f]} \X Events : alert[p] \in Life!Present}
      /\ W \in SUBSET (Users \X Events)
  <2>1. ASSUME NEW p \in W
        PROVE  /\ p \in {Owner[f]} \X Events /\ p \in Users \X Events
               /\ alert[p] \in Life!Present
    <3>1. PICK e \in gone : p = <<Owner[f], e>>
      OBVIOUS
    <3>2. e \in Events /\ AlertOf(Owner[f], e) \in Life!Present
      BY <1>3, <1>4
    <3>3. alert[p] = AlertOf(Owner[f], e)
      BY <3>1, <3>2, AlertAt
    <3>. HIDE DEF gone, W
    <3>. QED
      BY <3>1, <3>2, <3>3
  <2>. HIDE DEF W
  <2>. QED
    BY <2>1
<1>8. alert' = [p \in Users \X Events |-> IF p \in W THEN "withdrawn" ELSE alert[p]]
  <2>. HIDE DEF W
  <2>1. PICK WW \in SUBSET (Users \X Events) : WW = W
    BY <1>7
  <2>2. \A u \in Users, d \in Events : <<u, d>> \in WW => AlertOf(u, d)' = "withdrawn"
    BY <1>5, <2>1
  <2>3. \A u \in Users, d \in Events : <<u, d>> \notin WW => AlertOf(u, d)' = AlertOf(u, d)
    BY <1>6, <2>1
  <2>4. alert' = [p \in Users \X Events |-> IF p \in WW THEN "withdrawn" ELSE alert[p]]
    BY <2>2, <2>3, AlertsSet
  <2>. QED
    BY <2>1, <2>4
<1>9. chat' = chat
  BY ChatStays
<1>10. Life!Withdraw(Owner[f])
  <2>. HIDE DEF W
  <2>. QED
    BY <1>7, <1>8, <1>9 DEF Life!Withdraw, Life!Alerts, alert, chat
<1>. QED
  BY <1>10 DEF Life!Next

LEMMA StepLives ==
  ASSUME TypeOK, TypeOK', IInv, IInv', HandInv, [Next]_vars
  PROVE  Life!Next \/ UNCHANGED Life!vars
<1>. USE Values
<1>1. CASE UNCHANGED vars \/ Tick \/ PollBegins \/ PollCommits
  BY <1>1, LifeStutters DEF vars, filterVars, Tick, PollBegins, PollCommits
<1>2. CASE UserStep
  <2>1. ASSUME NEW f \in Filters,
               Press(f) \/ \E t \in stamps[f] : CreateFilter(f, t) \/ Resume(f, t)
        PROVE  UNCHANGED Life!vars
    BY <2>1, LifeStutters DEF Press, CreateFilter, Resume
  <2>2. ASSUME NEW f \in Filters, Pause(f) \/ DeleteFilter(f)
        PROVE  Life!Next
    <3>1. {"pending"} \subseteq Life!Present /\ {"pending", "sent", "failed"} \subseteq Life!Present
      BY DEF Life!Present
    <3>2. /\ Withdraw(f, {"pending"}) \/ Withdraw(f, {"pending", "sent", "failed"})
          /\ UNCHANGED <<consumed, received>>
      BY <2>2 DEF Pause, DeleteFilter
    <3>. QED
      BY <3>1, <3>2, RowsWithdraw
  <2>. QED
    BY <1>2, <2>1, <2>2 DEF UserStep
<1>3. CASE MatcherStep
  <2>1. CASE MatchCommits
    BY <2>1, CommitMatches
  <2>2. CASE MatchAborts \/ \E e \in Events : MatchBegins(e)
    BY <2>2, LifeStutters DEF MatchAborts, MatchBegins, filterVars
  <2>. QED
    BY <1>3, <2>1, <2>2 DEF MatcherStep
<1>4. CASE NotifierStep
  <2>1. CASE Poll \/ DisableFiltersForChat
    BY <2>1, LifeStutters DEF Poll, DisableFiltersForChat, filterVars
  <2>2. ASSUME NEW r \in Rows, SendSucceeds(r)
        PROVE  Life!Next
    <3>1. PICK f \in Filters, e \in Events : r = <<f, e>>
      BY DEF Rows
    <3>. QED
      BY <2>2, <3>1, MessageSends DEF SendSucceeds, filterVars
  <2>. QED
    BY <1>4, <2>1, <2>2, MarkSentMarks, ForbiddenRefuses DEF NotifierStep
<1>5. CASE FaultStep
  <2>1. CASE StoreFails \/ Crash \/ \E r \in Rows : SendFails(r)
    BY <2>1, LifeStutters DEF StoreFails, Crash, SendFails, filterVars
  <2>2. ASSUME NEW r \in Rows, AnswerLost(r)
        PROVE  Life!Next
    <3>1. PICK f \in Filters, e \in Events : r = <<f, e>>
      BY DEF Rows
    <3>. QED
      BY <2>2, <3>1, MessageSends DEF AnswerLost, filterVars
  <2>. QED
    BY <1>5, <2>1, <2>2 DEF FaultStep
<1>. QED
  BY <1>1, <1>2, <1>3, <1>4, <1>5 DEF Next

LEMMA InitLives == Init => Life!Init
<1>. SUFFICES ASSUME Init PROVE Life!Init
  OBVIOUS
<1>1. \A u \in Users, e \in Events : AlertOf(u, e) = "none"
  <2>1. \A f \in Filters, e \in Events : note[<<f, e>>] = "none"
    BY DEF Init, Rows
  <2>2. \A u \in Users, e \in Events : \A f \in FiltersOf(u) : note[<<f, e>>] = "none"
    BY <2>1 DEF FiltersOf
  <2>3. withdrawn = {}
    BY DEF Init
  <2>. QED
    BY <2>2, <2>3, AlertWithoutRow
<1>2. alert = [p \in Users \X Events |-> "none"]
  BY <1>1 DEF alert
<1>3. chat = {}
  BY DEF Init, chat
<1>. QED
  BY <1>2, <1>3 DEF Init, Life!Init, Life!Alerts, alert, chat

(* Whatever happens to filters, transactions, batches and answers, an      *)
(* alert lives as AlertLife says.                                          *)
THEOREM Implementation == Spec => ImplementsAlertLife
<1>1. Init => Life!Init /\ HandInv
  BY InitLives, InitHandInv
<1>2. TypeOK /\ IInv /\ HandInv /\ [Next]_vars => HandInv'
  BY StepHandInv
<1>3. TypeOK /\ (TypeOK)' /\ IInv /\ (IInv)' /\ HandInv /\ [Next]_vars
        => [Life!Next]_(Life!vars)
  BY StepLives
<1>. QED
  BY <1>1, <1>2, <1>3, Inductive, PTL DEF Spec, ImplementsAlertLife, Life!Spec
=============================================================================
