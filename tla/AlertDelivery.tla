---------------------------- MODULE AlertDelivery ----------------------------
(***************************************************************************)
(* Saved alerts and the notifications they produce: the per-advert match   *)
(* transaction (store/postgres/listing_matcher.go), the user's pause,      *)
(* restart and deletion of a filter (users_alerts.go) and the Notifier     *)
(* (app/notifier.go, store/postgres/notifications.go).                     *)
(*                                                                         *)
(* The match transaction runs at READ COMMITTED: it reads the enabled      *)
(* filters in one statement and inserts its rows in later ones, and the    *)
(* bot's handlers commit in between.  An event reaches the matcher any     *)
(* number of times (EventDelivery).  A handler's own transaction is one    *)
(* step, its commit; the time.Now() it writes was taken in an earlier one, *)
(* and so was the time of the events that a poll commits.                  *)
(***************************************************************************)
EXTENDS Integers, FiniteSets

CONSTANTS Filters,      \* filter ids
          Users,
          Owner,        \* Owner[f]: the user a filter belongs to
          Events,       \* listing events
          Wanted,       \* Wanted[f]: the events whose listing f matches
          Answers,      \* what Telegram may answer to a message
          MaxClock,     \* bound on time stamps
          MaxPresses,   \* bound on the handlers at work on one filter
          MaxFaults     \* bound on crashes and failed calls

AllAnswers == {"ok", "forbidden", "error"}

ASSUME FiltersAssumption == Filters \subseteq Nat
ASSUME OwnerAssumption == Owner \in [Filters -> Users]
ASSUME WantedAssumption == Wanted \in [Filters -> SUBSET Events]
ASSUME AnswersAssumption == Answers \subseteq AllAnswers
ASSUME AlertBoundsAssumption == MaxClock \in Nat /\ MaxPresses \in Nat /\ MaxFaults \in Nat

VARIABLES
  clock,       \* the wall clock
  status,      \* status[f]: "none", "enabled", "paused" or "deleted"
  activated,   \* activated[f]: filters.activated_at
  created,     \* history: created[f] is its first activated_at
  stamps,      \* stamps[f]: times that handlers have taken and not committed
  since,       \* history: when the activation of f was committed
  occurred,    \* occurred[e]: occurred_at, or 0 before the event
  polled,      \* the time the poll in progress has taken, or 0
  consumed,    \* consumed_events rows of the matcher
  matcher,     \* the match transaction in progress: its event and filters
  note,        \* note[<<f, e>>]: the notification row, or "none"
  withdrawn,   \* history: <<u, e>> whose row a pause or a deletion removed
  notifier,    \* the Notifier goroutine: its place, batch and item in hand
  received,    \* received[<<u, e>>]: alerts for e in the chat of u
  faults       \* faults so far

filterVars == <<status, activated, created, stamps, since, withdrawn>>
vars == <<clock, filterVars, occurred, polled, consumed, matcher, note, notifier,
          received, faults>>

Rows == Filters \X Events
NoRow == <<>>
Resting == [pc |-> "poll", batch |-> {}, row |-> NoRow]
NoMatch == [event |-> {}, selected |-> {}]

FiltersOf(u) == {f \in Filters : Owner[f] = u}
Fault == faults < MaxFaults /\ faults' = faults + 1

Init ==
  /\ clock = 0
  /\ status = [f \in Filters |-> "none"]
  /\ activated = [f \in Filters |-> 0] /\ created = [f \in Filters |-> 0]
  /\ stamps = [f \in Filters |-> {}] /\ since = [f \in Filters |-> 0]
  /\ occurred = [e \in Events |-> 0] /\ polled = 0
  /\ consumed = {} /\ matcher = NoMatch
  /\ note = [r \in Rows |-> "none"]
  /\ withdrawn = {}
  /\ notifier = Resting
  /\ received = [p \in Users \X Events |-> 0]
  /\ faults = 0

Tick ==
  /\ clock < MaxClock
  /\ clock' = clock + 1
  /\ UNCHANGED <<filterVars, occurred, polled, consumed, matcher, note, notifier, received, faults>>

(* ProcessDiscovered takes the time first, and its transaction commits     *)
(* later, with an event of that time for each new advert of the poll, if   *)
(* it commits.  (Polls with nothing left to find are left out.)            *)
PollBegins ==
  /\ polled = 0 /\ clock > 0 /\ \E e \in Events : occurred[e] = 0
  /\ polled' = clock
  /\ UNCHANGED <<clock, filterVars, occurred, consumed, matcher, note, notifier, received, faults>>

PollCommits ==
  /\ polled > 0
  /\ \E found \in SUBSET {e \in Events : occurred[e] = 0} :
       occurred' = [e \in Events |-> IF e \in found THEN polled ELSE occurred[e]]
  /\ polled' = 0
  /\ UNCHANGED <<clock, filterVars, consumed, matcher, note, notifier, received, faults>>

-----------------------------------------------------------------------------
(* The bot's handlers.                                                     *)

(* A handler that creates, or restarts, f takes time.Now().                *)
Press(f) ==
  /\ status[f] # "deleted" /\ (status[f] = "none" => stamps[f] = {})
  /\ Cardinality(stamps[f]) < MaxPresses
  /\ stamps' = [stamps EXCEPT ![f] = @ \cup {clock}]
  /\ UNCHANGED <<clock, status, activated, created, since, withdrawn, occurred, polled,
                 consumed, matcher, note, notifier, received, faults>>

(* The handler of stamp t commits: f is in force from now on.              *)
Activate(f, t) ==
  /\ t \in stamps[f]
  /\ stamps' = [stamps EXCEPT ![f] = @ \ {t}]
  /\ status' = [status EXCEPT ![f] = "enabled"]
  /\ activated' = [activated EXCEPT ![f] = t]
  /\ since' = [since EXCEPT ![f] = clock]

CreateFilter(f, t) ==
  /\ status[f] = "none"
  /\ Activate(f, t)
  /\ created' = [created EXCEPT ![f] = t]
  /\ UNCHANGED <<clock, withdrawn, occurred, polled, consumed, matcher, note, notifier,
                 received, faults>>

(* SetFilterEnabled(true), on an enabled filter too, restarts its clock.   *)
Resume(f, t) ==
  /\ status[f] \in {"enabled", "paused"}
  /\ Activate(f, t)
  /\ UNCHANGED <<clock, created, withdrawn, occurred, polled, consumed, matcher, note,
                 notifier, received, faults>>

(* The rows of f with one of the statuses leave the table.                 *)
Withdraw(f, statuses) ==
  LET gone == {e \in Events : note[<<f, e>>] \in statuses}
  IN /\ note' = [r \in Rows |-> IF r[1] = f /\ r[2] \in gone THEN "none" ELSE note[r]]
     /\ withdrawn' = withdrawn \cup {<<Owner[f], e>> : e \in gone}

(* SetFilterEnabled(false) deletes what is pending in the same transaction.*)
Pause(f) ==
  /\ status[f] \in {"enabled", "paused"}
  /\ status' = [status EXCEPT ![f] = "paused"]
  /\ Withdraw(f, {"pending"})
  /\ UNCHANGED <<clock, activated, created, stamps, since, occurred, polled, consumed, matcher,
                 notifier, received, faults>>

(* DeleteFilter cascades to every notification of the filter, and a        *)
(* restart still at work finds no row to update.                           *)
DeleteFilter(f) ==
  /\ status[f] \in {"enabled", "paused"}
  /\ status' = [status EXCEPT ![f] = "deleted"]
  /\ stamps' = [stamps EXCEPT ![f] = {}]
  /\ Withdraw(f, {"pending", "sent", "failed"})
  /\ UNCHANGED <<clock, activated, created, since, occurred, polled, consumed, matcher,
                 notifier, received, faults>>

-----------------------------------------------------------------------------
(* The match transaction.                                                  *)

(* Mutant: an activation at the very time of the event matches it.         *)
MutantInclusive(e) ==
  {f \in Filters : status[f] = "enabled" /\ activated[f] <= occurred[e] /\ e \in Wanted[f]}

Matching(e) ==
  {f \in Filters : status[f] = "enabled" /\ activated[f] < occurred[e] /\ e \in Wanted[f]}

(* Mutant: no coalescing.                                                  *)
MutantEveryFilter(e) == Matching(e)

(* Of the matching filters of a user, the one with the lowest id.          *)
Selected(e) == {f \in Matching(e) : \A g \in Matching(e) : Owner[g] = Owner[f] => f <= g}

MatchBegins(e) ==
  /\ matcher = NoMatch /\ occurred[e] > 0
  /\ e \notin consumed
  /\ matcher' = [event |-> {e}, selected |-> Selected(e)]
  /\ UNCHANGED <<clock, filterVars, occurred, polled, consumed, note, notifier, received, faults>>

(* The inserts find their filters, ON CONFLICT (filter_id, event_id) keeps *)
(* an existing row, and the transaction commits.                           *)
MatchCommits ==
  /\ matcher # NoMatch
  /\ \A f \in matcher.selected : status[f] # "deleted"
  /\ note' = [r \in Rows |-> IF /\ r[1] \in matcher.selected /\ r[2] \in matcher.event
                                /\ note[r] = "none"
                             THEN "pending" ELSE note[r]]
  /\ consumed' = consumed \cup matcher.event
  /\ matcher' = NoMatch
  /\ UNCHANGED <<clock, filterVars, occurred, polled, notifier, received, faults>>

(* Mutant: the failed insert is swallowed, and the event counts as done.   *)
MutantSwallowAbort ==
  /\ matcher # NoMatch
  /\ \E f \in matcher.selected : status[f] = "deleted"
  /\ matcher' = NoMatch
  /\ consumed' = consumed \cup matcher.event
  /\ UNCHANGED <<clock, filterVars, occurred, polled, note, notifier, received, faults>>

(* A filter deleted meanwhile fails the foreign key: the delivery retries. *)
MatchAborts ==
  /\ matcher # NoMatch
  /\ \E f \in matcher.selected : status[f] = "deleted"
  /\ matcher' = NoMatch
  /\ UNCHANGED <<clock, filterVars, occurred, polled, consumed, note, notifier, received, faults>>

-----------------------------------------------------------------------------
(* The Notifier.  Its batch is not read again before a message is sent.    *)

Deliverable == {r \in Rows : note[r] = "pending" /\ status[r[1]] = "enabled"}

(* Pending: rows whose next_attempt_at is still ahead stay out.            *)
Poll ==
  /\ notifier.pc = "poll"
  /\ \E batch \in (SUBSET Deliverable) \ {{}} :
       notifier' = [pc |-> "send", batch |-> batch, row |-> NoRow]
  /\ UNCHANGED <<clock, filterVars, occurred, polled, consumed, matcher, note, received, faults>>

(* Mutant: an exhausted batch is not followed by a poll.                   *)
MutantNoPoll(batch) == notifier' = [pc |-> "send", batch |-> batch, row |-> NoRow]

(* The notifier goes on to the next item of its batch.                     *)
NextItem(batch) ==
  notifier' = IF batch = {} THEN Resting
              ELSE [pc |-> "send", batch |-> batch, row |-> NoRow]

(* Mutant: a status is written for a row that a pause has deleted.         *)
MutantAnyRow(r, s) == note' = [note EXCEPT ![r] = s]

Received(r) == received' = [received EXCEPT ![<<Owner[r[1]], r[2]>>] = @ + 1]
SetRow(r, s) == note' = [note EXCEPT ![r] = IF @ = "none" THEN @ ELSE s]

(* Telegram accepts the album.                                             *)
SendSucceeds(r) ==
  /\ notifier.pc = "send" /\ r \in notifier.batch /\ "ok" \in Answers
  /\ Received(r)
  /\ notifier' = [pc |-> "mark", batch |-> notifier.batch \ {r}, row |-> r]
  /\ UNCHANGED <<clock, filterVars, occurred, polled, consumed, matcher, note, faults>>

(* Mutant: the sent row stays pending.                                     *)
MutantForgetSent ==
  /\ notifier.pc = "mark"
  /\ NextItem(notifier.batch)
  /\ UNCHANGED <<clock, filterVars, occurred, polled, consumed, matcher, note, received, faults>>

MarkSent ==
  /\ notifier.pc = "mark"
  /\ SetRow(notifier.row, "sent")
  /\ NextItem(notifier.batch)
  /\ UNCHANGED <<clock, filterVars, occurred, polled, consumed, matcher, received, faults>>

(* Nothing reached the chat: an API error other than 403 or a transport    *)
(* error, after which Retry moves next_attempt_at, or a store call that    *)
(* failed first.                                                           *)
SendFails(r) ==
  /\ notifier.pc = "send" /\ r \in notifier.batch /\ Fault
  /\ NextItem(notifier.batch \ {r})
  /\ UNCHANGED <<clock, filterVars, occurred, polled, consumed, matcher, note, received>>

(* The same, with the message in the chat and its answer lost.             *)
AnswerLost(r) ==
  /\ notifier.pc = "send" /\ r \in notifier.batch /\ "error" \in Answers /\ Fault
  /\ Received(r)
  /\ NextItem(notifier.batch \ {r})
  /\ UNCHANGED <<clock, filterVars, occurred, polled, consumed, matcher, note>>

(* 403, the user blocked the bot: Fail, then DisableFiltersForChat.        *)
SendForbidden(r) ==
  /\ notifier.pc = "send" /\ r \in notifier.batch /\ "forbidden" \in Answers
  /\ SetRow(r, "failed")
  /\ notifier' = [pc |-> "disable", batch |-> notifier.batch \ {r}, row |-> r]
  /\ UNCHANGED <<clock, filterVars, occurred, polled, consumed, matcher, received, faults>>

DisableFiltersForChat ==
  /\ notifier.pc = "disable"
  /\ status' = [f \in Filters |->
                  IF status[f] = "enabled" /\ Owner[f] = Owner[notifier.row[1]]
                  THEN "paused" ELSE status[f]]
  /\ NextItem(notifier.batch)
  /\ UNCHANGED <<clock, activated, created, stamps, since, withdrawn, occurred, polled,
                 consumed, matcher, note, received, faults>>

(* CachePhotoFileIDs or MarkSent fails after the send, or Disable after    *)
(* Fail: deliver returns, and Run logs and goes on.                        *)
StoreFails ==
  /\ notifier.pc \in {"mark", "disable"} /\ Fault
  /\ NextItem(notifier.batch)
  /\ UNCHANGED <<clock, filterVars, occurred, polled, consumed, matcher, note, received>>

(* The process dies, its handlers and its poll with it; an open            *)
(* transaction rolls back.                                                 *)
Crash ==
  /\ Fault
  /\ notifier' = Resting /\ matcher' = NoMatch
  /\ stamps' = [f \in Filters |-> {}] /\ polled' = 0
  /\ UNCHANGED <<clock, status, activated, created, since, withdrawn, occurred, consumed,
                 note, received>>

-----------------------------------------------------------------------------
UserStep ==
  \E f \in Filters :
    \/ Press(f) \/ Pause(f) \/ DeleteFilter(f)
    \/ \E t \in stamps[f] : CreateFilter(f, t) \/ Resume(f, t)
MatcherStep == MatchCommits \/ MatchAborts \/ \E e \in Events : MatchBegins(e)
NotifierStep ==
  \/ Poll \/ MarkSent \/ DisableFiltersForChat
  \/ \E r \in Rows : SendSucceeds(r) \/ SendForbidden(r)
FaultStep == StoreFails \/ Crash \/ \E r \in Rows : SendFails(r) \/ AnswerLost(r)

Next == Tick \/ PollBegins \/ PollCommits \/ UserStep \/ MatcherStep \/ NotifierStep \/ FaultStep

Spec == Init /\ [][Next]_vars

(* The matcher and the notifier keep running.  A due row is polled again   *)
(* and again, oldest next_attempt_at first, so it enters a batch.          *)
PollsRow(r) == Poll /\ r \in notifier'.batch

FairSpec ==
  /\ Spec
  /\ WF_vars(MatcherStep) /\ WF_vars(NotifierStep)
  /\ \A r \in Rows : SF_vars(PollsRow(r))

-----------------------------------------------------------------------------
(* Properties.                                                             *)

TypeOK ==
  /\ clock \in 0..MaxClock
  /\ status \in [Filters -> {"none", "enabled", "paused", "deleted"}]
  /\ activated \in [Filters -> 0..MaxClock] /\ created \in [Filters -> 0..MaxClock]
  /\ stamps \in [Filters -> SUBSET (0..MaxClock)] /\ since \in [Filters -> 0..MaxClock]
  /\ occurred \in [Events -> 0..MaxClock] /\ polled \in 0..MaxClock
  /\ consumed \in SUBSET Events
  /\ matcher \in [event : SUBSET Events, selected : SUBSET Filters]
  /\ note \in [Rows -> {"none", "pending", "sent", "failed"}]
  /\ withdrawn \in SUBSET (Users \X Events)
  /\ notifier \in [pc : {"poll", "send", "mark", "disable"}, batch : SUBSET Rows,
                   row : Rows \cup {NoRow}]
  /\ received \in [Users \X Events -> Nat]
  /\ faults \in 0..MaxFaults

(* Whatever filters a user has, adds, pauses or deletes, and however often *)
(* the event is delivered, an event leaves at most one notification of the *)
(* user's, and a row is there only once the event is consumed.             *)
OneRowPerUser ==
  \A e \in Events :
    /\ \A f, g \in Filters :
         note[<<f, e>>] # "none" /\ note[<<g, e>>] # "none" /\ Owner[f] = Owner[g] => f = g
    /\ \A f \in Filters : note[<<f, e>>] # "none" => e \in consumed

(* A filter never alerts to an event from before it was created.           *)
NoBacklog ==
  \A f \in Filters, e \in Events : note[<<f, e>>] # "none" => created[f] < occurred[e]

(* The matching filters whose activation was committed before the event's  *)
(* time was taken, and that are enabled still.                             *)
InForce(e) == {f \in Filters : status[f] = "enabled" /\ since[f] < occurred[e] /\ e \in Wanted[f]}

(* A user with a filter in force since before an event is alerted to it,   *)
(* once it is consumed: the lowest matching filter carries the alert for   *)
(* all, and only the user's own pause or deletion of it takes the alert    *)
(* away.  (A filter stamped before the event and committed only after the  *)
(* match has read the filters is enabled, older than the event, and has    *)
(* no row: activated in place of since would be too much.)                 *)
InterestedUserHasRow ==
  \A e \in consumed, f \in Filters :
    f \in InForce(e) =>
      \/ \E g \in FiltersOf(Owner[f]) : note[<<g, e>>] # "none"
      \/ <<Owner[f], e>> \in withdrawn

(* An alert is repeated only after a fault.                                *)
RepeatsNeedFaults == \A u \in Users, e \in Events : received[<<u, e>>] <= 1 + faults

(* What has become of the alert a user has, or had, about an event.        *)
RowsOf(u, e) == {note[<<f, e>>] : f \in FiltersOf(u)} \ {"none"}
AlertOf(u, e) ==
  CASE RowsOf(u, e) # {} -> CHOOSE s \in RowsOf(u, e) : TRUE
    [] RowsOf(u, e) = {} /\ <<u, e>> \in withdrawn -> "withdrawn"
    [] OTHER -> "none"

Life == INSTANCE AlertLife
          WITH matched <- consumed,
               alert <- [p \in Users \X Events |-> AlertOf(p[1], p[2])],
               chat <- {p \in Users \X Events : received[p] > 0}

(* Filters, transactions, batches and faults implement the life of an      *)
(* alert: it begins with the match of its event or never, only what has    *)
(* reached the chat is marked as sent, no other status is left again but   *)
(* by a withdrawal, and what was withdrawn does not come back.             *)
ImplementsAlertLife == Life!Spec

(* A pending alert of an enabled filter does not stay: it is sent, failed, *)
(* or withdrawn.                                                           *)
AlertsSettle ==
  \A r \in Rows : (note[r] = "pending" /\ status[r[1]] = "enabled")
                    ~> (note[r] # "pending" \/ status[r[1]] # "enabled")
=============================================================================
