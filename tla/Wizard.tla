------------------------------- MODULE Wizard -------------------------------
(***************************************************************************)
(* The alert wizard of the Telegram bot (telegram/bot.go, wizard.go): the  *)
(* dialogue of one user, whose session is kept in memory.                  *)
(*                                                                         *)
(* The library runs a handler per update, several at once.  A handler      *)
(* takes a deep copy of the session, changes the copy, saves it over the   *)
(* session and then edits the message the button was on; each of these is  *)
(* a step of its own, and other handlers come between.  Buttons stay on    *)
(* every message until it is edited, and no handler looks at the stage the *)
(* session is in.                                                          *)
(*                                                                         *)
(* Sessions are keyed by the user, and those of two users never meet.      *)
(* Text typed within a custom range stands for any text that parses.       *)
(***************************************************************************)
EXTENDS Naturals, FiniteSets, Sequences

CONSTANTS Properties, Deals,   \* choices of the first two steps
          Prices, RoomCounts, Sizes,   \* and of the last; Typed opens a custom range
          Groups,              \* area groups
          Parent,              \* Parent[g]: the key of the whole group, or None
          Children,            \* Children[g]: the keys of its areas
          Messages,            \* message ids, in the order they are sent
          Handlers,            \* handlers that may run at once
          MaxSetups, MaxAlerts,        \* bounds on sessions and alerts
          MaxHurries,                  \* bound on hurried updates
          MaxFaults                    \* bound on restarts and lost answers

None == "none"
Unlimited == "any"
Typed == "typed"

ASSUME GroupsAssumption ==
  /\ None \notin Groups /\ DOMAIN Parent = Groups /\ DOMAIN Children = Groups
  /\ \A g \in Groups : IsFiniteSet(Children[g])
ASSUME OptionsAssumption == None \notin Prices \cup RoomCounts \cup Sizes /\ Typed \notin RoomCounts
ASSUME WizardBoundsAssumption == 
  /\ Messages \subseteq Nat \ {0}
  /\ {MaxSetups, MaxAlerts, MaxHurries, MaxFaults} \subseteq Nat

VARIABLES
  session,    \* the state kept for the user
  message,    \* message[m]: the keyboard it shows, and what of the session it shows
  handler,    \* the handlers under way
  alerts,     \* history: the alerts saved, each with the settings that were on show
  setups,     \* history: sessions begun
  hurries,    \* history: updates of a user who did not wait, or went back to an old message
  restarts,
  lost        \* history: commits of an alert whose answer was lost

vars == <<session, message, handler, alerts, setups, hurries, restarts, lost>>

(* The settings a new session starts with, and no session at all.          *)
Fresh == [stage |-> "property", property |-> None, deal |-> None, group |-> None, areas |-> {},
          price |-> Unlimited, rooms |-> Unlimited, size |-> Unlimited, message |-> 0]
NoSession == [Fresh EXCEPT !.stage = None]
Unsent == [keyboard |-> None, drawn |-> NoSession]

Button(act, arg) == [act |-> act, arg |-> arg]
Idle == [pc |-> "idle", button |-> Button(None, None), message |-> 0,
         copy |-> NoSession, shown |-> Unsent]

(* The settings of a session: those an alert is saved with.                *)
Settings(s) == [s EXCEPT !.stage = None, !.message = 0]
Running == {h \in Handlers : handler[h] # Idle}

Init ==
  /\ session = NoSession
  /\ message = [m \in Messages |-> Unsent]
  /\ handler = [h \in Handlers |-> Idle]
  /\ alerts = <<>>
  /\ setups = 0
  /\ hurries = 0
  /\ restarts = 0 /\ lost = 0

-----------------------------------------------------------------------------
(* The keyboards.                                                          *)

Options(act, S) == {Button(act, v) : v \in S}
Plain(act) == Button(act, None)

(* Every keyboard of a step has Cancel; Back, on the custom ranges, is a   *)
(* button no handler knows.                                                *)
Keyboard(k, s) ==
  CASE k = "property" -> Options("property", Properties) \cup {Plain("cancel")}
    [] k = "deal" -> Options("deal", Deals) \cup {Plain("cancel")}
    [] k = "scope" -> Options("group", Groups) \cup {Plain("everywhere"), Plain("cancel")}
    [] k = "group" -> Options("toggle", Children[s.group]) \cup {Plain("done"), Plain("cancel")}
                        \cup (IF Parent[s.group] = None THEN {} ELSE {Plain("whole")})
    [] k = "price" -> Options("price", Prices) \cup {Plain("cancel")}
    [] k = "rooms" -> Options("rooms", RoomCounts) \cup {Plain("cancel")}
    [] k = "size" -> Options("size", Sizes) \cup {Plain("cancel")}
    [] k \in {"custom_price", "custom_size"} -> {Plain("back"), Plain("cancel")}
    [] k = "confirm" -> {Plain("confirm"), Plain("cancel")}
    [] k = "menu" -> {Plain("new")}
    [] OTHER -> {}

(* The message a handler draws for the session it has saved: the areas of  *)
(* a group, the settings for review, or a step alike for every session.    *)
Drawn(act, s) ==
  CASE s.stage = "areas" /\ act # "deal" ->
         [keyboard |-> "group", drawn |-> [NoSession EXCEPT !.group = s.group]]
    [] s.stage = "areas" /\ act = "deal" -> [keyboard |-> "scope", drawn |-> NoSession]
    [] s.stage = "confirm" -> [keyboard |-> "confirm", drawn |-> Settings(s)]
    [] OTHER -> [keyboard |-> s.stage, drawn |-> NoSession]

-----------------------------------------------------------------------------
(* What a button, or typed text, makes of the session.                     *)

(* The handler returns without saving.                                     *)
Ignored(s, b) ==
  \/ b.act = "back"
  \/ b.act = "toggle" /\ (s.group = None \/ b.arg \notin Children[s.group])
  \/ b.act = "whole" /\ (s.group = None \/ Parent[s.group] = None)
  \/ b.act = "done" /\ s.areas = {}
  \/ b.act = "text" /\ s.stage \notin {"custom_price", "custom_size"}

(* Mutant: opening another group keeps the areas that are selected.        *)
MutantKeepAreas(s, g) == [s EXCEPT !.group = g, !.stage = "areas"]
OpenAreaGroup(s, g) == [s EXCEPT !.group = g, !.areas = {}, !.stage = "areas"]

ToggleArea(s, k) == [s EXCEPT !.areas = IF k \in @ THEN @ \ {k} ELSE @ \cup {k}]

Priced(s, v) == IF v = Typed THEN [s EXCEPT !.stage = "custom_price"]
                ELSE [s EXCEPT !.price = v, !.stage = "rooms"]
Sized(s, v) == IF v = Typed THEN [s EXCEPT !.stage = "custom_size"]
               ELSE [s EXCEPT !.size = v, !.stage = "confirm"]

TypedRange(s) == IF s.stage = "custom_price" THEN [s EXCEPT !.price = Typed, !.stage = "rooms"]
                 ELSE [s EXCEPT !.size = Typed, !.stage = "confirm"]

After(s, b) ==
  CASE b.act = "property" -> [s EXCEPT !.property = b.arg, !.stage = "deal"]
    [] b.act = "deal" -> [s EXCEPT !.deal = b.arg, !.stage = "areas"]
    [] b.act = "everywhere" -> [s EXCEPT !.areas = {}, !.stage = "price"]
    [] b.act = "group" -> OpenAreaGroup(s, b.arg)
    [] b.act = "toggle" -> ToggleArea(s, b.arg)
    [] b.act = "whole" -> [s EXCEPT !.areas = {Parent[s.group]}, !.stage = "price"]
    [] b.act = "done" -> [s EXCEPT !.stage = "price"]
    [] b.act = "price" -> Priced(s, b.arg)
    [] b.act = "rooms" -> [s EXCEPT !.rooms = b.arg, !.stage = "size"]
    [] b.act = "size" -> Sized(s, b.arg)
    [] b.act = "text" -> TypedRange(s)

-----------------------------------------------------------------------------
(* The user presses a button of a message, types, or sends a command; an   *)
(* update starts a handler.  A handler whose UpsertUser fails does nothing *)
(* and is left out.                                                        *)

Hurried(m) == Running # {} \/ (m # 0 /\ session # NoSession /\ session.message # m)

Update(h, b, m) ==
  /\ handler[h] = Idle
  /\ handler' = [handler EXCEPT ![h] =
       [pc |-> "read", button |-> b, message |-> m, copy |-> NoSession,
        shown |-> IF b.act = "confirm" THEN message[m] ELSE Unsent]]
  /\ hurries' = IF Hurried(m) THEN hurries + 1 ELSE hurries
  /\ hurries' <= MaxHurries
  /\ UNCHANGED <<session, message, alerts, setups, restarts, lost>>

(* The bounds on setups and alerts are on the updates that lead to them.   *)
Bounded(act) == (act = "new" => setups < MaxSetups) /\ (act = "confirm" => Len(alerts) < MaxAlerts)

Press(h, m, b) ==
  /\ b \in Keyboard(message[m].keyboard, message[m].drawn)
  /\ Bounded(b.act)
  /\ Update(h, b, m)
Command(h) == \E act \in {"new", "text", "stop"} : Bounded(act) /\ Update(h, Plain(act), 0)

-----------------------------------------------------------------------------
(* The handlers.                                                           *)

At(h, pc, acts) == handler[h].pc = pc /\ handler[h].button.act \in acts
Ended(h) == [handler EXCEPT ![h] = Idle]

(* The handler has what it needs to draw, be it the menu or the next step. *)
Menu == [keyboard |-> "menu", drawn |-> NoSession]
Draws(m, shown) == [Idle EXCEPT !.pc = "draw", !.message = m, !.shown = shown]
Steps == {"property", "deal", "everywhere", "group", "toggle", "whole", "done",
          "price", "rooms", "size", "text", "back"}

(* getState: a copy of the session.  Without one the setup has expired; a  *)
(* button moves the session to its own message.                            *)
Read(h) ==
  /\ handler[h].pc = "read" /\ handler[h].button.act \notin {"new", "stop"}
  /\ handler' = IF session = NoSession THEN Ended(h)
                ELSE [handler EXCEPT ![h] = [@ EXCEPT !.pc = "save",
                        !.copy = [session EXCEPT
                          !.message = IF handler[h].message = 0 THEN @ ELSE handler[h].message]]]
  /\ UNCHANGED <<session, message, alerts, setups, hurries, restarts, lost>>

(* Cancel on a keyboard finds a session before it clears it; the commands  *)
(* /cancel and /start do not look.                                         *)
Cancel(h) ==
  /\ At(h, "save", {"cancel"}) \/ At(h, "read", {"stop"})
  /\ session' = NoSession
  /\ handler' = [handler EXCEPT ![h] = Draws(handler[h].message, Menu)]
  /\ UNCHANGED <<message, alerts, setups, hurries, restarts, lost>>

(* Mutant: a typed range is drawn without being saved.                     *)
MutantTypedUnsaved(h, next) ==
  session' = IF handler[h].button.act = "text" THEN session ELSE next

(* saveState: the changed copy takes the place of the session, whatever    *)
(* has become of that since.                                               *)
SaveState(h, next) == session' = next

Save(h) ==
  /\ At(h, "save", Steps)
  /\ LET s == handler[h].copy
         b == handler[h].button
     IN IF Ignored(s, b) THEN handler' = Ended(h) /\ UNCHANGED session
        ELSE \/ /\ SaveState(h, After(s, b))
                /\ handler' = [handler EXCEPT ![h] = Draws(s.message, Drawn(b.act, After(s, b)))]
             \/ \* the areas of the group cannot be listed
                b.act = "group" /\ handler' = Ended(h) /\ UNCHANGED session
  /\ UNCHANGED <<message, alerts, setups, hurries, restarts, lost>>

(* editState: the message shows what was saved, or the main menu; Telegram *)
(* may refuse.                                                             *)
Draw(h) ==
  /\ handler[h].pc = "draw"
  /\ \/ /\ handler[h].message # 0
        /\ message' = [message EXCEPT ![handler[h].message] = handler[h].shown]
     \/ UNCHANGED message
  /\ handler' = Ended(h)
  /\ UNCHANGED <<session, alerts, setups, hurries, restarts, lost>>

(* CreateFilter: the table takes no alert without a deal, and an alert     *)
(* without a property type is one for apartments.  When the answer to the  *)
(* commit is lost, the handler ends as it does without an alert: session   *)
(* and keyboard stay.                                                      *)
CreateFilter(h) ==
  /\ At(h, "save", {"confirm"})
  /\ \/ handler' = Ended(h) /\ UNCHANGED <<alerts, lost>>
     \/ /\ handler[h].copy.deal # None
        /\ alerts' = Append(alerts, [saved |-> Settings(handler[h].copy),
                                     shown |-> handler[h].shown.drawn])
        /\ \/ handler' = [handler EXCEPT ![h].pc = "clear"] /\ UNCHANGED lost
           \/ handler' = Ended(h) /\ restarts + lost < MaxFaults /\ lost' = lost + 1
  /\ UNCHANGED <<session, message, setups, hurries, restarts>>

(* Mutant: the session is kept when its alert is saved.                    *)
MutantKeepSession(h) ==
  /\ At(h, "clear", {"confirm"})
  /\ handler' = [handler EXCEPT ![h] = Draws(handler[h].message, Menu)]
  /\ UNCHANGED <<session, message, alerts, setups, hurries, restarts, lost>>

ClearState(h) ==
  /\ At(h, "clear", {"confirm"})
  /\ session' = NoSession
  /\ handler' = [handler EXCEPT ![h] = Draws(handler[h].message, Menu)]
  /\ UNCHANGED <<message, alerts, setups, hurries, restarts, lost>>

(* startWizard: the first step is drawn before the session is saved, on a  *)
(* new message or on the one with the menu; without it there is none.      *)
NextMessage == {m \in Messages : message[m] = Unsent /\ \A n \in Messages : n < m => message[n] # Unsent}

StartDraw(h) ==
  /\ At(h, "read", {"new"})
  /\ \/ \E m \in IF handler[h].message = 0 THEN NextMessage ELSE {handler[h].message} :
          LET begun == [Fresh EXCEPT !.message = m]
          IN /\ message' = [message EXCEPT ![m] = [keyboard |-> "property", drawn |-> NoSession]]
             /\ handler' = [handler EXCEPT ![h] = [@ EXCEPT !.pc = "save", !.copy = begun]]
     \/ handler' = Ended(h) /\ UNCHANGED message
  /\ UNCHANGED <<session, alerts, setups, hurries, restarts, lost>>

StartSave(h) ==
  /\ At(h, "save", {"new"})
  /\ session' = handler[h].copy
  /\ setups' = setups + 1
  /\ handler' = Ended(h)
  /\ UNCHANGED <<message, alerts, hurries, restarts, lost>>

(* The bot restarts: sessions and handlers are gone, messages stay.        *)
Restart ==
  /\ restarts + lost < MaxFaults /\ restarts' = restarts + 1
  /\ session' = NoSession
  /\ handler' = [h \in Handlers |-> Idle]
  /\ UNCHANGED <<message, alerts, setups, hurries, lost>>

-----------------------------------------------------------------------------
UserStep == \E h \in Handlers :
  Command(h) \/ \E m \in Messages : \E b \in Keyboard(message[m].keyboard, message[m].drawn) : Press(h, m, b)
HandlerStep == \E h \in Handlers :
  \/ Read(h) \/ Save(h) \/ Draw(h) \/ Cancel(h) \/ CreateFilter(h) \/ ClearState(h)
  \/ StartDraw(h) \/ StartSave(h)

Next == UserStep \/ HandlerStep \/ Restart
Spec == Init /\ [][Next]_vars

-----------------------------------------------------------------------------
(* Properties.                                                             *)

(* The keys a session in a group can have.                                 *)
KeysOf(g) == IF g = None THEN {} ELSE Children[g] \cup ({Parent[g]} \ {None})

Session == [stage : {None, "property", "deal", "areas", "price", "custom_price", "rooms", "size",
                     "custom_size", "confirm"},
            property : Properties \cup {None}, deal : Deals \cup {None},
            group : Groups \cup {None}, areas : SUBSET UNION {KeysOf(g) : g \in Groups},
            price : Prices \cup {Unlimited, Typed}, rooms : RoomCounts \cup {Unlimited},
            size : Sizes \cup {Unlimited, Typed}, message : Messages \cup {0}]

Keyboards == {None, "property", "deal", "scope", "group", "price", "rooms", "size", "custom_price",
              "custom_size", "confirm", "menu"}
Shown == [keyboard : Keyboards, drawn : Session]
Acts == {None, "cancel", "everywhere", "done", "whole", "back", "confirm", "new", "text", "stop"}
Buttons ==
  {Plain(act) : act \in Acts} \cup Options("property", Properties) \cup Options("deal", Deals)
    \cup Options("group", Groups) \cup Options("toggle", UNION {Children[g] : g \in Groups})
    \cup Options("price", Prices) \cup Options("rooms", RoomCounts) \cup Options("size", Sizes)

TypeOK ==
  /\ session \in Session
  /\ message \in [Messages -> Shown]
  /\ handler \in [Handlers -> [pc : {"idle", "read", "save", "draw", "clear"}, button : Buttons,
                               message : Messages \cup {0}, copy : Session, shown : Shown]]
  /\ alerts \in Seq([saved : Session, shown : Session])
  /\ setups \in Nat /\ hurries \in 0..MaxHurries /\ restarts \in 0..MaxFaults
  /\ lost \in 0..MaxFaults

(* README: the wizard "selects ... canonical areas".  However many groups  *)
(* are opened, on however many messages and by however many handlers at    *)
(* once, the areas of a session, of a copy of it and of an alert are of    *)
(* one group, that which the keyboard was last drawn for.                  *)
AreasAreOneGroup ==
  /\ session.areas \subseteq KeysOf(session.group)
  /\ \A h \in Handlers : handler[h].copy.areas \subseteq KeysOf(handler[h].copy.group)
  /\ \A i \in DOMAIN alerts : alerts[i].saved.areas \subseteq KeysOf(alerts[i].saved.group)

(* The last step shows the settings for review, and Confirm saves an alert *)
(* with just these, for a user who waits for an answer before going on and *)
(* stays with one message; messages Telegram refuses to edit and restarts  *)
(* of the bot included.                                                    *)
ReviewedIsSaved ==
  hurries = 0 => \A i \in DOMAIN alerts : alerts[i].saved = alerts[i].shown

(* For such a user a setup ends in one alert at most: only when the answer *)
(* to a commit is lost can he confirm once more what he has confirmed.     *)
OneAlertPerSetup == hurries = 0 => Len(alerts) <= setups + lost
=============================================================================
