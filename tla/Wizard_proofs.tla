---------------------------- MODULE Wizard_proofs ----------------------------
(***************************************************************************)
(* Proofs about Wizard, for every menu of choices and areas, any number of *)
(* messages and handlers, and every bound.                                 *)
(***************************************************************************)
EXTENDS Wizard, TLAPS

(* The parts of the inductive invariant.  A keyboard of areas is that of a *)
(* group.                                                                  *)
GroupIsShown ==
  /\ \A m \in Messages : message[m].keyboard = "group" => message[m].drawn.group \in Groups
  /\ \A h \in Handlers : handler[h].shown.keyboard = "group" => handler[h].shown.drawn.group \in Groups

(* As long as the user waits there is one handler at a time ...            *)
OneAtATime == hurries = 0 => \A g, h \in Running : g = h

(* ... the session is there until its alert is saved, and is that of the   *)
(* message the button was on ...                                           *)
Presses(h) == handler[h].pc \in {"read", "save"}
HandlerKnows(h) ==
  /\ handler[h].pc = "save" /\ handler[h].button.act # "new" =>
       session # NoSession /\ handler[h].copy = session
  /\ Presses(h) /\ handler[h].message # 0 /\ session # NoSession =>
       session.message = handler[h].message
  /\ Presses(h) /\ handler[h].button.act \in Steps \ {"text"} =>
       handler[h].message \in Messages /\ message[handler[h].message].keyboard # "confirm"
  /\ Presses(h) /\ handler[h].button.act = "confirm" =>
       /\ handler[h].message \in Messages /\ handler[h].shown = message[handler[h].message]
       /\ handler[h].shown.keyboard = "confirm"
  /\ handler[h].pc = "save" /\ handler[h].button.act = "new" =>
       handler[h].copy.message \in Messages /\ message[handler[h].copy.message].keyboard = "property"

(* ... and a review, on the message or on its way there, is of the session.*)
Reviews(shown) ==
  shown.keyboard = "confirm" => session.stage = "confirm" /\ shown.drawn = Settings(session)
ReviewIsCurrent ==
  session # NoSession =>
    /\ session.message \in Messages => Reviews(message[session.message])
    /\ \A h \in Handlers : handler[h].pc = "draw" /\ handler[h].message = session.message =>
         Reviews(handler[h].shown)

SetupsCover ==
  /\ Len(alerts) <= setups + lost
  /\ session # NoSession => Len(alerts) < setups + lost \/ \E h \in Handlers : handler[h].pc = "clear"

PatientUser ==
  hurries = 0 => ReviewIsCurrent /\ SetupsCover /\ \A h \in Handlers : HandlerKnows(h)

IInv == /\ GroupIsShown /\ AreasAreOneGroup /\ OneAtATime /\ PatientUser
        /\ ReviewedIsSaved

-----------------------------------------------------------------------------
(* Sessions.                                                               *)
HandlerState ==
  [pc : {"idle", "read", "save", "draw", "clear"}, button : Buttons,
   message : Messages \cup {0}, copy : Session, shown : Shown]

LEMMA Values ==
  /\ NoSession \in Session /\ NoSession.areas = {} /\ NoSession.stage = None /\ NoSession.group = None
  /\ Fresh \in Session /\ Fresh.areas = {} /\ Fresh.stage = "property"
  BY DEF NoSession, Fresh, Session, None

LEMMA ScreenValues ==
  /\ Unsent \in Shown /\ Unsent.keyboard = None
  /\ Menu \in Shown /\ Menu.keyboard = "menu"
  BY Values DEF Unsent, Menu, Shown, Keyboards, None

LEMMA IdleValues ==
  /\ Idle \in HandlerState /\ Idle.pc = "idle" /\ Idle.copy.areas = {} /\ Idle.copy = NoSession
  /\ Idle.shown.keyboard = None
<1>1. Button(None, None) \in Buttons
  BY DEF Buttons, Acts, Plain
<1>. QED
  BY <1>1, Values, ScreenValues DEF Idle, HandlerState

(* What a session is after a button, and what is drawn of it.              *)
InGroup(s) == s.areas \subseteq KeysOf(s.group)

LEMMA SettingsFacts ==
  ASSUME NEW s \in Session
  PROVE  Settings(s) \in Session /\ \A m \in Messages \cup {0} : [s EXCEPT !.message = m] \in Session
  BY DEF Settings, Session

LEMMA AreasFacts ==
  ASSUME NEW s \in Session, NEW A \in SUBSET KeysOf(s.group)
  PROVE  A \in SUBSET UNION {KeysOf(g) : g \in Groups}
<1>1. s.group \in Groups \cup {None}
  BY DEF Session
<1>2. CASE s.group = None
  BY <1>2 DEF KeysOf
<1>3. CASE s.group \in Groups
  BY <1>3
<1>. QED
  BY <1>1, <1>2, <1>3

LEMMA ButtonFacts ==
  ASSUME NEW b \in Buttons
  PROVE  /\ b.act = "property" => b.arg \in Properties
         /\ b.act = "deal" => b.arg \in Deals
         /\ b.act = "group" => b.arg \in Groups
         /\ b.act = "price" => b.arg \in Prices
         /\ b.act = "rooms" => b.arg \in RoomCounts
         /\ b.act = "size" => b.arg \in Sizes
<1>. DEFINE All(act, S) == b.act = act /\ b.arg \in S
<1>1. \/ b.act \in Acts \/ All("property", Properties) \/ All("deal", Deals) \/ All("group", Groups)
      \/ b.act = "toggle" \/ All("price", Prices) \/ All("rooms", RoomCounts) \/ All("size", Sizes)
  BY DEF Buttons, Plain, Options, Button
<1>. QED
  BY <1>1 DEF Acts, None

(* A session takes another choice.                                         *)
Becomes(s, t, A, g, st) ==
  t \in Session /\ t.areas = A /\ t.group = g /\ t.stage = st /\ t.message = s.message

LEMMA ChoiceFacts ==
  ASSUME NEW s \in Session, NEW st \in {"deal", "areas", "price", "custom_price", "rooms", "size",
                                                  "custom_size", "confirm"}
  PROVE  /\ \A v \in Properties : Becomes(s, [s EXCEPT !.property = v, !.stage = st], s.areas, s.group, st)
         /\ \A v \in Deals : Becomes(s, [s EXCEPT !.deal = v, !.stage = st], s.areas, s.group, st)
         /\ \A v \in Prices \cup {Typed} : Becomes(s, [s EXCEPT !.price = v, !.stage = st], s.areas, s.group, st)
         /\ \A v \in RoomCounts : Becomes(s, [s EXCEPT !.rooms = v, !.stage = st], s.areas, s.group, st)
         /\ \A v \in Sizes \cup {Typed} : Becomes(s, [s EXCEPT !.size = v, !.stage = st], s.areas, s.group, st)
         /\ \A A \in SUBSET UNION {KeysOf(g) : g \in Groups} :
              Becomes(s, [s EXCEPT !.areas = A, !.stage = st], A, s.group, st)
              /\ Becomes(s, [s EXCEPT !.areas = A], A, s.group, s.stage)
         /\ \A g \in Groups : Becomes(s, [s EXCEPT !.group = g, !.areas = {}, !.stage = st], {}, g, st)
         /\ Becomes(s, [s EXCEPT !.stage = st], s.areas, s.group, st)
<1>. DEFINE keys == UNION {KeysOf(g) : g \in Groups}
<1>. HIDE DEF keys
<1>1. Session = [stage : {None, "property", "deal", "areas", "price", "custom_price", "rooms", "size",
                     "custom_size", "confirm"},
            property : Properties \cup {None}, deal : Deals \cup {None},
            group : Groups \cup {None}, areas : SUBSET keys,
            price : Prices \cup {Unlimited, Typed}, rooms : RoomCounts \cup {Unlimited},
            size : Sizes \cup {Unlimited, Typed}, message : Messages \cup {0}]
  BY DEF Session, keys
<1>2. \A v \in Properties : Becomes(s, [s EXCEPT !.property = v, !.stage = st], s.areas, s.group, st)
  BY <1>1 DEF Becomes
<1>3. \A v \in Deals : Becomes(s, [s EXCEPT !.deal = v, !.stage = st], s.areas, s.group, st)
  BY <1>1 DEF Becomes
<1>4. \A v \in Prices \cup {Typed} : Becomes(s, [s EXCEPT !.price = v, !.stage = st], s.areas, s.group, st)
  BY <1>1 DEF Becomes
<1>5. \A v \in RoomCounts : Becomes(s, [s EXCEPT !.rooms = v, !.stage = st], s.areas, s.group, st)
  BY <1>1 DEF Becomes
<1>6. \A v \in Sizes \cup {Typed} : Becomes(s, [s EXCEPT !.size = v, !.stage = st], s.areas, s.group, st)
  BY <1>1 DEF Becomes
<1>7. \A A \in SUBSET keys : Becomes(s, [s EXCEPT !.areas = A, !.stage = st], A, s.group, st)
              /\ Becomes(s, [s EXCEPT !.areas = A], A, s.group, s.stage)
  BY <1>1 DEF Becomes
<1>8. \A g \in Groups : Becomes(s, [s EXCEPT !.group = g, !.areas = {}, !.stage = st], {}, g, st)
  BY <1>1 DEF Becomes
<1>9. Becomes(s, [s EXCEPT !.stage = st], s.areas, s.group, st)
  BY <1>1 DEF Becomes
<1>. QED
  BY <1>2, <1>3, <1>4, <1>5, <1>6, <1>7, <1>8, <1>9 DEF keys

LEMMA AfterFacts ==
  ASSUME NEW s \in Session, InGroup(s), NEW b \in Buttons, b.act \in Steps, ~Ignored(s, b)
  PROVE  /\ After(s, b) \in Session /\ InGroup(After(s, b))
         /\ After(s, b).message = s.message
         /\ b.act # "toggle" => After(s, b).stage # None
         /\ b.act \in {"group", "toggle"} => After(s, b).group \in Groups
         /\ b.act = "toggle" => After(s, b).stage = s.stage
         /\ b.act # "toggle" /\ After(s, b).stage = "areas" => b.act \in {"deal", "group"}
<1>. DEFINE t == After(s, b)
<1>0. s.group \in Groups \cup {None}
  BY DEF Session
<1>1. CASE b.act = "property"
  <2>1. t = [s EXCEPT !.property = b.arg, !.stage = "deal"]
    BY <1>1 DEF After
  <2>2. Becomes(s, t, s.areas, s.group, "deal")
    BY <1>1, <2>1, ChoiceFacts, ButtonFacts
  <2>. QED
    BY <1>1, <2>2 DEF InGroup, None, Becomes
<1>2. CASE b.act = "deal"
  <2>1. t = [s EXCEPT !.deal = b.arg, !.stage = "areas"]
    BY <1>2 DEF After
  <2>2. Becomes(s, t, s.areas, s.group, "areas")
    BY <1>2, <2>1, ChoiceFacts, ButtonFacts
  <2>. QED
    BY <1>2, <2>2 DEF InGroup, None, Becomes
<1>3. CASE b.act = "everywhere"
  <2>1. t = [s EXCEPT !.areas = {}, !.stage = "price"]
    BY <1>3 DEF After
  <2>2. Becomes(s, t, {}, s.group, "price")
    BY <1>3, <2>1, ChoiceFacts
  <2>. QED
    BY <1>3, <2>2 DEF InGroup, None, Becomes
<1>4. CASE b.act = "group"
  <2>1. t = [s EXCEPT !.group = b.arg, !.areas = {}, !.stage = "areas"] /\ b.arg \in Groups
    BY <1>4, ButtonFacts DEF After, OpenAreaGroup
  <2>a. \A g \in Groups : Becomes(s, [s EXCEPT !.group = g, !.areas = {}, !.stage = "areas"], {}, g, "areas")
    BY ChoiceFacts
  <2>2. Becomes(s, t, {}, b.arg, "areas")
    BY <2>1, <2>a
  <2>. QED
    BY <1>4, <2>1, <2>2 DEF InGroup, None, Becomes
<1>5. CASE b.act = "toggle"
  <2>. DEFINE A == IF b.arg \in s.areas THEN s.areas \ {b.arg} ELSE s.areas \cup {b.arg}
  <2>1. t = [s EXCEPT !.areas = A]
    BY <1>5 DEF After, ToggleArea
  <2>2. s.group # None /\ b.arg \in Children[s.group] /\ A \subseteq KeysOf(s.group)
    BY <1>5 DEF Ignored, KeysOf, InGroup
  <2>. HIDE DEF A
  <2>3. A \in SUBSET UNION {KeysOf(g) : g \in Groups}
    BY <2>2, AreasFacts
  <2>4. Becomes(s, t, A, s.group, s.stage)
    BY <2>1, <2>3, ChoiceFacts
  <2>. QED
    BY <1>0, <1>5, <2>2, <2>4 DEF InGroup, Becomes
<1>6. CASE b.act = "whole"
  <2>1. t = [s EXCEPT !.areas = {Parent[s.group]}, !.stage = "price"]
    BY <1>6 DEF After
  <2>2. s.group # None /\ Parent[s.group] # None
    BY <1>6 DEF Ignored
  <2>3. {Parent[s.group]} \subseteq KeysOf(s.group)
    BY <2>2 DEF KeysOf
  <2>4. {Parent[s.group]} \in SUBSET UNION {KeysOf(g) : g \in Groups}
    BY <2>3, AreasFacts
  <2>5. Becomes(s, t, {Parent[s.group]}, s.group, "price")
    BY <2>1, <2>4, ChoiceFacts
  <2>. QED
    BY <1>6, <2>3, <2>5 DEF InGroup, None, Becomes
<1>7. CASE b.act = "done"
  <2>1. t = [s EXCEPT !.stage = "price"]
    BY <1>7 DEF After
  <2>2. Becomes(s, t, s.areas, s.group, "price")
    BY <2>1, ChoiceFacts
  <2>. QED
    BY <1>7, <2>2 DEF InGroup, None, Becomes
<1>8. CASE b.act = "price"
  <2>1. t = [s EXCEPT !.stage = "custom_price"] \/ t = [s EXCEPT !.price = b.arg, !.stage = "rooms"]
    BY <1>8 DEF After, Priced
  <2>2. Becomes(s, t, s.areas, s.group, "custom_price") \/ Becomes(s, t, s.areas, s.group, "rooms")
    BY <1>8, <2>1, ChoiceFacts, ButtonFacts
  <2>. QED
    BY <1>8, <2>2 DEF InGroup, None, Becomes
<1>9. CASE b.act = "rooms"
  <2>1. t = [s EXCEPT !.rooms = b.arg, !.stage = "size"]
    BY <1>9 DEF After
  <2>2. Becomes(s, t, s.areas, s.group, "size")
    BY <1>9, <2>1, ChoiceFacts, ButtonFacts
  <2>. QED
    BY <1>9, <2>2 DEF InGroup, None, Becomes
<1>10. CASE b.act = "size"
  <2>1. t = [s EXCEPT !.stage = "custom_size"] \/ t = [s EXCEPT !.size = b.arg, !.stage = "confirm"]
    BY <1>10 DEF After, Sized
  <2>a. Becomes(s, [s EXCEPT !.stage = "custom_size"], s.areas, s.group, "custom_size")
    BY ChoiceFacts
  <2>b. \A v \in Sizes : Becomes(s, [s EXCEPT !.size = v, !.stage = "confirm"], s.areas, s.group, "confirm")
    BY ChoiceFacts
  <2>2. Becomes(s, t, s.areas, s.group, "custom_size") \/ Becomes(s, t, s.areas, s.group, "confirm")
    BY <1>10, <2>1, <2>a, <2>b, ButtonFacts
  <2>. QED
    BY <1>10, <2>2 DEF InGroup, None, Becomes
<1>11. CASE b.act = "text"
  <2>1. t = [s EXCEPT !.price = Typed, !.stage = "rooms"] \/ t = [s EXCEPT !.size = Typed, !.stage = "confirm"]
    BY <1>11 DEF After, TypedRange
  <2>a. Becomes(s, [s EXCEPT !.price = Typed, !.stage = "rooms"], s.areas, s.group, "rooms")
    BY ChoiceFacts
  <2>b. Becomes(s, [s EXCEPT !.size = Typed, !.stage = "confirm"], s.areas, s.group, "confirm")
    BY ChoiceFacts
  <2>2. Becomes(s, t, s.areas, s.group, "rooms") \/ Becomes(s, t, s.areas, s.group, "confirm")
    BY <2>1, <2>a, <2>b
  <2>. QED
    BY <1>11, <2>2 DEF InGroup, None, Becomes
<1>12. b.act # "back"
  BY DEF Ignored
<1>. QED
  BY <1>1, <1>2, <1>3, <1>4, <1>5, <1>6, <1>7, <1>8, <1>9, <1>10, <1>11, <1>12 DEF Steps

-----------------------------------------------------------------------------
LEMMA InitIInv == Init => TypeOK /\ IInv
<1>. SUFFICES ASSUME Init PROVE TypeOK /\ IInv
  OBVIOUS
<1>1. TypeOK
  <2>1. handler \in [Handlers -> HandlerState] /\ message \in [Messages -> Shown] /\ session \in Session
    BY Values, ScreenValues, IdleValues DEF Init
  <2>2. /\ setups \in Nat /\ hurries \in 0..MaxHurries /\ restarts \in 0..MaxFaults
        /\ lost \in 0..MaxFaults
    BY WizardBoundsAssumption DEF Init
  <2>3. alerts \in Seq([saved : Session, shown : Session])
    BY DEF Init
  <2>. QED
    BY <2>1, <2>2, <2>3 DEF TypeOK, HandlerState
<1>2. GroupIsShown
  BY ScreenValues, IdleValues DEF Init, GroupIsShown, None
<1>3. AreasAreOneGroup
  BY Values, IdleValues DEF Init, AreasAreOneGroup
<1>4. OneAtATime
  BY DEF Init, OneAtATime, Running
<1>5. ReviewedIsSaved
  BY DEF Init, ReviewedIsSaved
<1>6. PatientUser
  <2>1. session = NoSession /\ Len(alerts) <= setups + lost /\ \A h \in Handlers : handler[h].pc = "idle"
    BY IdleValues DEF Init
  <2>. QED
    BY <2>1 DEF PatientUser, ReviewIsCurrent, SetupsCover, HandlerKnows, Presses
<1>. QED
  BY <1>1, <1>2, <1>3, <1>4, <1>5, <1>6 DEF IInv

(* A handler takes a step, and what it leaves is well formed.              *)
LEMMA HandlerSteps ==
  ASSUME TypeOK, IInv, NEW h \in Handlers, handler[h].pc # "idle",
         NEW x \in HandlerState, handler' = [handler EXCEPT ![h] = x], UNCHANGED <<hurries, restarts>>,
         session' \in Session, InGroup(session'), InGroup(x.copy),
         message' \in [Messages -> Shown],
         \A m \in Messages : message'[m].keyboard = "group" => message'[m].drawn.group \in Groups,
         x.shown.keyboard = "group" => x.shown.drawn.group \in Groups,
         alerts' \in Seq([saved : Session, shown : Session]),
         \A i \in DOMAIN alerts' : InGroup(alerts'[i].saved),
         setups' \in Nat, lost' \in 0..MaxFaults
  PROVE  /\ TypeOK' /\ GroupIsShown' /\ AreasAreOneGroup' /\ OneAtATime'
         /\ handler'[h] = x
         /\ hurries = 0 => \A g \in Handlers \ {h} : handler[g].pc = "idle" /\ handler'[g].pc = "idle"
         /\ (hurries = 0 => ReviewIsCurrent' /\ SetupsCover' /\ HandlerKnows(h)') => PatientUser'
<1>1. handler'[h] = x /\ \A g \in Handlers \ {h} : handler'[g] = handler[g]
  BY DEF TypeOK
<1>2. handler' \in [Handlers -> HandlerState]
  BY DEF TypeOK, HandlerState
<1>3. TypeOK'
  BY <1>2 DEF TypeOK, HandlerState
<1>4. GroupIsShown'
  BY <1>1 DEF IInv, GroupIsShown
<1>5. AreasAreOneGroup'
  BY <1>1 DEF IInv, AreasAreOneGroup, InGroup
<1>6. h \in Running
  BY IdleValues DEF Running
<1>7. hurries = 0 => \A g \in Handlers \ {h} : handler[g] = Idle
  BY <1>6 DEF IInv, OneAtATime, Running
<1>8. OneAtATime'
  BY <1>1, <1>7 DEF OneAtATime, Running
<1>9. hurries = 0 => \A g \in Handlers \ {h} : handler[g].pc = "idle" /\ handler'[g].pc = "idle"
  BY <1>1, <1>7, IdleValues
<1>10. ASSUME hurries = 0 => ReviewIsCurrent' /\ SetupsCover' /\ HandlerKnows(h)'
       PROVE  PatientUser'
  <2>1. ASSUME hurries = 0, NEW g \in Handlers \ {h} PROVE HandlerKnows(g)'
    BY <1>9, <2>1 DEF HandlerKnows, Presses
  <2>. QED
    BY <1>10, <2>1 DEF PatientUser
<1>. QED
  BY <1>1, <1>3, <1>4, <1>5, <1>8, <1>9, <1>10

(* What holds of a handler at work.                                        *)
LEMMA AtWork ==
  ASSUME TypeOK, IInv, NEW h \in Handlers
  PROVE  /\ handler[h] \in HandlerState /\ handler[h].button \in Buttons
         /\ handler[h].copy \in Session /\ InGroup(handler[h].copy)
         /\ handler[h].shown \in Shown /\ handler[h].message \in Messages \cup {0}
         /\ handler[h].shown.keyboard = "group" => handler[h].shown.drawn.group \in Groups
         /\ session \in Session /\ InGroup(session)
         /\ message \in [Messages -> Shown]
         /\ \A m \in Messages : message[m].keyboard = "group" => message[m].drawn.group \in Groups
         /\ alerts \in Seq([saved : Session, shown : Session]) /\ Len(alerts) \in Nat
         /\ \A i \in DOMAIN alerts : InGroup(alerts[i].saved)
         /\ setups \in Nat /\ lost \in 0..MaxFaults /\ lost \in Nat
         /\ hurries = 0 => ReviewIsCurrent /\ SetupsCover /\ HandlerKnows(h)
<1>1. handler[h] \in HandlerState /\ session \in Session /\ message \in [Messages -> Shown] /\ setups \in Nat
      /\ lost \in 0..MaxFaults /\ lost \in Nat
  BY WizardBoundsAssumption DEF TypeOK, HandlerState
<1>2. alerts \in Seq([saved : Session, shown : Session])
  BY DEF TypeOK
<1>3. Len(alerts) \in Nat
  BY <1>2
<1>4. /\ InGroup(handler[h].copy) /\ InGroup(session)
      /\ \A i \in DOMAIN alerts : InGroup(alerts[i].saved)
  BY DEF IInv, AreasAreOneGroup, InGroup
<1>. QED
  BY <1>1, <1>2, <1>3, <1>4 DEF IInv, GroupIsShown, PatientUser, HandlerState

(* A handler goes on with a session of its own.                            *)
Takes(r, c) == [r EXCEPT !.pc = "save", !.copy = c]
LEMMA GoesOn ==
  ASSUME NEW r \in HandlerState, NEW c \in Session
  PROVE  /\ Takes(r, c) \in HandlerState /\ Takes(r, c).pc = "save" /\ Takes(r, c).copy = c
         /\ Takes(r, c).button = r.button /\ Takes(r, c).message = r.message /\ Takes(r, c).shown = r.shown
  BY DEF HandlerState, Takes

LEMMA ReadInv ==
  ASSUME TypeOK, IInv, NEW h \in Handlers, Read(h)
  PROVE  TypeOK' /\ IInv'
<1>. DEFINE c == [session EXCEPT !.message = IF handler[h].message = 0 THEN session.message
                                           ELSE handler[h].message]
            y == Takes(handler[h], c)
            x == IF session = NoSession THEN Idle ELSE y
<1>. USE AtWork
<1>1. /\ UNCHANGED <<session, message, alerts, setups, hurries, restarts, lost>>
      /\ handler[h].pc = "read" /\ handler[h].button.act # "new"
  BY DEF Read
<1>2. c \in Session /\ c.areas = session.areas /\ c.group = session.group
  <2>1. \A n \in Messages \cup {0} : [session EXCEPT !.message = n] \in Session
    BY SettingsFacts
  <2>2. (IF handler[h].message = 0 THEN session.message ELSE handler[h].message) \in Messages \cup {0}
    BY DEF Session
  <2>3. c \in Session
    BY <2>1, <2>2
  <2>. QED
    BY <2>3 DEF Session
<1>3. /\ y \in HandlerState /\ y.pc = "save" /\ y.copy = c /\ y.button = handler[h].button
      /\ y.message = handler[h].message /\ y.shown = handler[h].shown
  BY <1>2, GoesOn
<1>4. handler' = [handler EXCEPT ![h] = x]
  <2>1. [handler[h] EXCEPT !.pc = "save", !.copy = c] = y
    BY DEF Takes
  <2>2. handler' = IF session = NoSession THEN [handler EXCEPT ![h] = Idle]
                   ELSE [handler EXCEPT ![h] = [handler[h] EXCEPT !.pc = "save", !.copy = c]]
    BY DEF Read, Ended
  <2>. HIDE DEF y
  <2>. QED
    BY <2>1, <2>2
<1>5. x \in HandlerState /\ InGroup(x.copy) /\ (x.shown.keyboard = "group" => x.shown.drawn.group \in Groups)
  BY <1>2, <1>3, IdleValues, Values, ScreenValues DEF InGroup, None
<1>6. session # NoSession /\ hurries = 0 => c = session
  <2>. SUFFICES ASSUME session # NoSession, hurries = 0 PROVE c = session
    OBVIOUS
  <2>1. handler[h].message = 0 \/ handler[h].message = session.message
    BY <1>1 DEF HandlerKnows, Presses
  <2>. QED
    BY <2>1 DEF Session
<1>. HIDE DEF c
<1>7. /\ TypeOK' /\ GroupIsShown' /\ AreasAreOneGroup' /\ OneAtATime' /\ handler'[h] = x
      /\ hurries = 0 => \A g \in Handlers \ {h} : handler[g].pc = "idle" /\ handler'[g].pc = "idle"
      /\ (hurries = 0 => ReviewIsCurrent' /\ SetupsCover' /\ HandlerKnows(h)') => PatientUser'
  <2>. HIDE DEF x
  <2>. QED
    BY <1>1, <1>4, <1>5, HandlerSteps
<1>8. ASSUME hurries = 0 PROVE ReviewIsCurrent' /\ SetupsCover' /\ HandlerKnows(h)'
  <2>1. \A g \in Handlers : handler[g].pc # "draw" /\ handler'[g].pc # "draw"
                           /\ handler[g].pc # "clear" /\ handler'[g].pc # "clear"
    BY <1>1, <1>3, <1>7, <1>8, IdleValues
  <2>2. ReviewIsCurrent'
    BY <1>1, <1>8, <2>1 DEF ReviewIsCurrent, Reviews
  <2>3. SetupsCover'
    BY <1>1, <1>8, <2>1 DEF SetupsCover
  <2>4. HandlerKnows(h)'
    BY <1>1, <1>3, <1>6, <1>7, <1>8, IdleValues DEF HandlerKnows, Presses
  <2>. QED
    BY <2>2, <2>3, <2>4
<1>9. ReviewedIsSaved'
  BY <1>1 DEF IInv, ReviewedIsSaved
<1>. QED
  BY <1>7, <1>8, <1>9 DEF IInv

(* The session is cleared, or an alert is; the menu is to be drawn.        *)
LEMMA DrawsFacts ==
  ASSUME NEW m \in Messages \cup {0}, NEW shown \in Shown
  PROVE  /\ Draws(m, shown) \in HandlerState /\ Draws(m, shown).pc = "draw"
         /\ InGroup(Draws(m, shown).copy) /\ Draws(m, shown).message = m /\ Draws(m, shown).shown = shown
<1>1. Draws(m, shown) \in HandlerState
  BY IdleValues DEF HandlerState, Draws
<1>2. /\ Draws(m, shown).pc = "draw" /\ Draws(m, shown).copy = NoSession
      /\ Draws(m, shown).message = m /\ Draws(m, shown).shown = shown
  BY DEF Draws, Idle
<1>. QED
  BY <1>1, <1>2, Values DEF InGroup

LEMMA ClearInv ==
  ASSUME TypeOK, IInv, NEW h \in Handlers, Cancel(h) \/ ClearState(h)
  PROVE  TypeOK' /\ IInv'
<1>. DEFINE x == Draws(handler[h].message, Menu)
<1>. USE AtWork
<1>1. /\ UNCHANGED <<message, alerts, setups, hurries, restarts, lost>> /\ session' = NoSession
      /\ handler[h].pc # "idle" /\ handler' = [handler EXCEPT ![h] = x]
  BY DEF Cancel, ClearState, At
<1>2. session' \in Session /\ InGroup(session')
  BY <1>1, Values DEF InGroup
<1>3. x \in HandlerState /\ InGroup(x.copy) /\ x.shown.keyboard # "group" /\ x.pc = "draw"
  <2>1. handler[h].message \in Messages \cup {0} /\ Menu \in Shown /\ Menu.keyboard = "menu"
    BY ScreenValues
  <2>. QED
    BY <2>1, DrawsFacts
<1>4. /\ TypeOK' /\ GroupIsShown' /\ AreasAreOneGroup' /\ OneAtATime' /\ handler'[h] = x
      /\ (hurries = 0 => ReviewIsCurrent' /\ SetupsCover' /\ HandlerKnows(h)') => PatientUser'
  <2>. HIDE DEF x
  <2>. QED
    BY <1>1, <1>2, <1>3, HandlerSteps
<1>5. ASSUME hurries = 0 PROVE ReviewIsCurrent' /\ SetupsCover' /\ HandlerKnows(h)'
  BY <1>1, <1>3, <1>4, <1>5 DEF ReviewIsCurrent, SetupsCover, HandlerKnows, Presses
<1>6. ReviewedIsSaved'
  BY <1>1 DEF IInv, ReviewedIsSaved
<1>. QED
  BY <1>4, <1>5, <1>6 DEF IInv

(* The step a session is drawn with.                                       *)
LEMMA DrawnFacts ==
  ASSUME NEW s \in Session, NEW act, s.stage = "areas" /\ act # "deal" => s.group \in Groups
  PROVE  /\ Drawn(act, s) \in Shown
         /\ Drawn(act, s).keyboard = "group" => Drawn(act, s).drawn.group \in Groups
         /\ Drawn(act, s).keyboard = "confirm" => s.stage = "confirm" /\ Drawn(act, s).drawn = Settings(s)
<1>1. s.stage \in {None, "property", "deal", "areas", "price", "custom_price", "rooms", "size", "custom_size", "confirm"}
  BY DEF Session
<1>2. CASE s.stage = "areas" /\ act # "deal"
  <2>. DEFINE d == [NoSession EXCEPT !.group = s.group]
  <2>1. d \in Session /\ d.group = s.group
    BY <1>2, Values DEF Session
  <2>. HIDE DEF d
  <2>2. Drawn(act, s) = [keyboard |-> "group", drawn |-> d]
    BY <1>2 DEF Drawn, d
  <2>. QED
    BY <1>2, <2>1, <2>2 DEF Shown, Keyboards
<1>3. CASE s.stage = "areas" /\ act = "deal"
  <2>1. Drawn(act, s) = [keyboard |-> "scope", drawn |-> NoSession]
    BY <1>3 DEF Drawn
  <2>. QED
    BY <2>1, Values DEF Shown, Keyboards
<1>4. CASE s.stage = "confirm"
  <2>1. Drawn(act, s) = [keyboard |-> "confirm", drawn |-> Settings(s)]
    BY <1>4 DEF Drawn
  <2>. QED
    BY <1>4, <2>1, SettingsFacts DEF Shown, Keyboards
<1>5. CASE s.stage \notin {"areas", "confirm"}
  <2>1. Drawn(act, s) = [keyboard |-> s.stage, drawn |-> NoSession]
    BY <1>5 DEF Drawn
  <2>. QED
    BY <1>1, <1>5, <2>1, Values DEF Shown, Keyboards, None
<1>. QED
  BY <1>2, <1>3, <1>4, <1>5

(* A handler that ends without a trace.                                    *)
LEMMA EndsInv ==
  ASSUME TypeOK, IInv, NEW h \in Handlers, handler[h].pc \in {"read", "save"},
         UNCHANGED <<session, message, alerts, setups, hurries, restarts, lost>>, handler' = Ended(h)
  PROVE  TypeOK' /\ IInv'
<1>. USE AtWork
<1>1. handler' = [handler EXCEPT ![h] = Idle] /\ handler[h].pc # "idle"
  BY DEF Ended
<1>2. Idle \in HandlerState /\ InGroup(Idle.copy) /\ Idle.shown.keyboard # "group"
  BY IdleValues DEF InGroup, None
<1>3. /\ TypeOK' /\ GroupIsShown' /\ AreasAreOneGroup' /\ OneAtATime' /\ handler'[h] = Idle
      /\ hurries = 0 => \A g \in Handlers \ {h} : handler[g].pc = "idle" /\ handler'[g].pc = "idle"
      /\ (hurries = 0 => ReviewIsCurrent' /\ SetupsCover' /\ HandlerKnows(h)') => PatientUser'
  BY <1>1, <1>2, HandlerSteps
<1>4. ASSUME hurries = 0 PROVE ReviewIsCurrent' /\ SetupsCover' /\ HandlerKnows(h)'
  <2>1. \A g \in Handlers : handler[g].pc # "draw" /\ handler'[g].pc # "draw"
                           /\ handler[g].pc # "clear" /\ handler'[g].pc # "clear"
    BY <1>3, <1>4, IdleValues
  <2>2. ReviewIsCurrent'
    BY <1>4, <2>1 DEF ReviewIsCurrent, Reviews
  <2>3. SetupsCover'
    BY <1>4, <2>1 DEF SetupsCover
  <2>4. HandlerKnows(h)'
    BY <1>3, IdleValues DEF HandlerKnows, Presses
  <2>. QED
    BY <2>2, <2>3, <2>4
<1>5. ReviewedIsSaved'
  BY DEF IInv, ReviewedIsSaved
<1>. QED
  BY <1>3, <1>4, <1>5 DEF IInv

LEMMA SaveInv ==
  ASSUME TypeOK, IInv, NEW h \in Handlers, Save(h)
  PROVE  TypeOK' /\ IInv'
<1>. DEFINE s == handler[h].copy
            b == handler[h].button
            t == After(s, b)
            x == Draws(s.message, Drawn(b.act, t))
<1>. USE AtWork
<1>1. /\ UNCHANGED <<message, alerts, setups, hurries, restarts, lost>>
      /\ handler[h].pc = "save" /\ b.act \in Steps /\ b.act # "new"
      /\ \/ handler' = Ended(h) /\ session' = session
         \/ ~Ignored(s, b) /\ session' = t /\ handler' = [handler EXCEPT ![h] = x]
  BY DEF Save, At, SaveState, Steps
<1>2. CASE handler' = Ended(h) /\ session' = session
  BY <1>1, <1>2, EndsInv
<1>3. CASE ~Ignored(s, b) /\ session' = t /\ handler' = [handler EXCEPT ![h] = x]
  <2>1. /\ t \in Session /\ InGroup(t) /\ t.message = s.message
        /\ b.act # "toggle" => t.stage # None
        /\ b.act \in {"group", "toggle"} => t.group \in Groups
        /\ b.act = "toggle" => t.stage = s.stage
        /\ b.act # "toggle" /\ t.stage = "areas" => b.act \in {"deal", "group"}
    BY <1>1, <1>3, AfterFacts
  <2>2. /\ Drawn(b.act, t) \in Shown
        /\ Drawn(b.act, t).keyboard = "group" => Drawn(b.act, t).drawn.group \in Groups
        /\ Drawn(b.act, t).keyboard = "confirm" => t.stage = "confirm" /\ Drawn(b.act, t).drawn = Settings(t)
    BY <2>1, DrawnFacts
  <2>3. s.message \in Messages \cup {0}
    BY DEF Session
  <2>. HIDE DEF s, b, t
  <2>4. x \in HandlerState /\ InGroup(x.copy) /\ x.pc = "draw" /\ x.message = s.message /\ x.shown = Drawn(b.act, t)
    BY <2>2, <2>3, DrawsFacts
  <2>. HIDE DEF x
  <2>5. /\ TypeOK' /\ GroupIsShown' /\ AreasAreOneGroup' /\ OneAtATime' /\ handler'[h] = x
        /\ hurries = 0 => \A g \in Handlers \ {h} : handler[g].pc = "idle" /\ handler'[g].pc = "idle"
        /\ (hurries = 0 => ReviewIsCurrent' /\ SetupsCover' /\ HandlerKnows(h)') => PatientUser'
    BY <1>1, <1>3, <2>1, <2>2, <2>4, HandlerSteps
  <2>6. ASSUME hurries = 0 PROVE ReviewIsCurrent' /\ SetupsCover' /\ HandlerKnows(h)'
    <3>1. session # NoSession /\ s = session
      BY <1>1, <2>6 DEF HandlerKnows, s, b
    <3>2. ASSUME session.message \in Messages, message[session.message].keyboard = "confirm" PROVE FALSE
      <4>1. session.stage = "confirm"
        BY <2>6, <3>1, <3>2 DEF ReviewIsCurrent, Reviews
      <4>2. b.act # "text"
        BY <1>3, <3>1, <4>1 DEF Ignored
      <4>3. handler[h].message \in Messages /\ message[handler[h].message].keyboard # "confirm"
        BY <1>1, <2>6, <4>2 DEF HandlerKnows, Presses, b
      <4>4. session.message = handler[h].message
        BY <1>1, <2>6, <3>1, <4>3, WizardBoundsAssumption DEF HandlerKnows, Presses
      <4>. QED
        BY <3>2, <4>3, <4>4
    <3>3. ReviewIsCurrent'
      BY <1>1, <1>3, <2>1, <2>2, <2>4, <2>5, <2>6, <3>1, <3>2 DEF ReviewIsCurrent, Reviews
    <3>4. \A g \in Handlers : handler[g].pc # "clear"
      BY <1>1, <2>5, <2>6
    <3>5. SetupsCover'
      BY <1>1, <2>6, <3>1, <3>4 DEF SetupsCover
    <3>6. HandlerKnows(h)'
      BY <2>4, <2>5 DEF HandlerKnows, Presses
    <3>. QED
      BY <3>3, <3>5, <3>6
  <2>7. ReviewedIsSaved'
    BY <1>1 DEF IInv, ReviewedIsSaved
  <2>. QED
    BY <2>5, <2>6, <2>7 DEF IInv
<1>. QED
  BY <1>1, <1>2, <1>3

LEMMA DrawInv ==
  ASSUME TypeOK, IInv, NEW h \in Handlers, Draw(h)
  PROVE  TypeOK' /\ IInv'
<1>. DEFINE r == handler[h]
<1>. USE AtWork
<1>1. /\ UNCHANGED <<session, alerts, setups, hurries, restarts, lost>> /\ r.pc = "draw"
      /\ handler' = [handler EXCEPT ![h] = Idle]
      /\ message' = message \/ (r.message # 0 /\ message' = [message EXCEPT ![r.message] = r.shown])
  BY DEF Draw, Ended
<1>2. Idle \in HandlerState /\ InGroup(Idle.copy) /\ Idle.shown.keyboard # "group"
  BY IdleValues DEF InGroup, None
<1>3. \A m \in Messages : message'[m] = message[m] \/ (m = r.message /\ message'[m] = r.shown)
  BY <1>1
<1>4. /\ message' \in [Messages -> Shown]
      /\ \A m \in Messages : message'[m].keyboard = "group" => message'[m].drawn.group \in Groups
  BY <1>1, <1>3
<1>. HIDE DEF r
<1>5. /\ TypeOK' /\ GroupIsShown' /\ AreasAreOneGroup' /\ OneAtATime' /\ handler'[h] = Idle
      /\ hurries = 0 => \A g \in Handlers \ {h} : handler[g].pc = "idle" /\ handler'[g].pc = "idle"
      /\ (hurries = 0 => ReviewIsCurrent' /\ SetupsCover' /\ HandlerKnows(h)') => PatientUser'
  BY <1>1, <1>2, <1>4, HandlerSteps DEF r
<1>6. ASSUME hurries = 0 PROVE ReviewIsCurrent' /\ SetupsCover' /\ HandlerKnows(h)'
  <2>1. \A g \in Handlers : handler'[g].pc = "idle" /\ handler[g].pc # "clear"
    BY <1>1, <1>5, <1>6, IdleValues DEF r
  <2>2. ASSUME session # NoSession, session.message \in Messages PROVE Reviews(message'[session.message])
    BY <1>1, <1>3, <1>6, <2>2 DEF ReviewIsCurrent, r
  <2>3. ReviewIsCurrent'
    BY <1>1, <2>1, <2>2 DEF ReviewIsCurrent, Reviews
  <2>4. SetupsCover'
    BY <1>1, <1>6, <2>1 DEF SetupsCover
  <2>5. HandlerKnows(h)'
    BY <2>1 DEF HandlerKnows, Presses
  <2>. QED
    BY <2>3, <2>4, <2>5
<1>7. ReviewedIsSaved'
  BY <1>1 DEF IInv, ReviewedIsSaved
<1>. QED
  BY <1>5, <1>6, <1>7 DEF IInv

LEMMA CreateInv ==
  ASSUME TypeOK, IInv, NEW h \in Handlers, CreateFilter(h)
  PROVE  TypeOK' /\ IInv'
<1>. DEFINE r == handler[h]
            e == [saved |-> Settings(r.copy), shown |-> r.shown.drawn]
            goes == [r EXCEPT !.pc = "clear"]
<1>. USE AtWork
<1>1. /\ UNCHANGED <<session, message, setups, hurries, restarts>>
      /\ r.pc = "save" /\ r.button.act = "confirm"
      /\ \/ handler' = Ended(h) /\ alerts' = alerts /\ lost' = lost
         \/ handler' = [handler EXCEPT ![h] = goes] /\ alerts' = Append(alerts, e) /\ lost' = lost
         \/ handler' = Ended(h) /\ alerts' = Append(alerts, e) /\ restarts + lost < MaxFaults /\ lost' = lost + 1
  BY DEF CreateFilter, At
<1>2. CASE handler' = Ended(h) /\ alerts' = alerts /\ lost' = lost
  BY <1>1, <1>2, EndsInv
<1>3. ASSUME NEW x \in HandlerState, handler' = [handler EXCEPT ![h] = x], alerts' = Append(alerts, e),
             InGroup(x.copy), x.shown.keyboard = "group" => x.shown.drawn.group \in Groups,
             lost' \in 0..MaxFaults,
             (x.pc = "clear" /\ lost' = lost) \/ (x.pc = "idle" /\ lost' = lost + 1)
      PROVE  TypeOK' /\ IInv'
  <2>2. e \in [saved : Session, shown : Session] /\ InGroup(e.saved)
    <3>1. Settings(r.copy) \in Session /\ r.shown.drawn \in Session
      BY SettingsFacts DEF Shown
    <3>2. Settings(r.copy).areas = r.copy.areas /\ Settings(r.copy).group = r.copy.group
      BY DEF Settings, Session
    <3>. QED
      BY <3>1, <3>2 DEF InGroup
  <2>3. e.saved = Settings(r.copy) /\ e.shown = r.shown.drawn
    OBVIOUS
  <2>. HIDE DEF r, e
  <2>4. /\ alerts' \in Seq([saved : Session, shown : Session]) /\ Len(alerts') = Len(alerts) + 1
        /\ \A i \in DOMAIN alerts' : (i \in DOMAIN alerts /\ alerts'[i] = alerts[i]) \/ alerts'[i] = e
    <3>. DEFINE Alert == [saved : Session, shown : Session]
    <3>1. alerts \in Seq(Alert) /\ e \in Alert
      BY <2>2
    <3>. HIDE DEF Alert
    <3>2. alerts' \in Seq(Alert) /\ Len(alerts') = Len(alerts) + 1
      BY <1>3, <3>1
    <3>3. \A i \in 1..(Len(alerts) + 1) : (i \in 1..Len(alerts) /\ alerts'[i] = alerts[i]) \/ alerts'[i] = e
      BY <1>3, <3>1
    <3>4. DOMAIN alerts' = 1..(Len(alerts) + 1) /\ DOMAIN alerts = 1..Len(alerts)
      BY <3>1, <3>2
    <3>. QED
      BY <3>2, <3>3, <3>4 DEF Alert
  <2>5. /\ TypeOK' /\ GroupIsShown' /\ AreasAreOneGroup' /\ OneAtATime' /\ handler'[h] = x
        /\ hurries = 0 => \A g \in Handlers \ {h} : handler[g].pc = "idle" /\ handler'[g].pc = "idle"
        /\ (hurries = 0 => ReviewIsCurrent' /\ SetupsCover' /\ HandlerKnows(h)') => PatientUser'
    <3>1. \A i \in DOMAIN alerts' : InGroup(alerts'[i].saved)
      BY <2>2, <2>4
    <3>2. handler[h].pc # "idle"
      BY <1>1 DEF r
    <3>. QED
      BY <1>1, <1>3, <2>4, <3>1, <3>2, HandlerSteps
  <2>6. ASSUME hurries = 0 PROVE ReviewIsCurrent' /\ SetupsCover' /\ HandlerKnows(h)' /\ e.saved = e.shown
    <3>1. session # NoSession /\ r.copy = session
      BY <1>1, <2>6 DEF HandlerKnows, r
    <3>2. /\ r.message \in Messages /\ r.shown = message[r.message] /\ r.shown.keyboard = "confirm"
          /\ session.message = r.message
      BY <1>1, <2>6, <3>1, WizardBoundsAssumption DEF HandlerKnows, Presses, r
    <3>3. r.shown.drawn = Settings(session)
      BY <2>6, <3>1, <3>2 DEF ReviewIsCurrent, Reviews
    <3>4. \A g \in Handlers : handler[g].pc # "clear" /\ handler'[g].pc # "draw"
      BY <1>1, <1>3, <2>5, <2>6 DEF r
    <3>5. ReviewIsCurrent'
      BY <1>1, <2>6, <3>4 DEF ReviewIsCurrent, Reviews
    <3>6. SetupsCover'
      <4>1. Len(alerts) < setups + lost /\ setups' = setups /\ Len(alerts) \in Nat
        BY <1>1, <2>6, <3>1, <3>4 DEF SetupsCover
      <4>2. CASE x.pc = "clear" /\ lost' = lost
        <5>1. Len(alerts') <= setups' + lost'
          BY <2>4, <4>1, <4>2
        <5>. QED
          BY <2>5, <4>2, <5>1 DEF SetupsCover
      <4>3. CASE x.pc = "idle" /\ lost' = lost + 1
        <5>1. Len(alerts') <= setups' + lost' /\ Len(alerts') < setups' + lost'
          BY <2>4, <4>1, <4>3
        <5>. QED
          BY <5>1 DEF SetupsCover
      <4>. QED
        BY <1>3, <4>2, <4>3
    <3>7. HandlerKnows(h)'
      BY <1>3, <2>5 DEF HandlerKnows, Presses
    <3>. QED
      BY <2>3, <3>1, <3>3, <3>5, <3>6, <3>7
  <2>7. ReviewedIsSaved'
    BY <1>1, <2>4, <2>6 DEF IInv, ReviewedIsSaved
  <2>. QED
    BY <2>5, <2>6, <2>7 DEF IInv
<1>4. goes \in HandlerState /\ goes.pc = "clear" /\ goes.copy = r.copy /\ goes.shown = r.shown
  BY DEF HandlerState
<1>5. Idle \in HandlerState /\ Idle.pc = "idle" /\ InGroup(Idle.copy) /\ Idle.shown.keyboard # "group"
  BY IdleValues DEF InGroup, None
<1>6. CASE handler' = [handler EXCEPT ![h] = goes] /\ alerts' = Append(alerts, e) /\ lost' = lost
  <2>1. InGroup(goes.copy) /\ (goes.shown.keyboard = "group" => goes.shown.drawn.group \in Groups)
    BY <1>4
  <2>. HIDE DEF goes, e
  <2>. QED
    BY <1>3, <1>4, <1>6, <2>1
<1>7. CASE handler' = Ended(h) /\ alerts' = Append(alerts, e) /\ restarts + lost < MaxFaults /\ lost' = lost + 1
  <2>1. lost' \in 0..MaxFaults /\ handler' = [handler EXCEPT ![h] = Idle]
    <3>1. restarts \in Nat /\ lost \in Nat /\ MaxFaults \in Nat
      BY WizardBoundsAssumption DEF TypeOK
    <3>2. lost' \in 0..MaxFaults
      BY <1>7, <3>1
    <3>. QED
      BY <1>7, <3>2 DEF Ended
  <2>. HIDE DEF e
  <2>. QED
    BY <1>3, <1>5, <1>7, <2>1
<1>. QED
  BY <1>1, <1>2, <1>6, <1>7

-----------------------------------------------------------------------------
(* A wizard is begun.                                                      *)
LEMMA StartDrawInv ==
  ASSUME TypeOK, IInv, NEW h \in Handlers, StartDraw(h)
  PROVE  TypeOK' /\ IInv'
<1>. DEFINE r == handler[h]
            first == [keyboard |-> "property", drawn |-> NoSession]
<1>. USE AtWork
<1>1. /\ UNCHANGED <<session, alerts, setups, hurries, restarts, lost>> /\ r.pc = "read" /\ r.button.act = "new"
      /\ \/ handler' = Ended(h) /\ message' = message
         \/ \E m \in IF r.message = 0 THEN NextMessage ELSE {r.message} :
              /\ message' = [message EXCEPT ![m] = first]
              /\ handler' = [handler EXCEPT ![h] = [r EXCEPT !.pc = "save", !.copy = [Fresh EXCEPT !.message = m]]]
  BY DEF StartDraw, At
<1>2. CASE handler' = Ended(h) /\ message' = message
  BY <1>1, <1>2, EndsInv
<1>3. ASSUME NEW m \in IF r.message = 0 THEN NextMessage ELSE {r.message},
             message' = [message EXCEPT ![m] = first],
             handler' = [handler EXCEPT ![h] = [r EXCEPT !.pc = "save", !.copy = [Fresh EXCEPT !.message = m]]]
      PROVE  TypeOK' /\ IInv'
  <2>. DEFINE c == [Fresh EXCEPT !.message = m]
              x == Takes(r, c)
  <2>1. m \in Messages
    BY DEF NextMessage
  <2>2. c \in Session /\ c.areas = {} /\ c.message = m
    <3>1. c \in Session
      BY <2>1, Values, SettingsFacts
    <3>. QED
      BY <3>1 DEF Fresh, Session
  <2>3. first \in Shown /\ first.keyboard = "property"
    BY Values DEF Shown, Keyboards
  <2>4. handler' = [handler EXCEPT ![h] = x]
    BY <1>3 DEF Takes
  <2>. HIDE DEF r, c, first
  <2>5. /\ x \in HandlerState /\ x.pc = "save" /\ x.copy = c /\ x.button = r.button
        /\ x.message = r.message /\ x.shown = r.shown
    BY <2>2, GoesOn DEF r
  <2>. HIDE DEF x
  <2>6. /\ \A n \in Messages : message'[n] = message[n] \/ message'[n] = first
        /\ message'[m] = first /\ message' \in [Messages -> Shown]
    BY <1>3, <2>1, <2>3
  <2>7. /\ TypeOK' /\ GroupIsShown' /\ AreasAreOneGroup' /\ OneAtATime' /\ handler'[h] = x
        /\ hurries = 0 => \A g \in Handlers \ {h} : handler[g].pc = "idle" /\ handler'[g].pc = "idle"
        /\ (hurries = 0 => ReviewIsCurrent' /\ SetupsCover' /\ HandlerKnows(h)') => PatientUser'
    <3>1. \A n \in Messages : message'[n].keyboard = "group" => message'[n].drawn.group \in Groups
      BY <2>3, <2>6
    <3>2. handler[h].pc # "idle" /\ InGroup(x.copy) /\ (x.shown.keyboard = "group" => x.shown.drawn.group \in Groups)
      BY <1>1, <2>2, <2>5 DEF r, InGroup
    <3>. QED
      BY <1>1, <2>4, <2>5, <2>6, <3>1, <3>2, HandlerSteps
  <2>8. ASSUME hurries = 0 PROVE ReviewIsCurrent' /\ SetupsCover' /\ HandlerKnows(h)'
    <3>1. \A g \in Handlers : handler[g].pc # "clear" /\ handler'[g].pc # "draw"
      BY <1>1, <2>5, <2>7, <2>8 DEF r
    <3>2. ReviewIsCurrent'
      BY <1>1, <2>3, <2>6, <2>8, <3>1 DEF ReviewIsCurrent, Reviews
    <3>3. SetupsCover'
      BY <1>1, <2>8, <3>1 DEF SetupsCover
    <3>4. HandlerKnows(h)'
      <4>1. "new" \notin Steps
        BY DEF Steps
      <4>2. r.message # 0 /\ session # NoSession => session.message = r.message
        BY <1>1, <2>8 DEF HandlerKnows, Presses, r
      <4>. QED
        BY <1>1, <2>1, <2>2, <2>3, <2>5, <2>6, <2>7, <4>1, <4>2 DEF HandlerKnows, Presses
    <3>. QED
      BY <3>2, <3>3, <3>4
  <2>9. ReviewedIsSaved'
    BY <1>1 DEF IInv, ReviewedIsSaved
  <2>. QED
    BY <2>7, <2>8, <2>9 DEF IInv
<1>. QED
  BY <1>1, <1>2, <1>3

LEMMA StartSaveInv ==
  ASSUME TypeOK, IInv, NEW h \in Handlers, StartSave(h)
  PROVE  TypeOK' /\ IInv'
<1>. USE AtWork
<1>1. /\ UNCHANGED <<message, alerts, hurries, restarts, lost>> /\ handler[h].pc = "save"
      /\ handler[h].button.act = "new" /\ session' = handler[h].copy /\ setups' = setups + 1
      /\ handler' = [handler EXCEPT ![h] = Idle]
  BY DEF StartSave, At, Ended
<1>2. Idle \in HandlerState /\ InGroup(Idle.copy) /\ Idle.shown.keyboard # "group"
  BY IdleValues DEF InGroup, None
<1>3. /\ TypeOK' /\ GroupIsShown' /\ AreasAreOneGroup' /\ OneAtATime' /\ handler'[h] = Idle
      /\ hurries = 0 => \A g \in Handlers \ {h} : handler[g].pc = "idle" /\ handler'[g].pc = "idle"
      /\ (hurries = 0 => ReviewIsCurrent' /\ SetupsCover' /\ HandlerKnows(h)') => PatientUser'
  <2>1. session' \in Session /\ InGroup(session') /\ setups' \in Nat /\ handler[h].pc # "idle"
    BY <1>1
  <2>2. message' \in [Messages -> Shown] /\ alerts' \in Seq([saved : Session, shown : Session])
    BY <1>1
  <2>3. /\ \A m \in Messages : message'[m].keyboard = "group" => message'[m].drawn.group \in Groups
        /\ \A i \in DOMAIN alerts' : InGroup(alerts'[i].saved)
    BY <1>1
  <2>. QED
    BY <1>1, <1>2, <2>1, <2>2, <2>3, HandlerSteps
<1>4. ASSUME hurries = 0 PROVE ReviewIsCurrent' /\ SetupsCover' /\ HandlerKnows(h)'
  <2>1. \A g \in Handlers : handler'[g].pc = "idle"
    BY <1>3, <1>4, IdleValues
  <2>2. session'.message \in Messages /\ message'[session'.message].keyboard = "property"
    BY <1>1, <1>4 DEF HandlerKnows
  <2>3. ReviewIsCurrent'
    BY <2>1, <2>2 DEF ReviewIsCurrent, Reviews
  <2>4. SetupsCover'
    BY <1>1, <1>4 DEF SetupsCover
  <2>5. HandlerKnows(h)'
    BY <2>1 DEF HandlerKnows, Presses
  <2>. QED
    BY <2>3, <2>4, <2>5
<1>5. ReviewedIsSaved'
  BY <1>1 DEF IInv, ReviewedIsSaved
<1>. QED
  BY <1>3, <1>4, <1>5 DEF IInv

-----------------------------------------------------------------------------
(* The buttons of a keyboard.                                              *)
LEMMA KeyboardFacts ==
  ASSUME NEW k \in Keyboards, NEW s, k = "group" => s.group \in Groups, NEW b \in Keyboard(k, s)
  PROVE  /\ b \in Buttons /\ b.act # "text" /\ b.act # "stop"
         /\ b.act = "confirm" => k = "confirm"
         /\ k = "confirm" => b.act \in {"confirm", "cancel"}
<1>. DEFINE Is(act) == b = Plain(act)
<1>1. /\ \A act \in Acts : Plain(act) \in Buttons
      /\ \A act : Plain(act).act = act
  BY DEF Buttons, Plain, Button
<1>2. /\ \A x \in Options("property", Properties) : x \in Buttons /\ x.act = "property"
      /\ \A x \in Options("deal", Deals) : x \in Buttons /\ x.act = "deal"
      /\ \A x \in Options("group", Groups) : x \in Buttons /\ x.act = "group"
      /\ \A x \in Options("price", Prices) : x \in Buttons /\ x.act = "price"
      /\ \A x \in Options("rooms", RoomCounts) : x \in Buttons /\ x.act = "rooms"
      /\ \A x \in Options("size", Sizes) : x \in Buttons /\ x.act = "size"
  BY DEF Buttons, Options, Button
<1>3. ASSUME NEW g \in Groups, NEW x \in Options("toggle", Children[g]) PROVE x \in Buttons /\ x.act = "toggle"
  BY <1>3 DEF Buttons, Options, Button
<1>4. CASE k = "property"
  <2>1. b \in Options("property", Properties) \/ Is("cancel")
    BY <1>4, Zenon DEF Keyboard
  <2>. QED
    BY <1>1, <1>2, <1>4, <2>1 DEF Acts
<1>5. CASE k = "deal"
  <2>1. b \in Options("deal", Deals) \/ Is("cancel")
    BY <1>5 DEF Keyboard
  <2>. QED
    BY <1>1, <1>2, <1>5, <2>1 DEF Acts
<1>6. CASE k = "scope"
  <2>1. b \in Options("group", Groups) \/ Is("everywhere") \/ Is("cancel")
    BY <1>6 DEF Keyboard
  <2>. QED
    BY <1>1, <1>2, <1>6, <2>1 DEF Acts
<1>7. CASE k = "group"
  <2>1. b \in Options("toggle", Children[s.group]) \/ Is("done") \/ Is("cancel") \/ Is("whole")
    BY <1>7 DEF Keyboard
  <2>. QED
    BY <1>1, <1>3, <1>7, <2>1 DEF Acts
<1>8. CASE k = "price"
  <2>1. b \in Options("price", Prices) \/ Is("cancel")
    BY <1>8 DEF Keyboard
  <2>. QED
    BY <1>1, <1>2, <1>8, <2>1 DEF Acts
<1>9. CASE k = "rooms"
  <2>1. b \in Options("rooms", RoomCounts) \/ Is("cancel")
    BY <1>9 DEF Keyboard
  <2>. QED
    BY <1>1, <1>2, <1>9, <2>1 DEF Acts
<1>10. CASE k = "size"
  <2>1. b \in Options("size", Sizes) \/ Is("cancel")
    BY <1>10 DEF Keyboard
  <2>. QED
    BY <1>1, <1>2, <1>10, <2>1 DEF Acts
<1>11. CASE k \in {"custom_price", "custom_size"}
  <2>1. Is("back") \/ Is("cancel")
    BY <1>11 DEF Keyboard
  <2>. QED
    BY <1>1, <1>11, <2>1 DEF Acts
<1>12. CASE k = "confirm"
  <2>1. Is("confirm") \/ Is("cancel")
    BY <1>12 DEF Keyboard
  <2>. QED
    BY <1>1, <1>12, <2>1 DEF Acts
<1>13. CASE k = "menu"
  <2>1. Is("new")
    BY <1>13 DEF Keyboard
  <2>. QED
    BY <1>1, <1>13, <2>1 DEF Acts
<1>14. CASE k = None
  BY <1>14 DEF Keyboard, None
<1>. QED
  BY <1>4, <1>5, <1>6, <1>7, <1>8, <1>9, <1>10, <1>11, <1>12, <1>13, <1>14 DEF Keyboards

(* An update starts a handler.                                             *)
LEMMA UpdateInv ==
  ASSUME TypeOK, IInv, NEW h \in Handlers, NEW b \in Buttons, NEW m \in Messages \cup {0}, Update(h, b, m),
         b.act \in Steps \ {"text"} => m \in Messages /\ message[m].keyboard # "confirm",
         b.act = "confirm" => m \in Messages /\ message[m].keyboard = "confirm"
  PROVE  TypeOK' /\ IInv'
<1>. DEFINE x == [pc |-> "read", button |-> b, message |-> m, copy |-> NoSession,
                  shown |-> IF b.act = "confirm" THEN message[m] ELSE Unsent]
<1>1. /\ UNCHANGED <<session, message, alerts, setups, restarts, lost>>
      /\ handler[h] = Idle /\ handler' = [handler EXCEPT ![h] = x]
      /\ hurries' = (IF Hurried(m) THEN hurries + 1 ELSE hurries) /\ hurries' <= MaxHurries
  BY DEF Update
<1>2. x.shown \in Shown /\ (x.shown.keyboard = "group" => x.shown.drawn.group \in Groups)
  BY ScreenValues DEF TypeOK, IInv, GroupIsShown, None
<1>3. x \in HandlerState /\ InGroup(x.copy)
  BY <1>2, Values DEF HandlerState, InGroup
<1>4. /\ x.pc = "read" /\ x.button = b /\ x.message = m
      /\ b.act = "confirm" => x.shown = message[m]
  OBVIOUS
<1>. HIDE DEF x
<1>5. handler'[h] = x /\ \A g \in Handlers \ {h} : handler'[g] = handler[g]
  BY <1>1 DEF TypeOK
<1>6. hurries \in Nat /\ hurries' \in 0..MaxHurries
  BY <1>1, WizardBoundsAssumption DEF TypeOK
<1>7. TypeOK'
  <2>1. handler' \in [Handlers -> HandlerState]
    BY <1>1, <1>3 DEF TypeOK, HandlerState
  <2>. QED
    BY <1>1, <1>6, <2>1 DEF TypeOK, HandlerState
<1>8. GroupIsShown'
  BY <1>1, <1>2, <1>5 DEF IInv, GroupIsShown
<1>9. AreasAreOneGroup'
  BY <1>1, <1>3, <1>5 DEF IInv, AreasAreOneGroup, InGroup
<1>10. hurries' = 0 => /\ hurries = 0 /\ (\A g \in Handlers : handler[g] = Idle)
                       /\ m # 0 /\ session # NoSession => session.message = m
  BY <1>1, <1>6 DEF Hurried, Running
<1>11. OneAtATime'
  BY <1>5, <1>10 DEF OneAtATime, Running
<1>12. ReviewedIsSaved'
  BY <1>1, <1>10 DEF IInv, ReviewedIsSaved
<1>13. PatientUser'
  <2>. SUFFICES ASSUME hurries' = 0 PROVE ReviewIsCurrent' /\ SetupsCover' /\ \A g \in Handlers : HandlerKnows(g)'
    BY DEF PatientUser
  <2>1. ReviewIsCurrent /\ SetupsCover
    BY <1>10 DEF IInv, PatientUser
  <2>2. \A g \in Handlers : /\ handler[g].pc = "idle"
                            /\ g # h => handler'[g].pc = "idle"
                            /\ g = h => handler'[g].pc = "read"
    BY <1>4, <1>5, <1>10, IdleValues
  <2>3. ReviewIsCurrent'
    BY <1>1, <2>1, <2>2 DEF ReviewIsCurrent, Reviews
  <2>4. SetupsCover'
    BY <1>1, <2>1, <2>2 DEF SetupsCover
  <2>5. HandlerKnows(h)'
    BY <1>1, <1>4, <1>5, <1>10, <2>2 DEF HandlerKnows, Presses
  <2>6. \A g \in Handlers \ {h} : HandlerKnows(g)'
    BY <2>2 DEF HandlerKnows, Presses
  <2>. QED
    BY <2>3, <2>4, <2>5, <2>6
<1>. QED
  BY <1>7, <1>8, <1>9, <1>11, <1>12, <1>13 DEF IInv

LEMMA RestartInv ==
  ASSUME TypeOK, IInv, Restart
  PROVE  TypeOK' /\ IInv'
<1>1. /\ UNCHANGED <<message, alerts, setups, hurries, lost>> /\ session' = NoSession
      /\ handler' = [h \in Handlers |-> Idle] /\ restarts' \in 0..MaxFaults
  BY WizardBoundsAssumption DEF Restart, TypeOK
<1>2. TypeOK'
  <2>1. handler' \in [Handlers -> HandlerState]
    BY <1>1, IdleValues
  <2>. QED
    BY <1>1, <2>1, Values DEF TypeOK, HandlerState
<1>3. \A h \in Handlers : handler'[h] = Idle
  BY <1>1
<1>4. GroupIsShown' /\ AreasAreOneGroup' /\ ReviewedIsSaved'
  BY <1>1, <1>3, Values, IdleValues DEF IInv, GroupIsShown, AreasAreOneGroup, ReviewedIsSaved, None
<1>5. OneAtATime'
  BY <1>3 DEF OneAtATime, Running
<1>6. PatientUser'
  BY <1>1, <1>3, IdleValues DEF IInv, PatientUser, ReviewIsCurrent, SetupsCover, HandlerKnows, Presses
<1>. QED
  BY <1>2, <1>4, <1>5, <1>6 DEF IInv

LEMMA StutterInv ==
  ASSUME TypeOK, IInv, UNCHANGED vars
  PROVE  TypeOK' /\ IInv'
<1>1. TypeOK'
  BY DEF TypeOK, vars
<1>2. GroupIsShown' /\ AreasAreOneGroup'
  BY DEF IInv, GroupIsShown, AreasAreOneGroup, vars
<1>3. OneAtATime' /\ ReviewedIsSaved'
  BY DEF IInv, OneAtATime, Running, ReviewedIsSaved, vars
<1>4. PatientUser'
  BY DEF IInv, PatientUser, ReviewIsCurrent, Reviews, SetupsCover, HandlerKnows, Presses, vars
<1>. QED
  BY <1>1, <1>2, <1>3, <1>4 DEF IInv

LEMMA UserInv ==
  ASSUME TypeOK, IInv, UserStep
  PROVE  TypeOK' /\ IInv'
<1>1. PICK h \in Handlers : Command(h) \/ \E m \in Messages :
        \E b \in Keyboard(message[m].keyboard, message[m].drawn) : Press(h, m, b)
  BY DEF UserStep
<1>2. CASE Command(h)
  <2>1. PICK act \in {"new", "text", "stop"} : Update(h, Plain(act), 0)
    BY <1>2 DEF Command
  <2>2. Plain(act) \in Buttons /\ Plain(act).act = act
    BY DEF Buttons, Acts, Plain, Button
  <2>. QED
    BY <2>1, <2>2, UpdateInv DEF Steps
<1>3. ASSUME NEW m \in Messages, NEW b \in Keyboard(message[m].keyboard, message[m].drawn), Press(h, m, b)
      PROVE  TypeOK' /\ IInv'
  <2>1. message[m].keyboard \in Keyboards /\ (message[m].keyboard = "group" => message[m].drawn.group \in Groups)
    BY DEF TypeOK, Shown, IInv, GroupIsShown
  <2>2. /\ b \in Buttons /\ b.act # "text"
        /\ b.act = "confirm" => message[m].keyboard = "confirm"
        /\ message[m].keyboard = "confirm" => b.act \in {"confirm", "cancel"}
    BY <2>1, KeyboardFacts
  <2>3. Update(h, b, m)
    BY <1>3 DEF Press
  <2>. QED
    BY <2>2, <2>3, UpdateInv DEF Steps
<1>. QED
  BY <1>1, <1>2, <1>3

LEMMA StepIInv == TypeOK /\ IInv /\ [Next]_vars => TypeOK' /\ IInv'
<1>. SUFFICES ASSUME TypeOK, IInv, [Next]_vars PROVE TypeOK' /\ IInv'
  OBVIOUS
<1>1. CASE HandlerStep
  <2>1. \E h \in Handlers : \/ Read(h) \/ Save(h) \/ Draw(h) \/ Cancel(h) \/ CreateFilter(h) \/ ClearState(h)
                            \/ StartDraw(h) \/ StartSave(h)
    BY <1>1 DEF HandlerStep
  <2>. QED
    BY <2>1, ReadInv, SaveInv, DrawInv, ClearInv, CreateInv, StartDrawInv, StartSaveInv
<1>. QED
  BY <1>1, UserInv, RestartInv, StutterInv DEF Next

-----------------------------------------------------------------------------
(* Every reachable state has the types and the inductive invariant.        *)
THEOREM Inductive == Spec => [](TypeOK /\ IInv)
  BY InitIInv, StepIInv, PTL DEF Spec

(* Type correctness of the session, the messages and the handlers.         *)
THEOREM TypeCorrect == Spec => []TypeOK
  BY Inductive, PTL

(* Whatever groups are opened, by however many handlers at once, the areas *)
(* of a session, of its copies and of the alerts are of one group.         *)
THEOREM OneGroup == Spec => []AreasAreOneGroup
<1>1. TypeOK /\ IInv => AreasAreOneGroup
  BY DEF IInv
<1>. QED
  BY <1>1, Inductive, PTL

(* A user who waits gets the alert that was on show for review.            *)
THEOREM WhatWasReviewed == Spec => []ReviewedIsSaved
<1>1. TypeOK /\ IInv => ReviewedIsSaved
  BY DEF IInv
<1>. QED
  BY <1>1, Inductive, PTL

(* A user who waits gets one alert from a setup at most, and one more for  *)
(* every commit whose answer was lost.                                     *)
THEOREM OnePerSetup == Spec => []OneAlertPerSetup
<1>1. TypeOK /\ IInv => OneAlertPerSetup
  BY DEF IInv, PatientUser, SetupsCover, OneAlertPerSetup
<1>. QED
  BY <1>1, Inductive, PTL
=============================================================================
