--------------------------- MODULE PlaybackProofs ---------------------------
(* Three promises about playback, for any library, playlists, number of      *)
(* clients, queue, requests and reboots, each without the mishaps that TLC   *)
(* finds to break it and as many of the others as there are: no wake-up is   *)
(* lost and what was asked for is shown; pushed code never gets into the     *)
(* record; and what a device that has come to rest shows is what a reboot    *)
(* brings back.                                                              *)
(* Each rests on where things are between a request and the screen: in an    *)
(* outbox, in the queue, or on the screen, in that order. WantedInv follows  *)
(* what was asked for along it, PushInv keeps pushed code and scenes apart   *)
(* on it, ShowInv says what the controls and the record will be once it has  *)
(* run empty. All of them need that one task at a time waits for room        *)
(* (OneSender).                                                              *)
EXTENDS Playback, SequenceTheorems, TLAPS

(* The values of the variables.  A letter names a pattern or a scene of its  *)
(* kind; so does the message it becomes.                                     *)
Kinds == {"library", "scene", "code", "config", "freeze", "control"}
Shows == {"library", "scene"}
Addressed(m) ==
  (m.kind = "library" => m.id \in Patterns) /\ (m.kind = "scene" => m.id \in Scenes)
Letter == {m \in [kind: Kinds, id: Ids \cup {None}, val: Values,
                  seed: Values \cup {Keep}, mark: BOOLEAN]: Addressed(m)}
Message == {m \in [kind: Kinds, id: Ids \cup {None}, val: Values]: Addressed(m)}
Record == [id: Ids \cup {None}, ctl: Values]

TypeOK ==
  /\ flash \in [record: Record, playing: BOOLEAN, list: Lists]
  /\ library \subseteq Ids
  /\ list \in Lists /\ playing \in BOOLEAN /\ index \in Nat /\ cmd \in 0..CmdCap
  /\ sched \in [pc: {"look", "idle", "hold"}, i: Nat, seen: Lists \cup {<<>>}]
  /\ queue \in Seq(Message)
  /\ outbox \in [Tasks -> Seq(Letter)]
  /\ turn \in Tasks \cup {None}
  /\ screen \in [id: Ids \cup {None, AdHoc}, ctl: Values]
  /\ active \in Scenes \cup {None}
  /\ current \in Patterns \cup {None, AdHoc}
  /\ mapped \in BOOLEAN /\ remap \in BOOLEAN
  /\ controls \in Values /\ dirty \in BOOLEAN
  /\ resume \in {"off", "heap", "wait", "debounce"}
  /\ wanted \in Ids \cup {None}
  /\ fresh \in BOOLEAN
  /\ used \in [asks: Nat, boots: Nat]

(* A scheduler that rests knows the present list, index and play state.      *)
SchedInv ==
  /\ sched.pc = "idle" /\ cmd = 0 => ~playing
  /\ sched.pc = "hold" /\ cmd = 0 => playing /\ index = sched.i /\ list = sched.seen
  /\ playing /\ aimed # NoIndex => index = aimed
  /\ playing /\ aimed # NoIndex /\ sched.pc # "look" => cmd > 0

OneSender ==
  \A t, u \in Tasks: outbox[t] # <<>> /\ outbox[u] # <<>> => t = u

Controls(letters) == \A k \in DOMAIN letters: letters[k].kind = "control"

LastShow(id) ==
  \E k \in DOMAIN queue:
    /\ queue[k].kind \in Shows /\ queue[k].id = id
    /\ \A j \in DOMAIN queue: j > k => queue[j].kind = "control"

OnTheWay(id) ==
  \/ \E t \in Tasks: Len(outbox[t]) = 1 /\ outbox[t][1].kind \in Shows /\ outbox[t][1].id = id
  \/ /\ \A t \in Tasks: Controls(outbox[t])
     /\ LastShow(id) \/ (Controls(queue) /\ screen.id = id)

WantedInv ==
  /\ resume \in {"off", "heap"} => wanted = None
  /\ wanted # None => OnTheWay(wanted)

(* Code is pushed, and shown, while no scene is up or on its way.            *)
PushInv ==
  /\ screen.id = AdHoc => current = AdHoc
  /\ current = AdHoc => active = None
  /\ \A k \in DOMAIN queue: queue[k].kind = "code" =>
       active = None /\ \A j \in 1..k: queue[j].kind # "scene"
  /\ \A t \in Tasks: \A k \in DOMAIN outbox[t]: outbox[t][k].kind = "code" =>
       /\ Len(outbox[t]) = 1 /\ active = None
       /\ \A j \in DOMAIN queue: queue[j].kind # "scene"

-----------------------------------------------------------------------------
(* What a reboot needs.                                                      *)
Parked == ~playing \/ list = <<>>
Quiet == Parked /\ ~dirty /\ resume # "debounce"

ListInv ==
  /\ flash.list = list
  /\ playing => flash.playing
  /\ flash.playing /\ ~playing => list = <<>>
  /\ playing /\ list = <<>> => sched.pc = "look"

ScreenInv ==
  /\ active # None => active \in library
  /\ screen.id \in Scenes \cap library => active = screen.id
  /\ screen.id \in Patterns => active = None /\ current = screen.id
  /\ screen.id = AdHoc => current = AdHoc
  /\ remap => ~mapped

(* What a task can have to send: one message that leaves the controls alone, *)
(* or an item.  An item that is neither marked nor of a playlist nor sent    *)
(* while something is still to be recorded is the record.                    *)
Lone(letters, kind) ==
  Len(letters) = 1 /\ letters[1].kind = kind /\ letters[1].seed = Keep
ItemOf(letters) ==
  /\ letters[1].kind \in Shows /\ letters[1].id \in library
  /\ \/ Len(letters) = 1 /\ letters[1].seed = Keep /\ letters[1].kind = "scene"
     \/ Len(letters) = 1 /\ letters[1].seed = 0
     \/ /\ Len(letters) = 2 /\ letters[2].kind = "control" /\ letters[2].seed = Keep
        /\ letters[1].seed = letters[2].val
  /\ \/ letters[1].mark \/ ~Quiet
     \/ /\ letters[1].id = flash.record.id
        /\ letters[1].seed \in {Keep, flash.record.ctl}
Unsent(letters) ==
  \/ letters = <<>>
  \/ Lone(letters, "control") /\ letters[1].val = controls
  \/ Lone(letters, "code") \/ Lone(letters, "freeze")
  \/ Lone(letters, "config") /\ queue = <<>> /\ current = None /\ screen = Nothing
  \/ ItemOf(letters)

MailInv ==
  /\ \A t \in Tasks: Unsent(outbox[t])
  /\ \A k \in DOMAIN queue:
       /\ queue[k].kind \in Shows => queue[k].id \in library
       /\ queue[k].kind = "config" => k = 1 /\ current = None /\ screen = Nothing

(* CURRENT_CONTROLS is what the pattern on screen will have in the end, but  *)
(* for one that was built anew on a bare strip.                              *)
Steady(letters) == \A k \in DOMAIN letters: letters[k].kind \notin Shows \cup {"control"}
SteadyAfter(k) == \A j \in DOMAIN queue: j > k => queue[j].kind \notin Shows \cup {"control"}
ControlInv ==
  (\A t \in Tasks: Steady(outbox[t])) =>
    /\ \A k \in DOMAIN queue: SteadyAfter(k) =>
         /\ queue[k].kind = "control" => queue[k].val = controls
         /\ queue[k].kind = "library" => controls = 0
    /\ Steady(queue) /\ screen.id \in Patterns =>
         screen.ctl = controls \/ (~mapped /\ screen.ctl = 0)

(* With no change to record, the record is what is shown, or will be; what   *)
(* take_dirty would build anew is shown already.                             *)
Coming == screen.id \in library \cap Patterns
          \/ (remap /\ active = None /\ current \in library \cap Patterns)
RecordInv ==
  Quiet =>
    /\ active # None => flash.record.id = active
    /\ screen.id \in library => flash.record.id = screen.id
    /\ \A k \in DOMAIN queue: queue[k].kind \in Shows => queue[k].id = flash.record.id
    /\ remap /\ active = None /\ current \in library \cap Patterns =>
         flash.record.id = current
    /\ (Coming \/ \E k \in DOMAIN queue: queue[k].kind = "library") =>
         flash.record.ctl = controls

-----------------------------------------------------------------------------
(* Letters.                                                                  *)

(* The names of the tasks.                                                   *)
LEMMA TaskNames == "sched" \in Tasks /\ "resume" \in Tasks /\ Clients \subseteq Tasks
BY DEF Tasks

(* The ids: none is the empty one, or that of pushed code.                   *)
LEMMA IdFacts ==
  /\ None \notin Ids /\ AdHoc \notin Ids /\ None # AdHoc
  /\ Patterns \cap Scenes = {} /\ Ids = Patterns \cup Scenes
  /\ \A s \in Scenes: Base[s] \in Patterns
  /\ 0 \in Values /\ Keep \notin Values
BY PlaybackAssumption DEF Ids, Keep

(* What Mail, Show and SetControl make are letters.                          *)
LEMMA MailTypes ==
  ASSUME NEW kind \in Kinds \ Shows, NEW val \in Values,
         NEW seed \in Values \cup {Keep}, NEW mark \in BOOLEAN
  PROVE  Mail(kind, None, val, seed, mark) \in Letter
BY DEF Mail, Letter, Addressed, Shows

(* A letter that shows an item.                                              *)
LEMMA ShowTypes ==
  ASSUME NEW id \in Ids, NEW seed \in Values \cup {Keep}, NEW mark \in BOOLEAN
  PROVE  Show(id, seed, mark) \in Letter
BY IdFacts DEF Show, Kinds, Mail, Letter, Addressed

(* A letter that sets a control.                                             *)
LEMMA ControlTypes == ASSUME NEW v \in Values PROVE SetControl(v) \in Letter
BY MailTypes DEF SetControl, Kinds, Shows

(* An item is one letter, or two.                                            *)
LEMMA InstallLetters ==
  ASSUME NEW what, what.id \in Ids, what.ctl \in Values
  PROVE  /\ Install(what) \in Seq(Letter)
         /\ Install(what)[1] = Show(what.id, what.ctl, FALSE)
         /\ what.ctl = 0 => Len(Install(what)) = 1
         /\ what.ctl # 0 => /\ Len(Install(what)) = 2
                            /\ Install(what)[2] = SetControl(what.ctl)
<1> DEFINE a == Show(what.id, what.ctl, FALSE)
           b == SetControl(what.ctl)
<1>1. a \in Letter /\ b \in Letter
  BY ShowTypes, ControlTypes
<1> HIDE DEF a, b
<1>2. <<a>> \in Seq(Letter) /\ <<b>> \in Seq(Letter) /\ <<>> \in Seq(Letter)
  BY <1>1
<1>3. Install(what) = <<a>> \o (IF what.ctl = 0 THEN <<>> ELSE <<b>>)
  BY DEF Install, a, b
<1>4. /\ <<a>> \o <<>> = <<a>>
      /\ <<a>> \o <<b>> \in Seq(Letter) /\ Len(<<a>> \o <<b>>) = 2
      /\ (<<a>> \o <<b>>)[1] = a /\ (<<a>> \o <<b>>)[2] = b
  BY <1>2, ConcatProperties, ConcatEmptySeq
<1>5. /\ Install(what) \in Seq(Letter) /\ Install(what)[1] = a
      /\ what.ctl = 0 => Len(Install(what)) = 1
      /\ what.ctl # 0 => Len(Install(what)) = 2 /\ Install(what)[2] = b
  <2>1. CASE what.ctl = 0
    BY <1>2, <1>3, <1>4, <2>1
  <2>2. CASE what.ctl # 0
    <3>1. Install(what) = <<a>> \o <<b>>
      BY <1>3, <2>2
    <3> QED BY <1>4, <2>2, <3>1
  <2> QED BY <2>1, <2>2
<1> QED BY <1>5 DEF a, b

(* What posting leaves in the outboxes.                                      *)
LEMMA PostEffect ==
  ASSUME TypeOK, NEW t \in Tasks, NEW letters \in Seq(Letter), Post(t, letters)
  PROVE  /\ queue' = queue
         /\ outbox' \in [Tasks -> Seq(Letter)] /\ turn' \in Tasks \cup {None}
         /\ outbox'[t] = letters /\ \A u \in Tasks \ {t}: outbox'[u] = outbox[u]
BY DEF Post, TypeOK

(* A list that loses an item is a list.                                      *)
LEMMA ListTypes ==
  ASSUME NEW l \in Lists
  PROVE  /\ l \in Seq([id: Ids, ctl: Values, timed: BOOLEAN])
         /\ Len(l) \in Nat /\ (l # <<>> => Len(l) > 0)
         /\ \A k \in Nat: k < Len(l) => l[k + 1].id \in Ids /\ l[k + 1].ctl \in Values
         /\ \A id \in Scenes: drop_scene_lines(id, l) \in Lists
<1>1. /\ l \in Seq([id: Ids, ctl: Values, timed: BOOLEAN])
      /\ \A id \in Scenes: drop_scene_lines(id, l) \in Lists
  BY PlaybackAssumption
<1>2. Len(l) \in Nat /\ (l # <<>> => Len(l) > 0)
  BY <1>1, EmptySeq, LenProperties
<1>3. \A k \in Nat: k < Len(l) => l[k + 1].id \in Ids /\ l[k + 1].ctl \in Values
  <2> SUFFICES ASSUME NEW k \in Nat, k < Len(l)
               PROVE  l[k + 1].id \in Ids /\ l[k + 1].ctl \in Values
    OBVIOUS
  <2>1. k + 1 \in 1..Len(l)
    BY <1>2
  <2>2. l[k + 1] \in [id: Ids, ctl: Values, timed: BOOLEAN]
    BY <1>1, <2>1, ElementOfSeq
  <2> QED BY <2>2
<1> QED BY <1>1, <1>2, <1>3

-----------------------------------------------------------------------------
(* The types.                                                                *)

(* A device that starts.                                                     *)
LEMMA TypeInit == ASSUME Init PROVE TypeOK
<1>1. /\ flash \in [record: Record, playing: BOOLEAN, list: Lists]
      /\ list \in Lists /\ playing \in BOOLEAN
  <2>1. /\ Records \subseteq {Nothing} \cup [id: Patterns, ctl: Values] \cup [id: Scenes, ctl: {0}]
        /\ Nothing \in Record
    BY PlaybackAssumption, IdFacts DEF Nothing, Record
  <2>2. Records \subseteq Record
    BY <2>1, IdFacts DEF Record
  <2> QED BY <2>2 DEF Init
<1>2. outbox \in [Tasks -> Seq(Letter)] /\ queue \in Seq(Message)
  BY DEF Init, Empty
<1>3. sched \in [pc: {"look", "idle", "hold"}, i: Nat, seen: Lists \cup {<<>>}]
  BY DEF Init, NotYet
<1>4. screen \in [id: Ids \cup {None, AdHoc}, ctl: Values]
  BY IdFacts DEF Init, Nothing
<1>5. used \in [asks: Nat, boots: Nat] /\ cmd \in 0..CmdCap
  BY DEF Init, CmdCap
<1>6. /\ library \subseteq Ids /\ index \in Nat /\ turn \in Tasks \cup {None}
      /\ active \in Scenes \cup {None} /\ current \in Patterns \cup {None, AdHoc}
      /\ mapped \in BOOLEAN /\ remap \in BOOLEAN
      /\ controls \in Values /\ dirty \in BOOLEAN
      /\ resume \in {"off", "heap", "wait", "debounce"}
      /\ wanted \in Ids \cup {None} /\ fresh \in BOOLEAN
  BY IdFacts DEF Init
<1> QED BY <1>1, <1>2, <1>3, <1>4, <1>5, <1>6 DEF TypeOK

(* A stored value is the old one or the new one.                             *)
LEMMA StoredTypes ==
  ASSUME TypeOK
  PROVE  /\ \A p \in BOOLEAN: Stored([flash EXCEPT !.playing = p])
              \subseteq [record: Record, playing: BOOLEAN, list: Lists]
         /\ \A l \in Lists: Stored([flash EXCEPT !.list = l])
              \subseteq [record: Record, playing: BOOLEAN, list: Lists]
         /\ \A record \in Record: Stored([flash EXCEPT !.record = record])
              \subseteq [record: Record, playing: BOOLEAN, list: Lists]
<1>1. flash \in [record: Record, playing: BOOLEAN, list: Lists]
  BY DEF TypeOK
<1>2. ASSUME NEW g \in [record: Record, playing: BOOLEAN, list: Lists]
      PROVE  Stored(g) \subseteq [record: Record, playing: BOOLEAN, list: Lists]
  BY <1>1, <1>2 DEF Stored
<1>3. /\ \A p \in BOOLEAN: [flash EXCEPT !.playing = p] \in
              [record: Record, playing: BOOLEAN, list: Lists]
      /\ \A l \in Lists: [flash EXCEPT !.list = l] \in
              [record: Record, playing: BOOLEAN, list: Lists]
      /\ \A record \in Record: [flash EXCEPT !.record = record] \in
              [record: Record, playing: BOOLEAN, list: Lists]
  BY <1>1
<1> QED BY <1>2, <1>3

(* A step that posts nothing and shows nothing new.                          *)
LEMMA AsideTypes ==
  ASSUME TypeOK, UNCHANGED <<library, list, queue, outbox, turn>>,
         UNCHANGED <<screen, active, current, remap, mapped, controls>>,
         flash' \in [record: Record, playing: BOOLEAN, list: Lists],
         playing' \in BOOLEAN, index' \in Nat, cmd' \in 0..CmdCap,
         sched' \in [pc: {"look", "idle", "hold"}, i: Nat, seen: Lists \cup {<<>>}],
         dirty' \in BOOLEAN, resume' \in {"off", "heap", "wait", "debounce"},
         wanted' \in Ids \cup {None}, fresh' \in BOOLEAN, used' \in [asks: Nat, boots: Nat]
  PROVE  TypeOK'
<1>1. library' \subseteq Ids /\ list' \in Lists
  BY DEF TypeOK
<1>2. queue' \in Seq(Message) /\ outbox' \in [Tasks -> Seq(Letter)] /\ turn' \in Tasks \cup {None}
  BY DEF TypeOK
<1>3. /\ screen' \in [id: Ids \cup {None, AdHoc}, ctl: Values]
      /\ active' \in Scenes \cup {None} /\ current' \in Patterns \cup {None, AdHoc}
      /\ mapped' \in BOOLEAN /\ remap' \in BOOLEAN /\ controls' \in Values
  BY DEF TypeOK
<1> QED BY <1>1, <1>2, <1>3 DEF TypeOK

(* A request is counted.                                                     *)
LEMMA AskTypes ==
  ASSUME TypeOK, Ask
  PROVE  used' \in [asks: Nat, boots: Nat] /\ fresh' \in BOOLEAN
<1>1. used \in [asks: Nat, boots: Nat]
  BY DEF TypeOK
<1>2. used' = [used EXCEPT !.asks = used.asks + 1] /\ fresh' = FALSE
  BY DEF Ask
<1>3. used.asks + 1 \in Nat
  BY <1>1
<1> QED BY <1>1, <1>2, <1>3

(* CMD holds a bounded number of wakes.                                      *)
LEMMA WakeTypes == ASSUME TypeOK PROVE wake \in 1..CmdCap
BY DEF TypeOK, wake, CmdCap

(* A request that only sends a letter.                                       *)
LEMMA PostTypes ==
  ASSUME TypeOK, Ask, Ordinary, NEW c \in Clients, NEW letter \in Letter,
         Post(c, <<letter>>), wanted' \in Ids \cup {None},
         UNCHANGED library,
         UNCHANGED <<stores, player>> \/ Stopped,
         controls' \in Values, dirty' \in BOOLEAN
  PROVE  TypeOK'
<1>1. <<letter>> \in Seq(Letter) /\ c \in Tasks
  BY TaskNames
<1>2. queue' = queue /\ outbox' \in [Tasks -> Seq(Letter)] /\ turn' \in Tasks \cup {None}
  BY <1>1, PostEffect
<1>3. used' \in [asks: Nat, boots: Nat] /\ fresh' \in BOOLEAN
  BY AskTypes
<1>4. /\ flash' \in [record: Record, playing: BOOLEAN, list: Lists]
      /\ library' \subseteq Ids
      /\ list' \in Lists /\ playing' \in BOOLEAN /\ index' \in Nat /\ cmd' \in 0..CmdCap
      /\ sched' \in [pc: {"look", "idle", "hold"}, i: Nat, seen: Lists \cup {<<>>}]
  <2>1. CASE UNCHANGED <<stores, player>>
    BY <2>1 DEF TypeOK, stores, player
  <2>2. CASE Stopped
    <3>1. flash' \in [record: Record, playing: BOOLEAN, list: Lists]
      BY <2>2, StoredTypes DEF Stopped, TypeOK
    <3>2. cmd' \in 0..CmdCap
      BY <2>2, WakeTypes DEF Stopped, CmdCap
    <3> QED BY <2>2, <3>1, <3>2 DEF Stopped, TypeOK
  <2> QED BY <2>1, <2>2
<1> QED BY <1>2, <1>3, <1>4 DEF TypeOK, Ordinary, shown

(* Every request of a client sends one letter.                               *)
LEMMA ClientTypes ==
  ASSUME TypeOK, NEW c \in Clients,
         \/ \E id \in Ids: Activate(c, id) \/ Select(c, id)
         \/ \E v \in Values: Control(c, v)
         \/ SaveScene(c) \/ PushCode(c) \/ Resize(c) \/ Freeze(c)
  PROVE  TypeOK'
<1>1. ASSUME NEW id \in Ids, Activate(c, id)
      PROVE  TypeOK'
  <2>1. Show(id, 0, TRUE) \in Letter
    BY ShowTypes, IdFacts
  <2> QED BY <1>1, <2>1, PostTypes DEF Activate, Wants, TypeOK, stores
<1>2. ASSUME NEW id \in Ids, Select(c, id)
      PROVE  TypeOK'
  <2>1. Show(id, 0, TRUE) \in Letter
    BY ShowTypes, IdFacts
  <2> QED BY <1>2, <2>1, PostTypes DEF Select, Wants, TypeOK, Stopped
<1>3. ASSUME NEW v \in Values, Control(c, v)
      PROVE  TypeOK'
  <2>1. SetControl(v) \in Letter
    BY ControlTypes
  <2>2. controls' \in Values /\ dirty' \in BOOLEAN /\ wanted' \in Ids \cup {None}
    BY <1>3 DEF Control, TypeOK, MarkedDirty, Recording
  <2> QED BY <1>3, <2>1, <2>2, PostTypes DEF Control, stores
<1>4. ASSUME SaveScene(c)
      PROVE  TypeOK'
  <2>1. active \in Ids
    BY <1>4, IdFacts DEF SaveScene, TypeOK
  <2>2. Show(active, Keep, FALSE) \in Letter
    BY <2>1, ShowTypes
  <2> QED BY <1>4, <2>1, <2>2, PostTypes DEF SaveScene, Wants, TypeOK, stores
<1>5. ASSUME PushCode(c)
      PROVE  TypeOK'
  <2>1. Mail("code", None, 0, Keep, FALSE) \in Letter
    BY MailTypes, IdFacts DEF Kinds, Shows
  <2> QED BY <1>5, <2>1, PostTypes DEF PushCode, Wants, TypeOK, Stopped
<1>6. ASSUME Resize(c) \/ Freeze(c)
      PROVE  TypeOK'
  <2>1. /\ Mail("config", None, 0, Keep, FALSE) \in Letter
        /\ Mail("freeze", None, 0, Keep, FALSE) \in Letter
    BY MailTypes, IdFacts DEF Kinds, Shows
  <2> QED BY <1>6, <2>1, PostTypes DEF Resize, Freeze, Wants, TypeOK, stores
<1> QED BY <1>1, <1>2, <1>3, <1>4, <1>5, <1>6

(* A playlist that is posted, or that a deletion leaves.                     *)
LEMMA SetTypes ==
  ASSUME TypeOK, NEW l \in Lists, set_from_wire(l)
  PROVE  /\ flash' \in [record: Record, playing: BOOLEAN, list: Lists]
         /\ list' \in Lists /\ cmd' \in 0..CmdCap
<1>1. flash' \in [record: Record, playing: BOOLEAN, list: Lists]
  BY StoredTypes DEF set_from_wire
<1>2. cmd' \in 0..CmdCap
  BY WakeTypes DEF set_from_wire, CmdCap
<1> QED BY <1>1, <1>2 DEF set_from_wire

(* The requests that only move the player, and a deletion.                   *)
LEMMA PlayerTypes ==
  ASSUME TypeOK,
         \/ \E i \in 0..1: Play(i)
         \/ \E d \in {-1, 1}: Step(d)
         \/ \E l \in Lists: SetList(l)
         \/ \E id \in Ids: Delete(id)
         \/ Stop
  PROVE  TypeOK'
<1>1. ASSUME Ask
      PROVE  used' \in [asks: Nat, boots: Nat] /\ fresh' \in BOOLEAN
  BY <1>1, AskTypes
<1>2. ASSUME NEW i \in 0..1, Play(i)
      PROVE  TypeOK'
  <2>1. flash' \in [record: Record, playing: BOOLEAN, list: Lists]
    BY <1>2, StoredTypes DEF Play, TypeOK
  <2>2. cmd' \in 0..CmdCap
    BY <1>2, WakeTypes DEF Play, CmdCap
  <2> QED BY <1>1, <1>2, <2>1, <2>2 DEF Play, TypeOK, Ordinary, mail, shown
<1>3. ASSUME NEW d \in {-1, 1}, Step(d)
      PROVE  TypeOK'
  <2>1. index' \in Nat
    <3>1. CASE list # <<>>
      <4>1. Len(list) \in Nat /\ Len(list) > 0
        BY <3>1, ListTypes DEF TypeOK
      <4>2. (index + d + Len(list)) % Len(list) \in Nat
        BY <4>1 DEF TypeOK
      <4> QED BY <1>3, <4>2 DEF Step, TypeOK
    <3>2. CASE list = <<>>
      BY <1>3, <3>2 DEF Step, TypeOK
    <3> QED BY <3>1, <3>2
  <2>2. cmd' \in 0..CmdCap
    BY <1>3, WakeTypes DEF Step, CmdCap
  <2> QED BY <1>1, <1>3, <2>1, <2>2 DEF Step, TypeOK, Ordinary, mail, shown, stores
<1>4. ASSUME NEW l \in Lists, SetList(l)
      PROVE  TypeOK'
  <2>1. /\ flash' \in [record: Record, playing: BOOLEAN, list: Lists]
        /\ list' \in Lists /\ cmd' \in 0..CmdCap
    BY <1>4, SetTypes DEF SetList
  <2>2. /\ UNCHANGED <<playing, index, sched>>
        /\ UNCHANGED <<library, mail, controls, dirty, wanted, shown, resume>> /\ Ask
    BY <1>4 DEF SetList, set_from_wire, Ordinary
  <2> QED BY <1>1, <2>1, <2>2 DEF TypeOK, mail, shown
<1>5. ASSUME NEW id \in Ids, Delete(id)
      PROVE  TypeOK'
  <2>1. /\ flash' \in [record: Record, playing: BOOLEAN, list: Lists]
        /\ list' \in Lists /\ cmd' \in 0..CmdCap /\ UNCHANGED <<playing, index, sched>>
    <3>1. CASE UNCHANGED <<flash, player>>
      BY <3>1 DEF TypeOK, player
    <3>2. CASE id \in Scenes /\ set_from_wire(drop_scene_lines(id, flash.list))
      <4>1. drop_scene_lines(id, flash.list) \in Lists
        BY <3>2, ListTypes DEF TypeOK
      <4>2. UNCHANGED <<playing, index, sched>>
        BY <3>2 DEF set_from_wire
      <4> QED BY <3>2, <4>1, <4>2, SetTypes
    <3> QED BY <1>5, <3>1, <3>2 DEF Delete
  <2>2. library' \subseteq Ids /\ active' \in Scenes \cup {None}
    BY <1>5 DEF Delete, TypeOK
  <2>3. UNCHANGED <<screen, current, remap, mapped, mail, controls, dirty, resume, wanted>> /\ Ask
    BY <1>5 DEF Delete
  <2> QED BY <1>1, <2>1, <2>2, <2>3 DEF TypeOK, mail
<1>6. ASSUME Stop
      PROVE  TypeOK'
  <2>1. flash' \in [record: Record, playing: BOOLEAN, list: Lists]
    BY <1>6, StoredTypes DEF Stop, Stopped, TypeOK
  <2>2. cmd' \in 0..CmdCap
    BY <1>6, WakeTypes DEF Stop, Stopped, CmdCap
  <2>3. /\ UNCHANGED <<library, list, queue, outbox, turn>>
        /\ UNCHANGED <<screen, active, current, remap, mapped, controls>>
        /\ UNCHANGED <<index, sched, resume, wanted>>
        /\ playing' = FALSE /\ dirty' = TRUE /\ Ask
    BY <1>6 DEF Stop, Stopped, Ordinary, mail, shown
  <2> QED BY <1>1, <2>1, <2>2, <2>3, AsideTypes DEF TypeOK
<1> QED BY <1>2, <1>3, <1>4, <1>5, <1>6

(* A task sends the first of its letters.                                    *)
LEMMA SendEffect ==
  ASSUME TypeOK, NEW t \in Tasks, Send(t)
  PROVE  /\ outbox[t] \in Seq(Letter) /\ Len(outbox[t]) \in Nat /\ Len(outbox[t]) > 0
         /\ outbox[t][1] \in Letter
         /\ queue' \in Seq(Message) /\ Len(queue) \in Nat /\ Len(queue') = Len(queue) + 1
         /\ \A k \in 1..Len(queue): queue'[k] = queue[k]
         /\ queue'[Len(queue) + 1] = [kind |-> outbox[t][1].kind, id |-> outbox[t][1].id,
                                      val |-> outbox[t][1].val]
         /\ controls' = IF outbox[t][1].seed = Keep THEN controls ELSE outbox[t][1].seed
         /\ dirty' = (dirty \/ outbox[t][1].mark)
         /\ outbox' \in [Tasks -> Seq(Letter)]
         /\ Len(outbox'[t]) = Len(outbox[t]) - 1
         /\ \A k \in 1..Len(outbox'[t]): outbox'[t][k] = outbox[t][k + 1]
         /\ \A u \in Tasks \ {t}: outbox'[u] = outbox[u]
         /\ turn' \in Tasks \cup {None}
<1> DEFINE m == [kind |-> outbox[t][1].kind, id |-> outbox[t][1].id, val |-> outbox[t][1].val]
<1>1. outbox[t] \in Seq(Letter) /\ outbox[t] # <<>> /\ queue \in Seq(Message)
  BY DEF TypeOK, Send
<1>2. /\ Head(outbox[t]) = outbox[t][1] /\ outbox[t][1] \in Letter
      /\ Len(outbox[t]) \in Nat /\ Len(outbox[t]) > 0
  BY <1>1, EmptySeq, ElementOfSeq, HeadTailProperties
<1>3. /\ Tail(outbox[t]) \in Seq(Letter) /\ Len(Tail(outbox[t])) = Len(outbox[t]) - 1
      /\ \A k \in 1..Len(Tail(outbox[t])): Tail(outbox[t])[k] = outbox[t][k + 1]
  BY <1>1, HeadTailProperties
<1>4. m \in Message
  BY <1>2 DEF Letter, Message, Addressed
<1>5. /\ queue' = Append(queue, m)
      /\ controls' = IF outbox[t][1].seed = Keep THEN controls ELSE outbox[t][1].seed
      /\ dirty' = (dirty \/ outbox[t][1].mark)
  BY <1>2 DEF Send
<1> HIDE DEF m
<1>6. /\ queue' \in Seq(Message) /\ Len(queue) \in Nat /\ Len(queue') = Len(queue) + 1
      /\ \A k \in 1..Len(queue): queue'[k] = queue[k]
      /\ queue'[Len(queue) + 1] = m
  BY <1>1, <1>4, <1>5, AppendProperties
<1>7. outbox' = [outbox EXCEPT ![t] = Tail(outbox[t])]
  BY DEF Send
<1>8. /\ outbox' \in [Tasks -> Seq(Letter)] /\ outbox'[t] = Tail(outbox[t])
      /\ \A u \in Tasks \ {t}: outbox'[u] = outbox[u]
  BY <1>3, <1>7 DEF TypeOK
<1>9. turn' \in Tasks \cup {None}
  BY DEF Send
<1> QED BY <1>1, <1>2, <1>3, <1>5, <1>6, <1>8, <1>9 DEF m

(* Sending a letter.                                                         *)
LEMMA SendTypes ==
  ASSUME TypeOK, NEW t \in Tasks, Send(t) \/ Block(t)
  PROVE  TypeOK'
<1>1. CASE Send(t)
  <2>1. outbox[t][1].seed \in Values \cup {Keep} /\ outbox[t][1].mark \in BOOLEAN
    BY <1>1, SendEffect DEF Letter
  <2>2. /\ controls' \in Values /\ dirty' \in BOOLEAN
        /\ queue' \in Seq(Message) /\ outbox' \in [Tasks -> Seq(Letter)]
        /\ turn' \in Tasks \cup {None}
    BY <1>1, <2>1, SendEffect DEF TypeOK
  <2> QED BY <1>1, <2>2 DEF Send, TypeOK, stores, player, shown, history
<1>2. CASE Block(t)
  BY <1>2 DEF Block, TypeOK, stores, player, shown, history, keeper
<1> QED BY <1>1, <1>2

(* The render task takes the first message.                                  *)
LEMMA ReceiveEffect ==
  ASSUME TypeOK, Receive
  PROVE  /\ Len(queue) \in Nat /\ Len(queue) > 0
         /\ Head(queue) = queue[1] /\ queue[1] \in Message
         /\ queue' \in Seq(Message) /\ Len(queue') = Len(queue) - 1
         /\ \A k \in 1..Len(queue'): queue'[k] = queue[k + 1]
<1>1. queue \in Seq(Message) /\ queue # <<>> /\ queue' = Tail(queue)
  BY DEF TypeOK, Receive
<1> QED BY <1>1, EmptySeq, ElementOfSeq, HeadTailProperties

(* What a message makes of the screen, the active scene and the current      *)
(* pattern.                                                                  *)
LEMMA ScreenTypes ==
  ASSUME TypeOK, NEW m \in Message,
         \/ m.kind = "library" /\ SwapPattern(m.id)
         \/ m.kind = "scene" /\ SwapScene(m.id)
         \/ m.kind = "code" /\ SwapCode
         \/ m.kind = "config" /\ Rebuild
         \/ m.kind = "freeze" /\ screen' = Nothing /\ UNCHANGED <<active, current, remap>>
         \/ /\ m.kind = "control"
            /\ screen' = IF screen = Nothing THEN screen ELSE [screen EXCEPT !.ctl = m.val]
            /\ UNCHANGED <<active, current, remap>>
  PROVE  /\ screen' \in [id: Ids \cup {None, AdHoc}, ctl: Values]
         /\ active' \in Scenes \cup {None}
         /\ current' \in Patterns \cup {None, AdHoc} /\ remap' \in BOOLEAN
<1>1. Nothing \in [id: Ids \cup {None, AdHoc}, ctl: Values]
  BY IdFacts DEF Nothing
<1>2. m.id \in Ids \cup {None} /\ m.val \in Values /\ Addressed(m)
  BY DEF Message
<1>3. CASE m.kind = "library" /\ SwapPattern(m.id)
  <2>1. m.id \in Patterns /\ [id |-> m.id, ctl |-> 0] \in [id: Ids \cup {None, AdHoc}, ctl: Values]
    BY <1>2, <1>3, IdFacts DEF Addressed
  <2>2. Left \subseteq [id: Ids \cup {None, AdHoc}, ctl: Values]
    BY <1>1 DEF Left, TypeOK
  <2>3. remap' \in BOOLEAN
    BY <1>3 DEF SwapPattern, TypeOK
  <2> QED BY <1>3, <2>1, <2>2, <2>3 DEF SwapPattern, Swapped, TypeOK
<1>4. CASE m.kind = "scene" /\ SwapScene(m.id)
  <2>1. /\ m.id \in Scenes /\ Base[m.id] \in Patterns
        /\ [id |-> m.id, ctl |-> 0] \in [id: Ids \cup {None, AdHoc}, ctl: Values]
    BY <1>2, <1>4, IdFacts DEF Addressed
  <2>2. remap' \in BOOLEAN
    BY <1>4 DEF SwapScene, TypeOK
  <2> QED BY <1>4, <2>1, <2>2 DEF SwapScene, Swapped, TypeOK
<1>5. CASE m.kind = "code" /\ SwapCode
  BY <1>1, <1>5, IdFacts DEF SwapCode, OfThePush, TypeOK
<1>6. CASE m.kind = "config" /\ Rebuild
  BY <1>1, <1>6, IdFacts DEF Rebuild, rebuild, TypeOK
<1>7. CASE m.kind = "freeze" /\ screen' = Nothing /\ UNCHANGED <<active, current, remap>>
  BY <1>1, <1>7 DEF TypeOK
<1>8. CASE /\ m.kind = "control"
           /\ screen' = IF screen = Nothing THEN screen ELSE [screen EXCEPT !.ctl = m.val]
           /\ UNCHANGED <<active, current, remap>>
  BY <1>2, <1>8 DEF TypeOK
<1> QED BY <1>3, <1>4, <1>5, <1>6, <1>7, <1>8

(* The render task.                                                          *)
LEMMA ReceiveTypes == ASSUME TypeOK, Receive PROVE TypeOK'
<1>1. /\ screen' \in [id: Ids \cup {None, AdHoc}, ctl: Values]
      /\ active' \in Scenes \cup {None} /\ current' \in Patterns \cup {None, AdHoc}
      /\ remap' \in BOOLEAN
  <2>1. Head(queue) \in Message
    BY ReceiveEffect
  <2> QED BY <2>1, ScreenTypes DEF Receive
<1>2. queue' \in Seq(Message)
  BY ReceiveEffect
<1>3. fresh' \in BOOLEAN /\ wanted' \in Ids \cup {None}
  BY DEF Receive, TypeOK
<1> QED BY <1>1, <1>2, <1>3 DEF Receive, TypeOK, stores, player, keeper

(* What take_dirty leaves on the screen.                                     *)
LEMMA RemapEffect ==
  ASSUME TypeOK, Remap
  PROVE  /\ queue = <<>> /\ remap /\ remap' = FALSE
         /\ \/ screen' \in {screen, Nothing}
            \/ /\ active = None \/ screen.id # None \/ "revived" \in Mishaps
               /\ screen.id \notin Scenes
               /\ screen' = [id |-> current, ctl |-> 0] /\ current \in library \cup {AdHoc}
         /\ UNCHANGED <<flash, library, playing, list, index, sched, cmd, aimed, queue, outbox, turn>>
         /\ UNCHANGED <<controls, dirty, resume, active, current, mapped, used>>
BY DEF Remap, BaseOfAScene, rebuild, stores, player, mail, keeper

(* The map.                                                                  *)
LEMMA RemapTypes == ASSUME TypeOK, Remap PROVE TypeOK'
<1>1. screen' \in [id: Ids \cup {None, AdHoc}, ctl: Values]
  <2>1. Nothing \in [id: Ids \cup {None, AdHoc}, ctl: Values]
    BY IdFacts DEF Nothing
  <2>2. [id |-> current, ctl |-> 0] \in [id: Ids \cup {None, AdHoc}, ctl: Values]
    BY IdFacts DEF TypeOK
  <2> QED BY <2>1, <2>2, RemapEffect DEF TypeOK
<1>2. wanted' \in {None, wanted} /\ fresh' \in BOOLEAN
  <2>1. wanted' \in {None, wanted}
    BY DEF Remap
  <2>2. fresh' = (fresh /\ screen'.id = screen.id)
    BY DEF Remap
  <2>3. fresh' \in BOOLEAN
    BY <2>2
  <2> QED BY <2>1, <2>3
<1>3. /\ UNCHANGED <<flash, library, playing, list, index, sched, cmd, queue, outbox, turn>>
      /\ UNCHANGED <<controls, dirty, resume, active, current, mapped, used>>
      /\ remap' \in BOOLEAN
  BY RemapEffect
<1>4. wanted' \in Ids \cup {None}
  BY <1>2, IdFacts DEF TypeOK
<1> QED BY <1>1, <1>2, <1>3, <1>4 DEF TypeOK

(* The task that enters an item, or applies the record.                      *)
LEMMA PostedTypes ==
  ASSUME TypeOK, NEW t \in Tasks, NEW what, what.id \in Ids, what.ctl \in Values,
         Post(t, Install(what)) \/ Post(t, <<>>)
  PROVE  queue' = queue /\ outbox' \in [Tasks -> Seq(Letter)] /\ turn' \in Tasks \cup {None}
BY InstallLetters, EmptySeq, PostEffect

(* The scheduler waits on an item of a list that had one.                    *)
Holding == sched.pc = "hold" => sched.seen # <<>>

(* The scheduler.                                                            *)
LEMMA ScheduleTypes == ASSUME TypeOK, Holding, Schedule PROVE TypeOK'
<1>1. CASE Rest
  <2>1. /\ UNCHANGED <<library, list, queue, outbox, turn>>
        /\ UNCHANGED <<screen, active, current, remap, mapped, controls>>
        /\ UNCHANGED <<flash, playing, index, cmd, dirty, resume, wanted, fresh, used>>
    BY <1>1 DEF Rest, stores, shown, mail, keeper, history
  <2>2. sched' \in [pc: {"look", "idle", "hold"}, i: Nat, seen: Lists \cup {<<>>}]
    BY <1>1 DEF Rest, Scheduler, TypeOK
  <2> QED BY <2>1, <2>2, AsideTypes DEF TypeOK
<1>2. CASE NoItems
  <2>1. /\ UNCHANGED <<library, list, queue, outbox, turn>>
        /\ UNCHANGED <<screen, active, current, remap, mapped, controls>>
        /\ UNCHANGED <<flash, index, cmd, dirty, resume, wanted, fresh, used>>
    BY <1>2 DEF NoItems, stores, shown, mail, keeper, history
  <2>2. /\ sched' \in [pc: {"look", "idle", "hold"}, i: Nat, seen: Lists \cup {<<>>}]
        /\ playing' \in BOOLEAN
    BY <1>2 DEF NoItems, Scheduler, TypeOK
  <2> QED BY <2>1, <2>2, AsideTypes DEF TypeOK
<1>3. CASE Enter
  <2>1. queue' = queue /\ outbox' \in [Tasks -> Seq(Letter)] /\ turn' \in Tasks \cup {None}
    <3>1. index < Len(list) => list[index + 1].id \in Ids /\ list[index + 1].ctl \in Values
      BY ListTypes DEF TypeOK
    <3>2. CASE index < Len(list) /\ list[index + 1].id \in library
      BY <1>3, <3>1, <3>2, PostedTypes, TaskNames DEF Enter
    <3>3. CASE ~(index < Len(list) /\ list[index + 1].id \in library)
      BY <1>3, <3>3, PostEffect, TaskNames, EmptySeq DEF Enter
    <3> QED BY <3>2, <3>3
  <2>2. sched' \in [pc: {"look", "idle", "hold"}, i: Nat, seen: Lists \cup {<<>>}]
    BY <1>3 DEF Enter, Scheduler, TypeOK
  <2> QED BY <1>3, <2>1, <2>2 DEF Enter, TypeOK, Wants, stores, shown, keeper
<1>4. CASE TakeCommand
  <2>1. cmd' \in 0..CmdCap
    BY <1>4 DEF TakeCommand, TypeOK, CmdCap
  <2>2. sched' \in [pc: {"look", "idle", "hold"}, i: Nat, seen: Lists \cup {<<>>}]
    BY <1>4 DEF TakeCommand, Scheduler, TypeOK
  <2> QED BY <1>4, <2>1, <2>2 DEF TakeCommand, TypeOK, stores, shown, mail, keeper, history
<1>5. CASE Advance
  <2>1. Len(sched.seen) \in Nat /\ Len(sched.seen) > 0 /\ sched.i \in Nat
    BY <1>5, ListTypes DEF TypeOK, Holding, Advance
  <2>2. index' \in Nat
    BY <1>5, <2>1 DEF Advance
  <2>3. sched' \in [pc: {"look", "idle", "hold"}, i: Nat, seen: Lists \cup {<<>>}]
    BY <1>5 DEF Advance, Scheduler, TypeOK
  <2> QED BY <1>5, <2>2, <2>3 DEF Advance, TypeOK, stores, shown, mail, keeper, history
<1> QED BY <1>1, <1>2, <1>3, <1>4, <1>5 DEF Schedule

(* The task that keeps the record.                                           *)
LEMMA ResumeTypes == ASSUME TypeOK, Resume PROVE TypeOK'
<1>1. CASE StartResume
  BY <1>1 DEF StartResume, TypeOK, stores, player, shown, mail, history
<1>2. CASE Apply
  <2>1. flash.record.id \in Ids /\ flash.record.ctl \in Values
    BY <1>2 DEF Apply, Restorable, TypeOK, Record
  <2>2. queue' = queue /\ outbox' \in [Tasks -> Seq(Letter)] /\ turn' \in Tasks \cup {None}
    BY <1>2, <2>1, PostedTypes, TaskNames DEF Apply
  <2> QED BY <1>2, <2>2 DEF Apply, TypeOK, stores, player, shown, history
<1>3. CASE TooTight
  <2>1. /\ UNCHANGED <<library, list, queue, outbox, turn>>
        /\ UNCHANGED <<screen, active, current, remap, mapped, controls>>
        /\ UNCHANGED <<flash, playing, index, cmd, sched, dirty, wanted, used>>
    BY <1>3 DEF TooTight, stores, player, shown, mail
  <2>2. resume' = "wait" /\ fresh' = FALSE
    BY <1>3 DEF TooTight
  <2> QED BY <2>1, <2>2, AsideTypes DEF TypeOK
<1>4. CASE SeeDirty
  <2>1. /\ UNCHANGED <<library, list, queue, outbox, turn>>
        /\ UNCHANGED <<screen, active, current, remap, mapped, controls>>
        /\ UNCHANGED <<flash, playing, index, cmd, sched, wanted, fresh, used>>
    BY <1>4 DEF SeeDirty, stores, player, shown, mail, history
  <2>2. resume' = "debounce" /\ dirty' = FALSE
    BY <1>4 DEF SeeDirty
  <2> QED BY <2>1, <2>2, AsideTypes DEF TypeOK
<1>5. CASE Persist
  <2>1. snapshot_record \in Record
    BY IdFacts DEF snapshot_record, TypeOK, Record
  <2>2. flash' \in [record: Record, playing: BOOLEAN, list: Lists]
    BY <1>5, <2>1, StoredTypes DEF Persist
  <2> QED BY <1>5, <2>2 DEF Persist, TypeOK, player, shown, mail, history
<1> QED BY <1>1, <1>2, <1>3, <1>4, <1>5 DEF Resume

(* A reboot.                                                                 *)
LEMMA RebootTypes == ASSUME TypeOK, Reboot PROVE TypeOK'
<1>1. /\ list' \in Lists /\ playing' \in BOOLEAN /\ flash' = flash /\ library' = library
      /\ used' \in [asks: Nat, boots: Nat]
  <2>1. used \in [asks: Nat, boots: Nat] /\ used' = [used EXCEPT !.boots = used.boots + 1]
    BY DEF Reboot, TypeOK
  <2>2. used' \in [asks: Nat, boots: Nat]
    BY <2>1
  <2> QED BY <2>2 DEF Reboot, TypeOK, stores
<1>2. outbox' \in [Tasks -> Seq(Letter)] /\ queue' \in Seq(Message)
  BY DEF Reboot, Empty
<1>3. sched' \in [pc: {"look", "idle", "hold"}, i: Nat, seen: Lists \cup {<<>>}]
  BY DEF Reboot, NotYet
<1>4. screen' \in [id: Ids \cup {None, AdHoc}, ctl: Values]
  BY IdFacts DEF Reboot, Nothing
<1>5. cmd' \in 0..CmdCap
  BY DEF Reboot, CmdCap
<1>6. /\ index' \in Nat /\ turn' \in Tasks \cup {None}
      /\ active' \in Scenes \cup {None} /\ current' \in Patterns \cup {None, AdHoc}
      /\ mapped' \in BOOLEAN /\ remap' \in BOOLEAN
      /\ controls' \in Values /\ dirty' \in BOOLEAN
      /\ resume' \in {"off", "heap", "wait", "debounce"}
      /\ wanted' \in Ids \cup {None} /\ fresh' \in BOOLEAN
  BY IdFacts DEF Reboot, TypeOK
<1> QED BY <1>1, <1>2, <1>3, <1>4, <1>5, <1>6 DEF TypeOK

(* Every step keeps the types, and a scheduler that waits on an item has its *)
(* list.                                                                     *)
LEMMA TypeStep ==
  ASSUME TypeOK, Holding, [Next]_vars
  PROVE  TypeOK' /\ Holding'
<1> USE DEF vars, stores, player, shown, mail, keeper, history
<1>1. TypeOK'
  <2>1. CASE UNCHANGED vars
    BY <2>1 DEF TypeOK
  <2>2. CASE Request
    BY <2>2, ClientTypes, PlayerTypes DEF Request
  <2>3. CASE Schedule
    BY <2>3, ScheduleTypes
  <2> QED BY <2>1, <2>2, <2>3, ReceiveTypes, RemapTypes, ResumeTypes, RebootTypes, SendTypes DEF Next
<1>2. Holding'
  <2>1. ASSUME UNCHANGED sched
        PROVE  Holding'
    BY <2>1 DEF Holding
  <2>2. CASE Schedule
    BY <2>2 DEF Schedule, Rest, NoItems, Enter, TakeCommand, Advance, Scheduler, Holding, TypeOK
  <2>3. CASE Reboot
    BY <2>3 DEF Reboot, NotYet, Holding
  <2>4. CASE Request
    <3>1. UNCHANGED sched
      BY <2>4 DEF Request, Activate, Select, Control, SaveScene, PushCode, Resize, Freeze, Play, Step,
                  SetList, Delete, Stop, Stopped, set_from_wire
    <3> QED BY <2>1, <3>1
  <2>5. CASE Resume
    BY <2>1, <2>5 DEF Resume, StartResume, Apply, TooTight, SeeDirty, Persist
  <2>6. CASE Receive \/ Remap
    BY <2>1, <2>6 DEF Receive, Remap
  <2>7. CASE \E t \in Tasks: Send(t) \/ Block(t)
    BY <2>1, <2>7 DEF Send, Block
  <2>8. CASE UNCHANGED vars
    BY <2>1, <2>8
  <2> QED BY <2>2, <2>3, <2>4, <2>5, <2>6, <2>7, <2>8 DEF Next
<1> QED BY <1>1, <1>2

-----------------------------------------------------------------------------
(* The scheduler and its commands.                                           *)

(* A command that changes list, index or play state leaves a wake, or the    *)
(* scheduler looks again.                                                    *)
LEMMA SchedStep ==
  ASSUME TypeOK, SchedInv, "tie" \notin Mishaps, [Next]_vars
  PROVE  SchedInv'
<1>0. cmd \in 0..CmdCap /\ CmdCap = 4 /\ sched.pc \in {"look", "idle", "hold"}
  BY DEF TypeOK, CmdCap
<1>1. ASSUME UNCHANGED player
      PROVE  SchedInv'
  BY <1>1 DEF player, SchedInv
<1>2. CASE Schedule
  <2>1. CASE Rest
    BY <2>1 DEF Rest, Scheduler, SchedInv, TypeOK
  <2>2. CASE NoItems
    BY <2>2 DEF NoItems, Scheduler, SchedInv, TypeOK
  <2>3. CASE Enter
    BY <2>3 DEF Enter, Scheduler, SchedInv, TypeOK, NoIndex
  <2>4. CASE TakeCommand
    BY <2>4 DEF TakeCommand, Scheduler, SchedInv, TypeOK
  <2>5. CASE Advance
    <3>1. sched'.pc = "look" /\ UNCHANGED <<playing, aimed>> /\ cmd = 0 /\ sched.pc = "hold"
      BY <2>5 DEF Advance, Scheduler, TypeOK
    <3> QED BY <3>1 DEF SchedInv
  <2> QED BY <1>2, <2>1, <2>2, <2>3, <2>4, <2>5 DEF Schedule
<1>3. wake > 0
  BY <1>0 DEF wake
<1>4. CASE Request
  <2>1. ASSUME Stopped
        PROVE  SchedInv'
    BY <2>1, <1>3 DEF Stopped, SchedInv
  <2>2. ASSUME NEW l, set_from_wire(l)
        PROVE  SchedInv'
    BY <2>2, <1>3 DEF set_from_wire, SchedInv
  <2>3. ASSUME NEW i \in 0..1, Play(i)
        PROVE  SchedInv'
    BY <2>3, <1>3 DEF Play, SchedInv
  <2>4. ASSUME NEW d \in {-1, 1}, Step(d)
        PROVE  SchedInv'
    BY <2>4, <1>3 DEF Step, SchedInv
  <2>5. ASSUME NEW id \in Ids, Delete(id)
        PROVE  SchedInv'
    BY <2>5, <2>2, <1>1 DEF Delete
  <2>6. ASSUME NEW c \in Clients, NEW id \in Ids, Activate(c, id) \/ Select(c, id)
        PROVE  SchedInv'
    BY <2>6, <2>1, <1>1 DEF Activate, Select
  <2>7. ASSUME NEW c \in Clients, NEW v \in Values, Control(c, v)
        PROVE  SchedInv'
    BY <2>7, <1>1 DEF Control
  <2>8. ASSUME NEW c \in Clients, SaveScene(c) \/ PushCode(c) \/ Resize(c) \/ Freeze(c)
        PROVE  SchedInv'
    BY <2>8, <2>1, <1>1 DEF SaveScene, PushCode, Resize, Freeze
  <2>9. ASSUME NEW l \in Lists, SetList(l)
        PROVE  SchedInv'
    BY <2>9, <2>2 DEF SetList
  <2> QED BY <1>4, <2>1, <2>3, <2>4, <2>5, <2>6, <2>7, <2>8, <2>9 DEF Request, Stop
<1>5. CASE Resume
  BY <1>5, <1>1 DEF Resume, StartResume, Apply, TooTight, SeeDirty, Persist
<1>6. CASE Receive \/ Remap
  BY <1>6, <1>1 DEF Receive, Remap
<1>7. CASE \E t \in Tasks: Send(t) \/ Block(t)
  BY <1>7, <1>1 DEF Send, Block
<1>8. CASE Reboot
  BY <1>8 DEF Reboot, NotYet, SchedInv
<1>9. CASE UNCHANGED vars
  BY <1>9, <1>1 DEF vars
<1> QED BY <1>2, <1>4, <1>5, <1>6, <1>7, <1>8, <1>9 DEF Next

-----------------------------------------------------------------------------
(* One sender at a time.                                                     *)

(* Who posts while nobody waits is the only one with a letter.               *)
LEMMA NobodyElse ==
  ASSUME TypeOK, "full" \notin Mishaps, NobodyWaits,
         NEW t \in Tasks, NEW letters \in Seq(Letter), Post(t, letters)
  PROVE  /\ \A u \in Tasks: outbox[u] = <<>>
         /\ outbox'[t] = letters /\ \A u \in Tasks \ {t}: outbox'[u] = <<>>
         /\ queue' = queue
BY PostEffect DEF NobodyWaits

(* An outbox is empty or has a first letter.                                 *)
LEMMA EmptyBoxes ==
  ASSUME TypeOK, NEW t \in Tasks
  PROVE  /\ outbox[t] \in Seq(Letter) /\ Len(outbox[t]) \in Nat
         /\ DOMAIN outbox[t] = 1..Len(outbox[t])
         /\ outbox[t] = <<>> <=> Len(outbox[t]) = 0
BY EmptySeq, LenProperties DEF TypeOK

(* Only who found nobody waiting posts, when two senders never await room.   *)
LEMMA SenderStep ==
  ASSUME TypeOK, TypeOK', OneSender, "full" \notin Mishaps, [Next]_vars
  PROVE  OneSender'
<1>1. ASSUME UNCHANGED outbox
      PROVE  OneSender'
  BY <1>1 DEF OneSender
<1>2. ASSUME NobodyWaits, NEW t \in Tasks, NEW letters, Post(t, letters)
      PROVE  OneSender'
  <2>1. \A u \in Tasks: outbox[u] = <<>>
    BY <1>2 DEF NobodyWaits
  <2>2. \A u \in Tasks \ {t}: outbox'[u] = <<>>
    BY <1>2, <2>1 DEF Post, TypeOK
  <2> QED BY <2>2 DEF OneSender
<1>3. ASSUME NEW t \in Tasks, Send(t)
      PROVE  OneSender'
  <2>1. outbox[t] # <<>> /\ \A u \in Tasks \ {t}: outbox'[u] = outbox[u]
    BY <1>3, SendEffect DEF Send
  <2> QED BY <2>1 DEF OneSender
<1>4. CASE Request
  <2>1. ASSUME NEW c \in Clients,
               \/ \E id \in Ids: Activate(c, id) \/ Select(c, id)
               \/ \E v \in Values: Control(c, v)
               \/ SaveScene(c) \/ PushCode(c) \/ Resize(c) \/ Freeze(c)
        PROVE  OneSender'
    <3>1. NobodyWaits /\ \E letters: Post(c, letters)
      BY <2>1 DEF Activate, Select, Control, SaveScene, PushCode, Resize, Freeze, Ask
    <3> QED BY <3>1, <1>2, TaskNames
  <2>2. ASSUME \/ \E i \in 0..1: Play(i)
               \/ \E d \in {-1, 1}: Step(d)
               \/ \E l \in Lists: SetList(l)
               \/ \E id \in Ids: Delete(id)
               \/ Stop
        PROVE  OneSender'
    BY <2>2, <1>1 DEF Play, Step, SetList, Delete, Stop, mail
  <2> QED BY <1>4, <2>1, <2>2 DEF Request
<1>5. CASE Schedule
  <2>1. CASE Enter
    BY <2>1, <1>2, TaskNames DEF Enter
  <2> QED BY <1>5, <2>1, <1>1 DEF Schedule, Rest, NoItems, TakeCommand, Advance, mail
<1>6. CASE Resume
  <2>1. CASE Apply
    BY <2>1, <1>2, TaskNames DEF Apply
  <2> QED BY <1>6, <2>1, <1>1 DEF Resume, StartResume, TooTight, SeeDirty, Persist, mail
<1>7. CASE Receive \/ Remap
  BY <1>7, <1>1 DEF Receive, Remap, mail
<1>8. CASE Reboot
  BY <1>8 DEF Reboot, Empty, OneSender
<1>9. CASE \E t \in Tasks: Send(t) \/ Block(t)
  BY <1>9, <1>3, <1>1 DEF Block
<1>10. CASE UNCHANGED vars
  BY <1>10, <1>1 DEF vars, mail
<1> QED BY <1>4, <1>5, <1>6, <1>7, <1>8, <1>9, <1>10 DEF Next

-----------------------------------------------------------------------------
(* What was asked for last.                                                  *)

(* Nothing that leaves mail, screen and wish alone can lose it.              *)
LEMMA WantedStands ==
  ASSUME WantedInv, UNCHANGED <<queue, outbox, screen, wanted>>,
         resume' \in {"off", "heap"} => resume \in {"off", "heap"}
  PROVE  WantedInv'
<1>1. OnTheWay(wanted) => OnTheWay(wanted)'
  BY DEF OnTheWay, Controls, LastShow
<1> QED BY <1>1 DEF WantedInv

(* A letter that goes into the queue is still on its way.                    *)
LEMMA WantedSend ==
  ASSUME TypeOK, OneSender, WantedInv, NEW t \in Tasks, Send(t)
  PROVE  WantedInv'
<1> DEFINE n == Len(queue)
<1>1. wanted' = wanted /\ resume' = resume /\ screen' = screen
  BY DEF Send, history, shown
<1>2. SUFFICES ASSUME wanted # None
               PROVE  OnTheWay(wanted)'
  BY <1>1 DEF WantedInv
<1>3. \A u \in Tasks \ {t}: outbox[u] = <<>> /\ outbox'[u] = <<>>
  BY SendEffect DEF OneSender, Send
<1>4. /\ n \in Nat /\ DOMAIN queue = 1..n /\ DOMAIN queue' = 1..(n + 1)
      /\ \A k \in 1..n: queue'[k] = queue[k]
      /\ queue'[n + 1].kind = outbox[t][1].kind /\ queue'[n + 1].id = outbox[t][1].id
  <2>1. queue \in Seq(Message) /\ queue' \in Seq(Message) /\ Len(queue') = n + 1
    BY SendEffect DEF TypeOK
  <2>2. n \in Nat /\ DOMAIN queue = 1..n /\ DOMAIN queue' = 1..(n + 1)
    BY <2>1, LenProperties
  <2>3. /\ \A k \in 1..n: queue'[k] = queue[k]
        /\ queue'[n + 1] = [kind |-> outbox[t][1].kind, id |-> outbox[t][1].id,
                            val |-> outbox[t][1].val]
    BY SendEffect
  <2> HIDE DEF n
  <2>4. queue'[n + 1].kind = outbox[t][1].kind /\ queue'[n + 1].id = outbox[t][1].id
    BY <2>3
  <2> QED BY <2>2, <2>3, <2>4
<1>5. /\ DOMAIN outbox[t] = 1..Len(outbox[t]) /\ Len(outbox[t]) \in Nat /\ Len(outbox[t]) > 0
      /\ DOMAIN outbox'[t] = 1..(Len(outbox[t]) - 1)
      /\ \A k \in 1..(Len(outbox[t]) - 1): outbox'[t][k] = outbox[t][k + 1]
  <2>1. outbox'[t] \in Seq(Letter) /\ Len(outbox'[t]) = Len(outbox[t]) - 1
    BY SendEffect
  <2>2. outbox[t] \in Seq(Letter) /\ Len(outbox[t]) > 0
    BY SendEffect
  <2>3. \A k \in 1..(Len(outbox[t]) - 1): outbox'[t][k] = outbox[t][k + 1]
    BY <2>1, SendEffect
  <2>4. /\ DOMAIN outbox[t] = 1..Len(outbox[t]) /\ Len(outbox[t]) \in Nat
        /\ DOMAIN outbox'[t] = 1..Len(outbox'[t])
    BY <2>1, <2>2, LenProperties
  <2> QED BY <2>1, <2>2, <2>3, <2>4
<1> HIDE DEF n
<1>6. CASE \E u \in Tasks: Len(outbox[u]) = 1 /\ outbox[u][1].kind \in Shows
                             /\ outbox[u][1].id = wanted
  <2>1. Len(outbox[t]) = 1 /\ outbox[t][1].kind \in Shows /\ outbox[t][1].id = wanted
    BY <1>3, <1>6, EmptyBoxes
  <2>2. \A u \in Tasks: Controls(outbox'[u])
    BY <1>3, <1>5, <2>1 DEF Controls
  <2>3. LastShow(wanted)'
    <3>1. n + 1 \in DOMAIN queue' /\ \A j \in DOMAIN queue': ~(j > n + 1)
      BY <1>4
    <3> QED BY <1>1, <1>4, <2>1, <3>1 DEF LastShow
  <2> QED BY <1>1, <2>2, <2>3 DEF OnTheWay, Controls
<1>7. CASE (\A u \in Tasks: Controls(outbox[u]))
             /\ (LastShow(wanted) \/ (Controls(queue) /\ screen.id = wanted))
  <2>1. outbox[t][1].kind = "control"
    BY <1>5, <1>7 DEF Controls
  <2>2. \A u \in Tasks: Controls(outbox'[u])
    <3>1. Controls(outbox'[t])
      BY <1>5, <1>7 DEF Controls
    <3> QED BY <1>3, <3>1 DEF Controls
  <2>3. CASE LastShow(wanted)
    <3>1. PICK k \in 1..n: /\ queue[k].kind \in Shows /\ queue[k].id = wanted
                           /\ \A j \in 1..n: j > k => queue[j].kind = "control"
      BY <2>3, <1>4 DEF LastShow
    <3>2. k \in DOMAIN queue' /\ queue'[k].kind \in Shows /\ queue'[k].id = wanted
      BY <3>1, <1>4
    <3>3. \A j \in DOMAIN queue': j > k => queue'[j].kind = "control"
      BY <3>1, <1>4, <2>1
    <3>4. LastShow(wanted)'
      BY <1>1, <3>2, <3>3 DEF LastShow
    <3> QED BY <1>1, <2>2, <3>4 DEF OnTheWay, Controls
  <2>4. CASE Controls(queue) /\ screen.id = wanted
    <3>1. \A j \in 1..(n + 1): queue'[j].kind = "control"
      BY <1>4, <2>1, <2>4 DEF Controls
    <3>2. Controls(queue') /\ screen'.id = wanted
      BY <3>1, <1>1, <1>4, <2>4 DEF Controls
    <3> QED BY <1>1, <2>2, <3>2 DEF OnTheWay, Controls
  <2> QED BY <1>7, <2>3, <2>4
<1> QED BY <1>2, <1>6, <1>7 DEF WantedInv, OnTheWay

(* A message that is received is on the screen, or the screen is given up.   *)
LEMMA WantedReceive ==
  ASSUME TypeOK, WantedInv, Receive
  PROVE  WantedInv'
<1> DEFINE n == Len(queue)
<1>1. resume' = resume /\ outbox' = outbox /\ wanted' \in {None, wanted}
  BY DEF Receive, keeper
<1>2. SUFFICES ASSUME wanted # None, wanted' = wanted
               PROVE  OnTheWay(wanted)'
  BY <1>1 DEF WantedInv
<1>3. /\ n \in Nat /\ n > 0 /\ DOMAIN queue = 1..n /\ DOMAIN queue' = 1..(n - 1)
      /\ \A k \in 1..(n - 1): queue'[k] = queue[k + 1]
  <2>1. queue \in Seq(Message) /\ queue' \in Seq(Message) /\ Len(queue') = n - 1
    BY ReceiveEffect DEF TypeOK
  <2> QED BY <2>1, ReceiveEffect, LenProperties
<1> HIDE DEF n
<1>4. queue[1].kind \in Shows /\ queue[1].id = wanted => screen'.id = wanted
  BY <1>2, ReceiveEffect DEF Receive, Shows
<1>5. queue[1].kind = "control" => screen'.id = screen.id
  BY ReceiveEffect DEF Receive, TypeOK
<1>6. CASE \E u \in Tasks: Len(outbox[u]) = 1 /\ outbox[u][1].kind \in Shows
                             /\ outbox[u][1].id = wanted
  BY <1>1, <1>2, <1>6 DEF OnTheWay
<1>7. CASE (\A u \in Tasks: Controls(outbox[u]))
             /\ (LastShow(wanted) \/ (Controls(queue) /\ screen.id = wanted))
  <2>1. CASE LastShow(wanted)
    <3>1. PICK k \in 1..n: /\ queue[k].kind \in Shows /\ queue[k].id = wanted
                           /\ \A j \in 1..n: j > k => queue[j].kind = "control"
      BY <2>1, <1>3 DEF LastShow
    <3>2. CASE k = 1
      <4>1. \A j \in DOMAIN queue': queue'[j].kind = "control"
        BY <3>1, <3>2, <1>3
      <4>2. Controls(queue') /\ screen'.id = wanted
        BY <1>4, <3>1, <3>2, <4>1 DEF Controls
      <4> QED BY <1>1, <1>2, <1>7, <4>2 DEF OnTheWay, Controls
    <3>3. CASE k > 1
      <4>1. k - 1 \in DOMAIN queue' /\ queue'[k - 1] = queue[k]
        BY <3>3, <1>3
      <4>2. \A j \in DOMAIN queue': j > k - 1 => queue'[j].kind = "control"
        BY <3>1, <3>3, <1>3
      <4>3. LastShow(wanted)'
        BY <1>2, <3>1, <4>1, <4>2 DEF LastShow
      <4> QED BY <1>1, <1>2, <1>7, <4>3 DEF OnTheWay, Controls
    <3> QED BY <3>2, <3>3
  <2>2. CASE Controls(queue) /\ screen.id = wanted
    <3>1. screen'.id = wanted
      BY <1>3, <1>5, <2>2 DEF Controls
    <3>2. Controls(queue')
      BY <1>3, <2>2 DEF Controls
    <3> QED BY <1>1, <1>2, <1>7, <3>1, <3>2 DEF OnTheWay, Controls
  <2> QED BY <1>7, <2>1, <2>2
<1> QED BY <1>2, <1>6, <1>7 DEF WantedInv, OnTheWay

(* A pattern that is built anew is the one on the screen, or the wish for it *)
(* is given up.                                                              *)
LEMMA WantedRemap ==
  ASSUME TypeOK, WantedInv, Remap
  PROVE  WantedInv'
<1>1. queue = <<>> /\ UNCHANGED <<queue, outbox, resume>> /\ wanted' \in {None, wanted}
  BY RemapEffect DEF Remap
<1>2. wanted' = wanted /\ wanted # None /\ screen.id = wanted => screen'.id = wanted
  BY DEF Remap
<1>3. wanted' # None => OnTheWay(wanted)'
  BY <1>1, <1>2 DEF WantedInv, OnTheWay, LastShow, Controls
<1> QED BY <1>1, <1>3 DEF WantedInv

(* A request for a pattern or a scene is on its way at once.                 *)
LEMMA WantedAsk ==
  ASSUME TypeOK, "full" \notin Mishaps, "early" \notin Mishaps, Ask, Ordinary,
         NEW c \in Clients, NEW id \in Ids, NEW seed \in Values \cup {Keep}, NEW mark \in BOOLEAN,
         Post(c, <<Show(id, seed, mark)>>), Wants(id)
  PROVE  WantedInv'
<1>1. c \in Tasks /\ <<Show(id, seed, mark)>> \in Seq(Letter)
  BY TaskNames, ShowTypes
<1>2. outbox'[c] = <<Show(id, seed, mark)>>
  BY <1>1, PostEffect
<1>3. Show(id, seed, mark).kind \in Shows /\ Show(id, seed, mark).id = id
  BY DEF Show, Mail, Shows
<1>4. Len(outbox'[c]) = 1 /\ outbox'[c][1].kind \in Shows /\ outbox'[c][1].id = wanted'
  BY <1>2, <1>3 DEF Wants
<1> QED BY <1>1, <1>4 DEF WantedInv, OnTheWay, Ask, Ordinary

(* A request for something else is the new wish; any other leaves the old.   *)
LEMMA WantedRequest ==
  ASSUME TypeOK, WantedInv, "full" \notin Mishaps, "early" \notin Mishaps, Request
  PROVE  WantedInv'
<1>1. ASSUME NEW c \in Clients, NEW id \in Ids, Activate(c, id) \/ Select(c, id)
      PROVE  WantedInv'
  BY <1>1, IdFacts, WantedAsk DEF Activate, Select
<1>2. ASSUME NEW c \in Clients, SaveScene(c)
      PROVE  WantedInv'
  <2>1. active \in Ids
    BY <1>2, IdFacts DEF SaveScene, TypeOK
  <2> QED BY <1>2, <2>1, IdFacts, WantedAsk DEF SaveScene
<1>3. ASSUME NEW c \in Clients, PushCode(c) \/ Resize(c) \/ Freeze(c)
      PROVE  WantedInv'
  BY <1>3 DEF PushCode, Resize, Freeze, Wants, WantedInv
<1>4. ASSUME NEW c \in Clients, NEW v \in Values, Control(c, v)
      PROVE  WantedInv'
  <2>1. c \in Tasks /\ <<SetControl(v)>> \in Seq(Letter) /\ SetControl(v).kind = "control"
    BY TaskNames, ControlTypes DEF SetControl, Mail
  <2>2. /\ \A u \in Tasks: outbox[u] = <<>>
        /\ outbox'[c] = <<SetControl(v)>> /\ \A u \in Tasks \ {c}: outbox'[u] = <<>>
        /\ queue' = queue /\ screen' = screen /\ wanted' = wanted /\ resume' = resume
    BY <1>4, <2>1, NobodyElse DEF Control, Ask, Ordinary, shown
  <2>3. Controls(outbox'[c]) /\ \A u \in Tasks \ {c}: Controls(outbox'[u])
    BY <2>1, <2>2 DEF Controls
  <2>4. OnTheWay(wanted) => OnTheWay(wanted)'
    BY <2>2, <2>3 DEF OnTheWay, Controls, LastShow
  <2> QED BY <2>2, <2>4 DEF WantedInv
<1>5. ASSUME \/ \E i \in 0..1: Play(i)
             \/ \E d \in {-1, 1}: Step(d)
             \/ \E l \in Lists: SetList(l)
             \/ \E id \in Ids: Delete(id)
             \/ Stop
      PROVE  WantedInv'
  <2>1. UNCHANGED <<queue, outbox, screen, wanted, resume>>
    BY <1>5 DEF Play, Step, SetList, Delete, Stop, mail, Ordinary, shown
  <2> QED BY <2>1, WantedStands
<1> QED BY <1>1, <1>2, <1>3, <1>4, <1>5 DEF Request

(* Every step keeps what was asked for last on its way.                      *)
LEMMA WantedStep ==
  ASSUME TypeOK, OneSender, WantedInv, "full" \notin Mishaps, "early" \notin Mishaps, [Next]_vars
  PROVE  WantedInv'
<1>1. CASE Schedule
  <2>1. CASE Enter
    BY <2>1 DEF Enter, Wants, WantedInv
  <2> QED BY <1>1, <2>1, WantedStands
      DEF Schedule, Rest, NoItems, TakeCommand, Advance, mail, shown, keeper, history
<1>2. CASE Resume
  <2>1. CASE Apply
    BY <2>1 DEF Apply, WantedInv, history
  <2> QED BY <1>2, <2>1, WantedStands
      DEF Resume, StartResume, TooTight, SeeDirty, Persist, mail, shown, history
<1>3. CASE Reboot
  BY <1>3 DEF Reboot, WantedInv
<1>4. ASSUME NEW t \in Tasks, Block(t)
      PROVE  WantedInv'
  BY <1>4, WantedStands DEF Block, shown, history, keeper
<1>5. CASE UNCHANGED vars
  BY <1>5, WantedStands DEF vars, mail, shown, history, keeper
<1> QED BY <1>1, <1>2, <1>3, <1>4, <1>5, WantedRequest, WantedReceive, WantedRemap, WantedSend
    DEF Next

CommandInv == TypeOK /\ Holding /\ SchedInv /\ OneSender /\ WantedInv

(* What the model checker found the code not to withstand: a full queue, a   *)
(* request before the boot has settled, a command in the instant an item's   *)
(* time is up.  Without these mishaps commands are carried out.              *)
LEMMA CommandInvariant ==
  ASSUME Mishaps \cap {"full", "early", "tie"} = {}
  PROVE  Spec => []CommandInv
<1>1. Init => CommandInv
  <2> SUFFICES ASSUME Init PROVE CommandInv
    OBVIOUS
  <2>1. TypeOK
    BY TypeInit
  <2> QED BY <2>1 DEF Init, CommandInv, Holding, SchedInv, OneSender, WantedInv, NotYet, Empty
<1>2. CommandInv /\ [Next]_vars => CommandInv'
  BY TypeStep, SchedStep, SenderStep, WantedStep DEF CommandInv
<1> QED BY <1>1, <1>2, PTL DEF Spec

(* No wake-up is lost and every command lands (wake and playlist_task of     *)
(* playlist.rs, the message queue of shared.rs): for any library, playlists, *)
(* number of clients, capacity of the queue and number of reboots.           *)
THEOREM CommandsAreHeard ==
  ASSUME Mishaps \cap {"full", "early", "tie"} = {}
  PROVE  Spec => []CommandsLand
<1>1. CommandInv => CommandsLand
  <2> SUFFICES ASSUME CommandInv PROVE CommandsLand
    OBVIOUS
  <2>1. ASSUME Settled, wanted # None
        PROVE  screen.id = wanted
    <3>1. queue = <<>> /\ \A t \in Tasks: outbox[t] = <<>>
      BY <2>1 DEF Settled, Resting
    <3>2. OnTheWay(wanted)
      BY <2>1 DEF CommandInv, WantedInv
    <3> QED BY <3>1, <3>2 DEF OnTheWay, LastShow
  <2> QED BY <2>1 DEF CommandInv, SchedInv, CommandsLand
<1> QED BY <1>1, CommandInvariant, PTL

-----------------------------------------------------------------------------
(* Code that is pushed.                                                      *)

(* What leaves the mail and the identities alone keeps the invariant, and a  *)
(* deleted scene is only no longer active.                                   *)
LEMMA PushStands ==
  ASSUME PushInv, UNCHANGED <<queue, outbox, screen, current>>, active' \in {active, None}
  PROVE  PushInv'
BY DEF PushInv

(* A letter that is not code may be posted at any time, and code while no    *)
(* scene is up or on its way.                                                *)
LEMMA PushPost ==
  ASSUME TypeOK, PushInv, "full" \notin Mishaps, NobodyWaits,
         NEW t \in Tasks, NEW letters \in Seq(Letter), Post(t, letters), UNCHANGED shown,
         \/ \A k \in 1..Len(letters): letters[k].kind # "code"
         \/ /\ Len(letters) = 1 /\ active = None
            /\ \A k \in DOMAIN queue: queue[k].kind # "scene"
  PROVE  PushInv'
<1>1. /\ outbox'[t] = letters /\ \A u \in Tasks \ {t}: outbox'[u] = <<>>
      /\ queue' = queue /\ UNCHANGED <<screen, active, current>>
  BY NobodyElse DEF shown
<1>2. DOMAIN letters = 1..Len(letters)
  BY LenProperties
<1>3. \A k \in DOMAIN outbox'[t]: outbox'[t][k].kind = "code" =>
        /\ Len(outbox'[t]) = 1 /\ active' = None
        /\ \A j \in DOMAIN queue': queue'[j].kind # "scene"
  BY <1>1, <1>2
<1>4. \A u \in Tasks: \A k \in DOMAIN outbox'[u]: outbox'[u][k].kind = "code" =>
        /\ Len(outbox'[u]) = 1 /\ active' = None
        /\ \A j \in DOMAIN queue': queue'[j].kind # "scene"
  BY <1>1, <1>3
<1> QED BY <1>1, <1>4 DEF PushInv

(* Sending keeps the order in which code and scenes are shown.               *)
LEMMA PushSend ==
  ASSUME TypeOK, PushInv, OneSender, NEW t \in Tasks, Send(t)
  PROVE  PushInv'
<1> DEFINE n == Len(queue)
<1>1. UNCHANGED <<screen, active, current>>
  BY DEF Send, shown
<1>2. \A u \in Tasks \ {t}: outbox[u] = <<>> /\ outbox'[u] = <<>>
  BY SendEffect DEF OneSender, Send
<1>3. /\ n \in Nat /\ DOMAIN queue = 1..n /\ DOMAIN queue' = 1..(n + 1)
      /\ \A k \in 1..n: queue'[k] = queue[k]
      /\ queue'[n + 1].kind = outbox[t][1].kind
  <2>1. queue \in Seq(Message) /\ queue' \in Seq(Message) /\ Len(queue') = n + 1
    BY SendEffect DEF TypeOK
  <2>2. n \in Nat /\ DOMAIN queue = 1..n /\ DOMAIN queue' = 1..(n + 1)
    BY <2>1, LenProperties
  <2>3. /\ \A k \in 1..n: queue'[k] = queue[k]
        /\ queue'[n + 1] = [kind |-> outbox[t][1].kind, id |-> outbox[t][1].id,
                            val |-> outbox[t][1].val]
    BY SendEffect
  <2> HIDE DEF n
  <2>4. queue'[n + 1].kind = outbox[t][1].kind /\ queue'[n + 1].id = outbox[t][1].id
    BY <2>3
  <2> QED BY <2>2, <2>3, <2>4
<1>4. /\ DOMAIN outbox[t] = 1..Len(outbox[t]) /\ Len(outbox[t]) \in Nat /\ Len(outbox[t]) > 0
      /\ Len(outbox'[t]) = Len(outbox[t]) - 1
      /\ DOMAIN outbox'[t] = 1..(Len(outbox[t]) - 1)
      /\ \A k \in 1..(Len(outbox[t]) - 1): outbox'[t][k] = outbox[t][k + 1]
  <2>1. outbox'[t] \in Seq(Letter) /\ Len(outbox'[t]) = Len(outbox[t]) - 1
    BY SendEffect
  <2>2. outbox[t] \in Seq(Letter) /\ Len(outbox[t]) > 0
    BY SendEffect
  <2>3. \A k \in 1..(Len(outbox[t]) - 1): outbox'[t][k] = outbox[t][k + 1]
    BY <2>1, SendEffect
  <2>4. /\ DOMAIN outbox[t] = 1..Len(outbox[t]) /\ Len(outbox[t]) \in Nat
        /\ DOMAIN outbox'[t] = 1..Len(outbox'[t])
    BY <2>1, <2>2, LenProperties
  <2> QED BY <2>1, <2>2, <2>3, <2>4
<1> HIDE DEF n
<1>5. \A k \in 1..(n + 1): queue'[k].kind = "code" =>
        active = None /\ \A j \in 1..k: queue'[j].kind # "scene"
  <2> SUFFICES ASSUME NEW k \in 1..(n + 1), queue'[k].kind = "code"
               PROVE  active = None /\ \A j \in 1..k: queue'[j].kind # "scene"
    OBVIOUS
  <2>1. CASE k \in 1..n
    BY <2>1, <1>3 DEF PushInv
  <2>2. CASE k = n + 1
    <3>1. outbox[t][1].kind = "code" /\ 1 \in DOMAIN outbox[t]
      BY <2>2, <1>3, <1>4
    <3>2. active = None /\ \A j \in 1..n: queue[j].kind # "scene"
      BY <3>1, <1>3 DEF PushInv
    <3> QED BY <2>2, <3>2, <1>3
  <2> QED BY <2>1, <2>2, <1>3
<1>6. \A k \in DOMAIN outbox'[t]: outbox'[t][k].kind # "code"
  <2> SUFFICES ASSUME NEW k \in 1..(Len(outbox[t]) - 1), outbox[t][k + 1].kind = "code"
               PROVE  FALSE
    BY <1>4
  <2>1. k + 1 \in DOMAIN outbox[t] /\ Len(outbox[t]) # 1
    BY <1>4
  <2> QED BY <2>1 DEF PushInv
<1>7. \A u \in Tasks: \A k \in DOMAIN outbox'[u]: outbox'[u][k].kind # "code"
  BY <1>2, <1>6
<1> QED BY <1>1, <1>3, <1>5, <1>7 DEF PushInv

(* A received push finds no scene active, and a received scene no push       *)
(* behind it.                                                                *)
LEMMA PushReceive ==
  ASSUME TypeOK, PushInv, "starved" \notin Mishaps, Receive
  PROVE  PushInv'
<1> DEFINE n == Len(queue)
           m == queue[1]
<1>1. /\ n \in Nat /\ n > 0 /\ DOMAIN queue = 1..n /\ DOMAIN queue' = 1..(n - 1)
      /\ \A k \in 1..(n - 1): queue'[k] = queue[k + 1]
  <2>1. queue \in Seq(Message) /\ queue' \in Seq(Message) /\ Len(queue') = n - 1
    BY ReceiveEffect DEF TypeOK
  <2> QED BY <2>1, ReceiveEffect, LenProperties
<1>2. m \in Message /\ Head(queue) = m /\ outbox' = outbox
  BY ReceiveEffect DEF Receive
<1> HIDE DEF n, m
<1>3. Addressed(m)
  BY <1>2 DEF Message
<1>4. active' # active => m.kind = "scene" \/ active' = None
  BY <1>2 DEF Receive, SwapPattern, SwapScene, SwapCode, Rebuild
<1>5. m.kind = "scene" =>
        /\ \A k \in 1..n: queue[k].kind # "code"
        /\ \A u \in Tasks: \A k \in DOMAIN outbox[u]: outbox[u][k].kind # "code"
  BY <1>1 DEF PushInv, m
<1>6. /\ screen'.id = AdHoc => current' = AdHoc
      /\ current' = AdHoc => active' = None
  <2>0. Nothing.id # AdHoc
    BY IdFacts DEF Nothing
  <2>1. CASE m.kind = "library"
    <3>1. SwapPattern(m.id) /\ m.id # AdHoc /\ m.id \in Ids
      BY <1>2, <1>3, <2>1, IdFacts DEF Receive, Addressed
    <3> QED BY <3>1, <2>0, IdFacts DEF SwapPattern, Left, Swapped, PushInv, TypeOK
  <2>2. CASE m.kind = "scene"
    <3>1. SwapScene(m.id) /\ m.id # AdHoc /\ m.id \in Ids /\ Base[m.id] # AdHoc
      BY <1>2, <1>3, <2>2, IdFacts DEF Receive, Addressed
    <3> QED BY <3>1, IdFacts DEF SwapScene, Swapped, PushInv
  <2>3. CASE m.kind = "code"
    <3>1. SwapCode /\ active = None
      BY <1>1, <1>2, <2>3 DEF Receive, PushInv, m
    <3> QED BY <3>1 DEF SwapCode, OfThePush
  <2>4. CASE m.kind = "config"
    <3>1. Rebuild
      BY <1>2, <2>4 DEF Receive
    <3> QED BY <3>1, <2>0 DEF Rebuild, rebuild, PushInv
  <2>5. CASE m.kind = "freeze"
    BY <1>2, <2>5, <2>0 DEF Receive, PushInv
  <2>6. CASE m.kind = "control"
    <3>1. screen'.id = screen.id /\ UNCHANGED <<active, current>>
      BY <1>2, <2>6 DEF Receive, TypeOK
    <3> QED BY <3>1 DEF PushInv
  <2> QED BY <1>2, <2>1, <2>2, <2>3, <2>4, <2>5, <2>6 DEF Message, Kinds
<1>7. \A k \in 1..(n - 1): queue'[k].kind = "code" =>
        active' = None /\ \A j \in 1..k: queue'[j].kind # "scene"
  <2> SUFFICES ASSUME NEW k \in 1..(n - 1), queue'[k].kind = "code"
               PROVE  active' = None /\ \A j \in 1..k: queue'[j].kind # "scene"
    OBVIOUS
  <2>1. k + 1 \in 1..n /\ queue[k + 1].kind = "code"
    BY <1>1
  <2>2. active = None /\ \A j \in 1..(k + 1): queue[j].kind # "scene"
    BY <2>1, <1>1 DEF PushInv
  <2>3. active' = None
    BY <2>1, <2>2, <1>4, <1>5
  <2>4. \A j \in 1..k: queue'[j] = queue[j + 1] /\ j + 1 \in 1..(k + 1)
    BY <1>1
  <2> QED BY <2>2, <2>3, <2>4
<1>8. ASSUME NEW t \in Tasks, NEW k \in DOMAIN outbox'[t], outbox'[t][k].kind = "code"
      PROVE  /\ Len(outbox'[t]) = 1 /\ active' = None
             /\ \A j \in DOMAIN queue': queue'[j].kind # "scene"
  <2>1. /\ Len(outbox[t]) = 1 /\ active = None
        /\ \A j \in 1..n: queue[j].kind # "scene"
    BY <1>1, <1>2, <1>8 DEF PushInv
  <2>2. active' = None
    BY <1>2, <1>4, <1>5, <1>8, <2>1
  <2>3. \A j \in 1..(n - 1): queue'[j] = queue[j + 1] /\ j + 1 \in 1..n
    BY <1>1
  <2> QED BY <1>1, <1>2, <2>1, <2>2, <2>3
<1> QED BY <1>1, <1>6, <1>7, <1>8 DEF PushInv

(* What is built anew is the current pattern, or the code that was pushed.   *)
LEMMA PushRemap ==
  ASSUME TypeOK, PushInv, Remap
  PROVE  PushInv'
<1>1. screen'.id = AdHoc => current = AdHoc
  BY RemapEffect, IdFacts DEF PushInv, Nothing
<1> QED BY <1>1, RemapEffect DEF PushInv

(* The letters of an item hold no code.                                      *)
LEMMA InstallIsNoCode ==
  ASSUME NEW what, what.id \in Ids, what.ctl \in Values
  PROVE  \A k \in 1..Len(Install(what)): Install(what)[k].kind # "code"
<1>1. Show(what.id, what.ctl, FALSE).kind # "code" /\ SetControl(what.ctl).kind # "code"
  BY DEF Show, SetControl, Mail
<1>2. CASE what.ctl = 0
  <2>1. Len(Install(what)) = 1 /\ Install(what)[1].kind # "code"
    BY <1>1, <1>2, InstallLetters
  <2> QED BY <2>1
<1>3. CASE what.ctl # 0
  <2>1. Len(Install(what)) = 2 /\ Install(what)[1].kind # "code" /\ Install(what)[2].kind # "code"
    BY <1>1, <1>3, InstallLetters
  <2> QED BY <2>1
<1> QED BY <1>2, <1>3

(* A request that sends one letter.                                          *)
LEMMA PushOne ==
  ASSUME TypeOK, PushInv, "full" \notin Mishaps, Ask, Ordinary,
         NEW c \in Clients, NEW letter \in Letter, Post(c, <<letter>>),
         \/ letter.kind # "code"
         \/ active = None /\ \A k \in DOMAIN queue: queue[k].kind # "scene"
  PROVE  PushInv'
<1>1. c \in Tasks /\ <<letter>> \in Seq(Letter) /\ Len(<<letter>>) = 1 /\ <<letter>>[1] = letter
  BY TaskNames
<1>2. \/ \A k \in 1..Len(<<letter>>): <<letter>>[k].kind # "code"
      \/ active = None /\ \A k \in DOMAIN queue: queue[k].kind # "scene"
  BY <1>1
<1>3. NobodyWaits /\ UNCHANGED shown
  BY DEF Ask, Ordinary
<1> QED BY <1>1, <1>2, <1>3, PushPost

(* Every step keeps pushed code away from scenes.                            *)
LEMMA PushStep ==
  ASSUME TypeOK, PushInv, OneSender, Mishaps \cap {"full", "starved", "code"} = {}, [Next]_vars
  PROVE  PushInv'
<1>1. ASSUME NEW c \in Clients, NEW id \in Ids, Activate(c, id) \/ Select(c, id)
      PROVE  PushInv'
  <2>1. Show(id, 0, TRUE) \in Letter /\ Show(id, 0, TRUE).kind # "code"
    BY ShowTypes, IdFacts DEF Show, Mail
  <2> QED BY <1>1, <2>1, PushOne DEF Activate, Select
<1>2. ASSUME NEW c \in Clients, SaveScene(c)
      PROVE  PushInv'
  <2>1. active \in Ids
    BY <1>2, IdFacts DEF SaveScene, TypeOK
  <2>2. Show(active, Keep, FALSE) \in Letter /\ Show(active, Keep, FALSE).kind # "code"
    BY <2>1, ShowTypes DEF Show, Mail
  <2> QED BY <1>2, <2>2, PushOne DEF SaveScene
<1>3. ASSUME NEW c \in Clients, NEW v \in Values, Control(c, v)
      PROVE  PushInv'
  <2>1. SetControl(v) \in Letter /\ SetControl(v).kind # "code"
    BY ControlTypes DEF SetControl, Mail
  <2> QED BY <1>3, <2>1, PushOne DEF Control
<1>4. ASSUME NEW c \in Clients, PushCode(c) \/ Resize(c) \/ Freeze(c)
      PROVE  PushInv'
  <2>1. \A kind \in {"code", "config", "freeze"}:
          Mail(kind, None, 0, Keep, FALSE) \in Letter
            /\ Mail(kind, None, 0, Keep, FALSE).kind = kind
    BY MailTypes, IdFacts DEF Kinds, Shows, Mail
  <2> QED BY <1>4, <2>1, PushOne DEF PushCode, Resize, Freeze
<1>5. ASSUME \/ \E i \in 0..1: Play(i)
             \/ \E d \in {-1, 1}: Step(d)
             \/ \E l \in Lists: SetList(l)
             \/ \E id \in Ids: Delete(id)
             \/ Stop
      PROVE  PushInv'
  <2>1. UNCHANGED <<queue, outbox, screen, current>> /\ active' \in {active, None}
    BY <1>5 DEF Play, Step, SetList, Delete, Stop, mail, Ordinary, shown
  <2> QED BY <2>1, PushStands
<1>6. CASE Schedule
  <2>1. CASE Enter
    <3>1. index < Len(list) => list[index + 1].id \in Ids /\ list[index + 1].ctl \in Values
      BY ListTypes DEF TypeOK
    <3>2. CASE index < Len(list) /\ list[index + 1].id \in library
      <4>1. Install(list[index + 1]) \in Seq(Letter)
        BY <3>1, <3>2, InstallLetters
      <4> QED BY <2>1, <3>1, <3>2, <4>1, InstallIsNoCode, PushPost, TaskNames DEF Enter
    <3>3. CASE ~(index < Len(list) /\ list[index + 1].id \in library)
      <4>1. <<>> \in Seq(Letter) /\ \A k \in 1..Len(<<>>): <<>>[k].kind # "code"
        BY EmptySeq
      <4> QED BY <2>1, <3>3, <4>1, PushPost, TaskNames DEF Enter
    <3> QED BY <3>2, <3>3
  <2> QED BY <1>6, <2>1, PushStands DEF Schedule, Rest, NoItems, TakeCommand, Advance, mail, shown
<1>7. CASE Resume
  <2>1. CASE Apply
    <3>1. flash.record.id \in Ids /\ flash.record.ctl \in Values
      BY <2>1 DEF Apply, Restorable, TypeOK, Record
    <3>2. Install(flash.record) \in Seq(Letter)
      BY <3>1, InstallLetters
    <3> QED BY <2>1, <3>1, <3>2, InstallIsNoCode, PushPost, TaskNames DEF Apply
  <2> QED BY <1>7, <2>1, PushStands
      DEF Resume, StartResume, TooTight, SeeDirty, Persist, mail, shown
<1>8. CASE Reboot
  BY <1>8, IdFacts DEF Reboot, PushInv, Empty, Nothing
<1>9. ASSUME NEW t \in Tasks, Block(t)
      PROVE  PushInv'
  BY <1>9, PushStands DEF Block, shown
<1>10. CASE UNCHANGED vars
  BY <1>10, PushStands DEF vars, mail, shown
<1> QED BY <1>1, <1>2, <1>3, <1>4, <1>5, <1>6, <1>7, <1>8, <1>9, <1>10, PushReceive, PushRemap, PushSend
    DEF Next, Request

(* The record is only written by persist_now, and not for an ad-hoc push.    *)
LEMMA RecordKept ==
  ASSUME TypeOK, PushInv, [Next]_vars, screen.id = AdHoc
  PROVE  flash'.record = flash.record
<1> USE DEF vars, stores, player, shown, mail, keeper, history
<1>1. /\ \A p: \A f \in Stored([flash EXCEPT !.playing = p]): f.record = flash.record
      /\ \A l: \A f \in Stored([flash EXCEPT !.list = l]): f.record = flash.record
  BY DEF Stored, TypeOK
<1>2. CASE Request
  <2>1. ASSUME Stopped
        PROVE  flash'.record = flash.record
    BY <2>1, <1>1 DEF Stopped
  <2>2. ASSUME NEW l, set_from_wire(l)
        PROVE  flash'.record = flash.record
    BY <2>2, <1>1 DEF set_from_wire
  <2>3. ASSUME NEW c \in Clients,
               \/ \E id \in Ids: Activate(c, id) \/ Select(c, id)
               \/ \E v \in Values: Control(c, v)
               \/ SaveScene(c) \/ PushCode(c) \/ Resize(c) \/ Freeze(c)
        PROVE  flash'.record = flash.record
    BY <2>3, <2>1 DEF Activate, Select, Control, SaveScene, PushCode, Resize, Freeze
  <2>4. ASSUME NEW i \in 0..1, Play(i)
        PROVE  flash'.record = flash.record
    BY <2>4, <1>1 DEF Play
  <2>5. ASSUME NEW id \in Ids, Delete(id)
        PROVE  flash'.record = flash.record
    BY <2>5, <2>2 DEF Delete
  <2> QED BY <1>2, <2>1, <2>2, <2>3, <2>4, <2>5 DEF Request, Step, SetList, Stop
<1>3. CASE Schedule
  BY <1>3 DEF Schedule, Rest, NoItems, Enter, TakeCommand, Advance
<1>4. CASE Persist
  <2>1. active = None /\ current \notin Patterns
    BY IdFacts DEF PushInv
  <2>2. snapshot_record = flash.record
    BY <2>1 DEF snapshot_record
  <2>3. \A f \in Stored([flash EXCEPT !.record = flash.record]): f.record = flash.record
    BY DEF Stored, TypeOK
  <2> QED BY <1>4, <2>2, <2>3 DEF Persist
<1>5. CASE StartResume \/ Apply \/ TooTight \/ SeeDirty
  BY <1>5 DEF StartResume, Apply, TooTight, SeeDirty
<1>6. CASE Receive \/ Remap
  BY <1>6 DEF Receive, Remap
<1>7. CASE \E t \in Tasks: Send(t) \/ Block(t)
  BY <1>7 DEF Send, Block
<1>8. CASE Reboot
  BY <1>8 DEF Reboot
<1>9. CASE UNCHANGED vars
  BY <1>9
<1> QED BY <1>2, <1>3, <1>4, <1>5, <1>6, <1>7, <1>8, <1>9 DEF Next, Resume

(* "An ad-hoc push has no id, so the record is left alone" (resume.rs):      *)
(* whatever is asked for and however the record is written, the one of the   *)
(* saved pattern or scene stands while pushed code is on the screen. Not so  *)
(* with a push under a scene, a swap that fails under a scene, or two tasks  *)
(* that wait for room.                                                       *)
THEOREM PushesAreNotRecorded ==
  ASSUME Mishaps \cap {"full", "starved", "code"} = {}
  PROVE  Spec => AdHocKeepsRecord
<1> DEFINE Inv == TypeOK /\ Holding /\ OneSender /\ PushInv
<1>1. Init => Inv
  <2> SUFFICES ASSUME Init PROVE Inv
    OBVIOUS
  <2>1. TypeOK
    BY TypeInit
  <2> QED BY <2>1, IdFacts DEF Init, Holding, OneSender, PushInv, NotYet, Empty, Nothing
<1>2. Inv /\ [Next]_vars => Inv'
  BY TypeStep, SenderStep, PushStep
<1>3. Inv /\ [Next]_vars => [screen.id = AdHoc => flash'.record = flash.record]_vars
  BY RecordKept
<1> QED BY <1>1, <1>2, <1>3, PTL DEF Spec, AdHocKeepsRecord

-----------------------------------------------------------------------------
(* What a reboot shows.                                                      *)

(* The record is kept in order where an empty playlist does not play, no     *)
(* control is set while nothing records it, the pixel count stands, nothing  *)
(* on its way is deleted, one sender at a time waits, a failed swap leaves   *)
(* nothing on the screen, the base of a scene that went stays off it and the *)
(* flash takes what is written.                                              *)
Orderly ==
  Mishaps \cap {"empty", "tweak", "resize", "gone", "full", "starved", "revived", "refused"} = {}

ShowInv == ScreenInv /\ MailInv /\ ControlInv /\ RecordInv

(* Orderly, the flash holds what is written.                                 *)
LEMMA OrderlyStored == ASSUME Orderly, NEW f, NEW g, f \in Stored(g) PROVE f = g
BY DEF Orderly, Stored

(* A posted playlist is the one on flash.                                    *)
LEMMA SetKeeps ==
  ASSUME TypeOK, ListInv, Orderly, NEW l, set_from_wire(l)
  PROVE  /\ ListInv' /\ flash'.record = flash.record /\ (Parked' => Parked)
         /\ UNCHANGED <<playing, index, sched, aimed>>
<1>1. flash.playing = playing /\ (playing => l # <<>>)
  BY DEF set_from_wire, Orderly
<1>2. flash' = [flash EXCEPT !.list = l] /\ list' = l /\ UNCHANGED <<playing, index, sched, aimed>>
  BY OrderlyStored DEF set_from_wire
<1>3. flash'.list = l /\ flash'.playing = flash.playing /\ flash'.record = flash.record
  BY <1>2 DEF TypeOK
<1> QED BY <1>1, <1>2, <1>3 DEF ListInv, Parked

(* A playlist that is stopped is stopped on flash.                           *)
LEMMA StoppedKeeps ==
  ASSUME TypeOK, ListInv, Orderly, Stopped
  PROVE  ListInv' /\ flash'.record = flash.record /\ dirty'
<1>1. flash' = [flash EXCEPT !.playing = FALSE]
  BY OrderlyStored DEF Stopped
<1>2. flash'.list = flash.list /\ flash'.playing = FALSE /\ flash'.record = flash.record
  BY <1>1 DEF TypeOK
<1> QED BY <1>2 DEF Stopped, ListInv

(* Every step keeps list and play state those on flash.                      *)
LEMMA ListStep ==
  ASSUME TypeOK, ListInv, Orderly, [Next]_vars
  PROVE  ListInv'
<1>1. ASSUME UNCHANGED <<flash, player>>
      PROVE  ListInv'
  BY <1>1 DEF player, ListInv
<1>2. ASSUME NEW i \in 0..1, Play(i)
      PROVE  ListInv'
  <2>1. flash' = [flash EXCEPT !.playing = TRUE] /\ list # <<>> /\ playing' /\ list' = list
    BY <1>2, OrderlyStored DEF Play, Orderly
  <2>2. flash'.list = flash.list /\ flash'.playing = TRUE
    BY <2>1 DEF TypeOK
  <2> QED BY <2>1, <2>2 DEF ListInv
<1>3. CASE Request
  <2>1. ASSUME NEW c \in Clients,
               \/ \E id \in Ids: Activate(c, id) \/ Select(c, id)
               \/ \E v \in Values: Control(c, v)
               \/ SaveScene(c) \/ PushCode(c) \/ Resize(c) \/ Freeze(c)
        PROVE  ListInv'
    BY <2>1, <1>1, StoppedKeeps
    DEF Activate, Select, Control, SaveScene, PushCode, Resize, Freeze, stores
  <2>2. ASSUME NEW d \in {-1, 1}, Step(d)
        PROVE  ListInv'
    BY <2>2 DEF Step, ListInv, stores
  <2>3. ASSUME NEW l \in Lists, SetList(l)
        PROVE  ListInv'
    BY <2>3, SetKeeps DEF SetList
  <2>4. ASSUME NEW id \in Ids, Delete(id)
        PROVE  ListInv'
    BY <2>4, SetKeeps, <1>1 DEF Delete
  <2> QED BY <1>3, <1>2, <2>1, <2>2, <2>3, <2>4, StoppedKeeps DEF Request, Stop
<1>4. CASE Schedule
  BY <1>4 DEF Schedule, Rest, NoItems, Enter, TakeCommand, Advance, Scheduler, ListInv, stores, TypeOK
<1>5. CASE Resume
  <2>1. CASE Persist
    <3>1. flash' = [flash EXCEPT !.record = snapshot_record] /\ UNCHANGED player
      BY <2>1, OrderlyStored DEF Persist
    <3>2. flash'.list = flash.list /\ flash'.playing = flash.playing
      BY <3>1 DEF TypeOK
    <3> QED BY <3>1, <3>2 DEF player, ListInv
  <2> QED BY <1>5, <2>1, <1>1 DEF Resume, StartResume, Apply, TooTight, SeeDirty, stores
<1>6. CASE Reboot
  BY <1>6 DEF Reboot, ListInv, NotYet, stores, TypeOK
<1>7. CASE Receive \/ Remap \/ (\E t \in Tasks: Send(t) \/ Block(t)) \/ UNCHANGED vars
  BY <1>7, <1>1 DEF Receive, Remap, Send, Block, vars, stores
<1> QED BY <1>3, <1>4, <1>5, <1>6, <1>7 DEF Next

(* A step that leaves mail, screen, controls and record alone keeps what is  *)
(* said of them, unless it makes everything quiet.                           *)
LEMMA ShowStands ==
  ASSUME ShowInv,
         UNCHANGED <<queue, outbox, screen, active, current, remap, mapped, library, controls>>,
         flash'.record = flash.record, Quiet' => Quiet
  PROVE  ShowInv'
<1>1. \A t \in Tasks: Unsent(outbox[t]) => Unsent(outbox[t])'
  BY DEF Unsent, Lone, ItemOf
<1>2. MailInv'
  BY <1>1 DEF ShowInv, MailInv
<1>3. ScreenInv' /\ ControlInv'
  BY DEF ShowInv, ScreenInv, ControlInv, Steady, SteadyAfter
<1>4. RecordInv'
  BY DEF ShowInv, RecordInv, Coming
<1> QED BY <1>2, <1>3, <1>4 DEF ShowInv

(* A task that posts, when nobody waits.                                     *)
LEMMA ShowPosts ==
  ASSUME TypeOK, ShowInv, Orderly, NobodyWaits,
         NEW t \in Tasks, NEW letters \in Seq(Letter), Post(t, letters),
         UNCHANGED <<screen, active, current, remap, mapped, library>>, flash'.record = flash.record,
         Quiet' => Quiet, Unsent(letters)',
         controls' = controls \/ ~Quiet',
         controls' = controls \/ ~Steady(letters)
  PROVE  ShowInv'
<1>1. /\ \A u \in Tasks: outbox[u] = <<>>
      /\ outbox'[t] = letters /\ \A u \in Tasks \ {t}: outbox'[u] = <<>>
      /\ queue' = queue
  BY NobodyElse DEF Orderly
<1>2. \A u \in Tasks: Unsent(outbox[u])'
  BY <1>1 DEF Unsent
<1>3. MailInv'
  BY <1>1, <1>2 DEF ShowInv, MailInv
<1>4. ScreenInv'
  BY DEF ShowInv, ScreenInv
<1>5. ControlInv'
  <2>1. CASE controls' = controls
    <3>1. \A u \in Tasks: Steady(outbox[u])
      BY <1>1 DEF Steady
    <3> QED BY <1>1, <2>1, <3>1 DEF ShowInv, ControlInv, SteadyAfter, Steady
  <2>2. CASE ~Steady(letters)
    BY <1>1, <2>2 DEF ControlInv, Steady
  <2> QED BY <2>1, <2>2
<1>6. RecordInv'
  BY <1>1 DEF ShowInv, RecordInv, Coming
<1> QED BY <1>3, <1>4, <1>5, <1>6 DEF ShowInv

(* One letter of a request.                                                  *)
LEMMA OneLetter ==
  ASSUME NEW m \in Letter
  PROVE  <<m>> \in Seq(Letter) /\ Len(<<m>>) = 1 /\ <<m>>[1] = m
OBVIOUS

(* A letter that changes no item is one a task can have to send.             *)
LEMMA LoneLetter ==
  ASSUME NEW kind \in {"code", "freeze", "config"}
  PROVE  /\ Mail(kind, None, 0, Keep, FALSE) \in Letter
         /\ Lone(<<Mail(kind, None, 0, Keep, FALSE)>>, kind)
         /\ <<Mail(kind, None, 0, Keep, FALSE)>> \in Seq(Letter)
<1>1. /\ Mail(kind, None, 0, Keep, FALSE) \in Letter
      /\ Mail(kind, None, 0, Keep, FALSE).kind = kind
      /\ Mail(kind, None, 0, Keep, FALSE).seed = Keep
  BY MailTypes, IdFacts DEF Kinds, Shows, Mail
<1> QED BY <1>1, OneLetter DEF Lone

(* A single item is one a task can have to send.                             *)
LEMMA ItemPosted ==
  ASSUME NEW m \in Letter, m.kind \in Shows, m.id \in library',
         m.seed = 0 \/ (m.seed = Keep /\ m.kind = "scene"),
         \/ m.mark \/ ~Quiet'
         \/ m.id = flash'.record.id /\ m.seed \in {Keep, flash'.record.ctl}
  PROVE  Unsent(<<m>>)'
<1>1. Len(<<m>>) = 1 /\ <<m>>[1] = m
  OBVIOUS
<1>2. ItemOf(<<m>>)'
  BY <1>1 DEF ItemOf
<1> QED BY <1>2 DEF Unsent

(* A letter that shows an item, sent alone.                                  *)
LEMMA ShowLetter ==
  ASSUME NEW id \in Ids, NEW seed \in Values \cup {Keep}, NEW mark \in BOOLEAN
  PROVE  \E m \in Letter:
           /\ m = Show(id, seed, mark) /\ <<m>> \in Seq(Letter) /\ ~Steady(<<m>>)
           /\ m.kind \in Shows /\ m.id = id /\ m.seed = seed /\ (mark => m.mark)
           /\ id \in Scenes => m.kind = "scene"
<1>1. PICK m \in Letter: m = Show(id, seed, mark)
  BY ShowTypes
<1>2. /\ m.kind \in Shows /\ m.id = id /\ m.seed = seed /\ (mark => m.mark)
      /\ id \in Scenes => m.kind = "scene"
  BY <1>1 DEF Show, Mail, Shows
<1>3. ~Steady(<<m>>)
  BY <1>2, OneLetter DEF Steady
<1> QED BY <1>1, <1>2, <1>3, OneLetter

(* Every request keeps screen, mail, controls and record in accord.          *)
LEMMA ShowRequest ==
  ASSUME TypeOK, Orderly, ListInv, ShowInv, Request
  PROVE  ShowInv'
<1>1. ASSUME NEW c \in Clients, NEW id \in Ids, Activate(c, id)
      PROVE  ShowInv'
  <2>1. /\ Post(c, <<Show(id, 0, TRUE)>>) /\ NobodyWaits /\ c \in Tasks /\ id \in library
        /\ UNCHANGED <<screen, active, current, remap, mapped, library, controls, flash>> /\ (Quiet' => Quiet)
    BY <1>1, TaskNames
    DEF Activate, Ask, Ordinary, shown, stores, player, Quiet, Parked
  <2>2. PICK m \in Letter:
          /\ m = Show(id, 0, TRUE) /\ <<m>> \in Seq(Letter) /\ ~Steady(<<m>>)
          /\ m.kind \in Shows /\ m.id = id /\ m.seed = 0 /\ m.mark
    <3>1. 0 \in Values \cup {Keep} /\ TRUE \in BOOLEAN
      BY IdFacts
    <3> QED BY <3>1, ShowLetter
  <2>3. Unsent(<<m>>)'
    BY <2>1, <2>2, ItemPosted
  <2>4. Post(c, <<m>>)
    BY <2>1, <2>2
  <2> QED BY <2>1, <2>2, <2>3, <2>4, ShowPosts
<1>2. ASSUME NEW c \in Clients, NEW id \in Ids, Select(c, id)
      PROVE  ShowInv'
  <2>1. /\ Post(c, <<Show(id, 0, TRUE)>>) /\ NobodyWaits /\ c \in Tasks /\ id \in library
        /\ UNCHANGED <<screen, active, current, remap, mapped, library, controls>>
    BY <1>2, TaskNames DEF Select, Ask, Ordinary, shown
  <2>2. flash'.record = flash.record /\ ~Quiet'
    BY <1>2, StoppedKeeps DEF Select, Quiet
  <2>3. PICK m \in Letter:
          /\ m = Show(id, 0, TRUE) /\ <<m>> \in Seq(Letter) /\ ~Steady(<<m>>)
          /\ m.kind \in Shows /\ m.id = id /\ m.seed = 0 /\ m.mark
    <3>1. 0 \in Values \cup {Keep} /\ TRUE \in BOOLEAN
      BY IdFacts
    <3> QED BY <3>1, ShowLetter
  <2>4. Unsent(<<m>>)'
    BY <2>1, <2>3, ItemPosted
  <2>5. Post(c, <<m>>)
    BY <2>1, <2>3
  <2> QED BY <2>1, <2>2, <2>3, <2>4, <2>5, ShowPosts
<1>3. ASSUME NEW c \in Clients, SaveScene(c)
      PROVE  ShowInv'
  <2>1. /\ Post(c, <<Show(active, Keep, FALSE)>>) /\ NobodyWaits /\ c \in Tasks
        /\ active \in library /\ active \in Scenes /\ active \in Ids /\ active' = active
        /\ UNCHANGED <<screen, active, current, remap, mapped, library, controls, flash>> /\ Quiet' = Quiet
    BY <1>3, TaskNames, IdFacts
    DEF SaveScene, Ask, Ordinary, shown, stores, player, Quiet, Parked, TypeOK, ShowInv, ScreenInv
  <2>2. Quiet => active = flash.record.id
    BY <2>1, IdFacts DEF ShowInv, RecordInv
  <2>3. PICK m \in Letter:
          /\ m = Show(active, Keep, FALSE) /\ <<m>> \in Seq(Letter) /\ ~Steady(<<m>>)
          /\ m.kind = "scene" /\ m.id = active /\ m.seed = Keep
    <3>1. PICK m \in Letter: m = Show(active, Keep, FALSE)
      BY <2>1, ShowTypes
    <3>2. m.kind = "scene" /\ m.id = active /\ m.seed = Keep
      BY <2>1, <3>1 DEF Show, Mail
    <3>3. ~Steady(<<m>>)
      BY <3>2, OneLetter DEF Steady, Shows
    <3> QED BY <3>1, <3>2, <3>3, OneLetter
  <2>4. m.kind \in Shows /\ (~Quiet' \/ m.id = flash'.record.id)
    BY <2>1, <2>2, <2>3 DEF Shows
  <2>5. Unsent(<<m>>)'
    BY <2>1, <2>3, <2>4, ItemPosted
  <2>6. Post(c, <<m>>)
    BY <2>1, <2>3
  <2> QED BY <2>1, <2>3, <2>5, <2>6, ShowPosts
<1>4. ASSUME NEW c \in Clients, NEW v \in Values, Control(c, v)
      PROVE  ShowInv'
  <2>1. /\ Post(c, <<SetControl(v)>>) /\ NobodyWaits /\ c \in Tasks /\ Recording
        /\ UNCHANGED <<screen, active, current, remap, mapped, library, flash>>
    BY <1>4, TaskNames DEF Control, Ask, Ordinary, shown, stores, Orderly
  <2>2. controls' = v /\ ~Quiet'
    BY <1>4, <2>1 DEF Control, MarkedDirty, Quiet
  <2>3. /\ SetControl(v).kind = "control" /\ SetControl(v).seed = Keep /\ SetControl(v).val = v
        /\ <<SetControl(v)>> \in Seq(Letter)
    BY ControlTypes DEF SetControl, Mail
  <2>4. Unsent(<<SetControl(v)>>)' /\ ~Steady(<<SetControl(v)>>)
    BY <2>2, <2>3 DEF Unsent, Lone, Steady
  <2> QED BY <2>1, <2>2, <2>3, <2>4, ShowPosts
<1>5. ASSUME NEW c \in Clients, PushCode(c)
      PROVE  ShowInv'
  <2>1. /\ Post(c, <<Mail("code", None, 0, Keep, FALSE)>>) /\ NobodyWaits /\ c \in Tasks
        /\ UNCHANGED <<screen, active, current, remap, mapped, library, controls>>
    BY <1>5, TaskNames DEF PushCode, Ask, Ordinary, shown
  <2>2. flash'.record = flash.record /\ ~Quiet'
    BY <1>5, StoppedKeeps DEF PushCode, Quiet
  <2>3. Unsent(<<Mail("code", None, 0, Keep, FALSE)>>)'
    BY LoneLetter DEF Unsent, Lone
  <2> QED BY <2>1, <2>2, <2>3, LoneLetter, ShowPosts
<1>6. ASSUME NEW c \in Clients, Resize(c)
      PROVE  ShowInv'
  <2>1. /\ Post(c, <<Mail("config", None, 0, Keep, FALSE)>>) /\ NobodyWaits /\ c \in Tasks
        /\ UNCHANGED <<screen, active, current, remap, mapped, library, controls, flash>> /\ (Quiet' => Quiet)
        /\ screen = Nothing /\ queue = <<>> /\ current = None /\ queue' = queue
    BY <1>6, TaskNames
    DEF Resize, Ask, Ordinary, shown, stores, player, Quiet, Parked, Orderly, Post
  <2>2. Unsent(<<Mail("config", None, 0, Keep, FALSE)>>)'
    BY <2>1, LoneLetter DEF Unsent, Lone, Nothing
  <2> QED BY <2>1, <2>2, LoneLetter, ShowPosts
<1>7. ASSUME NEW c \in Clients, Freeze(c)
      PROVE  ShowInv'
  <2>1. /\ Post(c, <<Mail("freeze", None, 0, Keep, FALSE)>>) /\ NobodyWaits /\ c \in Tasks
        /\ UNCHANGED <<screen, active, current, remap, mapped, library, controls, flash>> /\ (Quiet' => Quiet)
    BY <1>7, TaskNames
    DEF Freeze, Ask, Ordinary, shown, stores, player, Quiet, Parked
  <2>2. Unsent(<<Mail("freeze", None, 0, Keep, FALSE)>>)'
    BY LoneLetter DEF Unsent, Lone
  <2> QED BY <2>1, <2>2, LoneLetter, ShowPosts
<1>8. ASSUME NEW i \in 0..1, Play(i)
      PROVE  ShowInv'
  <2>1. flash' = [flash EXCEPT !.playing = TRUE] /\ list # <<>> /\ playing' /\ list' = list
    BY <1>8, OrderlyStored DEF Play, Orderly
  <2>2. flash'.record = flash.record /\ ~Quiet'
    BY <2>1 DEF TypeOK, Quiet, Parked
  <2>3. UNCHANGED <<queue, outbox, screen, active, current, remap, mapped, library, controls>>
    BY <1>8 DEF Play, Ordinary, shown, mail
  <2> QED BY <2>2, <2>3, ShowStands
<1>9. ASSUME Stop
      PROVE  ShowInv'
  <2>1. flash'.record = flash.record /\ ~Quiet'
    BY <1>9, StoppedKeeps DEF Stop, Quiet
  <2>2. UNCHANGED <<queue, outbox, screen, active, current, remap, mapped, library, controls>>
    BY <1>9 DEF Stop, Ordinary, shown, mail
  <2> QED BY <2>1, <2>2, ShowStands
<1>10. ASSUME NEW d \in {-1, 1}, Step(d)
       PROVE  ShowInv'
  BY <1>10, ShowStands DEF Step, Ordinary, shown, mail, stores, Quiet, Parked
<1>11. ASSUME NEW l \in Lists, SetList(l)
       PROVE  ShowInv'
  <2>1. /\ flash'.record = flash.record /\ (Parked' => Parked)
        /\ UNCHANGED <<queue, outbox, screen, active, current, remap, mapped, library, controls, dirty, resume>>
    BY <1>11, SetKeeps DEF SetList, Ordinary, shown, mail
  <2> QED BY <2>1, ShowStands DEF Quiet
<1>12. ASSUME NEW id \in Ids, Delete(id)
       PROVE  ShowInv'
  <2>1. /\ UNCHANGED <<screen, current, remap, mapped, queue, outbox, controls, dirty, resume>>
        /\ ~(remap /\ active = id)
        /\ \A t \in Tasks: outbox[t] = <<>>
        /\ library' = library \ {id} /\ active' = (IF active = id THEN None ELSE active)
        /\ \A k \in DOMAIN queue: queue[k].id # id
    BY <1>12 DEF Delete, mail, Ask, NobodyWaits, Orderly, OnItsWay
  <2>2. flash'.record = flash.record /\ (Parked' => Parked)
    BY <1>12, SetKeeps DEF Delete, player, Parked
  <2>3. ScreenInv'
    BY <2>1, IdFacts DEF ShowInv, ScreenInv
  <2>4. MailInv'
    BY <2>1 DEF ShowInv, MailInv, Unsent
  <2>5. ControlInv'
    BY <2>1 DEF ShowInv, ControlInv, Steady, SteadyAfter
  <2>6. RecordInv'
    BY <2>1, <2>2 DEF ShowInv, RecordInv, Quiet, Coming
  <2> QED BY <2>3, <2>4, <2>5, <2>6 DEF ShowInv
<1> QED BY <1>1, <1>2, <1>3, <1>4, <1>5, <1>6, <1>7, <1>8, <1>9, <1>10, <1>11, <1>12 DEF Request

(* The queue and the outbox before and after a letter is sent.               *)
LEMMA SendDomains ==
  ASSUME TypeOK, NEW t \in Tasks, Send(t)
  PROVE  /\ DOMAIN queue = 1..Len(queue) /\ DOMAIN queue' = 1..(Len(queue) + 1)
         /\ DOMAIN outbox[t] = 1..Len(outbox[t])
         /\ DOMAIN outbox'[t] = 1..(Len(outbox[t]) - 1)
<1>1. /\ queue' \in Seq(Message) /\ Len(queue') = Len(queue) + 1
      /\ outbox[t] \in Seq(Letter) /\ outbox' \in [Tasks -> Seq(Letter)]
      /\ Len(outbox'[t]) = Len(outbox[t]) - 1
  BY SendEffect
<1>2. queue \in Seq(Message)
  BY DEF TypeOK
<1>3. outbox'[t] \in Seq(Letter)
  BY <1>1
<1> QED BY <1>1, <1>2, <1>3, LenProperties

(* What a letter is when it is sent.                                         *)
LEMMA SentLetter ==
  ASSUME TypeOK, ShowInv, NEW t \in Tasks, Send(t)
  PROVE  \/ /\ Len(outbox[t]) = 1 /\ outbox[t][1].seed = Keep
            /\ outbox[t][1].kind = "control" /\ outbox[t][1].val = controls
         \/ /\ Len(outbox[t]) = 1 /\ outbox[t][1].seed = Keep
            /\ outbox[t][1].kind \in {"code", "freeze"}
         \/ /\ Len(outbox[t]) = 1 /\ outbox[t][1].seed = Keep
            /\ outbox[t][1].kind = "config" /\ queue = <<>> /\ current = None /\ screen = Nothing
         \/ ItemOf(outbox[t])
<1>1. Unsent(outbox[t]) /\ outbox[t] # <<>>
  BY DEF ShowInv, MailInv, Send
<1> QED BY <1>1 DEF Unsent, Lone

(* Sending seeds the controls with the item, and marks the record.           *)
LEMMA ShowSend ==
  ASSUME TypeOK, OneSender, ShowInv, NEW t \in Tasks, Send(t)
  PROVE  ShowInv'
<1> DEFINE n == Len(queue)
           first == outbox[t][1]
<1>1. UNCHANGED <<screen, active, current, remap, mapped, library, flash, playing, list, resume>>
  BY DEF Send, stores, shown, player
<1>2. \A u \in Tasks \ {t}: outbox[u] = <<>> /\ outbox'[u] = <<>>
  BY SendEffect DEF OneSender, Send
<1>3. /\ n \in Nat /\ DOMAIN queue = 1..n /\ DOMAIN queue' = 1..(n + 1)
      /\ \A k \in 1..n: queue'[k] = queue[k]
      /\ queue'[n + 1].kind = first.kind /\ queue'[n + 1].id = first.id
      /\ queue'[n + 1].val = first.val
  <2>1. queue'[n + 1] = [kind |-> first.kind, id |-> first.id, val |-> first.val]
    BY SendEffect
  <2> QED BY <2>1, SendEffect, SendDomains
<1>4. /\ Len(outbox[t]) \in Nat /\ Len(outbox[t]) > 0 /\ DOMAIN outbox[t] = 1..Len(outbox[t])
      /\ outbox'[t] \in Seq(Letter) /\ Len(outbox'[t]) = Len(outbox[t]) - 1
      /\ DOMAIN outbox'[t] = 1..(Len(outbox[t]) - 1)
      /\ \A k \in 1..(Len(outbox[t]) - 1): outbox'[t][k] = outbox[t][k + 1]
  <2>1. /\ Len(outbox[t]) \in Nat /\ Len(outbox[t]) > 0
        /\ outbox' \in [Tasks -> Seq(Letter)] /\ Len(outbox'[t]) = Len(outbox[t]) - 1
        /\ \A k \in 1..Len(outbox'[t]): outbox'[t][k] = outbox[t][k + 1]
    BY SendEffect
  <2>2. /\ DOMAIN outbox[t] = 1..Len(outbox[t])
        /\ DOMAIN outbox'[t] = 1..(Len(outbox[t]) - 1)
    BY SendDomains
  <2> QED BY <2>1, <2>2
<1>5. /\ controls' = IF first.seed = Keep THEN controls ELSE first.seed
      /\ dirty' = (dirty \/ first.mark)
  BY SendEffect
<1>6. /\ first \in Letter /\ first.seed \in Values \cup {Keep} /\ first.id \in Ids \cup {None}
      /\ Addressed(first)
  BY SendEffect DEF Letter
<1>7. \/ /\ Len(outbox[t]) = 1 /\ first.seed = Keep
         /\ first.kind = "control" /\ first.val = controls
      \/ /\ Len(outbox[t]) = 1 /\ first.seed = Keep
         /\ first.kind \in {"code", "freeze"}
      \/ /\ Len(outbox[t]) = 1 /\ first.seed = Keep
         /\ first.kind = "config" /\ queue = <<>> /\ current = None /\ screen = Nothing
      \/ ItemOf(outbox[t])
  BY SentLetter
<1>8. ItemOf(outbox[t]) =>
        /\ first.kind \in Shows /\ first.id \in library
        /\ \/ Len(outbox[t]) = 1 /\ first.seed = Keep /\ first.kind = "scene"
           \/ Len(outbox[t]) = 1 /\ first.seed = 0
           \/ /\ Len(outbox[t]) = 2
              /\ outbox[t][2].kind = "control" /\ outbox[t][2].seed = Keep
              /\ first.seed = outbox[t][2].val
        /\ \/ first.mark \/ ~Quiet
           \/ first.id = flash.record.id /\ first.seed \in {Keep, flash.record.ctl}
  BY DEF ItemOf
<1> HIDE DEF n, first
<1>9. Len(outbox[t]) = 2 => /\ ItemOf(outbox[t]) /\ controls' = outbox[t][2].val
                            /\ Len(outbox'[t]) = 1 /\ outbox'[t][1] = outbox[t][2]
                            /\ outbox'[t][1].kind = "control" /\ outbox'[t][1].seed = Keep
  <2> SUFFICES ASSUME Len(outbox[t]) = 2
               PROVE  /\ ItemOf(outbox[t]) /\ controls' = outbox[t][2].val
                      /\ Len(outbox'[t]) = 1 /\ outbox'[t][1] = outbox[t][2]
                      /\ outbox'[t][1].kind = "control" /\ outbox'[t][1].seed = Keep
    OBVIOUS
  <2>1. /\ ItemOf(outbox[t]) /\ first.seed = outbox[t][2].val
        /\ outbox[t][2].kind = "control" /\ outbox[t][2].seed = Keep
    BY <1>7, <1>8
  <2>2. Len(outbox'[t]) = 1 /\ outbox'[t][1] = outbox[t][2]
    BY <1>4
  <2>3. outbox[t][2].val \in Values
    <3>1. outbox'[t][1] \in Letter
      BY <1>4, <2>2, ElementOfSeq
    <3> QED BY <2>2, <3>1 DEF Letter
  <2> QED BY <1>5, <2>1, <2>2, <2>3, IdFacts
<1>10. Len(outbox[t]) # 2 => outbox'[t] = <<>>
  <2>1. Len(outbox[t]) # 2 => Len(outbox[t]) = 1
    BY <1>7, <1>8
  <2> QED BY <2>1, <1>4, EmptySeq
<1>11. ScreenInv'
  BY <1>1 DEF ShowInv, ScreenInv
<1>12. MailInv'
  <2>1. \A u \in Tasks: Unsent(outbox[u])'
    <3>1. Unsent(outbox[t])'
      BY <1>9, <1>10 DEF Unsent, Lone
    <3>2. \A u \in Tasks \ {t}: Unsent(outbox[u])'
      BY <1>2 DEF Unsent
    <3> QED BY <3>1, <3>2
  <2>2. ASSUME NEW k \in 1..(n + 1)
        PROVE  /\ queue'[k].kind \in Shows => queue'[k].id \in library'
               /\ queue'[k].kind = "config" => k = 1 /\ current' = None /\ screen' = Nothing
    <3>1. CASE k \in 1..n
      BY <3>1, <1>1, <1>3 DEF ShowInv, MailInv
    <3>2. CASE k = n + 1
      <4>1. queue = <<>> => n = 0
        BY <1>3, EmptySeq DEF n
      <4>2. first.kind \in Shows => first.id \in library
        BY <1>7, <1>8 DEF Shows
      <4>3. first.kind = "config" => queue = <<>> /\ current = None /\ screen = Nothing
        BY <1>7, <1>8 DEF Shows
      <4> QED BY <3>2, <4>1, <4>2, <4>3, <1>1, <1>3
    <3> QED BY <3>1, <3>2, <1>3
  <2> QED BY <2>1, <2>2, <1>3 DEF MailInv
<1>13. ControlInv'
  <2> SUFFICES ASSUME \A u \in Tasks: Steady(outbox'[u])
               PROVE  /\ \A k \in 1..(n + 1): SteadyAfter(k)' =>
                           /\ queue'[k].kind = "control" => queue'[k].val = controls'
                           /\ queue'[k].kind = "library" => controls' = 0
                      /\ Steady(queue)' /\ screen'.id \in Patterns =>
                           screen'.ctl = controls' \/ (~mapped' /\ screen'.ctl = 0)
    BY <1>3 DEF ControlInv
  <2>0. \A k \in 1..n: SteadyAfter(k)' =>
          SteadyAfter(k) /\ first.kind \notin Shows \cup {"control"}
    <3>1. ASSUME NEW k \in 1..n, \A j \in 1..(n + 1): j > k => queue'[j].kind \notin Shows \cup {"control"}
          PROVE  /\ \A j \in 1..n: j > k => queue[j].kind \notin Shows \cup {"control"}
                 /\ first.kind \notin Shows \cup {"control"}
      <4>1. n + 1 \in 1..(n + 1) /\ n + 1 > k
        BY <1>3
      <4>2. \A j \in 1..n: j \in 1..(n + 1)
        BY <1>3
      <4> QED BY <1>3, <3>1, <4>1, <4>2
    <3> QED BY <3>1, <1>3 DEF SteadyAfter
  <2>00. Steady(queue)' => Steady(queue) /\ first.kind \notin Shows \cup {"control"}
    <3>1. n + 1 \in 1..(n + 1) /\ \A j \in 1..n: j \in 1..(n + 1)
      BY <1>3
    <3> QED BY <1>3, <3>1 DEF Steady
  <2>1. CASE first.kind = "control" /\ ~ItemOf(outbox[t])
    <3>1. controls' = controls /\ first.val = controls
      BY <1>5, <1>7, <2>1
    <3> QED BY <1>3, <2>0, <2>00, <2>1, <3>1
  <2>2. CASE first.kind \in {"code", "freeze", "config"} /\ ~ItemOf(outbox[t])
    <3>1. controls' = controls /\ Len(outbox[t]) = 1
      BY <1>5, <1>7, <2>2
    <3>2. \A u \in Tasks: Steady(outbox[u])
      <4>1. Steady(outbox[t])
        BY <1>4, <2>2, <3>1 DEF Steady, Shows, first
      <4> QED BY <4>1, <1>2 DEF Steady
    <3>3. /\ \A k \in 1..n: SteadyAfter(k) =>
               /\ queue[k].kind = "control" => queue[k].val = controls
               /\ queue[k].kind = "library" => controls = 0
          /\ Steady(queue) /\ screen.id \in Patterns =>
               screen.ctl = controls \/ (~mapped /\ screen.ctl = 0)
      BY <1>3, <3>2 DEF ShowInv, ControlInv
    <3> QED BY <1>1, <1>3, <2>0, <2>00, <2>2, <3>1, <3>3
  <2>3. CASE ItemOf(outbox[t])
    <3>1. Len(outbox[t]) # 2
      <4> SUFFICES ASSUME Len(outbox[t]) = 2 PROVE FALSE
        OBVIOUS
      <4>1. 1 \in DOMAIN outbox'[t] /\ outbox'[t][1].kind = "control"
        BY <1>4, <1>9
      <4> QED BY <4>1 DEF Steady
    <3>2. first.kind \in Shows /\ (first.kind = "library" => controls' = 0)
      BY <1>5, <1>8, <2>3, <3>1, IdFacts
    <3>3. first.kind \notin {"control"}
      BY <3>2 DEF Shows
    <3> QED BY <1>3, <2>0, <2>00, <3>2, <3>3
  <2> QED BY <1>7, <2>1, <2>2, <2>3
<1>14. RecordInv'
  <2> SUFFICES ASSUME Quiet'
               PROVE  RecordInv'
    BY DEF RecordInv
  <2>1. Quiet /\ ~first.mark
    BY <1>1, <1>5 DEF Quiet, Parked
  <2>2. /\ active # None => flash.record.id = active
        /\ screen.id \in library => flash.record.id = screen.id
        /\ \A k \in 1..n: queue[k].kind \in Shows => queue[k].id = flash.record.id
        /\ remap /\ active = None /\ current \in library \cap Patterns =>
             flash.record.id = current
        /\ (Coming \/ \E k \in 1..n: queue[k].kind = "library") => flash.record.ctl = controls
    BY <1>3, <2>1 DEF ShowInv, RecordInv
  <2>3. first.kind \in Shows =>
          /\ first.id = flash.record.id
          /\ controls' = flash.record.ctl \/ (controls' = controls /\ first.kind = "scene")
    <3> SUFFICES ASSUME first.kind \in Shows
                 PROVE  /\ first.id = flash.record.id
                        /\ controls' = flash.record.ctl \/ (controls' = controls /\ first.kind = "scene")
      OBVIOUS
    <3>1. ItemOf(outbox[t])
      BY <1>7 DEF Shows
    <3>2. first.id = flash.record.id /\ first.seed \in {Keep, flash.record.ctl}
      BY <1>8, <2>1, <3>1
    <3>3. CASE first.seed = Keep
      <4>1. first.kind = "scene"
        <5>1. \A v \in Values: v # Keep
          BY IdFacts
        <5>2. outbox[t][2].val # Keep \/ Len(outbox[t]) # 2
          <6> SUFFICES ASSUME Len(outbox[t]) = 2 PROVE outbox[t][2].val # Keep
            OBVIOUS
          <6>1. outbox'[t][1] \in Letter
            BY <1>4, <1>9, ElementOfSeq
          <6> QED BY <5>1, <6>1, <1>9 DEF Letter
        <5> QED BY <1>8, <3>1, <3>3, <5>1, <5>2, IdFacts
      <4> QED BY <1>5, <3>2, <3>3, <4>1
    <3>4. CASE first.seed # Keep
      BY <1>5, <3>2, <3>4
    <3> QED BY <3>2, <3>3, <3>4
  <2>4. first.kind \notin Shows => controls' = controls
    BY <1>5, <1>7, <1>8
  <2>5. \A k \in 1..(n + 1): queue'[k].kind \in Shows => queue'[k].id = flash.record.id
    <3>1. \A k \in 1..(n + 1): k \in 1..n \/ k = n + 1
      BY <1>3
    <3> QED BY <1>3, <2>2, <2>3, <3>1
  <2>6. (Coming \/ \E k \in 1..(n + 1): queue'[k].kind = "library") =>
          flash.record.ctl = controls'
    <3>1. \A k \in 1..(n + 1): k \in 1..n \/ k = n + 1
      BY <1>3
    <3>2. CASE controls' = flash.record.ctl
      BY <3>2
    <3>3. CASE controls' = controls /\ first.kind # "library"
      BY <1>3, <2>2, <3>1, <3>3
    <3>4. first.kind = "library" => first.kind \in Shows /\ first.kind # "scene"
      BY DEF Shows
    <3> QED BY <2>3, <2>4, <3>2, <3>3, <3>4
  <2> QED BY <1>1, <1>3, <2>2, <2>5, <2>6 DEF RecordInv, Coming
<1> QED BY <1>11, <1>12, <1>13, <1>14 DEF ShowInv

(* Receiving shows the item, or leaves nothing on the screen.                *)
LEMMA ShowReceive ==
  ASSUME TypeOK, Orderly, ShowInv, Receive
  PROVE  ShowInv'
<1> DEFINE n == Len(queue)
           m == queue[1]
<1>1. UNCHANGED <<flash, library, playing, list, dirty, resume, controls, outbox>>
  BY DEF Receive, stores, player, keeper
<1>2. /\ n \in Nat /\ n > 0 /\ DOMAIN queue = 1..n /\ DOMAIN queue' = 1..(n - 1)
      /\ \A k \in 1..(n - 1): queue'[k] = queue[k + 1] /\ k + 1 \in 1..n
  <2>1. queue \in Seq(Message) /\ queue' \in Seq(Message) /\ Len(queue') = n - 1
    BY ReceiveEffect DEF TypeOK
  <2>2. n \in Nat /\ n > 0 /\ \A k \in 1..(n - 1): queue'[k] = queue[k + 1]
    BY <2>1, ReceiveEffect
  <2> QED BY <2>1, <2>2, LenProperties
<1>3. m \in Message /\ Head(queue) = m /\ queue # <<>>
  BY ReceiveEffect DEF Receive
<1>4. /\ m.kind \in Shows => m.id \in library
      /\ m.kind = "config" => current = None /\ screen = Nothing
      /\ \A k \in 2..n: queue[k].kind # "config"
  <2>1. /\ \A k \in 1..n: queue[k].kind \in Shows => queue[k].id \in library
        /\ \A k \in 1..n: queue[k].kind = "config" => k = 1 /\ current = None /\ screen = Nothing
    BY <1>2 DEF ShowInv, MailInv
  <2>2. 1 \in 1..n /\ \A k \in 2..n: k \in 1..n /\ k # 1
    BY <1>2
  <2> QED BY <2>1, <2>2
<1> HIDE DEF n, m
<1>5. Addressed(m) /\ m.kind \in Kinds
  BY <1>3 DEF Message
<1>6. Nothing.id = None /\ None \notin library /\ AdHoc \notin library /\ None \notin Patterns
        /\ AdHoc \notin Patterns /\ library \subseteq Ids
        /\ None \notin Scenes /\ AdHoc \notin Scenes /\ None # AdHoc
  BY IdFacts DEF Nothing, TypeOK
(* What each message does to the screen.                                     *)
<1>7. /\ mapped' = mapped
      /\ \/ /\ m.kind = "library" /\ m.id \in Patterns /\ m.id \in library /\ remap' = ~mapped
            /\ screen' = [id |-> m.id, ctl |-> 0] /\ current' = m.id /\ active' = None
         \/ /\ m.kind = "scene" /\ m.id \in Scenes /\ m.id \in library /\ remap' = ~mapped
            /\ screen' = [id |-> m.id, ctl |-> 0] /\ active' = m.id
         \/ /\ m.kind # "control" /\ screen'.id \notin Patterns \cup Scenes /\ active' = active
            /\ screen'.id = AdHoc => current' = AdHoc
            /\ \/ current' = current /\ remap' = remap
               \/ /\ m.kind = "library" /\ m.id \in Patterns /\ m.id \in library
                  /\ current' = m.id /\ remap' = remap
               \/ current' = AdHoc /\ remap' \in {remap, ~mapped}
         \/ /\ m.kind = "control" /\ screen'.id = screen.id /\ UNCHANGED <<active, current, remap>>
            /\ screen'.id \in Patterns => screen'.ctl = m.val
  <2>0. mapped' = mapped
    BY DEF Receive
  <2>1. CASE m.kind = "library"
    <3>1. SwapPattern(m.id) /\ m.id \in library /\ m.id \in Patterns
      BY <1>3, <1>4, <1>5, <2>1 DEF Receive, Addressed, Shows
    <3>2. Left = {Nothing}
      BY DEF Left, Orderly
    <3>3. CASE Swapped(m.id) /\ current' = m.id /\ active' = None /\ remap' = ~mapped
      BY <2>0, <2>1, <3>1, <3>3 DEF Swapped
    <3>4. CASE screen' \in Left /\ current' = m.id /\ UNCHANGED <<active, remap>>
      BY <2>0, <2>1, <3>1, <3>2, <3>4, <1>6
    <3>5. CASE screen' \in Left /\ UNCHANGED <<current, active, remap>>
      BY <2>0, <2>1, <3>2, <3>5, <1>6
    <3> QED BY <3>1, <3>3, <3>4, <3>5 DEF SwapPattern
  <2>2. CASE m.kind = "scene"
    <3>1. SwapScene(m.id) /\ m.id \in library /\ m.id \in Scenes
      BY <1>3, <1>4, <1>5, <2>2 DEF Receive, Addressed, Shows
    <3> QED BY <2>0, <2>2, <3>1 DEF SwapScene, Swapped
  <2>3. CASE m.kind = "code"
    <3>1. SwapCode
      BY <1>3, <2>3 DEF Receive
    <3>2. /\ screen' \in {[id |-> AdHoc, ctl |-> 0], Nothing} /\ current' = AdHoc
          /\ remap' = (remap \/ (~mapped /\ screen' # Nothing)) /\ UNCHANGED active
      BY <3>1 DEF SwapCode, OfThePush
    <3>3. screen'.id \notin Patterns \cup Scenes
      BY <3>2, <1>6
    <3>4. remap' \in {remap, ~mapped}
      BY <3>2 DEF TypeOK
    <3> QED BY <2>0, <2>3, <3>2, <3>3, <3>4
  <2>4. CASE m.kind = "config"
    <3>1. Rebuild /\ current = None
      BY <1>3, <1>4, <2>4 DEF Receive
    <3>2. screen' = Nothing /\ UNCHANGED <<current, active>>
      BY <3>1, <1>6, IdFacts DEF Rebuild, rebuild
    <3>3. remap' = remap
      BY <3>1, <3>2 DEF Rebuild, TypeOK
    <3> QED BY <2>0, <2>4, <3>2, <3>3, <1>6
  <2>5. CASE m.kind = "freeze"
    BY <1>3, <1>6, <2>0, <2>5 DEF Receive
  <2>6. CASE m.kind = "control"
    <3>1. /\ screen' = IF screen = Nothing THEN screen ELSE [screen EXCEPT !.ctl = m.val]
          /\ UNCHANGED <<active, current, remap>>
      BY <1>3, <2>6 DEF Receive
    <3>2. CASE screen = Nothing
      BY <2>0, <2>6, <3>1, <3>2, <1>6
    <3>3. CASE screen # Nothing
      <4>1. screen'.id = screen.id /\ screen'.ctl = m.val
        BY <3>1, <3>3 DEF TypeOK
      <4> QED BY <2>0, <2>6, <3>1, <4>1
    <3> QED BY <3>2, <3>3
  <2> QED BY <1>5, <2>1, <2>2, <2>3, <2>4, <2>5, <2>6 DEF Kinds
<1>8. ScreenInv'
  <2>1. (remap => ~mapped) => (remap' => ~mapped')
    BY <1>7
  <2>2. /\ active' # None => active' \in library
        /\ screen'.id \in Scenes \cap library => active' = screen'.id
    BY <1>6, <1>7, IdFacts DEF ShowInv, ScreenInv
  <2>3. /\ screen'.id \in Patterns => active' = None /\ current' = screen'.id
        /\ screen'.id = AdHoc => current' = AdHoc
    BY <1>6, <1>7, IdFacts DEF ShowInv, ScreenInv
  <2> QED BY <1>1, <2>1, <2>2, <2>3 DEF ShowInv, ScreenInv
<1>9. MailInv'
  <2>1. ASSUME NEW t \in Tasks
        PROVE  Unsent(outbox[t])'
    <3>1. Unsent(outbox[t])
      BY DEF ShowInv, MailInv
    <3> QED BY <3>1, <1>1, <1>3 DEF Unsent, Lone, ItemOf, Quiet, Parked
  <2>2. \A k \in 1..(n - 1): /\ queue'[k].kind \in Shows => queue'[k].id \in library'
                             /\ queue'[k].kind # "config"
    <3>1. \A k \in 1..(n - 1): k + 1 \in 2..n
      BY <1>2
    <3> QED BY <3>1, <1>1, <1>2, <1>4 DEF ShowInv, MailInv
  <2> QED BY <1>2, <2>1, <2>2 DEF MailInv
<1>10. ControlInv'
  <2> SUFFICES ASSUME \A t \in Tasks: Steady(outbox[t])
               PROVE  /\ \A k \in 1..(n - 1): SteadyAfter(k)' =>
                           /\ queue'[k].kind = "control" => queue'[k].val = controls
                           /\ queue'[k].kind = "library" => controls = 0
                      /\ Steady(queue)' /\ screen'.id \in Patterns =>
                           screen'.ctl = controls \/ (~mapped' /\ screen'.ctl = 0)
    BY <1>1, <1>2 DEF ControlInv
  <2>1. /\ \A k \in 1..n: SteadyAfter(k) =>
             /\ queue[k].kind = "control" => queue[k].val = controls
             /\ queue[k].kind = "library" => controls = 0
        /\ Steady(queue) /\ screen.id \in Patterns =>
             screen.ctl = controls \/ (~mapped /\ screen.ctl = 0)
    BY <1>2 DEF ShowInv, ControlInv
  <2>2. ASSUME NEW k \in 1..(n - 1), SteadyAfter(k)'
        PROVE  SteadyAfter(k + 1)
    <3>1. ASSUME NEW j \in 1..n, j > k + 1
          PROVE  queue[j].kind \notin Shows \cup {"control"}
      <4>1. j - 1 \in 1..(n - 1) /\ j - 1 > k /\ queue'[j - 1] = queue[j]
        BY <1>2, <3>1
      <4> QED BY <4>1, <2>2, <1>2 DEF SteadyAfter
    <3> QED BY <3>1, <1>2 DEF SteadyAfter
  <2>3. \A k \in 1..(n - 1): SteadyAfter(k)' =>
          /\ queue'[k].kind = "control" => queue'[k].val = controls
          /\ queue'[k].kind = "library" => controls = 0
    BY <1>2, <2>1, <2>2
  <2>4. ASSUME Steady(queue)', screen'.id \in Patterns
        PROVE  screen'.ctl = controls
    <3>1. SteadyAfter(1)
      <4>1. ASSUME NEW j \in 1..n, j > 1
            PROVE  queue[j].kind \notin Shows \cup {"control"}
        <5>1. j - 1 \in 1..(n - 1) /\ queue'[j - 1] = queue[j]
          BY <1>2, <4>1
        <5> QED BY <5>1, <2>4, <1>2 DEF Steady
      <4> QED BY <4>1, <1>2 DEF SteadyAfter
    <3>2. /\ m.kind = "control" => m.val = controls
          /\ m.kind = "library" => controls = 0
      BY <1>2, <2>1, <3>1 DEF m
    <3> QED BY <1>7, <2>4, <3>2, IdFacts
  <2> QED BY <2>3, <2>4
<1>11. RecordInv'
  <2> SUFFICES ASSUME Quiet
               PROVE  RecordInv'
    BY <1>1 DEF RecordInv, Quiet, Parked
  <2>1. /\ active # None => flash.record.id = active
        /\ screen.id \in library => flash.record.id = screen.id
        /\ \A k \in 1..n: queue[k].kind \in Shows => queue[k].id = flash.record.id
        /\ remap /\ active = None /\ current \in library \cap Patterns =>
             flash.record.id = current
        /\ (Coming \/ \E k \in 1..n: queue[k].kind = "library") => flash.record.ctl = controls
    BY <1>2 DEF ShowInv, RecordInv
  <2>2. m.kind \in Shows => m.id = flash.record.id
    BY <1>2, <2>1 DEF m
  <2>3. m.kind = "library" => flash.record.ctl = controls
    BY <1>2, <2>1 DEF m
  <2>4. /\ active' # None => flash.record.id = active'
        /\ screen'.id \in library => flash.record.id = screen'.id
        /\ screen'.id \in library \cap Patterns => flash.record.ctl = controls
    <3>1. library \subseteq Patterns \cup Scenes
      BY <1>6 DEF Ids
    <3> QED BY <1>7, <2>1, <2>2, <2>3, <3>1, IdFacts DEF Shows, Coming
  <2>6. remap' /\ active' = None /\ current' \in library \cap Patterns =>
          flash.record.id = current' /\ flash.record.ctl = controls
    BY <1>6, <1>7, <2>1, <2>2, <2>3, IdFacts DEF Shows, Coming
  <2>5. /\ \A k \in 1..(n - 1): queue'[k].kind \in Shows => queue'[k].id = flash.record.id
        /\ (\E k \in 1..(n - 1): queue'[k].kind = "library") => flash.record.ctl = controls
    BY <1>2, <2>1
  <2> QED BY <1>1, <1>2, <2>4, <2>5, <2>6 DEF RecordInv, Coming
<1> QED BY <1>8, <1>9, <1>10, <1>11 DEF ShowInv

(* What is built anew is the pattern that was shown, or would have been.     *)
LEMMA ShowRemap ==
  ASSUME TypeOK, Orderly, ShowInv, Remap
  PROVE  ShowInv'
<1>1. /\ queue = <<>> /\ remap /\ ~remap' /\ ~mapped /\ ~mapped'
      /\ UNCHANGED <<flash, library, playing, list, queue, outbox>>
      /\ UNCHANGED <<controls, dirty, resume, active, current>>
  BY RemapEffect DEF ShowInv, ScreenInv
<1>2. \/ screen' = screen
      \/ screen' = Nothing
      \/ /\ active = None \/ screen.id \notin {None} \cup Scenes
         /\ screen' = [id |-> current, ctl |-> 0] /\ current \in library \cup {AdHoc}
  BY RemapEffect DEF Orderly
<1>3. /\ Nothing.id = None /\ None \notin Ids /\ AdHoc \notin Ids /\ None # AdHoc
      /\ Ids = Patterns \cup Scenes /\ Patterns \cap Scenes = {} /\ library \subseteq Ids
      /\ current \in Patterns \cup {None, AdHoc} /\ screen.id \in Ids \cup {None, AdHoc}
  BY IdFacts DEF Nothing, TypeOK
<1>4. screen' # screen /\ screen'.id \in Patterns =>
        active = None /\ current = screen'.id /\ current \in library /\ screen'.ctl = 0
  BY <1>2, <1>3 DEF ShowInv, ScreenInv
<1>5. screen' # screen => screen'.id \notin Scenes /\ (screen'.id = AdHoc => current = AdHoc)
  BY <1>2, <1>3
<1>6. ScreenInv'
  BY <1>1, <1>4, <1>5 DEF ShowInv, ScreenInv
<1>7. MailInv'
  <2>1. \A t \in Tasks: Unsent(outbox[t]) => Unsent(outbox[t])'
    <3>1. screen = Nothing /\ current = None => screen' = Nothing
      BY <1>2, <1>3
    <3> QED BY <1>1, <3>1 DEF Unsent, Lone, ItemOf, Quiet, Parked
  <2> QED BY <1>1, <2>1 DEF ShowInv, MailInv
<1>8. ControlInv'
  BY <1>1, <1>4 DEF ShowInv, ControlInv, Steady, SteadyAfter
<1>9. RecordInv'
  <2>1. Quiet' = Quiet /\ DOMAIN queue = {}
    BY <1>1 DEF Quiet, Parked
  <2>2. ASSUME Quiet, screen' # screen, screen'.id \in library
        PROVE  flash.record.id = screen'.id /\ flash.record.ctl = controls
    <3>1. screen'.id \in Patterns
      BY <1>3, <1>5, <2>2
    <3> QED BY <1>1, <1>4, <2>2, <3>1 DEF ShowInv, RecordInv, Coming
  <2> QED BY <1>1, <2>1, <2>2 DEF ShowInv, RecordInv, Coming
<1> QED BY <1>6, <1>7, <1>8, <1>9 DEF ShowInv

(* The letters of an item that is entered, or of the record.                 *)
LEMMA InstallPosted ==
  ASSUME NEW what, what.id \in Ids, what.ctl \in Values, what.id \in library',
         ~Quiet' \/ (what.id = flash'.record.id /\ what.ctl = flash'.record.ctl)
  PROVE  \E letters \in Seq(Letter):
           letters = Install(what) /\ ~Steady(letters) /\ Unsent(letters)'
<1>1. PICK letters \in Seq(Letter): letters = Install(what)
  BY InstallLetters
<1>2. /\ letters[1].kind \in Shows /\ letters[1].id = what.id /\ letters[1].seed = what.ctl
      /\ \/ Len(letters) = 1 /\ what.ctl = 0
         \/ /\ Len(letters) = 2 /\ letters[2].kind = "control" /\ letters[2].seed = Keep
            /\ letters[2].val = what.ctl
  <2>1. /\ Show(what.id, what.ctl, FALSE).kind \in Shows
        /\ Show(what.id, what.ctl, FALSE).id = what.id
        /\ Show(what.id, what.ctl, FALSE).seed = what.ctl
    BY DEF Show, Mail, Shows
  <2>2. /\ SetControl(what.ctl).kind = "control" /\ SetControl(what.ctl).seed = Keep
        /\ SetControl(what.ctl).val = what.ctl
    BY DEF SetControl, Mail
  <2> QED BY <1>1, <2>1, <2>2, InstallLetters
<1>3. ~Steady(letters)
  <2>1. 1 \in DOMAIN letters
    BY <1>2, LenProperties
  <2> QED BY <1>2, <2>1 DEF Steady
<1>4. ItemOf(letters)'
  BY <1>2 DEF ItemOf
<1> QED BY <1>1, <1>3, <1>4 DEF Unsent

(* The scheduler sends an item only while it plays.                          *)
LEMMA ShowSchedule ==
  ASSUME TypeOK, Orderly, ListInv, ShowInv, Schedule
  PROVE  ShowInv'
<1>1. CASE Enter
  <2>1. /\ NobodyWaits /\ playing /\ list # <<>> /\ "sched" \in Tasks /\ ~Quiet'
        /\ UNCHANGED <<screen, active, current, remap, mapped, library, controls, flash>>
    BY <1>1, TaskNames DEF Enter, shown, stores, keeper, Quiet, Parked
  <2>2. CASE index < Len(list) /\ list[index + 1].id \in library
    <3>1. list[index + 1].id \in Ids /\ list[index + 1].ctl \in Values
      BY <2>2, ListTypes DEF TypeOK
    <3>2. PICK letters \in Seq(Letter):
            letters = Install(list[index + 1]) /\ ~Steady(letters) /\ Unsent(letters)'
      BY <2>1, <2>2, <3>1, InstallPosted
    <3>3. Post("sched", letters)
      BY <1>1, <2>2, <3>2 DEF Enter
    <3> QED BY <2>1, <3>2, <3>3, ShowPosts
  <2>3. CASE ~(index < Len(list) /\ list[index + 1].id \in library)
    <3>1. Post("sched", <<>>) /\ <<>> \in Seq(Letter) /\ Unsent(<<>>)'
      BY <1>1, <2>3 DEF Enter, Unsent
    <3> QED BY <2>1, <3>1, ShowPosts
  <2> QED BY <2>2, <2>3
<1>2. CASE Rest \/ NoItems \/ TakeCommand \/ Advance
  <2>1. UNCHANGED <<queue, outbox, screen, active, current, remap, mapped, library, controls, flash, list>>
    BY <1>2 DEF Rest, NoItems, TakeCommand, Advance, stores, shown, mail, keeper
  <2>2. Quiet' => Quiet
    BY <1>2 DEF Rest, NoItems, TakeCommand, Advance, keeper, Quiet, Parked
  <2> QED BY <2>1, <2>2, ShowStands
<1> QED BY <1>1, <1>2 DEF Schedule

(* persist_now records what is shown, or will be.                            *)
LEMMA ShowPersist ==
  ASSUME TypeOK, Orderly, ListInv, ShowInv, Persist
  PROVE  ShowInv'
<1>1. /\ UNCHANGED <<queue, outbox, screen, active, current, remap, mapped, library, controls, playing, list, dirty>>
      /\ queue = <<>> /\ (\A t \in Tasks: outbox[t] = <<>>) /\ sched.pc # "look" /\ ~remap
  BY DEF Persist, shown, mail, player, Resting
<1>2. flash' = [flash EXCEPT !.record = snapshot_record]
  BY OrderlyStored DEF Persist
<1>3. flash'.record = snapshot_record
  BY <1>2 DEF TypeOK
<1>4. ScreenInv' /\ MailInv' /\ ControlInv'
  BY <1>1 DEF ShowInv, ScreenInv, MailInv, Unsent, ControlInv, Steady, SteadyAfter
<1>5. ASSUME Quiet'
      PROVE  RecordInv'
  <2>1. ~playing
    BY <1>1, <1>5 DEF Quiet, Parked, ListInv
  <2>2. active # None => snapshot_record.id = active
    BY <2>1 DEF snapshot_record
  <2>3. active = None /\ current \in Patterns =>
          snapshot_record.id = current /\ snapshot_record.ctl = controls
    BY <2>1 DEF snapshot_record
  <2>4. screen.id \in library /\ screen.id \in Scenes => active = screen.id /\ active # None
    BY IdFacts DEF ShowInv, ScreenInv, TypeOK
  <2>5. screen.id \in library /\ screen.id \notin Scenes =>
          active = None /\ current = screen.id /\ current \in Patterns
    BY IdFacts DEF ShowInv, ScreenInv, TypeOK
  <2>6. screen.id \in Patterns => screen.id \notin Scenes
    BY IdFacts
  <2>7. DOMAIN queue' = {}
    BY <1>1
  <2> QED BY <1>1, <1>3, <2>2, <2>3, <2>4, <2>5, <2>6, <2>7 DEF RecordInv, Coming
<1> QED BY <1>4, <1>5 DEF ShowInv, RecordInv

(* The task that keeps the record applies it, waits and writes it.           *)
LEMMA ShowResume ==
  ASSUME TypeOK, Orderly, ListInv, ShowInv, Resume
  PROVE  ShowInv'
<1>1. CASE Apply
  <2>1. /\ NobodyWaits /\ "resume" \in Tasks /\ Quiet' = Quiet
        /\ UNCHANGED <<screen, active, current, remap, mapped, library, controls, flash>>
        /\ Post("resume", Install(flash.record))
    BY <1>1, TaskNames DEF Apply, shown, stores, player, Quiet, Parked
  <2>2. flash.record.id \in library /\ flash.record.id \in Ids /\ flash.record.ctl \in Values
    BY <1>1 DEF Apply, Restorable, TypeOK, Record
  <2>3. PICK letters \in Seq(Letter):
          letters = Install(flash.record) /\ ~Steady(letters) /\ Unsent(letters)'
    BY <2>1, <2>2, InstallPosted
  <2>4. Post("resume", letters)
    BY <2>1, <2>3
  <2> QED BY <2>1, <2>3, <2>4, ShowPosts
<1>2. CASE StartResume \/ TooTight \/ SeeDirty
  <2>1. UNCHANGED <<queue, outbox, screen, active, current, remap, mapped, library, controls, flash, list, playing>>
    BY <1>2 DEF StartResume, TooTight, SeeDirty, stores, shown, mail, player
  <2>2. Quiet' => Quiet
    BY <1>2 DEF StartResume, TooTight, SeeDirty, player, Quiet, Parked
  <2> QED BY <2>1, <2>2, ShowStands
<1> QED BY <1>1, <1>2, ShowPersist DEF Resume

(* Nothing is shown, and nothing is on its way.                              *)
LEMMA NothingShown ==
  ASSUME library \subseteq Ids, queue = <<>>, outbox = Empty, screen = Nothing, active = None,
         remap = FALSE
  PROVE  ShowInv
<1>1. None \notin Patterns /\ None \notin library /\ screen.id = None /\ None # AdHoc
  BY IdFacts DEF Nothing
<1>2. \A t \in Tasks: outbox[t] = <<>>
  BY DEF Empty
<1> QED BY <1>1, <1>2
    DEF ShowInv, ScreenInv, MailInv, ControlInv, RecordInv, Coming, Unsent, Steady

(* A reboot shows nothing, and has nothing on its way.                       *)
LEMMA ShowReboot ==
  ASSUME TypeOK, Reboot
  PROVE  ShowInv'
<1>1. /\ library' \subseteq Ids /\ queue' = <<>> /\ outbox' = Empty /\ screen' = Nothing
      /\ active' = None /\ remap' = FALSE
  BY DEF Reboot, stores, TypeOK
<1>2. None \notin Patterns /\ None \notin library' /\ screen'.id = None /\ None # AdHoc
  BY <1>1, IdFacts DEF Nothing
<1>3. \A t \in Tasks: outbox'[t] = <<>>
  BY <1>1 DEF Empty
<1> QED BY <1>1, <1>2, <1>3
    DEF ShowInv, ScreenInv, MailInv, ControlInv, RecordInv, Coming, Unsent, Steady

RebootInv == TypeOK /\ Holding /\ OneSender /\ ListInv /\ ShowInv

(* Screen, mail, controls and flash are in accord, always.                   *)
LEMMA RebootInvariant ==
  ASSUME Orderly
  PROVE  Spec => []RebootInv
<1>1. Init => RebootInv
  <2> SUFFICES ASSUME Init PROVE RebootInv
    OBVIOUS
  <2>1. TypeOK
    BY TypeInit
  <2>2. ShowInv
    BY NothingShown DEF Init
  <2>3. ListInv
    BY DEF Init, ListInv, NotYet
  <2> QED BY <2>1, <2>2, <2>3 DEF Init, RebootInv, Holding, OneSender, NotYet, Empty
<1>2. RebootInv /\ [Next]_vars => RebootInv'
  <2> SUFFICES ASSUME RebootInv, [Next]_vars PROVE RebootInv'
    OBVIOUS
  <2>1. TypeOK' /\ Holding' /\ OneSender' /\ ListInv'
    BY TypeStep, SenderStep, ListStep DEF RebootInv, Orderly
  <2>2. ASSUME NEW t \in Tasks, Block(t)
        PROVE  ShowInv'
    BY <2>2, ShowStands DEF RebootInv, Block, stores, player, shown, keeper, Quiet, Parked
  <2>3. ASSUME UNCHANGED vars
        PROVE  ShowInv'
    <3>1. UNCHANGED <<stores, player, shown, mail, keeper>>
      BY <2>3 DEF vars
    <3>2. UNCHANGED <<queue, outbox, screen, active, current, remap, mapped, library, controls, flash,
                      playing, list, dirty, resume>>
      BY <3>1 DEF stores, player, shown, mail, keeper
    <3>3. flash'.record = flash.record /\ (Quiet' => Quiet)
      BY <3>2 DEF Quiet, Parked
    <3>4. ShowInv
      BY DEF RebootInv
    <3> QED BY <3>2, <3>3, <3>4, ShowStands
  <2>4. ShowInv'
    BY <2>2, <2>3, ShowRequest, ShowReceive, ShowRemap, ShowSchedule, ShowResume, ShowReboot, ShowSend
    DEF RebootInv, Next
  <2> QED BY <2>1, <2>4 DEF RebootInv
<1> QED BY <1>1, <1>2, PTL DEF Spec

(* "The actively-running saved pattern + its explicitly-set control values   *)
(* - or the stored scene - survive a reboot" (resume.rs), and with them      *)
(* whether the playlist was playing: for any library, playlists, number of   *)
(* clients, capacity of the queue, requests and reboots, with a map or       *)
(* without; the controls of a bare strip may be at their defaults instead.   *)
THEOREM RebootsShowTheSame ==
  ASSUME Orderly
  PROVE  Spec => []RebootShowsTheSame
<1>1. RebootInv => RebootShowsTheSame
  <2> SUFFICES ASSUME RebootInv, Settled PROVE
        /\ PlaysOnFlash = playing
        /\ ~playing /\ screen.id \in library =>
             /\ flash.record.id = screen.id
             /\ screen.id \in Patterns =>
                  screen.ctl = flash.record.ctl \/ (~mapped /\ screen.ctl = 0)
    BY DEF RebootShowsTheSame
  <2>1. /\ queue = <<>> /\ (\A t \in Tasks: outbox[t] = <<>>) /\ sched.pc # "look"
        /\ resume = "wait" /\ ~dirty
    BY DEF Settled, Resting
  <2>2. PlaysOnFlash = playing
    BY <2>1 DEF RebootInv, ListInv, PlaysOnFlash, TypeOK
  <2>3. ASSUME ~playing, screen.id \in library
        PROVE  /\ flash.record.id = screen.id
               /\ screen.id \in Patterns =>
                    screen.ctl = flash.record.ctl \/ (~mapped /\ screen.ctl = 0)
    <3>1. /\ flash.record.id = screen.id
          /\ screen.id \in Patterns => flash.record.ctl = controls
      BY <2>1, <2>3 DEF RebootInv, ShowInv, RecordInv, Coming, Quiet, Parked
    <3>2. screen.id \in Patterns => screen.ctl = controls \/ (~mapped /\ screen.ctl = 0)
      BY <2>1 DEF RebootInv, ShowInv, ControlInv, Steady
    <3> QED BY <3>1, <3>2
  <2> QED BY <2>2, <2>3
<1> QED BY <1>1, RebootInvariant, PTL
=============================================================================
