------------------------------ MODULE Playback ------------------------------
(***************************************************************************)
(* What is on screen and what a reboot would put there: the playlist       *)
(* scheduler (playlist.rs), the debounced resume record (resume.rs), the   *)
(* handlers that change either (server.rs, mqtt.rs, scenes.rs) and the     *)
(* message queue to the render task (shared.rs, main.rs), which alone      *)
(* stamps the identity of what it shows.                                   *)
(*                                                                         *)
(* Handlers, scheduler and resume task share one cooperative executor: a   *)
(* task that has begun runs on (turn) until it awaits.  The render task    *)
(* may be on the other core and takes a message at any moment.             *)
(*                                                                         *)
(* DEBOUNCE_SECS and the durations of items are long against what the      *)
(* tasks do between them: a timer fires only when everybody rests.         *)
(***************************************************************************)
EXTENDS Integers, Sequences

CONSTANTS
  Patterns,   \* ids in the pattern library
  Scenes,     \* ids in the scene store
  Base,       \* [Scenes -> Patterns], a scene's base layer
  None,       \* the empty id, nothing on screen
  AdHoc,      \* code that was pushed and not saved
  Records,    \* what the resume record may be when the model starts
  Lists,      \* playlists a client posts: sequences of [id, ctl, timed]
  Values,     \* values of a control; 0 stands for the pattern's default
  Clients,    \* web and MQTT handlers
  QueueCap,   \* capacity of MSG_QUEUE
  MaxAsks,    \* bounds: requests,
  MaxBoots,   \* and reboots
  Mishaps     \* what the code does not withstand, see AllMishaps

(* The README has what each one does.                                      *)
AllMishaps == {"empty",     \* a playing playlist has no items
               "tie",       \* a command in the instant an item's time is up
               "tweak",     \* a control set while nothing records it
               "code",      \* code pushed while a scene is up
               "resize",    \* the pixel count changes while something plays
               "early",     \* a request while the record waits for the heap
               "gone",      \* something is deleted on its way to the screen
               "full",      \* two senders await room in the queue
               "starved",   \* a swap that fails while the old stack stays
               "revived",   \* a scene's base is rebuilt for a scene that went
               "refused"}   \* a flash write refused

Ids == Patterns \cup Scenes
Nothing == [id |-> None, ctl |-> 0]
drop_scene_lines(id, l) == SelectSeq(l, LAMBDA item: item.id # id)
Keep == -1                  \* leave the set of explicit controls alone

ASSUME PlaybackAssumption ==
  /\ Patterns \cap Scenes = {} /\ {None, AdHoc} \cap Ids = {} /\ None # AdHoc
  /\ Base \in [Scenes -> Patterns]
  /\ Values \subseteq Nat /\ 0 \in Values
  /\ Records \subseteq {Nothing} \cup [id: Patterns, ctl: Values] \cup [id: Scenes, ctl: {0}]
  /\ {QueueCap, MaxAsks, MaxBoots} \subseteq Nat /\ QueueCap > 0
  /\ Mishaps \subseteq AllMishaps
  /\ Lists \subseteq Seq([id: Ids, ctl: Values, timed: BOOLEAN])
  /\ \A l \in Lists, id \in Scenes: drop_scene_lines(id, l) \in Lists

VARIABLES
  flash,      \* RESUME_KEY, PLAYSTATE_KEY, PLAYLIST_KEY: [record, playing, list]
  library,    \* the ids that exist
  list,       \* PLAYLIST
  playing,    \* PLAYING
  index,      \* INDEX
  cmd,        \* wakes in CMD
  sched,      \* playlist_task: [pc, i, seen]
  queue,      \* MSG_QUEUE
  outbox,     \* what each task still has to send
  turn,       \* the task that runs, None when all of them wait
  screen,     \* the render task's engines: [id, ctl]
  active,     \* ACTIVE, the scene that is up
  current,    \* CURRENT_PATTERN_ID, and whether it is an ad-hoc push
  mapped,     \* has_map; a bare strip has none
  remap,      \* devicemap's DIRTY where that matters: there is no map
  controls,   \* CURRENT_CONTROLS
  dirty,      \* DIRTY
  resume,     \* where resume_task is
  aimed,      \* history: the index last commanded and not entered yet
  wanted,     \* history: the id last asked for, unless the screen was given up
  fresh,      \* history: no request and no failed swap since the boot
  used        \* requests and reboots so far

stores == <<flash, library>>
player == <<list, playing, index, cmd, sched, aimed>>
shown == <<screen, active, current, remap, mapped>>
mail == <<queue, outbox, turn>>
keeper == <<controls, dirty, resume>>
history == <<wanted, fresh, used>>
vars == <<stores, player, shown, mail, keeper, history>>

Tasks == Clients \cup {"sched", "resume"}
NoIndex == -1
CmdCap == 4

NotYet == [pc |-> "look", i |-> 0, seen |-> <<>>]
Empty == [t \in Tasks |-> <<>>]

Init ==
  /\ \E record \in Records, l \in Lists, p \in BOOLEAN :
       /\ flash = [record |-> record, playing |-> p, list |-> l]
       /\ list = l /\ playing = p
  /\ library = Ids /\ used = [asks |-> 0, boots |-> 0]
  /\ index = 0 /\ cmd = 0 /\ sched = NotYet /\ aimed = NoIndex
  /\ queue = <<>> /\ outbox = Empty /\ turn = None
  /\ screen = Nothing /\ active = None /\ current = None
  /\ remap = FALSE /\ mapped \in BOOLEAN
  /\ controls = 0 /\ dirty = FALSE /\ resume = "off" /\ fresh = TRUE /\ wanted = None

-----------------------------------------------------------------------------
(* Messages, with what the sender does once the queue has taken them: seed *)
(* the controls and mark the record dirty.                                 *)

Mail(kind, id, val, seed, mark) ==
  [kind |-> kind, id |-> id, val |-> val, seed |-> seed, mark |-> mark]

Show(id, seed, mark) ==
  Mail(IF id \in Scenes THEN "scene" ELSE "library", id, 0, seed, mark)
SetControl(v) == Mail("control", None, v, Keep, FALSE)

(* An item or a record: its pattern or scene, then its control.            *)
Install(what) ==
  <<Show(what.id, what.ctl, FALSE)>> \o (IF what.ctl = 0 THEN <<>> ELSE <<SetControl(what.ctl)>>)

Free == turn = None         \* the executor may run another task
NobodyWaits == (\A t \in Tasks: outbox[t] = <<>>) \/ "full" \in Mishaps

Post(t, letters) ==
  /\ outbox' = [outbox EXCEPT ![t] = letters]
  /\ turn' = IF letters = <<>> THEN None ELSE t
  /\ UNCHANGED queue

Send(t) ==
  /\ turn \in {None, t} /\ outbox[t] # <<>> /\ Len(queue) < QueueCap
  /\ LET m == Head(outbox[t]) IN
       /\ queue' = Append(queue, [kind |-> m.kind, id |-> m.id, val |-> m.val])
       /\ controls' = IF m.seed = Keep THEN controls ELSE m.seed
       /\ dirty' = (dirty \/ m.mark)
  /\ outbox' = [outbox EXCEPT ![t] = Tail(@)]
  /\ turn' = IF Len(outbox[t]) > 1 THEN t ELSE None
  /\ UNCHANGED <<stores, player, shown, resume, history>>

(* The queue is full: the sender awaits, and another task may get ahead.   *)
Block(t) ==
  /\ turn = t /\ Len(queue) = QueueCap
  /\ turn' = None
  /\ UNCHANGED <<stores, player, shown, queue, outbox, keeper, history>>

(* store_blob, whose answer nobody retries on.                             *)
Stored(f) == {f} \cup (IF "refused" \in Mishaps THEN {flash} ELSE {})

Unheard == cmd                  \* mutant
wake == IF cmd < CmdCap THEN cmd + 1 ELSE cmd

-----------------------------------------------------------------------------
(* The render task.  Every swap that succeeds calls devicemap::mark_dirty. *)

Swapped(id) == screen' = [id |-> id, ctl |-> 0]
Left == {Nothing} \cup (IF "starved" \in Mishaps THEN {screen} ELSE {})

(* Msg::Library.  A swap that finds no memory for the engine has stamped   *)
(* its identity; one that finds none to decode, or no pattern, has not.    *)
SwapPattern(id) ==
  \/ /\ id \in library
     /\ Swapped(id) /\ current' = id /\ active' = None /\ remap' = ~mapped
  \/ /\ id \in library
     /\ screen' \in Left /\ current' = id /\ UNCHANGED <<active, remap>>
  \/ /\ screen' \in Left \cup (IF id \notin library THEN {screen} ELSE {})
     /\ UNCHANGED <<current, active, remap>>

(* install_scene.                                                          *)
SwapScene(id) ==
  IF id \in library
  THEN Swapped(id) /\ current' = Base[id] /\ active' = id /\ remap' = ~mapped
  ELSE UNCHANGED <<screen, current, active, remap>>

(* Msg::Code; Msg::Config, which rebuilds the current pattern alone.       *)
KeepsTheOldId == current        \* mutant
OfThePush == AdHoc
SwapCode ==
  /\ screen' \in {[id |-> AdHoc, ctl |-> 0], Nothing}
  /\ current' = OfThePush
  /\ remap' = (remap \/ (~mapped /\ screen' # Nothing))
  /\ UNCHANGED active

rebuild == {Nothing} \cup
  (IF current \in library \cup {AdHoc} THEN {[id |-> current, ctl |-> 0]} ELSE {})
Rebuild ==
  /\ screen' \in rebuild
  /\ remap' = (remap \/ (~mapped /\ screen' # Nothing))
  /\ UNCHANGED <<current, active>>

Receive ==
  /\ queue # <<>>
  /\ queue' = Tail(queue)
  /\ LET m == Head(queue) IN
       /\ \/ m.kind = "library" /\ SwapPattern(m.id)
          \/ m.kind = "scene" /\ SwapScene(m.id)
          \/ m.kind = "code" /\ SwapCode
          \/ m.kind = "config" /\ Rebuild
          \/ m.kind = "freeze" /\ screen' = Nothing /\ UNCHANGED <<active, current, remap>>
          \/ /\ m.kind = "control"
             /\ screen' = IF screen = Nothing THEN screen ELSE [screen EXCEPT !.ctl = m.val]
             /\ UNCHANGED <<active, current, remap>>
       /\ LET fails == m.kind \in {"library", "scene"} /\ screen'.id # m.id IN
            /\ fresh' = (fresh /\ ~fails)
            /\ wanted' = IF fails /\ wanted = m.id THEN None ELSE wanted
  /\ UNCHANGED <<stores, player, outbox, turn, keeper, used, mapped>>

(* take_dirty, after the last message of a drain.  An installed map is put *)
(* on the engines that are up.  Without one, and without a scene, the      *)
(* engine is dropped and built anew: controls that were drained with its   *)
(* swap are lost, and an engine that was frozen is back.                   *)
BaseOfAScene == screen.id = None /\ active # None
Remap ==
  /\ queue = <<>> /\ remap
  /\ remap' = FALSE
  /\ IF screen.id \in Scenes \/ (BaseOfAScene /\ "revived" \notin Mishaps)
     THEN UNCHANGED screen ELSE screen' \in rebuild
  /\ fresh' = (fresh /\ screen'.id = screen.id)
  /\ wanted' = IF wanted = screen.id /\ screen'.id # screen.id THEN None ELSE wanted
  /\ UNCHANGED <<stores, player, mail, keeper, active, current, mapped, used>>

-----------------------------------------------------------------------------
(* Requests.                                                               *)

Ask ==
  /\ Free /\ resume # "off"
  /\ resume # "heap" \/ "early" \in Mishaps
  /\ NobodyWaits
  /\ used.asks < MaxAsks
  /\ used' = [used EXCEPT !.asks = @ + 1]
  /\ fresh' = FALSE

Idle(c) == outbox[c] = <<>>
Wants(id) == wanted' = id
Ordinary == UNCHANGED <<shown, resume>>

(* POST .../activate of a pattern or a scene: the playlist is left alone.  *)
Activate(c, id) ==
  /\ Ask /\ Idle(c) /\ id \in library
  /\ Post(c, <<Show(id, 0, TRUE)>>)
  /\ Wants(id)
  /\ Ordinary /\ UNCHANGED <<stores, player, controls, dirty>>

Stopped ==                      \* playlist::stop
  /\ playing' = FALSE
  /\ flash' \in Stored([flash EXCEPT !.playing = FALSE])
  /\ dirty' = TRUE
  /\ cmd' = wake
  /\ aimed' = NoIndex
  /\ UNCHANGED <<list, index, sched>>

(* activate_by_name, of the MQTT pattern select.                           *)
Select(c, id) ==
  /\ Ask /\ Idle(c) /\ id \in library \cap Patterns
  /\ Stopped
  /\ Post(c, <<Show(id, 0, TRUE)>>)
  /\ Wants(id)
  /\ Ordinary /\ UNCHANGED <<library, controls>>

(* A save of the scene that is up shows it again.                          *)
SaveScene(c) ==
  /\ Ask /\ Idle(c) /\ active # None
  /\ Post(c, <<Show(active, Keep, FALSE)>>)
  /\ Wants(active)
  /\ Ordinary /\ UNCHANGED <<stores, player, controls, dirty>>

ForgetsToMark == dirty          \* mutant
Recording == ~playing /\ current \in Patterns
MarkedDirty == dirty \/ Recording

Control(c, v) ==
  /\ Ask /\ Idle(c)
  /\ Recording \/ "tweak" \in Mishaps
  /\ controls' = IF Recording THEN v ELSE controls
  /\ dirty' = MarkedDirty
  /\ Post(c, <<SetControl(v)>>)
  /\ Ordinary /\ UNCHANGED <<stores, player, wanted>>

PushCode(c) ==
  /\ Ask /\ Idle(c)
  /\ \/ active = None /\ \A k \in DOMAIN queue: queue[k].kind # "scene"
     \/ "code" \in Mishaps
  /\ Stopped
  /\ Post(c, <<Mail("code", None, 0, Keep, FALSE)>>)
  /\ Wants(None)
  /\ Ordinary /\ UNCHANGED <<library, controls>>

(* POST /api/config; an update or a pattern upload that needs the heap.    *)
Resize(c) ==
  /\ Ask /\ Idle(c)
  /\ \/ screen = Nothing /\ queue = <<>> /\ current = None
     \/ "resize" \in Mishaps
  /\ Post(c, <<Mail("config", None, 0, Keep, FALSE)>>)
  /\ Wants(None)
  /\ Ordinary /\ UNCHANGED <<stores, player, controls, dirty>>

Freeze(c) ==
  /\ Ask /\ Idle(c)
  /\ Post(c, <<Mail("freeze", None, 0, Keep, FALSE)>>)
  /\ Wants(None)
  /\ Ordinary /\ UNCHANGED <<stores, player, controls, dirty>>

Play(i) ==
  /\ Ask
  /\ list # <<>> \/ "empty" \in Mishaps
  /\ playing' = TRUE /\ index' = i /\ cmd' = wake /\ aimed' = i
  /\ flash' \in Stored([flash EXCEPT !.playing = TRUE])
  /\ Ordinary /\ UNCHANGED <<library, list, sched, mail, controls, dirty, wanted>>

Stop ==
  /\ Ask
  /\ Stopped
  /\ Ordinary /\ UNCHANGED <<library, mail, controls, wanted>>

Step(d) ==
  /\ Ask
  /\ LET to == (index + d + Len(list)) % Len(list)
         moves == playing /\ list # <<>>
     IN  /\ index' = IF moves THEN to ELSE index
         /\ aimed' = IF moves THEN to ELSE aimed
  /\ cmd' = wake
  /\ Ordinary /\ UNCHANGED <<stores, list, playing, sched, mail, controls, dirty, wanted>>

set_from_wire(l) ==
  /\ \/ flash.playing = playing /\ (playing => l # <<>>)
     \/ "empty" \in Mishaps
  /\ list' = l
  /\ flash' \in Stored([flash EXCEPT !.list = l])
  /\ cmd' = wake
  /\ UNCHANGED <<playing, index, sched, aimed>>

SetList(l) ==
  /\ Ask
  /\ set_from_wire(l)
  /\ Ordinary /\ UNCHANGED <<library, mail, controls, dirty, wanted>>

(* A deleted scene leaves the playlist, and ACTIVE, but not the screen.    *)
OnItsWay(id) == (remap /\ active = id) \/ \E k \in DOMAIN queue: queue[k].id = id
Delete(id) ==
  /\ Ask /\ id \in library
  /\ ~OnItsWay(id) \/ "gone" \in Mishaps
  /\ library' = library \ {id}
  /\ active' = IF active = id THEN None ELSE active
  /\ LET dropped == drop_scene_lines(id, flash.list) IN
       IF id \in Scenes /\ dropped # flash.list
       THEN set_from_wire(dropped)
       ELSE UNCHANGED <<flash, player>>
  /\ UNCHANGED <<screen, current, remap, mapped, mail, controls, dirty, resume, wanted>>

-----------------------------------------------------------------------------
(* playlist_task.                                                          *)

Scheduler(to) == Free /\ outbox["sched"] = <<>> /\ sched' = to

Rest ==
  /\ sched.pc = "look" /\ ~playing
  /\ Scheduler([sched EXCEPT !.pc = "idle"])
  /\ UNCHANGED <<stores, shown, mail, keeper, history, list, playing, index, cmd, aimed>>

NoItems ==
  /\ sched.pc = "look" /\ playing /\ list = <<>>
  /\ playing' = FALSE
  /\ Scheduler([sched EXCEPT !.pc = "look"])
  /\ UNCHANGED <<stores, shown, mail, keeper, history, list, index, cmd, aimed>>

(* enter_item: an item that is gone, or an index past the end, shows       *)
(* nothing new and is waited for all the same.                             *)
Enter ==
  /\ sched.pc = "look" /\ playing /\ list # <<>> /\ NobodyWaits
  /\ Scheduler([pc |-> "hold", i |-> index, seen |-> list])
  /\ Post("sched", IF index < Len(list) /\ list[index + 1].id \in library
                   THEN Install(list[index + 1]) ELSE <<>>)
  /\ aimed' = IF aimed = index THEN NoIndex ELSE aimed
  /\ Wants(None)
  /\ UNCHANGED <<stores, shown, keeper, fresh, used, list, playing, index, cmd>>

TakeCommand ==
  /\ sched.pc \in {"idle", "hold"} /\ cmd > 0
  /\ Scheduler([sched EXCEPT !.pc = "look"])
  /\ cmd' = cmd - 1
  /\ UNCHANGED <<stores, shown, mail, keeper, history, list, playing, index, aimed>>

(* The item's time is up.  A command that came in the same instant finds   *)
(* the timer first in the select, and its index overwritten.               *)
Advance ==
  /\ sched.pc = "hold"
  /\ sched.i < Len(list) => list[sched.i + 1].timed
  /\ (cmd = 0 /\ queue = <<>> /\ ~remap) \/ "tie" \in Mishaps
  /\ index' = (sched.i + 1) % Len(sched.seen)
  /\ Scheduler([sched EXCEPT !.pc = "look"])
  /\ UNCHANGED <<stores, shown, mail, keeper, history, list, playing, cmd, aimed>>

-----------------------------------------------------------------------------
(* resume_task, spawned together with the web tasks, when playlist_task    *)
(* has run to its first wait.                                              *)

Restorable(what) ==
  what.id \in library /\ (what.id \in Scenes => Base[what.id] \in library)

AnyListWins == resume = "off" /\ list = <<>>    \* mutant
MayApply == resume = "off" /\ ~playing

StartResume ==
  /\ Free /\ resume = "off" /\ sched.pc # "look"
  /\ resume' = IF MayApply /\ flash.record.id \in library THEN "heap" ELSE "wait"
  /\ UNCHANGED <<stores, player, shown, mail, controls, dirty, history>>

(* The heap was there, within twenty seconds; or it was not.               *)
Apply ==
  /\ Free /\ resume = "heap" /\ Restorable(flash.record) /\ NobodyWaits
  /\ Post("resume", Install(flash.record))
  /\ resume' = "wait"
  /\ UNCHANGED <<stores, player, shown, controls, dirty, history>>

TooTight ==
  /\ Free /\ resume = "heap"
  /\ resume' = "wait"
  /\ fresh' = FALSE
  /\ UNCHANGED <<stores, player, shown, mail, controls, dirty, wanted, used>>

SeeDirty ==
  /\ Free /\ outbox["resume"] = <<>> /\ resume \in {"wait", "debounce"} /\ dirty
  /\ resume' = "debounce" /\ dirty' = FALSE
  /\ UNCHANGED <<stores, player, shown, mail, controls, history>>

snapshot_record ==              \* the stored record when there is none
  CASE playing -> flash.record
    [] ~playing /\ active # None -> [id |-> active, ctl |-> 0]
    [] ~playing /\ active = None /\ current \in Patterns -> [id |-> current, ctl |-> controls]
    [] OTHER -> flash.record

Resting ==                      \* nobody has anything to do
  /\ queue = <<>> /\ ~remap /\ \A t \in Tasks: outbox[t] = <<>>
  /\ sched.pc # "look" /\ cmd = 0

(* persist_now, DEBOUNCE_SECS after the last change.                       *)
Persist ==
  /\ Free /\ resume = "debounce" /\ Resting
  /\ flash' \in Stored([flash EXCEPT !.record = snapshot_record])
  /\ resume' = "wait"
  /\ UNCHANGED <<library, player, shown, mail, controls, dirty, history>>

-----------------------------------------------------------------------------
(* The power fails, or a reboot was asked for.                             *)
Reboot ==
  /\ used.boots < MaxBoots
  /\ used' = [used EXCEPT !.boots = @ + 1]
  /\ list' = flash.list /\ playing' = flash.playing
  /\ index' = 0 /\ cmd' = 0 /\ sched' = NotYet /\ aimed' = NoIndex
  /\ queue' = <<>> /\ outbox' = Empty /\ turn' = None
  /\ screen' = Nothing /\ active' = None /\ current' = None /\ remap' = FALSE
  /\ controls' = 0 /\ dirty' = FALSE /\ resume' = "off" /\ fresh' = TRUE /\ wanted' = None
  /\ UNCHANGED <<stores, mapped>>

Request ==
  \/ \E c \in Clients:
       \/ \E id \in Ids: Activate(c, id) \/ Select(c, id)
       \/ \E v \in Values: Control(c, v)
       \/ SaveScene(c) \/ PushCode(c) \/ Resize(c) \/ Freeze(c)
  \/ \E i \in 0..1: Play(i)
  \/ \E d \in {-1, 1}: Step(d)
  \/ \E l \in Lists: SetList(l)
  \/ \E id \in Ids: Delete(id)
  \/ Stop

Schedule == Rest \/ NoItems \/ Enter \/ TakeCommand \/ Advance
Resume == StartResume \/ Apply \/ TooTight \/ SeeDirty \/ Persist

Next ==
  \/ Receive \/ Remap \/ Request \/ Schedule \/ Resume \/ Reboot
  \/ \E t \in Tasks: Send(t) \/ Block(t)

(* The executor polls every task that is ready, and the render loop drains *)
(* its queue between two frames.                                           *)
Fairness ==
  /\ WF_vars(Receive) /\ WF_vars(Remap) /\ WF_vars(StartResume) /\ WF_vars(Apply \/ TooTight)
  /\ WF_vars(Rest \/ NoItems \/ Enter \/ TakeCommand)
  /\ \A t \in Tasks: WF_vars(Send(t))

Spec == Init /\ [][Next]_vars /\ Fairness

-----------------------------------------------------------------------------
(* Nothing is on its way: every task waits for somebody outside.           *)
Settled ==
  /\ Free /\ Resting
  /\ resume = "wait" /\ ~dirty

(* "The actively-running saved pattern + its explicitly-set control values *)
(* - or the stored scene - survive a reboot" (resume.rs), as does whether  *)
(* the playlist was playing (playlist.rs): once everything has settled,    *)
(* flash names what is on screen.  An empty playlist plays nothing.  With  *)
(* a map the control is the recorded one; on a bare strip it may be back   *)
(* at its default.                                                         *)
PlaysOnFlash == flash.playing /\ flash.list # <<>>
RebootShowsTheSame ==
  Settled =>
    /\ PlaysOnFlash = playing
    /\ ~playing /\ screen.id \in library =>
         /\ flash.record.id = screen.id
         /\ screen.id \in Patterns =>
              \/ screen.ctl = flash.record.ctl
              \/ ~mapped /\ screen.ctl = 0

(* "An ad-hoc push has no id, so the record is left alone" (resume.rs).    *)
AdHocKeepsRecord ==
  [][screen.id = AdHoc => flash'.record = flash.record]_vars

(* No wake-up is lost: a scheduler that rests with no command waiting      *)
(* rests on the present list, index and play state, and a command's index  *)
(* stands until it has been entered.  And once everything has settled, the *)
(* pattern or the scene last asked for is up, unless it did not load or    *)
(* the screen was given to something else.                                 *)
CommandsLand ==
  /\ sched.pc = "idle" /\ cmd = 0 => ~playing
  /\ sched.pc = "hold" /\ cmd = 0 => playing /\ index = sched.i /\ list = sched.seen
  /\ playing /\ aimed # NoIndex => index = aimed
  /\ Settled /\ wanted # None => screen.id = wanted

(* A boot that is left alone, and finds the heap, shows what flash names:  *)
(* the first item of a playlist that was playing, else the record, with a  *)
(* map its control too; "an active playlist resume wins" (resume.rs), so   *)
(* the other never flashes up on the way.                                  *)
Due ==
  CASE PlaysOnFlash /\ flash.list[1].id \in library ->
         [id |-> flash.list[1].id, ctl |-> flash.list[1].ctl]
    [] ~PlaysOnFlash /\ Restorable(flash.record) -> flash.record
    [] OTHER -> Nothing
Named ==
  IF PlaysOnFlash THEN {flash.list[k].id: k \in DOMAIN flash.list}
  ELSE {flash.record.id}
BootShows ==
  /\ (resume = "off" /\ screen = Nothing /\ fresh)
       ~> (~fresh \/ (screen.id = Due.id /\ (mapped => screen.ctl = Due.ctl)))
  /\ [](fresh => screen.id \in Named \cup {None})

(* The explicitly-set control values of the pattern that is up survive     *)
(* (resume.rs), on a bare strip too.  Refuted in a run of its own: see the *)
(* README.                                                                 *)
ControlsSurvive ==
  Settled /\ ~playing /\ screen.id \in library \cap Patterns =>
    screen.ctl = flash.record.ctl

=============================================================================
