-------------------------------- MODULE Input --------------------------------
(***************************************************************************)
(* Input of the Vita client: the worker of input/vita.c that samples pad    *)
(* and touch every two milliseconds and turns them into events for the      *)
(* host, the chords of input/shortcuts.c, the touch modes of                *)
(* input/touchabsolute.c, the blocking keyboard of keyboardsystem.c, and    *)
(* vitainput_start and vitainput_stop, called by the threads of             *)
(* StreamClient.                                                           *)
(*                                                                         *)
(* A tick of the worker is one action per stage of vitainput_process; it    *)
(* holds input_process_mutex from Sample until it is idle again.  The host  *)
(* is what the events have left pressed there.  Clocks are not modelled: a  *)
(* deadline has passed or not, whichever a step chooses.                    *)
(***************************************************************************)
EXTENDS Naturals, FiniteSets

CONSTANTS
  Thread,      \* the threads that may stop input
  Shoulders,   \* the buttons that complete the menu chord with START
  MaxFingers,  \* bound: fingers on the front touch screen
  Scenes       \* what the person uses and how the client is configured

Chord == {"START"} \union Shoulders
Button == Chord \union {"LEFT", "CROSS", "PS"}
Zone == 1 .. 4                               \* the corners of the touch screen
Corner == <<"NW", "NE", "SW", "SE">>         \* the pad button of each
ZoneKind == {"none", "menu", "keyboard", "pad", "key"}
TouchMode == 0 .. 3      \* relative mouse, DS4 pad, absolute mouse, tablet
PsMode == {"system", "immediate", "safe", "local"}

Scene == [buttons : SUBSET Button, zones : [Zone -> ZoneKind],
          modes : SUBSET TouchMode, ps : SUBSET PsMode,
          fingers : 0 .. MaxFingers, sprint : BOOLEAN]

ASSUME InputAssumption ==
  /\ Scenes \subseteq Scene
  /\ MaxFingers \in Nat
  /\ Shoulders \intersect {"START", "LEFT", "CROSS", "PS", "GUIDE", "SPRINT", "NW", "NE", "SW", "SE"} = {}

VARIABLES
  scene,       \* the scene of this behaviour
  \* the worker
  tick,        \* the stage of the tick; idle: the mutex is free
  zone,        \* the next zone of process_touchzones
  after,       \* where the tick goes on when the keyboard closes
  raw, pad,    \* the pad as sampled, and as the stages have left it
  fingers,     \* touch.finger
  zones,       \* the touched corners of touch.button
  stick,       \* the left stick's y
  curr,        \* curr.button
  \* kept between ticks
  old, padOld, chordOld, zonesOld,
  chord, pending,          \* overlay_state, overlay_pending_buttons
  kbState, kbBlocked,      \* shortcut_state, keyboard_shortcut_blocked
  overlay, suppress,       \* the menu is open; suppress_remote_input_until_release
  psMode, psState, psLocked, psReleased,
  touchMode, processed,    \* config.touchscreen_mode and the one last processed
  enabled, activeMode,     \* absolute_mouse_enabled, active_touch_mode
  front, fingerCount,      \* front_state, finger_count
  contacts,                \* fingers down in DS4 and in tablet mode
  absLeft, suppressOne,    \* absolute_left_down, absolute_suppress_one_finger
  tabletReleased,          \* tablet_mouse_released
  maxOnce, centred, sprint,
  \* start and stop
  active, stopping, closeRequested,
  \* the host
  hostPad, mouse, keys,
  \* history
  closing,     \* buttons held since the person closed the menu
  unseen       \* keys pressed in a tick that the menu cut short

sample == <<raw, pad, fingers, zones, stick, curr>>
chords == <<chord, pending, kbState, kbBlocked>>
menu == <<overlay, suppress, closing>>
ps == <<psMode, psState, psLocked, psReleased>>
gesture == <<front, fingerCount>>
modes == <<enabled, activeMode, contacts, absLeft, suppressOne, tabletReleased>>
sprinting == <<maxOnce, centred, sprint>>
sent == <<old, padOld, zonesOld>>
control == <<scene, active, stopping, closeRequested>>
vars == <<tick, zone, after, sample, chordOld, chords, menu, ps, touchMode,
          processed, gesture, modes, sprinting, sent, control, hostPad, mouse,
          keys, unseen>>

Stage == {"idle", "menu", "shortcuts", "chord", "zones", "buttons", "retouch",
          "touch", "send", "keyboard", "menuKeyboard"}

Sendable == Button \union {Corner[z] : z \in Zone} \union {"GUIDE", "SPRINT"}

TypeOK ==
  /\ scene \in Scenes
  /\ tick \in Stage
  /\ zone \in 1 .. 5
  /\ after \in {"zones", "menuKeyboard"}
  /\ raw \subseteq Button /\ pad \subseteq Button
  /\ padOld \subseteq Button /\ chordOld \subseteq Button
  /\ fingers \in 0 .. MaxFingers
  /\ zones \subseteq Zone /\ zonesOld \subseteq Zone
  /\ stick \in {"forward", "between", "centre"}
  /\ curr \subseteq Sendable /\ old \subseteq Sendable /\ hostPad \subseteq Sendable
  /\ chord \in {"idle", "pending", "passthrough", "consumed"}
  /\ pending \subseteq Chord
  /\ kbState \in 0 .. 2
  /\ psMode \in PsMode
  /\ psState \in {"idle", "firstDown", "firstUp", "guideHeld", "guidePulse",
                  "localHeld", "escape"}
  /\ touchMode \in TouchMode
  /\ processed \in TouchMode \union {4}
  /\ activeMode \in TouchMode
  /\ front \in {"none", "touch", "tap", "swipeStart", "swipe"}
  /\ fingerCount \in 0 .. MaxFingers
  /\ contacts \in [{1, 3} -> 0 .. MaxFingers]
  /\ stopping \in [Thread -> BOOLEAN]
  /\ mouse \subseteq {1, 2}
  /\ keys \subseteq Zone /\ unseen \subseteq Zone
  /\ closing \subseteq Button
  /\ {kbBlocked, overlay, suppress, psLocked, psReleased, enabled, absLeft,
      suppressOne, tabletReleased, maxOnce, centred, sprint, active,
      closeRequested} \subseteq BOOLEAN

NoContacts == [m \in {1, 3} |-> 0]

Init ==
  /\ scene \in Scenes
  /\ tick = "idle" /\ zone = 1 /\ after = "zones"
  /\ raw = {} /\ pad = {} /\ fingers = 0 /\ zones = {} /\ stick = "centre" /\ curr = {}
  /\ old = {} /\ padOld = {} /\ chordOld = {} /\ zonesOld = {}
  /\ chord = "idle" /\ pending = {} /\ kbState = 0 /\ kbBlocked = FALSE
  /\ overlay = FALSE /\ suppress = FALSE /\ closing = {}
  /\ psMode \in scene.ps /\ psState = "idle" /\ psLocked = FALSE /\ psReleased = FALSE
  /\ touchMode \in scene.modes /\ processed = 4
  /\ enabled = (touchMode = 2) /\ activeMode = 0
  /\ front = "none" /\ fingerCount = 0
  /\ contacts = NoContacts /\ absLeft = FALSE /\ suppressOne = FALSE /\ tabletReleased = FALSE
  /\ maxOnce = FALSE /\ centred = FALSE /\ sprint = FALSE
  /\ active = FALSE /\ stopping = [t \in Thread |-> FALSE] /\ closeRequested = FALSE
  /\ hostPad = {} /\ mouse = {} /\ keys = {} /\ unseen = {}

-----------------------------------------------------------------------------
\* The working copies of a tick are cleared at the start of the next one; here
\* at its end, where nothing reads them any more.
EndTick ==
  /\ tick' = "idle"
  /\ zone' = 1
  /\ raw' = {} /\ pad' = {} /\ curr' = {}
  /\ fingers' = 0 /\ zones' = {} /\ stick' = "centre"
  /\ UNCHANGED after

Goto(stage) == tick' = stage /\ UNCHANGED <<zone, after>>

Enabled == {z \in Zone : scene.zones[z] # "none"}

\* The touched corners count against the fingers on the screen.
Touches == {t \in (0 .. scene.fingers) \X SUBSET Enabled : Cardinality(t[2]) <= t[1]}

Sticks == IF scene.sprint THEN {"forward", "between", "centre"} ELSE {"centre"}

ResetShortcuts == chord' = "idle" /\ pending' = {}

\* Mutant: only the confirming button is waited for.
SwallowConfirm(b) == "CROSS" \in b

\* The latch stays while any button is down.
Swallow(b) == b # {}

\* A sample under the latch is remembered and goes no further.
Latched(b) ==
  /\ padOld' = b /\ chordOld' = b /\ old' = {}
  /\ suppress' = Swallow(b)
  /\ IF b = {} THEN ResetShortcuts ELSE UNCHANGED <<chord, pending>>
  /\ UNCHANGED <<tick, zone, after, sample>>

Taken(b, t, s) ==
  /\ raw' = b /\ pad' = b
  /\ fingers' = t[1] /\ zones' = t[2]
  /\ stick' = s
  /\ curr' = {}
  /\ IF overlay
     THEN Goto("menu") /\ chordOld' = b
     ELSE Goto("shortcuts") /\ UNCHANGED chordOld
  /\ UNCHANGED <<suppress, chord, pending, old, padOld>>

\* Peek the pad and the touch panels; nothing goes on until every button that was
\* held when the menu closed is up.
Sample ==
  /\ tick = "idle"
  /\ active
  /\ \E b \in SUBSET scene.buttons, t \in Touches, s \in Sticks :
       /\ closing' = closing \intersect b
       /\ IF suppress THEN Latched(b) ELSE Taken(b, t, s)
  /\ UNCHANGED <<kbState, kbBlocked, overlay, ps, touchMode, processed, gesture, modes,
                 sprinting, zonesOld, control, hostPad, mouse, keys, unseen>>

\* An input frame with nothing pressed.
SendEmpty == hostPad' = {}

\* keyboardsystem_open_keyboard: refused once a stop has asked to close it.
OpenKeyboard(next, z) ==
  /\ after' = next
  /\ zone' = z
  /\ tick' = IF closeRequested THEN next ELSE "keyboard"

\* START and LEFT together, in any order and within 300 ms, open the keyboard.
PhysicalShortcut ==
  /\ tick = "shortcuts"
  /\ LET rising == \E b \in {"START", "LEFT"} : b \in pad \ chordOld
         state == IF rising THEN 1 ELSE kbState
         both == {"START", "LEFT"} \subseteq pad
     IN \E soon \in IF rising THEN {TRUE} ELSE BOOLEAN :
          IF both /\ state = 1 /\ soon /\ ~kbBlocked
          THEN /\ pad' = {} /\ stick' = "forward"   \* memset to 0: the stick's end
               /\ SendEmpty
               /\ kbState' = 0 /\ kbBlocked' = TRUE
               /\ chordOld' = raw
               /\ OpenKeyboard("zones", 1)
          ELSE /\ kbState' = IF both THEN 2
                             ELSE IF pad \intersect {"START", "LEFT"} = {} THEN 0 ELSE state
               /\ kbBlocked' = (kbBlocked /\ pad \intersect {"START", "LEFT"} # {})
               /\ Goto("chord")
               /\ UNCHANGED <<pad, stick, hostPad, chordOld>>
  /\ UNCHANGED <<raw, fingers, zones, curr, chord, pending, menu, ps, touchMode, processed,
                 gesture, modes, sprinting, sent, control, mouse, keys, unseen>>

\* Mutant: the menu opens over a pressed pad.
OpenQuietly == overlay' = TRUE /\ UNCHANGED hostPad

\* stream_overlay_open releases the pad on the host.
StreamOverlayOpen == overlay' = TRUE /\ SendEmpty

\* Mutant: the buttons held back are not masked.
AnyHeld == pad

ChordHeld == pad \intersect Chord

\* The complete chord opens the menu, which handles this very sample.
ChordComplete ==
  /\ tick = "chord"
  /\ chord # "consumed"
  /\ ChordHeld = Chord
  /\ pad' = pad \ Chord
  /\ chord' = "consumed" /\ pending' = {}
  /\ StreamOverlayOpen
  /\ chordOld' = raw
  /\ Goto("menu")
  /\ UNCHANGED <<raw, fingers, zones, stick, curr, kbState, kbBlocked, suppress, closing, ps,
                 touchMode, processed, gesture, modes, sprinting, sent, control, mouse,
                 keys, unseen>>

\* START leads: it and the shoulders after it are held back until the chord is
\* complete, START is released (the press is replayed), or the second is over.
ChordGoesOn ==
  /\ tick = "chord"
  /\ chord = "consumed" \/ ChordHeld # Chord
  /\ LET led == chord = "idle" /\ "START" \in ChordHeld \ chordOld
         held == IF led THEN ChordHeld ELSE pending \union ChordHeld
         start == "START" \in ChordHeld
     IN CASE led \/ chord = "pending" ->
               \E late \in IF led THEN {FALSE} ELSE BOOLEAN :
                 /\ chord' = IF ~start THEN "idle" ELSE IF late THEN "passthrough" ELSE "pending"
                 /\ pending' = IF start /\ ~late THEN held ELSE {}
                 /\ pad' = IF ~start THEN pad \union held
                           ELSE IF late THEN pad ELSE pad \ Chord
          [] chord = "passthrough" ->
               /\ chord' = IF start THEN chord ELSE "idle"
               /\ UNCHANGED <<pad, pending>>
          [] chord = "consumed" ->
               /\ chord' = IF ChordHeld = {} THEN "idle" ELSE chord
               /\ pad' = pad \ Chord
               /\ UNCHANGED pending
          [] OTHER -> UNCHANGED <<chord, pad, pending>>
  /\ chordOld' = raw
  /\ Goto("zones")
  /\ UNCHANGED <<raw, fingers, zones, stick, curr, kbState, kbBlocked, menu, ps, touchMode,
                 processed, gesture, modes, sprinting, sent, control, hostPad, mouse, keys,
                 unseen>>

-----------------------------------------------------------------------------
AbsoluteHeld == IF absLeft THEN {1} ELSE {}

\* release_active_mode: what the active mode holds down on the host is released.
Dropped == [m \in {1, 3} |-> IF m = activeMode THEN 0 ELSE contacts[m]]

ModeMouse == IF activeMode = 2 THEN AbsoluteHeld ELSE {}

Activate(m) ==
  /\ activeMode' = m
  /\ contacts' = Dropped
  /\ absLeft' = (absLeft /\ activeMode # 2)
  /\ suppressOne' = (suppressOne /\ activeMode # 2)
  /\ tabletReleased' = (tabletReleased /\ activeMode # 3)

\* A new touch mode releases the old one's contacts and drag (touchabsolute_enable).
ChooseTouchMode(m) ==
  /\ touchMode' = m
  /\ Activate(0)
  /\ mouse' = mouse \ ModeMouse
  /\ enabled' = (m = 2)

Pressed == pad \ padOld

EndMenu == padOld' = pad /\ old' = {} /\ EndTick

\* The menu takes the sample: it moves, changes a setting, or neither.
MenuGoesOn ==
  /\ tick = "menu"
  /\ \/ UNCHANGED <<psMode, touchMode, enabled, activeMode, contacts, absLeft, suppressOne,
                    tabletReleased, mouse>>
     \/ Pressed # {} /\ psMode' \in scene.ps
        /\ \E m \in scene.modes : ChooseTouchMode(m)
  /\ EndMenu
  /\ UNCHANGED <<chordOld, chords, menu, psState, psLocked, psReleased, processed, gesture,
                 sprinting, zonesOld, control, hostPad, keys, unseen>>

\* X or O closes it, with or without a request for the UI thread.
MenuCloses ==
  /\ tick = "menu"
  /\ "CROSS" \in Pressed
  /\ overlay' = FALSE
  /\ suppress' = TRUE
  /\ closing' = raw
  /\ EndMenu
  /\ UNCHANGED <<chordOld, chords, ps, touchMode, processed, gesture, modes, sprinting,
                 zonesOld, control, hostPad, mouse, keys, unseen>>

MenuOpensKeyboard ==
  /\ tick = "menu"
  /\ "CROSS" \in Pressed
  /\ OpenKeyboard("menuKeyboard", zone)
  /\ UNCHANGED <<sample, chordOld, chords, menu, ps, touchMode, processed, gesture, modes,
                 sprinting, sent, control, hostPad, mouse, keys, unseen>>

AfterMenuKeyboard ==
  /\ tick = "menuKeyboard"
  /\ EndMenu
  /\ UNCHANGED <<chordOld, chords, menu, ps, touchMode, processed, gesture, modes, sprinting,
                 zonesOld, control, hostPad, mouse, keys, unseen>>

\* The loop of the keyboard: it ends when a stop asks for it, or when the person
\* closes it.  Every key goes down and up at once.
KeyboardTold ==
  /\ tick = "keyboard"
  /\ closeRequested
  /\ Goto(after)
  /\ UNCHANGED <<sample, chordOld, chords, menu, ps, touchMode, processed, gesture, modes,
                 sprinting, sent, control, hostPad, mouse, keys, unseen>>

KeyboardClosed ==
  /\ tick = "keyboard"
  /\ ~closeRequested
  /\ Goto(after)
  /\ UNCHANGED <<sample, chordOld, chords, menu, ps, touchMode, processed, gesture, modes,
                 sprinting, sent, control, hostPad, mouse, keys, unseen>>

-----------------------------------------------------------------------------
\* process_touchzones: special() for each corner in turn.
ProcessZone ==
  /\ tick = "zones"
  /\ zone <= 4
  /\ LET kind == scene.zones[zone]
         touched == zone \in zones
     IN /\ IF touched /\ kind \in {"menu", "keyboard"}
           THEN curr' = {} /\ pad' = {} /\ SendEmpty
           ELSE /\ curr' = IF touched /\ kind = "pad" THEN curr \union {Corner[zone]} ELSE curr
                /\ UNCHANGED <<pad, hostPad>>
        /\ overlay' = (overlay \/ (touched /\ kind = "menu"))
        /\ keys' = IF kind # "key" \/ touched = (zone \in zonesOld) THEN keys
                   ELSE IF touched THEN keys \union {zone} ELSE keys \ {zone}
        /\ IF touched /\ kind = "keyboard"
           THEN OpenKeyboard("zones", zone + 1)
           ELSE zone' = zone + 1 /\ UNCHANGED <<tick, after>>
  /\ UNCHANGED <<raw, fingers, zones, stick, chordOld, chords, suppress, closing, ps, touchMode,
                 processed, gesture, modes, sprinting, sent, control, mouse, unseen>>

ZonesDone ==
  /\ tick = "zones"
  /\ zone = 5
  /\ Goto("buttons")
  /\ UNCHANGED <<sample, chordOld, chords, menu, ps, touchMode, processed, gesture, modes,
                 sprinting, sent, control, hostPad, mouse, keys, unseen>>

-----------------------------------------------------------------------------
\* handle_psbutton, one operator per mode; guide says that the frame of this
\* tick carries the Guide button, late that the deadline has passed, soon that
\* the last release is less than a quarter of a second ago.
PsDown == "PS" \in pad

ResetPs == psState' = "idle" /\ psReleased' = FALSE

PsSystem(guide) ==
  /\ psMode = "system"
  /\ ResetPs
  /\ psLocked' = FALSE
  /\ guide = FALSE

\* The shell stays unlocked until the second press has been released for a while.
PsEscape(guide, late) ==
  /\ psMode # "system"
  /\ psState = "escape"
  /\ IF ~PsDown /\ late
     THEN psLocked' = TRUE /\ ResetPs
     ELSE UNCHANGED <<psLocked, psState, psReleased>>
  /\ guide = FALSE

BeginEscape == psLocked' = FALSE /\ psState' = "escape" /\ psReleased' = FALSE

\* Mutant: the press that escapes to the shell is sent as Guide as well.
PsImmediateBoth(guide, soon) ==
  /\ psMode = "immediate"
  /\ psState # "escape"
  /\ guide = PsDown
  /\ IF PsDown /\ psReleased /\ soon /\ psState # "guideHeld"
     THEN BeginEscape
     ELSE /\ psState' = IF PsDown THEN "guideHeld" ELSE "idle"
          /\ psReleased' = (psReleased \/ (psState = "guideHeld" /\ ~PsDown))
          /\ psLocked' = TRUE

PsImmediate(guide, soon) ==
  /\ psMode = "immediate"
  /\ psState # "escape"
  /\ IF psState = "guideHeld" \/ ~PsDown
     THEN /\ guide = (psState = "guideHeld" /\ PsDown)
          /\ psState' = IF psState = "guideHeld" /\ ~PsDown THEN "idle" ELSE psState
          /\ psReleased' = (psReleased \/ psState' # psState)
          /\ psLocked' = TRUE
     ELSE IF psReleased /\ soon
     THEN BeginEscape /\ guide = FALSE
     ELSE psState' = "guideHeld" /\ psLocked' = TRUE /\ guide = TRUE /\ UNCHANGED psReleased

\* Safe guide, and local double tap, which never sends Guide.
PsNext(late) ==
  LET safe == psMode = "safe" IN
  CASE psState = "idle" -> IF PsDown THEN "firstDown" ELSE "idle"
    [] psState = "firstDown" -> IF ~PsDown THEN "firstUp"
                                ELSE IF ~late THEN "firstDown"
                                ELSE IF safe THEN "guideHeld" ELSE "localHeld"
    [] psState = "firstUp" -> IF PsDown /\ ~late THEN "escape"
                              ELSE IF ~late THEN "firstUp"
                              ELSE IF safe THEN "guidePulse" ELSE "idle"
    [] psState = "guidePulse" -> IF late THEN "idle" ELSE "guidePulse"
    [] OTHER -> IF PsDown THEN psState ELSE "idle"

PsTap(guide, late) ==
  /\ psMode \in {"safe", "local"}
  /\ psState # "escape"
  /\ IF PsNext(late) = "escape"
     THEN BeginEscape
     ELSE psState' = PsNext(late) /\ psLocked' = TRUE /\ UNCHANGED psReleased
  /\ guide = (PsNext(late) \in {"guideHeld", "guidePulse"})

HandlePsbutton(guide) ==
  \/ PsSystem(guide)
  \/ \E b \in BOOLEAN : PsEscape(guide, b) \/ PsImmediate(guide, b) \/ PsTap(guide, b)

\* process_buttons and process_triggers: every button but PS has its place.
Mapped == pad \ {"PS"}

\* The rest of the buttons' half of a tick, unless a zone has
\* opened the menu: then the tick ends here, and what it pressed before is not
\* remembered.
ProcessButtons ==
  /\ tick = "buttons"
  /\ \E guide \in BOOLEAN :
       /\ HandlePsbutton(guide)
       /\ IF overlay
          THEN /\ padOld' = pad
               /\ unseen' = unseen \union (keys \ zonesOld)
               /\ EndTick
          ELSE /\ curr' = curr \union Mapped \union (IF guide THEN {"GUIDE"} ELSE {})
               /\ Goto("retouch")
               /\ UNCHANGED <<raw, pad, fingers, zones, stick, padOld, unseen>>
  /\ UNCHANGED <<chordOld, chords, menu, psMode, touchMode, processed, gesture, modes,
                 sprinting, old, zonesOld, control, hostPad, mouse, keys>>

-----------------------------------------------------------------------------
\* The button a click holds down.
Tapped == IF front = "tap" THEN {fingerCount} ELSE {}

\* Mutant: the click of the old mode is forgotten.
TapForgotten == mouse

TapReleased == mouse \ Tapped

\* check_for_double_click: forward, back to the centre and forward again in time
\* presses the stick until it is centred.
DoubleClick ==
  \E soon \in BOOLEAN :
    LET once == maxOnce \/ (stick = "forward" /\ ~sprint)
        back == once /\ stick = "centre" /\ ~centred /\ ~sprint
        again == centred /\ stick = "forward" /\ ~sprint
    IN /\ maxOnce' = (once /\ ~(back /\ ~soon) /\ ~again)
       /\ centred' = ((centred \/ (back /\ soon)) /\ ~again)
       /\ sprint' = ((sprint \/ (again /\ soon)) /\ stick # "centre")
       /\ curr' = IF sprint' THEN curr \union {"SPRINT"} ELSE curr

\* A new touch mode ends the old one's gesture.
ProcessTouch ==
  /\ tick = "retouch"
  /\ IF processed # touchMode
     THEN /\ front' = "none" /\ fingerCount' = 0
          /\ Activate(0)
          /\ mouse' = TapReleased \ ModeMouse
          /\ enabled' = (touchMode = 2)
     ELSE UNCHANGED <<gesture, modes, mouse>>
  /\ processed' = touchMode
  /\ IF scene.sprint THEN DoubleClick ELSE UNCHANGED <<sprinting, curr>>
  /\ Goto("touch")
  /\ UNCHANGED <<raw, pad, fingers, zones, stick, chordOld, chords, menu, ps, touchMode, sent,
                 control, hostPad, keys, unseen>>

TouchFrame ==
  /\ Goto("send")
  /\ UNCHANGED <<sample, chordOld, chords, menu, ps, touchMode, processed, sprinting, sent,
                 control, hostPad, keys, unseen>>

\* Mutant: the tablet's contacts stay down.
ReleaseDs4 ==
  /\ contacts' = [contacts EXCEPT ![1] = 0]
  /\ absLeft' = FALSE /\ suppressOne' = FALSE /\ tabletReleased' = FALSE
  /\ activeMode' = 0

ReleaseAll ==
  /\ contacts' = NoContacts
  /\ absLeft' = FALSE /\ suppressOne' = FALSE /\ tabletReleased' = FALSE
  /\ activeMode' = 0

\* A finger in a corner that has a key ends every gesture.
TouchZone ==
  /\ tick = "touch"
  /\ zones # {}
  /\ front' = "none" /\ fingerCount' = 0
  /\ mouse' = TapReleased \ AbsoluteHeld
  /\ ReleaseAll
  /\ UNCHANGED enabled
  /\ TouchFrame

\* DS4 pad: the fingers are contacts of the pad's touch surface.
TouchDs4 ==
  /\ tick = "touch"
  /\ zones = {}
  /\ touchMode = 1
  /\ activeMode' = 1
  /\ contacts' = [Dropped EXCEPT ![1] = fingers]
  /\ absLeft' = (absLeft /\ activeMode # 2)
  /\ suppressOne' = (suppressOne /\ activeMode # 2)
  /\ tabletReleased' = (tabletReleased /\ activeMode # 3)
  /\ mouse' = mouse \ ModeMouse
  /\ UNCHANGED <<gesture, enabled>>
  /\ TouchFrame

\* Tablet: they are contacts of a pen display, and the mouse is released first.
TouchTablet ==
  /\ tick = "touch"
  /\ zones = {}
  /\ touchMode = 3
  /\ activeMode' = 3
  /\ contacts' = [Dropped EXCEPT ![3] = fingers]
  /\ absLeft' = (absLeft /\ activeMode # 2)
  /\ suppressOne' = (suppressOne /\ activeMode # 2)
  /\ tabletReleased' = TRUE
  /\ mouse' = IF activeMode = 3 /\ tabletReleased THEN mouse ELSE {}
  /\ UNCHANGED <<gesture, enabled>>
  /\ TouchFrame

\* One finger drags with the left button.  A second one lifts it, and until all
\* are up the remaining finger does not drag; its scroll, or the right click,
\* which is pressed and released at once, leave nothing behind.
TouchAbsolute ==
  /\ tick = "touch"
  /\ zones = {}
  /\ touchMode = 2
  /\ IF ~enabled
     THEN /\ absLeft' = FALSE /\ suppressOne' = FALSE
          /\ mouse' = mouse \ AbsoluteHeld
          /\ UNCHANGED <<activeMode, contacts, tabletReleased>>
     ELSE /\ contacts' = Dropped
          /\ tabletReleased' = (tabletReleased /\ activeMode # 3)
          /\ activeMode' = 2
          /\ suppressOne' = ((suppressOne \/ fingers >= 2) /\ fingers > 0)
          /\ absLeft' = (fingers = 1 /\ (absLeft \/ ~suppressOne))
          /\ mouse' = IF absLeft' THEN mouse \union {1} ELSE mouse \ AbsoluteHeld
  /\ UNCHANGED <<gesture, enabled>>
  /\ TouchFrame

\* Relative mouse: a short touch is a click of as many fingers, held for a tenth
\* of a second; a long one moves the pointer or the wheel.
TouchRelative ==
  /\ tick = "touch"
  /\ zones = {}
  /\ touchMode = 0
  /\ \E late \in BOOLEAN :
       \/ /\ front = "none"
          /\ front' = IF fingers > 0 THEN "touch" ELSE "none"
          /\ fingerCount' = IF fingers > 0 THEN fingers ELSE fingerCount
          /\ UNCHANGED mouse
       \/ /\ front = "touch"
          /\ LET tap == ~late /\ fingers < fingerCount
                 click == tap /\ fingerCount \in {1, 2}
             IN /\ front' = IF click THEN "tap" ELSE IF tap THEN "none"
                            ELSE IF late THEN "swipeStart" ELSE "touch"
                /\ fingerCount' = IF ~late /\ ~tap THEN fingers ELSE fingerCount
                /\ mouse' = IF click THEN mouse \union {fingerCount} ELSE mouse
       \/ /\ front = "tap"
          /\ front' = IF late THEN "none" ELSE "tap"
          /\ mouse' = IF late THEN mouse \ {fingerCount} ELSE mouse
          /\ UNCHANGED fingerCount
       \/ /\ front = "swipeStart"
          /\ front' = "swipe"
          /\ UNCHANGED <<fingerCount, mouse>>
       \/ /\ front = "swipe"
          /\ front' = IF fingers > 0 THEN "swipe" ELSE "none"
          /\ UNCHANGED <<fingerCount, mouse>>
  /\ UNCHANGED modes
  /\ TouchFrame

\* A frame is sent when a button or a stick has changed.
SendFrame ==
  /\ tick = "send"
  /\ \E moved \in BOOLEAN :
       IF curr # old \/ moved
       THEN hostPad' = curr /\ old' = curr /\ padOld' = pad
       ELSE UNCHANGED <<hostPad, old, padOld>>
  /\ zonesOld' = zones
  /\ EndTick
  /\ UNCHANGED <<chordOld, chords, menu, ps, touchMode, processed, gesture, modes, sprinting,
                 control, mouse, keys, unseen>>

-----------------------------------------------------------------------------
\* Mutant: the release does not wait for the tick.
MutexIgnored == TRUE

MutexFree == tick = "idle"

\* vitainput_start: nobody else is stopping (StreamClient says when that fails).
Start ==
  /\ MutexFree
  /\ ~active
  /\ ~overlay
  /\ \A t \in Thread : ~stopping[t]
  /\ closeRequested' = FALSE
  /\ padOld' = {} /\ chordOld' = {} /\ old' = {}
  /\ ResetShortcuts
  /\ ResetPs
  /\ psLocked' = (psLocked \/ psMode # "system")
  /\ active' = TRUE
  /\ UNCHANGED <<scene, stopping, tick, zone, after, sample, kbState, kbBlocked, menu, psMode,
                 touchMode, processed, gesture, modes, sprinting, zonesOld, hostPad, mouse,
                 keys, unseen>>

\* Mutant: the stop waits for the mutex and for the person.
AskNothing == UNCHANGED closeRequested

AskToClose == closeRequested' = TRUE

\* vitainput_stop first tells the keyboard to close, then waits for the mutex.
StopRequest(t) ==
  /\ ~stopping[t]
  /\ stopping' = [stopping EXCEPT ![t] = TRUE]
  /\ AskToClose
  /\ UNCHANGED <<scene, active, tick, zone, after, sample, chordOld, chords, menu, ps,
                 touchMode, processed, gesture, modes, sprinting, sent, hostPad, mouse, keys,
                 unseen>>

StopRelease(t) ==
  /\ stopping[t]
  /\ MutexFree
  /\ stopping' = [stopping EXCEPT ![t] = FALSE]
  /\ active' = FALSE
  /\ mouse' = mouse \ AbsoluteHeld
  /\ ReleaseAll
  /\ SendEmpty
  /\ old' = {}
  /\ psLocked' = FALSE
  /\ ResetPs
  /\ ResetShortcuts
  /\ UNCHANGED <<scene, closeRequested, tick, zone, after, sample, chordOld, kbState, kbBlocked,
                 menu, psMode, touchMode, processed, gesture, enabled, sprinting, padOld,
                 zonesOld, keys, unseen>>

\* Between streams: the menu is reset, and the settings may choose other modes.
BetweenStreams ==
  /\ ~active
  /\ \A t \in Thread : ~stopping[t]
  /\ overlay' = FALSE
  /\ psMode' \in scene.ps
  /\ \E m \in scene.modes : ChooseTouchMode(m)
  /\ UNCHANGED <<scene, active, stopping, closeRequested, tick, zone, after, sample, chordOld,
                 chords, suppress, closing, psState, psLocked, psReleased, processed, gesture,
                 sprinting, sent, hostPad, keys, unseen>>

-----------------------------------------------------------------------------
Worker == \/ PhysicalShortcut \/ ChordComplete \/ ChordGoesOn
          \/ MenuGoesOn \/ MenuCloses \/ MenuOpensKeyboard \/ AfterMenuKeyboard
          \/ KeyboardTold \/ ProcessZone \/ ZonesDone \/ ProcessButtons
          \/ ProcessTouch \/ TouchZone \/ TouchDs4 \/ TouchTablet \/ TouchAbsolute \/ TouchRelative
          \/ SendFrame

Next == \/ Sample \/ Worker \/ KeyboardClosed \/ Start \/ BetweenStreams
        \/ \E t \in Thread : StopRequest(t) \/ StopRelease(t)

Spec == Init /\ [][Next]_vars

\* The worker goes on in a tick, and sleeps two milliseconds without the mutex
\* after it; the person need not close the keyboard.
FairSpec ==
  /\ Spec
  /\ WF_vars(Worker)
  /\ \A t \in Thread : SF_vars(StopRelease(t))

-----------------------------------------------------------------------------
\* The press that closes the menu, and whatever else is held at that moment,
\* does not reach the host before it has been released, not even when the
\* stream reconnects in between (the latch of vitainput_process).
ClosingPressNotSent == hostPad \intersect closing = {}

\* No button is stuck: between ticks the host holds nothing that the last frame
\* did not carry, and nothing while the menu is open or its closing press is
\* still swallowed.
NothingStuck ==
  tick = "idle" => /\ hostPad \subseteq old
                   /\ overlay \/ suppress => hostPad = {}

\* With input stopped, the pad is released, no contact or drag is left on the
\* host, and the PS button belongs to the shell again.
ReleasedWhenStopped ==
  ~active => hostPad = {} /\ contacts = NoContacts /\ ~absLeft /\ ~psLocked

\* A mouse button or key that is down on the host is one that a later tick knows
\* to release, across menus, mode changes and streams, except a key pressed in
\* the very tick in which another corner opens the menu.
HeldIsKnown ==
  /\ mouse = Tapped \union AbsoluteHeld
  /\ tick = "idle" => keys \subseteq zonesOld \union unseen

\* The host and the Vita's own shell never both have the PS button.
GuideOrShell == tick = "idle" /\ "GUIDE" \in hostPad => psLocked

\* Nothing is pressed or released on the host after vitainput_stop.
QuietAfterStop == [][~active /\ ~active' => UNCHANGED <<hostPad, keys>>]_vars

\* vitainput_stop returns, even with the keyboard open on the screen.
StopReturns == \A t \in Thread : stopping[t] ~> ~stopping[t]
=============================================================================
