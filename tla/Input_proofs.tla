---------------------------- MODULE Input_proofs ----------------------------
(***************************************************************************)
(* The safety properties that the run checks of Input, for any threads,     *)
(* shoulder buttons, number of fingers and scenes.                          *)
(***************************************************************************)
EXTENDS Input, TLAPS

USE InputAssumption

\* What the stages of a tick know of the worker's place.
FrameStage == {"retouch", "touch", "send"}
InMenu == tick \in {"menu", "menuKeyboard"} \/ (tick = "keyboard" /\ after = "menuKeyboard")

InPlace ==
  /\ ~active => tick = "idle"
  /\ suppress => tick = "idle"
  /\ InMenu => overlay
  /\ tick \in FrameStage => ~overlay
  /\ InMenu \/ tick \in {"idle", "shortcuts", "chord"} => zone = 1
  /\ tick = "buttons" \/ tick \in FrameStage => zone = 5

\* The host's pad holds what the last frame carried, and nothing under the menu
\* or the latch; while a closing press is held the latch is set.
PadKnown ==
  /\ hostPad \subseteq old
  /\ overlay \/ suppress => hostPad = {}
  /\ closing # {} => suppress

\* Guide is put into a frame by the tick that locks the shell out.
GuideLocked ==
  /\ "GUIDE" \in curr => tick \in FrameStage /\ psLocked
  /\ "GUIDE" \in hostPad /\ tick \notin FrameStage => psLocked

\* A click belongs to the relative mouse and a drag to the absolute one, and
\* processed is the mode that either was made in.
MouseKnown ==
  /\ mouse = Tapped \union AbsoluteHeld
  /\ absLeft => activeMode = 2 /\ processed = 2
  /\ front = "tap" => processed = 0 /\ fingerCount \in {1, 2}
  /\ tick = "touch" => processed = touchMode

\* The corners before zone have been compared with those of the last tick.
KeysKnown ==
  \A z \in keys : /\ scene.zones[z] = "key"
                  /\ \/ z \in unseen
                     \/ z \in (IF z < zone THEN zones ELSE zonesOld)

IInv == /\ TypeOK /\ InPlace /\ PadKnown /\ GuideLocked /\ ReleasedWhenStopped /\ MouseKnown
        /\ KeysKnown

-----------------------------------------------------------------------------
(* Types.                                                                  *)

LEMMA SceneIs ==
  ASSUME TypeOK
  PROVE  /\ scene.buttons \subseteq Button /\ scene.zones \in [Zone -> ZoneKind]
         /\ scene.modes \subseteq TouchMode /\ scene.ps \subseteq PsMode
         /\ scene.fingers \in 0 .. MaxFingers /\ Enabled \subseteq Zone
BY DEF TypeOK, Scene, Enabled

\* The types of what a tick starts from and ends with.
LEMMA EndTickTyped == EndTick /\ TypeOK => 
  /\ tick' \in Stage /\ zone' \in 1 .. 5 /\ after' \in {"zones", "menuKeyboard"}
  /\ raw' \subseteq Button /\ pad' \subseteq Button /\ fingers' \in 0 .. MaxFingers
  /\ zones' \subseteq Zone /\ stick' \in {"forward", "between", "centre"} /\ curr' \subseteq Sendable
BY DEF EndTick, TypeOK, Stage

LEMMA TouchesAre ==
  ASSUME TypeOK, NEW t \in Touches
  PROVE  t[1] \in 0 .. MaxFingers /\ t[2] \subseteq Zone
BY SceneIs DEF Touches

LEMMA SampleTyped ==
  ASSUME TypeOK, Sample
  PROVE  TypeOK'
<1>1. PICK b \in SUBSET scene.buttons, t \in Touches, s \in Sticks :
        /\ closing' = closing \intersect b
        /\ IF suppress THEN Latched(b) ELSE Taken(b, t, s)
  BY DEF Sample
<1>2. /\ b \subseteq Button /\ t[1] \in 0 .. MaxFingers /\ t[2] \subseteq Zone
      /\ s \in {"forward", "between", "centre"}
  BY SceneIs, TouchesAre DEF Sticks
<1>3. CASE suppress
  BY <1>1, <1>2, <1>3 DEF TypeOK, Sample, Latched, ResetShortcuts, Swallow, sample, ps, gesture,
    modes, sprinting, control
<1>4. CASE ~suppress
  BY <1>1, <1>2, <1>4 DEF TypeOK, Sample, Taken, Goto, Stage, ps, gesture, modes, sprinting, control
<1> QED BY <1>3, <1>4

\* The shortcut opens the keyboard over an empty pad, or lets the tick go on.
LEMMA ShortcutDoes ==
  ASSUME TypeOK, PhysicalShortcut
  PROVE  /\ tick = "shortcuts"
         /\ kbState' \in 0 .. 2 /\ kbBlocked' \in BOOLEAN
         /\ \/ /\ pad' = {} /\ stick' = "forward" /\ hostPad' = {} /\ chordOld' = raw
               /\ OpenKeyboard("zones", 1)
            \/ Goto("chord") /\ UNCHANGED <<pad, stick, hostPad, chordOld>>
         /\ UNCHANGED <<raw, fingers, zones, curr, chord, pending, menu, ps, touchMode, processed,
                        gesture, modes, sprinting, sent, control, mouse, keys, unseen>>
<1>1. kbState \in 0 .. 2 /\ kbBlocked \in BOOLEAN
  BY DEF TypeOK
<1>2. PICK both \in BOOLEAN, state \in 0 .. 2, soon \in BOOLEAN :
        IF both /\ state = 1 /\ soon /\ ~kbBlocked
        THEN /\ pad' = {} /\ stick' = "forward" /\ SendEmpty
             /\ kbState' = 0 /\ kbBlocked' = TRUE
             /\ chordOld' = raw
             /\ OpenKeyboard("zones", 1)
        ELSE /\ kbState' = IF both THEN 2
                           ELSE IF pad \intersect {"START", "LEFT"} = {} THEN 0 ELSE state
             /\ kbBlocked' = (kbBlocked /\ pad \intersect {"START", "LEFT"} # {})
             /\ Goto("chord")
             /\ UNCHANGED <<pad, stick, hostPad, chordOld>>
  <2> DEFINE rising == \E b \in {"START", "LEFT"} : b \in pad \ chordOld
             state == IF rising THEN 1 ELSE kbState
             both == {"START", "LEFT"} \subseteq pad
  <2>1. PICK soon \in IF rising THEN {TRUE} ELSE BOOLEAN :
        IF both /\ state = 1 /\ soon /\ ~kbBlocked
        THEN /\ pad' = {} /\ stick' = "forward" /\ SendEmpty
             /\ kbState' = 0 /\ kbBlocked' = TRUE
             /\ chordOld' = raw
             /\ OpenKeyboard("zones", 1)
        ELSE /\ kbState' = IF both THEN 2
                           ELSE IF pad \intersect {"START", "LEFT"} = {} THEN 0 ELSE state
             /\ kbBlocked' = (kbBlocked /\ pad \intersect {"START", "LEFT"} # {})
             /\ Goto("chord")
             /\ UNCHANGED <<pad, stick, hostPad, chordOld>>
    BY DEF PhysicalShortcut
  <2>2. both \in BOOLEAN /\ state \in 0 .. 2
    BY <1>1
  <2>3. soon \in BOOLEAN
    <3> HIDE DEF rising
    <3> QED BY <2>1
  <2> HIDE DEF both, state
  <2> QED BY <2>1, <2>2, <2>3
<1>3. kbState' \in 0 .. 2 /\ kbBlocked' \in BOOLEAN
  <2>1. CASE both /\ state = 1 /\ soon /\ ~kbBlocked
    BY <1>2, <2>1
  <2>2. CASE ~(both /\ state = 1 /\ soon /\ ~kbBlocked)
    <3>1. kbState' = IF both THEN 2 ELSE IF pad \intersect {"START", "LEFT"} = {} THEN 0 ELSE state
      BY <1>2, <2>2
    <3>2. kbBlocked' = (kbBlocked /\ pad \intersect {"START", "LEFT"} # {})
      BY <1>2, <2>2
    <3>3. kbBlocked' \in BOOLEAN
      BY <1>1, <3>2, Zenon
    <3> QED BY <1>1, <3>1, <3>3
  <2> QED BY <2>1, <2>2
<1>4. \/ /\ pad' = {} /\ stick' = "forward" /\ hostPad' = {} /\ chordOld' = raw
         /\ OpenKeyboard("zones", 1)
      \/ Goto("chord") /\ UNCHANGED <<pad, stick, hostPad, chordOld>>
  BY <1>2 DEF SendEmpty
<1> QED BY <1>3, <1>4 DEF PhysicalShortcut

\* The chord goes on with buttons held back or given back.
LEMMA ChordDoes ==
  ASSUME TypeOK, ChordGoesOn
  PROVE  /\ tick = "chord"
         /\ chord' \in {"idle", "pending", "passthrough", "consumed"}
         /\ pending' \subseteq Chord /\ pad' \subseteq Button
<1>1. ChordHeld \subseteq Chord /\ Chord \subseteq Button
  BY DEF ChordHeld, Button
<1>2. chord \in {"idle", "pending", "passthrough", "consumed"} /\ pending \subseteq Chord /\ pad \subseteq Button
  BY DEF TypeOK
<1> HIDE DEF ChordHeld
<1>3. CASE chord = "pending" \/ (chord = "idle" /\ "START" \in ChordHeld \ chordOld)
  BY <1>1, <1>2, <1>3 DEF ChordGoesOn
<1>4. CASE ~(chord = "pending" \/ (chord = "idle" /\ "START" \in ChordHeld \ chordOld))
  BY <1>1, <1>2, <1>4 DEF ChordGoesOn
<1> QED BY <1>3, <1>4

LEMMA ChordsTyped ==
  ASSUME TypeOK, PhysicalShortcut \/ ChordComplete \/ ChordGoesOn
  PROVE  TypeOK'
<1>1. CASE PhysicalShortcut
  <2>1. tick' \in Stage /\ zone' \in 1 .. 5 /\ after' \in {"zones", "menuKeyboard"}
    BY <1>1, ShortcutDoes DEF OpenKeyboard, Goto, Stage, TypeOK
  <2>2. /\ pad' \subseteq Button /\ stick' \in {"forward", "between", "centre"}
        /\ hostPad' \subseteq Sendable /\ chordOld' \subseteq Button
        /\ kbState' \in 0 .. 2 /\ kbBlocked' \in BOOLEAN
    BY <1>1, ShortcutDoes DEF TypeOK
  <2>3. UNCHANGED <<raw, fingers, zones, curr, chord, pending, menu, ps, touchMode, processed,
                    gesture, modes, sprinting, sent, control, mouse, keys, unseen>>
    BY <1>1 DEF PhysicalShortcut
  <2> QED BY <2>1, <2>2, <2>3 DEF TypeOK, menu, ps, gesture, modes, sprinting, sent, control
<1>2. CASE ChordComplete
  BY <1>2 DEF TypeOK, ChordComplete, StreamOverlayOpen, Goto, SendEmpty, Stage, ps, gesture, modes,
    sprinting, sent, control
<1>3. CASE ChordGoesOn
  <2>1. tick' \in Stage /\ zone' \in 1 .. 5 /\ after' \in {"zones", "menuKeyboard"} /\ chordOld' = raw
    BY <1>3 DEF ChordGoesOn, Goto, Stage, TypeOK
  <2>2. UNCHANGED <<raw, fingers, zones, stick, curr, kbState, kbBlocked, menu, ps, touchMode,
                 processed, gesture, modes, sprinting, sent, control, hostPad, mouse, keys,
                 unseen>>
    BY <1>3 DEF ChordGoesOn
  <2> QED BY <1>3, <2>1, <2>2, ChordDoes DEF TypeOK, menu, ps, gesture, modes, sprinting, sent, control
<1> QED BY <1>1, <1>2, <1>3

\* What a new touch mode leaves of the old one.
LEMMA ActivateTyped ==
  ASSUME TypeOK, NEW m \in TouchMode, Activate(m)
  PROVE  /\ activeMode' \in TouchMode /\ contacts' \in [{1, 3} -> 0 .. MaxFingers]
         /\ absLeft' \in BOOLEAN /\ suppressOne' \in BOOLEAN /\ tabletReleased' \in BOOLEAN
BY DEF TypeOK, Activate, Dropped

LEMMA ChooseTyped ==
  ASSUME TypeOK, NEW m \in TouchMode, ChooseTouchMode(m)
  PROVE  /\ touchMode' \in TouchMode /\ enabled' \in BOOLEAN
         /\ mouse' \subseteq {1, 2} /\ activeMode' \in TouchMode
         /\ contacts' \in [{1, 3} -> 0 .. MaxFingers]
         /\ absLeft' \in BOOLEAN /\ suppressOne' \in BOOLEAN /\ tabletReleased' \in BOOLEAN
<1>1. Activate(0) /\ 0 \in TouchMode
  BY DEF ChooseTouchMode, TouchMode
<1>2. touchMode' \in TouchMode /\ enabled' \in BOOLEAN /\ mouse' \subseteq {1, 2}
  BY DEF TypeOK, ChooseTouchMode
<1> QED BY <1>1, <1>2, ActivateTyped

LEMMA MenuTyped ==
  ASSUME TypeOK, MenuGoesOn \/ MenuCloses \/ MenuOpensKeyboard \/ AfterMenuKeyboard \/ KeyboardTold
                 \/ KeyboardClosed
  PROVE  TypeOK'
<1>1. CASE MenuGoesOn
  <2>1. /\ psMode' \in PsMode /\ touchMode' \in TouchMode /\ enabled' \in BOOLEAN
        /\ mouse' \subseteq {1, 2} /\ activeMode' \in TouchMode
        /\ contacts' \in [{1, 3} -> 0 .. MaxFingers]
        /\ absLeft' \in BOOLEAN /\ suppressOne' \in BOOLEAN /\ tabletReleased' \in BOOLEAN
    <3>1. CASE UNCHANGED <<psMode, touchMode, enabled, activeMode, contacts, absLeft, suppressOne,
                           tabletReleased, mouse>>
      BY <3>1 DEF TypeOK
    <3>2. CASE psMode' \in scene.ps /\ \E m \in scene.modes : ChooseTouchMode(m)
      BY <3>2, SceneIs, ChooseTyped
    <3> QED BY <1>1, <3>1, <3>2 DEF MenuGoesOn
  <2>2. /\ EndTick /\ padOld' = pad /\ old' = {}
        /\ UNCHANGED <<chordOld, chords, menu, psState, psLocked, psReleased, processed, gesture,
                       sprinting, zonesOld, control, hostPad, keys, unseen>>
    BY <1>1 DEF MenuGoesOn, EndMenu
  <2> QED BY <2>1, <2>2, EndTickTyped DEF TypeOK, chords, menu, gesture, sprinting, control
<1>2. CASE MenuCloses
  BY <1>2, EndTickTyped DEF TypeOK, MenuCloses, EndMenu, chords, ps, gesture, modes, sprinting, control
<1>3. CASE MenuOpensKeyboard
  BY <1>3 DEF TypeOK, MenuOpensKeyboard, OpenKeyboard, Stage, sample, chords, menu, ps, gesture, modes,
    sprinting, sent, control
<1>4. CASE AfterMenuKeyboard
  BY <1>4, EndTickTyped DEF TypeOK, AfterMenuKeyboard, EndMenu, chords, menu, ps, gesture, modes,
    sprinting, control
<1>5. CASE KeyboardTold
  BY <1>5 DEF TypeOK, KeyboardTold, Goto, Stage, sample, chords, menu, ps, gesture, modes,
    sprinting, sent, control
<1>6. CASE KeyboardClosed
  BY <1>6 DEF TypeOK, KeyboardClosed, Goto, Stage, sample, chords, menu, ps, gesture, modes,
    sprinting, sent, control
<1> QED BY <1>1, <1>2, <1>3, <1>4, <1>5, <1>6

LEMMA ZonesTyped ==
  ASSUME TypeOK, ProcessZone \/ ZonesDone
  PROVE  TypeOK'
<1>1. CASE ProcessZone
  BY <1>1 DEF TypeOK, ProcessZone, OpenKeyboard, SendEmpty, Stage, Sendable, Zone, chords, ps, gesture,
    modes, sprinting, sent, control
<1>2. CASE ZonesDone
  BY <1>2 DEF TypeOK, ZonesDone, Goto, Stage, sample, chords, menu, ps, gesture, modes,
    sprinting, sent, control
<1> QED BY <1>1, <1>2

\* One step of the PS button.
LEMMA PsDoes ==
  ASSUME TypeOK, NEW guide \in BOOLEAN, HandlePsbutton(guide)
  PROVE  /\ psState' \in {"idle", "firstDown", "firstUp", "guideHeld", "guidePulse", "localHeld",
                          "escape"}
         /\ psLocked' \in BOOLEAN /\ psReleased' \in BOOLEAN
         /\ guide => psLocked'
<1>1. CASE PsSystem(guide)
  BY <1>1 DEF PsSystem, ResetPs
<1>2. CASE \E b \in BOOLEAN : PsEscape(guide, b)
  BY <1>2 DEF TypeOK, PsEscape, ResetPs
<1>3. CASE \E b \in BOOLEAN : PsImmediate(guide, b)
  BY <1>3 DEF TypeOK, PsImmediate, BeginEscape
<1>4. CASE \E b \in BOOLEAN : PsTap(guide, b)
  <2>1. PICK b \in BOOLEAN : PsTap(guide, b)
    BY <1>4
  <2>2. PsNext(b) \in {"idle", "firstDown", "firstUp", "guideHeld", "guidePulse", "localHeld", "escape"}
    BY DEF TypeOK, PsNext
  <2> QED BY <2>1, <2>2 DEF TypeOK, PsTap, BeginEscape
<1> QED BY <1>1, <1>2, <1>3, <1>4 DEF HandlePsbutton

LEMMA ButtonsTyped ==
  ASSUME TypeOK, ProcessButtons
  PROVE  TypeOK'
<1>1. PICK guide \in BOOLEAN :
        /\ HandlePsbutton(guide)
        /\ IF overlay
           THEN /\ padOld' = pad
                /\ unseen' = unseen \union (keys \ zonesOld)
                /\ EndTick
           ELSE /\ curr' = curr \union Mapped \union (IF guide THEN {"GUIDE"} ELSE {})
                /\ Goto("retouch")
                /\ UNCHANGED <<raw, pad, fingers, zones, stick, padOld, unseen>>
  BY DEF ProcessButtons
<1>2. /\ psState' \in {"idle", "firstDown", "firstUp", "guideHeld", "guidePulse", "localHeld",
                       "escape"}
      /\ psLocked' \in BOOLEAN /\ psReleased' \in BOOLEAN
  BY <1>1, PsDoes
<1>3. UNCHANGED <<chordOld, chords, menu, psMode, touchMode, processed, gesture, modes, sprinting,
                  old, zonesOld, control, hostPad, mouse, keys>>
  BY DEF ProcessButtons
<1>4. CASE overlay
  <2>1. padOld' \subseteq Button /\ unseen' \subseteq Zone /\ EndTick
    BY <1>1, <1>4 DEF TypeOK
  <2> QED BY <1>2, <1>3, <2>1, EndTickTyped DEF TypeOK, chords, menu, gesture, modes, sprinting, control
<1>5. CASE ~overlay
  <2>1. curr' \subseteq Sendable /\ tick' \in Stage
        /\ UNCHANGED <<zone, after, raw, pad, fingers, zones, stick, padOld, unseen>>
    BY <1>1, <1>5 DEF TypeOK, Mapped, Sendable, Goto, Stage
  <2> QED BY <1>2, <1>3, <2>1 DEF TypeOK, chords, menu, gesture, modes, sprinting, control
<1> QED BY <1>4, <1>5

LEMMA ZerosAre == /\ 0 \in 0 .. MaxFingers /\ 0 \in TouchMode
                  /\ NoContacts \in [{1, 3} -> 0 .. MaxFingers]
BY DEF NoContacts, TouchMode

LEMMA DoubleClickTyped ==
  ASSUME TypeOK, DoubleClick
  PROVE  /\ maxOnce' \in BOOLEAN /\ centred' \in BOOLEAN /\ sprint' \in BOOLEAN
         /\ curr' \subseteq Sendable
<1>1. maxOnce' \in BOOLEAN
  BY DEF DoubleClick
<1>2. centred' \in BOOLEAN
  BY DEF DoubleClick
<1>3. sprint' \in BOOLEAN
  BY DEF DoubleClick
<1>4. curr' = curr \/ curr' = curr \union {"SPRINT"}
  BY DEF DoubleClick
<1> QED BY <1>1, <1>2, <1>3, <1>4 DEF TypeOK, Sendable

\* The touch stage changes the machines of the touch modes and the mouse only.
TouchFields == 
  /\ front' \in {"none", "touch", "tap", "swipeStart", "swipe"}
  /\ fingerCount' \in 0 .. MaxFingers /\ mouse' \subseteq {1, 2} /\ enabled' \in BOOLEAN
  /\ activeMode' \in TouchMode /\ contacts' \in [{1, 3} -> 0 .. MaxFingers]
  /\ absLeft' \in BOOLEAN /\ suppressOne' \in BOOLEAN /\ tabletReleased' \in BOOLEAN

LEMMA TouchFrameTyped ==
  ASSUME TypeOK, TouchFields, TouchFrame
  PROVE  TypeOK'
BY DEF TouchFields, TouchFrame, Goto, Stage, TypeOK, sample, chords, menu, ps, sprinting, sent, control

LEMMA TouchTyped ==
  ASSUME TypeOK, \/ ProcessTouch \/ TouchZone \/ TouchDs4 \/ TouchTablet \/ TouchAbsolute
                 \/ TouchRelative
  PROVE  TypeOK'
<1>1. CASE ProcessTouch
  <2>1. /\ front' \in {"none", "touch", "tap", "swipeStart", "swipe"}
        /\ fingerCount' \in 0 .. MaxFingers /\ mouse' \subseteq {1, 2} /\ enabled' \in BOOLEAN
        /\ activeMode' \in TouchMode /\ contacts' \in [{1, 3} -> 0 .. MaxFingers]
        /\ absLeft' \in BOOLEAN /\ suppressOne' \in BOOLEAN /\ tabletReleased' \in BOOLEAN
    <3>1. CASE processed # touchMode
      <4>1. Activate(0) /\ 0 \in TouchMode
        BY <1>1, <3>1 DEF ProcessTouch, TouchMode
      <4>2. /\ front' = "none" /\ fingerCount' = 0 /\ mouse' = TapReleased \ ModeMouse
            /\ enabled' = (touchMode = 2)
        BY <1>1, <3>1 DEF ProcessTouch
      <4>3. fingerCount' \in 0 .. MaxFingers /\ mouse' \subseteq {1, 2}
        <5>1. mouse' \subseteq mouse
          BY <4>2 DEF TapReleased
        <5> QED BY <4>2, <5>1, ZerosAre DEF TypeOK
      <4> QED BY <4>1, <4>2, <4>3, ActivateTyped
    <3>2. CASE processed = touchMode
      BY <1>1, <3>2 DEF ProcessTouch, TypeOK, gesture, modes
    <3> QED BY <3>1, <3>2
  <2>2. /\ maxOnce' \in BOOLEAN /\ centred' \in BOOLEAN /\ sprint' \in BOOLEAN
        /\ curr' \subseteq Sendable
    <3>1. CASE scene.sprint
      BY <1>1, <3>1, DoubleClickTyped DEF ProcessTouch
    <3>2. CASE ~scene.sprint
      BY <1>1, <3>2 DEF ProcessTouch, TypeOK, sprinting
    <3> QED BY <3>1, <3>2
  <2>3. /\ processed' = touchMode /\ tick' = "touch" /\ UNCHANGED <<zone, after>>
        /\ UNCHANGED <<raw, pad, fingers, zones, stick, chordOld, chords, menu, ps, touchMode, sent,
                       control, hostPad, keys, unseen>>
    BY <1>1 DEF ProcessTouch, Goto
  <2> QED BY <2>1, <2>2, <2>3 DEF TypeOK, Stage, chords, menu, ps, sent, control
<1>2. CASE TouchZone
  <2>1. TouchFields /\ TouchFrame
    <3>1. mouse' \subseteq {1, 2}
      BY <1>2 DEF TypeOK, TouchZone, TapReleased
    <3> QED BY <1>2, <3>1, ZerosAre DEF TypeOK, TouchFields, TouchZone, ReleaseAll
  <2> QED BY <2>1, TouchFrameTyped
<1>3. CASE TouchDs4
  <2>1. [Dropped EXCEPT ![1] = fingers] \in [{1, 3} -> 0 .. MaxFingers]
    BY DEF TypeOK, Dropped
  <2>2. TouchFields /\ TouchFrame
    BY <1>3, <2>1 DEF TypeOK, TouchFields, TouchDs4, TouchMode, gesture
  <2> QED BY <2>2, TouchFrameTyped
<1>4. CASE TouchTablet
  <2>1. [Dropped EXCEPT ![3] = fingers] \in [{1, 3} -> 0 .. MaxFingers]
    BY DEF TypeOK, Dropped
  <2>2. TouchFields /\ TouchFrame
    BY <1>4, <2>1 DEF TypeOK, TouchFields, TouchTablet, TouchMode, gesture
  <2> QED BY <2>2, TouchFrameTyped
<1>5. CASE TouchAbsolute
  <2>1. Dropped \in [{1, 3} -> 0 .. MaxFingers]
    BY DEF TypeOK, Dropped
  <2>2. /\ absLeft' \in BOOLEAN /\ suppressOne' \in BOOLEAN /\ tabletReleased' \in BOOLEAN
    BY <1>5 DEF TypeOK, TouchAbsolute
  <2>3. /\ mouse' \subseteq {1, 2} /\ activeMode' \in TouchMode /\ contacts' \in [{1, 3} -> 0 .. MaxFingers]
    BY <1>5, <2>1 DEF TypeOK, TouchAbsolute, TouchMode
  <2>4. UNCHANGED <<gesture, enabled>> /\ TouchFrame
    BY <1>5 DEF TouchAbsolute
  <2>5. TouchFields
    BY <2>2, <2>3, <2>4 DEF TypeOK, TouchFields, gesture
  <2> QED BY <2>4, <2>5, TouchFrameTyped
<1>6. CASE TouchRelative
  <2>1. /\ front' \in {"none", "touch", "tap", "swipeStart", "swipe"}
        /\ fingerCount' \in 0 .. MaxFingers /\ mouse' \subseteq {1, 2}
    BY <1>6 DEF TypeOK, TouchRelative
  <2>2. UNCHANGED modes /\ TouchFrame
    BY <1>6 DEF TouchRelative
  <2>3. TouchFields
    BY <2>1, <2>2 DEF TypeOK, TouchFields, modes
  <2> QED BY <2>2, <2>3, TouchFrameTyped
<1> QED BY <1>1, <1>2, <1>3, <1>4, <1>5, <1>6

LEMMA SendTyped ==
  ASSUME TypeOK, SendFrame
  PROVE  TypeOK'
<1>1. hostPad' \subseteq Sendable /\ old' \subseteq Sendable /\ padOld' \subseteq Button
      /\ zonesOld' \subseteq Zone /\ EndTick
  BY DEF TypeOK, SendFrame
<1> QED BY <1>1, EndTickTyped DEF TypeOK, SendFrame, chords, menu, ps, gesture, modes, sprinting, control

LEMMA StartStopTyped ==
  ASSUME TypeOK, Start \/ BetweenStreams \/ \E t \in Thread : StopRequest(t) \/ StopRelease(t)
  PROVE  TypeOK'
<1>1. CASE Start
  BY <1>1 DEF TypeOK, Start, ResetShortcuts, ResetPs, sample, menu, gesture, modes, sprinting
<1>2. CASE BetweenStreams
  <2>1. PICK m \in scene.modes : ChooseTouchMode(m)
    BY <1>2 DEF BetweenStreams
  <2>2. m \in TouchMode /\ psMode' \in PsMode /\ overlay' = FALSE
    BY <1>2, SceneIs DEF BetweenStreams
  <2>3. /\ touchMode' \in TouchMode /\ enabled' \in BOOLEAN
        /\ mouse' \subseteq {1, 2} /\ activeMode' \in TouchMode
        /\ contacts' \in [{1, 3} -> 0 .. MaxFingers]
        /\ absLeft' \in BOOLEAN /\ suppressOne' \in BOOLEAN /\ tabletReleased' \in BOOLEAN
    BY <2>1, <2>2, ChooseTyped
  <2>4. UNCHANGED <<scene, active, stopping, closeRequested, tick, zone, after, sample, chordOld,
                    chords, suppress, closing, psState, psLocked, psReleased, processed, gesture,
                    sprinting, sent, hostPad, keys, unseen>>
    BY <1>2 DEF BetweenStreams
  <2>5. overlay' \in BOOLEAN
    BY <2>2
  <2> HIDE DEF ChooseTouchMode
  <2> QED BY <2>2, <2>3, <2>4, <2>5 DEF TypeOK, sample, chords, gesture, sprinting, sent
<1>3. ASSUME NEW t \in Thread, StopRequest(t)
      PROVE  TypeOK'
  BY <1>3 DEF TypeOK, StopRequest, AskToClose, sample, chords, menu, ps, gesture, modes, sprinting, sent
<1>4. ASSUME NEW t \in Thread, StopRelease(t)
      PROVE  TypeOK'
  <2>1. stopping' \in [Thread -> BOOLEAN]
    BY <1>4 DEF TypeOK, StopRelease
  <2>2. mouse' \subseteq {1, 2}
    BY <1>4 DEF TypeOK, StopRelease
  <2> QED BY <1>4, <2>1, <2>2, ZerosAre DEF TypeOK, StopRelease, ReleaseAll, SendEmpty, ResetPs, ResetShortcuts,
    sample, menu, gesture, sprinting
<1> QED BY <1>1, <1>2, <1>3, <1>4

LEMMA InitTyped == Init => TypeOK
<1> SUFFICES ASSUME Init PROVE TypeOK
  OBVIOUS
<1>1. scene.modes \subseteq TouchMode /\ scene.ps \subseteq PsMode
  BY DEF Init, Scene
<1>2. /\ psMode \in PsMode /\ touchMode \in TouchMode /\ enabled \in BOOLEAN
      /\ stopping \in [Thread -> BOOLEAN]
  BY <1>1 DEF Init
<1>3. {kbBlocked, overlay, suppress, psLocked, psReleased, enabled, absLeft,
      suppressOne, tabletReleased, maxOnce, centred, sprint, active,
      closeRequested} \subseteq BOOLEAN
  BY <1>2 DEF Init
<1>4. /\ scene \in Scenes /\ tick \in Stage /\ zone \in 1 .. 5 /\ kbState \in 0 .. 2
      /\ after \in {"zones", "menuKeyboard"} /\ stick \in {"forward", "between", "centre"}
      /\ chord \in {"idle", "pending", "passthrough", "consumed"}
      /\ psState = "idle" /\ front = "none" /\ processed \in TouchMode \union {4}
  BY DEF Init, Stage
<1>5. /\ fingers \in 0 .. MaxFingers /\ fingerCount \in 0 .. MaxFingers /\ activeMode \in TouchMode
      /\ contacts \in [{1, 3} -> 0 .. MaxFingers]
  BY ZerosAre DEF Init
<1>6. /\ raw = {} /\ pad = {} /\ padOld = {} /\ chordOld = {} /\ zones = {} /\ zonesOld = {}
      /\ curr = {} /\ old = {} /\ hostPad = {} /\ pending = {} /\ mouse = {} /\ keys = {}
      /\ unseen = {} /\ closing = {}
  BY DEF Init
<1> QED BY <1>2, <1>3, <1>4, <1>5, <1>6 DEF TypeOK

-----------------------------------------------------------------------------
(* The invariant, one part after the other.                                *)

LEMMA PlacesAre ==
  ASSUME TypeOK
  PROVE  /\ after \in {"zones", "menuKeyboard"} /\ keys \subseteq Zone /\ zone \in 1 .. 5
         /\ zones \subseteq Zone
BY DEF TypeOK

\* Ticks run while input is active, and the stages come in order.
LEMMA StepInPlace ==
  ASSUME TypeOK, InPlace, Next
  PROVE  InPlace'
<1> USE DEF InPlace, InMenu, FrameStage, sample, chords, menu, ps, gesture, modes, sprinting, sent, control
<1>1. CASE Sample
  BY <1>1 DEF Sample, Latched, Taken, ResetShortcuts, Swallow, Goto
<1>2. CASE PhysicalShortcut
  BY <1>2, ShortcutDoes DEF OpenKeyboard, Goto
<1>3. CASE ChordComplete
  BY <1>3 DEF ChordComplete, StreamOverlayOpen, SendEmpty, Goto
<1>4. CASE ChordGoesOn
  BY <1>4 DEF ChordGoesOn, Goto
<1>5. CASE MenuGoesOn
  BY <1>5 DEF MenuGoesOn, EndMenu, EndTick
<1>6. CASE MenuCloses
  BY <1>6 DEF MenuCloses, EndMenu, EndTick
<1>7. CASE MenuOpensKeyboard
  BY <1>7 DEF MenuOpensKeyboard, OpenKeyboard
<1>8. CASE AfterMenuKeyboard
  BY <1>8 DEF AfterMenuKeyboard, EndMenu, EndTick
<1>9. CASE KeyboardTold
  BY <1>9, PlacesAre DEF KeyboardTold, Goto
<1>10. CASE KeyboardClosed
  BY <1>10, PlacesAre DEF KeyboardClosed, Goto
<1>11. CASE ProcessZone
  BY <1>11 DEF ProcessZone, OpenKeyboard, SendEmpty
<1>12. CASE ZonesDone
  BY <1>12 DEF ZonesDone, Goto
<1>13. CASE ProcessButtons
  BY <1>13 DEF ProcessButtons, EndTick, Goto
<1>14. CASE ProcessTouch
  BY <1>14 DEF ProcessTouch, Goto
<1>15. CASE TouchZone
  BY <1>15 DEF TouchZone, TouchFrame, Goto
<1>16. CASE TouchDs4
  BY <1>16 DEF TouchDs4, TouchFrame, Goto
<1>17. CASE TouchTablet
  BY <1>17 DEF TouchTablet, TouchFrame, Goto
<1>18. CASE TouchAbsolute
  BY <1>18 DEF TouchAbsolute, TouchFrame, Goto
<1>19. CASE TouchRelative
  BY <1>19 DEF TouchRelative, TouchFrame, Goto
<1>20. CASE SendFrame
  BY <1>20 DEF SendFrame, EndTick
<1>21. CASE Start
  BY <1>21 DEF Start, MutexFree, ResetShortcuts, ResetPs
<1>22. CASE BetweenStreams
  BY <1>22 DEF BetweenStreams
<1>23. ASSUME NEW t \in Thread, StopRequest(t)
     PROVE  InPlace'
  BY <1>23 DEF StopRequest, AskToClose
<1>24. ASSUME NEW t \in Thread, StopRelease(t)
     PROVE  InPlace'
  BY <1>24 DEF StopRelease, MutexFree, SendEmpty, ReleaseAll, ResetPs, ResetShortcuts
<1> QED BY <1>1, <1>2, <1>3, <1>4, <1>5, <1>6, <1>7, <1>8, <1>9, <1>10, <1>11, <1>12, <1>13, <1>14, <1>15, <1>16, <1>17, <1>18, <1>19, <1>20, <1>21, <1>22, <1>23, <1>24 DEF Next, Worker

\* A frame is remembered when it is sent, and the menu and the latch empty the pad.
LEMMA StepPad ==
  ASSUME TypeOK, InPlace, PadKnown, ReleasedWhenStopped, Next
  PROVE  PadKnown'
<1> USE DEF InPlace, InMenu, FrameStage, PadKnown, ReleasedWhenStopped, sample, chords, menu, ps, gesture, modes, sprinting, sent, control
<1>1. CASE Sample
  BY <1>1 DEF Sample, Latched, Taken, ResetShortcuts, Swallow, Goto
<1>2. CASE PhysicalShortcut
  BY <1>2, ShortcutDoes DEF OpenKeyboard, Goto
<1>3. CASE ChordComplete
  BY <1>3 DEF ChordComplete, StreamOverlayOpen, SendEmpty, Goto
<1>4. CASE ChordGoesOn
  BY <1>4 DEF ChordGoesOn, Goto
<1>5. CASE MenuGoesOn
  BY <1>5 DEF MenuGoesOn, EndMenu, EndTick
<1>6. CASE MenuCloses
  BY <1>6 DEF MenuCloses, EndMenu, EndTick
<1>7. CASE MenuOpensKeyboard
  BY <1>7 DEF MenuOpensKeyboard, OpenKeyboard
<1>8. CASE AfterMenuKeyboard
  BY <1>8 DEF AfterMenuKeyboard, EndMenu, EndTick
<1>9. CASE KeyboardTold
  BY <1>9 DEF KeyboardTold, Goto
<1>10. CASE KeyboardClosed
  BY <1>10 DEF KeyboardClosed, Goto
<1>11. CASE ProcessZone
  BY <1>11 DEF ProcessZone, OpenKeyboard, SendEmpty
<1>12. CASE ZonesDone
  BY <1>12 DEF ZonesDone, Goto
<1>13. CASE ProcessButtons
  BY <1>13 DEF ProcessButtons, EndTick, Goto
<1>14. CASE ProcessTouch
  BY <1>14 DEF ProcessTouch, Goto
<1>15. CASE TouchZone
  BY <1>15 DEF TouchZone, TouchFrame, Goto
<1>16. CASE TouchDs4
  BY <1>16 DEF TouchDs4, TouchFrame, Goto
<1>17. CASE TouchTablet
  BY <1>17 DEF TouchTablet, TouchFrame, Goto
<1>18. CASE TouchAbsolute
  BY <1>18 DEF TouchAbsolute, TouchFrame, Goto
<1>19. CASE TouchRelative
  BY <1>19 DEF TouchRelative, TouchFrame, Goto
<1>20. CASE SendFrame
  BY <1>20 DEF SendFrame, EndTick
<1>21. CASE Start
  BY <1>21 DEF Start, MutexFree, ResetShortcuts, ResetPs
<1>22. CASE BetweenStreams
  BY <1>22 DEF BetweenStreams
<1>23. ASSUME NEW t \in Thread, StopRequest(t)
     PROVE  PadKnown'
  BY <1>23 DEF StopRequest, AskToClose
<1>24. ASSUME NEW t \in Thread, StopRelease(t)
     PROVE  PadKnown'
  BY <1>24 DEF StopRelease, MutexFree, SendEmpty, ReleaseAll, ResetPs, ResetShortcuts
<1> QED BY <1>1, <1>2, <1>3, <1>4, <1>5, <1>6, <1>7, <1>8, <1>9, <1>10, <1>11, <1>12, <1>13, <1>14, <1>15, <1>16, <1>17, <1>18, <1>19, <1>20, <1>21, <1>22, <1>23, <1>24 DEF Next, Worker

\* Input starts only once nobody is stopping it, and what is released stays so.
LEMMA StepReleased ==
  ASSUME TypeOK, InPlace, ReleasedWhenStopped, Next
  PROVE  ReleasedWhenStopped'
<1> USE DEF InPlace, ReleasedWhenStopped, sample, chords, menu, ps, gesture, modes, sprinting, sent, control
<1>1. CASE Sample
  BY <1>1 DEF Sample, Latched, Taken, ResetShortcuts, Swallow, Goto
<1>2. CASE PhysicalShortcut
  BY <1>2, ShortcutDoes DEF OpenKeyboard, Goto
<1>3. CASE ChordComplete
  BY <1>3 DEF ChordComplete, StreamOverlayOpen, SendEmpty, Goto
<1>4. CASE ChordGoesOn
  BY <1>4 DEF ChordGoesOn, Goto
<1>5. CASE MenuGoesOn
  BY <1>5 DEF MenuGoesOn, EndMenu, EndTick
<1>6. CASE MenuCloses
  BY <1>6 DEF MenuCloses, EndMenu, EndTick
<1>7. CASE MenuOpensKeyboard
  BY <1>7 DEF MenuOpensKeyboard, OpenKeyboard
<1>8. CASE AfterMenuKeyboard
  BY <1>8 DEF AfterMenuKeyboard, EndMenu, EndTick
<1>9. CASE KeyboardTold
  BY <1>9 DEF KeyboardTold, Goto
<1>10. CASE KeyboardClosed
  BY <1>10 DEF KeyboardClosed, Goto
<1>11. CASE ProcessZone
  BY <1>11 DEF ProcessZone, OpenKeyboard, SendEmpty
<1>12. CASE ZonesDone
  BY <1>12 DEF ZonesDone, Goto
<1>13. CASE ProcessButtons
  BY <1>13 DEF ProcessButtons, EndTick, Goto
<1>14. CASE ProcessTouch
  BY <1>14 DEF ProcessTouch, Goto
<1>15. CASE TouchZone
  BY <1>15 DEF TouchZone, TouchFrame, Goto
<1>16. CASE TouchDs4
  BY <1>16 DEF TouchDs4, TouchFrame, Goto
<1>17. CASE TouchTablet
  BY <1>17 DEF TouchTablet, TouchFrame, Goto
<1>18. CASE TouchAbsolute
  BY <1>18 DEF TouchAbsolute, TouchFrame, Goto
<1>19. CASE TouchRelative
  BY <1>19 DEF TouchRelative, TouchFrame, Goto
<1>20. CASE SendFrame
  BY <1>20 DEF SendFrame, EndTick
<1>21. CASE Start
  BY <1>21 DEF Start, MutexFree, ResetShortcuts, ResetPs
<1>22. CASE BetweenStreams
  <2>1. PICK m \in scene.modes : ChooseTouchMode(m)
    BY <1>22 DEF BetweenStreams
  <2>2. contacts = NoContacts /\ ~absLeft
    BY <1>22 DEF BetweenStreams
  <2>3. Dropped = NoContacts
    BY <2>2 DEF Dropped, NoContacts
  <2>4. contacts' = NoContacts /\ ~absLeft'
    BY <2>1, <2>2, <2>3 DEF ChooseTouchMode, Activate
  <2> QED BY <1>22, <2>4 DEF BetweenStreams
<1>23. ASSUME NEW t \in Thread, StopRequest(t)
     PROVE  ReleasedWhenStopped'
  BY <1>23 DEF StopRequest, AskToClose
<1>24. ASSUME NEW t \in Thread, StopRelease(t)
     PROVE  ReleasedWhenStopped'
  BY <1>24 DEF StopRelease, MutexFree, SendEmpty, ReleaseAll, ResetPs, ResetShortcuts
<1> QED BY <1>1, <1>2, <1>3, <1>4, <1>5, <1>6, <1>7, <1>8, <1>9, <1>10, <1>11, <1>12, <1>13, <1>14, <1>15, <1>16, <1>17, <1>18, <1>19, <1>20, <1>21, <1>22, <1>23, <1>24 DEF Next, Worker

LEMMA GuideIsNoButton == "GUIDE" \notin Button
BY DEF Button, Chord

\* Guide is sent by a tick that has locked the shell out, or released by the next frame.
LEMMA StepGuide ==
  ASSUME TypeOK, InPlace, PadKnown, ReleasedWhenStopped, GuideLocked, Next
  PROVE  GuideLocked'
<1> USE DEF InPlace, FrameStage, PadKnown, ReleasedWhenStopped, GuideLocked, sample, chords, menu, ps, gesture, modes, sprinting, sent, control
<1>1. CASE Sample
  BY <1>1 DEF Sample, Latched, Taken, ResetShortcuts, Swallow, Goto
<1>2. CASE PhysicalShortcut
  BY <1>2, ShortcutDoes DEF OpenKeyboard, Goto
<1>3. CASE ChordComplete
  BY <1>3 DEF ChordComplete, StreamOverlayOpen, SendEmpty, Goto
<1>4. CASE ChordGoesOn
  BY <1>4 DEF ChordGoesOn, Goto
<1>5. CASE MenuGoesOn
  BY <1>5 DEF MenuGoesOn, EndMenu, EndTick
<1>6. CASE MenuCloses
  BY <1>6 DEF MenuCloses, EndMenu, EndTick
<1>7. CASE MenuOpensKeyboard
  BY <1>7 DEF MenuOpensKeyboard, OpenKeyboard
<1>8. CASE AfterMenuKeyboard
  BY <1>8 DEF AfterMenuKeyboard, EndMenu, EndTick
<1>9. CASE KeyboardTold
  BY <1>9 DEF KeyboardTold, Goto
<1>10. CASE KeyboardClosed
  BY <1>10 DEF KeyboardClosed, Goto
<1>11. CASE ProcessZone
  <2>1. zone \in 1 .. 4 /\ tick = "zones"
    BY <1>11, PlacesAre DEF ProcessZone
  <2>2. "GUIDE" # Corner[zone]
    BY <2>1 DEF Corner
  <2>3. "GUIDE" \notin curr' /\ hostPad' \subseteq hostPad /\ UNCHANGED psLocked
    BY <1>11, <2>1, <2>2 DEF ProcessZone, SendEmpty
  <2> QED BY <2>1, <2>3
<1>12. CASE ZonesDone
  BY <1>12 DEF ZonesDone, Goto
<1>13. CASE ProcessButtons
  <2>1. PICK guide \in BOOLEAN :
        /\ HandlePsbutton(guide)
        /\ IF overlay
           THEN /\ padOld' = pad
                /\ unseen' = unseen \union (keys \ zonesOld)
                /\ EndTick
           ELSE /\ curr' = curr \union Mapped \union (IF guide THEN {"GUIDE"} ELSE {})
                /\ Goto("retouch")
                /\ UNCHANGED <<raw, pad, fingers, zones, stick, padOld, unseen>>
    BY <1>13 DEF ProcessButtons
  <2>2. guide => psLocked'
    BY <2>1, PsDoes
  <2>3. tick = "buttons" /\ UNCHANGED hostPad
    BY <1>13 DEF ProcessButtons
  <2>4. CASE overlay
    BY <2>1, <2>3, <2>4 DEF EndTick
  <2>5. CASE ~overlay
    <3>1. "GUIDE" \notin Mapped
      BY GuideIsNoButton DEF TypeOK, Mapped
    <3> QED BY <2>1, <2>2, <2>3, <2>5, <3>1 DEF Goto
  <2> QED BY <2>4, <2>5
<1>14. CASE ProcessTouch
  <2>1. curr' \subseteq curr \union {"SPRINT"}
    BY <1>14 DEF ProcessTouch, DoubleClick
  <2> QED BY <1>14, <2>1 DEF ProcessTouch, Goto
<1>15. CASE TouchZone
  BY <1>15 DEF TouchZone, TouchFrame, Goto
<1>16. CASE TouchDs4
  BY <1>16 DEF TouchDs4, TouchFrame, Goto
<1>17. CASE TouchTablet
  BY <1>17 DEF TouchTablet, TouchFrame, Goto
<1>18. CASE TouchAbsolute
  BY <1>18 DEF TouchAbsolute, TouchFrame, Goto
<1>19. CASE TouchRelative
  BY <1>19 DEF TouchRelative, TouchFrame, Goto
<1>20. CASE SendFrame
  BY <1>20 DEF SendFrame, EndTick
<1>21. CASE Start
  BY <1>21 DEF Start, MutexFree, ResetShortcuts, ResetPs
<1>22. CASE BetweenStreams
  BY <1>22 DEF BetweenStreams
<1>23. ASSUME NEW t \in Thread, StopRequest(t)
     PROVE  GuideLocked'
  BY <1>23 DEF StopRequest, AskToClose
<1>24. ASSUME NEW t \in Thread, StopRelease(t)
     PROVE  GuideLocked'
  BY <1>24 DEF StopRelease, MutexFree, SendEmpty, ReleaseAll, ResetPs, ResetShortcuts
<1> QED BY <1>1, <1>2, <1>3, <1>4, <1>5, <1>6, <1>7, <1>8, <1>9, <1>10, <1>11, <1>12, <1>13, <1>14, <1>15, <1>16, <1>17, <1>18, <1>19, <1>20, <1>21, <1>22, <1>23, <1>24 DEF Next, Worker

LEMMA ActivateMouse ==
  ASSUME MouseKnown, NEW m, Activate(m)
  PROVE  ~absLeft' /\ mouse \ ModeMouse = Tapped
<1>1. CASE absLeft
  <2>1. Tapped = {} /\ ModeMouse = {1} /\ mouse = {1}
    BY <1>1 DEF MouseKnown, ModeMouse, AbsoluteHeld, Tapped
  <2> QED BY <1>1, <2>1 DEF MouseKnown, Activate
<1>2. CASE ~absLeft
  <2>1. ModeMouse = {} /\ mouse = Tapped
    BY <1>2 DEF MouseKnown, ModeMouse, AbsoluteHeld
  <2> QED BY <1>2, <2>1 DEF Activate
<1> QED BY <1>1, <1>2

\* A new touch mode ends the drag; a click is left to the next tick.
LEMMA ChooseMouse ==
  ASSUME MouseKnown, NEW m, ChooseTouchMode(m), UNCHANGED <<front, fingerCount, processed>>,
         tick' # "touch"
  PROVE  MouseKnown'
<1>1. ~absLeft' /\ mouse' = Tapped
  BY ActivateMouse DEF ChooseTouchMode
<1> QED BY <1>1 DEF MouseKnown, Tapped, AbsoluteHeld

\* A click and a drag are never held together, and each ends with its mode.
LEMMA StepMouse ==
  ASSUME TypeOK, InPlace, MouseKnown, Next
  PROVE  MouseKnown'
<1> USE DEF InPlace, MouseKnown, Tapped, AbsoluteHeld, sample, chords, menu, ps, gesture, modes, sprinting, sent, control
<1>1. CASE Sample
  BY <1>1 DEF Sample, Latched, Taken, ResetShortcuts, Swallow, Goto
<1>2. CASE PhysicalShortcut
  BY <1>2, ShortcutDoes DEF OpenKeyboard, Goto
<1>3. CASE ChordComplete
  BY <1>3 DEF ChordComplete, StreamOverlayOpen, SendEmpty, Goto
<1>4. CASE ChordGoesOn
  BY <1>4 DEF ChordGoesOn, Goto
<1>5. CASE MenuGoesOn
  <2>1. tick' = "idle" /\ UNCHANGED <<front, fingerCount, processed>>
    BY <1>5 DEF MenuGoesOn, EndMenu, EndTick
  <2>2. CASE \E m \in scene.modes : ChooseTouchMode(m)
    <3> HIDE DEF MouseKnown
    <3> QED BY <2>1, <2>2, ChooseMouse
  <2>3. CASE UNCHANGED <<activeMode, absLeft, mouse>>
    BY <2>1, <2>3
  <2> QED BY <1>5, <2>2, <2>3 DEF MenuGoesOn
<1>6. CASE MenuCloses
  BY <1>6 DEF MenuCloses, EndMenu, EndTick
<1>7. CASE MenuOpensKeyboard
  BY <1>7 DEF MenuOpensKeyboard, OpenKeyboard
<1>8. CASE AfterMenuKeyboard
  BY <1>8 DEF AfterMenuKeyboard, EndMenu, EndTick
<1>9. CASE KeyboardTold
  BY <1>9, PlacesAre DEF KeyboardTold, Goto
<1>10. CASE KeyboardClosed
  BY <1>10, PlacesAre DEF KeyboardClosed, Goto
<1>11. CASE ProcessZone
  BY <1>11 DEF ProcessZone, OpenKeyboard, SendEmpty
<1>12. CASE ZonesDone
  BY <1>12 DEF ZonesDone, Goto
<1>13. CASE ProcessButtons
  BY <1>13 DEF ProcessButtons, EndTick, Goto
<1>14. CASE ProcessTouch
  <2>1. processed' = touchMode /\ tick' = "touch" /\ UNCHANGED touchMode
    BY <1>14 DEF ProcessTouch, Goto
  <2>2. CASE processed # touchMode
    <3>1. Activate(0) /\ front' = "none" /\ mouse' = TapReleased \ ModeMouse
      BY <1>14, <2>2 DEF ProcessTouch
    <3>2. ~absLeft' /\ mouse \ ModeMouse = Tapped
      BY <3>1, ActivateMouse
    <3>3. mouse' = {}
      BY <3>1, <3>2 DEF TapReleased
    <3> QED BY <2>1, <3>1, <3>2, <3>3
  <2>3. CASE processed = touchMode
    BY <1>14, <2>1, <2>3 DEF ProcessTouch
  <2> QED BY <2>2, <2>3
<1>15. CASE TouchZone
  <2>1. mouse' = {} /\ ~absLeft' /\ front' = "none" /\ tick' = "send"
    BY <1>15 DEF TouchZone, TapReleased, ReleaseAll, TouchFrame, Goto
  <2> QED BY <2>1
<1>16. CASE TouchDs4
  <2>1. ~absLeft /\ front # "tap" /\ mouse = {}
    BY <1>16 DEF TouchDs4
  <2>2. mouse' = {} /\ ~absLeft' /\ UNCHANGED front /\ tick' = "send"
    BY <1>16, <2>1 DEF TouchDs4, TouchFrame, Goto
  <2> QED BY <2>1, <2>2
<1>17. CASE TouchTablet
  <2>1. ~absLeft /\ front # "tap" /\ mouse = {}
    BY <1>17 DEF TouchTablet
  <2>2. mouse' = {} /\ ~absLeft' /\ UNCHANGED front /\ tick' = "send"
    BY <1>17, <2>1 DEF TouchTablet, TouchFrame, Goto
  <2> QED BY <2>1, <2>2
<1>18. CASE TouchAbsolute
  BY <1>18 DEF TouchAbsolute, TouchFrame, Goto
<1>19. CASE TouchRelative
  BY <1>19 DEF TouchRelative, TouchFrame, Goto
<1>20. CASE SendFrame
  BY <1>20 DEF SendFrame, EndTick
<1>21. CASE Start
  BY <1>21 DEF Start, MutexFree, ResetShortcuts, ResetPs
<1>22. CASE BetweenStreams
  <2>1. PICK m \in scene.modes : ChooseTouchMode(m)
    BY <1>22 DEF BetweenStreams
  <2>2. tick = "idle" /\ UNCHANGED <<front, fingerCount, processed, tick>>
    BY <1>22 DEF BetweenStreams
  <2> QED BY <2>1, <2>2, ChooseMouse
<1>23. ASSUME NEW t \in Thread, StopRequest(t)
     PROVE  MouseKnown'
  BY <1>23 DEF StopRequest, AskToClose
<1>24. ASSUME NEW t \in Thread, StopRelease(t)
     PROVE  MouseKnown'
  BY <1>24 DEF StopRelease, MutexFree, SendEmpty, ReleaseAll, ResetPs, ResetShortcuts
<1> QED BY <1>1, <1>2, <1>3, <1>4, <1>5, <1>6, <1>7, <1>8, <1>9, <1>10, <1>11, <1>12, <1>13, <1>14, <1>15, <1>16, <1>17, <1>18, <1>19, <1>20, <1>21, <1>22, <1>23, <1>24 DEF Next, Worker

\* Between ticks no corner has been compared yet.
LEMMA KeysAtRest ==
  ASSUME TypeOK, KeysKnown, zone = 1
  PROVE  keys \subseteq unseen \union zonesOld
BY PlacesAre DEF KeysKnown, Zone

\* A tick that ends puts all of them before the next.
LEMMA KeysEnd ==
  ASSUME zone' = 1, UNCHANGED scene, keys' \subseteq unseen' \union zonesOld', keys' \subseteq Zone,
         \A z \in keys' : scene.zones[z] = "key"
  PROVE  KeysKnown'
BY DEF KeysKnown, Zone

\* The corners are compared one after the other, and the tick's end remembers them.
LEMMA StepKeys ==
  ASSUME TypeOK, InPlace, KeysKnown, Next
  PROVE  KeysKnown'
<1> USE DEF InPlace, InMenu, FrameStage, KeysKnown, sample, chords, menu, ps, gesture, modes, sprinting, sent, control
<1>1. CASE Sample
  <2>1. zone = 1 /\ UNCHANGED <<scene, keys, unseen, zonesOld>> /\ zone' = 1
    BY <1>1 DEF Sample, Latched, Taken, ResetShortcuts, Swallow, Goto
  <2> HIDE DEF KeysKnown
  <2>2. keys' \subseteq unseen' \union zonesOld' /\ keys' \subseteq Zone
    BY <2>1, KeysAtRest, PlacesAre
  <2>3. \A z \in keys' : scene.zones[z] = "key"
    BY <2>1 DEF KeysKnown
  <2> QED BY <2>1, <2>2, <2>3, KeysEnd
<1>2. CASE PhysicalShortcut
  BY <1>2, ShortcutDoes DEF OpenKeyboard, Goto
<1>3. CASE ChordComplete
  BY <1>3 DEF ChordComplete, StreamOverlayOpen, SendEmpty, Goto
<1>4. CASE ChordGoesOn
  BY <1>4 DEF ChordGoesOn, Goto
<1>5. CASE MenuGoesOn
  <2>1. zone = 1 /\ UNCHANGED <<scene, keys, unseen, zonesOld>> /\ zone' = 1
    BY <1>5 DEF MenuGoesOn, EndMenu, EndTick
  <2> HIDE DEF KeysKnown
  <2>2. keys' \subseteq unseen' \union zonesOld' /\ keys' \subseteq Zone
    BY <2>1, KeysAtRest, PlacesAre
  <2>3. \A z \in keys' : scene.zones[z] = "key"
    BY <2>1 DEF KeysKnown
  <2> QED BY <2>1, <2>2, <2>3, KeysEnd
<1>6. CASE MenuCloses
  <2>1. zone = 1 /\ UNCHANGED <<scene, keys, unseen, zonesOld>> /\ zone' = 1
    BY <1>6 DEF MenuCloses, EndMenu, EndTick
  <2> HIDE DEF KeysKnown
  <2>2. keys' \subseteq unseen' \union zonesOld' /\ keys' \subseteq Zone
    BY <2>1, KeysAtRest, PlacesAre
  <2>3. \A z \in keys' : scene.zones[z] = "key"
    BY <2>1 DEF KeysKnown
  <2> QED BY <2>1, <2>2, <2>3, KeysEnd
<1>7. CASE MenuOpensKeyboard
  BY <1>7 DEF MenuOpensKeyboard, OpenKeyboard
<1>8. CASE AfterMenuKeyboard
  <2>1. zone = 1 /\ UNCHANGED <<scene, keys, unseen, zonesOld>> /\ zone' = 1
    BY <1>8 DEF AfterMenuKeyboard, EndMenu, EndTick
  <2> HIDE DEF KeysKnown
  <2>2. keys' \subseteq unseen' \union zonesOld' /\ keys' \subseteq Zone
    BY <2>1, KeysAtRest, PlacesAre
  <2>3. \A z \in keys' : scene.zones[z] = "key"
    BY <2>1 DEF KeysKnown
  <2> QED BY <2>1, <2>2, <2>3, KeysEnd
<1>9. CASE KeyboardTold
  BY <1>9 DEF KeyboardTold, Goto
<1>10. CASE KeyboardClosed
  BY <1>10 DEF KeyboardClosed, Goto
<1>11. CASE ProcessZone
  <2>1. /\ zone \in 1 .. 4 /\ zone' = zone + 1
        /\ UNCHANGED <<scene, zones, zonesOld, unseen>>
    BY <1>11, PlacesAre DEF ProcessZone, OpenKeyboard
  <2>2. keys' = IF scene.zones[zone] # "key" \/ (zone \in zones) = (zone \in zonesOld) THEN keys
                ELSE IF zone \in zones THEN keys \union {zone} ELSE keys \ {zone}
    BY <1>11 DEF ProcessZone
  <2>3. SUFFICES ASSUME NEW z \in keys'
        PROVE  /\ scene.zones[z] = "key"
               /\ z \in unseen \/ z \in (IF z < zone + 1 THEN zones ELSE zonesOld)
    BY <2>1
  <2>4. z \in keys => /\ scene.zones[z] = "key" /\ z \in Zone
                      /\ z \in unseen \/ z \in (IF z < zone THEN zones ELSE zonesOld)
    BY PlacesAre
  <2>5. CASE z = zone
    BY <2>1, <2>2, <2>4, <2>5
  <2>6. CASE z # zone
    <3>1. z \in keys
      BY <2>2, <2>6
    <3>2. z < zone + 1 <=> z < zone
      BY <2>1, <2>4, <2>6, <3>1 DEF Zone
    <3> QED BY <2>4, <3>1, <3>2
  <2> QED BY <2>5, <2>6
<1>12. CASE ZonesDone
  BY <1>12 DEF ZonesDone, Goto
<1>13. CASE ProcessButtons
  <2>1. /\ tick = "buttons" /\ UNCHANGED <<scene, keys, zonesOld>>
        /\ IF overlay THEN unseen' = unseen \union (keys \ zonesOld) /\ zone' = 1
           ELSE UNCHANGED <<unseen, zone, zones>>
    BY <1>13 DEF ProcessButtons, EndTick, Goto
  <2>2. CASE overlay
    <3> HIDE DEF KeysKnown
    <3>1. keys' \subseteq unseen' \union zonesOld' /\ keys' \subseteq Zone
      BY <2>1, <2>2, PlacesAre
    <3>2. \A z \in keys' : scene.zones[z] = "key"
      BY <2>1 DEF KeysKnown
    <3> QED BY <2>1, <2>2, <3>1, <3>2, KeysEnd
  <2>3. CASE ~overlay
    BY <2>1, <2>3
  <2> QED BY <2>2, <2>3
<1>14. CASE ProcessTouch
  BY <1>14 DEF ProcessTouch, Goto
<1>15. CASE TouchZone
  BY <1>15 DEF TouchZone, TouchFrame, Goto
<1>16. CASE TouchDs4
  BY <1>16 DEF TouchDs4, TouchFrame, Goto
<1>17. CASE TouchTablet
  BY <1>17 DEF TouchTablet, TouchFrame, Goto
<1>18. CASE TouchAbsolute
  BY <1>18 DEF TouchAbsolute, TouchFrame, Goto
<1>19. CASE TouchRelative
  BY <1>19 DEF TouchRelative, TouchFrame, Goto
<1>20. CASE SendFrame
  <2>1. zone = 5 /\ zone' = 1 /\ zonesOld' = zones /\ UNCHANGED <<scene, keys, unseen>>
    BY <1>20 DEF SendFrame, EndTick
  <2>2. keys \subseteq unseen \union zones /\ keys \subseteq Zone
    BY <2>1, PlacesAre DEF Zone
  <2> HIDE DEF KeysKnown
  <2>3. \A z \in keys' : scene.zones[z] = "key"
    BY <2>1 DEF KeysKnown
  <2> QED BY <2>1, <2>2, <2>3, KeysEnd
<1>21. CASE Start
  BY <1>21 DEF Start, MutexFree, ResetShortcuts, ResetPs
<1>22. CASE BetweenStreams
  BY <1>22 DEF BetweenStreams
<1>23. ASSUME NEW t \in Thread, StopRequest(t)
     PROVE  KeysKnown'
  BY <1>23 DEF StopRequest, AskToClose
<1>24. ASSUME NEW t \in Thread, StopRelease(t)
     PROVE  KeysKnown'
  BY <1>24 DEF StopRelease, MutexFree, SendEmpty, ReleaseAll, ResetPs, ResetShortcuts
<1> QED BY <1>1, <1>2, <1>3, <1>4, <1>5, <1>6, <1>7, <1>8, <1>9, <1>10, <1>11, <1>12, <1>13, <1>14, <1>15, <1>16, <1>17, <1>18, <1>19, <1>20, <1>21, <1>22, <1>23, <1>24 DEF Next, Worker

LEMMA StepTyped == TypeOK /\ Next => TypeOK'
BY SampleTyped, ChordsTyped, MenuTyped, ZonesTyped, ButtonsTyped, TouchTyped, SendTyped,
   StartStopTyped DEF Next, Worker

LEMMA InitInv == Init => IInv
<1> SUFFICES ASSUME Init PROVE IInv
  OBVIOUS
<1>1. TypeOK
  BY InitTyped
<1>2. InPlace /\ PadKnown /\ GuideLocked /\ ReleasedWhenStopped
  BY DEF Init, InPlace, InMenu, FrameStage, PadKnown, GuideLocked, ReleasedWhenStopped
<1>3. MouseKnown /\ KeysKnown
  BY DEF Init, MouseKnown, Tapped, AbsoluteHeld, KeysKnown
<1> QED BY <1>1, <1>2, <1>3 DEF IInv

LEMMA StutterInv == IInv /\ UNCHANGED vars => IInv'
BY DEF IInv, TypeOK, InPlace, InMenu, PadKnown, GuideLocked, ReleasedWhenStopped, MouseKnown, Tapped,
  AbsoluteHeld, KeysKnown, vars, sample, chords, menu, ps, gesture, modes, sprinting, sent, control

\* The invariant, for every step.
THEOREM Inductive == Spec => []IInv
<1>1. IInv /\ Next => IInv'
  BY StepTyped, StepInPlace, StepPad, StepReleased, StepGuide, StepMouse, StepKeys DEF IInv
<1> QED BY InitInv, StutterInv, <1>1, PTL DEF Spec

-----------------------------------------------------------------------------
\* Type correctness of the worker, the touch machines and the host's view.
THEOREM Typed == Spec => []TypeOK
<1>1. IInv => TypeOK
  BY DEF IInv
<1> QED BY Inductive, <1>1, PTL

\* The press that closes the menu never reaches the host (the latch of
\* vitainput_process).
THEOREM ClosingSwallowed == Spec => []ClosingPressNotSent
<1>1. IInv => ClosingPressNotSent
  BY DEF IInv, PadKnown, ClosingPressNotSent
<1> QED BY Inductive, <1>1, PTL

\* The host's pad holds nothing but the last frame, and nothing under the menu.
THEOREM NothingSticks == Spec => []NothingStuck
<1>1. IInv => NothingStuck
  BY DEF IInv, PadKnown, NothingStuck
<1> QED BY Inductive, <1>1, PTL

\* vitainput_stop releases pad, contacts, drag and PS lock for good.
THEOREM Released == Spec => []ReleasedWhenStopped
<1>1. IInv => ReleasedWhenStopped
  BY DEF IInv
<1> QED BY Inductive, <1>1, PTL

\* A mouse button or key that is down is one that some machine will release.
THEOREM Remembered == Spec => []HeldIsKnown
<1>1. IInv => HeldIsKnown
  <2> SUFFICES ASSUME IInv PROVE HeldIsKnown
    OBVIOUS
  <2>1. mouse = Tapped \union AbsoluteHeld
    BY DEF IInv, MouseKnown
  <2>2. tick = "idle" => keys \subseteq zonesOld \union unseen
    BY KeysAtRest DEF IInv, InPlace
  <2> QED BY <2>1, <2>2 DEF HeldIsKnown
<1> QED BY Inductive, <1>1, PTL

\* The PS button belongs to the host or to the Vita's shell, never to both.
THEOREM OneOwner == Spec => []GuideOrShell
<1>1. IInv => GuideOrShell
  BY DEF IInv, GuideLocked, GuideOrShell, FrameStage
<1> QED BY Inductive, <1>1, PTL

\* Nothing is pressed or released on the host once input has stopped.
THEOREM Silent == Spec => QuietAfterStop
<1>1. IInv /\ [Next]_vars => [~active /\ ~active' => UNCHANGED <<hostPad, keys>>]_vars
  <2> SUFFICES ASSUME IInv, Next, ~active, ~active'
               PROVE  UNCHANGED <<hostPad, keys>>
    BY DEF vars
  <2>1. tick = "idle" /\ hostPad = {}
    BY DEF IInv, InPlace, ReleasedWhenStopped
  <2>2. \/ BetweenStreams \/ \E t \in Thread : StopRequest(t) \/ StopRelease(t)
    BY <2>1 DEF Next, Worker, Sample, PhysicalShortcut, ChordComplete, ChordGoesOn, MenuGoesOn,
      MenuCloses, MenuOpensKeyboard, AfterMenuKeyboard, KeyboardTold, KeyboardClosed, ProcessZone,
      ZonesDone, ProcessButtons, ProcessTouch, TouchZone, TouchDs4, TouchTablet, TouchAbsolute,
      TouchRelative, SendFrame, Start
  <2> QED BY <2>1, <2>2 DEF BetweenStreams, StopRequest, StopRelease, SendEmpty
<1> QED BY Inductive, <1>1, PTL DEF Spec, QuietAfterStop

-----------------------------------------------------------------------------
(* A stop waits for a tick that ends without the person.                   *)

Waiting == \E t \in Thread : stopping[t]

\* A stop that waits has told the keyboard to close.
Asked == Waiting => closeRequested

\* The steps a tick may still take: none of them opens the keyboard any more.
Ahead ==
  CASE tick = "idle" -> 0
    [] tick \in {"send", "menuKeyboard"} -> 1
    [] tick \in {"touch", "menu"} -> 2
    [] tick = "retouch" -> 3
    [] tick = "buttons" -> 4
    [] tick = "zones" -> 10 - zone
    [] tick \in {"chord", "keyboard"} -> 10
    [] tick = "shortcuts" -> 11

\* Every step of the worker brings the tick nearer to its end while a stop waits.
NearerToEnd == [][Waiting /\ Worker => Ahead' < Ahead]_vars

LEMMA StepAsked == ASSUME TypeOK, Asked, [Next]_vars PROVE Asked'
<1>. USE DEF Asked, Waiting
<1>1. CASE Start \/ BetweenStreams
  BY <1>1 DEF Start, BetweenStreams
<1>2. CASE \E t \in Thread : StopRequest(t) \/ StopRelease(t)
  BY <1>2 DEF TypeOK, StopRequest, StopRelease, AskToClose
<1>3. CASE Sample \/ Worker \/ KeyboardClosed \/ UNCHANGED vars
  <2>1. UNCHANGED control
    BY <1>3 DEF Worker, Sample, PhysicalShortcut, ChordComplete, ChordGoesOn, MenuGoesOn,
      MenuCloses, MenuOpensKeyboard, AfterMenuKeyboard, KeyboardTold, KeyboardClosed, ProcessZone,
      ZonesDone, ProcessButtons, ProcessTouch, TouchZone, TouchDs4, TouchTablet, TouchAbsolute,
      TouchRelative, SendFrame, TouchFrame, vars
  <2>. QED
    BY <2>1 DEF control
<1>. QED
  BY <1>1, <1>2, <1>3 DEF Next

LEMMA StepNearer ==
  ASSUME IInv, Asked, Waiting, Worker
  PROVE  Ahead' < Ahead
<1>1. closeRequested /\ zone \in 1 .. 5 /\ after \in {"zones", "menuKeyboard"}
  BY DEF Asked, IInv, TypeOK
<1>. USE DEF Ahead, Goto, EndTick, OpenKeyboard
<1>2. CASE PhysicalShortcut
  <2>1. tick = "shortcuts" /\ (OpenKeyboard("zones", 1) \/ Goto("chord"))
    BY <1>2, ShortcutDoes DEF IInv
  <2>. QED
    BY <1>1, <2>1
<1>3. CASE ChordComplete
  BY <1>3 DEF ChordComplete
<1>4. CASE ChordGoesOn
  <2>1. tick = "chord" /\ tick' = "zones" /\ zone' = zone
    BY <1>4 DEF ChordGoesOn
  <2>. QED
    BY <1>1, <2>1
<1>5. CASE MenuGoesOn \/ MenuCloses \/ AfterMenuKeyboard
  <2>1. tick \in {"menu", "menuKeyboard"} /\ tick' = "idle"
    BY <1>5 DEF MenuGoesOn, MenuCloses, AfterMenuKeyboard, EndMenu
  <2>. QED
    BY <2>1
<1>6. CASE MenuOpensKeyboard
  BY <1>1, <1>6 DEF MenuOpensKeyboard
<1>7. CASE KeyboardTold
  <2>1. tick = "keyboard" /\ tick' = after /\ zone' = zone
    BY <1>7 DEF KeyboardTold
  <2>. QED
    BY <1>1, <2>1
<1>8. CASE ProcessZone
  <2>1. tick = "zones" /\ tick' = "zones" /\ zone' = zone + 1
    BY <1>1, <1>8 DEF ProcessZone
  <2>. QED
    BY <1>1, <2>1
<1>9. CASE ZonesDone
  BY <1>9 DEF ZonesDone
<1>10. CASE ProcessButtons
  <2>1. tick = "buttons" /\ tick' \in {"idle", "retouch"}
    BY <1>10 DEF ProcessButtons
  <2>. QED
    BY <2>1
<1>11. CASE ProcessTouch
  BY <1>11 DEF ProcessTouch
<1>12. CASE TouchZone \/ TouchDs4 \/ TouchTablet \/ TouchAbsolute \/ TouchRelative
  <2>1. tick = "touch" /\ tick' = "send"
    BY <1>12 DEF TouchZone, TouchDs4, TouchTablet, TouchAbsolute, TouchRelative, TouchFrame
  <2>. QED
    BY <2>1
<1>13. CASE SendFrame
  BY <1>13 DEF SendFrame
<1>. QED
  BY <1>2, <1>3, <1>4, <1>5, <1>6, <1>7, <1>8, <1>9, <1>10, <1>11, <1>12, <1>13 DEF Worker

\* vitainput_stop waits for at most eleven steps of the worker, the keyboard's among them,
\* and for none of the person: the part of StopReturns that is not about scheduling.
THEOREM TickEnds == Spec => [](Asked /\ Ahead \in 0 .. 11) /\ NearerToEnd
<1>1. Init => Asked
  BY DEF Init, Asked, Waiting
<1>2. IInv /\ Asked /\ [Next]_vars => Asked'
  BY StepAsked DEF IInv
<1>3. IInv => Ahead \in 0 .. 11
  BY DEF IInv, TypeOK, Stage, Ahead
<1>4. IInv /\ Asked => [Waiting /\ Worker => Ahead' < Ahead]_vars
  BY StepNearer
<1>. QED
  BY <1>1, <1>2, <1>3, <1>4, Inductive, PTL DEF Spec, NearerToEnd
=============================================================================
