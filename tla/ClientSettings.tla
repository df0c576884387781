--------------------------- MODULE ClientSettings ---------------------------
(***************************************************************************)
(* What the Vita client keeps between runs about its controls: the custom   *)
(* controller map, saved through a journal of three files (mapping.c), the  *)
(* settings file, rewritten in place (config.c), the menus that change both *)
(* (ui_settings.c, ui_controller_mapper.c, ui_stream_overlay.c), and what   *)
(* the input of a stream is given of them (vitainput_config).               *)
(*                                                                         *)
(* One thread at a time runs these: the user interface between streams, and *)
(* the worker of the input, which serves the menu of a stream, during one   *)
(* (it is stopped whenever the user interface configures the input).  The   *)
(* program may end, and the power may fail, between any two file            *)
(* operations, each of which may fail; an operation of the file system that *)
(* has reported success is taken to be on the card.                         *)
(***************************************************************************)
CONSTANTS
  Map, Default,  \* controller maps, and the hardware's
  None, Torn     \* no such file; a file that is not complete

ASSUME SettingsAssumption ==
  /\ Default \in Map
  /\ None \notin Map /\ Torn \notin Map /\ None # Torn

VARIABLES
  live, bak, tmp,   \* the map's file and its siblings .bak and .tmp
  settings,         \* what a start would parse from the settings file
  config,           \* the global config
  active, swapped,  \* vita.c: the map in use; swap_shoulder_buttons
  screen,           \* where the person is
  pc, goal, target, \* the file operation under way, what it is for, and its map
  edit,             \* controller_mapping of the mapper's screen
  \* history
  kept,             \* the person's map: the first loaded or saved, then each one saved
                    \* from the mapper
  risked,           \* a complete map was taken for a missing one
  toggled,          \* the menu of the stream changed the mapping since ConfigureInput
  cutOff            \* the last rewriting of the settings did not reach the card whole

journal == <<live, bak, tmp>>
input == <<active, swapped>>
call == <<pc, goal, target>>
history == <<kept, risked, toggled, cutOff>>
vars == <<journal, settings, config, input, screen, call, edit, history>>

\* Of the settings only what the map depends on, and one other: its built-in
\* value or the person's.
Config == [current : BOOLEAN, mapping : BOOLEAN, swap : BOOLEAN, other : {"default", "chosen"}]
Defaults == [current |-> FALSE, mapping |-> FALSE, swap |-> FALSE, other |-> "default"]

Screen == {"off", "menu", "settings", "mapper", "stream"}
LoadStage == {"recover", "read", "cleanTmp", "cleanBak"}
SaveStage == {"repair", "open", "write", "dropBak", "backUp", "promote", "rollBack", "finish",
              "discard"}
ConfigStage == {"truncate", "flush", "close"}
Goal == {"none", "start", "stream", "enable", "mapper", "bind", "save"}

TypeOK ==
  /\ live \in Map \union {None} /\ bak \in Map \union {None}
  /\ tmp \in Map \union {None, Torn}
  /\ settings \in Config /\ config \in Config
  /\ active \in Map /\ swapped \in BOOLEAN
  /\ screen \in Screen
  /\ pc \in {"rest"} \union LoadStage \union SaveStage \union ConfigStage
  /\ goal \in Goal /\ target \in Map
  /\ edit \in Map
  /\ kept \in Map \union {None} 
  /\ risked \in BOOLEAN /\ toggled \in BOOLEAN /\ cutOff \in BOOLEAN

\* What a load finds: .bak is always the last known live map, and .tmp counts
\* when its last line is there.
Recovered == IF live # None THEN live
             ELSE IF bak # None THEN bak
             ELSE IF tmp # Torn THEN tmp ELSE None

Init ==
  /\ live = None /\ bak = None /\ tmp = None
  /\ settings = Defaults /\ config = Defaults
  /\ active = Default /\ swapped = FALSE
  /\ screen = "off" /\ pc = "rest" /\ goal = "none"
  /\ target = Default /\ edit = Default
  /\ kept = None /\ risked = FALSE /\ toggled = FALSE /\ cutOff = FALSE

-----------------------------------------------------------------------------
\* Calls and returns.
Goto(stage) == pc' = stage /\ UNCHANGED <<goal, target>>
Return == pc' = "rest" /\ goal' = "none" /\ target' = Default

Call(stage, for, map) ==
  /\ pc = "rest"
  /\ pc' = stage /\ goal' = for /\ target' = map

\* vitainput_config: the swap at once, the map after it is loaded.
ConfigureInput(for, conf) ==
  /\ swapped' = conf.swap /\ toggled' = FALSE
  /\ active' = IF conf.mapping THEN active ELSE Default
  /\ pc' = IF conf.mapping THEN "recover" ELSE "rest"
  /\ goal' = IF conf.mapping THEN for ELSE "none"
  /\ target' = Default

-----------------------------------------------------------------------------
\* mapping_load.
LoadReturns(found) ==
  CASE goal \in {"start", "stream"} ->
         /\ active' = IF found THEN target ELSE Default
         /\ Return
         /\ UNCHANGED <<config, swapped, screen, edit>>
    [] goal = "enable" /\ found ->
         /\ config' = [config EXCEPT !.mapping = TRUE, !.swap = FALSE]
         /\ swapped' = FALSE /\ active' = target
         /\ Return
         /\ UNCHANGED <<screen, edit>>
    [] goal = "mapper" /\ found ->
         /\ edit' = target /\ screen' = "mapper"
         /\ Return
         /\ UNCHANGED <<config, input>>
    [] OTHER ->
         /\ pc' = "repair" /\ target' = Default
         /\ UNCHANGED <<goal, config, input, screen, edit>>

\* A leftover of an interrupted save takes the live file's place if it can.
Recover ==
  /\ pc = "recover"
  /\ \/ live = None /\ bak # None /\ live' = bak /\ bak' = None /\ UNCHANGED tmp
     \/ live = None /\ bak = None /\ tmp \in Map /\ live' = tmp /\ tmp' = None /\ UNCHANGED bak
     \/ UNCHANGED journal
  /\ Goto("read")
  /\ UNCHANGED <<settings, config, input, screen, edit, history>>

\* The file is read, or the load fails: because there is none, or otherwise,
\* which prepare_mapping_file does not tell from it.
Read ==
  /\ pc = "read"
  /\ Recovered # None
  /\ target' = Recovered
  /\ kept' = IF kept = None THEN Recovered ELSE kept
  /\ pc' = IF live # None THEN "cleanTmp" ELSE "cleanBak"
  /\ UNCHANGED <<journal, settings, config, input, screen, goal, edit, risked, toggled, cutOff>>

ReadFails ==
  /\ pc = "read"
  /\ LoadReturns(FALSE)
  /\ risked' = (risked \/ (Recovered # None /\ goal \in {"enable", "mapper"}))
  /\ UNCHANGED <<journal, settings, kept, toggled, cutOff>>

\* The siblings are removed, if the live file could be loaded.
CleanTmp ==
  /\ pc = "cleanTmp"
  /\ tmp' \in {tmp, None}
  /\ Goto("cleanBak")
  /\ UNCHANGED <<live, bak, settings, config, input, screen, edit, history>>

\* Mutant: .bak goes although it is what was loaded.
CleanBakAlways ==
  /\ pc = "cleanBak"
  /\ bak' \in {bak, None}
  /\ LoadReturns(TRUE)
  /\ UNCHANGED <<live, tmp, settings, history>>

CleanBak ==
  /\ pc = "cleanBak"
  /\ bak' \in IF live # None THEN {bak, None} ELSE {bak}
  /\ LoadReturns(TRUE)
  /\ UNCHANGED <<live, tmp, settings, history>>

-----------------------------------------------------------------------------
\* mapping_save, of target.
SaveReturns(saved) ==
  /\ CASE saved /\ goal = "enable" ->
            /\ config' = [config EXCEPT !.mapping = TRUE, !.swap = FALSE]
            /\ swapped' = FALSE /\ active' = target
            /\ UNCHANGED <<screen, edit>>
       [] saved /\ goal = "mapper" ->
            /\ edit' = target /\ screen' = "mapper"
            /\ UNCHANGED <<config, input>>
       [] saved /\ goal = "bind" /\ config.mapping ->
            /\ config' = [config EXCEPT !.swap = FALSE]
            /\ swapped' = FALSE /\ active' = target
            /\ edit' = target
            /\ UNCHANGED screen
       [] saved /\ goal = "bind" /\ ~config.mapping ->
            /\ edit' = target
            /\ UNCHANGED <<config, input, screen>>
       [] OTHER -> UNCHANGED <<config, input, screen, edit>>
  /\ Return

SaveFails == SaveReturns(FALSE) /\ UNCHANGED kept

Repair ==
  /\ pc = "repair"
  /\ IF live = None /\ bak # None
     THEN \/ live' = bak /\ bak' = None /\ Goto("open")
             /\ UNCHANGED <<tmp, config, input, screen, edit, kept>>
          \/ SaveFails /\ UNCHANGED journal
     ELSE Goto("open") /\ UNCHANGED <<journal, config, input, screen, edit, kept>>
  /\ UNCHANGED <<settings, risked, toggled, cutOff>>

\* fopen(.., "w") empties an earlier .tmp, the only complete map perhaps.
Open ==
  /\ pc = "open"
  /\ \/ /\ tmp' = Torn /\ Goto("write")
        /\ risked' = (risked \/ (live = None /\ tmp \in Map))
        /\ UNCHANGED <<config, input, screen, edit, kept>>
     \/ SaveFails /\ UNCHANGED <<tmp, risked>>
  /\ UNCHANGED <<live, bak, settings, toggled, cutOff>>

\* Mutant: the result of the writing is not looked at.
WriteUnchecked ==
  /\ pc = "write"
  /\ tmp' \in {tmp, target}
  /\ Goto(IF live # None THEN "dropBak" ELSE "promote")
  /\ UNCHANGED <<live, bak, settings, config, input, screen, edit, history>>

Write ==
  /\ pc = "write"
  /\ \/ tmp' = target /\ Goto(IF live # None THEN "dropBak" ELSE "promote")
     \/ UNCHANGED tmp /\ Goto("discard")
  /\ UNCHANGED <<live, bak, settings, config, input, screen, edit, history>>

DropBak ==
  /\ pc = "dropBak"
  /\ \/ bak' = None /\ Goto("backUp")
     \/ bak # None /\ UNCHANGED bak /\ Goto("discard")
  /\ UNCHANGED <<live, tmp, settings, config, input, screen, edit, history>>

BackUp ==
  /\ pc = "backUp"
  /\ \/ bak' = live /\ live' = None /\ Goto("promote")
     \/ UNCHANGED <<live, bak>> /\ Goto("discard")
  /\ UNCHANGED <<tmp, settings, config, input, screen, edit, history>>

\* There is a .bak here exactly when there was a live file.
Promote ==
  /\ pc = "promote"
  /\ \/ /\ live' = tmp /\ tmp' = None /\ Goto("finish")
        /\ kept' = IF goal = "bind" \/ kept = None THEN target ELSE kept
     \/ UNCHANGED <<live, tmp, kept>> /\ Goto(IF bak # None THEN "rollBack" ELSE "discard")
  /\ UNCHANGED <<bak, settings, config, input, screen, edit, risked, toggled, cutOff>>

RollBack ==
  /\ pc = "rollBack"
  /\ \/ /\ live' = bak /\ bak' = None /\ Goto("discard")
        /\ UNCHANGED <<config, input, screen, edit, kept>>
     \/ SaveFails /\ UNCHANGED <<live, bak>>
  /\ UNCHANGED <<tmp, settings, risked, toggled, cutOff>>

Discard ==
  /\ pc = "discard"
  /\ tmp' \in {tmp, None}
  /\ SaveFails
  /\ UNCHANGED <<live, bak, settings, risked, toggled, cutOff>>

\* Mutant: a .bak that cannot be removed fails the save.
FinishStrictly ==
  /\ pc = "finish"
  /\ \/ bak' = None /\ SaveReturns(TRUE)
     \/ UNCHANGED bak /\ SaveReturns(FALSE)
  /\ UNCHANGED <<live, tmp, settings, history>>

Finish ==
  /\ pc = "finish"
  /\ bak' \in {bak, None}
  /\ SaveReturns(TRUE)
  /\ UNCHANGED <<live, tmp, settings, history>>

-----------------------------------------------------------------------------
\* config_save rewrites the file in place.  Only an open that fails ends the program:
\* no write is looked at, nor is the close.
Written(conf) == [conf EXCEPT !.current = TRUE]

\* The first buffer that stdio writes: the map's line is an early one.
FirstPart(conf) == [Defaults EXCEPT !.current = TRUE, !.mapping = conf.mapping]

Truncate ==
  /\ pc = "truncate"
  /\ settings' = Defaults /\ cutOff' = FALSE
  /\ Goto("flush")
  /\ UNCHANGED <<journal, config, input, screen, edit, kept, risked, toggled>>

\* On a full card a buffer is written in part or not at all.
Flush ==
  /\ pc = "flush"
  /\ \/ settings' = FirstPart(config) /\ UNCHANGED cutOff
     \/ settings' \in {settings, Written(Defaults)} /\ cutOff' = TRUE
  /\ Goto("close")
  /\ UNCHANGED <<journal, config, input, screen, edit, kept, risked, toggled>>

\* The rest of the file, and back to where the save was called from: the start goes
\* on with vitainput_config.
Close ==
  /\ pc = "close"
  /\ \/ settings' = [settings EXCEPT !.swap = config.swap, !.other = config.other]
        /\ UNCHANGED cutOff
     \/ settings' \in {settings, [settings EXCEPT !.swap = config.swap]} /\ cutOff' = TRUE
  /\ IF goal = "start" THEN ConfigureInput("start", config)
     ELSE Return /\ UNCHANGED <<input, toggled>>
  /\ screen' = IF goal = "start" THEN "menu" ELSE screen
  /\ UNCHANGED <<journal, config, edit, kept, risked>>

-----------------------------------------------------------------------------
\* The program starts: config_parse, which saves a file of an older version at
\* once, and vitainput_config.
Start ==
  /\ screen = "off"
  /\ config' = Written(settings)
  /\ IF settings.current THEN ConfigureInput("start", settings) /\ screen' = "menu"
     ELSE Call("truncate", "start", Default) /\ UNCHANGED <<input, screen, toggled>>
  /\ UNCHANGED <<journal, settings, edit, kept, risked, cutOff>>

\* The menus.  A category of the settings takes over the swap.
OpenSettings ==
  /\ screen = "menu" /\ pc = "rest"
  /\ screen' = "settings"
  /\ swapped' = config.swap
  /\ UNCHANGED <<journal, settings, config, active, call, edit, history>>

LeaveSettings ==
  /\ screen = "settings"
  /\ screen' = "menu"
  /\ Call("truncate", "save", Default)
  /\ UNCHANGED <<journal, settings, config, input, edit, history>>

ChangeOther ==
  /\ screen = "settings" /\ pc = "rest"
  /\ \E value \in {"default", "chosen"} : config' = [config EXCEPT !.other = value]
  /\ UNCHANGED <<journal, settings, input, screen, call, edit, history>>

\* ui_controller_mapping_set_enabled.
EnableMapping ==
  /\ screen = "settings" /\ ~config.mapping
  /\ Call("recover", "enable", Default)
  /\ UNCHANGED <<journal, settings, config, input, screen, edit, history>>

DisableMapping ==
  /\ screen = "settings" /\ pc = "rest" /\ config.mapping
  /\ config' = [config EXCEPT !.mapping = FALSE]
  /\ active' = Default
  /\ UNCHANGED <<journal, settings, swapped, screen, call, edit, history>>

\* The swap of the shoulder buttons and a map exclude each other.
ToggleSwap ==
  /\ screen = "settings" /\ pc = "rest"
  /\ swapped' = ~swapped
  /\ config' = [config EXCEPT !.swap = ~swapped, !.mapping = @ /\ swapped]
  /\ active' = IF ~swapped /\ config.mapping THEN Default ELSE active
  /\ UNCHANGED <<journal, settings, screen, call, edit, history>>

\* A controller profile, and the recommended settings.
ApplyProfile ==
  /\ screen = "settings"
  /\ config' = [config EXCEPT !.mapping = FALSE, !.swap = FALSE, !.other = "default"]
  /\ active' = Default /\ swapped' = FALSE
  /\ Call("truncate", "save", Default)
  /\ UNCHANGED <<journal, settings, screen, edit, history>>

\* The mapper's screen opens with the saved map, or with a new one.
OpenMapper ==
  /\ screen = "settings"
  /\ Call("recover", "mapper", Default)
  /\ UNCHANGED <<journal, settings, config, input, screen, edit, history>>

Bind ==
  /\ screen = "mapper"
  /\ \E map \in Map \ {edit} : Call("repair", "bind", map)
  /\ UNCHANGED <<journal, settings, config, input, screen, edit, history>>

LeaveMapper ==
  /\ screen = "mapper" /\ pc = "rest"
  /\ screen' = "settings" /\ edit' = Default
  /\ UNCHANGED <<journal, settings, config, input, call, history>>

\* A stream starts, or is reconnected.
BeginStream ==
  /\ screen \in {"menu", "stream"} /\ pc = "rest"
  /\ ConfigureInput("stream", config)
  /\ screen' = "stream"
  /\ UNCHANGED <<journal, settings, config, edit, kept, risked, cutOff>>

EndStream ==
  /\ screen = "stream" /\ pc = "rest"
  /\ screen' = "menu"
  /\ UNCHANGED <<journal, settings, config, input, call, edit, history>>

\* Mutant: the menu of the stream leaves the map on.
SwapKeepsMapping ==
  /\ screen = "stream"
  /\ config' = [config EXCEPT !.swap = ~@]
  /\ toggled' = TRUE
  /\ Call("truncate", "save", Default)
  /\ UNCHANGED <<journal, settings, input, screen, edit, kept, risked, cutOff>>

\* Mutant: it does not save.
SwapUnsaved ==
  /\ screen = "stream" /\ pc = "rest"
  /\ config' = [config EXCEPT !.swap = ~@, !.mapping = @ /\ config.swap]
  /\ toggled' = TRUE
  /\ UNCHANGED <<journal, settings, input, screen, call, edit, kept, risked, cutOff>>

\* The menu of the stream changes the settings; the input follows at a reconnect.
StreamSwap ==
  /\ screen = "stream"
  /\ config' = [config EXCEPT !.swap = ~@, !.mapping = @ /\ config.swap]
  /\ toggled' = TRUE
  /\ Call("truncate", "save", Default)
  /\ UNCHANGED <<journal, settings, input, screen, edit, kept, risked, cutOff>>

StreamProfile ==
  /\ screen = "stream"
  /\ config' = [config EXCEPT !.mapping = FALSE, !.swap = FALSE, !.other = "default"]
  /\ toggled' = TRUE
  /\ Call("truncate", "save", Default)
  /\ UNCHANGED <<journal, settings, input, screen, edit, kept, risked, cutOff>>

StreamOther ==
  /\ screen = "stream"
  /\ \E value \in {"default", "chosen"} : config' = [config EXCEPT !.other = value]
  /\ Call("truncate", "save", Default)
  /\ UNCHANGED <<journal, settings, input, screen, edit, history>>

\* The program ends or the power fails: the memory is gone.
Crash ==
  /\ screen # "off" \/ pc # "rest"
  /\ config' = Defaults /\ active' = Default /\ swapped' = FALSE
  /\ screen' = "off" /\ Return /\ edit' = Default /\ toggled' = FALSE /\ cutOff' = FALSE
  /\ UNCHANGED <<journal, settings, kept, risked>>

Load == Recover \/ Read \/ ReadFails \/ CleanTmp \/ CleanBak
Save == Repair \/ Open \/ Write \/ DropBak \/ BackUp \/ Promote \/ RollBack \/ Discard
        \/ Finish
SaveConfig == Truncate \/ Flush \/ Close
Menus == \/ OpenSettings \/ LeaveSettings \/ ChangeOther \/ EnableMapping \/ DisableMapping
         \/ ToggleSwap \/ ApplyProfile \/ OpenMapper \/ Bind \/ LeaveMapper
         \/ BeginStream \/ EndStream \/ StreamSwap \/ StreamProfile \/ StreamOther

Next == Start \/ Load \/ Save \/ SaveConfig \/ Menus \/ Crash

Spec == Init /\ [][Next]_vars

-----------------------------------------------------------------------------
\* The person's map is never lost: whatever operation fails and wherever the
\* program ends, the next load finds the map that the last successful save
\* wrote.  Not covered: an unreadable map that the menu takes for a missing one,
\* and a .tmp that a failed rename left as the only copy and a save then empties.
MappingSurvives == kept # None /\ ~risked => Recovered = kept

\* A custom map and the swap of the shoulder buttons never act together in a
\* stream, nor are both on in the settings, whichever menu changed them last.
OneRemapping ==
  /\ ~(config.mapping /\ config.swap)
  /\ ~(settings.mapping /\ settings.swap)
  /\ screen = "stream" /\ ~toggled => swapped = config.swap /\ (swapped => active = Default)

\* Back in the menu or in a stream, what was chosen is in the settings file, and
\* a start reads the same again, whichever menu changed it.  Not covered: a rewriting
\* of the file that a full card cut off, which config_save does not notice.
SettingsKept == screen \in {"menu", "stream"} /\ pc = "rest" /\ ~cutOff => settings = config

\* What stands for each part of MapPromise, as long as the promise stands: what the
\* next load finds, the mapper's screen, the target of its save, and the map that
\* the input of a stream was given.
Saved  == IF kept = None \/ risked THEN None ELSE Recovered
Shown  == IF screen = "mapper" /\ ~risked THEN edit ELSE None
Asked  == IF pc \in SaveStage /\ goal = "bind" /\ ~risked THEN target ELSE None
Played == IF screen = "stream" /\ pc \notin LoadStage /\ ~risked THEN active ELSE None

Promise == INSTANCE MapPromise
             WITH saved <- Saved, shown <- Shown, asked <- Asked, played <- Played, lost <- risked

\* The files, the menus and the streams implement the promise of a saved map: it is
\* what the next load finds, from the first one that was loaded or saved on; a save
\* of the mapper replaces it exactly when it reports success, a cut-off one as a
\* whole or not at all; the mapper shows it; and a stream plays with it or with the
\* hardware's.  An unreadable map that a menu takes for a missing one ends the promise.
KeepsMap == Promise!Spec
=============================================================================
