----------------------- MODULE ClientSettings_proofs -----------------------
(***************************************************************************)
(* All that the run checks of ClientSettings, for every set of maps: the    *)
(* types, the survival of the saved map, the exclusion of map and shoulder  *)
(* swap, and the agreement of the settings file with what was chosen.       *)
(***************************************************************************)
EXTENDS ClientSettings, TLAPS

\* Who may be in which file operation, and where the person waits for it.
Called ==
  /\ pc \in LoadStage => \/ goal = "start" /\ screen = "menu"
                         \/ goal = "stream" /\ screen = "stream"
                         \/ goal \in {"enable", "mapper"} /\ screen = "settings"
  /\ pc \in SaveStage => \/ goal \in {"enable", "mapper"} /\ screen = "settings"
                         \/ goal = "bind" /\ screen = "mapper"
  /\ pc \in ConfigStage => \/ goal = "start" /\ screen = "off"
                           \/ goal = "save" /\ screen \in {"menu", "settings", "stream"}

\* What each file operation finds.
InOrder ==
  /\ pc \in {"open", "write"} /\ live = None => bak = None
  /\ pc = "write" => tmp = Torn
  /\ pc \in {"cleanTmp", "dropBak", "backUp", "finish"} => live # None
  /\ pc \in {"dropBak", "backUp", "promote"} => tmp = target
  /\ pc \in {"promote", "rollBack"} => live = None
  /\ pc = "rollBack" => bak # None

\* A map that exists is only replaced by one from the mapper, and the last
\* complete file is only given up when it is not the person's.
NotGivenUp ==
  /\ pc \in {"repair", "open", "write", "dropBak", "backUp", "promote"} /\ goal # "bind" /\ ~risked
       => kept = None
  /\ pc \in {"promote", "discard"} /\ live = None /\ bak = None /\ ~risked => kept = None

\* What the memory, the file and the input of a stream say of each other.
Agreed ==
  /\ screen # "off" \/ pc # "rest" => config.current
  /\ screen \in {"menu", "stream"} /\ pc \notin ConfigStage /\ ~cutOff => settings = config
  /\ pc = "flush" => settings = Defaults /\ ~cutOff
  /\ pc = "close" /\ ~cutOff => settings = FirstPart(config)
  /\ pc = "close" => ~settings.swap /\ (settings.mapping => config.mapping)
  /\ pc \in LoadStage /\ goal \in {"start", "stream"} => config.mapping

USE SettingsAssumption
-----------------------------------------------------------------------------
(* The settings, as records.                                               *)

\* What is written to the file and read back is a configuration, and the map
\* and the swap are as they were.
LEMMA WrittenIs ==
  ASSUME NEW conf \in Config
  PROVE  /\ Written(conf) \in Config /\ Written(conf).current
         /\ Written(conf).mapping = conf.mapping /\ Written(conf).swap = conf.swap
         /\ conf.current => Written(conf) = conf
BY DEF Written, Config

\* The first part of the file never has a swap, and with the rest it is the whole.
LEMMA FirstPartIs ==
  ASSUME NEW conf \in Config
  PROVE  /\ FirstPart(conf) \in Config /\ ~FirstPart(conf).swap
         /\ FirstPart(conf).mapping = conf.mapping
         /\ conf.current =>
              [FirstPart(conf) EXCEPT !.swap = conf.swap, !.other = conf.other] = conf
BY DEF FirstPart, Config, Defaults

\* Of the rest, what reaches the card is a configuration with the map as it was.
LEMMA RestIs ==
  ASSUME NEW conf \in Config, NEW file \in Config, NEW result,
         \/ result = [file EXCEPT !.swap = conf.swap, !.other = conf.other]
         \/ result = [file EXCEPT !.swap = conf.swap]
         \/ result = file
  PROVE  /\ result \in Config /\ result.mapping = file.mapping
         /\ result.swap = conf.swap \/ result.swap = file.swap
BY DEF Config

LEMMA DefaultsAre == Defaults \in Config /\ ~Defaults.swap /\ ~Defaults.mapping
BY DEF Config, Defaults

\* The least that a full card may leave of it.
LEMMA EmptyPartIs ==
  Written(Defaults) \in Config /\ ~Written(Defaults).swap /\ ~Written(Defaults).mapping
BY DefaultsAre, WrittenIs

\* What a load finds is a map, unless there is none.
LEMMA RecoveredIs == TypeOK /\ Recovered # None => Recovered \in Map
BY DEF TypeOK, Recovered

\* What a menu or the end of an operation makes of the settings is one.
LEMMA ConfigChanges ==
  ASSUME NEW conf \in Config
  PROVE  /\ [conf EXCEPT !.mapping = TRUE, !.swap = FALSE] \in Config
         /\ [conf EXCEPT !.mapping = FALSE] \in Config
         /\ [conf EXCEPT !.swap = FALSE] \in Config
         /\ [conf EXCEPT !.mapping = FALSE, !.swap = FALSE, !.other = "default"] \in Config
         /\ \A value \in {"default", "chosen"} : [conf EXCEPT !.other = value] \in Config
         /\ \A on, map \in BOOLEAN : [conf EXCEPT !.swap = on, !.mapping = map] \in Config
BY DEF Config

-----------------------------------------------------------------------------
(* Type correctness.                                                       *)

LEMMA InitTyped == Init => TypeOK
BY DefaultsAre DEF Init, TypeOK, Screen, Goal

\* The end of a load keeps the types.
LEMMA LoadReturnsTyped ==
  ASSUME TypeOK, NEW found \in BOOLEAN, LoadReturns(found)
  PROVE  /\ config' \in Config /\ active' \in Map /\ swapped' \in BOOLEAN /\ edit' \in Map
         /\ screen' \in Screen /\ goal' \in Goal /\ target' \in Map
         /\ pc' \in {"rest"} \union LoadStage \union SaveStage \union ConfigStage
<1> USE DEF TypeOK
<1>1. CASE goal \in {"start", "stream"}
  BY <1>1 DEF LoadReturns, Return, Goal
<1>2. CASE goal = "enable" /\ found
  BY <1>2, ConfigChanges DEF LoadReturns, input, Return, Goal
<1>3. CASE goal = "mapper" /\ found
  BY <1>3 DEF LoadReturns, input, Return, Goal, Screen
<1>4. CASE goal \notin {"start", "stream"} /\ ~(goal = "enable" /\ found) /\ ~(goal = "mapper" /\ found)
  BY <1>4 DEF LoadReturns, input, SaveStage
<1> QED BY <1>1, <1>2, <1>3, <1>4

\* So does the end of a save.
LEMMA SaveReturnsTyped ==
  ASSUME TypeOK, NEW saved \in BOOLEAN, SaveReturns(saved)
  PROVE  /\ config' \in Config /\ active' \in Map /\ swapped' \in BOOLEAN /\ edit' \in Map
         /\ screen' \in Screen /\ goal' \in Goal /\ target' \in Map
         /\ pc' = "rest"
<1> USE DEF TypeOK
<1>1. goal' \in Goal /\ target' \in Map /\ pc' = "rest"
  BY DEF SaveReturns, Return, Goal
<1>2. CASE saved /\ goal = "enable"
  BY <1>1, <1>2, ConfigChanges DEF SaveReturns, input
<1>3. CASE saved /\ goal = "mapper"
  BY <1>1, <1>3 DEF SaveReturns, input, Screen
<1>4. CASE saved /\ goal = "bind" /\ config.mapping
  BY <1>1, <1>4, ConfigChanges DEF SaveReturns, input
<1>5. CASE saved /\ goal = "bind" /\ ~config.mapping
  BY <1>1, <1>5 DEF SaveReturns, input
<1>6. CASE ~saved \/ goal \notin {"enable", "mapper", "bind"}
  BY <1>1, <1>6 DEF SaveReturns, input
<1> QED BY <1>2, <1>3, <1>4, <1>5, <1>6

\* The steps of a load keep the types.
LEMMA LoadTyped ==
  ASSUME TypeOK, InOrder, Load
  PROVE  TypeOK'
<1>1. CASE Recover
  BY <1>1 DEF Recover, TypeOK, journal, input, history, Goto, LoadStage
<1>2. CASE Read
  BY <1>2, RecoveredIs DEF Read, TypeOK, journal, input, LoadStage
<1>3. CASE ReadFails
  <2>1. risked' \in BOOLEAN
    BY <1>3, Zenon DEF ReadFails
  <2> QED BY <1>3, <2>1, LoadReturnsTyped DEF ReadFails, TypeOK, journal
<1>4. CASE CleanTmp
  BY <1>4 DEF CleanTmp, TypeOK, input, history, Goto, LoadStage
<1>5. CASE CleanBak
  BY <1>5, LoadReturnsTyped DEF CleanBak, TypeOK, history
<1> QED BY <1>1, <1>2, <1>3, <1>4, <1>5 DEF Load

\* The steps of a save keep the types: what becomes the live file is complete.
LEMMA SaveTyped ==
  ASSUME TypeOK, InOrder, Save
  PROVE  TypeOK'
<1>0. ASSUME SaveFails
      PROVE  /\ config' \in Config /\ active' \in Map /\ swapped' \in BOOLEAN /\ edit' \in Map
             /\ screen' \in Screen /\ goal' \in Goal /\ target' \in Map
             /\ pc' = "rest" /\ kept' = kept
  BY <1>0, SaveReturnsTyped DEF SaveFails
<1>1. CASE Repair
  BY <1>0, <1>1 DEF Repair, TypeOK, journal, input, Goto, SaveStage
<1>2. CASE Open
  <2>1. risked' \in BOOLEAN
    BY <1>2, Zenon DEF Open, TypeOK
  <2> QED BY <1>0, <1>2, <2>1 DEF Open, TypeOK, input, Goto, SaveStage
<1>3. CASE Write
  BY <1>3 DEF Write, TypeOK, input, history, Goto, SaveStage
<1>4. CASE DropBak
  BY <1>4 DEF DropBak, TypeOK, input, history, Goto, SaveStage
<1>5. CASE BackUp
  BY <1>5 DEF BackUp, TypeOK, InOrder, input, history, Goto, SaveStage
<1>6. CASE Promote
  BY <1>6 DEF Promote, TypeOK, InOrder, input, Goto, SaveStage
<1>7. CASE RollBack
  BY <1>0, <1>7 DEF RollBack, TypeOK, InOrder, input, Goto, SaveStage
<1>8. CASE Discard
  BY <1>0, <1>8 DEF Discard, TypeOK
<1>9. CASE Finish
  BY <1>9, SaveReturnsTyped DEF Finish, TypeOK, history
<1> QED BY <1>1, <1>2, <1>3, <1>4, <1>5, <1>6, <1>7, <1>8, <1>9 DEF Save

\* The rewriting of the settings file, the start and a crash keep the types.
LEMMA ConfigTyped ==
  ASSUME TypeOK, SaveConfig \/ Start \/ Crash
  PROVE  TypeOK'
<1>1. CASE Truncate
  BY <1>1, DefaultsAre DEF Truncate, TypeOK, journal, input, history, Goto, ConfigStage
<1>2. CASE Flush
  <2>1. \/ settings' = FirstPart(config) /\ cutOff' = cutOff
        \/ settings' = settings /\ cutOff' = TRUE
        \/ settings' = Written(Defaults) /\ cutOff' = TRUE
    BY <1>2 DEF Flush
  <2>2. settings' \in Config
    BY <2>1, FirstPartIs, EmptyPartIs DEF TypeOK
  <2>3. cutOff' \in BOOLEAN
    BY <2>1, Zenon DEF TypeOK
  <2> QED BY <1>2, <2>2, <2>3 DEF Flush, TypeOK, journal, input, Goto, ConfigStage
<1>3. CASE Close
  <2>1. settings' \in Config /\ cutOff' \in BOOLEAN
    BY <1>3, RestIs DEF Close, TypeOK
  <2>2. CASE goal = "start"
    <3>1. config.swap \in BOOLEAN
      BY DEF TypeOK, Config
    <3>2. swapped' \in BOOLEAN /\ toggled' \in BOOLEAN
      BY <1>3, <2>2, <3>1, Zenon DEF Close, ConfigureInput
    <3> QED BY <1>3, <2>1, <2>2, <3>2
            DEF Close, TypeOK, journal, ConfigureInput, LoadStage, Goal, Screen
  <2>3. CASE goal # "start"
    BY <1>3, <2>1, <2>3 DEF Close, TypeOK, journal, input, Return, Goal
  <2> QED BY <2>2, <2>3
<1>4. CASE Start
  <2>1. config' \in Config
    BY <1>4, WrittenIs DEF Start, TypeOK
  <2>2. CASE settings.current
    <3>1. settings.swap \in BOOLEAN
      BY DEF TypeOK, Config
    <3>2. swapped' \in BOOLEAN /\ toggled' \in BOOLEAN
      BY <1>4, <2>2, <3>1, Zenon DEF Start, ConfigureInput
    <3> QED BY <1>4, <2>1, <2>2, <3>2
            DEF Start, TypeOK, journal, ConfigureInput, LoadStage, Goal, Screen
  <2>3. CASE ~settings.current
    BY <1>4, <2>1, <2>3 DEF Start, TypeOK, journal, input, Call, ConfigStage, Goal
  <2> QED BY <2>2, <2>3
<1>5. CASE Crash
  BY <1>5, DefaultsAre DEF Crash, TypeOK, journal, Return, Goal, Screen
<1> QED BY <1>1, <1>2, <1>3, <1>4, <1>5 DEF SaveConfig

\* The menus of the settings and of the mapper keep the types.
LEMMA SettingsTyped ==
  ASSUME TypeOK,
         OpenSettings \/ LeaveSettings \/ ChangeOther \/ EnableMapping \/ DisableMapping
           \/ ToggleSwap \/ ApplyProfile \/ OpenMapper \/ Bind \/ LeaveMapper
  PROVE  TypeOK'
<1> USE DEF TypeOK, journal, input, call, history
<1>1. CASE OpenSettings
  BY <1>1 DEF OpenSettings, Screen, Config
<1>2. CASE LeaveSettings
  BY <1>2 DEF LeaveSettings, Screen, Call, ConfigStage, Goal
<1>3. CASE ChangeOther
  BY <1>3, ConfigChanges DEF ChangeOther
<1>4. CASE EnableMapping
  BY <1>4 DEF EnableMapping, Call, LoadStage, Goal
<1>5. CASE DisableMapping
  BY <1>5, ConfigChanges DEF DisableMapping
<1>6. CASE ToggleSwap
  <2>1. swapped' \in BOOLEAN
    BY <1>6, Zenon DEF ToggleSwap
  <2>2. config' \in Config
    <3>1. (~swapped) \in BOOLEAN /\ (config.mapping /\ swapped) \in BOOLEAN
      BY Zenon
    <3>2. config' = [config EXCEPT !.swap = ~swapped, !.mapping = config.mapping /\ swapped]
      BY <1>6 DEF ToggleSwap, Config
    <3> QED BY <3>1, <3>2, ConfigChanges, Zenon
  <2> QED BY <1>6, <2>1, <2>2 DEF ToggleSwap
<1>7. CASE ApplyProfile
  BY <1>7, ConfigChanges DEF ApplyProfile, Call, ConfigStage, Goal
<1>8. CASE OpenMapper
  BY <1>8 DEF OpenMapper, Call, LoadStage, Goal
<1>9. CASE Bind
  BY <1>9 DEF Bind, Call, SaveStage, Goal
<1>10. CASE LeaveMapper
  BY <1>10 DEF LeaveMapper, Screen
<1> QED BY <1>1, <1>2, <1>3, <1>4, <1>5, <1>6, <1>7, <1>8, <1>9, <1>10

\* A stream and its menu keep the types.
LEMMA StreamTyped ==
  ASSUME TypeOK,
         BeginStream \/ EndStream \/ StreamSwap \/ StreamProfile \/ StreamOther
  PROVE  TypeOK'
<1> USE DEF TypeOK, journal, input, call, history
<1>1. CASE BeginStream
  <2>1. config.swap \in BOOLEAN
    BY DEF Config
  <2>2. swapped' \in BOOLEAN /\ toggled' \in BOOLEAN
    BY <1>1, <2>1, Zenon DEF BeginStream, ConfigureInput
  <2> QED BY <1>1, <2>2 DEF BeginStream, ConfigureInput, LoadStage, Goal, Screen
<1>2. CASE EndStream
  BY <1>2 DEF EndStream, Screen
<1>3. CASE StreamSwap
  <2>1. (~config.swap) \in BOOLEAN /\ (config.mapping /\ config.swap) \in BOOLEAN
    BY Zenon
  <2>2. config' = [config EXCEPT !.swap = ~config.swap, !.mapping = config.mapping /\ config.swap]
    BY <1>3 DEF StreamSwap, Config
  <2>3. config' \in Config
    BY <2>1, <2>2, ConfigChanges, Zenon
  <2> QED BY <1>3, <2>3 DEF StreamSwap, Call, ConfigStage, Goal
<1>4. CASE StreamProfile
  BY <1>4, ConfigChanges DEF StreamProfile, Call, ConfigStage, Goal
<1>5. CASE StreamOther
  BY <1>5, ConfigChanges DEF StreamOther, Call, ConfigStage, Goal
<1> QED BY <1>1, <1>2, <1>3, <1>4, <1>5

\* Every step keeps the types.
LEMMA StepTyped ==
  ASSUME TypeOK, InOrder, [Next]_vars
  PROVE  TypeOK'
<1>1. CASE UNCHANGED vars
  BY <1>1 DEF TypeOK, vars, journal, input, call, history
<1> QED BY <1>1, LoadTyped, SaveTyped, ConfigTyped, SettingsTyped, StreamTyped DEF Next, Menus

-----------------------------------------------------------------------------
(* The person's map.                                                       *)

Journal == Called /\ InOrder /\ NotGivenUp /\ MappingSurvives

LEMMA InitJournal == Init => Journal
BY DEF Init, Journal, Called, InOrder, NotGivenUp, MappingSurvives, LoadStage, SaveStage, ConfigStage

\* The end of a load: the caller goes on, or a save of the built-in map begins.
LEMMA LoadReturnsTo ==
  ASSUME TypeOK, Called, pc \in LoadStage, NEW found \in BOOLEAN, LoadReturns(found)
  PROVE  \/ pc' = "rest"
         \/ pc' = "repair" /\ ~found /\ goal' = goal /\ goal \in {"enable", "mapper"}
              /\ screen' = screen /\ screen = "settings"
<1>1. goal \in {"start", "stream", "enable", "mapper"}
  BY DEF Called
<1>2. CASE goal \in {"start", "stream"}
  BY <1>2 DEF LoadReturns, Return
<1>3. CASE goal = "enable"
  BY <1>3 DEF LoadReturns, Return, Called
<1>4. CASE goal = "mapper"
  BY <1>4 DEF LoadReturns, Return, Called
<1> QED BY <1>1, <1>2, <1>3, <1>4

\* A load leaves the person's map where the next one finds it.
LEMMA LoadJournal ==
  ASSUME TypeOK, Journal, Load
  PROVE  Journal'
<1> USE DEF Journal, Called, InOrder, NotGivenUp, MappingSurvives, LoadStage, SaveStage, ConfigStage
<1>1. CASE Recover
  BY <1>1 DEF Recover, TypeOK, Recovered, journal, input, history, Goto
<1>2. CASE Read
  BY <1>2 DEF Read, Recovered, journal, input
<1>3. CASE ReadFails
  <2>1. pc \in LoadStage
    BY <1>3 DEF ReadFails
  <2>2. \/ pc' = "rest"
        \/ pc' = "repair" /\ goal' = goal /\ goal \in {"enable", "mapper"}
             /\ screen' = screen /\ screen = "settings"
    BY <1>3, <2>1, LoadReturnsTo DEF ReadFails
  <2>3. MappingSurvives' /\ ((~risked)' => ~risked)
    BY <1>3 DEF ReadFails, Recovered, journal
  <2>4. pc' = "repair" /\ (~risked)' => kept' = None
    BY <1>3, <2>2 DEF ReadFails, Recovered, journal
  <2> QED BY <2>2, <2>3, <2>4
<1>4. CASE CleanTmp
  BY <1>4 DEF CleanTmp, Recovered, input, history, Goto
<1>5. CASE CleanBak
  <2>1. pc' = "rest"
    BY <1>5, LoadReturnsTo DEF CleanBak
  <2> QED BY <1>5, <2>1 DEF CleanBak, Recovered, history
<1> QED BY <1>1, <1>2, <1>3, <1>4, <1>5 DEF Load

\* Neither does a save lose it, until it has put a newer one in its place.
LEMMA SaveJournal ==
  ASSUME TypeOK, Journal, Save
  PROVE  Journal'
<1> USE DEF Journal, Called, InOrder, NotGivenUp, MappingSurvives, LoadStage, SaveStage, ConfigStage
<1>0. SaveFails => pc' = "rest" /\ kept' = kept
  BY DEF SaveFails, SaveReturns, Return
<1>1. CASE Repair
  BY <1>0, <1>1 DEF Repair, Recovered, journal, input, Goto
<1>2. CASE Open
  BY <1>0, <1>2 DEF Open, TypeOK, Recovered, input, Goto
<1>3. CASE Write
  BY <1>3 DEF Write, TypeOK, Recovered, input, history, Goto
<1>4. CASE DropBak
  BY <1>4 DEF DropBak, Recovered, input, history, Goto
<1>5. CASE BackUp
  BY <1>5 DEF BackUp, Recovered, input, history, Goto
<1>6. CASE Promote
  BY <1>6 DEF Promote, TypeOK, Recovered, input, Goto
<1>7. CASE RollBack
  BY <1>0, <1>7 DEF RollBack, Recovered, input, Goto
<1>8. CASE Discard
  BY <1>0, <1>8 DEF Discard, Recovered
<1>9. CASE Finish
  BY <1>9 DEF Finish, SaveReturns, Return, Recovered, history
<1> QED BY <1>1, <1>2, <1>3, <1>4, <1>5, <1>6, <1>7, <1>8, <1>9 DEF Save

\* Everything else leaves the files of the map alone.
LEMMA OthersJournal ==
  ASSUME TypeOK, Journal, SaveConfig \/ Start \/ Crash \/ Menus
  PROVE  Journal'
<1>1. UNCHANGED <<live, bak, tmp, kept, risked>>
  BY DEF SaveConfig, Truncate, Flush, Close, Start, Crash, Menus, OpenSettings, LeaveSettings,
         ChangeOther, EnableMapping, DisableMapping, ToggleSwap, ApplyProfile, OpenMapper, Bind,
         LeaveMapper, BeginStream, EndStream, StreamSwap, StreamProfile, StreamOther,
         journal, history
<1>2. Recovered' = Recovered
  BY <1>1 DEF Recovered
<1>3. Called' /\ (pc' \in SaveStage => pc' = "repair" /\ goal' = "bind") /\ pc' # "cleanTmp"
  <2> USE DEF Journal, Called, LoadStage, SaveStage, ConfigStage
  <2>1. CASE SaveConfig
    BY <2>1 DEF SaveConfig, Truncate, Flush, Close, Goto, ConfigureInput, Return
  <2>2. CASE Start
    BY <2>2 DEF Start, ConfigureInput, Call
  <2>3. CASE Crash
    BY <2>3 DEF Crash, Return
  <2>4. CASE OpenSettings \/ LeaveSettings \/ ChangeOther \/ EnableMapping \/ DisableMapping
    BY <2>4 DEF OpenSettings, LeaveSettings, ChangeOther, EnableMapping, DisableMapping, Call, call
  <2>5. CASE ToggleSwap \/ ApplyProfile \/ OpenMapper \/ Bind \/ LeaveMapper
    BY <2>5 DEF ToggleSwap, ApplyProfile, OpenMapper, Bind, LeaveMapper, Call, call
  <2>6. CASE BeginStream \/ EndStream \/ StreamSwap \/ StreamProfile \/ StreamOther
    BY <2>6 DEF BeginStream, EndStream, StreamSwap, StreamProfile, StreamOther, ConfigureInput,
                Call, call
  <2> QED BY <2>1, <2>2, <2>3, <2>4, <2>5, <2>6 DEF Menus
<1> QED BY <1>1, <1>2, <1>3
        DEF Journal, InOrder, NotGivenUp, MappingSurvives, SaveStage

LEMMA StepJournal ==
  ASSUME TypeOK, Journal, [Next]_vars
  PROVE  Journal'
<1>1. CASE UNCHANGED vars
  BY <1>1 DEF Journal, Called, InOrder, NotGivenUp, MappingSurvives, Recovered, vars, journal,
              input, call, history
<1> QED BY <1>1, LoadJournal, SaveJournal, OthersJournal DEF Next

-----------------------------------------------------------------------------
(* The settings, the memory and the input of a stream.                     *)

Settled == Agreed /\ OneRemapping

LEMMA InitSettled == Init => Settled
BY DefaultsAre DEF Init, Settled, Agreed, OneRemapping, LoadStage, ConfigStage

\* Only the loads that a start or a stream began end in the menu or the stream.
LEMMA LoadSettled ==
  ASSUME TypeOK, Called, Settled, Load
  PROVE  Settled'
<1> USE DEF Settled, Agreed, OneRemapping, Called, LoadStage, SaveStage, ConfigStage
<1>0. /\ config.mapping \in BOOLEAN /\ config.swap \in BOOLEAN
      /\ [config EXCEPT !.mapping = TRUE, !.swap = FALSE].current = config.current
      /\ [config EXCEPT !.mapping = TRUE, !.swap = FALSE].swap = FALSE
  BY DEF TypeOK, Config
<1>1. CASE Recover \/ Read \/ CleanTmp
  BY <1>1 DEF Recover, Read, CleanTmp, Goto, input, journal, history
<1>2. ASSUME NEW found \in BOOLEAN, LoadReturns(found), pc \in LoadStage,
             UNCHANGED <<settings, toggled, cutOff>>
      PROVE  Settled'
  <2>1. CASE goal \in {"start", "stream"}
    <3>1. UNCHANGED <<config, swapped, screen>> /\ pc' = "rest"
      BY <1>2, <2>1 DEF LoadReturns, Return
    <3>2. screen \in {"menu", "stream"} /\ config.mapping
      BY <1>2, <2>1
    <3> QED BY <1>0, <1>2, <2>1, <3>1, <3>2
  <2>2. CASE goal = "enable" /\ found
    BY <1>0, <1>2, <2>2 DEF LoadReturns, Return
  <2>3. CASE goal = "mapper" /\ found
    BY <1>0, <1>2, <2>3 DEF LoadReturns, Return, input
  <2>4. CASE goal \in {"enable", "mapper"} /\ ~found
    BY <1>0, <1>2, <2>4 DEF LoadReturns, input
  <2> QED BY <1>2, <2>1, <2>2, <2>3, <2>4
<1>3. CASE ReadFails
  BY <1>2, <1>3 DEF ReadFails
<1>4. CASE CleanBak
  BY <1>2, <1>4 DEF CleanBak, history
<1> QED BY <1>1, <1>3, <1>4 DEF Load

\* A save of the map runs in the menus of the settings only.
LEMMA SaveSettled ==
  ASSUME TypeOK, Called, Settled, Save
  PROVE  Settled'
<1> USE DEF Settled, Agreed, OneRemapping, Called, LoadStage, SaveStage, ConfigStage
<1>0. /\ [config EXCEPT !.mapping = TRUE, !.swap = FALSE].current = config.current
      /\ [config EXCEPT !.mapping = TRUE, !.swap = FALSE].swap = FALSE
      /\ [config EXCEPT !.swap = FALSE].current = config.current
      /\ [config EXCEPT !.swap = FALSE].swap = FALSE
  BY DEF TypeOK, Config
<1>1. pc \in SaveStage /\ UNCHANGED settings
  BY DEF Save, Repair, Open, Write, DropBak, BackUp, Promote, RollBack, Discard, Finish
<1>2. ASSUME UNCHANGED <<config, input, screen>>, pc' \in SaveStage \/ pc' = "rest", screen # "off"
      PROVE  Settled'
  BY <1>1, <1>2 DEF input
<1>3. ASSUME NEW saved \in BOOLEAN, SaveReturns(saved)
      PROVE  Settled'
  <2>0. pc' = "rest"
    BY <1>3 DEF SaveReturns, Return
  <2>1. CASE saved /\ goal = "enable"
    BY <1>0, <1>1, <1>3, <2>0, <2>1 DEF SaveReturns
  <2>2. CASE saved /\ goal = "mapper"
    BY <1>1, <1>3, <2>0, <2>2 DEF SaveReturns, input
  <2>3. CASE saved /\ goal = "bind" /\ config.mapping
    BY <1>0, <1>1, <1>3, <2>0, <2>3 DEF SaveReturns
  <2>4. CASE ~saved \/ goal \notin {"enable", "mapper", "bind"} \/ (goal = "bind" /\ ~config.mapping)
    BY <1>1, <1>2, <1>3, <2>0, <2>4 DEF SaveReturns, input
  <2> QED BY <1>3, <2>1, <2>2, <2>3, <2>4
<1>4. SaveFails => Settled'
  BY <1>3 DEF SaveFails
<1>5. screen # "off"
  BY <1>1
<1>6. CASE Repair
  BY <1>2, <1>4, <1>5, <1>6 DEF Repair, Goto, journal
<1>7. CASE Open
  BY <1>2, <1>4, <1>5, <1>7 DEF Open, Goto
<1>8. CASE Write \/ DropBak \/ BackUp \/ Promote
  BY <1>2, <1>5, <1>8 DEF Write, DropBak, BackUp, Promote, Goto
<1>9. CASE RollBack
  BY <1>2, <1>4, <1>5, <1>9 DEF RollBack, Goto
<1>10. CASE Discard \/ Finish
  BY <1>3, <1>4, <1>10 DEF Discard, Finish
<1> QED BY <1>6, <1>7, <1>8, <1>9, <1>10 DEF Save

\* The settings file says what was chosen when its last part is written.
LEMMA ConfigSettled ==
  ASSUME TypeOK, Called, Settled, SaveConfig \/ Start \/ Crash
  PROVE  Settled'
<1> USE DEF Settled, Agreed, OneRemapping, Called, LoadStage, SaveStage, ConfigStage
<1>1. CASE Truncate
  BY <1>1, DefaultsAre DEF Truncate, Goto, input, history
<1>2. CASE Flush
  <2>1. settings \in Config /\ config \in Config /\ settings = Defaults
    BY <1>2 DEF Flush, TypeOK
  <2>2. /\ ~settings'.swap /\ (settings'.mapping => config.mapping)
        /\ ~cutOff' => settings' = FirstPart(config)
    <3>1. CASE settings' = FirstPart(config)
      BY <2>1, <3>1, FirstPartIs
    <3>2. CASE cutOff' = TRUE /\ (settings' = settings \/ settings' = Written(Defaults))
      BY <2>1, <3>2, EmptyPartIs, DefaultsAre
    <3> QED BY <1>2, <3>1, <3>2 DEF Flush
  <2> QED BY <1>2, <2>2 DEF Flush, Goto, input
<1>3. CASE Close
  <2>0. settings \in Config /\ config \in Config /\ config.current
    BY <1>3 DEF Close, TypeOK
  <2>1. /\ ~cutOff' => settings' = config
        /\ ~(settings'.mapping /\ settings'.swap) /\ UNCHANGED config
    <3>0. /\ settings'.mapping = settings.mapping
          /\ settings'.swap = config.swap \/ settings'.swap = settings.swap
      <4>1. \/ settings' = [settings EXCEPT !.swap = config.swap, !.other = config.other]
            \/ settings' = [settings EXCEPT !.swap = config.swap]
            \/ settings' = settings
        BY <1>3 DEF Close
      <4> QED BY <2>0, <4>1, RestIs
    <3>1. ~(settings'.mapping /\ settings'.swap)
      BY <1>3, <3>0 DEF Close
    <3>2. ~cutOff' => settings' = config
      <4>1. CASE cutOff' = TRUE
        BY <4>1
      <4>2. CASE settings' = [settings EXCEPT !.swap = config.swap, !.other = config.other]
                 /\ cutOff' = cutOff
        <5>1. ~cutOff => settings = FirstPart(config)
          BY <1>3 DEF Close
        <5> QED BY <2>0, <4>2, <5>1, FirstPartIs
      <4> QED BY <1>3, <4>1, <4>2 DEF Close
    <3> QED BY <1>3, <3>1, <3>2 DEF Close
  <2>2. CASE goal = "start"
    BY <1>3, <2>1, <2>2 DEF Close, ConfigureInput
  <2>3. CASE goal # "start"
    BY <1>3, <2>1, <2>3 DEF Close, Return, input
  <2> QED BY <2>2, <2>3
<1>4. CASE Start
  <2>1. /\ config'.current /\ ~(config'.mapping /\ config'.swap)
        /\ config'.mapping = settings.mapping /\ UNCHANGED settings
        /\ settings.current => settings = config'
    BY <1>4, WrittenIs DEF Start, TypeOK
  <2>2. CASE settings.current
    BY <1>4, <2>1, <2>2 DEF Start, ConfigureInput
  <2>3. CASE ~settings.current
    BY <1>4, <2>1, <2>3 DEF Start, Call
  <2> QED BY <2>2, <2>3
<1>5. CASE Crash
  BY <1>5, DefaultsAre DEF Crash, Return
<1> QED BY <1>1, <1>2, <1>3, <1>4, <1>5 DEF SaveConfig

\* The settings' menus turn the one off when they turn the other on.
LEMMA SettingsSettled ==
  ASSUME TypeOK, Called, Settled,
         OpenSettings \/ LeaveSettings \/ ChangeOther \/ EnableMapping \/ DisableMapping
           \/ ToggleSwap \/ ApplyProfile \/ OpenMapper \/ Bind \/ LeaveMapper
  PROVE  Settled'
<1> USE DEF Settled, Agreed, OneRemapping, LoadStage, ConfigStage
<1>0. config \in Config
  BY DEF TypeOK
<1>1. CASE OpenSettings \/ LeaveSettings \/ LeaveMapper
  BY <1>1 DEF OpenSettings, LeaveSettings, LeaveMapper, Call, call, input, history, Called
<1>2. CASE EnableMapping \/ OpenMapper \/ Bind
  BY <1>2 DEF EnableMapping, OpenMapper, Bind, Call, input, history
<1>3. CASE ChangeOther
  <2>1. PICK value \in {"default", "chosen"} : config' = [config EXCEPT !.other = value]
    BY <1>3 DEF ChangeOther
  <2>2. /\ config'.current = config.current
        /\ config'.mapping = config.mapping /\ config'.swap = config.swap
    BY <1>0, <2>1 DEF Config
  <2> QED BY <1>3, <2>2 DEF ChangeOther, call, input, history
<1>4. CASE DisableMapping
  <2>1. config'.current = config.current /\ ~config'.mapping
    BY <1>0, <1>4 DEF DisableMapping, Config
  <2> QED BY <1>4, <2>1 DEF DisableMapping, call, history
<1>5. CASE ToggleSwap
  <2>1. /\ config'.current = config.current
        /\ config'.swap = ~swapped /\ config'.mapping = (config.mapping /\ swapped)
    BY <1>0, <1>5 DEF ToggleSwap, Config
  <2> QED BY <1>5, <2>1 DEF ToggleSwap, call, history
<1>6. CASE ApplyProfile
  <2>1. config'.current = config.current /\ ~config'.mapping
    BY <1>0, <1>6 DEF ApplyProfile, Config
  <2> QED BY <1>6, <2>1 DEF ApplyProfile, Call, history
<1> QED BY <1>1, <1>2, <1>3, <1>4, <1>5, <1>6

\* So does the menu of a stream, whose input follows at the next start.
LEMMA StreamSettled ==
  ASSUME TypeOK, Called, Settled,
         BeginStream \/ EndStream \/ StreamSwap \/ StreamProfile \/ StreamOther
  PROVE  Settled'
<1> USE DEF Settled, Agreed, OneRemapping, LoadStage, ConfigStage
<1>0. config \in Config
  BY DEF TypeOK
<1>1. CASE BeginStream
  BY <1>1 DEF BeginStream, ConfigureInput
<1>2. CASE EndStream
  BY <1>2 DEF EndStream, call, input, history
<1>3. CASE StreamSwap
  <2>1. /\ config'.current = config.current
        /\ config'.swap = ~config.swap /\ config'.mapping = (config.mapping /\ config.swap)
    BY <1>0, <1>3 DEF StreamSwap, Config
  <2> QED BY <1>3, <2>1 DEF StreamSwap, Call, input
<1>4. CASE StreamProfile
  <2>1. config'.current = config.current /\ ~config'.mapping
    BY <1>0, <1>4 DEF StreamProfile, Config
  <2> QED BY <1>4, <2>1 DEF StreamProfile, Call, input
<1>5. CASE StreamOther
  <2>1. PICK value \in {"default", "chosen"} : config' = [config EXCEPT !.other = value]
    BY <1>5 DEF StreamOther
  <2>2. /\ config'.current = config.current
        /\ config'.mapping = config.mapping /\ config'.swap = config.swap
    BY <1>0, <2>1 DEF Config
  <2> QED BY <1>5, <2>2 DEF StreamOther, Call, input, history
<1> QED BY <1>1, <1>2, <1>3, <1>4, <1>5

LEMMA StepSettled ==
  ASSUME TypeOK, Called, Settled, [Next]_vars
  PROVE  Settled'
<1>1. CASE UNCHANGED vars
  BY <1>1 DEF Settled, Agreed, OneRemapping, vars, input, call, history
<1> QED BY <1>1, LoadSettled, SaveSettled, ConfigSettled, SettingsSettled, StreamSettled
        DEF Next, Menus

-----------------------------------------------------------------------------
(* The saved map is the register that MapPromise describes.                *)

\* The mapper's screen shows the person's map, and asks for another one.
Edited ==
  /\ screen = "mapper" /\ ~risked => kept # None /\ (pc # "finish" => edit = kept)
  /\ pc \in SaveStage /\ goal = "bind" => target # edit

\* A load that has read a map, and a save that has put it in place, hold the
\* person's map.
Holds == pc \in {"cleanTmp", "cleanBak", "finish"} /\ ~risked => kept = target

Mapped == Edited /\ Holds

LEMMA InitMapped == Init => Mapped
BY DEF Init, Mapped, Edited, Holds, SaveStage

\* A load holds what the next one would find.
LEMMA LoadMapped ==
  ASSUME TypeOK, Journal, Mapped, Load
  PROVE  Mapped'
<1> USE DEF Journal, Called, MappingSurvives, Mapped, Edited, Holds, LoadStage, SaveStage, ConfigStage
<1>1. CASE Recover
  BY <1>1 DEF Recover, input, history, Goto
<1>2. CASE Read
  BY <1>2 DEF Read, input
<1>3. CASE CleanTmp
  BY <1>3 DEF CleanTmp, input, history, Goto
<1>4. ASSUME NEW found \in BOOLEAN, LoadReturns(found), pc \in LoadStage, UNCHANGED kept,
             risked => risked', found => pc = "cleanBak" /\ UNCHANGED risked
      PROVE  Mapped'
  <2>1. \/ pc' = "rest"
        \/ pc' = "repair" /\ ~found /\ goal' = goal /\ goal \in {"enable", "mapper"}
             /\ screen' = screen /\ screen = "settings"
    BY <1>4, LoadReturnsTo
  <2>2. screen' = "mapper" /\ ~risked' => edit' = kept /\ kept # None
    BY <1>4 DEF LoadReturns, TypeOK
  <2> QED BY <1>4, <2>1, <2>2
<1>5. CASE ReadFails
  BY <1>4, <1>5 DEF ReadFails
<1>6. CASE CleanBak
  BY <1>4, <1>6 DEF CleanBak, history
<1> QED BY <1>1, <1>2, <1>3, <1>5, <1>6 DEF Load

\* A save ends with the mapper showing the person's map.
LEMMA SaveMapped ==
  ASSUME TypeOK, Journal, Mapped, Save
  PROVE  Mapped'
<1> USE DEF Journal, Called, Mapped, Edited, Holds, LoadStage, SaveStage, ConfigStage
<1>0. SaveFails => /\ pc' = "rest" /\ UNCHANGED <<kept, screen, edit>>
  BY DEF SaveFails, SaveReturns, Return, input
<1>1. CASE Repair
  BY <1>0, <1>1 DEF Repair, input, Goto
<1>2. CASE Open
  BY <1>0, <1>2 DEF Open, input, Goto
<1>3. CASE Write
  BY <1>3 DEF Write, input, history, Goto
<1>4. CASE DropBak
  BY <1>4 DEF DropBak, input, history, Goto
<1>5. CASE BackUp
  BY <1>5 DEF BackUp, input, history, Goto
<1>6. CASE Promote
  BY <1>6 DEF Promote, input, Goto, NotGivenUp, TypeOK
<1>7. CASE RollBack
  BY <1>0, <1>7 DEF RollBack, input, Goto
<1>8. CASE Discard
  BY <1>0, <1>8 DEF Discard
<1>9. CASE Finish
  BY <1>9 DEF Finish, SaveReturns, Return, input, history, TypeOK
<1> QED BY <1>1, <1>2, <1>3, <1>4, <1>5, <1>6, <1>7, <1>8, <1>9 DEF Save

\* Nothing else opens the mapper, or changes what it shows, but its own menu.
LEMMA OthersMapped ==
  ASSUME TypeOK, Journal, Mapped, SaveConfig \/ Start \/ Crash \/ Menus
  PROVE  Mapped'
<1> USE DEF Journal, Called, Mapped, Edited, Holds, LoadStage, SaveStage, ConfigStage
<1>1. CASE SaveConfig
  BY <1>1 DEF SaveConfig, Truncate, Flush, Close, Goto, ConfigureInput, Return, history
<1>2. CASE Start
  BY <1>2 DEF Start, ConfigureInput, Call
<1>3. CASE Crash
  BY <1>3 DEF Crash, Return
<1>4. CASE OpenSettings \/ LeaveSettings \/ ChangeOther \/ EnableMapping \/ DisableMapping
  BY <1>4 DEF OpenSettings, LeaveSettings, ChangeOther, EnableMapping, DisableMapping, Call, call,
              history
<1>5. CASE ToggleSwap \/ ApplyProfile \/ OpenMapper \/ LeaveMapper
  BY <1>5 DEF ToggleSwap, ApplyProfile, OpenMapper, LeaveMapper, Call, call, history
<1>6. CASE Bind
  BY <1>6 DEF Bind, Call, history
<1>7. CASE BeginStream \/ EndStream \/ StreamSwap \/ StreamProfile \/ StreamOther
  BY <1>7 DEF BeginStream, EndStream, StreamSwap, StreamProfile, StreamOther, ConfigureInput,
              Call, call, history
<1> QED BY <1>1, <1>2, <1>3, <1>4, <1>5, <1>6, <1>7 DEF Menus

LEMMA StepMapped ==
  ASSUME TypeOK, Journal, Mapped, [Next]_vars
  PROVE  Mapped'
<1>1. CASE UNCHANGED vars
  BY <1>1 DEF Mapped, Edited, Holds, vars, call, history
<1> QED BY <1>1, LoadMapped, SaveMapped, OthersMapped DEF Next

\* A map taken for a missing one ends the promise for good.
LEMMA LostStays ==
  ASSUME [Next]_vars, risked
  PROVE  risked'
BY DEF Next, vars, history, Start, Load, Recover, Read, ReadFails, CleanTmp, CleanBak,
       Save, Repair, Open, Write, DropBak, BackUp, Promote, RollBack, Discard, Finish,
       SaveConfig, Truncate, Flush, Close, Menus, OpenSettings, LeaveSettings, ChangeOther,
       EnableMapping, DisableMapping, ToggleSwap, ApplyProfile, OpenMapper, Bind, LeaveMapper,
       BeginStream, EndStream, StreamSwap, StreamProfile, StreamOther, Crash

\* What an action of the promise may do, while it stands, in terms of the program.
Kept == <<kept, Shown, Asked, Played>>

LEMMA PromiseStands ==
  ASSUME TypeOK, TypeOK', MappingSurvives, MappingSurvives', ~risked, ~risked'
  PROVE  /\ UNCHANGED Kept => UNCHANGED Promise!vars
         /\ Saved = kept /\ Saved' = kept'
         /\ risked' = risked
<1>1. Saved = kept /\ Saved' = kept'
  BY DEF MappingSurvives, Saved
<1>2. risked' = risked
  BY Zenon DEF TypeOK
<1> QED BY <1>1, <1>2 DEF Promise!vars, Kept

\* A load adopts a map that was there, opens the mapper or gives a stream its map.
LEMMA LoadPromise ==
  ASSUME TypeOK, TypeOK', Journal, Journal', Mapped, Load, ~risked, ~risked'
  PROVE  Promise!Next \/ UNCHANGED Promise!vars
<1> USE DEF Called, LoadStage, SaveStage
<1>0. /\ UNCHANGED Kept => UNCHANGED Promise!vars
      /\ Saved = kept /\ Saved' = kept' /\ UNCHANGED risked
  BY PromiseStands DEF Journal
<1>1. CASE Recover \/ CleanTmp
  <2>1. UNCHANGED Kept
    BY <1>1 DEF Recover, CleanTmp, Kept, Shown, Asked, Played, input, history, Goto
  <2> QED BY <1>0, <2>1
<1>2. CASE Read
  <2>1. UNCHANGED <<Shown, Asked, Played>> /\ Shown = None /\ Played = None
    BY <1>2 DEF Read, Shown, Asked, Played, input, Journal
  <2>2. kept' = kept \/ (kept = None /\ kept' \in Map)
    BY <1>2, RecoveredIs DEF Read
  <2>3. CASE kept' = kept
    BY <1>0, <2>1, <2>3 DEF Kept
  <2>4. CASE kept = None /\ kept' \in Map
    BY <1>0, <2>1, <2>4 DEF Promise!Next, Promise!Adopt
  <2> QED BY <2>2, <2>3, <2>4
<1>3. ASSUME NEW found \in BOOLEAN, LoadReturns(found), pc \in LoadStage, UNCHANGED kept,
             found => pc = "cleanBak"
      PROVE  Promise!Next \/ UNCHANGED Promise!vars
  <2>1. Asked = None /\ Shown = None /\ Played = None
    BY <1>3 DEF Asked, Shown, Played, Journal
  <2>2. Asked' = None
    BY <1>3, LoadReturnsTo DEF Asked, Journal
  <2>3. found => kept = target /\ kept # None
    BY <1>3 DEF Mapped, Holds, TypeOK
  <2>4. CASE goal = "stream"
    <3>1. screen' = "stream" /\ pc' = "rest" /\ active' \in {Default, kept}
      BY <1>3, <2>3, <2>4 DEF LoadReturns, Return, Journal
    <3>2. Shown' = None /\ Played' \in {Default, kept}
      BY <3>1 DEF Shown, Played
    <3> QED BY <1>0, <1>3, <2>1, <2>2, <3>2 DEF Promise!Next, Promise!Play
  <2>5. CASE goal = "mapper" /\ found
    <3>1. Shown' = kept /\ Played' = None
      BY <1>3, <2>3, <2>5 DEF LoadReturns, Return, Shown, Played
    <3> QED BY <1>0, <1>3, <2>1, <2>2, <2>3, <2>5, <3>1 DEF Promise!Next, Promise!Open
  <2>6. CASE goal # "stream" /\ ~(goal = "mapper" /\ found)
    <3>1. screen' = screen /\ screen \in {"menu", "settings"}
      BY <1>3, <2>6 DEF LoadReturns, Journal
    <3>2. Shown' = None /\ Played' = None
      BY <3>1 DEF Shown, Played
    <3> QED BY <1>0, <1>3, <2>1, <2>2, <3>2 DEF Kept
  <2> QED BY <2>4, <2>5, <2>6
<1>4. CASE ReadFails
  BY <1>3, <1>4 DEF ReadFails
<1>5. CASE CleanBak
  BY <1>3, <1>5 DEF CleanBak, history
<1> QED BY <1>1, <1>2, <1>4, <1>5 DEF Load

\* A save commits when the file is renamed into place, and then succeeds; it fails
\* only before that.
LEMMA SavePromise ==
  ASSUME TypeOK, TypeOK', Journal, Journal', Mapped, Save, ~risked, ~risked'
  PROVE  Promise!Next \/ UNCHANGED Promise!vars
<1> USE DEF Called, LoadStage, SaveStage
<1>0. /\ UNCHANGED Kept => UNCHANGED Promise!vars
      /\ Saved = kept /\ Saved' = kept' /\ UNCHANGED risked
  BY PromiseStands DEF Journal
<1>1. pc \in SaveStage /\ screen \in {"settings", "mapper"} /\ Played = None
  BY DEF Save, Repair, Open, Write, DropBak, BackUp, Promote, RollBack, Discard, Finish,
         Played, Journal
<1>2. goal # "bind" => Asked = None /\ Shown = None
  BY <1>1 DEF Asked, Shown, Journal
<1>3. goal = "bind" => Asked = target /\ Asked # None /\ Shown = edit /\ Asked # Shown
  BY <1>1 DEF Asked, Shown, Journal, TypeOK, Mapped, Edited
<1>4. ASSUME UNCHANGED <<kept, config, input, screen, edit, goal, target>>, pc' \in SaveStage
      PROVE  UNCHANGED Promise!vars
  BY <1>0, <1>1, <1>4 DEF Kept, Shown, Asked, Played, input
<1>5. ASSUME SaveFails, pc # "finish"
      PROVE  Promise!Next \/ UNCHANGED Promise!vars
  <2>1. UNCHANGED <<kept, screen, edit>> /\ pc' = "rest"
    BY <1>5 DEF SaveFails, SaveReturns, Return, input
  <2>2. Shown' = Shown /\ Asked' = None /\ Played' = Played
    BY <1>1, <2>1 DEF Shown, Asked, Played
  <2>3. CASE goal = "bind"
    <3>1. Saved = Shown
      BY <1>0, <1>1, <1>3, <1>5, <2>3 DEF Mapped, Edited, Journal
    <3> QED BY <1>0, <1>3, <2>1, <2>2, <2>3, <3>1 DEF Promise!Next, Promise!Fail
  <2>4. CASE goal # "bind"
    BY <1>0, <1>2, <2>1, <2>2, <2>4 DEF Kept
  <2> QED BY <2>3, <2>4
<1>6. CASE Repair
  BY <1>4, <1>5, <1>6 DEF Repair, Goto, journal
<1>7. CASE Open
  BY <1>4, <1>5, <1>7 DEF Open, Goto
<1>8. CASE Write \/ DropBak \/ BackUp
  BY <1>4, <1>8 DEF Write, DropBak, BackUp, Goto, history
<1>9. CASE Promote
  <2>1. CASE kept' = kept
    BY <1>4, <1>9, <2>1 DEF Promote, Goto
  <2>2. CASE kept' # kept
    <3>1. kept' = target /\ pc' = "finish" /\ UNCHANGED <<screen, edit, goal, target>>
      BY <1>9, <2>2 DEF Promote, Goto
    <3>2. UNCHANGED <<Shown, Asked, Played>>
      BY <1>1, <3>1 DEF Shown, Asked, Played
    <3>3. CASE goal = "bind"
      <4>1. Saved = Shown
        BY <1>0, <1>1, <1>3, <1>9, <3>3 DEF Mapped, Edited, Journal, Promote
      <4> QED BY <1>0, <1>3, <3>1, <3>2, <3>3, <4>1 DEF Promise!Next, Promise!Commit
    <3>4. CASE goal # "bind"
      <4>1. kept = None
        BY <1>9, <3>4 DEF Promote, Journal, NotGivenUp
      <4> QED BY <1>0, <1>1, <1>2, <3>1, <3>2, <3>4, <4>1 DEF Promise!Next, Promise!Adopt, TypeOK
    <3> QED BY <3>3, <3>4
  <2> QED BY <2>1, <2>2
<1>10. CASE RollBack
  BY <1>4, <1>5, <1>10 DEF RollBack, Goto
<1>11. CASE Discard
  BY <1>5, <1>11 DEF Discard
<1>12. CASE Finish
  <2>1. kept = target /\ kept' = kept /\ kept # None /\ pc' = "rest"
    BY <1>12 DEF Finish, SaveReturns, Return, history, Mapped, Holds, TypeOK
  <2>2. Asked' = None
    BY <2>1 DEF Asked
  <2>3. CASE goal = "bind"
    <3>1. screen' = screen /\ screen = "mapper" /\ edit' = target
      BY <1>1, <1>12, <2>3 DEF Finish, SaveReturns, Journal
    <3>2. Shown' = target /\ Played' = None
      BY <3>1 DEF Shown, Played
    <3> QED BY <1>0, <1>1, <1>3, <2>1, <2>2, <2>3, <3>2 DEF Promise!Next, Promise!Succeed
  <2>4. CASE goal = "mapper"
    <3>1. screen' = "mapper" /\ edit' = target
      BY <1>12, <2>4 DEF Finish, SaveReturns
    <3>2. Shown' = target /\ Played' = None
      BY <3>1 DEF Shown, Played
    <3> QED BY <1>0, <1>1, <1>2, <2>1, <2>2, <2>4, <3>2 DEF Promise!Next, Promise!Open
  <2>5. CASE goal = "enable"
    <3>1. screen' = "settings"
      BY <1>1, <1>12, <2>5 DEF Finish, SaveReturns, Journal
    <3>2. Shown' = None /\ Played' = None
      BY <3>1 DEF Shown, Played
    <3> QED BY <1>0, <1>1, <1>2, <2>1, <2>2, <2>5, <3>2 DEF Kept
  <2> QED BY <1>1, <2>3, <2>4, <2>5 DEF Journal
<1> QED BY <1>6, <1>7, <1>8, <1>9, <1>10, <1>11, <1>12 DEF Save

\* The menus ask for a save, leave the mapper, and start and end streams.
LEMMA OthersPromise ==
  ASSUME TypeOK, TypeOK', Journal, Journal', Mapped, SaveConfig \/ Start \/ Crash \/ Menus, ~risked, ~risked'
  PROVE  Promise!Next \/ UNCHANGED Promise!vars
<1> USE DEF Called, LoadStage, SaveStage, ConfigStage
<1>0. /\ UNCHANGED Kept => UNCHANGED Promise!vars
      /\ Saved = kept /\ Saved' = kept' /\ UNCHANGED risked
  BY PromiseStands DEF Journal
<1>1. kept' = kept
  BY DEF SaveConfig, Truncate, Flush, Close, Start, Crash, Menus, OpenSettings, LeaveSettings,
         ChangeOther, EnableMapping, DisableMapping, ToggleSwap, ApplyProfile, OpenMapper, Bind,
         LeaveMapper, BeginStream, EndStream, StreamSwap, StreamProfile, StreamOther, history
<1>2. CASE SaveConfig
  <2>1. Asked' = Asked /\ Shown' = Shown /\ Played' = Played
    BY <1>2 DEF SaveConfig, Truncate, Flush, Close, Goto, ConfigureInput, Return, input, history,
                Asked, Shown, Played, Journal
  <2> QED BY <1>0, <1>1, <2>1 DEF Kept
<1>3. CASE Start
  <2>1. Asked' = Asked /\ Shown' = Shown /\ Played' = Played
    BY <1>3 DEF Start, ConfigureInput, Call, input, Asked, Shown, Played, Journal
  <2> QED BY <1>0, <1>1, <2>1 DEF Kept
<1>4. CASE Crash
  <2>1. Asked' = None /\ Shown' = None /\ Played' = None
    BY <1>4 DEF Crash, Return, Asked, Shown, Played
  <2> QED BY <1>0, <1>1, <2>1 DEF Promise!Next, Promise!Crash
<1>5. CASE OpenSettings \/ LeaveSettings \/ ChangeOther \/ EnableMapping \/ DisableMapping
             \/ ToggleSwap \/ ApplyProfile \/ OpenMapper
  <2>1. screen \in {"menu", "settings"} /\ screen' \in {"menu", "settings"} /\ Asked = None /\ Asked' = None
    BY <1>5 DEF OpenSettings, LeaveSettings, ChangeOther, EnableMapping, DisableMapping,
                ToggleSwap, ApplyProfile, OpenMapper, Call, call, Asked
  <2>2. UNCHANGED <<Asked, Shown, Played>>
    BY <2>1 DEF Shown, Played
  <2> QED BY <1>0, <1>1, <2>2 DEF Kept
<1>6. CASE Bind
  <2>1. Played = None /\ Played' = None /\ Shown = edit /\ Shown' = Shown /\ Asked = None
    BY <1>6 DEF Bind, Call, Shown, Played, Asked
  <2>2. Asked' \in Map \ {Shown} /\ Shown # None
    BY <1>6, <2>1 DEF Bind, Call, Asked, TypeOK
  <2> QED BY <1>0, <1>1, <2>1, <2>2 DEF Promise!Next, Promise!Ask
<1>7. CASE LeaveMapper
  <2>1. Played = None /\ Played' = None /\ Shown' = None /\ Asked = None /\ Asked' = None
    BY <1>7 DEF LeaveMapper, call, Shown, Played, Asked
  <2> QED BY <1>0, <1>1, <2>1 DEF Promise!Next, Promise!Leave
<1>8. CASE BeginStream
  <2>1. Shown = None /\ Shown' = None /\ Asked = None /\ Asked' = None
    BY <1>8 DEF BeginStream, ConfigureInput, Shown, Asked
  <2>2. Played' \in {None, Default}
    BY <1>8 DEF BeginStream, ConfigureInput, Played
  <2> QED BY <1>0, <1>1, <2>1, <2>2 DEF Promise!Next, Promise!Play, Promise!EndStream
<1>9. CASE EndStream
  <2>1. Shown = None /\ Shown' = None /\ Asked = None /\ Asked' = None /\ Played' = None
    BY <1>9 DEF EndStream, call, Shown, Asked, Played
  <2> QED BY <1>0, <1>1, <2>1 DEF Promise!Next, Promise!EndStream
<1>10. CASE StreamSwap \/ StreamProfile \/ StreamOther
  <2>1. UNCHANGED <<Shown, Asked, Played>>
    BY <1>10 DEF StreamSwap, StreamProfile, StreamOther, Call, input, Shown, Asked, Played
  <2> QED BY <1>0, <1>1, <2>1 DEF Kept
<1> QED BY <1>2, <1>3, <1>4, <1>5, <1>6, <1>7, <1>8, <1>9, <1>10 DEF Menus

\* Every step is a step of the promise or leaves it alone.
LEMMA StepPromise ==
  ASSUME TypeOK, TypeOK', Journal, Journal', Mapped, [Next]_vars
  PROVE  [Promise!Next]_(Promise!vars)
<1>1. CASE risked'
  <2>1. Saved' = None /\ Shown' = None /\ Asked' = None /\ Played' = None
    BY <1>1 DEF Saved, Shown, Asked, Played
  <2>2. risked' = TRUE
    BY <1>1 DEF TypeOK
  <2> QED BY <2>1, <2>2 DEF Promise!Next, Promise!Lose
<1>2. CASE ~risked'
  <2>1. ~risked
    BY <1>2, LostStays
  <2>2. CASE UNCHANGED vars
    BY <2>2 DEF vars, journal, call, input, history, Promise!vars, Saved, Shown, Asked, Played, Recovered
  <2> QED BY <1>2, <2>1, <2>2, LoadPromise, SavePromise, OthersPromise DEF Next
<1> QED BY <1>1, <1>2

-----------------------------------------------------------------------------
(* The theorems.                                                           *)

\* The invariant: types, what each file operation finds, and the agreement of
\* file, memory and input.
IInv == TypeOK /\ Journal /\ Settled

THEOREM Inductive == Spec => []IInv
<1>1. Init => IInv
  BY InitTyped, InitJournal, InitSettled DEF IInv
<1>2. IInv /\ [Next]_vars => IInv'
  BY StepTyped, StepJournal, StepSettled DEF IInv, Journal
<1> QED BY <1>1, <1>2, PTL DEF Spec

\* No incomplete map ever becomes the live file or the map in use.
THEOREM Typed == Spec => []TypeOK
BY Inductive, PTL DEF IInv

\* The saved map survives every failure and every end of the program (mapping.c).
THEOREM MapSurvives == Spec => []MappingSurvives
<1>1. IInv => MappingSurvives
  BY DEF IInv, Journal
<1> QED BY <1>1, Inductive, PTL

\* A map and the shoulder swap never act together (ui_settings.c,
\* ui_controller_mapper.c, ui_stream_overlay.c, vitainput_config).
THEOREM NeverBoth == Spec => []OneRemapping
<1>1. IInv => OneRemapping
  BY DEF IInv, Settled
<1> QED BY <1>1, Inductive, PTL

\* In the menu and in a stream the settings file says what was chosen (config.c).
THEOREM FileAgrees == Spec => []SettingsKept
<1>1. IInv => SettingsKept
  BY DEF IInv, Settled, Agreed, SettingsKept, ConfigStage
<1> QED BY <1>1, Inductive, PTL

\* What the mapper shows, asks and holds is the person's map in every state.
THEOREM MapperTrue == Spec => []Mapped
<1>1. IInv /\ Mapped /\ [Next]_vars => Mapped'
  BY StepMapped DEF IInv
<1> QED BY InitMapped, Inductive, <1>1, PTL DEF Spec

\* The journal of files, the menus and the streams implement the saved map of
\* MapPromise (mapping.c and its callers).
THEOREM Refinement == Spec => KeepsMap
<1>1. Init => Promise!Init
  BY DEF Init, Promise!Init, Saved, Shown, Asked, Played
<1>2. IInv /\ IInv' /\ Mapped /\ [Next]_vars => [Promise!Next]_(Promise!vars)
  BY StepPromise DEF IInv
<1> QED BY <1>1, <1>2, Inductive, MapperTrue, PTL DEF Spec, KeepsMap, Promise!Spec
=============================================================================
