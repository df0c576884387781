--------------------- MODULE SunshineIntegration_proofs ---------------------
(***************************************************************************)
(* The safety properties that the runs check of SunshineIntegration, for    *)
(* any processes, paths, display ids, scenes and number of edits.           *)
(***************************************************************************)
EXTENDS SunshineIntegration, TLAPS

USE SunshineAssumption
-----------------------------------------------------------------------------
(* What helpers return.                                                    *)

LEMMA AnyPathIs == AnyPath \in Path
BY DEF AnyPath

LEMMA NoEntryIs == NoEntry \in Entry
BY DEF NoEntry, Entry, Free

LEMMA RestingIs == \A path \in Path : Resting(path) \in Process
BY NoEntryIs DEF Resting, Process, Stage, Command, Served, Mode, Dirs, AppsFile, Value, Key

\* The scene is one of those declared.
LEMMA SceneIs ==
  ASSUME TypeOK
  PROVE  /\ scene.dirs \subseteq Dirs /\ scene.keys \subseteq Key /\ scene.modes \subseteq Mode
         /\ scene.paths \subseteq Path /\ scene.ids \subseteq Id
         /\ scene.commands \subseteq Command /\ scene.helpers \subseteq Served
BY DEF TypeOK, Scene, Dirs

\* A process moves to another stage, and nobody else does.
LEMMA GotoIs ==
  ASSUME TypeOK, NEW p \in Proc, NEW stage \in Stage, Goto(p, stage)
  PROVE  /\ proc' \in [Proc -> Process]
         /\ \A q \in Proc \ {p} : proc'[q] = proc[q]
         /\ proc'[p] = [proc[p] EXCEPT !.pc = stage]
<1>1. proc[p] \in Process /\ proc' = [proc EXCEPT ![p] = [proc[p] EXCEPT !.pc = stage]]
  BY DEF TypeOK, Goto
<1>2. [proc[p] EXCEPT !.pc = stage] \in Process
  BY <1>1 DEF Process
<1> QED BY <1>1, <1>2 DEF TypeOK

\* A process ends.
LEMMA EndIs ==
  ASSUME TypeOK, NEW p \in Proc, End(p)
  PROVE  /\ proc' \in [Proc -> Process]
         /\ \A q \in Proc \ {p} : proc'[q] = proc[q]
         /\ proc'[p] = Resting(AnyPath) /\ proc'[p].pc = "idle" /\ proc'[p].cmd = "restart"
BY AnyPathIs, RestingIs DEF TypeOK, End, Resting

LEMMA AfterStopIs == \A p \in Proc : AfterStop(p) \in {"startQuery", "load", "operate"}
BY DEF AfterStop

LEMMA AfterOperationIs ==
  ASSUME TypeOK, NEW p \in Proc, AfterOperation(p)
  PROVE  Goto(p, "startQuery") \/ End(p)
BY DEF AfterOperation

-----------------------------------------------------------------------------
(* Steps about the service, the end of a command, and its start.           *)

ConfigureStage == {"edit", "save", "writeApps", "writeConf"}
CleanStage == {"pick", "removeApps", "restoreConf", "dropBackup", "deleteJournal"}
Active == ConfigureStage \union CleanStage

\* Only the set-up process configures and cleans up, and its place says which.
PlacedOK(p) ==
  /\ proc[p].cmd \in {"configure", "cleanup"} => p = Setup
  /\ proc[p].pc \in ConfigureStage => proc[p].cmd = "configure"
  /\ proc[p].pc \in CleanStage => proc[p].cmd = "cleanup"
  /\ proc[p].pc = "load" => proc[p].cmd \in {"configure", "cleanup"}
  /\ proc[p].cmd = "configure" => proc[p].dir \in scene.dirs

InPlace == \A p \in Proc : PlacedOK(p)

\* Another process goes on as it was, though it may note the start of the service.
Same(now, before) ==
  /\ now.pc = before.pc /\ now.cmd = before.cmd /\ now.restart = before.restart
  /\ now.mode = before.mode /\ now.path = before.path /\ now.dir = before.dir
  /\ now.left = before.left /\ now.mem = before.mem /\ now.apps = before.apps
  /\ now.conf = before.conf /\ now.set = before.set
  /\ before.disturbed => now.disturbed

ServiceStep(p) ==
  \/ Begin(p) \/ Look(p) \/ StopQuery(p) \/ StopControl(p) \/ StartQuery(p) \/ StartControl(p)
  \/ WaitForState(p) \/ Missed(p) \/ Slow(p) \/ Operate(p) \/ Throws(p) \/ Kill(p)

FilesSame == UNCHANGED <<scene, apps, conf, backup, journal, made, user, overridden, stranded,
                         orphans, strays, lost>>

\* What such a step does to the processes.
Serves(p) ==
  /\ proc' \in [Proc -> Process]
  /\ \A q \in Proc \ {p} : Same(proc'[q], proc[q])
  /\ proc'[p].pc \notin Active
  /\ proc'[p].cmd \in {"configure", "cleanup"} => p = Setup
  /\ proc'[p].pc = "load" => proc'[p].cmd \in {"configure", "cleanup"}
  /\ proc'[p].cmd = "configure" => proc'[p].dir \in scene.dirs

LEMMA GotoServes ==
  ASSUME TypeOK, InPlace, NEW p \in Proc,
         NEW stage \in Stage \ Active, Goto(p, stage),
         stage = "load" => proc[p].cmd \in {"configure", "cleanup"}
  PROVE  Serves(p)
<1>1. /\ proc' \in [Proc -> Process]
      /\ \A q \in Proc \ {p} : proc'[q] = proc[q]
      /\ proc'[p] = [proc[p] EXCEPT !.pc = stage]
  BY GotoIs
<1>2. proc[p] \in Process
  BY DEF TypeOK
<1>3. proc'[p].pc = stage /\ proc'[p].cmd = proc[p].cmd /\ proc'[p].dir = proc[p].dir
  BY <1>1, <1>2 DEF Process
<1>4. PlacedOK(p)
  BY DEF InPlace
<1> QED BY <1>1, <1>3, <1>4 DEF Serves, Same, PlacedOK

LEMMA EndServes ==
  ASSUME TypeOK, NEW p \in Proc, End(p)
  PROVE  Serves(p)
BY EndIs DEF Serves, Same, Active, ConfigureStage, CleanStage

LEMMA AfterOperationServes ==
  ASSUME TypeOK, InPlace, NEW p \in Proc, AfterOperation(p)
  PROVE  Serves(p)
BY AfterOperationIs, GotoServes, EndServes DEF Stage, Active, ConfigureStage, CleanStage

LEMMA StopFailsServes ==
  ASSUME TypeOK, InPlace, NEW p \in Proc, StopFails(p)
  PROVE  Serves(p)
BY GotoServes, EndServes DEF StopFails, Stage, Active, ConfigureStage, CleanStage

LEMMA AfterStopServes ==
  ASSUME TypeOK, InPlace, NEW p \in Proc, Goto(p, AfterStop(p))
  PROVE  Serves(p)
<1>1. AfterStop(p) = "load" => proc[p].cmd = "cleanup"
  BY DEF AfterStop
<1> QED BY <1>1, AfterStopIs, GotoServes DEF Stage, Active, ConfigureStage, CleanStage

LEMMA WithPlace ==
  ASSUME NEW m \in Process, NEW mode \in Mode, NEW d \in Dirs
  PROVE  [m EXCEPT !.mode = mode, !.dir = d] \in Process
         /\ [m EXCEPT !.mode = mode, !.dir = d].dir = d
BY DEF Process

LEMMA BeginServes ==
  ASSUME TypeOK, InPlace, NEW p \in Proc, Begin(p)
  PROVE  Serves(p)
<1>1. PICK cmd \in IF p = Setup THEN scene.commands ELSE scene.helpers,
          mode \in scene.modes, path \in scene.paths, d \in scene.dirs :
        proc' = [proc EXCEPT ![p] =
                 [IF cmd = "configure"
                  THEN [Resting(path) EXCEPT !.mode = mode, !.dir = d]
                  ELSE Resting(AnyPath) EXCEPT !.cmd = cmd,
                    !.pc = CASE cmd = "configure" -> "load"
                             [] cmd = "restart" -> "stopQuery"
                             [] OTHER -> "look"]]
  BY DEF Begin
<1>2. /\ cmd \in Command /\ mode \in Mode /\ path \in Path /\ d \in Dirs
      /\ cmd \in {"configure", "cleanup"} => p = Setup
  BY <1>1, SceneIs DEF Command, Served
<1> DEFINE stage == CASE cmd = "configure" -> "load"
                      [] cmd = "restart" -> "stopQuery"
                      [] OTHER -> "look"
           rest == IF cmd = "configure"
                   THEN [Resting(path) EXCEPT !.mode = mode, !.dir = d]
                   ELSE Resting(AnyPath)
           me == [rest EXCEPT !.cmd = cmd, !.pc = stage]
<1>3. stage \in {"load", "stopQuery", "look"} /\ (stage = "load" => cmd = "configure")
  BY <1>2
<1>4. rest \in Process /\ (cmd = "configure" => rest.dir = d)
  <2>1. CASE cmd = "configure"
    BY <1>2, <2>1, RestingIs, WithPlace
  <2>2. CASE cmd # "configure"
    BY <2>2, AnyPathIs, RestingIs
  <2> QED BY <2>1, <2>2
<1> HIDE DEF stage, rest
<1>5. me \in Process /\ me.cmd = cmd /\ me.pc = stage /\ me.dir = rest.dir
  BY <1>2, <1>3, <1>4 DEF Process, Stage
<1>6. proc' = [proc EXCEPT ![p] = me]
  BY <1>1 DEF rest, stage
<1> HIDE DEF me
<1>7. proc' \in [Proc -> Process] /\ proc'[p] = me /\ \A q \in Proc \ {p} : proc'[q] = proc[q]
  BY <1>5, <1>6 DEF TypeOK
<1> QED BY <1>2, <1>3, <1>4, <1>5, <1>7 DEF Serves, Same, Active, ConfigureStage, CleanStage

LEMMA StartServes ==
  ASSUME TypeOK, InPlace, NEW p \in Proc, StartControl(p)
  PROVE  Serves(p) /\ service' \in ServiceState
<1>1. CASE End(p)
  BY <1>1, EndServes DEF StartControl, TypeOK, ServiceState
<1>2. CASE ~End(p)
  <2>1. /\ service' = "startPending"
        /\ proc' = [q \in Proc |->
                     IF q = p THEN [proc[p] EXCEPT !.pc = "startWait"]
                     ELSE [proc[q] EXCEPT !.disturbed = (@ \/ proc[q].pc # "idle")]]
    BY <1>2 DEF StartControl
  <2>2. \A q \in Proc : proc[q] \in Process
    BY DEF TypeOK
  <2>3. ASSUME NEW q \in Proc \ {p}
        PROVE  proc'[q] \in Process /\ Same(proc'[q], proc[q])
    <3>1. PICK flag \in BOOLEAN : /\ flag = (proc[q].disturbed \/ proc[q].pc # "idle")
                                  /\ proc'[q] = [proc[q] EXCEPT !.disturbed = flag]
      BY <2>1, <2>2
    <3> QED BY <2>2, <3>1 DEF Process, Same
  <2>4. /\ proc'[p] \in Process /\ proc'[p].pc = "startWait"
        /\ proc'[p].cmd = proc[p].cmd /\ proc'[p].dir = proc[p].dir
    BY <2>1, <2>2 DEF Process, Stage
  <2>5. proc' \in [Proc -> Process]
    BY <2>1, <2>3, <2>4
  <2>6. PlacedOK(p)
    BY DEF InPlace
  <2> QED BY <2>1, <2>3, <2>4, <2>5, <2>6
          DEF Serves, PlacedOK, Active, ConfigureStage, CleanStage, ServiceState
<1> QED BY <1>1, <1>2

\* A command that looks remembers whether the service ran.
LEMMA LookServes ==
  ASSUME TypeOK, InPlace, NEW p \in Proc, Look(p)
  PROVE  Serves(p)
<1> DEFINE running == service = "running"
           stage == IF running THEN "stopQuery" ELSE AfterStop(p)
           me == [proc[p] EXCEPT !.restart = running, !.pc = stage]
<1>1. proc[p] \in Process /\ PlacedOK(p)
  BY DEF TypeOK, InPlace
<1>2. /\ stage \in {"stopQuery", "startQuery", "load", "operate"}
      /\ stage = "load" => proc[p].cmd = "cleanup"
  BY DEF AfterStop
<1>3. running \in BOOLEAN
  BY Zenon
<1> HIDE DEF running, stage
<1>4. me \in Process /\ me.cmd = proc[p].cmd /\ me.pc = stage /\ me.dir = proc[p].dir
  BY <1>1, <1>2, <1>3 DEF Process, Stage
<1>5. proc' = [proc EXCEPT ![p] = me]
  BY DEF Look, running, stage
<1> HIDE DEF me
<1>6. proc' \in [Proc -> Process] /\ proc'[p] = me /\ \A q \in Proc \ {p} : proc'[q] = proc[q]
  BY <1>4, <1>5 DEF TypeOK
<1> QED BY <1>1, <1>2, <1>4, <1>6
        DEF Serves, Same, PlacedOK, Active, ConfigureStage, CleanStage

LEMMA TimesOutServes ==
  ASSUME TypeOK, InPlace, NEW p \in Proc, TimesOut(p)
  PROVE  Serves(p) /\ UNCHANGED service
BY StopFailsServes, EndServes DEF TimesOut

\* No step about the service touches Sunshine's files or what is known of them.
LEMMA ServiceServes ==
  ASSUME TypeOK, InPlace, NEW p \in Proc, ServiceStep(p)
  PROVE  Serves(p) /\ FilesSame /\ service' \in ServiceState /\ excused' \in BOOLEAN
<1> USE DEF FilesSame, files, history
<1>0. service \in ServiceState /\ excused \in BOOLEAN
  BY DEF TypeOK
<1>1. CASE Begin(p)
  BY <1>0, <1>1, BeginServes DEF Begin
<1>2. CASE Look(p)
  BY <1>0, <1>2, LookServes DEF Look
<1>3. CASE StopQuery(p)
  <2>1. \/ Goto(p, AfterStop(p))
        \/ \E stage \in {"stopStarting", "stopWait", "stopControl"} : Goto(p, stage)
    BY <1>3 DEF StopQuery
  <2> QED BY <1>0, <1>3, <2>1, AfterStopServes, GotoServes
          DEF StopQuery, Stage, Active, ConfigureStage, CleanStage
<1>4. CASE StopControl(p)
  BY <1>0, <1>4, GotoServes, StopFailsServes
     DEF StopControl, Stage, Active, ConfigureStage, CleanStage, ServiceState
<1>5. CASE StartQuery(p)
  <2>1. End(p) \/ \E stage \in {"startWait", "startAfter", "startControl"} : Goto(p, stage)
    BY <1>5 DEF StartQuery
  <2> QED BY <1>0, <1>5, <2>1, EndServes, GotoServes
          DEF StartQuery, Stage, Active, ConfigureStage, CleanStage
<1>6. CASE StartControl(p)
  BY <1>0, <1>6, StartServes DEF StartControl
<1>7. CASE WaitForState(p)
  <2>1. \/ Goto(p, AfterStop(p)) \/ End(p)
        \/ \E stage \in {"stopControl", "startControl"} : Goto(p, stage)
    BY <1>7 DEF WaitForState
  <2> QED BY <1>0, <1>7, <2>1, AfterStopServes, EndServes, GotoServes
          DEF WaitForState, Stage, Active, ConfigureStage, CleanStage
<1>8. CASE Missed(p) \/ Slow(p)
  BY <1>0, <1>8, TimesOutServes DEF Missed, Slow, TimesOut
<1>9. CASE Operate(p) \/ Throws(p)
  BY <1>0, <1>9, AfterOperationServes DEF Operate, Throws
<1>10. CASE Kill(p)
  BY <1>0, <1>10, EndServes DEF Kill
<1> QED BY <1>1, <1>2, <1>3, <1>4, <1>5, <1>6, <1>7, <1>8, <1>9, <1>10 DEF ServiceStep

\* After such a step of p, InPlace and the types hold again.
LEMMA ServesTyped ==
  ASSUME TypeOK, InPlace, NEW p \in Proc, ServiceStep(p)
  PROVE  TypeOK' /\ InPlace'
<1>1. Serves(p) /\ FilesSame /\ service' \in ServiceState /\ excused' \in BOOLEAN
  BY ServiceServes
<1>2. TypeOK'
  BY <1>1 DEF TypeOK, FilesSame, Serves
<1>3. ASSUME NEW q \in Proc PROVE PlacedOK(q)'
  <2>1. CASE q = p
    BY <1>1, <2>1 DEF Serves, PlacedOK, FilesSame, Active
  <2>2. CASE q # p
    BY <1>1, <2>2 DEF Serves, Same, InPlace, PlacedOK, FilesSame
  <2> QED BY <2>1, <2>2
<1> QED BY <1>2, <1>3 DEF InPlace

-----------------------------------------------------------------------------
(* The steps of configure and of the removal: types.                       *)

\* What a process with other fields is.
Becomes(p, me) ==
  proc' \in [Proc -> Process] /\ proc'[p] = me /\ \A q \in Proc \ {p} : proc'[q] = proc[q]

LEMMA BecomesIs ==
  ASSUME TypeOK, NEW p \in Proc, NEW me \in Process, proc' = [proc EXCEPT ![p] = me]
  PROVE  Becomes(p, me)
BY DEF Becomes, TypeOK

LEMMA GotoBecomes ==
  ASSUME TypeOK, NEW p \in Proc, NEW stage \in Stage, Goto(p, stage)
  PROVE  Becomes(p, [proc[p] EXCEPT !.pc = stage])
BY GotoIs DEF Becomes

LEMMA EndBecomes ==
  ASSUME TypeOK, NEW p \in Proc, End(p)
  PROVE  Becomes(p, Resting(AnyPath))
BY EndIs DEF Becomes

\* A step of configure leads to the next stage.
LEMMA OnwardIs ==
  ASSUME TypeOK, NEW p \in Proc, Onward(p)
  PROVE  /\ proc[p].pc = "save" => Goto(p, "writeApps")
         /\ proc[p].pc = "writeApps" => Goto(p, "writeConf")
         /\ proc[p].pc = "writeConf" => End(p)
BY DEF Onward, After

\* What configure makes of the files in memory is well-formed.
LEMMA NewFilesTyped ==
  ASSUME NEW me \in Process
  PROVE  /\ NewApps(me) \in AppsFile /\ NewHooks(me) \in SUBSET Path
         /\ NewApps(me).user = me.apps.user /\ NewApps(me).hooks = NewHooks(me)
         /\ NewConf(me) \in [Key -> Value]
<1>1. NewHooks(me) \in SUBSET Path
  BY DEF NewHooks, Process
<1>2. me.apps \in AppsFile
  BY DEF Process
<1>3. NewApps(me) \in AppsFile /\ NewApps(me).user = me.apps.user /\ NewApps(me).hooks = NewHooks(me)
  BY <1>1, <1>2 DEF NewApps, AppsFile
<1>4. NewConf(me) \in [Key -> Value]
  BY DEF NewConf, Process
<1> QED BY <1>1, <1>3, <1>4

\* So is what the removal makes of them, and it keeps the person's part.
LEMMA CleanedTyped ==
  ASSUME NEW entry \in Entry, NEW file \in AppsFile
  PROVE  Cleaned(entry, file) \in AppsFile /\ Cleaned(entry, file).user = file.user
<1>1. RemoveOwnedHooks(entry, file) \in SUBSET Path
  BY DEF RemoveOwnedHooks, AppsFile
<1> QED BY <1>1 DEF Cleaned, AppsFile

LEMMA RestoredTyped ==
  ASSUME NEW entry \in Entry, NEW file \in [Key -> Value]
  PROVE  Restored(entry, file) \in [Key -> Value]
<1>1. \A k \in Key : entry.values[k] # Free => entry.values[k] \in Owned
  BY DEF Entry
<1> QED BY <1>1 DEF Restored, Owned

LEMMA PutAppsTyped ==
  ASSUME TypeOK, NEW p \in Proc, NEW file \in AppsFile, PutApps(p, file)
  PROVE  /\ apps' \in [Dirs -> AppsFile] /\ made' \in [Dirs -> Nat]
         /\ lost' \subseteq {"configure", "cleanup", "disturbed"}
<1>1. proc[p].dir \in Dirs /\ file.user \in Nat
  BY DEF TypeOK, Process, AppsFile
<1>2. Cause(p) \in {"configure", "cleanup", "disturbed"}
  BY DEF Cause
<1> QED BY <1>1, <1>2 DEF PutApps, TypeOK

LEMMA PutConfTyped ==
  ASSUME TypeOK, NEW p \in Proc, NEW file \in [Key -> Value], NEW replaced \in SUBSET Key,
         PutConf(p, file, replaced)
  PROVE  /\ conf' \in [Dirs -> [Key -> Value]] /\ overridden' \in [Dirs -> SUBSET Key]
         /\ lost' \subseteq {"configure", "cleanup", "disturbed"}
<1>1. proc[p].dir \in Dirs
  BY DEF TypeOK, Process
<1>2. Cause(p) \in {"configure", "cleanup", "disturbed"}
  BY DEF Cause
<1> QED BY <1>1, <1>2 DEF PutConf, TypeOK

\* What a set-up sets is ours, or nothing.
Ours == Id \union {"enabled", "ensure_only_display", "disabled"}

LEMMA OursIs == /\ Ours \subseteq Value /\ Ours \intersect UserValue = {} /\ "keep" \notin Ours
                /\ "keep" \notin UserValue /\ "keep" \notin Value
BY DEF Ours, Value

LEMMA AppliedIs ==
  ASSUME NEW mode \in Mode, NEW id, mode = "native" => id \in Id
  PROVE  Applied(mode, id) \in [Key -> Ours \union {"keep"}]
BY DEF Applied, Ours, Mode

\* A claim is of an entry, and free only when nothing is set.
LEMMA ClaimIs ==
  ASSUME NEW owned \in Owned \union {Free}, NEW now \in Value, NEW value \in Ours \union {"keep"}
  PROVE  /\ Claim(owned, now, value) \in Owned \union {Free}
         /\ value = "keep" => Claim(owned, now, value) = owned
         /\ value # "keep" => /\ Claim(owned, now, value) # Free
                              /\ Claim(owned, now, value).applied = value
                              /\ Claim(owned, now, value).original =
                                   IF owned = Free THEN now ELSE owned.original
<1>1. CASE value = "keep"
  BY <1>1 DEF Claim
<1>2. CASE value # "keep"
  <2>1. value \in Value
    BY <1>2, OursIs
  <2>2. (IF owned = Free THEN now ELSE owned.original) \in Value
    BY DEF Owned
  <2> QED BY <1>2, <2>1, <2>2 DEF Claim, Owned, Free
<1> QED BY <1>1, <1>2

\* What the set-up process has in memory after it has loaded, edited, and so on.
MemAfterLoad(d) == [journal EXCEPT ![d].backup = @ \/ backup[d] = "none"]
EntryAfterEdit(me, set) ==
  [values |-> [k \in Key |-> Claim(me.mem[me.dir].values[k], me.conf[k], set[k])],
   hooks |-> NewHooks(me), backup |-> me.mem[me.dir].backup,
   created |-> CreatedApplication(me.mem[me.dir], me.apps, me.mode)]

LEMMA LoadIs ==
  ASSUME TypeOK, InPlace, NEW p \in Proc, Load(p)
  PROVE  /\ p = Setup /\ proc[p].dir \in scene.dirs
         /\ MemAfterLoad(proc[p].dir) \in [Dirs -> Entry]
         /\ Becomes(p, [proc[p] EXCEPT !.pc = "edit", !.apps = apps[proc[p].dir],
                          !.conf = conf[proc[p].dir], !.mem = MemAfterLoad(proc[p].dir)])
<1> DEFINE d == proc[p].dir
           new == [proc[p] EXCEPT !.pc = "edit", !.apps = apps[d], !.conf = conf[d],
                                  !.mem = MemAfterLoad(d)]
<1>1. proc[p] \in Process /\ PlacedOK(p) /\ proc[p].cmd = "configure"
  BY DEF TypeOK, InPlace, Load
<1>2. d \in scene.dirs /\ d \in Dirs /\ p = Setup
  BY <1>1 DEF PlacedOK, Process
<1>3. MemAfterLoad(d) \in [Dirs -> Entry]
  <2>1. PICK flag : /\ flag \in BOOLEAN
                    /\ flag = (journal[d].backup \/ backup[d] = "none")
    BY Zenon
  <2>2. journal[d] \in Entry /\ MemAfterLoad(d) = [journal EXCEPT ![d] = [journal[d] EXCEPT !.backup = flag]]
    BY <1>2, <2>1 DEF TypeOK, MemAfterLoad
  <2>3. [journal[d] EXCEPT !.backup = flag] \in Entry
    BY <2>1, <2>2 DEF Entry
  <2> QED BY <1>2, <2>2, <2>3 DEF TypeOK
<1>4. apps[d] \in AppsFile /\ conf[d] \in [Key -> Value]
  BY <1>2 DEF TypeOK
<1>5. new \in Process
  BY <1>1, <1>3, <1>4 DEF Process, Stage
<1>6. proc' = [proc EXCEPT ![p] = new]
  BY DEF Load, MemAfterLoad
<1> HIDE DEF new
<1>7. Becomes(p, new)
  BY <1>5, <1>6, BecomesIs
<1> QED BY <1>2, <1>3, <1>7 DEF new

\* Either no display is found, and the command ends, or the copies are edited.
LEMMA EditIs ==
  ASSUME TypeOK, InPlace, NEW p \in Proc, Edit(p)
  PROVE  /\ p = Setup /\ proc[p].dir \in scene.dirs
         /\ \/ End(p)
            \/ \E set \in [Key -> Ours \union {"keep"}] :
                 /\ EntryAfterEdit(proc[p], set) \in Entry
                 /\ Becomes(p, [proc[p] EXCEPT !.pc = "save", !.set = set,
                                  !.mem = [proc[p].mem EXCEPT ![proc[p].dir] = EntryAfterEdit(proc[p], set)]])
<1> DEFINE me == proc[p]
           d == me.dir
<1>1. proc[p] \in Process /\ PlacedOK(p) /\ proc[p].pc = "edit"
  BY DEF TypeOK, InPlace, Edit
<1>2. d \in scene.dirs /\ d \in Dirs /\ p = Setup
  BY <1>1 DEF PlacedOK, Process, ConfigureStage
<1>3. PICK id \in FoundDevice(me.mode) :
       IF me.mode = "native" /\ id = "none" THEN End(p)
       ELSE proc' = [proc EXCEPT ![p] = [me EXCEPT
               !.pc = After("edit"),
               !.set = Applied(me.mode, id),
               !.mem[d] = EntryAfterEdit(me, Applied(me.mode, id))]]
  BY DEF Edit, EntryAfterEdit
<1>4. CASE me.mode = "native" /\ id = "none"
  BY <1>2, <1>3, <1>4
<1>5. CASE ~(me.mode = "native" /\ id = "none")
  <2> DEFINE set == Applied(me.mode, id)
             entry == EntryAfterEdit(me, set)
             new == [me EXCEPT !.pc = "save", !.set = set, !.mem = [me.mem EXCEPT ![d] = entry]]
  <2>1. set \in [Key -> Ours \union {"keep"}]
    <3>1. me.mode = "native" => id \in Id
      BY <1>5, SceneIs DEF FoundDevice
    <3> QED BY <1>1, <3>1, AppliedIs DEF Process
  <2> HIDE DEF set
  <2>2. entry \in Entry
    <3>1. me.mem[d] \in Entry /\ me.conf \in [Key -> Value]
      BY <1>1, <1>2 DEF Process
    <3>2. \A k \in Key : Claim(me.mem[d].values[k], me.conf[k], set[k]) \in Owned \union {Free}
      BY <2>1, <3>1, ClaimIs DEF Entry
    <3>3. NewHooks(me) \in SUBSET Path /\ me.mem[d].backup \in BOOLEAN
      BY <1>1, <3>1, NewFilesTyped DEF Entry
    <3>4. CreatedApplication(me.mem[d], me.apps, me.mode) \in BOOLEAN
      BY Zenon DEF CreatedApplication
    <3> QED BY <3>2, <3>3, <3>4 DEF EntryAfterEdit, Entry
  <2>3. new \in Process
    <3>1. set \in [Key -> Value \union {"keep"}]
      BY <2>1, OursIs
    <3>2. [me.mem EXCEPT ![d] = entry] \in [Dirs -> Entry]
      BY <1>1, <2>2 DEF Process
    <3> HIDE DEF entry
    <3> QED BY <1>1, <3>1, <3>2 DEF Process, Stage
  <2>4. proc' = [proc EXCEPT ![p] = new]
    BY <1>3, <1>5 DEF After, set
  <2> HIDE DEF new
  <2>5. Becomes(p, new)
    BY <2>3, <2>4, BecomesIs
  <2> QED BY <1>2, <2>1, <2>2, <2>5 DEF new
<1> QED BY <1>4, <1>5

LEMMA CleanIs ==
  ASSUME TypeOK, InPlace, NEW p \in Proc,
         LoadJournal(p) \/ PickLocation(p) \/ RemoveApps(p)
  PROVE  /\ p = Setup
         /\ LoadJournal(p) =>
              Becomes(p, [proc[p] EXCEPT !.pc = "pick", !.mem = journal, !.left = scene.dirs])
         /\ PickLocation(p) =>
              \/ proc[p].left = {} /\ Becomes(p, [proc[p] EXCEPT !.pc = "deleteJournal"])
              \/ \E d \in proc[p].left :
                   Becomes(p, [proc[p] EXCEPT !.pc = "removeApps", !.dir = d, !.left = @ \ {d},
                                              !.apps = apps[d]])
         /\ RemoveApps(p) =>
              Becomes(p, [proc[p] EXCEPT !.pc = "restoreConf", !.conf = conf[proc[p].dir]])
<1>1. proc[p] \in Process /\ PlacedOK(p) /\ proc[p].cmd = "cleanup" /\ p = Setup
  BY DEF TypeOK, InPlace, PlacedOK, LoadJournal, PickLocation, RemoveApps, CleanStage
<1>2. scene.dirs \in SUBSET Dirs /\ journal \in [Dirs -> Entry]
  BY SceneIs DEF TypeOK
<1>3. ASSUME LoadJournal(p)
      PROVE  Becomes(p, [proc[p] EXCEPT !.pc = "pick", !.mem = journal, !.left = scene.dirs])
  <2>1. [proc[p] EXCEPT !.pc = "pick", !.mem = journal, !.left = scene.dirs] \in Process
    BY <1>1, <1>2 DEF Process, Stage
  <2> QED BY <1>3, <2>1, BecomesIs DEF LoadJournal
<1>4. ASSUME PickLocation(p), proc[p].left = {}, Goto(p, "deleteJournal")
      PROVE  Becomes(p, [proc[p] EXCEPT !.pc = "deleteJournal"])
  BY <1>4, GotoBecomes DEF Stage
<1>5. ASSUME NEW d \in proc[p].left,
             proc' = [proc EXCEPT ![p].pc = "removeApps", ![p].dir = d, ![p].left = @ \ {d},
                                  ![p].apps = apps[d]]
      PROVE  Becomes(p, [proc[p] EXCEPT !.pc = "removeApps", !.dir = d, !.left = @ \ {d},
                                        !.apps = apps[d]])
  <2> DEFINE new == [proc[p] EXCEPT !.pc = "removeApps", !.dir = d, !.left = @ \ {d}, !.apps = apps[d]]
  <2>1. d \in Dirs /\ apps[d] \in AppsFile /\ proc[p].left \ {d} \in SUBSET Dirs
    BY <1>1 DEF Process, TypeOK
  <2>2. new \in Process
    BY <1>1, <2>1 DEF Process, Stage
  <2>3. proc' = [proc EXCEPT ![p] = new]
    BY <1>5
  <2> HIDE DEF new
  <2>4. Becomes(p, new)
    BY <2>2, <2>3, BecomesIs
  <2> QED BY <2>4 DEF new
<1>6. ASSUME RemoveApps(p)
      PROVE  Becomes(p, [proc[p] EXCEPT !.pc = "restoreConf", !.conf = conf[proc[p].dir]])
  <2> DEFINE new == [proc[p] EXCEPT !.pc = "restoreConf", !.conf = conf[proc[p].dir]]
  <2>1. conf[proc[p].dir] \in [Key -> Value]
    BY <1>1 DEF Process, TypeOK
  <2>2. new \in Process
    BY <1>1, <2>1 DEF Process, Stage
  <2>3. proc' = [proc EXCEPT ![p] = new]
    BY <1>6 DEF RemoveApps
  <2> HIDE DEF new
  <2>4. Becomes(p, new)
    BY <2>2, <2>3, BecomesIs
  <2> QED BY <2>4 DEF new
<1> QED BY <1>1, <1>3, <1>4, <1>5, <1>6 DEF PickLocation

-----------------------------------------------------------------------------
(* The set-up process, step by step: where it goes and what it changes.    *)

Me == proc[Setup]

LEMMA MeIs ==
  ASSUME TypeOK
  PROVE  Me \in Process /\ Me.dir \in Dirs /\ Me.pc \in Stage
BY DEF TypeOK, Me, Process

\* The others stay, and so does what the command of the set-up process is.
Moves(stage) ==
  /\ proc' \in [Proc -> Process]
  /\ \A q \in Proc \ {Setup} : proc'[q] = proc[q]
  /\ Me'.pc = stage
  /\ Me'.cmd = Me.cmd /\ Me'.restart = Me.restart /\ Me'.disturbed = Me.disturbed
  /\ Me'.mode = Me.mode /\ Me'.path = Me.path

\* What it holds in memory stays.
Holds == /\ Me'.dir = Me.dir /\ Me'.mem = Me.mem /\ Me'.set = Me.set /\ Me'.left = Me.left

LEMMA GotoMoves ==
  ASSUME TypeOK, NEW stage \in Stage, Goto(Setup, stage)
  PROVE  Moves(stage) /\ Holds /\ Me'.apps = Me.apps /\ Me'.conf = Me.conf
<1>1. /\ proc' \in [Proc -> Process]
      /\ \A q \in Proc \ {Setup} : proc'[q] = proc[q]
      /\ Me' = [Me EXCEPT !.pc = stage]
  BY GotoIs DEF Me
<1>2. Me \in Process
  BY MeIs
<1> QED BY <1>1, <1>2 DEF Moves, Holds, Process

LEMMA LoadDoes ==
  ASSUME TypeOK, InPlace, Load(Setup)
  PROVE  /\ Moves("edit") /\ Me.cmd = "configure" /\ Me.dir \in scene.dirs
         /\ Me'.dir = Me.dir /\ Me'.apps = apps[Me.dir] /\ Me'.conf = conf[Me.dir]
         /\ \A d \in Dirs \ {Me.dir} : Me'.mem[d] = journal[d]
         /\ Me'.mem[Me.dir].values = journal[Me.dir].values
         /\ Me'.mem[Me.dir].hooks = journal[Me.dir].hooks
         /\ Me'.mem[Me.dir].created = journal[Me.dir].created
         /\ journal[Me.dir].backup \/ backup[Me.dir] = "none" => Me'.mem[Me.dir].backup
         /\ backup' = [backup EXCEPT ![Me.dir] = IF @ = "none" THEN "copy" ELSE @]
         /\ strays' = IF backup[Me.dir] = "none" THEN strays \union {Me.dir} ELSE strays
         /\ UNCHANGED <<scene, apps, conf, journal, service, made, user, overridden, stranded,
                        orphans, lost, excused>>
<1> DEFINE d == Me.dir
           flag == journal[d].backup \/ backup[d] = "none"
           entry == [journal[d] EXCEPT !.backup = flag]
           mem == [journal EXCEPT ![d] = entry]
           new == [Me EXCEPT !.pc = "edit", !.apps = apps[d], !.conf = conf[d], !.mem = mem]
<1>1. Me \in Process /\ d \in Dirs /\ d \in scene.dirs /\ journal[d] \in Entry
  BY MeIs, LoadIs DEF Me, TypeOK
<1>2. Becomes(Setup, new)
  BY LoadIs DEF Me, MemAfterLoad
<1>3. entry.values = journal[d].values /\ entry.hooks = journal[d].hooks
      /\ entry.created = journal[d].created /\ entry.backup = flag
  BY <1>1 DEF Entry
<1> HIDE DEF entry, flag
<1>4. mem[d] = entry /\ \A e \in Dirs \ {d} : mem[e] = journal[e]
  BY <1>1 DEF TypeOK
<1> HIDE DEF mem
<1>5. /\ Moves("edit") /\ Me'.dir = d /\ Me'.apps = apps[d] /\ Me'.conf = conf[d]
      /\ Me'.mem = mem
  BY <1>1, <1>2 DEF Becomes, Me, Moves, Process
<1>6. /\ backup' = [backup EXCEPT ![d] = IF @ = "none" THEN "copy" ELSE @]
      /\ strays' = IF backup[d] = "none" THEN strays \union {d} ELSE strays
      /\ UNCHANGED <<scene, apps, conf, journal, service, made, user, overridden, stranded,
                     orphans, lost, excused>>
      /\ Me.cmd = "configure"
  BY DEF Load, Me
<1> QED BY <1>1, <1>3, <1>4, <1>5, <1>6 DEF flag

\* The copies are edited for the display found.
Edited ==
  /\ Moves("save") /\ Me.pc = "edit" /\ Me.cmd = "configure" /\ Me.dir \in scene.dirs
  /\ Me'.dir = Me.dir /\ Me'.apps = Me.apps /\ Me'.conf = Me.conf
  /\ Me'.set \in [Key -> Ours \union {"keep"}]
  /\ \A d \in Dirs \ {Me.dir} : Me'.mem[d] = Me.mem[d]
  /\ \A k \in Key :
       Me'.mem[Me.dir].values[k] = Claim(Me.mem[Me.dir].values[k], Me.conf[k], Me'.set[k])
  /\ Me'.mem[Me.dir].hooks = NewHooks(Me')
  /\ Me'.mem[Me.dir].backup = Me.mem[Me.dir].backup
  /\ Me'.mem[Me.dir].created = CreatedApplication(Me.mem[Me.dir], Me.apps, Me.mode)
  /\ UNCHANGED <<scene, files, service, history, excused>>

LEMMA EditDoes ==
  ASSUME TypeOK, InPlace, Edit(Setup)
  PROVE  Edited \/ (End(Setup) /\ UNCHANGED <<scene, files, service, history, excused>>)
<1>1. UNCHANGED <<scene, files, service, history, excused>>
  BY DEF Edit
<1>2. CASE End(Setup)
  BY <1>1, <1>2
<1>3. CASE ~End(Setup)
  <2> DEFINE d == Me.dir
  <2>1. PICK set \in [Key -> Ours \union {"keep"}] :
          /\ EntryAfterEdit(Me, set) \in Entry
          /\ Becomes(Setup, [Me EXCEPT !.pc = "save", !.set = set,
                               !.mem = [Me.mem EXCEPT ![d] = EntryAfterEdit(Me, set)]])
    BY <1>3, EditIs DEF Me
  <2> DEFINE entry == EntryAfterEdit(Me, set)
             mem == [Me.mem EXCEPT ![d] = entry]
             new == [Me EXCEPT !.pc = "save", !.set = set, !.mem = mem]
  <2>2. Me \in Process /\ d \in Dirs /\ d \in scene.dirs
    BY MeIs, EditIs DEF Me
  <2>3. /\ \A k \in Key : entry.values[k] = Claim(Me.mem[d].values[k], Me.conf[k], set[k])
        /\ entry.hooks = NewHooks(Me) /\ entry.backup = Me.mem[d].backup
        /\ entry.created = CreatedApplication(Me.mem[d], Me.apps, Me.mode)
    BY DEF EntryAfterEdit
  <2> HIDE DEF entry
  <2>4. mem[d] = entry /\ \A e \in Dirs \ {d} : mem[e] = Me.mem[e]
    BY <2>2 DEF Process
  <2> HIDE DEF mem
  <2>5. /\ Moves("save") /\ Me'.dir = d /\ Me'.apps = Me.apps /\ Me'.conf = Me.conf
        /\ Me'.mem = mem /\ Me'.set = set
    BY <2>1, <2>2 DEF Becomes, Me, Moves, Process, mem, entry
  <2>6. Me.pc = "edit" /\ Me.cmd = "configure"
    BY DEF Edit, Me, InPlace, PlacedOK, ConfigureStage
  <2>7. NewHooks(Me') = NewHooks(Me)
    BY <2>5 DEF NewHooks, Moves
  <2> QED BY <1>1, <2>1, <2>2, <2>3, <2>4, <2>5, <2>6, <2>7 DEF Edited
<1> QED BY <1>2, <1>3

LEMMA SaveDoes ==
  ASSUME TypeOK, InPlace, Save(Setup)
  PROVE  /\ Moves("writeApps") /\ Holds /\ Me'.apps = Me.apps /\ Me'.conf = Me.conf
         /\ Me.pc = "save" /\ Me.cmd = "configure" /\ Me.dir \in scene.dirs
         /\ journal' = Me.mem
         /\ orphans' = [orphans EXCEPT ![Me.dir] = apps[Me.dir].hooks \ Me.mem[Me.dir].hooks]
         /\ stranded' = [stranded EXCEPT ![Me.dir] =
                            @ \union Unlisted(Me.mem[Me.dir], conf[Me.dir])]
         /\ strays' = IF Me.mem[Me.dir].backup THEN strays \ {Me.dir} ELSE strays
         /\ UNCHANGED <<scene, apps, conf, backup, service, made, user, overridden, lost, excused>>
<1>1. Goto(Setup, "writeApps")
  BY OnwardIs DEF Save
<1> QED BY <1>1, GotoMoves DEF Save, Me, InPlace, PlacedOK, ConfigureStage, Stage

LEMMA WriteAppsDoes ==
  ASSUME TypeOK, InPlace, WriteApps(Setup)
  PROVE  /\ Moves("writeConf") /\ Holds /\ Me'.apps = Me.apps /\ Me'.conf = Me.conf
         /\ Me.pc = "writeApps" /\ Me.cmd = "configure" /\ Me.dir \in scene.dirs
         /\ PutApps(Setup, NewApps(Me))
         /\ orphans' = [orphans EXCEPT ![Me.dir] = {}]
         /\ UNCHANGED <<scene, conf, backup, journal, service, user, overridden, stranded, strays,
                        excused>>
<1>1. Goto(Setup, "writeConf")
  BY OnwardIs DEF WriteApps
<1> QED BY <1>1, GotoMoves DEF WriteApps, Me, InPlace, PlacedOK, ConfigureStage, Stage

\* The keys whose values have not been written, after the files have.
StillStranded(entry, file, keys) ==
  {k \in keys : k \in Unlisted(entry, file) \/ entry.values[k].original \notin UserValue}

LEMMA WriteConfDoes ==
  ASSUME TypeOK, InPlace, WriteConf(Setup)
  PROVE  /\ End(Setup) /\ Me'.pc = "idle" /\ Me'.cmd = "restart"
         /\ proc' \in [Proc -> Process] /\ \A q \in Proc \ {Setup} : proc'[q] = proc[q]
         /\ Me.pc = "writeConf" /\ Me.cmd = "configure" /\ Me.dir \in scene.dirs
         /\ PutConf(Setup, NewConf(Me), Replaced(Me.mem[Me.dir], conf[Me.dir], NewConf(Me)))
         /\ stranded' = [stranded EXCEPT ![Me.dir] =
                            StillStranded(Me.mem[Me.dir], NewConf(Me), @)]
         /\ UNCHANGED <<scene, apps, backup, journal, service, made, user, orphans, strays, excused>>
<1>1. End(Setup)
  BY OnwardIs DEF WriteConf
<1>2. /\ proc' \in [Proc -> Process] /\ \A q \in Proc \ {Setup} : proc'[q] = proc[q]
      /\ Me'.pc = "idle" /\ Me'.cmd = "restart"
  BY <1>1, EndIs DEF Me
<1> QED BY <1>1, <1>2 DEF WriteConf, StillStranded, Me, InPlace, PlacedOK, ConfigureStage

LEMMA LoadJournalDoes ==
  ASSUME TypeOK, InPlace, LoadJournal(Setup)
  PROVE  /\ Moves("pick") /\ Me.cmd = "cleanup" /\ Me'.mem = journal /\ Me'.left = scene.dirs
         /\ Me'.dir = Me.dir /\ Me.pc = "load"
         /\ UNCHANGED <<scene, files, service, history, excused>>
<1> DEFINE new == [Me EXCEPT !.pc = "pick", !.mem = journal, !.left = scene.dirs]
<1>1. Becomes(Setup, new)
  BY CleanIs DEF Me
<1>2. Me \in Process
  BY MeIs
<1> QED BY <1>1, <1>2 DEF Becomes, Me, Moves, Process, LoadJournal

\* The removal goes to another location, or ends.
Picked(d) ==
  /\ Moves("removeApps") /\ d \in Me.left /\ Me'.dir = d /\ Me'.left = Me.left \ {d}
  /\ Me'.apps = apps[d] /\ Me'.mem = Me.mem

LEMMA PickDoes ==
  ASSUME TypeOK, InPlace, PickLocation(Setup)
  PROVE  /\ Me.pc = "pick" /\ Me.cmd = "cleanup"
         /\ \/ Moves("deleteJournal") /\ Holds /\ Me.left = {}
            \/ \E d \in Dirs : Picked(d)
         /\ UNCHANGED <<scene, files, service, history, excused>>
<1>1. Me.pc = "pick" /\ Me.cmd = "cleanup" /\ UNCHANGED <<scene, files, service, history, excused>>
  BY DEF PickLocation, Me, InPlace, PlacedOK, CleanStage
<1>2. Me \in Process
  BY MeIs
<1>3. CASE Me.left = {} /\ Becomes(Setup, [Me EXCEPT !.pc = "deleteJournal"])
  BY <1>1, <1>2, <1>3 DEF Becomes, Me, Moves, Process, Holds
<1>4. ASSUME NEW d \in Me.left,
             Becomes(Setup, [Me EXCEPT !.pc = "removeApps", !.dir = d, !.left = @ \ {d},
                                       !.apps = apps[d]])
      PROVE  d \in Dirs /\ Picked(d)
  BY <1>2, <1>4 DEF Becomes, Me, Moves, Process, Picked
<1> QED BY <1>1, <1>3, <1>4, CleanIs DEF Me

LEMMA RemoveAppsDoes ==
  ASSUME TypeOK, InPlace, RemoveApps(Setup)
  PROVE  /\ Moves("restoreConf") /\ Holds /\ Me.pc = "removeApps" /\ Me.cmd = "cleanup"
         /\ Me'.conf = conf[Me.dir]
         /\ IF Cleaned(Me.mem[Me.dir], Me.apps) = Me.apps THEN UNCHANGED <<apps, made, lost>>
            ELSE PutApps(Setup, Cleaned(Me.mem[Me.dir], Me.apps))
         /\ UNCHANGED <<scene, conf, backup, journal, service, user, overridden, stranded, orphans,
                        strays, excused>>
<1>1. Becomes(Setup, [Me EXCEPT !.pc = "restoreConf", !.conf = conf[Me.dir]])
  BY CleanIs DEF Me
<1>2. Me \in Process
  BY MeIs
<1>3. Moves("restoreConf") /\ Holds /\ Me'.conf = conf[Me.dir]
  BY <1>1, <1>2 DEF Becomes, Me, Moves, Process, Holds
<1> QED BY <1>3 DEF RemoveApps, Me, InPlace, PlacedOK, CleanStage

LEMMA RestoreConfDoes ==
  ASSUME TypeOK, InPlace, RestoreConf(Setup)
  PROVE  /\ Moves("dropBackup") /\ Holds /\ Me.pc = "restoreConf" /\ Me.cmd = "cleanup"
         /\ IF Restored(Me.mem[Me.dir], Me.conf) = Me.conf
            THEN UNCHANGED <<conf, overridden, lost>>
            ELSE PutConf(Setup, Restored(Me.mem[Me.dir], Me.conf), {})
         /\ UNCHANGED <<scene, apps, backup, journal, service, made, user, stranded, orphans, strays,
                        excused>>
BY GotoMoves DEF RestoreConf, Me, InPlace, PlacedOK, CleanStage, Stage

LEMMA DropBackupDoes ==
  ASSUME TypeOK, InPlace, DropBackup(Setup)
  PROVE  /\ Moves("pick") /\ Holds /\ Me.pc = "dropBackup" /\ Me.cmd = "cleanup"
         /\ backup' = [backup EXCEPT ![Me.dir] =
                          IF Me.mem[Me.dir].backup /\ @ = "copy" THEN "none" ELSE @]
         /\ UNCHANGED <<scene, apps, conf, journal, service, history, excused>>
BY GotoMoves DEF DropBackup, Me, InPlace, PlacedOK, CleanStage, Stage

LEMMA DeleteJournalDoes ==
  ASSUME TypeOK, InPlace, DeleteJournal(Setup)
  PROVE  /\ proc' \in [Proc -> Process] /\ \A q \in Proc \ {Setup} : proc'[q] = proc[q]
         /\ Serves(Setup) /\ Me'.pc \in {"startQuery", "idle"} /\ Me.pc = "deleteJournal"
         /\ Me.cmd = "cleanup"
         /\ journal' = [d \in Dirs |-> NoEntry]
         /\ UNCHANGED <<scene, apps, conf, backup, service, history, excused>>
<1>1. AfterOperation(Setup)
  BY DEF DeleteJournal
<1>2. CASE Goto(Setup, "startQuery")
  BY <1>1, <1>2, GotoMoves, AfterOperationServes
     DEF Moves, DeleteJournal, Me, InPlace, PlacedOK, CleanStage, Stage
<1>3. CASE End(Setup)
  BY <1>1, <1>3, EndIs, AfterOperationServes DEF DeleteJournal, Me, InPlace, PlacedOK, CleanStage
<1> QED BY <1>1, <1>2, <1>3, AfterOperationIs

-----------------------------------------------------------------------------
(* Every step is one of these.                                             *)

\* The files stay; the set-up process stays too, or it is not at work on them.
Aside == FilesSame /\ (Same(Me', Me) \/ Me'.pc \notin Active)

UserStep(d) == UserEditsApps(d) \/ UserEditsBackup(d) \/ \E k \in scene.keys : UserSets(d, k)

SetupStep == \/ Load(Setup) \/ Edited \/ Save(Setup) \/ WriteApps(Setup) \/ WriteConf(Setup)
             \/ LoadJournal(Setup) \/ PickLocation(Setup) \/ RemoveApps(Setup)
             \/ RestoreConf(Setup) \/ DropBackup(Setup) \/ DeleteJournal(Setup)

QuietStep == \/ \E p \in Proc : ServiceStep(p)
             \/ ServiceArrives
             \/ /\ Me.pc = "edit" /\ End(Setup)
                /\ UNCHANGED <<scene, files, service, history, excused>>
             \/ UNCHANGED vars

LEMMA StepIs ==
  ASSUME TypeOK, InPlace, [Next]_vars
  PROVE  QuietStep \/ SetupStep \/ \E d \in scene.dirs : UserStep(d)
<1>1. ASSUME NEW p \in Proc,
             \/ Load(p) \/ Edit(p) \/ Save(p) \/ WriteApps(p) \/ WriteConf(p)
             \/ LoadJournal(p) \/ PickLocation(p) \/ RemoveApps(p) \/ RestoreConf(p)
             \/ DropBackup(p) \/ DeleteJournal(p)
      PROVE  QuietStep \/ SetupStep
  <2>1. p = Setup
    BY <1>1 DEF Load, Edit, Save, WriteApps, WriteConf, LoadJournal, PickLocation, RemoveApps,
                RestoreConf, DropBackup, DeleteJournal, InPlace, PlacedOK, ConfigureStage,
                CleanStage
  <2>2. Edit(Setup) => Me.pc = "edit"
    BY DEF Edit, Me
  <2> QED BY <1>1, <2>1, <2>2, EditDoes DEF SetupStep, QuietStep
<1>2. ASSUME NEW p \in Proc, Begin(p) \/ Step(p) \/ Throws(p) \/ Slow(p) \/ Kill(p)
      PROVE  QuietStep \/ SetupStep
  BY <1>1, <1>2 DEF Step, QuietStep, ServiceStep
<1> QED BY <1>2 DEF Next, QuietStep, UserStep

LEMMA QuietTyped ==
  ASSUME TypeOK, InPlace, QuietStep
  PROVE  TypeOK' /\ InPlace' /\ Aside
<1>1. ASSUME NEW p \in Proc, ServiceStep(p) PROVE TypeOK' /\ InPlace' /\ Aside
  <2>1. Serves(p) /\ FilesSame
    BY <1>1, ServiceServes
  <2>2. Aside
    BY <2>1 DEF Aside, Serves, Me
  <2> QED BY <1>1, <2>2, ServesTyped
<1>2. ASSUME ServiceArrives PROVE TypeOK' /\ InPlace' /\ Aside
  <2>1. FilesSame /\ proc' = proc /\ service' \in ServiceState /\ excused' = excused
    BY <1>2 DEF ServiceArrives, FilesSame, files, history, ServiceState
  <2> QED BY <2>1 DEF FilesSame, TypeOK, InPlace, PlacedOK, Aside, Same, Me
<1>3. ASSUME End(Setup), UNCHANGED <<scene, files, service, history, excused>>
      PROVE  TypeOK' /\ InPlace' /\ Aside
  <2>1. /\ proc' \in [Proc -> Process] /\ \A q \in Proc \ {Setup} : proc'[q] = proc[q]
        /\ proc'[Setup].pc = "idle" /\ proc'[Setup].cmd = "restart"
    BY <1>3, EndIs
  <2>2. FilesSame /\ service' = service /\ excused' = excused
    BY <1>3 DEF FilesSame, files, history
  <2>3. TypeOK'
    BY <2>1, <2>2 DEF TypeOK, FilesSame
  <2>4. InPlace'
    BY <2>1, <2>2 DEF InPlace, PlacedOK, FilesSame, ConfigureStage, CleanStage
  <2> QED BY <2>1, <2>2, <2>3, <2>4 DEF Aside, Me, Active, ConfigureStage, CleanStage
<1>4. ASSUME UNCHANGED vars PROVE TypeOK' /\ InPlace' /\ Aside
  <2>1. FilesSame /\ proc' = proc /\ service' = service /\ excused' = excused
    BY <1>4 DEF vars, FilesSame, files, history
  <2> QED BY <2>1 DEF FilesSame, TypeOK, InPlace, PlacedOK, Aside, Same, Me
<1> QED BY <1>1, <1>2, <1>3, <1>4 DEF QuietStep

\* The set-up process stays in its place, wherever one of its steps leads.
LEMMA MovesInPlace ==
  ASSUME InPlace, NEW stage, Moves(stage), UNCHANGED scene,
         \/ (stage \in ConfigureStage /\ Me.cmd = "configure")
         \/ (stage \in CleanStage /\ Me.cmd = "cleanup"),
         Me.cmd = "configure" => Me'.dir = Me.dir
  PROVE  InPlace'
<1>1. ASSUME NEW q \in Proc PROVE PlacedOK(q)'
  <2>1. CASE q = Setup
    BY <2>1 DEF InPlace, PlacedOK, Moves, Me, ConfigureStage, CleanStage
  <2>2. CASE q # Setup
    BY <2>2 DEF InPlace, PlacedOK, Moves
  <2> QED BY <2>1, <2>2
<1> QED BY <1>1 DEF InPlace

LEMMA SetupTyped ==
  ASSUME TypeOK, InPlace, SetupStep
  PROVE  TypeOK' /\ InPlace'
<1>0. Me \in Process /\ Me.dir \in Dirs /\ Me.mem[Me.dir] \in Entry /\ Me.apps \in AppsFile
      /\ Me.conf \in [Key -> Value] /\ Me.mem \in [Dirs -> Entry]
  BY MeIs DEF Process
<1>1. CASE Load(Setup)
  <2>0. /\ Moves("edit")
        /\ backup' = [backup EXCEPT ![Me.dir] = IF @ = "none" THEN "copy" ELSE @]
        /\ strays' = IF backup[Me.dir] = "none" THEN strays \union {Me.dir} ELSE strays
        /\ UNCHANGED <<scene, apps, conf, journal, service, made, user, overridden, stranded,
                       orphans, lost, excused>>
    BY <1>1, LoadDoes
  <2>1. TypeOK'
    BY <1>0, <2>0 DEF TypeOK, Moves
  <2>2. InPlace'
    BY <1>1, LoadDoes, MovesInPlace DEF ConfigureStage
  <2> QED BY <2>1, <2>2
<1>2. CASE Edited
  <2>1. TypeOK'
    BY <1>2 DEF Edited, TypeOK, Moves, files, history
  <2>2. InPlace'
    BY <1>2, MovesInPlace DEF Edited, ConfigureStage
  <2> QED BY <2>1, <2>2
<1>3. CASE Save(Setup)
  <2>1. apps[Me.dir].hooks \ Me.mem[Me.dir].hooks \in SUBSET Path
    BY <1>0 DEF TypeOK, AppsFile
  <2>2. Unlisted(Me.mem[Me.dir], conf[Me.dir]) \in SUBSET Key
    BY DEF Unlisted
  <2>0. /\ Moves("writeApps") /\ journal' = Me.mem
        /\ orphans' = [orphans EXCEPT ![Me.dir] = apps[Me.dir].hooks \ Me.mem[Me.dir].hooks]
        /\ stranded' = [stranded EXCEPT ![Me.dir] =
                           @ \union Unlisted(Me.mem[Me.dir], conf[Me.dir])]
        /\ strays' = IF Me.mem[Me.dir].backup THEN strays \ {Me.dir} ELSE strays
        /\ UNCHANGED <<scene, apps, conf, backup, service, made, user, overridden, lost, excused>>
    BY <1>3, SaveDoes
  <2>3. TypeOK'
    BY <1>0, <2>0, <2>1, <2>2 DEF TypeOK, Moves
  <2>4. InPlace'
    BY <1>3, SaveDoes, MovesInPlace DEF Holds, ConfigureStage
  <2> QED BY <2>3, <2>4
<1>4. CASE WriteApps(Setup)
  <2>1. NewApps(Me) \in AppsFile
    BY <1>0, NewFilesTyped
  <2>2. /\ apps' \in [Dirs -> AppsFile] /\ made' \in [Dirs -> Nat]
        /\ lost' \subseteq {"configure", "cleanup", "disturbed"}
    BY <1>4, <2>1, WriteAppsDoes, PutAppsTyped
  <2>3. TypeOK'
    BY <1>4, <2>2, WriteAppsDoes DEF TypeOK, Moves
  <2>4. InPlace'
    BY <1>4, WriteAppsDoes, MovesInPlace DEF Holds, ConfigureStage
  <2> QED BY <2>3, <2>4
<1>5. CASE WriteConf(Setup)
  <2>1. NewConf(Me) \in [Key -> Value]
    BY <1>0, NewFilesTyped
  <2>2. Replaced(Me.mem[Me.dir], conf[Me.dir], NewConf(Me)) \in SUBSET Key
    BY DEF Replaced
  <2>3. /\ conf' \in [Dirs -> [Key -> Value]] /\ overridden' \in [Dirs -> SUBSET Key]
        /\ lost' \subseteq {"configure", "cleanup", "disturbed"}
    BY <1>5, <2>1, <2>2, WriteConfDoes, PutConfTyped
  <2>4. TypeOK'
    BY <1>5, <2>3, WriteConfDoes DEF TypeOK, StillStranded
  <2>5. InPlace'
    BY <1>5, WriteConfDoes DEF InPlace, PlacedOK, Me, ConfigureStage, CleanStage
  <2> QED BY <2>4, <2>5
<1>6. CASE LoadJournal(Setup)
  BY <1>6, LoadJournalDoes, MovesInPlace DEF TypeOK, Moves, CleanStage, files, history
<1>7. CASE PickLocation(Setup)
  <2>1. PICK stage \in CleanStage : Moves(stage)
    BY <1>7, PickDoes DEF Picked, CleanStage
  <2> QED BY <1>7, <2>1, PickDoes, MovesInPlace DEF TypeOK, Moves, files, history
<1>8. CASE RemoveApps(Setup)
  <2>1. Cleaned(Me.mem[Me.dir], Me.apps) \in AppsFile
    BY <1>0, CleanedTyped
  <2>2. /\ apps' \in [Dirs -> AppsFile] /\ made' \in [Dirs -> Nat]
        /\ lost' \subseteq {"configure", "cleanup", "disturbed"}
    BY <1>8, <2>1, RemoveAppsDoes, PutAppsTyped DEF TypeOK
  <2> QED BY <1>8, <2>2, RemoveAppsDoes, MovesInPlace DEF TypeOK, Moves, CleanStage
<1>9. CASE RestoreConf(Setup)
  <2>1. Restored(Me.mem[Me.dir], Me.conf) \in [Key -> Value]
    BY <1>0, RestoredTyped
  <2>2. /\ conf' \in [Dirs -> [Key -> Value]] /\ overridden' \in [Dirs -> SUBSET Key]
        /\ lost' \subseteq {"configure", "cleanup", "disturbed"}
    BY <1>9, <2>1, RestoreConfDoes, PutConfTyped DEF TypeOK
  <2> QED BY <1>9, <2>2, RestoreConfDoes, MovesInPlace DEF TypeOK, Moves, CleanStage, Holds
<1>10. CASE DropBackup(Setup)
  <2>1. UNCHANGED <<scene, apps, conf, journal, service, made, user, overridden, stranded, orphans,
                    strays, lost, excused>>
    BY <1>10, DropBackupDoes DEF history
  <2>2. backup' \in [Dirs -> {"none", "copy", "edited"}] /\ proc' \in [Proc -> Process]
    BY <1>10, DropBackupDoes DEF TypeOK, Moves
  <2>3. TypeOK'
    BY <2>1, <2>2 DEF TypeOK
  <2>4. InPlace'
    BY <1>10, DropBackupDoes, MovesInPlace DEF CleanStage
  <2> QED BY <2>3, <2>4
<1>11. CASE DeleteJournal(Setup)
  <2>0. UNCHANGED <<scene, apps, conf, backup, service, made, user, overridden, stranded, orphans,
                    strays, lost, excused>>
    BY <1>11, DeleteJournalDoes DEF history
  <2>1. TypeOK'
    BY <1>11, <2>0, DeleteJournalDoes, NoEntryIs DEF TypeOK
  <2>2. InPlace'
    BY <1>11, DeleteJournalDoes DEF InPlace, PlacedOK, Serves, Me, ConfigureStage, CleanStage
  <2> QED BY <2>1, <2>2
<1> QED BY <1>1, <1>2, <1>3, <1>4, <1>5, <1>6, <1>7, <1>8, <1>9, <1>10, <1>11 DEF SetupStep

LEMMA UserTyped ==
  ASSUME TypeOK, InPlace, NEW d \in scene.dirs, UserStep(d)
  PROVE  TypeOK' /\ InPlace' /\ UNCHANGED <<scene, journal, service, proc, orphans, strays, lost>>
<1>1. /\ d \in Dirs /\ scene.keys \subseteq Key
      /\ UNCHANGED <<scene, journal, service, proc, orphans, strays, lost>>
  BY SceneIs DEF UserStep, UserEditsApps, UserEditsBackup, UserSets, history
<1>2. InPlace'
  BY <1>1 DEF InPlace, PlacedOK
<1>3. CASE UserEditsApps(d)
  <2>1. PICK managed \in {"absent", "edited", apps[d].managed} :
          apps' = [apps EXCEPT ![d] = [user |-> made[d] + 1, managed |-> managed,
                                       hooks |-> IF managed = "absent" THEN {} ELSE @.hooks]]
    BY <1>3 DEF UserEditsApps
  <2> DEFINE file == [user |-> made[d] + 1, managed |-> managed,
                      hooks |-> IF managed = "absent" THEN {} ELSE apps[d].hooks]
  <2>a. file \in AppsFile /\ apps' = [apps EXCEPT ![d] = file]
    BY <1>1, <2>1 DEF TypeOK, AppsFile
  <2> HIDE DEF file
  <2>2. apps' \in [Dirs -> AppsFile]
    BY <2>a DEF TypeOK
  <2>3. made' \in [Dirs -> Nat]
    BY <1>1, <1>3 DEF TypeOK, UserEditsApps
  <2> QED BY <1>1, <1>2, <1>3, <2>2, <2>3 DEF TypeOK, UserEditsApps
<1>4. CASE UserEditsBackup(d)
  BY <1>1, <1>2, <1>4 DEF TypeOK, UserEditsBackup, history
<1>5. ASSUME NEW k \in scene.keys, UserSets(d, k) PROVE TypeOK'
  <2>1. PICK v \in UserValue \ {conf[d][k]} :
          conf' = [conf EXCEPT ![d][k] = v] /\ user' = [user EXCEPT ![d][k] = v]
    BY <1>5 DEF UserSets
  <2>2. conf' \in [Dirs -> [Key -> Value]] /\ user' \in [Dirs -> [Key -> UserValue]]
    BY <1>1, <2>1 DEF TypeOK, Value
  <2> QED BY <1>1, <1>5, <2>2 DEF TypeOK, UserSets
<1> QED BY <1>1, <1>2, <1>3, <1>4, <1>5 DEF UserStep

-----------------------------------------------------------------------------
(* Types.                                                                  *)

LEMMA InitTyped == Init => TypeOK /\ InPlace
<1> SUFFICES ASSUME Init PROVE TypeOK /\ InPlace
  OBVIOUS
<1>1. \A p \in Proc : proc[p] = Resting(AnyPath)
  BY DEF Init
<1>2. InPlace
  BY <1>1 DEF InPlace, PlacedOK, Resting, ConfigureStage, CleanStage
<1>3. PICK old \in SUBSET Path :
        /\ apps = [d \in Dirs |-> [user |-> 0, hooks |-> old,
                                   managed |-> IF old = {} THEN "absent" ELSE "generated"]]
        /\ orphans = [d \in Dirs |-> old]
  BY DEF Init, Scene
<1>4. apps \in [Dirs -> AppsFile] /\ orphans \in [Dirs -> SUBSET Path]
  BY <1>3 DEF AppsFile
<1>5. conf \in [Dirs -> [Key -> Value]] /\ user \in [Dirs -> [Key -> UserValue]]
  BY DEF Init, Value
<1> QED BY <1>2, <1>4, <1>5, AnyPathIs, RestingIs, NoEntryIs DEF Init, TypeOK, ServiceState

\* Types are kept: the runs' type invariant, for every value of the constants.
THEOREM Typed == Spec => [](TypeOK /\ InPlace)
<1>1. ASSUME TypeOK, InPlace, [Next]_vars PROVE TypeOK' /\ InPlace'
  BY <1>1, StepIs, QuietTyped, SetupTyped, UserTyped
<1> QED BY <1>1, InitTyped, PTL DEF Spec

-----------------------------------------------------------------------------
(* What the set-up process has in memory, and the journal.                 *)

\* Between reading the journal and saving it, it agrees with the journal but for
\* the location at hand; before and after, wholly.
MemIsJournal ==
  /\ Me.pc \in {"edit", "save"} =>
       /\ \A d \in Dirs \ {Me.dir} : Me.mem[d] = journal[d]
       /\ journal[Me.dir].backup => Me.mem[Me.dir].backup
  /\ Me.pc = "edit" =>
       /\ Me.mem[Me.dir].values = journal[Me.dir].values
       /\ Me.mem[Me.dir].hooks = journal[Me.dir].hooks
       /\ Me.mem[Me.dir].created = journal[Me.dir].created
  /\ Me.pc \in {"writeApps", "writeConf"} \union CleanStage => Me.mem = journal

\* The values set are claimed, and the hook is listed.
MemIsEdited ==
  /\ Me.pc = "save" =>
       \A k \in Key : Me.mem[Me.dir].values[k] =
                        Claim(journal[Me.dir].values[k], Me.conf[k], Me.set[k])
  /\ Me.pc \in {"save", "writeApps", "writeConf"} =>
       \A k \in Key : /\ Me.set[k] \in Ours \union {"keep"}
                      /\ Me.set[k] # "keep" =>
                           /\ Me.mem[Me.dir].values[k] # Free
                           /\ Me.mem[Me.dir].values[k].applied = Me.set[k]
  /\ Me.pc \in {"save", "writeApps"} => Me.mem[Me.dir].hooks = NewHooks(Me)

\* Only locations there are have an entry, with values that configure sets.
JournalIs ==
  /\ \A d \in Dirs \ scene.dirs : journal[d] = NoEntry
  /\ \A d \in Dirs : \A k \in Key :
       journal[d].values[k] # Free => journal[d].values[k].applied \in Ours

\* The journal is deleted when no location is left.
NoneLeft == Me.pc = "deleteJournal" => Me.left = {}

Memory == MemIsJournal /\ MemIsEdited /\ JournalIs /\ NoneLeft

LEMMA SameHooks ==
  ASSUME Me'.mode = Me.mode, Me'.path = Me.path
  PROVE  NewHooks(Me') = NewHooks(Me)
BY DEF NewHooks

LEMMA AsideMemory ==
  ASSUME Memory, UNCHANGED <<scene, journal>>, Same(Me', Me) \/ Me'.pc \notin Active
  PROVE  Memory'
<1>1. CASE Me'.pc \notin Active
  BY <1>1 DEF Memory, MemIsJournal, MemIsEdited, JournalIs, NoneLeft, Active, ConfigureStage, CleanStage
<1>2. CASE Same(Me', Me)
  <2>1. NewHooks(Me') = NewHooks(Me)
    BY <1>2, SameHooks DEF Same
  <2>2. MemIsJournal'
    BY <1>2 DEF Same, Memory, MemIsJournal
  <2>3. MemIsEdited'
    BY <1>2, <2>1 DEF Same, Memory, MemIsEdited
  <2> QED BY <1>2, <2>2, <2>3 DEF Same, Memory, JournalIs, NoneLeft
<1> QED BY <1>1, <1>2

LEMMA SetupMemory ==
  ASSUME TypeOK, InPlace, Memory, SetupStep
  PROVE  Memory'
<1> USE DEF Memory, CleanStage
<1>0. Me \in Process /\ Me.dir \in Dirs /\ \A d \in Dirs : Me.mem[d] \in Entry /\ journal[d] \in Entry
  BY MeIs DEF Process, TypeOK
<1>1. CASE Load(Setup)
  BY <1>0, <1>1, LoadDoes DEF Moves, MemIsJournal, MemIsEdited, JournalIs, NoneLeft
<1>2. CASE Edited
  <2>1. UNCHANGED <<scene, journal>>
    BY <1>2 DEF Edited, files
  <2>2. \A k \in Key : Me.mem[Me.dir].values[k] \in Owned \union {Free} /\ Me.conf[k] \in Value
    BY <1>0 DEF Process, Entry
  <2>3. \A k \in Key : Me'.set[k] # "keep" => /\ Me'.mem[Me.dir].values[k] # Free
                                              /\ Me'.mem[Me.dir].values[k].applied = Me'.set[k]
    BY <1>2, <2>2, ClaimIs DEF Edited
  <2>4. MemIsEdited'
    BY <1>0, <1>2, <2>1, <2>3 DEF Edited, Moves, MemIsEdited, MemIsJournal
  <2>5. MemIsJournal'
    BY <1>0, <1>2, <2>1 DEF Edited, Moves, MemIsJournal
  <2> QED BY <1>2, <2>1, <2>4, <2>5 DEF Edited, Moves, JournalIs, NoneLeft
<1>3. CASE Save(Setup)
  <2>0. /\ Moves("writeApps") /\ Holds /\ Me.pc = "save" /\ Me.dir \in scene.dirs
        /\ journal' = Me.mem /\ UNCHANGED scene
    BY <1>3, SaveDoes
  <2>1. MemIsJournal' /\ NoneLeft'
    BY <2>0 DEF Moves, Holds, MemIsJournal, NoneLeft
  <2>2. NewHooks(Me') = NewHooks(Me)
    BY <2>0, SameHooks DEF Moves
  <2>3. MemIsEdited'
    BY <2>0, <2>2 DEF Moves, Holds, MemIsEdited
  <2>4. ASSUME NEW d \in Dirs, NEW k \in Key, Me.mem[d].values[k] # Free
        PROVE  Me.mem[d].values[k].applied \in Ours
    <3>1. CASE d # Me.dir
      BY <2>0, <2>4, <3>1 DEF MemIsJournal, JournalIs
    <3>2. CASE d = Me.dir /\ Me.set[k] # "keep"
      BY <2>0, <3>2 DEF MemIsEdited
    <3>3. CASE d = Me.dir /\ Me.set[k] = "keep"
      <4>1. Me.mem[d].values[k] = journal[d].values[k]
        BY <2>0, <3>3 DEF MemIsEdited, Claim
      <4> QED BY <2>4, <4>1 DEF JournalIs
    <3> QED BY <3>1, <3>2, <3>3
  <2>5. JournalIs'
    BY <2>0, <2>4 DEF JournalIs, MemIsJournal
  <2> QED BY <2>1, <2>3, <2>5
<1>4. CASE WriteApps(Setup)
  <2>0. /\ Moves("writeConf") /\ Holds /\ Me.pc = "writeApps" /\ UNCHANGED <<scene, journal>>
    BY <1>4, WriteAppsDoes
  <2> QED BY <2>0 DEF Moves, Holds, MemIsJournal, MemIsEdited, JournalIs, NoneLeft
<1>5. CASE WriteConf(Setup)
  <2>1. Me'.pc \notin Active /\ UNCHANGED <<scene, journal>>
    BY <1>5, WriteConfDoes DEF Active, ConfigureStage
  <2> QED BY <2>1, AsideMemory
<1>6. CASE LoadJournal(Setup)
  <2>0. Moves("pick") /\ Me'.mem = journal /\ UNCHANGED <<scene, journal>>
    BY <1>6, LoadJournalDoes DEF files
  <2> QED BY <2>0 DEF Moves, MemIsJournal, MemIsEdited, JournalIs, NoneLeft
<1>7. CASE PickLocation(Setup)
  <2>0. UNCHANGED <<scene, journal>> /\ Me.mem = journal
    BY <1>7, PickDoes DEF files, MemIsJournal
  <2>1. \/ Moves("deleteJournal") /\ Me'.mem = Me.mem /\ Me'.left = {}
        \/ Moves("removeApps") /\ Me'.mem = Me.mem
    BY <1>7, PickDoes DEF Holds, Picked
  <2> QED BY <2>0, <2>1 DEF Moves, MemIsJournal, MemIsEdited, JournalIs, NoneLeft
<1>8. CASE RemoveApps(Setup)
  <2>0. Moves("restoreConf") /\ Holds /\ Me.pc = "removeApps" /\ UNCHANGED <<scene, journal>>
    BY <1>8, RemoveAppsDoes
  <2> QED BY <2>0 DEF Moves, Holds, MemIsJournal, MemIsEdited, JournalIs, NoneLeft
<1>9. CASE RestoreConf(Setup)
  <2>0. Moves("dropBackup") /\ Holds /\ Me.pc = "restoreConf" /\ UNCHANGED <<scene, journal>>
    BY <1>9, RestoreConfDoes
  <2> QED BY <2>0 DEF Moves, Holds, MemIsJournal, MemIsEdited, JournalIs, NoneLeft
<1>10. CASE DropBackup(Setup)
  <2>0. Moves("pick") /\ Holds /\ Me.pc = "dropBackup" /\ UNCHANGED <<scene, journal>>
    BY <1>10, DropBackupDoes
  <2> QED BY <2>0 DEF Moves, Holds, MemIsJournal, MemIsEdited, JournalIs, NoneLeft
<1>11. CASE DeleteJournal(Setup)
  <2>0. Me'.pc \in {"startQuery", "idle"} /\ journal' = [d \in Dirs |-> NoEntry] /\ UNCHANGED scene
    BY <1>11, DeleteJournalDoes
  <2>1. JournalIs'
    BY <2>0 DEF JournalIs, NoEntry
  <2> QED BY <2>0, <2>1 DEF MemIsJournal, MemIsEdited, NoneLeft
<1> QED BY <1>1, <1>2, <1>3, <1>4, <1>5, <1>6, <1>7, <1>8, <1>9, <1>10, <1>11 DEF SetupStep

LEMMA InitMemory == Init => Memory
<1> SUFFICES ASSUME Init PROVE Memory
  OBVIOUS
<1>1. Me.pc = "idle" /\ journal = [d \in Dirs |-> NoEntry]
  BY DEF Init, Me, Resting
<1>2. JournalIs
  BY <1>1 DEF JournalIs, NoEntry
<1> QED BY <1>1, <1>2 DEF Memory, MemIsJournal, MemIsEdited, NoneLeft, CleanStage

-----------------------------------------------------------------------------
(* What is ours is listed.                                                 *)

Generated(file) == file.managed = "generated"

\* The person may have taken hooks or our application away since they were read.
ReadApps ==
  Me.pc \in {"edit", "save", "removeApps"} =>
    /\ apps[Me.dir].hooks \subseteq Me.apps.hooks
    /\ Generated(apps[Me.dir]) => Generated(Me.apps) /\ apps[Me.dir].hooks = Me.apps.hooks

\* What was read is listed, or was there before the journal.
KnownApps ==
  /\ Me.pc \in {"edit", "removeApps"} =>
       (Generated(Me.apps) => \/ journal[Me.dir].created
                              \/ Me.apps.hooks \ journal[Me.dir].hooks # {})
  /\ Me.pc = "removeApps" => Me.apps.hooks \subseteq journal[Me.dir].hooks \union orphans[Me.dir]
  /\ Me.pc \in {"save", "writeApps"} => (Generated(NewApps(Me)) => Me.mem[Me.dir].created)

\* What is there is listed, or known to the history.
Listed ==
  \A d \in Dirs :
    /\ apps[d].hooks \subseteq journal[d].hooks \union orphans[d]
    /\ Generated(apps[d]) => journal[d].created \/ apps[d].hooks \ journal[d].hooks # {}
    /\ backup[d] = "copy" => journal[d].backup \/ d \in strays

\* A location that the removal is through with needs no entry any more.
AppsDone(d) == /\ apps[d].hooks \subseteq orphans[d]
               /\ Generated(apps[d]) => apps[d].hooks # {}
BackupDone(d) == backup[d] = "copy" => d \in strays
Done(d) == /\ Me.pc \in CleanStage /\ d \in scene.dirs \ Me.left
           /\ d = Me.dir => Me.pc \in {"pick", "deleteJournal"}
Through ==
  /\ \A d \in Dirs : Done(d) => AppsDone(d) /\ BackupDone(d)
  /\ Me.pc \in {"restoreConf", "dropBackup"} => AppsDone(Me.dir)

Kept == ReadApps /\ KnownApps /\ Listed /\ Through

\* What the removal writes.
LEMMA CleanedIs ==
  ASSUME NEW entry \in Entry, NEW file \in AppsFile
  PROVE  /\ Cleaned(entry, file).hooks = file.hooks \ entry.hooks
         /\ Generated(Cleaned(entry, file)) =>
              Generated(file) /\ ~(entry.created /\ file.hooks \ entry.hooks = {})
<1> DEFINE hooks == file.hooks \ entry.hooks
<1>1. CASE entry.created /\ Generated(file) /\ hooks = {}
  <2>1. Cleaned(entry, file) = [file EXCEPT !.hooks = {}, !.managed = "absent"]
    BY <1>1 DEF Cleaned, RemoveOwnedHooks, IsUnchangedGeneratedManagedApplication, Generated
  <2> QED BY <1>1, <2>1 DEF AppsFile, Generated
<1>2. CASE ~(entry.created /\ Generated(file) /\ hooks = {})
  <2>1. Cleaned(entry, file) = [file EXCEPT !.hooks = hooks]
    BY <1>2 DEF Cleaned, RemoveOwnedHooks, IsUnchangedGeneratedManagedApplication, Generated
  <2> QED BY <1>2, <2>1 DEF AppsFile, Generated
<1> QED BY <1>1, <1>2

LEMMA PutAppsIs ==
  ASSUME TypeOK, NEW file \in AppsFile, PutApps(Setup, file)
  PROVE  apps'[Me.dir] = file /\ \A d \in Dirs \ {Me.dir} : apps'[d] = apps[d]
BY MeIs DEF PutApps, Me, TypeOK

LEMMA AsideKept ==
  ASSUME TypeOK, Kept, Aside
  PROVE  Kept'
<1>0. Me.dir \in Dirs
  BY MeIs
<1>1. FilesSame
  BY DEF Aside
<1>2. Listed'
  BY <1>1 DEF Kept, Listed, FilesSame, Generated
<1>3. CASE Me'.pc \notin Active
  BY <1>2, <1>3 DEF Kept, ReadApps, KnownApps, Through, Done, Active, ConfigureStage, CleanStage
<1>4. CASE Same(Me', Me)
  <2>1. NewApps(Me') = NewApps(Me)
    BY <1>4, SameHooks DEF Same, NewApps
  <2>2. ReadApps'
    BY <1>0, <1>1, <1>4 DEF Kept, ReadApps, Same, FilesSame, Generated
  <2>3. KnownApps'
    BY <1>0, <1>1, <1>4, <2>1 DEF Kept, KnownApps, Same, FilesSame, Generated
  <2>4. Through'
    BY <1>0, <1>1, <1>4 DEF Kept, Through, Done, AppsDone, BackupDone, Same, FilesSame, Generated
  <2> QED BY <1>2, <2>2, <2>3, <2>4 DEF Kept
<1> QED BY <1>3, <1>4 DEF Aside

\* The person takes hooks and our application away, and never makes them.
LEMMA UserKept ==
  ASSUME TypeOK, InPlace, Kept, NEW d \in scene.dirs, UserStep(d)
  PROVE  Kept'
<1>0. Me.dir \in Dirs /\ d \in Dirs
  BY MeIs, SceneIs
<1>1. UNCHANGED <<scene, journal, proc, orphans, strays>>
  BY UserTyped
<1>2. \A e \in Dirs : /\ apps'[e].hooks \subseteq apps[e].hooks
                      /\ Generated(apps'[e]) => Generated(apps[e]) /\ apps'[e].hooks = apps[e].hooks
                      /\ backup'[e] = "copy" => backup[e] = "copy"
  <2>1. CASE UserEditsApps(d)
    <3>1. PICK managed \in {"absent", "edited", apps[d].managed} :
            apps' = [apps EXCEPT ![d] = [user |-> made[d] + 1, managed |-> managed,
                                         hooks |-> IF managed = "absent" THEN {} ELSE @.hooks]]
      BY <2>1 DEF UserEditsApps
    <3>2. backup' = backup
      BY <2>1 DEF UserEditsApps
    <3> QED BY <1>0, <3>1, <3>2 DEF TypeOK, Generated
  <2>2. CASE UserEditsBackup(d)
    BY <2>2 DEF UserEditsBackup, TypeOK, Generated
  <2>3. CASE \E k \in scene.keys : UserSets(d, k)
    BY <2>3 DEF UserSets, Generated
  <2> QED BY <2>1, <2>2, <2>3 DEF UserStep
<1> HIDE DEF Generated
<1>3. Me' = Me
  BY <1>1 DEF Me
<1>4. ReadApps'
  BY <1>0, <1>2, <1>3 DEF Kept, ReadApps
<1>5. KnownApps'
  <2>1. Generated(Me'.apps) = Generated(Me.apps) /\ Generated(NewApps(Me')) = Generated(NewApps(Me))
    BY <1>3
  <2> QED BY <1>1, <1>3, <2>1 DEF Kept, KnownApps
<1>6. Listed'
  BY <1>1, <1>2 DEF Kept, Listed
<1>7. Through'
  BY <1>0, <1>1, <1>2, <1>3 DEF Kept, Through, Done, AppsDone, BackupDone
<1> QED BY <1>4, <1>5, <1>6, <1>7 DEF Kept

\* An application that is generated after configure has been claimed.
LEMMA CreatedIs ==
  ASSUME NEW m \in Process
  PROVE  Generated(NewApps(m)) =>
           \/ Generated(m.apps)
           \/ m.mode # "native" /\ m.apps.managed = "absent"
BY DEF NewApps, Generated, Process, AppsFile

LEMMA NewGenerated ==
  ASSUME NEW m \in Process, Generated(m.apps)
  PROVE  Generated(NewApps(m))
BY DEF NewApps, Generated

LEMMA ConfigureKept ==
  ASSUME TypeOK, InPlace, Memory, Kept,
         Load(Setup) \/ Edited \/ Save(Setup) \/ WriteApps(Setup) \/ WriteConf(Setup)
  PROVE  Kept'
<1>0. /\ Me \in Process /\ Me' \in Process /\ Me.dir \in Dirs
      /\ Me.mem[Me.dir] \in Entry /\ journal[Me.dir] \in Entry
  <2>1. TypeOK'
    BY SetupTyped DEF SetupStep
  <2> QED BY <2>1, MeIs DEF Process, TypeOK, Me
<1>1. CASE Load(Setup)
  <2>0. /\ Moves("edit") /\ Me'.dir = Me.dir /\ Me'.apps = apps[Me.dir]
        /\ backup' = [backup EXCEPT ![Me.dir] = IF @ = "none" THEN "copy" ELSE @]
        /\ strays' = IF backup[Me.dir] = "none" THEN strays \union {Me.dir} ELSE strays
        /\ UNCHANGED <<scene, apps, journal, orphans>>
    BY <1>1, LoadDoes
  <2>1. ReadApps'
    BY <2>0 DEF ReadApps, Generated
  <2>2. KnownApps'
    BY <1>0, <2>0 DEF Kept, KnownApps, Listed, Generated, Moves
  <2>3. Listed'
    BY <1>0, <2>0 DEF Kept, Listed, Generated, TypeOK
  <2>4. Through'
    BY <2>0 DEF Through, Done, Moves, CleanStage
  <2> QED BY <2>1, <2>2, <2>3, <2>4 DEF Kept
<1>2. CASE Edited
  <2>0. /\ Moves("save") /\ Me.pc = "edit" /\ Me'.dir = Me.dir /\ Me'.apps = Me.apps
        /\ Me'.mem[Me.dir].created = CreatedApplication(Me.mem[Me.dir], Me.apps, Me.mode)
        /\ UNCHANGED <<scene, apps, backup, journal, orphans, strays>>
    BY <1>2 DEF Edited, files, history
  <2>1. ReadApps'
    BY <2>0 DEF Kept, ReadApps, Moves, Generated
  <2>2. ASSUME Generated(NewApps(Me')) PROVE Me'.mem[Me.dir].created
    <3>1. Generated(Me.apps) \/ (Me.mode # "native" /\ Me.apps.managed = "absent")
      BY <1>0, <2>0, <2>2, CreatedIs DEF Moves
    <3>2. /\ Me.mem[Me.dir].created = journal[Me.dir].created
          /\ Me.mem[Me.dir].hooks = journal[Me.dir].hooks
      BY <2>0 DEF Memory, MemIsJournal
    <3>3. Generated(Me.apps) =>
            journal[Me.dir].created \/ Me.apps.hooks \ journal[Me.dir].hooks # {}
      BY <2>0 DEF Kept, KnownApps
    <3> QED BY <2>0, <3>1, <3>2, <3>3
            DEF CreatedApplication, HasLegacyGeneratedHook, RemoveOwnedHooks, Generated,
                IsUnchangedGeneratedManagedApplication
  <2>3. KnownApps'
    BY <2>0, <2>2 DEF KnownApps, Moves
  <2>4. Listed'
    BY <2>0 DEF Kept, Listed, Generated
  <2>5. Through'
    BY <2>0 DEF Through, Done, Moves, CleanStage
  <2> QED BY <2>1, <2>3, <2>4, <2>5 DEF Kept
<1>3. CASE Save(Setup)
  <2>0. /\ Moves("writeApps") /\ Holds /\ Me'.apps = Me.apps /\ Me.pc = "save"
        /\ journal' = Me.mem
        /\ orphans' = [orphans EXCEPT ![Me.dir] = apps[Me.dir].hooks \ Me.mem[Me.dir].hooks]
        /\ strays' = IF Me.mem[Me.dir].backup THEN strays \ {Me.dir} ELSE strays
        /\ UNCHANGED <<scene, apps, backup>>
    BY <1>3, SaveDoes
  <2>1. NewApps(Me') = NewApps(Me)
    BY <2>0, SameHooks DEF NewApps, Moves
  <2>2. KnownApps'
    BY <2>0, <2>1 DEF Kept, KnownApps, Moves, Holds
  <2>3. Generated(apps[Me.dir]) => Me.mem[Me.dir].created
    BY <1>0, <2>0, NewGenerated DEF Kept, ReadApps, KnownApps
  <2>4. /\ \A d \in Dirs \ {Me.dir} : Me.mem[d] = journal[d]
        /\ journal[Me.dir].backup => Me.mem[Me.dir].backup
    BY <2>0 DEF Memory, MemIsJournal
  <2>5. /\ orphans'[Me.dir] = apps[Me.dir].hooks \ Me.mem[Me.dir].hooks
        /\ \A d \in Dirs \ {Me.dir} : orphans'[d] = orphans[d]
    BY <1>0, <2>0 DEF TypeOK
  <2>6. ASSUME NEW d \in Dirs
        PROVE  /\ apps[d].hooks \subseteq Me.mem[d].hooks \union orphans'[d]
               /\ Generated(apps[d]) => Me.mem[d].created \/ apps[d].hooks \ Me.mem[d].hooks # {}
               /\ backup[d] = "copy" => Me.mem[d].backup \/ d \in strays'
    BY <1>0, <2>0, <2>3, <2>4, <2>5 DEF Kept, Listed
  <2>7. Listed'
    BY <2>0, <2>6 DEF Listed, Generated
  <2> QED BY <2>0, <2>2, <2>7 DEF Kept, ReadApps, Through, Done, Moves, CleanStage
<1>4. CASE WriteApps(Setup)
  <2>0. /\ Moves("writeConf") /\ Holds /\ Me.pc = "writeApps"
        /\ PutApps(Setup, NewApps(Me)) /\ orphans' = [orphans EXCEPT ![Me.dir] = {}]
        /\ UNCHANGED <<scene, backup, journal, strays>>
    BY <1>4, WriteAppsDoes
  <2>1. /\ NewApps(Me) \in AppsFile /\ NewApps(Me).hooks = NewHooks(Me)
        /\ apps'[Me.dir] = NewApps(Me) /\ \A d \in Dirs \ {Me.dir} : apps'[d] = apps[d]
    BY <1>0, <2>0, NewFilesTyped, PutAppsIs
  <2>2. Me.mem = journal /\ Me.mem[Me.dir].hooks = NewHooks(Me)
    BY <2>0 DEF Memory, MemIsJournal, MemIsEdited
  <2>3. Generated(NewApps(Me)) => journal[Me.dir].created
    BY <2>0, <2>2 DEF Kept, KnownApps
  <2>4. \A d \in Dirs \ {Me.dir} : orphans'[d] = orphans[d]
    BY <1>0, <2>0 DEF TypeOK
  <2>5. Listed'
    <3> SUFFICES ASSUME NEW d \in Dirs
                 PROVE  /\ apps'[d].hooks \subseteq journal[d].hooks \union orphans'[d]
                        /\ Generated(apps'[d]) => journal[d].created \/ apps'[d].hooks \ journal[d].hooks # {}
                        /\ backup[d] = "copy" => journal[d].backup \/ d \in strays
      BY <2>0 DEF Listed, Generated
    <3>1. CASE d = Me.dir
      BY <2>1, <2>2, <2>3, <3>1 DEF Kept, Listed
    <3>2. CASE d # Me.dir
      BY <2>1, <2>4, <3>2 DEF Kept, Listed
    <3> QED BY <3>1, <3>2
  <2> QED BY <2>0, <2>5 DEF Kept, ReadApps, KnownApps, Through, Done, Moves, CleanStage
<1>5. CASE WriteConf(Setup)
  <2>0. Me'.pc = "idle" /\ UNCHANGED <<scene, apps, backup, journal, orphans, strays>>
    BY <1>5, WriteConfDoes
  <2>1. Listed'
    BY <2>0 DEF Kept, Listed, Generated
  <2> QED BY <2>0, <2>1 DEF Kept, ReadApps, KnownApps, Through, Done, CleanStage
<1> QED BY <1>1, <1>2, <1>3, <1>4, <1>5

LEMMA CleanKept ==
  ASSUME TypeOK, InPlace, Memory, Kept,
         \/ LoadJournal(Setup) \/ PickLocation(Setup) \/ RemoveApps(Setup)
         \/ RestoreConf(Setup) \/ DropBackup(Setup) \/ DeleteJournal(Setup)
  PROVE  Kept'
<1>0. Me \in Process /\ Me.dir \in Dirs /\ Me.mem[Me.dir] \in Entry /\ Me.apps \in AppsFile
  BY MeIs DEF Process
<1>1. CASE LoadJournal(Setup)
  <2>0. /\ Moves("pick") /\ Me'.left = scene.dirs
        /\ UNCHANGED <<scene, apps, backup, journal, orphans, strays>>
    BY <1>1, LoadJournalDoes DEF files, history
  <2>1. Listed'
    BY <2>0 DEF Kept, Listed, Generated
  <2> QED BY <2>0, <2>1 DEF Kept, ReadApps, KnownApps, Through, Done, Moves
<1>2. CASE PickLocation(Setup)
  <2>0. Me.pc = "pick" /\ UNCHANGED <<scene, apps, backup, journal, orphans, strays>>
    BY <1>2, PickDoes DEF files, history
  <2>1. Listed'
    BY <2>0 DEF Kept, Listed, Generated
  <2>2. CASE Moves("deleteJournal") /\ Holds
    <3>1. Through'
      BY <2>0, <2>2 DEF Kept, Through, Done, Moves, Holds, CleanStage, AppsDone, BackupDone, Generated
    <3> QED BY <2>1, <2>2, <3>1 DEF Kept, ReadApps, KnownApps, Moves
  <2>3. ASSUME NEW d \in Dirs, Picked(d) PROVE Kept'
    <3>1. Through'
      BY <2>0, <2>3 DEF Kept, Through, Done, Picked, Moves, CleanStage, AppsDone, BackupDone, Generated
    <3>2. ReadApps'
      BY <2>0, <2>3 DEF Picked, Moves, ReadApps, Generated
    <3>3. KnownApps'
      BY <2>0, <2>3 DEF Kept, Listed, Picked, Moves, KnownApps, Generated
    <3> QED BY <2>1, <3>1, <3>2, <3>3 DEF Kept
  <2> QED BY <1>2, <2>2, <2>3, PickDoes
<1>3. CASE RemoveApps(Setup)
  <2> DEFINE file == Cleaned(Me.mem[Me.dir], Me.apps)
  <2>0. /\ Moves("restoreConf") /\ Holds /\ Me.pc = "removeApps"
        /\ IF file = Me.apps THEN apps' = apps ELSE PutApps(Setup, file)
        /\ UNCHANGED <<scene, backup, journal, orphans, strays>>
    BY <1>3, RemoveAppsDoes
  <2>1. /\ file \in AppsFile /\ Me.mem = journal
        /\ file.hooks = Me.apps.hooks \ journal[Me.dir].hooks
        /\ Generated(file) => /\ Generated(Me.apps)
                              /\ ~(journal[Me.dir].created /\ file.hooks = {})
    BY <1>0, <2>0, CleanedTyped, CleanedIs DEF Memory, MemIsJournal, CleanStage
  <2> HIDE DEF file
  <2>2. file.hooks \subseteq orphans[Me.dir] /\ (Generated(file) => file.hooks # {})
    BY <2>0, <2>1 DEF Kept, KnownApps
  <2>3. /\ apps'[Me.dir].hooks \subseteq file.hooks
        /\ Generated(apps'[Me.dir]) => Generated(file) /\ apps'[Me.dir].hooks = file.hooks
        /\ \A d \in Dirs \ {Me.dir} : apps'[d] = apps[d]
    <3>1. CASE file = Me.apps
      BY <2>0, <3>1 DEF Kept, ReadApps
    <3>2. CASE file # Me.apps
      BY <2>0, <2>1, <3>2, PutAppsIs
    <3> QED BY <3>1, <3>2
  <2>4. AppsDone(Me.dir)'
    BY <2>0, <2>2, <2>3 DEF AppsDone, Holds, Generated
  <2>5. Through'
    BY <1>0, <2>0, <2>3, <2>4
       DEF Kept, Through, Done, Moves, Holds, CleanStage, AppsDone, BackupDone, Generated
  <2>6. Listed'
    <3> SUFFICES ASSUME NEW d \in Dirs
                 PROVE  /\ apps'[d].hooks \subseteq journal[d].hooks \union orphans[d]
                        /\ Generated(apps'[d]) => journal[d].created \/ apps'[d].hooks \ journal[d].hooks # {}
                        /\ backup[d] = "copy" => journal[d].backup \/ d \in strays
      BY <2>0 DEF Listed, Generated
    <3>1. CASE d = Me.dir
      BY <2>1, <2>2, <2>3, <3>1 DEF Kept, Listed
    <3>2. CASE d # Me.dir
      BY <2>3, <3>2 DEF Kept, Listed
    <3> QED BY <3>1, <3>2
  <2> QED BY <2>0, <2>5, <2>6 DEF Kept, ReadApps, KnownApps, Moves
<1>4. CASE RestoreConf(Setup)
  <2>0. /\ Moves("dropBackup") /\ Holds /\ Me.pc = "restoreConf"
        /\ UNCHANGED <<scene, apps, backup, journal, orphans, strays>>
    BY <1>4, RestoreConfDoes
  <2>1. Listed'
    BY <2>0 DEF Kept, Listed, Generated
  <2>2. Through'
    BY <2>0 DEF Kept, Through, Done, Moves, Holds, CleanStage, AppsDone, BackupDone, Generated
  <2> QED BY <2>0, <2>1, <2>2 DEF Kept, ReadApps, KnownApps, Moves
<1>5. CASE DropBackup(Setup)
  <2>0. /\ Moves("pick") /\ Holds /\ Me.pc = "dropBackup"
        /\ backup' = [backup EXCEPT ![Me.dir] =
                        IF Me.mem[Me.dir].backup /\ @ = "copy" THEN "none" ELSE @]
        /\ UNCHANGED <<scene, apps, journal, orphans, strays>>
    BY <1>5, DropBackupDoes DEF history
  <2>1. /\ \A d \in Dirs : backup'[d] = "copy" => backup[d] = "copy"
        /\ backup'[Me.dir] = "copy" => ~Me.mem[Me.dir].backup
    BY <1>0, <2>0 DEF TypeOK
  <2>2. Me.mem = journal
    BY <2>0 DEF Memory, MemIsJournal, CleanStage
  <2>3. Listed'
    BY <2>0, <2>1 DEF Kept, Listed, Generated
  <2>4. Through'
    <3> SUFFICES ASSUME NEW d \in Dirs, Done(d)' PROVE (AppsDone(d) /\ BackupDone(d))'
      BY <2>0 DEF Through, Moves
    <3>1. CASE d = Me.dir
      BY <1>0, <2>0, <2>1, <2>2, <3>1
         DEF Kept, Through, AppsDone, BackupDone, Listed, Generated
    <3>2. CASE d # Me.dir
      <4>1. Done(d)
        BY <2>0, <3>2 DEF Done, Moves, Holds, CleanStage
      <4> QED BY <2>0, <2>1, <4>1 DEF Kept, Through, AppsDone, BackupDone, Generated
    <3> QED BY <3>1, <3>2
  <2> QED BY <2>0, <2>3, <2>4 DEF Kept, ReadApps, KnownApps, Moves
<1>6. CASE DeleteJournal(Setup)
  <2>0. /\ Me'.pc \in {"startQuery", "idle"} /\ Me.pc = "deleteJournal"
        /\ journal' = [d \in Dirs |-> NoEntry]
        /\ UNCHANGED <<scene, apps, backup, orphans, strays>>
    BY <1>6, DeleteJournalDoes DEF history
  <2>1. ASSUME NEW d \in Dirs PROVE AppsDone(d) /\ BackupDone(d)
    <3>1. CASE d \in scene.dirs
      <4>1. Done(d)
        BY <2>0, <3>1 DEF Done, CleanStage, Memory, NoneLeft
      <4> QED BY <4>1 DEF Kept, Through
    <3>2. CASE d \notin scene.dirs
      <4>1. journal[d] = NoEntry
        BY <3>2 DEF Memory, JournalIs
      <4> QED BY <4>1 DEF Kept, Listed, AppsDone, BackupDone, NoEntry
    <3> QED BY <3>1, <3>2
  <2>2. Listed'
    BY <2>0, <2>1 DEF Listed, AppsDone, BackupDone, NoEntry, Generated
  <2> QED BY <2>0, <2>2 DEF Kept, ReadApps, KnownApps, Through, Done, CleanStage
<1> QED BY <1>1, <1>2, <1>3, <1>4, <1>5, <1>6

LEMMA InitKept == Init => Kept
<1> SUFFICES ASSUME Init PROVE Kept
  OBVIOUS
<1>1. Me.pc = "idle" /\ journal = [d \in Dirs |-> NoEntry] /\ backup = [d \in Dirs |-> "none"]
  BY DEF Init, Me, Resting
<1>2. PICK old \in SUBSET Path :
        /\ apps = [d \in Dirs |-> [user |-> 0, hooks |-> old,
                                   managed |-> IF old = {} THEN "absent" ELSE "generated"]]
        /\ orphans = [d \in Dirs |-> old]
  BY DEF Init, Scene
<1>3. Listed
  BY <1>1, <1>2 DEF Listed, NoEntry, Generated
<1> QED BY <1>1, <1>3 DEF Kept, ReadApps, KnownApps, Through, Done, CleanStage

\* Hooks, the application and the backup that are ours are listed, or known to
\* be those an interrupted configure or an earlier version left.
THEOREM LeavesNothing == Spec => []NothingLeftBehind
<1> DEFINE Inv == TypeOK /\ InPlace /\ Memory /\ Kept
<1>1. Init => Inv
  BY InitTyped, InitMemory, InitKept
<1>2. Inv /\ [Next]_vars => Inv'
  <2> SUFFICES ASSUME TypeOK, InPlace, Memory, Kept, [Next]_vars PROVE Inv'
    OBVIOUS
  <2>1. CASE QuietStep
    <3>1. TypeOK' /\ InPlace' /\ Aside
      BY <2>1, QuietTyped
    <3>2. Memory'
      BY <3>1, AsideMemory DEF Aside, FilesSame
    <3> QED BY <3>1, <3>2, AsideKept
  <2>2. CASE SetupStep
    <3>1. Kept'
      BY <2>2, ConfigureKept, CleanKept DEF SetupStep
    <3> QED BY <2>2, <3>1, SetupTyped, SetupMemory
  <2>3. ASSUME NEW d \in scene.dirs, UserStep(d) PROVE Inv'
    <3>1. TypeOK' /\ InPlace' /\ UNCHANGED <<scene, journal, proc>>
      BY <2>3, UserTyped
    <3>2. Memory'
      BY <3>1, AsideMemory DEF Same, Me
    <3> QED BY <2>3, <3>1, <3>2, UserKept
  <2> QED BY <2>1, <2>2, <2>3, StepIs
<1>3. Inv => NothingLeftBehind
  BY DEF Kept, Listed, NothingLeftBehind, Generated
<1> HIDE DEF Inv
<1> QED BY <1>1, <1>2, <1>3, PTL DEF Spec

-----------------------------------------------------------------------------
(* The person's values are found again.                                    *)

Excepted(d, k) == k \in overridden[d] \union stranded[d]

\* A value that is not the person's last choice is listed with that choice.
Told(d, k) ==
  LET owned == journal[d].values[k]
      ours == conf[d][k] \notin UserValue
  IN /\ ~ours => conf[d][k] = user[d][k] \/ k \in overridden[d]
     /\ ours => \/ Excepted(d, k)
                \/ (owned # Free /\ conf[d][k] = owned.applied /\ owned.original = user[d][k])
     /\ ours /\ owned # Free /\ owned.original \in UserValue =>
          owned.original = user[d][k] \/ k \in overridden[d]
     /\ ours /\ owned # Free /\ owned.original \notin UserValue => Excepted(d, k)

AllTold == \A d \in Dirs : \A k \in Key : Told(d, k)

\* Only the person has changed a value since it was read.
ReadConf ==
  Me.pc \in {"edit", "save", "restoreConf"} =>
    \A k \in Key : conf[Me.dir][k] # Me.conf[k] => conf[Me.dir][k] \in UserValue

\* A location that the removal is through with holds no listed value any more.
ConfDone(d) == \A k \in Key : conf[d][k] \notin UserValue => Excepted(d, k)
ConfThrough == /\ \A d \in Dirs : Done(d) => ConfDone(d)
               /\ Me.pc = "dropBackup" => ConfDone(Me.dir)

Values == AllTold /\ ReadConf /\ ConfThrough

LEMMA PutConfIs ==
  ASSUME TypeOK, NEW file \in [Key -> Value], NEW replaced \in SUBSET Key,
         PutConf(Setup, file, replaced)
  PROVE  /\ conf'[Me.dir] = file /\ \A d \in Dirs \ {Me.dir} : conf'[d] = conf[d]
         /\ \A d \in Dirs \ {Me.dir} : overridden'[d] = overridden[d]
         /\ \A k \in Key : k \in overridden'[Me.dir] <=>
              \/ k \in overridden[Me.dir]
              \/ conf[Me.dir][k] # Me.conf[k]
              \/ k \in replaced
<1> DEFINE over == {k \in Key : conf[Me.dir][k] # Me.conf[k]}
<1>1. /\ conf' = [conf EXCEPT ![Me.dir] = file]
      /\ overridden' = [overridden EXCEPT ![Me.dir] = @ \union over \union replaced]
  BY DEF PutConf, Me
<1> QED BY <1>1, MeIs DEF TypeOK

LEMMA AsideValues ==
  ASSUME TypeOK, Values, Aside
  PROVE  Values'
<1>0. Me.dir \in Dirs /\ FilesSame
  BY MeIs DEF Aside
<1>1. AllTold'
  BY <1>0 DEF Values, AllTold, Told, Excepted, FilesSame
<1>2. CASE Me'.pc \notin Active
  BY <1>1, <1>2 DEF Values, ReadConf, ConfThrough, Done, Active, ConfigureStage, CleanStage
<1>3. CASE Same(Me', Me)
  <2>1. ReadConf'
    BY <1>0, <1>3 DEF Values, ReadConf, FilesSame, Same
  <2>2. ConfThrough'
    BY <1>0, <1>3 DEF Values, ConfThrough, ConfDone, Excepted, Done, FilesSame, Same
  <2> QED BY <1>1, <2>1, <2>2 DEF Values
<1> QED BY <1>2, <1>3 DEF Aside

LEMMA UserValues ==
  ASSUME TypeOK, InPlace, Values, NEW d \in scene.dirs, UserStep(d)
  PROVE  Values'
<1>0. Me.dir \in Dirs /\ d \in Dirs /\ scene.keys \subseteq Key
  BY MeIs, SceneIs
<1>1. UNCHANGED <<scene, journal, proc>> /\ Me' = Me
  BY UserTyped DEF Me
<1>2. CASE UserEditsApps(d) \/ UserEditsBackup(d)
  <2>1. UNCHANGED <<conf, user, overridden, stranded>>
    BY <1>2 DEF UserEditsApps, UserEditsBackup, history
  <2>2. AllTold'
    BY <1>1, <2>1 DEF Values, AllTold, Told, Excepted
  <2>3. ReadConf' /\ ConfThrough'
    BY <1>1, <2>1 DEF Values, ReadConf, ConfThrough, ConfDone, Excepted, Done
  <2> QED BY <2>2, <2>3 DEF Values
<1>3. ASSUME NEW k \in scene.keys, UserSets(d, k) PROVE Values'
  <2>1. PICK v \in UserValue : conf' = [conf EXCEPT ![d][k] = v] /\ user' = [user EXCEPT ![d][k] = v]
    BY <1>3 DEF UserSets
  <2>2. conf'[d][k] = v /\ user'[d][k] = v
    BY <1>0, <2>1 DEF TypeOK
  <2>3. ASSUME NEW e \in Dirs, NEW l \in Key, ~(e = d /\ l = k)
        PROVE  /\ conf'[e][l] = conf[e][l] /\ user'[e][l] = user[e][l]
               /\ l \in overridden'[e] <=> l \in overridden[e]
               /\ l \in stranded'[e] <=> l \in stranded[e]
    BY <1>0, <1>3, <2>1, <2>3 DEF TypeOK, UserSets
  <2>4. ASSUME NEW e \in Dirs, NEW l \in Key PROVE Told(e, l)'
    <3>1. CASE e = d /\ l = k
      BY <2>2, <3>1 DEF Told
    <3>2. CASE ~(e = d /\ l = k)
      BY <1>1, <2>3, <2>4, <3>2 DEF Values, AllTold, Told, Excepted
    <3> QED BY <3>1, <3>2
  <2>5. ReadConf'
    BY <1>0, <1>1, <2>2, <2>3 DEF Values, ReadConf
  <2>6. ASSUME NEW e \in Dirs, ConfDone(e) PROVE ConfDone(e)'
    BY <2>2, <2>3, <2>6 DEF ConfDone, Excepted
  <2>7. ConfThrough'
    BY <1>0, <1>1, <2>6 DEF Values, ConfThrough, Done
  <2> QED BY <2>4, <2>5, <2>7 DEF Values, AllTold
<1> QED BY <1>2, <1>3 DEF UserStep

\* What configure saves of a value, and what the removal makes of it.
LEMMA SaveTold ==
  ASSUME TypeOK, Memory, Values, Me.pc = "save", journal' = Me.mem,
         stranded' = [stranded EXCEPT ![Me.dir] =
                        @ \union Unlisted(Me.mem[Me.dir], conf[Me.dir])],
         UNCHANGED <<conf, user, overridden>>
  PROVE  AllTold'
<1>0. Me.dir \in Dirs /\ Me \in Process
  BY MeIs
<1> SUFFICES ASSUME NEW d \in Dirs, NEW k \in Key PROVE Told(d, k)'
  BY DEF AllTold
<1>1. Told(d, k)
  BY DEF Values, AllTold
<1>2. CASE d # Me.dir
  <2>1. Me.mem[d] = journal[d] /\ stranded'[d] = stranded[d]
    BY <1>2 DEF TypeOK, Memory, MemIsJournal
  <2> QED BY <1>1, <2>1 DEF Told, Excepted
<1>3. CASE d = Me.dir
  <2> DEFINE owned == journal[d].values[k]
             new == Me.mem[d].values[k]
             now == conf[d][k]
             set == Me.set[k]
  <2>1. /\ new = Claim(owned, Me.conf[k], set) /\ set \in Ours \union {"keep"}
        /\ now # Me.conf[k] => now \in UserValue
    BY <1>3 DEF Memory, MemIsEdited, Values, ReadConf
  <2>2. owned \in Owned \union {Free} /\ Me.conf[k] \in Value
    BY <1>0 DEF TypeOK, Entry, Process
  <2>3. /\ k \in stranded'[d] <=> \/ k \in stranded[d]
                                  \/ now \notin UserValue \union {new.applied}
        /\ journal'[d].values[k] = new
    BY <1>0, <1>3 DEF TypeOK, Unlisted
  <2> HIDE DEF new, owned, set, now
  <2>4. /\ set = "keep" => new = owned
        /\ set # "keep" => /\ new # Free /\ new.applied = set
                           /\ new.original = IF owned = Free THEN Me.conf[k] ELSE owned.original
    BY <2>1, <2>2, ClaimIs
  <2>5. Told(d, k)' <=>
          /\ now \in UserValue => now = user[d][k] \/ k \in overridden[d]
          /\ now \notin UserValue =>
               \/ k \in overridden[d] \/ k \in stranded'[d]
               \/ (new # Free /\ now = new.applied /\ new.original = user[d][k])
          /\ now \notin UserValue /\ new # Free /\ new.original \in UserValue =>
               new.original = user[d][k] \/ k \in overridden[d]
          /\ now \notin UserValue /\ new # Free /\ new.original \notin UserValue =>
               k \in overridden[d] \/ k \in stranded'[d]
    BY <2>3 DEF Told, Excepted, now
  <2>6. /\ now \in UserValue => now = user[d][k] \/ k \in overridden[d]
        /\ now \notin UserValue =>
             \/ k \in overridden[d] \/ k \in stranded[d]
             \/ (owned # Free /\ now = owned.applied /\ owned.original = user[d][k])
        /\ now \notin UserValue /\ owned # Free /\ owned.original \in UserValue =>
             owned.original = user[d][k] \/ k \in overridden[d]
        /\ now \notin UserValue /\ owned # Free /\ owned.original \notin UserValue =>
             k \in overridden[d] \/ k \in stranded[d]
    BY <1>1 DEF Told, Excepted, now, owned
  <2>7. CASE set = "keep"
    BY <2>3, <2>4, <2>5, <2>6, <2>7
  <2>8. CASE set # "keep" /\ owned = Free
    BY <2>1, <2>3, <2>4, <2>5, <2>6, <2>8
  <2>9. CASE set # "keep" /\ owned # Free
    BY <2>3, <2>4, <2>5, <2>6, <2>9
  <2> QED BY <2>7, <2>8, <2>9
<1> QED BY <1>2, <1>3

LEMMA WriteTold ==
  ASSUME TypeOK, InPlace, Memory, Values, WriteConf(Setup)
  PROVE  AllTold'
<1>0. Me.dir \in Dirs /\ Me \in Process /\ NewConf(Me) \in [Key -> Value]
  BY MeIs, NewFilesTyped
<1> DEFINE replaced == Replaced(Me.mem[Me.dir], conf[Me.dir], NewConf(Me))
<1>1. /\ Me.pc = "writeConf" /\ PutConf(Setup, NewConf(Me), replaced) /\ replaced \in SUBSET Key
      /\ stranded' = [stranded EXCEPT ![Me.dir] =
                         StillStranded(Me.mem[Me.dir], NewConf(Me), @)]
      /\ UNCHANGED <<journal, user>>
  BY WriteConfDoes DEF Replaced
<1>2. /\ conf'[Me.dir] = NewConf(Me) /\ \A d \in Dirs \ {Me.dir} : conf'[d] = conf[d]
      /\ \A d \in Dirs \ {Me.dir} : overridden'[d] = overridden[d]
      /\ \A k \in Key : k \in overridden'[Me.dir] <=>
           \/ k \in overridden[Me.dir] \/ conf[Me.dir][k] # Me.conf[k] \/ k \in replaced
  BY <1>0, <1>1, PutConfIs
<1>3. /\ \A d \in Dirs \ {Me.dir} : stranded'[d] = stranded[d]
      /\ stranded'[Me.dir] = StillStranded(Me.mem[Me.dir], NewConf(Me), stranded[Me.dir])
  BY <1>0, <1>1 DEF TypeOK
<1>4. Me.mem = journal
  BY <1>1 DEF Memory, MemIsJournal
<1> SUFFICES ASSUME NEW d \in Dirs, NEW k \in Key PROVE Told(d, k)'
  BY DEF AllTold
<1>5. Told(d, k)
  BY DEF Values, AllTold
<1>6. CASE d # Me.dir
  BY <1>1, <1>2, <1>3, <1>5, <1>6 DEF Told, Excepted
<1>7. CASE d = Me.dir
  <2> DEFINE owned == journal[d].values[k]
             now == conf[d][k]
             read == Me.conf[k]
             set == Me.set[k]
             choice == user[d][k]
             new == NewConf(Me)[k]
             over == k \in overridden[d]
             left == k \in stranded[d]
             overNow == k \in overridden'[d]
             leftNow == k \in stranded'[d]
  <2>1. /\ set \in Ours \union {"keep"} /\ read \in Value
        /\ set # "keep" => owned # Free /\ owned.applied = set
    BY <1>0, <1>1, <1>4, <1>7 DEF Memory, MemIsEdited, Process
  <2>2. new = IF set = "keep" THEN read ELSE set
    BY DEF NewConf
  <2>3. overNow <=> \/ over \/ now # read
                    \/ (now \in UserValue \ {new} /\ (owned # Free => now # owned.original))
    BY <1>2, <1>4, <1>7 DEF Replaced
  <2>4. leftNow <=> left /\ (\/ new \notin UserValue \union {owned.applied}
                             \/ owned.original \notin UserValue)
    BY <1>3, <1>4, <1>7 DEF StillStranded, Unlisted
  <2>5. conf'[d][k] = new /\ journal'[d].values[k] = owned /\ user'[d][k] = choice
    BY <1>1, <1>2, <1>7
  <2> HIDE DEF owned, now, read, set, choice, new
  <2>6. /\ now \in UserValue => now = choice \/ over
        /\ now \notin UserValue =>
             over \/ left \/ (owned # Free /\ now = owned.applied /\ owned.original = choice)
        /\ now \notin UserValue /\ owned # Free /\ owned.original \in UserValue =>
             owned.original = choice \/ over
        /\ now \notin UserValue /\ owned # Free /\ owned.original \notin UserValue => over \/ left
    BY <1>5 DEF Told, Excepted, owned, now, choice
  <2>7. /\ new \in UserValue => new = choice \/ overNow
        /\ new \notin UserValue =>
             overNow \/ leftNow \/ (owned # Free /\ new = owned.applied /\ owned.original = choice)
        /\ new \notin UserValue /\ owned # Free /\ owned.original \in UserValue =>
             owned.original = choice \/ overNow
        /\ new \notin UserValue /\ owned # Free /\ owned.original \notin UserValue =>
             overNow \/ leftNow
    <3>1. CASE overNow
      BY <3>1
    <3>2. CASE ~overNow /\ set = "keep"
      <4>1. now = read /\ ~over /\ new = now
        BY <2>2, <2>3, <3>2
      <4>2. new = owned.applied => owned # Free
        BY <2>1, <2>2, <3>2, OursIs DEF Free
      <4> QED BY <2>4, <2>6, <3>2, <4>1, <4>2
    <3>3. CASE ~overNow /\ set # "keep"
      <4>1. /\ now = read /\ ~over /\ new = set /\ new \notin UserValue
            /\ owned # Free /\ owned.applied = new
        BY <2>1, <2>2, <2>3, <3>3, OursIs
      <4>2. now \in UserValue => now = owned.original
        BY <2>3, <3>3, <4>1
      <4> QED BY <2>4, <2>6, <3>3, <4>1, <4>2
    <3> QED BY <3>1, <3>2, <3>3
  <2> QED BY <2>5, <2>7 DEF Told, Excepted
<1> QED BY <1>6, <1>7

LEMMA RestoreTold ==
  ASSUME TypeOK, InPlace, Memory, Values, RestoreConf(Setup)
  PROVE  /\ AllTold'
         /\ \A k \in Key : conf'[Me.dir][k] \notin UserValue =>
                           k \in overridden'[Me.dir] \union stranded'[Me.dir]
         /\ \A d \in Dirs \ {Me.dir} : conf'[d] = conf[d] /\ overridden'[d] = overridden[d]
<1> DEFINE file == Restored(Me.mem[Me.dir], Me.conf)
<1>0. Me.dir \in Dirs /\ Me \in Process /\ file \in [Key -> Value]
  BY MeIs, RestoredTyped DEF Process
<1>1. /\ Me.pc = "restoreConf" /\ UNCHANGED <<journal, user, stranded>>
      /\ IF file = Me.conf THEN UNCHANGED <<conf, overridden>> ELSE PutConf(Setup, file, {})
  BY RestoreConfDoes
<1>2. Me.mem = journal
  BY <1>1 DEF Memory, MemIsJournal, CleanStage
<1>3. \A d \in Dirs \ {Me.dir} : conf'[d] = conf[d] /\ overridden'[d] = overridden[d]
  BY <1>0, <1>1, PutConfIs
<1> SUFFICES ASSUME NEW d \in Dirs, NEW k \in Key
             PROVE  /\ Told(d, k)'
                    /\ d = Me.dir /\ conf'[d][k] \notin UserValue =>
                         k \in overridden'[d] \union stranded'[d]
  BY <1>0, <1>3 DEF AllTold
<1>4. Told(d, k)
  BY DEF Values, AllTold
<1>5. CASE d # Me.dir
  BY <1>1, <1>3, <1>4, <1>5 DEF Told, Excepted
<1>6. CASE d = Me.dir
  <2> DEFINE owned == journal[d].values[k]
             now == conf[d][k]
             read == Me.conf[k]
             choice == user[d][k]
             new == file[k]
             over == k \in overridden[d]
             left == k \in stranded[d]
             overNow == k \in overridden'[d]
             ours == owned # Free /\ read = owned.applied
  <2>1. new = IF ours THEN owned.original ELSE read
    BY <1>2, <1>6 DEF Restored
  <2>2. /\ now # read => now \in UserValue
        /\ owned # Free => owned.applied \notin UserValue
    BY <1>1, <1>6, OursIs DEF Values, ReadConf, Memory, JournalIs
  <2>3. \/ conf'[d][k] = now /\ (overNow <=> over) /\ new = read
        \/ conf'[d][k] = new /\ (overNow <=> over \/ now # read)
    <3>1. CASE file = Me.conf
      BY <1>1, <3>1
    <3>2. CASE file # Me.conf
      BY <1>0, <1>1, <1>6, <3>2, PutConfIs
    <3> QED BY <3>1, <3>2
  <2>4. journal'[d].values[k] = owned /\ user'[d][k] = choice /\ stranded' = stranded
    BY <1>1
  <2> HIDE DEF owned, now, read, choice, new, file
  <2>5. /\ now \in UserValue => now = choice \/ over
        /\ now \notin UserValue =>
             over \/ left \/ (owned # Free /\ now = owned.applied /\ owned.original = choice)
        /\ now \notin UserValue /\ owned # Free /\ owned.original \in UserValue =>
             owned.original = choice \/ over
        /\ now \notin UserValue /\ owned # Free /\ owned.original \notin UserValue => over \/ left
    BY <1>4 DEF Told, Excepted, owned, now, choice
  <2>6. CASE conf'[d][k] = now /\ (overNow <=> over) /\ new = read
    <3>1. now \notin UserValue => over \/ left
      <4>1. CASE ours
        BY <2>1, <2>2, <2>5, <2>6, <4>1
      <4>2. CASE ~ours
        BY <2>2, <2>5, <4>2
      <4> QED BY <4>1, <4>2
    <3> QED BY <2>4, <2>5, <2>6, <3>1 DEF Told, Excepted
  <2>7. CASE conf'[d][k] = new /\ (overNow <=> over \/ now # read)
    <3>1. CASE overNow
      BY <2>4, <2>7, <3>1 DEF Told, Excepted
    <3>2. CASE ~overNow /\ ours
      <4>1. now = read /\ ~over /\ now \notin UserValue /\ new = owned.original
        BY <2>1, <2>2, <2>7, <3>2
      <4> QED BY <2>4, <2>5, <2>7, <3>2, <4>1 DEF Told, Excepted
    <3>3. CASE ~overNow /\ ~ours
      <4>1. now = read /\ ~over /\ new = now
        BY <2>1, <2>7, <3>3
      <4> QED BY <2>4, <2>5, <2>7, <3>3, <4>1 DEF Told, Excepted
    <3> QED BY <3>1, <3>2, <3>3
  <2> QED BY <2>3, <2>6, <2>7
<1> QED BY <1>5, <1>6

LEMMA ConfigureValues ==
  ASSUME TypeOK, InPlace, Memory, Values,
         Load(Setup) \/ Edited \/ Save(Setup) \/ WriteApps(Setup) \/ WriteConf(Setup)
  PROVE  Values'
<1>0. Me.dir \in Dirs
  BY MeIs
<1>1. CASE Load(Setup)
  <2>0. /\ Moves("edit") /\ Me'.dir = Me.dir /\ Me'.conf = conf[Me.dir]
        /\ UNCHANGED <<scene, conf, journal, user, overridden, stranded>>
    BY <1>1, LoadDoes
  <2>1. AllTold'
    BY <2>0 DEF Values, AllTold, Told, Excepted
  <2> QED BY <2>0, <2>1 DEF Values, ReadConf, ConfThrough, Done, Moves, CleanStage
<1>2. CASE Edited
  <2>0. /\ Moves("save") /\ Me.pc = "edit" /\ Me'.dir = Me.dir /\ Me'.conf = Me.conf
        /\ UNCHANGED <<scene, conf, journal, user, overridden, stranded>>
    BY <1>2 DEF Edited, files, history
  <2>1. AllTold'
    BY <2>0 DEF Values, AllTold, Told, Excepted
  <2> QED BY <2>0, <2>1 DEF Values, ReadConf, ConfThrough, Done, Moves, CleanStage
<1>3. CASE Save(Setup)
  <2>0. /\ Moves("writeApps") /\ Me.pc = "save" /\ journal' = Me.mem
        /\ stranded' = [stranded EXCEPT ![Me.dir] =
                          @ \union Unlisted(Me.mem[Me.dir], conf[Me.dir])]
        /\ UNCHANGED <<conf, user, overridden>>
    BY <1>3, SaveDoes
  <2>1. AllTold'
    BY <2>0, SaveTold
  <2> QED BY <2>0, <2>1 DEF Values, ReadConf, ConfThrough, Done, Moves, CleanStage
<1>4. CASE WriteApps(Setup)
  <2>0. /\ Moves("writeConf")
        /\ UNCHANGED <<scene, conf, journal, user, overridden, stranded>>
    BY <1>4, WriteAppsDoes
  <2>1. AllTold'
    BY <2>0 DEF Values, AllTold, Told, Excepted
  <2> QED BY <2>0, <2>1 DEF Values, ReadConf, ConfThrough, Done, Moves, CleanStage
<1>5. CASE WriteConf(Setup)
  <2>0. Me'.pc = "idle"
    BY <1>5, WriteConfDoes
  <2> QED BY <1>5, <2>0, WriteTold DEF Values, ReadConf, ConfThrough, Done, CleanStage
<1> QED BY <1>1, <1>2, <1>3, <1>4, <1>5

LEMMA CleanValues ==
  ASSUME TypeOK, InPlace, Memory, Values,
         \/ LoadJournal(Setup) \/ PickLocation(Setup) \/ RemoveApps(Setup)
         \/ RestoreConf(Setup) \/ DropBackup(Setup) \/ DeleteJournal(Setup)
  PROVE  Values'
<1>0. Me.dir \in Dirs
  BY MeIs
<1>1. CASE LoadJournal(Setup)
  <2>0. /\ Moves("pick") /\ Me'.left = scene.dirs
        /\ UNCHANGED <<scene, conf, journal, user, overridden, stranded>>
    BY <1>1, LoadJournalDoes DEF files, history
  <2>1. AllTold'
    BY <2>0 DEF Values, AllTold, Told, Excepted
  <2> QED BY <2>0, <2>1 DEF Values, ReadConf, ConfThrough, Done, Moves
<1>2. CASE PickLocation(Setup)
  <2>0. Me.pc = "pick" /\ UNCHANGED <<scene, conf, journal, user, overridden, stranded>>
    BY <1>2, PickDoes DEF files, history
  <2>1. AllTold'
    BY <2>0 DEF Values, AllTold, Told, Excepted
  <2>2. \A d \in Dirs : ConfDone(d) => ConfDone(d)'
    BY <2>0 DEF ConfDone, Excepted
  <2>3. CASE Moves("deleteJournal") /\ Holds
    BY <2>0, <2>1, <2>2, <2>3 DEF Values, ReadConf, ConfThrough, Done, Moves, Holds, CleanStage
  <2>4. ASSUME NEW d \in Dirs, Picked(d) PROVE Values'
    BY <2>0, <2>1, <2>2, <2>4 DEF Values, ReadConf, ConfThrough, Done, Picked, Moves, CleanStage
  <2> QED BY <1>2, <2>3, <2>4, PickDoes
<1>3. CASE RemoveApps(Setup)
  <2>0. /\ Moves("restoreConf") /\ Holds /\ Me'.conf = conf[Me.dir] /\ Me.pc = "removeApps"
        /\ UNCHANGED <<scene, conf, journal, user, overridden, stranded>>
    BY <1>3, RemoveAppsDoes
  <2>1. AllTold'
    BY <2>0 DEF Values, AllTold, Told, Excepted
  <2>2. \A d \in Dirs : ConfDone(d) => ConfDone(d)'
    BY <2>0 DEF ConfDone, Excepted
  <2> QED BY <2>0, <2>1, <2>2 DEF Values, ReadConf, ConfThrough, Done, Moves, Holds, CleanStage
<1>4. CASE RestoreConf(Setup)
  <2>0. Moves("dropBackup") /\ Holds /\ Me.pc = "restoreConf" /\ UNCHANGED <<scene, stranded>>
    BY <1>4, RestoreConfDoes
  <2>1. /\ AllTold'
        /\ \A k \in Key : conf'[Me.dir][k] \notin UserValue =>
                          k \in overridden'[Me.dir] \union stranded'[Me.dir]
        /\ \A d \in Dirs \ {Me.dir} : conf'[d] = conf[d] /\ overridden'[d] = overridden[d]
    BY <1>4, RestoreTold
  <2>2. \A d \in Dirs \ {Me.dir} : ConfDone(d) => ConfDone(d)'
    BY <2>0, <2>1 DEF ConfDone, Excepted
  <2>3. ConfDone(Me.dir)'
    BY <2>0, <2>1 DEF ConfDone, Excepted, Holds
  <2> QED BY <1>0, <2>0, <2>1, <2>2, <2>3
          DEF Values, ReadConf, ConfThrough, Done, Moves, Holds, CleanStage
<1>5. CASE DropBackup(Setup)
  <2>0. /\ Moves("pick") /\ Holds /\ Me.pc = "dropBackup"
        /\ UNCHANGED <<scene, conf, journal, user, overridden, stranded>>
    BY <1>5, DropBackupDoes DEF history
  <2>1. AllTold'
    BY <2>0 DEF Values, AllTold, Told, Excepted
  <2>2. \A d \in Dirs : ConfDone(d) => ConfDone(d)'
    BY <2>0 DEF ConfDone, Excepted
  <2> QED BY <2>0, <2>1, <2>2 DEF Values, ReadConf, ConfThrough, Done, Moves, Holds, CleanStage
<1>6. CASE DeleteJournal(Setup)
  <2>0. /\ Me'.pc \in {"startQuery", "idle"} /\ Me.pc = "deleteJournal"
        /\ journal' = [d \in Dirs |-> NoEntry]
        /\ UNCHANGED <<conf, user, overridden, stranded>>
    BY <1>6, DeleteJournalDoes DEF history
  <2>1. ASSUME NEW d \in Dirs PROVE ConfDone(d)
    <3>1. CASE d \in scene.dirs
      <4>1. Done(d)
        BY <2>0, <3>1 DEF Done, CleanStage, Memory, NoneLeft
      <4> QED BY <4>1 DEF Values, ConfThrough
    <3>2. CASE d \notin scene.dirs
      <4>1. \A k \in Key : journal[d].values[k] = Free
        BY <3>2 DEF Memory, JournalIs, NoEntry
      <4> QED BY <4>1 DEF Values, AllTold, Told, ConfDone
    <3> QED BY <3>1, <3>2
  <2>2. AllTold'
    BY <2>0, <2>1 DEF Values, AllTold, Told, Excepted, ConfDone, NoEntry
  <2> QED BY <2>0, <2>2 DEF Values, ReadConf, ConfThrough, Done, CleanStage
<1> QED BY <1>1, <1>2, <1>3, <1>4, <1>5, <1>6

LEMMA InitValues == Init => Values
<1> SUFFICES ASSUME Init PROVE Values
  OBVIOUS
<1>1. Me.pc = "idle"
  BY DEF Init, Me, Resting
<1>2. AllTold
  BY DEF Init, AllTold, Told
<1> QED BY <1>1, <1>2 DEF Values, ReadConf, ConfThrough, Done, CleanStage

\* A key that the journal does not list holds the person's own last value, or is one
\* of those that the history names (overridden, stranded).
THEOREM Restores == Spec => []OriginalRestored
<1> DEFINE Inv == TypeOK /\ InPlace /\ Memory /\ Values
<1>1. Init => Inv
  BY InitTyped, InitMemory, InitValues
<1>2. Inv /\ [Next]_vars => Inv'
  <2> SUFFICES ASSUME TypeOK, InPlace, Memory, Values, [Next]_vars PROVE Inv'
    OBVIOUS
  <2>1. CASE QuietStep
    <3>1. TypeOK' /\ InPlace' /\ Aside
      BY <2>1, QuietTyped
    <3>2. Memory'
      BY <3>1, AsideMemory DEF Aside, FilesSame
    <3> QED BY <3>1, <3>2, AsideValues
  <2>2. CASE SetupStep
    <3>1. Values'
      BY <2>2, ConfigureValues, CleanValues DEF SetupStep
    <3> QED BY <2>2, <3>1, SetupTyped, SetupMemory
  <2>3. ASSUME NEW d \in scene.dirs, UserStep(d) PROVE Inv'
    <3>1. TypeOK' /\ InPlace' /\ UNCHANGED <<scene, journal, proc>>
      BY <2>3, UserTyped
    <3>2. Memory'
      BY <3>1, AsideMemory DEF Same, Me
    <3> QED BY <2>3, <3>1, <3>2, UserValues
  <2> QED BY <2>1, <2>2, <2>3, StepIs
<1>3. Inv => OriginalRestored
  BY DEF Values, AllTold, Told, Excepted, OriginalRestored
<1> HIDE DEF Inv
<1> QED BY <1>1, <1>2, <1>3, PTL DEF Spec

-----------------------------------------------------------------------------
(* The person's edits are kept.                                            *)

\* The application file has every edit the person made of it.
Up == \A d \in Dirs : apps[d].user = made[d]

\* The removal has stopped Sunshine itself, and no other command has meddled.
Undisturbed == /\ Me.pc = "load" \/ Me.pc \in CleanStage
               /\ Me.cmd = "cleanup" /\ Me.restart /\ ~Me.disturbed

\* Then Sunshine is stopped, nobody edits, and what was read is still there.
NobodyEdits ==
  Undisturbed =>
    /\ service = "stopped"
    /\ Me.pc = "removeApps" => Me.apps = apps[Me.dir]
    /\ Me.pc = "restoreConf" => Me.conf = conf[Me.dir]

Safe == Up /\ NobodyEdits /\ "cleanup" \notin lost

LEMMA PutAppsUp ==
  ASSUME TypeOK, Up, NEW file \in AppsFile, file.user = Me.apps.user, PutApps(Setup, file)
  PROVE  Up'
<1>1. Me.dir \in Dirs /\ Me \in Process
  BY MeIs
<1>2. /\ apps' = [apps EXCEPT ![Me.dir] = file]
      /\ made' = IF apps[Me.dir] # Me.apps THEN [made EXCEPT ![Me.dir] = file.user] ELSE made
  BY DEF PutApps, Me
<1>3. apps'[Me.dir].user = file.user /\ made'[Me.dir] = file.user
  BY <1>1, <1>2 DEF TypeOK, Up
<1>4. \A d \in Dirs \ {Me.dir} : apps'[d] = apps[d] /\ made'[d] = made[d]
  BY <1>1, <1>2 DEF TypeOK
<1> QED BY <1>3, <1>4 DEF Up

\* A command comes to its files with Sunshine stopped, or did not stop it.
LEMMA ComesStopped ==
  ASSUME TypeOK, InPlace, ServiceStep(Setup), Me'.pc = "load", Me'.cmd = "cleanup", Me'.restart
  PROVE  service' = "stopped"
<1> USE DEF Me
<1>0. proc[Setup] \in Process /\ proc \in [Proc -> Process]
  BY DEF TypeOK
<1>1. CASE Begin(Setup)
  <2>1. PICK cmd \in scene.commands, mode \in scene.modes, path \in scene.paths, d \in scene.dirs :
          proc' = [proc EXCEPT ![Setup] =
                   [IF cmd = "configure"
                    THEN [Resting(path) EXCEPT !.mode = mode, !.dir = d]
                    ELSE Resting(AnyPath) EXCEPT !.cmd = cmd,
                      !.pc = CASE cmd = "configure" -> "load"
                               [] cmd = "restart" -> "stopQuery"
                               [] OTHER -> "look"]]
    BY <1>1 DEF Begin
  <2> DEFINE stage == CASE cmd = "configure" -> "load"
                        [] cmd = "restart" -> "stopQuery"
                        [] OTHER -> "look"
             rest == IF cmd = "configure"
                     THEN [Resting(path) EXCEPT !.mode = mode, !.dir = d]
                     ELSE Resting(AnyPath)
  <2>2. path \in Path /\ mode \in Mode /\ d \in Dirs
    BY SceneIs
  <2>3. rest \in Process
    <3>1. CASE cmd = "configure"
      BY <2>2, <3>1, RestingIs, WithPlace
    <3>2. CASE cmd # "configure"
      BY <3>2, AnyPathIs, RestingIs
    <3> QED BY <3>1, <3>2
  <2>4. stage = "load" => cmd = "configure"
    OBVIOUS
  <2> HIDE DEF stage, rest
  <2>5. proc' = [proc EXCEPT ![Setup] = [rest EXCEPT !.cmd = cmd, !.pc = stage]]
    BY <2>1 DEF stage, rest
  <2>6. proc'[Setup].cmd = cmd /\ proc'[Setup].pc = stage
    BY <1>0, <2>3, <2>5 DEF Process
  <2> QED BY <2>4, <2>6
<1>2. CASE Look(Setup)
  <2> DEFINE running == service = "running"
             stage == IF running THEN "stopQuery" ELSE AfterStop(Setup)
             me == [proc[Setup] EXCEPT !.restart = running, !.pc = stage]
  <2>1. proc' = [proc EXCEPT ![Setup] = me]
    BY <1>2 DEF Look
  <2>2. me.restart = running /\ me.pc = stage
    BY <1>0 DEF Process
  <2>3. proc'[Setup] = me
    BY <1>0, <2>1
  <2> HIDE DEF me
  <2>4. CASE running
    <3>1. stage = "stopQuery"
      BY <2>4
    <3> QED BY <2>2, <2>3, <3>1
  <2>5. CASE ~running
    <3>1. proc'[Setup].restart = running
      BY <2>2, <2>3
    <3> QED BY <2>5, <3>1
  <2> QED BY <2>4, <2>5
<1>3. CASE End(Setup)
  BY <1>3, EndIs
<1>4. ASSUME NEW stage \in Stage, stage # "load", Goto(Setup, stage) PROVE FALSE
  <2>1. proc'[Setup] = [proc[Setup] EXCEPT !.pc = stage]
    BY <1>4, GotoIs
  <2>2. proc'[Setup].pc = stage
    BY <1>0, <2>1 DEF Process
  <2> QED BY <1>4, <2>2
<1>5. CASE StopQuery(Setup)
  <2>1. \/ service = "stopped" /\ service' = service
        \/ \E stage \in {"stopStarting", "stopWait", "stopControl"} : Goto(Setup, stage)
    BY <1>5 DEF StopQuery
  <2> QED BY <1>4, <2>1 DEF Stage
<1>6. CASE StopControl(Setup)
  <2>1. \/ End(Setup) \/ \E stage \in {"stopWait", "operate"} : Goto(Setup, stage)
    BY <1>6 DEF StopControl, StopFails
  <2> QED BY <1>3, <1>4, <2>1 DEF Stage
<1>7. CASE StartQuery(Setup)
  <2>1. End(Setup) \/ \E stage \in {"startWait", "startAfter", "startControl"} : Goto(Setup, stage)
    BY <1>7 DEF StartQuery
  <2> QED BY <1>3, <1>4, <2>1 DEF Stage
<1>8. CASE StartControl(Setup)
  <2>1. CASE proc' = [q \in Proc |->
                       IF q = Setup THEN [proc[Setup] EXCEPT !.pc = "startWait"]
                       ELSE [proc[q] EXCEPT !.disturbed = (@ \/ proc[q].pc # "idle")]]
    BY <1>0, <2>1 DEF Process
  <2> QED BY <1>3, <1>8, <2>1 DEF StartControl
<1>9. CASE WaitForState(Setup)
  <2>1. \/ proc[Setup].pc = "stopWait" /\ service = "stopped" /\ service' = service
        \/ End(Setup)
        \/ \E stage \in {"stopControl", "startControl"} : Goto(Setup, stage)
    BY <1>9 DEF WaitForState, Desired
  <2> QED BY <1>3, <1>4, <2>1 DEF Stage
<1>10. CASE Missed(Setup) \/ Slow(Setup)
  <2>1. End(Setup) \/ Goto(Setup, "operate")
    BY <1>10 DEF Missed, Slow, TimesOut, StopFails
  <2> QED BY <1>3, <1>4, <2>1 DEF Stage
<1>11. CASE Operate(Setup) \/ Throws(Setup)
  <2>1. End(Setup) \/ Goto(Setup, "startQuery")
    BY <1>11, AfterOperationIs DEF Operate, Throws
  <2> QED BY <1>3, <1>4, <2>1 DEF Stage
<1>12. CASE Kill(Setup)
  BY <1>3, <1>12 DEF Kill
<1> QED BY <1>1, <1>2, <1>5, <1>6, <1>7, <1>8, <1>9, <1>10, <1>11, <1>12 DEF ServiceStep

\* Another command that starts Sunshine is seen by the removal.
LEMMA StartsSeen ==
  ASSUME TypeOK, InPlace, NEW p \in Proc \ {Setup}, ServiceStep(p), service = "stopped",
         Me.pc # "idle"
  PROVE  service' = "stopped" \/ Me'.disturbed
<1>1. CASE StartControl(p)
  <2>1. CASE proc' = [q \in Proc |->
                       IF q = p THEN [proc[p] EXCEPT !.pc = "startWait"]
                       ELSE [proc[q] EXCEPT !.disturbed = (@ \/ proc[q].pc # "idle")]]
    <3>1. Me \in Process /\ Me' = [Me EXCEPT !.disturbed = (@ \/ Me.pc # "idle")]
      BY <2>1, MeIs DEF Me
    <3> QED BY <3>1 DEF Process
  <2> QED BY <1>1, <2>1 DEF StartControl
<1>2. CASE ~StartControl(p)
  BY <1>2 DEF ServiceStep, Begin, Look, StopQuery, StopControl, StartQuery, WaitForState, Missed,
              Slow, TimesOut, Operate, Throws, Kill
<1> QED BY <1>1, <1>2

LEMMA QuietSafe ==
  ASSUME TypeOK, InPlace, Safe, QuietStep
  PROVE  Safe'
<1>0. Me.dir \in Dirs /\ Me \in Process
  BY MeIs
<1>1. FilesSame
  BY QuietTyped DEF Aside
<1>2. Up' /\ "cleanup" \notin lost'
  BY <1>1 DEF Safe, Up, FilesSame
<1>3. ASSUME Same(Me', Me), Undisturbed => service' = "stopped" \/ Me'.disturbed
      PROVE  NobodyEdits'
  BY <1>0, <1>1, <1>3 DEF Safe, NobodyEdits, Undisturbed, Same, FilesSame
<1>4. ASSUME NEW p \in Proc, ServiceStep(p) PROVE NobodyEdits'
  <2>1. Serves(p)
    BY <1>4, ServiceServes
  <2>2. CASE p = Setup
    <3>1. Me'.pc \notin Active
      BY <2>1, <2>2 DEF Serves, Me
    <3>2. Undisturbed' => service' = "stopped"
      BY <1>4, <2>2, <3>1, ComesStopped DEF Undisturbed, Active
    <3> QED BY <3>1, <3>2 DEF NobodyEdits, Active, CleanStage
  <2>3. CASE p # Setup
    <3>1. Same(Me', Me)
      BY <2>1, <2>3 DEF Serves, Me
    <3>2. Undisturbed => service' = "stopped" \/ Me'.disturbed
      BY <1>4, <2>3, StartsSeen DEF Undisturbed, Safe, NobodyEdits, CleanStage
    <3> QED BY <1>3, <3>1, <3>2
  <2> QED BY <2>2, <2>3
<1>5. CASE ServiceArrives
  <2>1. proc' = proc /\ service # "stopped"
    BY <1>5 DEF ServiceArrives
  <2>2. Same(Me', Me)
    BY <2>1 DEF Same, Me
  <2>3. ~Undisturbed
    BY <2>1 DEF Safe, NobodyEdits
  <2> QED BY <1>2, <1>3, <2>2, <2>3 DEF Safe
<1>6. CASE End(Setup)
  <2>1. Me'.pc = "idle"
    BY <1>6, EndIs DEF Me
  <2> QED BY <1>2, <2>1 DEF Safe, NobodyEdits, Undisturbed, CleanStage
<1>7. CASE UNCHANGED vars
  <2>1. proc' = proc /\ service' = service
    BY <1>7 DEF vars
  <2>2. Same(Me', Me)
    BY <2>1 DEF Same, Me
  <2>3. Undisturbed => service' = "stopped"
    BY <2>1 DEF Safe, NobodyEdits
  <2> QED BY <1>2, <1>3, <2>2, <2>3 DEF Safe
<1> QED BY <1>2, <1>4, <1>5, <1>6, <1>7 DEF QuietStep, Safe

LEMMA UserSafe ==
  ASSUME TypeOK, InPlace, Safe, NEW d \in scene.dirs, UserStep(d)
  PROVE  Safe'
<1>0. d \in Dirs
  BY SceneIs
<1>1. UNCHANGED <<service, proc, lost>>
  BY UserTyped
<1>2. service = "running" \/ Me.pc = "idle"
  BY DEF UserStep, UserEditsApps, UserEditsBackup, UserSets, MayEdit, Me
<1>3. ~Undisturbed'
  BY <1>1, <1>2 DEF Undisturbed, Me, Safe, NobodyEdits, CleanStage
<1>4. Up'
  <2>1. CASE UserEditsApps(d)
    <3>1. PICK managed \in {"absent", "edited", apps[d].managed} :
            apps' = [apps EXCEPT ![d] = [user |-> made[d] + 1, managed |-> managed,
                                         hooks |-> IF managed = "absent" THEN {} ELSE @.hooks]]
      BY <2>1 DEF UserEditsApps
    <3>2. made' = [made EXCEPT ![d] = @ + 1]
      BY <2>1 DEF UserEditsApps
    <3>3. apps'[d].user = made'[d]
      BY <1>0, <3>1, <3>2 DEF TypeOK
    <3>4. \A e \in Dirs \ {d} : apps'[e] = apps[e] /\ made'[e] = made[e]
      BY <3>1, <3>2 DEF TypeOK
    <3> QED BY <3>3, <3>4 DEF Safe, Up
  <2>2. CASE UserEditsBackup(d) \/ \E k \in scene.keys : UserSets(d, k)
    BY <2>2 DEF UserEditsBackup, UserSets, history, Safe, Up
  <2> QED BY <2>1, <2>2 DEF UserStep
<1> QED BY <1>1, <1>3, <1>4 DEF Safe, NobodyEdits

LEMMA SetupSafe ==
  ASSUME TypeOK, InPlace, Safe, SetupStep
  PROVE  Safe'
<1> USE DEF CleanStage
<1>0. /\ Me \in Process /\ Me.dir \in Dirs /\ Me.mem[Me.dir] \in Entry /\ Me.apps \in AppsFile
      /\ Me.conf \in [Key -> Value]
  BY MeIs DEF Process
<1>1. ASSUME UNCHANGED <<apps, made, lost>>, ~Undisturbed' PROVE Safe'
  BY <1>1 DEF Safe, Up, NobodyEdits
<1>2. CASE Load(Setup)
  <2>1. UNCHANGED <<apps, made, lost>> /\ Me'.pc = "edit"
    BY <1>2, LoadDoes DEF Moves
  <2> QED BY <1>1, <2>1 DEF Undisturbed
<1>3. CASE Edited
  <2>1. UNCHANGED <<apps, made, lost>> /\ Me'.pc = "save"
    BY <1>3 DEF Edited, Moves, files, history
  <2> QED BY <1>1, <2>1 DEF Undisturbed
<1>4. CASE Save(Setup)
  <2>1. UNCHANGED <<apps, made, lost>> /\ Me'.pc = "writeApps"
    BY <1>4, SaveDoes DEF Moves
  <2> QED BY <1>1, <2>1 DEF Undisturbed
<1>5. CASE WriteApps(Setup)
  <2>0. /\ Me'.pc = "writeConf" /\ Me.cmd = "configure" /\ PutApps(Setup, NewApps(Me))
    BY <1>5, WriteAppsDoes DEF Moves
  <2>1. Up'
    BY <1>0, <2>0, NewFilesTyped, PutAppsUp DEF Safe
  <2>2. "cleanup" \notin lost'
    BY <2>0 DEF PutApps, Cause, Me, Safe
  <2> QED BY <2>0, <2>1, <2>2 DEF Safe, NobodyEdits, Undisturbed
<1>6. CASE WriteConf(Setup)
  <2>0. /\ Me'.pc = "idle" /\ Me.cmd = "configure"
        /\ PutConf(Setup, NewConf(Me), Replaced(Me.mem[Me.dir], conf[Me.dir], NewConf(Me)))
        /\ UNCHANGED <<apps, made>>
    BY <1>6, WriteConfDoes
  <2>1. "cleanup" \notin lost'
    BY <2>0 DEF PutConf, Cause, Me, Safe
  <2> QED BY <2>0, <2>1 DEF Safe, Up, NobodyEdits, Undisturbed
<1>7. CASE LoadJournal(Setup)
  <2>0. Moves("pick") /\ Me.pc = "load" /\ Me.cmd = "cleanup" /\ UNCHANGED <<apps, made, lost, service>>
    BY <1>7, LoadJournalDoes DEF files, history
  <2> QED BY <2>0 DEF Safe, Up, NobodyEdits, Undisturbed, Moves
<1>8. CASE PickLocation(Setup)
  <2>0. Me.pc = "pick" /\ Me.cmd = "cleanup" /\ UNCHANGED <<apps, made, lost, service>>
    BY <1>8, PickDoes DEF files, history
  <2>1. CASE Moves("deleteJournal")
    BY <2>0, <2>1 DEF Safe, Up, NobodyEdits, Undisturbed, Moves
  <2>2. ASSUME NEW d \in Dirs, Picked(d) PROVE Safe'
    BY <2>0, <2>2 DEF Safe, Up, NobodyEdits, Undisturbed, Picked, Moves
  <2> QED BY <1>8, <2>1, <2>2, PickDoes
<1>9. CASE RemoveApps(Setup)
  <2> DEFINE file == Cleaned(Me.mem[Me.dir], Me.apps)
  <2>0. /\ Moves("restoreConf") /\ Holds /\ Me.pc = "removeApps" /\ Me.cmd = "cleanup"
        /\ Me'.conf = conf[Me.dir] /\ UNCHANGED <<conf, service>>
        /\ IF file = Me.apps THEN UNCHANGED <<apps, made, lost>> ELSE PutApps(Setup, file)
    BY <1>9, RemoveAppsDoes
  <2>1. file \in AppsFile /\ file.user = Me.apps.user
    BY <1>0, CleanedTyped
  <2> HIDE DEF file
  <2>2. Up'
    <3>1. CASE file = Me.apps
      BY <2>0, <3>1 DEF Safe, Up
    <3>2. CASE file # Me.apps
      BY <2>0, <2>1, <3>2, PutAppsUp DEF Safe
    <3> QED BY <3>1, <3>2
  <2>3. Undisturbed => Me.apps = apps[Me.dir]
    BY <2>0 DEF Safe, NobodyEdits
  <2>4. "cleanup" \notin lost'
    BY <2>0, <2>3 DEF Undisturbed, PutApps, Cause, Me, Safe
  <2> QED BY <2>0, <2>2, <2>4 DEF Safe, NobodyEdits, Undisturbed, Moves, Holds
<1>10. CASE RestoreConf(Setup)
  <2> DEFINE file == Restored(Me.mem[Me.dir], Me.conf)
  <2>0. /\ Moves("dropBackup") /\ Me.pc = "restoreConf" /\ Me.cmd = "cleanup"
        /\ UNCHANGED <<apps, made, service>>
        /\ IF file = Me.conf THEN UNCHANGED <<conf, overridden, lost>>
           ELSE PutConf(Setup, file, {})
    BY <1>10, RestoreConfDoes
  <2> HIDE DEF file
  <2>1. Undisturbed => Me.conf = conf[Me.dir]
    BY <2>0 DEF Safe, NobodyEdits
  <2>2. "cleanup" \notin lost'
    BY <2>0, <2>1 DEF Undisturbed, PutConf, Cause, Me, Safe
  <2> QED BY <2>0, <2>2 DEF Safe, Up, NobodyEdits, Undisturbed, Moves
<1>11. CASE DropBackup(Setup)
  <2>0. Moves("pick") /\ Me.pc = "dropBackup" /\ Me.cmd = "cleanup" /\ UNCHANGED <<apps, made, lost, service>>
    BY <1>11, DropBackupDoes DEF history
  <2> QED BY <2>0 DEF Safe, Up, NobodyEdits, Undisturbed, Moves
<1>12. CASE DeleteJournal(Setup)
  <2>1. Me'.pc \in {"startQuery", "idle"} /\ UNCHANGED <<apps, made, lost>>
    BY <1>12, DeleteJournalDoes DEF history
  <2> QED BY <1>1, <2>1 DEF Undisturbed
<1> QED BY <1>2, <1>3, <1>4, <1>5, <1>6, <1>7, <1>8, <1>9, <1>10, <1>11, <1>12 DEF SetupStep

LEMMA InitSafe == Init => Safe
<1> SUFFICES ASSUME Init PROVE Safe
  OBVIOUS
<1>1. Me.pc = "idle" /\ lost = {}
  BY DEF Init, Me, Resting
<1>2. Up
  BY DEF Init, Up
<1> QED BY <1>1, <1>2 DEF Safe, NobodyEdits, Undisturbed, CleanStage

\* The removal never writes over an edit while it alone keeps Sunshine stopped,
\* and apps.json has every edit made of it.
THEOREM Keeps == Spec => []EditsKept
<1> DEFINE Inv == TypeOK /\ InPlace /\ Safe
<1>1. Init => Inv
  BY InitTyped, InitSafe
<1>2. Inv /\ [Next]_vars => Inv'
  <2> SUFFICES ASSUME TypeOK, InPlace, Safe, [Next]_vars PROVE Inv'
    OBVIOUS
  <2>1. TypeOK' /\ InPlace'
    BY StepIs, QuietTyped, SetupTyped, UserTyped
  <2>2. Safe'
    BY StepIs, QuietSafe, SetupSafe, UserSafe
  <2> QED BY <2>1, <2>2
<1>3. Inv => EditsKept
  BY DEF Safe, Up, EditsKept
<1> HIDE DEF Inv
<1> QED BY <1>1, <1>2, <1>3, PTL DEF Spec

-----------------------------------------------------------------------------
(* Sunshine is started again.                                              *)

\* A command that is stopping Sunshine has noted that it has to start it, or always
\* does; configure never does.
Remembers(p) ==
  /\ proc[p].pc \in {"stopQuery", "stopStarting", "stopControl", "stopWait"} =>
       proc[p].restart \/ proc[p].cmd = "restart"
  /\ proc[p].restart \/ proc[p].pc = "look" => proc[p].cmd # "configure"

\* Until Sunshine has stopped somebody waits for it: a command that starts it
\* meanwhile may end, because it is not the one.
Responsible ==
  /\ \A p \in Proc : Remembers(p)
  /\ service = "stopPending" /\ ~excused => \E p \in Proc : Waits(p)
  /\ service = "stopped" /\ ~excused => \E p \in Proc : Owes(p)

OthersSame(p) == \A q \in Proc \ {p} : Same(proc'[q], proc[q])

\* What another command owes it owes after a step of p.
LEMMA OthersOwe ==
  ASSUME Responsible, NEW p \in Proc, OthersSame(p)
  PROVE  \A q \in Proc \ {p} :
           Remembers(q)' /\ (Waits(q) => Waits(q)') /\ (Owes(q) => Owes(q)')
BY DEF OthersSame, Same, Responsible, Remembers, Waits, Owes

\* A step that leaves the service alone need only keep what its own process owes.
LEMMA Carried ==
  ASSUME Responsible, NEW p \in Proc, OthersSame(p), service' = service, excused => excused',
         Remembers(p)',
         service = "stopPending" /\ ~excused' /\ Waits(p) => Waits(p)',
         service = "stopped" /\ ~excused' /\ Owes(p) => Owes(p)'
  PROVE  Responsible'
<1>1. \A q \in Proc : Remembers(q)'
  BY OthersOwe
<1>2. ASSUME service' = "stopPending", ~excused' PROVE \E q \in Proc : Waits(q)'
  BY <1>2, OthersOwe DEF Responsible
<1>3. ASSUME service' = "stopped", ~excused' PROVE \E q \in Proc : Owes(q)'
  BY <1>3, OthersOwe DEF Responsible
<1> QED BY <1>1, <1>2, <1>3 DEF Responsible

\* Where a step leads its process.
Leads(p, stage) ==
  /\ OthersSame(p)
  /\ proc'[p].pc = stage /\ proc'[p].cmd = proc[p].cmd /\ proc'[p].restart = proc[p].restart

Ends(p) == OthersSame(p) /\ proc'[p].pc = "idle" /\ ~proc'[p].restart

LEMMA GotoLeads ==
  ASSUME TypeOK, NEW p \in Proc, NEW stage \in Stage, Goto(p, stage)
  PROVE  Leads(p, stage)
<1>1. proc[p] \in Process
  BY DEF TypeOK
<1>2. /\ \A q \in Proc \ {p} : proc'[q] = proc[q]
      /\ proc'[p] = [proc[p] EXCEPT !.pc = stage]
  BY GotoIs
<1>3. OthersSame(p)
  BY <1>2 DEF OthersSame, Same
<1>4. /\ proc'[p].pc = stage /\ proc'[p].cmd = proc[p].cmd
      /\ proc'[p].restart = proc[p].restart
  BY <1>1, <1>2 DEF Process
<1> QED BY <1>3, <1>4 DEF Leads

LEMMA EndEnds ==
  ASSUME TypeOK, NEW p \in Proc, End(p)
  PROVE  Ends(p)
BY EndIs DEF Ends, OthersSame, Same, Resting

\* A command ends without owing anything, or goes on to the start.
LEMMA AfterOperationOwes ==
  ASSUME TypeOK, Responsible, NEW p \in Proc, AfterOperation(p), service' = service,
         excused' = excused, ~Waits(p),
         proc[p].pc \notin {"startQuery", "startAfter", "startControl"}
  PROVE  Responsible'
<1>1. CASE proc[p].restart
  <2>1. Leads(p, "startQuery")
    BY <1>1, GotoLeads DEF AfterOperation, Stage
  <2>2. Remembers(p)'
    BY <2>1 DEF Leads, Responsible, Remembers
  <2> QED BY <2>1, <2>2, Carried DEF Leads, Owes
<1>2. CASE ~proc[p].restart
  <2>1. Ends(p)
    BY <1>2, EndEnds DEF AfterOperation
  <2> QED BY <1>2, <2>1, Carried DEF Ends, Remembers, Owes
<1> QED BY <1>1, <1>2

\* The stop has failed: the rescue action goes on, the other commands end.
LEMMA StopFailsOwes ==
  ASSUME TypeOK, Responsible, NEW p \in Proc, StopFails(p), service' = service,
         excused => excused',
         service \in {"stopped", "stopPending"} /\ ~excused' => ~Owes(p)
  PROVE  Responsible'
<1>1. CASE Goto(p, "operate")
  <2>1. Leads(p, "operate")
    BY <1>1, GotoLeads DEF Stage
  <2>2. Remembers(p)'
    BY <2>1 DEF Leads, Responsible, Remembers
  <2> QED BY <2>1, <2>2, Carried DEF Leads, Owes
<1>2. CASE End(p)
  <2>1. Ends(p)
    BY <1>2, EndEnds
  <2> QED BY <2>1, Carried DEF Ends, Remembers, Owes
<1> QED BY <1>1, <1>2 DEF StopFails

\* Sunshine has stopped for a command that waited: it owes the start from now on.
LEMMA AfterStopOwes ==
  ASSUME TypeOK, InPlace, Responsible, NEW p \in Proc, Goto(p, AfterStop(p)),
         service = "stopped", service' = service, excused' = excused,
         proc[p].restart \/ proc[p].cmd = "restart"
  PROVE  Responsible'
<1>1. /\ AfterStop(p) \in Stage
      /\ IF proc[p].cmd = "restart" THEN AfterStop(p) = "startQuery"
         ELSE AfterStop(p) \in {"load", "operate"}
  BY DEF AfterStop, Stage
<1>2. Leads(p, AfterStop(p))
  BY <1>1, GotoLeads
<1>3. Remembers(p)' /\ Owes(p)'
  BY <1>1, <1>2 DEF Leads, Owes, Responsible, Remembers
<1> QED BY <1>2, <1>3, Carried DEF Leads

\* A step to a stage at which a command owes what it owed.
LEMMA GoesOnOwing ==
  ASSUME TypeOK, Responsible, NEW p \in Proc, NEW stage \in Stage \ {"look"}, Goto(p, stage),
         service' = service, excused' = excused,
         stage \in {"stopQuery", "stopStarting", "stopControl", "stopWait"} =>
           proc[p].pc \in {"stopQuery", "stopStarting", "stopControl", "stopWait"},
         service = "stopPending" => ~Waits(p),
         service = "stopped" => stage \in {"startAfter", "startControl"} \/ ~Owes(p)
  PROVE  Responsible'
<1>1. Leads(p, stage)
  BY GotoLeads
<1>2. Remembers(p)'
  BY <1>1 DEF Leads, Responsible, Remembers
<1> QED BY <1>1, <1>2, Carried DEF Leads, Owes

\* What a command is when it begins.
LEMMA BeginsAs ==
  ASSUME TypeOK, InPlace, NEW p \in Proc, Begin(p)
  PROVE  /\ proc'[p].pc \in {"load", "stopQuery", "look"} /\ ~proc'[p].restart
         /\ proc'[p].pc = "stopQuery" => proc'[p].cmd = "restart"
         /\ proc'[p].pc = "look" => proc'[p].cmd # "configure"
<1>1. PICK cmd \in IF p = Setup THEN scene.commands ELSE scene.helpers,
          mode \in scene.modes, path \in scene.paths, d \in scene.dirs :
        proc' = [proc EXCEPT ![p] =
                 [IF cmd = "configure"
                  THEN [Resting(path) EXCEPT !.mode = mode, !.dir = d]
                  ELSE Resting(AnyPath) EXCEPT !.cmd = cmd,
                    !.pc = CASE cmd = "configure" -> "load"
                             [] cmd = "restart" -> "stopQuery"
                             [] OTHER -> "look"]]
  BY DEF Begin
<1>2. cmd \in Command /\ mode \in Mode /\ path \in Path /\ d \in Dirs
  BY <1>1, SceneIs DEF Command, Served
<1> DEFINE stage == CASE cmd = "configure" -> "load"
                      [] cmd = "restart" -> "stopQuery"
                      [] OTHER -> "look"
           rest == IF cmd = "configure"
                   THEN [Resting(path) EXCEPT !.mode = mode, !.dir = d]
                   ELSE Resting(AnyPath)
           me == [rest EXCEPT !.cmd = cmd, !.pc = stage]
<1>3. /\ stage \in {"load", "stopQuery", "look"}
      /\ stage = "stopQuery" => cmd = "restart"
      /\ stage = "look" => cmd # "configure"
  BY <1>2
<1>4. rest \in Process /\ ~rest.restart
  <2>1. CASE cmd = "configure"
    <3>1. Resting(path) \in Process /\ ~Resting(path).restart
      BY <1>2, RestingIs DEF Resting
    <3> QED BY <1>2, <2>1, <3>1, WithPlace DEF Process
  <2>2. CASE cmd # "configure"
    BY <2>2, AnyPathIs, RestingIs DEF Resting
  <2> QED BY <2>1, <2>2
<1> HIDE DEF stage, rest
<1>5. me.restart = rest.restart /\ me.cmd = cmd /\ me.pc = stage
  BY <1>4 DEF Process
<1>6. proc' = [proc EXCEPT ![p] = me]
  BY <1>1 DEF rest, stage
<1> HIDE DEF me
<1>7. proc'[p] = me
  BY <1>6 DEF TypeOK
<1> QED BY <1>3, <1>4, <1>5, <1>7

\* What a command notes when it has looked.
LEMMA LooksAs ==
  ASSUME TypeOK, InPlace, NEW p \in Proc, Look(p)
  PROVE  /\ proc'[p].cmd = proc[p].cmd
         /\ IF service = "running" THEN proc'[p].restart /\ proc'[p].pc = "stopQuery"
            ELSE ~proc'[p].restart /\ proc'[p].pc = AfterStop(p)
<1> DEFINE running == service = "running"
           stage == IF running THEN "stopQuery" ELSE AfterStop(p)
           me == [proc[p] EXCEPT !.restart = running, !.pc = stage]
<1>1. proc[p] \in Process /\ proc' = [proc EXCEPT ![p] = me]
  BY DEF TypeOK, Look
<1>2. running \in BOOLEAN
  BY Zenon
<1>3. proc'[p] = me
  BY <1>1 DEF TypeOK
<1>4. me.cmd = proc[p].cmd /\ me.pc = stage /\ me.restart = running
  BY <1>1 DEF Process
<1> HIDE DEF me
<1>5. CASE running
  <2>1. stage = "stopQuery"
    BY <1>5
  <2> QED BY <1>3, <1>4, <1>5, <2>1
<1>6. CASE ~running
  <2>1. stage = AfterStop(p)
    BY <1>6
  <2> QED BY <1>3, <1>4, <1>6, <2>1
<1> QED BY <1>5, <1>6

\* No step of a command leaves Sunshine down with nobody to start it.
LEMMA ServiceOwes ==
  ASSUME TypeOK, InPlace, Responsible, NEW p \in Proc, ServiceStep(p)
  PROVE  Responsible'
<1>0. OthersSame(p) /\ Remembers(p) /\ PlacedOK(p) /\ service \in ServiceState
  BY ServiceServes DEF Serves, OthersSame, Responsible, InPlace, TypeOK
<1>1. CASE Begin(p)
  <2>1. ~Owes(p) /\ UNCHANGED <<service, excused>>
    BY <1>1 DEF Begin, Owes, Waits
  <2>2. Remembers(p)'
    BY <1>1, BeginsAs DEF Remembers
  <2> QED BY <1>0, <2>1, <2>2, Carried DEF Owes
<1>2. CASE Look(p)
  <2>1. ~Owes(p) /\ UNCHANGED <<service, excused>>
    BY <1>2 DEF Look, Owes, Waits
  <2>2. Remembers(p)'
    BY <1>0, <1>2, LooksAs, AfterStopIs DEF Remembers, Look
  <2> QED BY <1>0, <2>1, <2>2, Carried DEF Owes
<1>3. CASE StopQuery(p)
  <2>1. proc[p].pc = "stopQuery" /\ ~Owes(p) /\ ~Waits(p) /\ UNCHANGED <<service, excused>>
    BY <1>3 DEF StopQuery, Owes, Waits
  <2>2. CASE service = "stopped"
    BY <1>0, <1>3, <2>1, <2>2, AfterStopOwes DEF StopQuery, Remembers
  <2>3. CASE service # "stopped"
    <3>1. \E stage \in {"stopStarting", "stopWait", "stopControl"} : Goto(p, stage)
      BY <1>3, <2>3 DEF StopQuery
    <3> QED BY <2>1, <3>1, GoesOnOwing DEF Stage
  <2> QED BY <2>2, <2>3
<1>4. CASE StopControl(p)
  <2>1. proc[p].pc = "stopControl" /\ ~Owes(p) /\ excused' = excused
    BY <1>4 DEF StopControl, Owes, Waits
  <2>2. CASE service' = "stopPending" /\ Goto(p, "stopWait")
    <3>1. Leads(p, "stopWait")
      BY <2>2, GotoLeads DEF Stage
    <3>2. Remembers(p)' /\ Waits(p)'
      BY <1>0, <2>1, <3>1 DEF Leads, Remembers, Waits
    <3> QED BY <1>0, <2>2, <3>2, OthersOwe DEF Responsible
  <2>3. CASE StopFails(p) /\ service' = service
    BY <2>1, <2>3, StopFailsOwes
  <2> QED BY <1>4, <2>2, <2>3 DEF StopControl
<1>5. CASE StartQuery(p)
  <2>1. proc[p].pc = "startQuery" /\ ~Waits(p) /\ UNCHANGED <<service, excused>>
    BY <1>5 DEF StartQuery, Waits
  <2>2. CASE service = "running" /\ End(p)
    BY <1>0, <2>1, <2>2, EndEnds, Carried DEF Ends, Remembers
  <2>3. CASE service = "startPending" /\ Goto(p, "startWait")
    BY <2>1, <2>3, GoesOnOwing DEF Stage
  <2>4. CASE \E stage \in {"startAfter", "startControl"} : Goto(p, stage)
    BY <2>1, <2>4, GoesOnOwing DEF Stage
  <2> QED BY <1>0, <1>5, <2>2, <2>3, <2>4 DEF StartQuery, ServiceState
<1>6. CASE StartControl(p)
  <2>1. proc[p].pc = "startControl" /\ ~Waits(p)
    BY <1>6 DEF StartControl, Waits
  <2>2. CASE /\ service' = "startPending"
             /\ proc' = [q \in Proc |->
                          IF q = p THEN [proc[p] EXCEPT !.pc = "startWait"]
                          ELSE [proc[q] EXCEPT !.disturbed = (@ \/ proc[q].pc # "idle")]]
    <3>1. proc'[p].pc = "startWait" /\ proc'[p].cmd = proc[p].cmd
          /\ proc'[p].restart = proc[p].restart
      <4>1. proc[p] \in Process
        BY DEF TypeOK
      <4> QED BY <2>2, <4>1 DEF Process
    <3>2. Remembers(p)'
      BY <1>0, <3>1 DEF Remembers
    <3> QED BY <1>0, <2>2, <3>2, OthersOwe DEF Responsible
  <2>3. CASE End(p) /\ service' = service /\ (excused => excused')
             /\ (service = "stopped" => excused')
    BY <1>0, <2>1, <2>3, EndEnds, Carried DEF Ends, Remembers
  <2> QED BY <1>6, <2>2, <2>3 DEF StartControl
<1>7. CASE WaitForState(p)
  <2>1. UNCHANGED <<service, excused>>
    BY <1>7 DEF WaitForState
  <2>2. CASE proc[p].pc = "stopStarting" /\ service = "running" /\ Goto(p, "stopControl")
    BY <2>1, <2>2, GoesOnOwing DEF Stage
  <2>3. CASE proc[p].pc = "stopWait" /\ service = "stopped" /\ Goto(p, AfterStop(p))
    BY <1>0, <2>1, <2>3, AfterStopOwes DEF Remembers
  <2>4. CASE proc[p].pc = "startAfter" /\ service = "stopped" /\ Goto(p, "startControl")
    BY <2>1, <2>4, GoesOnOwing DEF Stage
  <2>5. CASE proc[p].pc = "startWait" /\ service = "running" /\ End(p)
    BY <1>0, <2>1, <2>5, EndEnds, Carried DEF Ends, Remembers
  <2> QED BY <1>7, <2>2, <2>3, <2>4, <2>5 DEF WaitForState, Desired
<1>8. CASE Missed(p) \/ Slow(p)
  <2>1. service' = service /\ (excused => excused')
        /\ proc[p].pc \in {"stopStarting", "stopWait", "startAfter", "startWait"}
    BY <1>8 DEF Missed, Slow, TimesOut
  <2>2. service \in {"stopped", "stopPending"} /\ ~excused' => ~Owes(p)
    BY <1>8, <2>1 DEF Missed, Slow, Desired, Coming, Owes, Waits
  <2>3. CASE StopFails(p)
    BY <2>1, <2>2, <2>3, StopFailsOwes
  <2>4. CASE End(p)
    BY <1>0, <2>1, <2>2, <2>4, EndEnds, Carried DEF Ends, Remembers, Owes
  <2> QED BY <1>8, <2>3, <2>4 DEF Missed, Slow, TimesOut
<1>9. CASE Operate(p) \/ Throws(p)
  BY <1>9, AfterOperationOwes DEF Operate, Throws, Waits
<1>10. CASE Kill(p)
  <2>1. End(p) /\ excused' /\ service' = service
    BY <1>10 DEF Kill
  <2> QED BY <1>0, <2>1, EndEnds, Carried DEF Ends, Remembers
<1> QED BY <1>1, <1>2, <1>3, <1>4, <1>5, <1>6, <1>7, <1>8, <1>9, <1>10 DEF ServiceStep

\* The removal goes from stage to stage and owes what it owed.
LEMMA CleansOwing ==
  ASSUME Responsible, NEW stage \in CleanStage, Moves(stage), Me.pc \in CleanStage \union {"load"},
         UNCHANGED <<service, excused>>
  PROVE  Responsible'
<1>1. OthersSame(Setup)
  BY DEF Moves, OthersSame, Same
<1>2. Remembers(Setup)'
  BY DEF Moves, Me, Responsible, Remembers, CleanStage
<1>3. ~Waits(Setup) /\ (Owes(Setup) => Owes(Setup)')
  BY DEF Moves, Me, Owes, Waits, CleanStage
<1> QED BY <1>1, <1>2, <1>3, Carried

\* Configure owes nothing at any stage.
LEMMA ConfiguresOwing ==
  ASSUME Responsible, NEW stage \in ConfigureStage, Moves(stage), Me.cmd = "configure",
         Me.pc \in ConfigureStage \union {"load"}, UNCHANGED <<service, excused>>
  PROVE  Responsible'
<1>1. OthersSame(Setup)
  BY DEF Moves, OthersSame, Same
<1>2. ~Owes(Setup) /\ ~Waits(Setup)
  BY DEF Me, Responsible, Remembers, Owes, Waits, ConfigureStage
<1>3. Remembers(Setup)'
  BY DEF Moves, Me, Responsible, Remembers, ConfigureStage
<1> QED BY <1>1, <1>2, <1>3, Carried

LEMMA SetupOwes ==
  ASSUME TypeOK, InPlace, Responsible, SetupStep
  PROVE  Responsible'
<1> USE DEF history
<1>1. CASE Load(Setup)
  BY <1>1, LoadDoes, ConfiguresOwing DEF Load, Me, ConfigureStage
<1>2. CASE Edited
  BY <1>2, ConfiguresOwing DEF Edited, ConfigureStage
<1>3. CASE Save(Setup)
  BY <1>3, SaveDoes, ConfiguresOwing DEF ConfigureStage
<1>4. CASE WriteApps(Setup)
  BY <1>4, WriteAppsDoes, ConfiguresOwing DEF ConfigureStage
<1>5. CASE WriteConf(Setup)
  <2>1. End(Setup) /\ Me.pc = "writeConf" /\ UNCHANGED <<service, excused>>
    BY <1>5, WriteConfDoes
  <2> QED BY <2>1, EndEnds, Carried DEF Ends, Remembers, Owes, Waits, Me
<1>6. CASE LoadJournal(Setup)
  BY <1>6, LoadJournalDoes, CleansOwing DEF CleanStage
<1>7. CASE PickLocation(Setup)
  <2>1. Me.pc = "pick" /\ UNCHANGED <<service, excused>>
        /\ \E stage \in {"deleteJournal", "removeApps"} : Moves(stage)
    BY <1>7, PickDoes DEF Picked
  <2> QED BY <2>1, CleansOwing DEF CleanStage
<1>8. CASE RemoveApps(Setup)
  BY <1>8, RemoveAppsDoes, CleansOwing DEF CleanStage
<1>9. CASE RestoreConf(Setup)
  BY <1>9, RestoreConfDoes, CleansOwing DEF CleanStage
<1>10. CASE DropBackup(Setup)
  BY <1>10, DropBackupDoes, CleansOwing DEF CleanStage
<1>11. CASE DeleteJournal(Setup)
  BY <1>11, AfterOperationOwes DEF DeleteJournal, Waits
<1> QED BY <1>1, <1>2, <1>3, <1>4, <1>5, <1>6, <1>7, <1>8, <1>9, <1>10, <1>11 DEF SetupStep

LEMMA QuietOwes ==
  ASSUME TypeOK, InPlace, Responsible, QuietStep
  PROVE  Responsible'
<1>1. CASE ServiceArrives
  <2>1. proc' = proc /\ excused' = excused /\ service \in {"startPending", "stopPending"}
        /\ service' = IF service = "startPending" THEN "running" ELSE "stopped"
    BY <1>1 DEF ServiceArrives
  <2> QED BY <2>1 DEF Responsible, Remembers, Waits, Owes
<1>2. CASE Me.pc = "edit" /\ End(Setup) /\ UNCHANGED <<scene, files, service, history, excused>>
  BY <1>2, EndEnds, Carried DEF Ends, Remembers, Owes, Waits, Me
<1>3. CASE UNCHANGED vars
  BY <1>3 DEF vars, Responsible, Remembers, Waits, Owes
<1> QED BY <1>1, <1>2, <1>3, ServiceOwes DEF QuietStep

LEMMA InitOwes == Init => Responsible
<1> SUFFICES ASSUME Init PROVE Responsible
  OBVIOUS
<1>1. \A p \in Proc : proc[p].pc = "idle" /\ ~proc[p].restart
  BY DEF Init, Resting
<1> QED BY <1>1 DEF Init, Responsible, Remembers

\* While Sunshine is down, and nobody was killed and Windows was not too slow, some
\* command is on its way to start it: what SunshineComesBack needs besides fairness.
THEOREM SomebodyStarts == Spec => []StartIsOwed
<1> DEFINE Inv == TypeOK /\ InPlace /\ Responsible
<1>1. Init => Inv
  BY InitTyped, InitOwes
<1>2. Inv /\ [Next]_vars => Inv'
  <2> SUFFICES ASSUME TypeOK, InPlace, Responsible, [Next]_vars PROVE Inv'
    OBVIOUS
  <2>1. TypeOK' /\ InPlace'
    BY StepIs, QuietTyped, SetupTyped, UserTyped
  <2>2. ASSUME NEW d \in scene.dirs, UserStep(d) PROVE Responsible'
    <3>1. UNCHANGED <<service, proc>> /\ excused' = excused
      BY <2>2, UserTyped DEF UserStep, UserEditsApps, UserEditsBackup, UserSets
    <3> QED BY <3>1 DEF Responsible, Remembers, Waits, Owes
  <2> QED BY <2>1, <2>2, StepIs, QuietOwes, SetupOwes
<1>3. Inv => StartIsOwed
  BY DEF Responsible, StartIsOwed, Owes
<1> HIDE DEF Inv
<1> QED BY <1>1, <1>2, <1>3, PTL DEF Spec
=============================================================================
