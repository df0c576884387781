------------------------- MODULE SunshineIntegration -------------------------
(***************************************************************************)
(* The Windows host's changes to Sunshine: `configure` and                 *)
(* `uninstall cleanup-integration` (SunshineConfigurator.cs) with the       *)
(* ownership journal in the registry (SunshineOwnershipJournal.cs), and the *)
(* commands that stop and start the Sunshine service around their work      *)
(* (UninstallManager.cs, HostRecoveryAgent.cs, WindowsServiceManager.cs).   *)
(*                                                                         *)
(* One process sets up and cleans up, one command after the other; others,  *)
(* such as the rescue agent, run at the same time.  A process may be        *)
(* killed, a file operation or a Windows call may fail, and the person may  *)
(* edit Sunshine's files, in its web page while the service runs or by hand *)
(* while no set-up command does.                                           *)
(***************************************************************************)
EXTENDS Naturals, FiniteSets

CONSTANTS
  Proc, Setup,   \* the processes, and the one that configures and cleans up
  Path,          \* install paths of the companion, which its hook names
  Id,            \* ids that Sunshine may give the virtual display
  MaxEdits,      \* edits of apps.json by the person
  UserValue,     \* what the person sets a key to; "absent": no such line
  Scenes         \* what happens in a behaviour, see Scene

Key == {"controller", "dd", "output"}
Mode == {"native", "app", "apollo"}
Served == {"rescue", "prepare", "restart"}     \* commands about the service only
Command == Served \union {"configure", "cleanup"}
Value == UserValue \union Id \union {"absent", "enabled", "ensure_only_display", "disabled"}

Scene == [dirs : SUBSET {"d1", "d2"}, keys : SUBSET Key, modes : SUBSET Mode,
          paths : SUBSET Path, ids : SUBSET Id, commands : SUBSET Command,
          helpers : SUBSET Served, touches : SUBSET {"apps", "keys", "backup"}, legacy : BOOLEAN, kills : BOOLEAN]

ASSUME SunshineAssumption ==
  /\ MaxEdits \in Nat
  /\ Setup \in Proc /\ Path # {}
  /\ Scenes \subseteq Scene
  /\ UserValue \intersect (Id \union {"enabled", "ensure_only_display", "disabled", "keep"}) = {}
  /\ "absent" \in UserValue /\ Id \intersect {"absent", "keep", "none"} = {}

VARIABLES
  scene,
  apps, conf, backup,  \* apps.json, sunshine.conf and the backup of apps.json
  journal,             \* the ownership journal
  service,             \* the Sunshine service as Windows reports it
  proc,                \* the processes
  \* history
  made,                \* edits of apps.json the person made
  user,                \* the person's last choice for each key
  overridden,          \* choices that a later configure has replaced
  stranded,            \* keys whose journaled value is newer than the file
  orphans,             \* hooks in apps.json that the journal no longer lists
  strays,              \* backups that the journal does not list
  lost,                \* which commands wrote over an edit
  excused              \* Windows was slow, or a process was killed

Dirs == {"d1", "d2"}
files == <<apps, conf, backup, journal>>
history == <<made, user, overridden, stranded, orphans, strays, lost>>
vars == <<scene, files, service, proc, history, excused>>

\* apps.json: a version for the person's own content, our application and our
\* hooks, which are only ever on that application.
AppsFile == [user : Nat, managed : {"absent", "generated", "edited"}, hooks : SUBSET Path]
Owned == [original : Value, applied : Value]
Free == [original |-> "absent", applied |-> "keep"]
Entry == [values : [Key -> Owned \union {Free}], hooks : SUBSET Path, created : BOOLEAN,
          backup : BOOLEAN]
NoEntry == [values |-> [k \in Key |-> Free], hooks |-> {}, created |-> FALSE, backup |-> FALSE]

ServiceState == {"stopped", "startPending", "stopPending", "running"}
Stage == {"idle", "look", "stopQuery", "stopStarting", "stopControl", "stopWait", "operate",
          "startQuery", "startAfter", "startControl", "startWait",
          "load", "edit", "save", "writeApps", "writeConf",
          "pick", "removeApps", "restoreConf", "dropBackup", "deleteJournal"}

Process == [pc : Stage, cmd : Command, restart : BOOLEAN, disturbed : BOOLEAN,
            mode : Mode, path : Path, dir : Dirs, left : SUBSET Dirs,
            mem : [Dirs -> Entry], apps : AppsFile, conf : [Key -> Value],
            set : [Key -> Value \union {"keep"}]]

TypeOK ==
  /\ scene \in Scenes
  /\ apps \in [Dirs -> AppsFile]
  /\ conf \in [Dirs -> [Key -> Value]]
  /\ backup \in [Dirs -> {"none", "copy", "edited"}]
  /\ journal \in [Dirs -> Entry]
  /\ service \in ServiceState
  /\ proc \in [Proc -> Process]
  /\ made \in [Dirs -> Nat]
  /\ user \in [Dirs -> [Key -> UserValue]]
  /\ overridden \in [Dirs -> SUBSET Key]
  /\ stranded \in [Dirs -> SUBSET Key]
  /\ orphans \in [Dirs -> SUBSET Path]
  /\ strays \subseteq Dirs
  /\ lost \subseteq {"configure", "cleanup", "disturbed"}
  /\ excused \in BOOLEAN

\* A process that runs nothing holds nothing.
Resting(path) ==
  [pc |-> "idle", cmd |-> "restart", restart |-> FALSE, disturbed |-> FALSE,
   mode |-> "native", path |-> path, dir |-> "d1", left |-> {},
   mem |-> [d \in Dirs |-> NoEntry],
   apps |-> [user |-> 0, managed |-> "absent", hooks |-> {}],
   conf |-> [k \in Key |-> "absent"], set |-> [k \in Key |-> "keep"]]

AnyPath == CHOOSE path \in Path : TRUE

\* A version before the journal may have left its application and hook.
Init ==
  /\ scene \in Scenes
  /\ \E old \in IF scene.legacy THEN {{}} \union {{path} : path \in scene.paths} ELSE {{}} :
       /\ apps = [d \in Dirs |-> [user |-> 0, hooks |-> old,
                                  managed |-> IF old = {} THEN "absent" ELSE "generated"]]
       /\ orphans = [d \in Dirs |-> old]
  /\ conf = [d \in Dirs |-> [k \in Key |-> "absent"]]
  /\ backup = [d \in Dirs |-> "none"]
  /\ journal = [d \in Dirs |-> NoEntry]
  /\ service = "running"
  /\ proc = [p \in Proc |-> Resting(AnyPath)]
  /\ made = [d \in Dirs |-> 0]
  /\ user = conf
  /\ overridden = [d \in Dirs |-> {}] /\ stranded = [d \in Dirs |-> {}]
  /\ strays = {} /\ lost = {} /\ excused = FALSE

-----------------------------------------------------------------------------
Goto(p, stage) == proc' = [proc EXCEPT ![p].pc = stage]
End(p) == proc' = [proc EXCEPT ![p] = Resting(AnyPath)]

\* A command that stops Sunshine looks first whether it runs; configure and
\* restart do not.
Begin(p) ==
  /\ proc[p].pc = "idle"
  /\ \E cmd \in IF p = Setup THEN scene.commands ELSE scene.helpers,
        mode \in scene.modes, path \in scene.paths, d \in scene.dirs :
       proc' = [proc EXCEPT ![p] =
                 [IF cmd = "configure"
                  THEN [Resting(path) EXCEPT !.mode = mode, !.dir = d]
                  ELSE Resting(AnyPath) EXCEPT !.cmd = cmd,
                    !.pc = CASE cmd = "configure" -> "load"
                             [] cmd = "restart" -> "stopQuery"
                             [] OTHER -> "look"]]
  /\ UNCHANGED <<scene, files, service, history, excused>>

AfterStop(p) == CASE proc[p].cmd = "restart" -> "startQuery"
                  [] proc[p].cmd = "cleanup" -> "load"
                  [] OTHER -> "operate"

\* Mutant: the files are changed while Sunshine runs.
LooksOnly(p) ==
  /\ proc[p].pc = "look"
  /\ proc' = [proc EXCEPT ![p].restart = service = "running", ![p].pc = AfterStop(p)]
  /\ UNCHANGED <<scene, files, service, history, excused>>

\* Mutant: whether Sunshine runs is asked once it has been stopped.
LooksLate(p) ==
  /\ proc[p].pc = "look"
  /\ Goto(p, IF service = "running" THEN "stopQuery" ELSE AfterStop(p))
  /\ UNCHANGED <<scene, files, service, history, excused>>

\* WithSunshineStopped, and the same steps of the rescue action: only a running
\* service is stopped, and only one that was running is started again.
Look(p) ==
  /\ proc[p].pc = "look"
  /\ LET running == service = "running"
     IN proc' = [proc EXCEPT ![p].restart = running,
                             ![p].pc = IF running THEN "stopQuery" ELSE AfterStop(p)]
  /\ UNCHANGED <<scene, files, service, history, excused>>

\* The finally block.  Its mutant is End.
AfterOperation(p) == IF proc[p].restart THEN Goto(p, "startQuery") ELSE End(p)

\* An exception of Stop: the rescue action notes it and goes on; the others are
\* outside of their try block.
StopFails(p) == IF proc[p].cmd = "rescue" THEN Goto(p, "operate") ELSE End(p)

StopQuery(p) ==
  /\ proc[p].pc = "stopQuery"
  /\ Goto(p, CASE service = "startPending" -> "stopStarting"
               [] service = "stopPending" -> "stopWait"
               [] service = "stopped" -> AfterStop(p)
               [] OTHER -> "stopControl")
  /\ UNCHANGED <<scene, files, service, history, excused>>

\* ControlService refuses a service that does not run.
StopControl(p) ==
  /\ proc[p].pc = "stopControl"
  /\ \/ service = "running" /\ service' = "stopPending" /\ Goto(p, "stopWait")
     \/ StopFails(p) /\ UNCHANGED service
  /\ UNCHANGED <<scene, files, history, excused>>

StartQuery(p) ==
  /\ proc[p].pc = "startQuery"
  /\ CASE service = "running" -> End(p)
       [] service = "startPending" -> Goto(p, "startWait")
       [] service = "stopPending" -> Goto(p, "startAfter")
       [] OTHER -> Goto(p, "startControl")
  /\ UNCHANGED <<scene, files, service, history, excused>>

\* StartService refuses a service that another process has started.
StartControl(p) ==
  /\ proc[p].pc = "startControl"
  /\ IF service = "stopped"
     THEN \/ /\ service' = "startPending"
             /\ proc' = [q \in Proc |->
                          IF q = p THEN [proc[p] EXCEPT !.pc = "startWait"]
                          ELSE [proc[q] EXCEPT !.disturbed = (@ \/ proc[q].pc # "idle")]]
             /\ UNCHANGED excused
          \/ scene.kills /\ excused' = TRUE /\ End(p) /\ UNCHANGED service
     ELSE End(p) /\ UNCHANGED <<service, excused>>
  /\ UNCHANGED <<scene, files, history>>

\* WaitForState polls every quarter of a second.  It may miss a state that
\* another process has ended, or run out before a slow service gets there.
Desired(stage) == IF stage \in {"stopWait", "startAfter"} THEN "stopped" ELSE "running"
Coming(stage) == IF Desired(stage) = "stopped" THEN "stopPending" ELSE "startPending"

WaitForState(p) ==
  /\ proc[p].pc \in {"stopStarting", "stopWait", "startAfter", "startWait"}
  /\ service = Desired(proc[p].pc)
  /\ CASE proc[p].pc = "stopStarting" -> Goto(p, "stopControl")
       [] proc[p].pc = "stopWait" -> Goto(p, AfterStop(p))
       [] proc[p].pc = "startAfter" -> Goto(p, "startControl")
       [] OTHER -> End(p)
  /\ UNCHANGED <<scene, files, service, history, excused>>

TimesOut(p) ==
  /\ proc[p].pc \in {"stopStarting", "stopWait", "startAfter", "startWait"}
  /\ IF proc[p].pc \in {"stopStarting", "stopWait"} THEN StopFails(p) ELSE End(p)
  /\ UNCHANGED <<scene, files, service, history>>

Missed(p) ==
  /\ service \notin {Desired(proc[p].pc), Coming(proc[p].pc)}
  /\ TimesOut(p)
  /\ UNCHANGED excused

Slow(p) ==
  /\ scene.kills
  /\ service = Coming(proc[p].pc)
  /\ TimesOut(p)
  /\ excused' = TRUE

\* The display half of rescue and prepare is DisplaySession's; it may throw.
Operate(p) ==
  /\ proc[p].pc = "operate"
  /\ AfterOperation(p)
  /\ UNCHANGED <<scene, files, service, history, excused>>

\* The service control manager.
ServiceArrives ==
  /\ service \in {"startPending", "stopPending"}
  /\ service' = IF service = "startPending" THEN "running" ELSE "stopped"
  /\ UNCHANGED <<scene, files, proc, history, excused>>

-----------------------------------------------------------------------------
\* Configure.  BackupOnce copies apps.json unless a backup is there, and both
\* files are read; the edited copies are written back much later.
Load(p) ==
  /\ proc[p].pc = "load"
  /\ proc[p].cmd = "configure"
  /\ LET d == proc[p].dir
         copied == backup[d] = "none"
     IN /\ backup' = [backup EXCEPT ![d] = IF copied THEN "copy" ELSE @]
        /\ strays' = IF copied THEN strays \union {d} ELSE strays
        /\ proc' = [proc EXCEPT ![p].pc = "edit", ![p].apps = apps[d], ![p].conf = conf[d],
                      ![p].mem = [journal EXCEPT ![d].backup = @ \/ copied]]
  /\ UNCHANGED <<scene, apps, conf, journal, service, made, user, overridden, stranded, orphans,
                 lost, excused>>

\* The values that configure sets; "keep" leaves a key alone.
Applied(mode, id) ==
  [k \in Key |->
     CASE k \notin scene.keys -> "keep"
       [] k = "controller" -> "enabled"
       [] k = "output" -> IF mode = "native" THEN id ELSE "keep"
       [] OTHER -> CASE mode = "native" -> "ensure_only_display"
                     [] mode = "app" -> "disabled"
                     [] OTHER -> "keep"]

\* Mutant: every configure takes what it finds for the original.
ClaimAfresh(owned, now, value) ==
  IF value = "keep" THEN owned ELSE [original |-> now, applied |-> value]

\* SetConfigurationValue: the original is the value found by the first configure.
Claim(owned, now, value) ==
  IF value = "keep" THEN owned
  ELSE [original |-> IF owned = Free THEN now ELSE owned.original, applied |-> value]

\* Hooks of ours are told by the journal, or by their text: an earlier version's.
RemoveOwnedHooks(entry, file) == file.hooks \ entry.hooks
HasLegacyGeneratedHook(entry, file) == RemoveOwnedHooks(entry, file) # {}

\* The application as we made it, but for its hooks.
IsUnchangedGeneratedManagedApplication(file) == file.managed = "generated"

\* The application of ours: one that an earlier version generated is claimed.
CreatedApplication(entry, file, mode) ==
  \/ entry.created
  \/ mode # "native" /\ file.managed = "absent"
  \/ IsUnchangedGeneratedManagedApplication(file) /\ HasLegacyGeneratedHook(entry, file)

\* Our application and our hook as configure leaves them: every hook of ours
\* goes, and unless Sunshine manages the display the current one is added.
NewHooks(me) == IF me.mode = "native" THEN {} ELSE {me.path}

NewApps(me) ==
  [user |-> me.apps.user, hooks |-> NewHooks(me),
   managed |-> IF me.mode # "native" /\ me.apps.managed = "absent"
               THEN "generated" ELSE me.apps.managed]

NewConf(me) == [k \in Key |-> IF me.set[k] = "keep" THEN me.conf[k] ELSE me.set[k]]

\* Mutant: the files are written before the journal.
FilesFirst(stage) == CASE stage = "edit" -> "writeApps"
                       [] stage = "writeApps" -> "writeConf"
                       [] stage = "writeConf" -> "save"
                       [] OTHER -> "idle"

\* The journal is saved before the files.
After(stage) == CASE stage = "edit" -> "save"
                  [] stage = "save" -> "writeApps"
                  [] stage = "writeApps" -> "writeConf"
                  [] OTHER -> "idle"

Onward(p) == IF After(proc[p].pc) = "idle" THEN End(p) ELSE Goto(p, After(proc[p].pc))

\* The display that Sunshine's log lists within thirty seconds, if any does.
FoundDevice(mode) == IF mode = "native" THEN scene.ids \union {"none"} ELSE {"none"}

\* The copies in memory are edited.
Edit(p) ==
  /\ proc[p].pc = "edit"
  /\ \E id \in FoundDevice(proc[p].mode) :
       IF proc[p].mode = "native" /\ id = "none" THEN End(p)
       ELSE
          LET me == proc[p]
              d == me.dir
              entry == me.mem[d]
              set == Applied(me.mode, id)
          IN proc' = [proc EXCEPT ![p] = [me EXCEPT
               !.pc = After("edit"),
               !.set = set,
               !.mem[d] =
                  [values |-> [k \in Key |-> Claim(entry.values[k], me.conf[k], set[k])],
                   hooks |-> NewHooks(me), backup |-> entry.backup,
                   created |-> CreatedApplication(entry, me.apps, me.mode)]]]
  /\ UNCHANGED <<scene, files, service, history, excused>>

\* Keys with a value of ours that the journal does not list.
Unlisted(entry, file) ==
  {k \in Key : file[k] \notin UserValue \union {entry.values[k].applied}}

Save(p) ==
  /\ proc[p].pc = "save"
  /\ LET d == proc[p].dir
         entry == proc[p].mem[d]
     IN /\ journal' = proc[p].mem
        /\ orphans' = [orphans EXCEPT ![d] = apps[d].hooks \ entry.hooks]
        /\ stranded' = [stranded EXCEPT ![d] = @ \union Unlisted(entry, conf[d])]
        /\ strays' = IF entry.backup THEN strays \ {d} ELSE strays
  /\ Onward(p)
  /\ UNCHANGED <<scene, apps, conf, backup, service, made, user, overridden, lost, excused>>

\* An edit made since the file was read is written over.
Cause(p) == IF proc[p].cmd = "configure" THEN "configure"
            ELSE IF proc[p].restart /\ ~proc[p].disturbed THEN "cleanup" ELSE "disturbed"

PutApps(p, file) ==
  LET d == proc[p].dir
      over == apps[d] # proc[p].apps
  IN /\ apps' = [apps EXCEPT ![d] = file]
     /\ made' = IF over THEN [made EXCEPT ![d] = file.user] ELSE made
     /\ lost' = IF over THEN lost \union {Cause(p)} ELSE lost

PutConf(p, file, replaced) ==
  LET d == proc[p].dir
      over == {k \in Key : conf[d][k] # proc[p].conf[k]}
  IN /\ conf' = [conf EXCEPT ![d] = file]
     /\ overridden' = [overridden EXCEPT ![d] = @ \union over \union replaced]
     /\ lost' = IF over = {} THEN lost ELSE lost \union {Cause(p)}

WriteApps(p) ==
  /\ proc[p].pc = "writeApps"
  /\ PutApps(p, NewApps(proc[p]))
  /\ orphans' = [orphans EXCEPT ![proc[p].dir] = {}]
  /\ Onward(p)
  /\ UNCHANGED <<scene, conf, backup, journal, service, user, overridden, stranded, strays,
                 excused>>

\* A choice of the person's that the file held and the journal does not.
Replaced(entry, before, file) ==
  {k \in Key : /\ before[k] \in UserValue \ {file[k]}
               /\ entry.values[k] # Free => before[k] # entry.values[k].original}

WriteConf(p) ==
  /\ proc[p].pc = "writeConf"
  /\ LET d == proc[p].dir
     IN /\ PutConf(p, NewConf(proc[p]), Replaced(proc[p].mem[d], conf[d], NewConf(proc[p])))
        /\ stranded' = [stranded EXCEPT ![d] = {k \in @ :
             \/ k \in Unlisted(proc[p].mem[d], NewConf(proc[p]))
             \/ proc[p].mem[d].values[k].original \notin UserValue}]
  /\ Onward(p)
  /\ UNCHANGED <<scene, apps, backup, journal, service, made, user, orphans, strays, excused>>

-----------------------------------------------------------------------------
\* RemoveManagedIntegration, one location after the other.
LoadJournal(p) ==
  /\ proc[p].pc = "load"
  /\ proc[p].cmd = "cleanup"
  /\ proc' = [proc EXCEPT ![p].pc = "pick", ![p].mem = journal, ![p].left = scene.dirs]
  /\ UNCHANGED <<scene, files, service, history, excused>>

PickLocation(p) ==
  /\ proc[p].pc = "pick"
  /\ \/ proc[p].left = {} /\ Goto(p, "deleteJournal")
     \/ \E d \in proc[p].left :
          proc' = [proc EXCEPT ![p].pc = "removeApps", ![p].dir = d, ![p].left = @ \ {d},
                               ![p].apps = apps[d]]
  /\ UNCHANGED <<scene, files, service, history, excused>>

\* Listed hooks go, and then our application if it is as we made it.
Cleaned(entry, file) ==
  LET hooks == RemoveOwnedHooks(entry, file)
  IN IF entry.created /\ IsUnchangedGeneratedManagedApplication(file) /\ hooks = {}
     THEN [file EXCEPT !.hooks = {}, !.managed = "absent"]
     ELSE [file EXCEPT !.hooks = hooks]

RemoveApps(p) ==
  /\ proc[p].pc = "removeApps"
  /\ LET d == proc[p].dir
         file == Cleaned(proc[p].mem[d], proc[p].apps)
     IN /\ IF file = proc[p].apps THEN UNCHANGED <<apps, made, lost>> ELSE PutApps(p, file)
        /\ proc' = [proc EXCEPT ![p].pc = "restoreConf", ![p].conf = conf[d]]
  /\ UNCHANGED <<scene, conf, backup, journal, service, user, overridden, stranded, orphans,
                 strays, excused>>

\* RestoreOwnedConfiguration: a value that is still ours gives way to the original.
Restored(entry, file) ==
  [k \in Key |-> IF entry.values[k] # Free /\ file[k] = entry.values[k].applied
                 THEN entry.values[k].original ELSE file[k]]

RestoreConf(p) ==
  /\ proc[p].pc = "restoreConf"
  /\ LET d == proc[p].dir
         file == Restored(proc[p].mem[d], proc[p].conf)
     IN IF file = proc[p].conf THEN UNCHANGED <<conf, overridden, lost>> ELSE PutConf(p, file, {})
  /\ Goto(p, "dropBackup")
  /\ UNCHANGED <<scene, apps, backup, journal, service, made, user, stranded, orphans, strays,
                 excused>>

\* Only a backup that is listed and has the recorded hash.
DropBackup(p) ==
  /\ proc[p].pc = "dropBackup"
  /\ LET d == proc[p].dir
     IN backup' = [backup EXCEPT ![d] = IF proc[p].mem[d].backup /\ @ = "copy" THEN "none" ELSE @]
  /\ Goto(p, "pick")
  /\ UNCHANGED <<scene, apps, conf, journal, service, history, excused>>

DeleteJournal(p) ==
  /\ proc[p].pc = "deleteJournal"
  /\ journal' = [d \in Dirs |-> NoEntry]
  /\ AfterOperation(p)
  /\ UNCHANGED <<scene, apps, conf, backup, service, history, excused>>

\* A file, the registry or the journal's text raises an exception.
Throws(p) ==
  /\ proc[p].pc \in {"load", "save", "writeApps", "writeConf", "removeApps", "restoreConf",
                     "dropBackup", "deleteJournal"}
  /\ AfterOperation(p)
  /\ UNCHANGED <<scene, files, service, history, excused>>

\* The process is killed: the agent, too, when `agent install` replaces it.
Kill(p) ==
  /\ scene.kills
  /\ proc[p].pc # "idle"
  /\ End(p)
  /\ excused' = TRUE
  /\ UNCHANGED <<scene, files, service, history>>

-----------------------------------------------------------------------------
MayEdit == service = "running" \/ proc[Setup].pc = "idle"

\* The person edits applications, ours perhaps: changes, deletes or makes it.
UserEditsApps(d) ==
  /\ MayEdit
  /\ "apps" \in scene.touches
  /\ made[d] < MaxEdits
  /\ \E managed \in {"absent", "edited", apps[d].managed} :
       apps' = [apps EXCEPT ![d] = [user |-> made[d] + 1, managed |-> managed,
                                    hooks |-> IF managed = "absent" THEN {} ELSE @.hooks]]
  /\ made' = [made EXCEPT ![d] = @ + 1]
  /\ UNCHANGED <<scene, conf, backup, journal, service, proc, user, overridden, stranded, orphans,
                 strays, lost, excused>>

UserSets(d, k) ==
  /\ MayEdit
  /\ "keys" \in scene.touches
  /\ \E v \in UserValue \ {conf[d][k]} :
       conf' = [conf EXCEPT ![d][k] = v] /\ user' = [user EXCEPT ![d][k] = v]
  /\ overridden' = [overridden EXCEPT ![d] = @ \ {k}]
  /\ stranded' = [stranded EXCEPT ![d] = @ \ {k}]
  /\ UNCHANGED <<scene, apps, backup, journal, service, proc, made, orphans, strays, lost, excused>>

UserEditsBackup(d) ==
  /\ MayEdit
  /\ "backup" \in scene.touches
  /\ backup[d] = "copy"
  /\ backup' = [backup EXCEPT ![d] = "edited"]
  /\ UNCHANGED <<scene, apps, conf, journal, service, proc, history, excused>>

Step(p) == \/ Look(p) \/ StopQuery(p) \/ StopControl(p) \/ StartQuery(p) \/ StartControl(p)
           \/ WaitForState(p) \/ Missed(p) \/ Operate(p)
           \/ Load(p) \/ Edit(p) \/ Save(p) \/ WriteApps(p) \/ WriteConf(p)
           \/ LoadJournal(p) \/ PickLocation(p) \/ RemoveApps(p) \/ RestoreConf(p)
           \/ DropBackup(p) \/ DeleteJournal(p)

Next == \/ \E p \in Proc : Begin(p) \/ Step(p) \/ Throws(p) \/ Slow(p) \/ Kill(p)
        \/ ServiceArrives
        \/ \E d \in scene.dirs :
             UserEditsApps(d) \/ UserEditsBackup(d) \/ \E k \in scene.keys : UserSets(d, k)

Spec == Init /\ [][Next]_vars

\* A command that runs goes on, and Windows carries out what it has accepted.
FairSpec == Spec /\ WF_vars(ServiceArrives) /\ \A p \in Proc : WF_vars(Step(p))

-----------------------------------------------------------------------------
\* A key of sunshine.conf that the journal does not list holds the person's own
\* last choice: originals are found again after any interruption, and a value
\* the person has edited since is not touched.  Not covered: a choice that a
\* second configure replaced, and a value of ours whose newer version was
\* journaled by a configure that did not get to write it.
OriginalRestored ==
  \A d \in Dirs : \A k \in Key :
    journal[d].values[k] = Free =>
      conf[d][k] = user[d][k] \/ k \in overridden[d] \union stranded[d]

\* Hooks, the application and the backup that are ours are listed, so that the
\* removal finds them; except hooks that an interrupted configure was about to
\* replace, and a backup whose configure did not get to save the journal.
NothingLeftBehind ==
  \A d \in Dirs :
    /\ apps[d].hooks \subseteq journal[d].hooks \union orphans[d]
    /\ apps[d].managed = "generated" => journal[d].created \/ orphans[d] # {}
    /\ backup[d] = "copy" => journal[d].backup \/ d \in strays

\* The person's edits of Sunshine's files survive: the removal has stopped
\* Sunshine before it reads them, and only another command that starts it again
\* lets an edit be written over (and configure, which needs Sunshine running).
EditsKept ==
  /\ "cleanup" \notin lost
  /\ \A d \in Dirs : apps[d].user = made[d]

\* A command that has stopped Sunshine, or has found it stopping after it had looked,
\* starts it again wherever it goes on to.
Waits(p) ==
  proc[p].pc = "stopWait" /\ (proc[p].restart \/ proc[p].cmd = "restart")

Owes(p) ==
  \/ Waits(p)
  \/ /\ proc[p].pc \in {"operate", "load", "pick", "removeApps", "restoreConf", "dropBackup",
                       "deleteJournal"}
     /\ proc[p].restart
  \/ proc[p].pc \in {"startQuery", "startAfter", "startControl"}

\* While Sunshine is down some command is on its way to start it: two commands that
\* stop it, find it stopping, start it or miss each other's changes never both end
\* believing that it runs, and an exception of either is no exception from this.
StartIsOwed ==
  service \in {"stopped", "stopPending"} /\ ~excused => \E p \in Proc : Owes(p)

\* Sunshine comes back after a command stopped it, whatever two commands do to
\* it together, unless one was killed or Windows was too slow for it.
SunshineComesBack == service = "stopped" ~> (service = "running" \/ excused)
=============================================================================
