# Vita Moonlight in TLA+

Vita Moonlight streams a Windows PC to a PlayStation Vita. The repository holds
two programs: the Vita client (C, `src/src` and `src/libgamestream`) and the
Windows host companion (C#, `src/host`), which prepares the PC, switches a
virtual display on for the stream and brings the user's own displays back. The
streaming servers themselves (Sunshine) and Limelight, the protocol library
(`moonlight-common-c`), are not part of the repository.

This directory specifies the parts of both programs that have state shared
between processes or threads, checks them with TLC and proves the central safety
properties with TLAPS. Paths below are relative to the repository; module and
action names follow the functions of the source.

| Module | What it is | Checked by | Proved in |
| --- | --- | --- | --- |
| `DisplayPromise` | what the host owes the person at the PC | (refined) | |
| `DisplaySession` | the display transaction of the host, as concurrent processes | `session`, `session_rescue`, `session_race` | `DisplaySession_proofs` |
| `MCDisplaySession` | instances of `DisplaySession` | | |
| `StreamClient` | connection state, UI loop, in-stream menu, termination callbacks | `stream`, `stream_stale` | `StreamClient_proofs` |
| `VideoPipeline` | decoder, watchdog, staged setup and bounded cleanup | `video`, `video_lockout` | `VideoPipeline_proofs` |
| `Input` | the worker of input, its chords, touch modes and corners, start and stop | `input` | `Input_proofs` |
| `MCInput` | scenes of `Input` | | |
| `SunshineIntegration` | set-up and clean-up of Sunshine's files and service, with the ownership journal | `sunshine` | `SunshineIntegration_proofs` |
| `MCSunshine` | scenes of `SunshineIntegration` | | |
| `MapPromise` | what the saved controller map promises | (refined) | |
| `ClientSettings` | controller map, settings file and what the input is given of them | `settings` | `ClientSettings_proofs` |
| `KnownDevices` | the list of computers, its files, and the pairing with their hosts | `hosts`, `hosts_delete` | `KnownDevices_proofs` |
| `MCHosts` | the instance of `KnownDevices` | | |

Run `tlc -config X.cfg M` with the module of the table (`MCDisplaySession` for
the `session*` configurations, `MCInput` for `input`, `MCSunshine` for
`sunshine`, `MCHosts` for the
`hosts*` configurations), and `tlapm M_proofs.tla`.

## Inventory

### Host companion (`host/VitaMoonlight.Host`)

**Display session transaction** (`SessionManager.cs`, `DisplayTopologyService.cs`,
`WindowsDisplayNative.cs`, commands in `Program.cs`). *State:* the Windows display
topology, the recovery record `display-recovery.json`, the lock file
`session.lock`. *Operations:* `session start|test|mode|stop|recover`, the native
mode check of driver setup (`PrimeNativeMode`), `display disable-virtual`.
*Interaction:* every command is a process; Sunshine's prep hook starts one, its
undo command stops one, a logon task recovers, the control panel and the person do
any of them at any time. *Hard:* processes are killed and Windows restarts
between the save, the activation and the restoration; every Windows call may
fail; some commands take no lock. *Right when:* the user's displays are on or a
record from which they can be restored is on disk; the record is never
overwritten by another session's; nothing is restored by halves.

**Rescue action** (`HostRecoveryAgent.cs`, `UninstallManager.cs`): F11 (sent by the
Vita too), `emergency recover-display`, `session recover-upgrade`, `uninstall
prepare`. Shows physical displays only, deletes the record, reloads the driver,
and stops and starts Sunshine around it. Takes no lock. *Right when:* it ends
every wedge with a physical display on and no record left.

**Sunshine integration** (`SunshineConfigurator.cs`, `SunshineOwnershipJournal.cs`):
edits `apps.json` and `sunshine.conf` and keeps a journal of which values it owns
and what they were. *Hard:* crash between journal, apps and configuration; the
user's own edits between configure and remove, in Sunshine's own web page while it runs.
*Right when:* removal restores what was found, unless the user changed it since,
and leaves nothing of the companion's behind.

**Windows services** (`WindowsServiceManager.cs`, `WithSunshineStopped`): stop and
start with thirty-second waits, from several processes at once. *Right when:* the
service runs again afterwards. **Driver provisioning** (`DisplayWizardAdapter.cs`,
`DriverNativeModeVerification.cs`): writes the driver's mode list, reloads it, and
remembers a hash of what was verified. **Trusted files** (`TrustedFileSystem.cs`,
`MachineStateSecurity.cs`, `InstallationTrust.cs`): opens and writes with checks of
owner and reparse points. **Recovery task** (`RecoveryTaskManager.cs`): registers the
logon task. **Control panel, command line, settings, support report**
(`HostControlPanel.cs`, `Program.cs`, ...): presentation over the above.
**Compatibility checks** and **installer**: read-only queries and scripts.

### Vita client (`src`)

**Connection, stream loop and in-stream menu** (`connection.c`, `gui/ui_connect.c`,
`gui/ui_stream_overlay.c`). *State:* `connection_status`, Limelight's running
stream, which outputs are on, the menu's request flags, `server.paired`.
*Operations:* pair, connect, list apps, launch, serve requests, reconnect with new
settings, terminate. *Interaction:* the UI thread runs the loop; the input thread
runs the menu and leaves flags for it; Limelight calls `connectionTerminated` on a
detached thread of its own. *Hard:* nothing protects `connection_status`; both
sides may end a stream at once; a callback may come late, during the next start.
*Right when:* outputs, status and the library's stream agree once everybody is
done; no request is served in a stream it was not meant for, none is forgotten;
controls are released before the connection is gone.

**Video pipeline** (`video/vita.c`). *State:* the stages that are set up and what
they allocated, a mutex that is created and destroyed with them, the quarantine
flag, redraw generations. *Interaction:* Limelight runs setup, decoding (its
receive thread) and cleanup; a watchdog thread draws the menu over a silent
stream; the threads above start and stop the output. *Hard:* a draw may never
return, so every wait of the cleanup has a timeout, after which nothing may be
freed. *Right when:* nothing freed is used, nothing is leaked by a complete
stream, no bounded wait hangs, no change of the menu stays off the screen, and
the pipeline is quarantined only for cause.

**Input** (`input/vita.c`, `touchabsolute.c`, `shortcuts.c`, `motion.c`): one thread
polls every two milliseconds under `input_process_mutex`; touch state machines,
PS-button deadlines, shortcut chords, a latch that swallows buttons until they are
released. *Hard:* a dozen remembered bits, each set in one tick and answered in a
later one, with menus, mode changes, the keyboard and a stop in between. *Right
when:* whatever is pressed on the host is known to something that will release it,
and is released by the time input stops or the menu opens. **Vita keyboard**
(`keyboardsystem.c`): blocks the worker, in the middle of a tick, until it is closed. **Audio and power** (`audio/vita.c`,
`power/vita.c`): on/off flags read by their threads.
**Host scan** (`check_host.c`): scan threads share one status word and read the
device list. **Known devices** (`device.c`) and **pairing** (`libgamestream/client.c`):
the list in memory, a file and a key directory per device, and what each host trusts,
changed one after the other by add, connect, rename, remove and a changed address.
*Hard:* lost answers, a file emptied and then written, an end of the program between any
two of them. *Right when:* menu, card and hosts agree on who is paired.
**Configuration** (`config.c`) and
**controller mapping** (`input/mapping.c`): memory saved to files, the mapping
by a journaled sequence of renames, the configuration in place. **Diagnostics and support
log** (`debug.c`, `gui/ui_diagnostics.c`): a capture that can be switched on and off
from two places, with two mutexes. **libgamestream**: sequential HTTP client of the
server, pairing included. **GUI library**, **wake on LAN**, **tools**, **third party code**:
presentation, one packet, scripts, vendored.

`PROJECT.json` lists every component with its status, and every hazard at the line
where it bites, including those no property covers yet.

## Plan

1. `DisplayPromise`, `DisplaySession` and their proofs: the part whose failure
   leaves a person without a screen. *Done.*
2. `StreamClient` and its proofs: the state machine all threads of the client
   share. *Done.*
3. `VideoPipeline` and its proofs. *Done.*
4. `Input` with the keyboard's latch: the component with the most state between
   steps, and its proofs. *Done.*
5. `SunshineIntegration`: configure, clean-up, journal, the person's edits and the
   service, with its proofs; and `ClientSettings`: the map's journaled save, the
   settings file and the menus that change both, with its proofs. *Done.* The
   register that the map's files implement is `MapPromise`. *Done.*
6. `KnownDevices`: the list of computers, its files and the pairing handshake, with its
   proofs. *Done.*
7. Not taken up: the host scan's threads and the support log. *Not modelled* below says
   why.

## The display transaction

### State and actions

A step of a process is one access to what processes share: the topology
(`layout`, the set of active displays), the record (`absent`, `torn`, or `saved`
with a layout) or the lock file. `pc` is where a process is, `cmd` what it runs,
`captured` what it has read and still means to use, `tries` the activation
attempts, `home` (history) the physical displays the user last chose.

| Code | Actions |
| --- | --- |
| `SessionManager.AcquireLock`, refusal of a second process | `AcquireLock`, `LockBusy` |
| `StartCore`, `PrimeNativeMode`: pending check, capture, save | `RefusePending`, `Capture`, `Truncate`, `WriteFirst`, `SaveFails` |
| driver prepared, display shown, verified, mode set, second save | `PrepareMode`, `ActivateVirtualDisplay`, `VerifyVirtualDisplay`, `SetMode`, `SetModeFails`, `ActivationFails`, `WriteSecond` |
| `RestoreIfPending`, the catch block of `StartCore` | `LookForRecord`, `Restore`, `RestoreFails`, `ClearRecovery`, `ClearFails` |
| `ChangeMode`, `DisableManagedVirtualDisplays` | `ChangeMode`, `DisableManagedVirtualDisplays`, `ApplyRemainingPaths`, `DisableFails` |
| `RecoverDisplayAndStreamingHost`, `recover-upgrade` | `RecoverPhysicalDisplays`, `ApplyPhysical`, `VerifyPhysicalOnlyTopology`, `DiscardRecord`, `RescueFails`, `ReloadDriver`, `SkipReload`, `ReapplyFails` |
| outside the program | `Kill`, `Reboot`, `UserArranges` |

Writing the record is three steps because `TrustedFileSystem.WriteAllText` opens
in place, truncates, and then writes. A query and the apply that follows it are two
steps where no lock is held (`disable-virtual`, rescue) and one where the lock
is; in the latter case no other careful command can come between. A restart of
Windows may bring back the user's layout or the current one, because the topologies
are applied without being saved to the display database.

### Runs

* `session`: two processes, two monitors, two attempts, three commands besides
  stop, two failing calls, one crash. Two processes are enough
  for every pairwise race on the lock and the record, two monitors make a half
  restored layout possible, two attempts make a retry after a partial success
  possible. It checks that the layout is never lost without a record
  (`HomeUnlessRecorded`), that a record is the user's own layout
  (`RecordIsHome`), that displays go on and off as a whole (`AllOrNothing`), that the
  transaction implements `DisplayPromise` (`KeepsPromise`), and that the recovery
  commands finally get home (`EventuallyHome`).
* `session_rescue`: one monitor, with the rescue action racing start and stop:
  nobody's second save lands on another's record, not even now that a record can
  vanish under its owner (`RewritesOnlyItsOwn`), and every wedge ends with a physical
  display on and no record (`RescueSettles`).
* `session_race`: a disagreement between a message and the code, see *Findings*.

`docs/HOST_ARCHITECTURE.md:53` calls the write of the record atomic. The model has the
three steps of the code: a kill after the second leaves a torn record, which blocks
`start` and which `recover` cannot read. `RescueSettles` shows the way out.

Fairness: every process that has begun goes on (`WF` of `Step(p)`: Windows
schedules it). Commands are strongly fair only for `stop` and `rescue`: the
prep hook's undo, the logon task and the person ask for them again and again. A
one-shot command would not be enough, since `AcquireLock` never waits: the lock
may be taken at that very moment, and the command fails. The bounds on commands,
failures and crashes make them end.

### Proofs

`DisplaySession_proofs` is for any processes, displays, attempts and bounds. The stated
properties are not inductive: `RestoreFails` or `Kill` would reach any record or layout
if nothing were known about the process's place. The invariant has two parts, because
the rescue action takes no lock and only one of them survives it.

* `OwnInv` holds whatever commands are issued: between `AcquireLock` and the end of the
  method a process holds the lock (`Excluded`), and what a careful process knows of the
  record at each place allows for a rescue that has deleted it (`Owns`): before its first save
  there is none of another's, between the halves of a save it is torn or gone,
  afterwards it is this process's own or gone. From `Excluded`, the lemma `Alone` follows (two processes are never both at
  such places), so a step of one leaves the other's knowledge untouched. `OpenOwn`,
  `CloseOwn`, `RescueOwn` and `EnvironmentOwn` take the actions one by one. `Typed` and
  `NoForeignRewrite` follow without any hypothesis on the commands.
* `HomeInv` adds, for each place, where the user's displays are (`ProcOK`): while a virtual
  display is shown the record is there and is the user's layout, before the delete the user's
  displays are on. It needs `NoRescue` (the rescue action is not issued). From
  `IInv`, both parts together, follow `NothingLost`, `RecordTrue`, `NeverHalf` and
  `Refinement`, which maps the record to the debt (`owed` is empty iff there is no record, else the
  user's layout) and shows every step to be one of the promise or a stutter
  (`PromiseStep`).

`Retained` is about the property that the run `session_race` violates: under `NoRescue` a
session that fails has retained its record, as its message says. So the
rescue action is the only thing that makes the message false.

### Left out

Stopping and starting Sunshine around the rescue, deletion of the settings file
at uninstall, HDR and refresh rate of a mode, the driver's files. The commands that reload the
driver without the lock and outside of any session (`Program.cs:161`, `:337-342`) are not modelled
either. The user changes
displays only while no transaction is open (`UserArranges`); what the
code should do when the user rearranges displays during a stream is not defined
anywhere in the repository.

## The stream client

### State and actions

`status` is `connection_status`; `link` the stream Limelight runs and `links` how
many were started; `running` the outputs that are on (`input`; `media` for
power, video and audio, whose stop is the same flag write); `stopping` where each
thread is in `connection_connection_terminated_internal`; `ui` and `return` where the
UI thread is; `overlay` and `requested` the menu (an entry, if confirmed, with
the number of the stream it was confirmed in: history the code has not); `paired`
is `server.paired`. `crossed` is history: a callback acted while a stream was being
set up, or belonged to an earlier one.

| Code | Actions |
| --- | --- |
| `connection_terminate`, callback | `CheckConnected`, `StopOutput`, `LiStopConnection`, `SetDisconnected` per thread; `ConnectionTerminated` starts a callback |
| main menu (`ui.c`), `ui_connect`, pairing | `ConnectPairedDevice`, `AddDevice`, `ConnectResume`, `Restart` |
| app list and its entries | `ConnectedMenu`, `MenuNoticesDisconnect`, `LeaveMenu`, `PairFromMenu`, `QuitFromMenu`, `LaunchApp` |
| `ui_connect_stream`, `connection_connection_started` | `StartFails`, `LiStartConnection`, `ConnectionStarted`, `StartOutput` |
| the loop, `stream_overlay_take_*` | `WhileConnected`, `TakeApply`, `TakeClose`, `TakeQuit`, `QuitApp`, `TakeEnd`, `AfterLoop` |
| reconnect with new settings | `GsRefresh`, `ResetAndPaired` |
| menu on the input thread | `StreamOverlayOpen`, `Confirm`, `Cancel` |

The check of the status, each output's stop, `LiStopConnection` and the writes at
the end are separate steps of each thread: that is where callbacks and the UI
interleave. `Restart` is Quit followed by a new process. Calls to the host succeed or
fail nondeterministically. `LI_MINIMIZED` is left out: nothing calls
`connection_minimize`. The choice of what a stream is called with and the app
list's contents are data.

### Runs

`stream` (267 273 states): two streams, so that callbacks of the first can meet the second, and one
menu entry of each kind: `input` (reconnects), `quit` (asks first, then blocks in a
call to the host), `recover` (asks first, waits, terminates). `OutputsFollowStatus`
and `NoForgottenStream` relate status, outputs and library: once nobody is inside a
start or a stop they agree, and a connected state over a stream that has ended is one that
some thread is about to correct. `RequestsAreFresh` (what the loop takes was confirmed in
this stream, and none waits where no loop will take it) and `RequestsAnswered` concern the menu;
`HostEndNoticed` says that the loop is left when the host ends the stream;
`ReleasedUnlessCrossed` that controls are released before the library stops.
Fairness: threads that have begun a termination, and the UI thread where it waits
for nobody (`Turn`), go on, because the kernel schedules them; nothing is assumed
of the person or of the host. The calls to the host (`HostCall`: starts,
`gs_quit_app`, `gs_refresh`) have none: `libgamestream/http.c` sets no curl timeout,
so they need not return. `RequestsAnswered` and `HostEndNoticed` therefore assume
`HostAnswersQuit`: the wait in `gs_quit_app`, which the loop makes while the stream runs,
is never endless. Without it both are false.

The unlocked status makes some of this false when a callback crosses a start;
the properties therefore except `crossed` behaviours, and `stream_stale` shows
what happens in them. That exception is the code's, not a convenience of the
model: without it `OutputsFollowStatus` is violated too.

One more state the model reaches and no property is spent on: after a failed pairing
(`AddDevice` with `paired` false) `connection_terminate` refuses the state `LI_READY`
(`connection.c:204`), so that the main menu offers to resume a computer that was never paired and
`check_connection` (`ui_connect.c:655`) refuses all others.

### Proofs

`StreamClient_proofs` proves `Typed`, `NothingStale`, `OutputsFollow`,
`NothingForgotten` and `Released` for every menu and every number of streams.
`IInv` has two parts that hold whatever crosses: where the UI thread can be
while the state is connected, with the requests then fresh (`ConnectedInStream`,
`FreshOnceStarted`), and where threads can be (`ThreadsInPlace`); and one that holds
until something crosses (`Uncrossed`): what the status is along a start
(`StatusAlong`), that outputs come up in order (`UpInOrder`), and what each
terminating thread has behind it (`Settled`, with `StopDone`). The last part is
needed because the two terminators may be at any pair of places, and each must know
that the other's steps only go the same way. Two more parts are what the two liveness
properties rest on besides fairness: `EndIsTold` (whoever stopped a stream has the state
still to clear, so the loop cannot be left watching a stream that is gone) and `Served`
(requests wait only where a loop will take them). The lemmas take the groups of actions
(terminating threads, menus, stream, others) for each part separately.

## The video pipeline

### State and actions

`status` counts the stages that are up (`video_status`), `held` what is
allocated, `mutex` and `ready` the render mutex and its flag, `blocked` the
quarantine, `active` and `pacing` the flags that stop decoder output and watchdog.
`lib` is where Limelight is in setup or cleanup, `pacer`, `decode` and `call` where
the watchdog, the decoder and each caller of `vitavideo_start`/`vitavideo_stop` are.
`requested`, `rendered` and `seen` are the redraw generations, `changed` and
`shown` history of the menu and the screen.

| Code | Actions |
| --- | --- |
| `vita_setup` | `SetupRefused`, `SetupBegin`, `SetupStage`, `SetupFails`, `SetupDone` |
| `LiStopConnection` (external) | `StopStream`, `JoinDecoder` |
| `vita_cleanup`, `stop_pacer_thread_bounded`, `lock_video_render_bounded` | `StopPacer`, `CleanupLock`, `FreeStages`, `DestroyMutex`, `ClearReady` |
| `vitavideo_start`, `vitavideo_stop`, `vitavideo_request_redraw` | `Start`, `Stop`, `CallLock`, `CallSet`, `CallRequest`, `RequestRedraw` |
| `vita_pacer_thread_main` | `PacerInit`, `PacerWake`, `PacerLook`, `PacerDraw`, `PacerSkip`, `PacerDrawn` |
| `vita_submit_decode_unit` | `DecodeUnit`, `DecodeLock`, `DecodeUnshown`, `DecodeShown`, `DecodeDrop`, `DecodeDrawn` |

A timeout may happen whenever the thing waited for is not there: draws have no
duration. Frame counting is a nondeterministic surplus of at most `MaxDrop`
frames; generations are bounded by `MaxRequests` changes per stream. A mutex that
has been destroyed cannot be locked (`trylock` returns an error; a crash there would
only end the process).

### Runs

`video` (184 025 states): the UI and one callback thread, two changes of the menu,
one dropped frame. Two callers are what can stop outputs at once; two changes let one
fall into the draw of the other. `UsesOnlyHeld` is the reason for the quarantine: a draw or a decode
has what it touches, however long it hangs, and the mutex outlives the threads that
lock it. `FreedAfterStream` says that a complete
stream leaves nothing; `NoStaleScreen` that no change of the menu is taken for
drawn when the draw began before it; `WaitsEnd` that the bounded
waits end, those of a cleanup and those of a caller. Fairness: Limelight's thread and the callers are scheduled; nothing is
assumed of the watchdog and the decoder, whose draws may never end, which is what
the timeouts are for.

### Proofs

`VideoPipeline_proofs` proves `Typed`, `NothingFreedIsUsed`, `NothingLeft` and
`NothingUnseen` for any callers, menu changes and dropped frames. `IInv` says which
stages are up at each place of setup and cleanup (`StagesInPlace`), who can be
where (`CallersInPlace`, `WatchdogInPlace`: the watchdog exists exactly while its
stage is up; `DecoderInPlace`; `MutexInPlace`: the mutex is alive between setup and
cleanup, and its holder is at a place that holds it), what is allocated
(`Allocated`, `CompleteInPlace`), and how the counters stand to each other:
`DropInPlace` (a frame is dropped only if one is counted), `GenerationsInPlace` and
`ScreenInPlace` (in a stream, what is not on the screen has been asked for, is about
to be, or is newer than what the running draw has read). `NoStaleScreen` is not
inductive without the last: a draw in progress may have begun before a change, and
only `seen` tells. `WatchdogInPlace` is what makes freeing safe: the stage's number goes
down only when the thread has ended, and a pipeline whose stage is up is quarantined.

`OnlyForCause` is about the property that the run `video_lockout` violates. It has a
hypothesis, `CallsWhileUp`: outputs are started and stopped only while a stage is up. Under it a
quarantine is always for something still allocated (`Cause`), since the cleanup finds the
mutex free once the watchdog is gone (`NobodyHolds`). So the one crossing that the run
finds is the only way to a quarantine without cause.

### Left out

A stage that fails midway leaks what it had allocated itself (lines 533-546 and
602-624 of `video/vita.c`), so `FreedAfterStream` speaks of complete setups. If the
watchdog hangs in a draw while the decoder waits for the mutex (line 741, no
timeout), Limelight's join of the decoder does not return, and the bounded cleanup is not
reached: `WaitsEnd` speaks of the cleanup after the join. Limelight is assumed not to run
cleanup twice at once. Scaling arithmetic, the bitstream patching of `sps.c` and
the poor-network indicator are data.

## Input

### State and actions

A tick of `vitainput_process` is a chain of actions, one per stage, from `Sample` to
`SendFrame`; `tick` is the stage, and the mutex is free exactly when it is `idle`.
`raw`, `pad`, `fingers`, `zones`, `stick` and `curr` are the working copies of a tick.
What survives a tick is what makes it hard: the copies compared with the next one
(`old`, `padOld`, `chordOld`, `zonesOld`), the two chord machines, the PS button's
machine, the latch (`suppress`), the touch machine of each mode. `hostPad`, `mouse`
and `keys` are what the events have left pressed on the host. `closing` (buttons
held since the menu was closed) and `unseen` are history.

| Code | Actions |
| --- | --- |
| `vitainput_process`: peek, latch, order of the stages | `Sample`, `SendFrame` |
| keyboard shortcut, `shortcuts.c` chord | `PhysicalShortcut`, `ChordComplete`, `ChordGoesOn` |
| `stream_overlay_open`, the menu's own input | `MenuGoesOn`, `MenuCloses`, `MenuOpensKeyboard`, `AfterMenuKeyboard` |
| `keyboardsystem_open_keyboard` | `KeyboardTold`, `KeyboardClosed` |
| `process_touchzones`, `special` | `ProcessZone`, `ZonesDone` |
| `handle_psbutton`, `process_buttons` | `ProcessButtons` with `PsSystem`, `PsEscape`, `PsImmediate`, `PsTap` |
| `process_touch`, `touchabsolute.c`, sprint helper | `ProcessTouch`, `TouchZone`, `TouchDs4`, `TouchTablet`, `TouchAbsolute`, `TouchRelative` |
| `vitainput_start`, `vitainput_stop` | `Start`, `StopRequest`, `StopRelease` |
| the menus between streams | `BetweenStreams` |

A deadline (300 ms of a chord, a quarter second of the PS button, a tenth of a
second of a click) has passed or not, whichever the step chooses: there is no clock.
`Start` requires that nobody is stopping; what happens when a callback crosses a start
is the subject of `StreamClient` (`stream_stale`).

### Run

`input` (637 294 states): two threads that stop, three fingers, one shoulder button.
All controls at once would multiply their states, so a behaviour is a *scene*, a
person who uses part of them, and the state spaces add up (`MCInput`): chords and
menu; the PS button in three modes with the menu in a corner; every touch mode; a
key, the keyboard, a pad button and the menu in the corners; the sprint helper with the PS
button that only a double tap passes on. Parts that touch the same variable are in
one scene: the menu appears with each, since it changes modes and cuts a tick short.
Three fingers is where right click and contacts differ from a drag.

* `ClosingPressNotSent`: the press that closes the menu does not reach the game, not even
  over a reconnect. `NothingStuck`: between ticks the host holds no button that the last
  frame did not carry. `ReleasedWhenStopped`: stopping releases pad, contacts, drag and
  PS lock, wherever in a tick it was asked for. `HeldIsKnown`: a mouse button or key that
  is down on the host is one that the machines remember, across menus, mode changes
  and streams. `GuideOrShell`: Guide and the shell never both get the PS button.
* `QuietAfterStop` is about steps, `StopReturns` is liveness.

Fairness: the worker goes on in a tick (`WF` of `Worker`; waiting for the person in
`KeyboardClosed` is not in it), and a stop gets the mutex (`SF` of `StopRelease`: the
worker sleeps two milliseconds without it after every tick). `StopReturns` then
depends on the code's order: the close request comes before the wait for the mutex.

What the model shows of the code and no property claims: a START and LEFT shortcut that
opens the keyboard leaves the menu's chord pending, so START is replayed when it is
released; the memory cleared for the keyboard makes the sticks read full deflection
for one frame (a zero is an end of a stick, not its centre); a key pressed in the tick
in which another corner opens the menu is never released (`unseen`, excepted in
`HeldIsKnown`); a corner's frame is sent without updating `old`; a click held by a
short touch and a corner's key are not released by `vitainput_stop` (the next stream's
ticks release them: `HeldIsKnown`).

### Proofs

`Input_proofs` proves all seven safety properties, and `TickEnds`, for any threads, shoulder buttons,
fingers and scenes; a scene with all controls at once is among them, which the
run cannot enumerate. `IInv` has one part per kind of memory. `InPlace`: a tick runs
only while input is active, the menu's stages only under the menu, and how far the
corners are (`zone`) at each stage. `PadKnown`: the host's pad is what was last sent
(`old`), and empty under menu and latch; a closing press implies the latch.
`GuideLocked`: a frame with Guide was made by a tick that locked the shell out, and one
that unlocks it is followed by a frame without Guide, because the frame differs from
`old`. `MouseKnown`: a click belongs to the relative mode and a drag to the absolute
one, which `processed` tells apart, so that releasing the one never forgets the other.
`KeysKnown`: of the corners, those before `zone` are compared with this tick's
touches and the others with the last one's. `HeldIsKnown` is not inductive without the last two:
it speaks of the end of a tick, and of a union in which a click and a drag of the same button
could hide each other.

`TickEnds` is the part of `StopReturns` that is not about scheduling: a stop that waits has
told the keyboard to close (`Asked`), and then each step of the worker lowers `Ahead`, the
number of steps its tick may still take, which is at most eleven. None of them is the
person's.

### Left out

Motion, analogue values, dead zones and trigger scaling are data. The back panel's corners
are handled like the front's. `keyboardsystem_is_open` (`input/vita.c`, about lines
930 to 960) guards code that cannot run: the keyboard blocks the only thread that asks.

## The Sunshine integration

### State and actions

`apps`, `conf` and `backup` are the two files of each directory Sunshine may be
installed in and the backup of the first; `journal` is the ownership journal in the
registry, with an entry per directory. A file of applications is the version of the
person's own content, our application and our hooks; a key of `sunshine.conf` has a
value of the person's, of ours, or no line. `service` is Sunshine's state in Windows.
A process is a record: where it is, what it has read into memory and still means to
write. The rest is history: `made` and `user` (the person's edits and choices),
`lost`, and the exceptions below.

| Code | Actions |
| --- | --- |
| `Configure` | `Load`, `Edit`, `Save`, `WriteApps`, `WriteConf` |
| `RemoveManagedIntegration` | `LoadJournal`, `PickLocation`, `RemoveApps`, `RestoreConf`, `DropBackup`, `DeleteJournal` |
| `WithSunshineStopped`, rescue, restart | `Begin`, `Look`, `Operate` and `AfterOperation` |
| `WindowsServiceManager` | `StopQuery`, `StopControl`, `StartQuery`, `StartControl`, `WaitForState`, `Missed`, `Slow` |
| exceptions, kills | `Throws`, `Kill` |
| the service manager, the person | `ServiceArrives`; `UserEditsApps`, `UserSets`, `UserEditsBackup` |

Reading and writing a file are separate steps: configure waits up to thirty seconds
between them for Sunshine's log. Set-up commands run one after the other (the
installer and the control panel run one at a time); the agent's and the control panel's commands
about the service run at the same time. The person edits through Sunshine's web page
while it runs, or by hand while no set-up command does.

### Run

`sunshine` (577 812 states): two processes, two paths of the companion, two ids of the
display, one edit of the applications per directory, and seven scenes whose
state spaces add up (`MCSunshine`): keys configured in two modes and edited; a
display whose id changes between configures; what an earlier version left; edits of
applications; two directories; the service under any two commands; the removal beside the
rescue action. Configure may run any number of times before, between and after
removals, so one edit can fall into every gap; two ids make a value of ours that is not
the current one possible.

* `OriginalRestored`: a key the journal does not list holds what the person last
  chose. Through the removal, which ends with an empty journal, this says that
  originals come back, and that a value edited since is not touched.
* `NothingLeftBehind`: hooks, application and backup of ours are listed.
* `EditsKept`: no removal that stopped Sunshine writes over an edit.
* `StartIsOwed`: while Sunshine is down, some command is on its way to start it.
* `SunshineComesBack` (liveness): a service that was stopped runs again.

Fairness: Windows carries out a stop or start it has accepted (`ServiceArrives`), and a
command that runs goes on (`Step(p)`).

The exceptions are behaviour of the code, each kept as history by the action that
causes it; without any of them its property is violated:

* `overridden`: a value that the person edits between two configures is replaced by
  the second, and removal restores the older original. `host/FINAL_RELEASE_CHECKLIST.md`
  (lines 208 to 214) expects edited values to be preserved. An edit in the web page
  during configure's wait is lost too (`lost`, as `configure`).
* `orphans`, `stranded`: a second configure that is interrupted between the journal
  and the files leaves the first one's hook, or value, which the journal no longer lists.
* `strays`: a configure that fails after `BackupOnce` leaves a backup nobody owns.
* `disturbed`: the rescue action starts Sunshine again in the middle of a removal.
* `excused`: the stop in `WithSunshineStopped` is outside of the `try` block, so a stop that
  takes longer than thirty seconds ends the command with Sunshine stopped; so does a kill, among
  them the one by which `agent install` replaces an agent that is rescuing.

### Proofs

`SunshineIntegration_proofs` proves the four safety properties (`LeavesNothing`,
`Restores`, `Keeps`, `SomebodyStarts`) and the types (`Typed`) for any processes, paths, ids,
values, scenes and number of edits. Every step is one of three kinds (`StepIs`): about the service
only (`QuietStep`), of the set-up process on files (`SetupStep`), or the person's
(`UserStep`). `InPlace` says that only the set-up process works on files and that its place
tells which command it runs. `Memory` says what it knows of the journal: what it read is still
there (`MemIsJournal`), or is what it has edited (`MemIsEdited`). On that, four
strengthenings that need nothing of each other:

* `Kept`, for the hooks: what was read of the applications is in the file or an edit
  came since (`ReadApps`), what the journal to be saved covers (`KnownApps`),
  that it is listed now (`Listed`), and that locations already cleaned are
  clean (`Through`), which the deletion of the whole journal at the end needs.
* `Values`, for the keys: for each what file, journal and history have to do with each
  other (`Told`). The property speaks of unlisted keys only, and says nothing of
  a key while it is listed, which is what the removal starts from.
* `Safe`, for the edits: during an undisturbed removal the service is stopped, so what
  was read is still in the file (`NobodyEdits`).
* `Responsible`, for the service: until it has stopped, some command waits for that, and
  afterwards owes the start. `StartIsOwed` alone is not inductive, because the command that owes it
  while the service is still stopping may start it, find that done by another, and end;
  the waiting one remains. A step that leaves the service alone need only
  carry on what its own process owes (`Carried`).

### Left out

The texts of both files and their parsing are data. `SunshineCompatibility.cs` starts an
installer and compares versions. `GetState` of a service that is `StartPending` makes a
command not stop it: modelled (`Look`). Whether Sunshine may manage the display natively
(`IsNativeDisplayManagementReady`) is a choice of the mode.

## The client's settings

### State and actions

`live`, `bak` and `tmp` are the file of the controller map and its two siblings, each
absent, a complete map or, for `tmp`, incomplete; `settings` is what a start would
parse from the settings file; `config`, `active`, `swapped` and `edit` are memory:
the configuration, the map and the shoulder swap that input uses, the map in the
mapper's screen. `pc`, `goal` and `target` are the file operation under way and whom it
returns to. Of the settings only those that the controls depend on are told apart, and
one other.

| Code | Actions |
| --- | --- |
| `mapping_load` | `Recover`, `Read`, `ReadFails`, `CleanTmp`, `CleanBak` |
| `mapping_save` | `Repair`, `Open`, `Write`, `DropBak`, `BackUp`, `Promote`, `RollBack`, `Discard`, `Finish` |
| `config_save` | `Truncate`, `Flush`, `Close` |
| start, `vitainput_config` | `Start`, `ConfigureInput` |
| `ui_settings.c` | `OpenSettings`, `LeaveSettings`, `EnableMapping`, `DisableMapping`, `ToggleSwap`, `ApplyProfile`, `ChangeOther` |
| `ui_controller_mapper.c` | `OpenMapper`, `Bind`, `LeaveMapper` |
| a stream and its menu | `BeginStream`, `EndStream`, `StreamSwap`, `StreamProfile`, `StreamOther` |
| end of the program, power | `Crash` |

Each file operation is one step that may fail, and the code's answer to a failure is the
model's: `mapping_save` rolls back, `config_save` ends the program if it cannot open its file
(`config.c:449-453`) and does not look at what `fprintf` and `fclose` return (`:455-521`).
`Flush` and `Close` may therefore leave any part of the file on a full card, and the program goes
on; what is not there is read as its default. `cutOff` (history) says so. One thread at a time runs all this:
the user interface between streams, and during one the input's worker, which serves
the menu and is stopped whenever the user interface configures input.

### Run

`settings` (1 037 929 states): three maps, one of them the hardware's, which is the least with which
an old and a new map differ from each other and from the default. Nothing
else needs a bound: saves, failures and crashes are unlimited.

* `MappingSurvives`: a load finds the map of the last successful save, whichever file
  operation failed and wherever the program ended.
* `OneRemapping`: the custom map and the swap of the shoulder buttons are never both
  on: in memory, in the file, and in what a stream's input was given.
* `SettingsKept`: back in the menu or in a stream, the file says what was chosen, unless its
  last rewriting was cut off. Three menus in two threads change settings, and each must have
  saved.
* `KeepsMap`: files, menus and streams together implement `MapPromise`, a register that is
  written as a whole or not at all and says truly which. The mapper reports success
  exactly when the next load will find the new map, shows the saved map, and a stream plays with
  it or with the hardware's.

Excepted: `risked`, when the menu takes an unreadable map for a missing one
(`ui_controller_mapper.c:89`), or a save empties a `.tmp` that an earlier failure left as the
only copy; `toggled`, because a swap or profile chosen in the stream's menu reaches the
input at the next reconnect; and `cutOff`, a settings file that a full card cut off.
`OneRemapping` has no such exception: a file that ends anywhere still never has both options on.

### Proofs

`ClientSettings_proofs` proves the five properties for any set of maps. `Called` says which
operation runs for which caller, `InOrder` which of the three files exist at each
stage (the one that has the person's map changes from stage to stage), `NotGivenUp`
that only a map from the mapper may replace it and that a copy is given up only when it is not the
person's. `Agreed` extends `SettingsKept` to the places between menus: wherever no save
is under way and none was cut off, memory and file agree, and input is given a map only if the configuration asks
for one. `OneRemapping` is stated of memory and file separately because a crash in a
save leaves a file that is neither the old nor the new one.

`Refinement` maps what a load would find in the three files (`Recovered`) to the saved map, the
mapper's screen to what is shown, the target of a save that the mapper has asked for to what is
asked, and the stream's map to what is played. Most of a save is a stutter; the rename that puts
the new file in place (`Promote`) is `Commit`, the return is `Succeed` or `Fail`. For
the latter two the step needs `Mapped`: the mapper shows the person's map
(`Edited`), and what a load or a finished save holds is that map (`Holds`). `MapperTrue`
states it as a theorem of its own.

### Left out

Operations that have returned are taken to be on the card in that order. Existence
checks answer truthfully. A settings file edited by hand, with both options on, is
not modelled; nor is a second path of the mapping, the touch-zone screen, or the other
callers of `config_save` (`ui_keyboard.c:20`, `ui_diagnostics.c:869`), which do what
`ChangeOther` does. A read that fails in the middle of the map is taken for a map that
cannot be read: the code would go on with the part it has read, because `vita.c:1174` does not
look at what `mapping_load` returns.

## Known devices

### State and actions

Three records say that a computer is paired: the list in memory (`list`, a sequence of
entries), which the main menu shows; `file`, the `device.ini` in the device's directory, which
the next start reads; and `trusts`, what the hosts themselves hold (external). `keys` is the
directory with certificate and key. `ui`, `then` and `job` are where the UI thread is and where
it goes on, `info` the struct it works on: the entry `info.at` of the list, or with
`info.at` = 0 a copy of its own, which is where bugs would hide, because a flag set in the copy
is not set in the list. `old` is the name before a change of name. The rest is history:
`acked` (a host has said that it trusts this certificate), and the exceptions below. The list is
searched by name from its start (`Found`); a change of name checks nothing, so that two entries
can have one name, and one file.

| Code | Actions |
| --- | --- |
| `save_device_info`, `load_all_known_devices` | `Truncate`, `Write`, `SaveFails`; `Reload`, `Restart` |
| `append_device`, `update_device` | `AppendDevice`, `UpdateDevice` |
| `gs_init`: key directory, certificate, status | `MakeDirectory`, `LoadCert`, `MkcertSave`, `LoadServerStatus`, `Unreachable` |
| `gs_pair`, `gs_unpair` | `Exchange`, `PairingSecret`, `PairChallenge`, `PairFails`, `Unpair` |
| search, name and address typed in | `SearchDevice`, `ConnectManual`, `AddPaired`, `Added` |
| main menu and connected menu | `ConnectPaired`, `OpenHost`, `PairFromMenu`, `MenuPaired`, `Disconnect` |
| a device's entries, a changed address | `RemoveDevice`, `ChangeIp`, `ChangeName`, `CheckIpUpdate` |
| `remove_device`, also for the old name | `RemoveFile`, `RemoveKeys`, `RemoveDirectory`; `RemoveOldName` |
| the host's user | `HostForgets` |

A request to a host and its reply are told apart where the host's state changes:
`clientpairingsecret` makes it trust the certificate whether or not the reply arrives. A new
certificate for a name ends every trust in the old one. A removal of a file or of the
directory may fail, which the code does not look at (`device.c:49`, `:58`, `:62`).

`remove_device` reads the name again after it has moved the entries of the list up. The
delete entry of the menu passes the name inside the array, so `RemoveDevice` goes on with
the next entry's file and directory; a change of name passes a copy (`ui.c:196`), and
`RemoveOldName` goes on with the old name.

### Runs

`hosts` (4 457 149 states): two devices that may both answer at one address, or one device at
two addresses, with room for two entries. Devices and addresses are interchangeable
(symmetry, sound because there is no liveness property). Two devices at one address are what the
search by address in `ui_connect_loop` can confuse, two entries the least of which one is behind
another or has its name; two addresses are what a change of address needs. Both at once
(`OneOfEither` in `MCHosts` leaves them out) are too many states for the run; the theorems hold for any number of
either. The program may end at any step, any number of times.

* `PairedForCause`: a paired flag in the menu or on the card rests on what a host said of the
  certificate that is in the directory.
* `TrustForCause`: no host trusts a certificate that the client does not know of, unless the
  pairing is under way.
* `RestartShowsTheSame`: at the main menu the next start would list the same devices, with the
  same flags and addresses.

The exceptions are the code's, kept as history by the action that causes each. `borrowed`: the
flag was earned by another device (a change of name; the flag goes to the first device with the
address), by its own former self (the removal of its file failed), or its certificate went with
another one's removal. `withheld`: trust the client never heard of and that stays because
the request of `gs_unpair` was lost (its result is not looked at). `excuse`, per device,
and none otherwise: `unsaved`, a save failed, which is only logged, or the file went with another
device's; `hidden`, a listed device that was added again, whose file is then written from the
caller's own struct; `doubled`, a name that two entries have had since the start, the
file being the one's that was saved last; `leftover`, a file without an entry: the old directory
after a change of name (the entry has its new name already when `remove_device` looks for the
old one), one that was not removed, or a device there was no memory for. A later save or
the next start ends an excuse that it makes good.

`hosts_delete` shows what a delete removes; see *Findings*.

### Proofs

`KnownDevices_proofs` proves the three properties and the types for any computers, addresses and
room. The effect of each action on the list is a lemma of its own (`Edited`: one entry
changes; `Dropped`: one is taken out; `Grown`: some are appended), because the provers do not
see it from `EXCEPT`, `RemoveAt` and `\o` at once.

`TrustForCause` follows from the handshake alone. For `PairedForCause`, `Heard` says that
whoever is about to set a flag has had the host's word for the certificate that is there
(`Proven`), and `Founded` that every flag rests on that. Both need `Sharing`: names that two
entries have are marked (`Twins`), and what is being removed is out of the list or has a
flag that is not its own (`Removing`). `RestartShowsTheSame` speaks of the main menu; its
strengthening says of every place that an entry without an excuse is being saved or is what the
file says (`Agreement`), that a name without an entry and an excuse has no file or is about to
lose it (`Leftover`), and that a struct of its own is saved only for a device with an excuse
(`Own`, of `Tasks` and `OwnStruct`). `Placed` says which device the UI thread works on where.

### Left out

The search thread and the scan for changed addresses appear by what they find. That they read the list
while it is reallocated is under *Not modelled*; nor is the pointer modelled that the entry
Connect keeps into the array over the reallocation in `load_all_known_devices`. The second address
of a device (external), wake on LAN, and the entry for unpairing, which is commented out
(`gui/ui_connect.c:514`). `ServerStatus` takes HTTP's answer to be "not paired";
`client.c:312-315` says only that it is inaccurate, and a host that answers "paired" over HTTP
without trusting the certificate is not modelled.

## Findings

Each is a run that must find a violation.

* `session_race`: the rescue action deletes the record without the lock, under a
  `session start` that then fails and reports that the record has been retained.
  The theorem `Retained` shows that nothing else makes the report false.
* `stream_stale`: a callback that passed its check before a start, or crosses it,
  stops the library while input is on; the release of held buttons reaches no host.
* `video_lockout`: a thread that polls the render mutex while the cleanup destroys
  it runs into its timeout and quarantines a pipeline in which everything was freed;
  no stream can be set up until the program is restarted. The theorem `OnlyForCause`
  shows that this crossing is the only way there.
* `hosts_delete`: deleting a computer removes the file, the certificate and the key of the next
  one in the list. `ui.c:164` passes `info->name`, which points into the array whose
  entries `remove_device` moves up before it reads the name again for the paths. Only the
  last computer of the list is deleted as `device.c:25` says. What was to be deleted is back at
  the next start, and the other one has to be paired again.

## What is only model-checked

Liveness (`EventuallyHome`, `RescueSettles`, `RequestsAnswered`, `HostEndNoticed`,
`WaitsEnd`, `StopReturns`, `SunshineComesBack`) is out of the prover's reach and rests on
TLC. For four of them the part that is a matter of safety is a theorem: `NothingForgotten` and
`NothingStale` for `HostEndNoticed` and `RequestsAnswered`, `TickEnds` for `StopReturns`,
`SomebodyStarts` for `SunshineComesBack`. Every other property of a passing run is a theorem;
with the rescue action these are the types and `RewritesOnlyItsOwn`, the other invariants of the
transaction being false then. The types of the session, the hosts and the Sunshine modules are
theorems only. The modules use no `RECURSIVE` operator, so that all of them can be
proved about.

Every property of a passing run has a mutant in `PROJECT.json`: a changed
definition, kept in the module next to the original and marked `Mutant`, with
which TLC finds the property violated.

## Not modelled

* **Host scan**: the scan threads, and the user interface, share plain
  variables and a reallocated array without a lock, and a thread that has not ended within
  100 ms is deleted while it runs. Every interleaving of them is a data race, so a
  faithful model has undefined behaviour at each step and no property of it holds; the
  lines are in the list of hazards.
* **Diagnostics and support log**: measurement, formatting and drawing. Its two
  mutexes are taken in one order only.
* **HTTP, XML and cryptography** of libgamestream: one thread, no state but the answer. A
  call is a step that succeeds or fails, in `StreamClient`, or that loses a request or a
  reply, in `KnownDevices`.
* **Audio's ring and the power thread**: one flag each, modelled as an output.
* **Driver provisioning, trusted files, compatibility checks, installer, wake on LAN, GUI
  library, tools**: Windows calls, files and presentation; their effect on the
  transaction, where there is one, is a step of `DisplaySession`.
* **Third party code** is vendored.
