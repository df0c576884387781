----------------------------- MODULE StreamClient -----------------------------
(***************************************************************************)
(* The streaming side of the Vita application: the connection state         *)
(* machine of connection.c, the loop of ui_connect.c that drives it, the    *)
(* requests the in-stream menu leaves for that loop, and Limelight, the     *)
(* streaming library, as far as connection.c uses it.                      *)
(*                                                                         *)
(* Three kinds of thread act: the UI thread, the input thread (which runs   *)
(* the in-stream menu while input is on), and one detached thread for every *)
(* stream the host or the network ends, on which Limelight calls            *)
(* connectionTerminated.  Nothing protects connection_status.              *)
(***************************************************************************)
EXTENDS Naturals

CONSTANTS
  UI,          \* the UI thread
  Requests,    \* entries of the in-stream menu that ask the UI loop for something
  MaxLinks     \* bound: streams that are started

\* Entries that act on the second press only.
Guarded == {"close", "quit", "recover"}
\* Entries that make the loop reconnect to the running app.
Reconnecting == {"display", "input"}

ASSUME StreamAssumption ==
  /\ UI \notin Nat
  /\ Requests \subseteq Guarded \union Reconnecting \union {"disconnect"}
  /\ MaxLinks \in Nat \ {0}

VARIABLES
  status,      \* connection_status
  link,        \* the stream Limelight runs, 0 for none
  links,       \* how many streams have been started
  running,     \* the outputs that are on
  stopping,    \* where each thread is in connection_terminated_internal
  ui,          \* where the UI thread is
  return,      \* where the UI thread goes on after connection_terminate
  paired,      \* server.paired
  overlay,     \* the in-stream menu: closed, open, or armed with an entry
  requested,   \* per entry: the stream in which it was confirmed, 0 for none
  crossed      \* history: a termination callback acted while a stream was set up

vars == <<status, link, links, running, stopping, ui, return, paired, overlay,
          requested, crossed>>

Link == 1 .. MaxLinks
Thread == Link \union {UI}     \* a callback thread has its stream's number

Output == {"input", "media"}   \* media: the power, video and audio flags

Stop == {"idle", "check", "input", "media", "stop", "clear", "done"}

Take == {"apply", "close", "quit", "recover", "disconnect"}

Place == Take \union
  {"main", "menu", "apps", "start", "started", "output", "media", "loop",
   "terminating", "quitting", "refresh", "reset", "paired", "ended"}

TypeOK ==
  /\ status \in {"disconnected", "ready", "paired", "connected"}
  /\ link \in 0 .. MaxLinks
  /\ links \in 0 .. MaxLinks
  /\ running \in SUBSET Output
  /\ stopping \in [Thread -> Stop]
  /\ ui \in Place
  /\ return \in Place
  /\ paired \in BOOLEAN
  /\ overlay \in {"closed", "open"} \union Guarded
  /\ requested \in [Requests -> 0 .. MaxLinks]
  /\ crossed \in BOOLEAN

Init ==
  /\ status = "disconnected"
  /\ link = 0
  /\ links = 0
  /\ running = {}
  /\ stopping = [t \in Thread |-> "idle"]
  /\ ui = "main"
  /\ return = "main"
  /\ paired \in BOOLEAN
  /\ overlay = "closed"
  /\ requested = [r \in Requests |-> 0]
  /\ crossed = FALSE

Goto(place) == ui' = place /\ UNCHANGED return

\* Mutant: the reset forgets one of the flags.
ResetForgetsRecover ==
  /\ overlay' = "closed"
  /\ requested' = [r \in Requests |-> IF r = "recover" THEN requested[r] ELSE 0]

StreamOverlayReset ==
  /\ overlay' = "closed"
  /\ requested' = [r \in Requests |-> 0]

-----------------------------------------------------------------------------
(* connection.c.  connection_terminate and the callback share the rest.    *)

\* connection_terminate: a state it does not expect is logged and left alone.
Terminate(place) ==
  IF status \in {"paired", "connected"}
  THEN /\ ui' = "terminating"
       /\ return' = place
       /\ stopping' = [stopping EXCEPT ![UI] = "check"]
  ELSE Goto(place) /\ UNCHANGED stopping

\* The UI thread between two streams, or setting one up.
Starting == ui \in {"paired", "start", "started", "output", "media"}

\* A callback that belongs to an earlier stream, or that meets a half-made one.
Crosses(t) == t # UI /\ (Starting \/ t # links)

\* Mutant: outputs are stopped only when the user asked for it.
StopWhenAsked(t) ==
  /\ stopping[t] = "check"
  /\ stopping' = [stopping EXCEPT ![t] = IF status = "connected" /\ t = UI
                                         THEN "input" ELSE "stop"]
  /\ crossed' = (crossed \/ Crosses(t))
  /\ UNCHANGED <<status, link, links, running, ui, return, paired, overlay, requested>>

CheckConnected(t) ==
  /\ stopping[t] = "check"
  /\ stopping' = [stopping EXCEPT ![t] = IF status = "connected" THEN "input" ELSE "stop"]
  /\ crossed' = (crossed \/ Crosses(t))
  /\ UNCHANGED <<status, link, links, running, ui, return, paired, overlay, requested>>

\* stop_output: vitainput_stop waits for the input thread, then power, video, audio.
StopOutput(t) ==
  /\ stopping[t] \in Output
  /\ running' = running \ {stopping[t]}
  /\ stopping' = [stopping EXCEPT ![t] = IF @ = "input" THEN "media" ELSE "stop"]
  /\ crossed' = (crossed \/ Crosses(t))
  /\ UNCHANGED <<status, link, links, ui, return, paired, overlay, requested>>

\* Mutant: the callback trusts Limelight to have stopped the stream.
StopWhenRequested(t) ==
  /\ stopping[t] = "stop"
  /\ link' = IF t = UI THEN 0 ELSE link
  /\ stopping' = [stopping EXCEPT ![t] = "clear"]
  /\ crossed' = (crossed \/ Crosses(t))
  /\ UNCHANGED <<status, links, running, ui, return, paired, overlay, requested>>

\* LiStopConnection stops whatever stream runs.
LiStopConnection(t) ==
  /\ stopping[t] = "stop"
  /\ link' = 0
  /\ stopping' = [stopping EXCEPT ![t] = "clear"]
  /\ crossed' = (crossed \/ Crosses(t))
  /\ UNCHANGED <<status, links, running, ui, return, paired, overlay, requested>>

\* Mutant: only a requested termination changes the state.
ClearWhenRequested(t) ==
  /\ stopping[t] = "clear"
  /\ status' = IF t = UI THEN "disconnected" ELSE status
  /\ StreamOverlayReset
  /\ stopping' = [stopping EXCEPT ![t] = IF t = UI THEN "idle" ELSE "done"]
  /\ IF t = UI THEN ui' = return /\ return' = "main" ELSE UNCHANGED <<ui, return>>
  /\ crossed' = (crossed \/ Crosses(t))
  /\ UNCHANGED <<link, links, running, paired>>

SetDisconnected(t) ==
  /\ stopping[t] = "clear"
  /\ status' = "disconnected"
  /\ StreamOverlayReset
  /\ stopping' = [stopping EXCEPT ![t] = IF t = UI THEN "idle" ELSE "done"]
  /\ IF t = UI THEN ui' = return /\ return' = "main" ELSE UNCHANGED <<ui, return>>
  /\ crossed' = (crossed \/ Crosses(t))
  /\ UNCHANGED <<link, links, running, paired>>

TerminatedInternal(t) == CheckConnected(t) \/ StopOutput(t) \/ LiStopConnection(t)
                           \/ SetDisconnected(t)

\* Limelight: the host, the network or a stage of the stream ends it, and the
\* callback gets a detached thread, at most once per stream and not any more
\* once the stream has been stopped.
ConnectionTerminated(k) ==
  /\ link = k
  /\ stopping[k] = "idle"
  /\ stopping' = [stopping EXCEPT ![k] = "check"]
  /\ UNCHANGED <<status, link, links, running, ui, return, paired, overlay, requested, crossed>>

-----------------------------------------------------------------------------
(* The input thread: stream_overlay_open and stream_overlay_handle_input.   *)

StreamOverlayOpen ==
  /\ "input" \in running
  /\ overlay = "closed"
  /\ overlay' = "open"
  /\ UNCHANGED <<status, link, links, running, stopping, ui, return, paired, requested, crossed>>

\* Mutant: every entry asks for a confirmation first.
ConfirmAll(r) ==
  /\ "input" \in running
  /\ overlay # "closed"
  /\ IF overlay = r
     THEN /\ requested' = [requested EXCEPT ![r] = links]
          /\ overlay' = "closed"
     ELSE overlay' = r /\ UNCHANGED requested
  /\ UNCHANGED <<status, link, links, running, stopping, ui, return, paired, crossed>>

\* Moving the selection disarms a guarded entry; confirming one arms it first.
Confirm(r) ==
  /\ "input" \in running
  /\ overlay # "closed"
  /\ IF r \in Guarded /\ overlay # r
     THEN overlay' = r /\ UNCHANGED requested
     ELSE /\ requested' = [requested EXCEPT ![r] = links]
          /\ overlay' = "closed"
  /\ UNCHANGED <<status, link, links, running, stopping, ui, return, paired, crossed>>

Cancel ==
  /\ "input" \in running
  /\ overlay # "closed"
  /\ overlay' = IF overlay \in Guarded THEN "open" ELSE "closed"
  /\ UNCHANGED <<status, link, links, running, stopping, ui, return, paired, requested, crossed>>

-----------------------------------------------------------------------------
(* The UI thread outside a stream: ui.c and the menus of ui_connect.c.      *)

\* What the UI thread alone leaves alone in its menus.
MenuFrame == UNCHANGED <<link, links, running, overlay, requested, crossed>>

ConnectionReset ==
  status' = IF status = "disconnected" THEN "ready" ELSE status

\* ui_connect: the host tells whether it still knows this client.
UiConnect == paired' \in BOOLEAN /\ ConnectionReset

\* ui_connect_paired_device, once the probe has answered; the probe refuses
\* when the state is not disconnected.
ConnectPairedDevice ==
  /\ ui = "main"
  /\ status = "disconnected"
  /\ UiConnect
  /\ Goto("menu")
  /\ UNCHANGED stopping
  /\ MenuFrame

\* ui_connect_and_pairing: gs_init, connection_reset, then gs_pair if needed.
AddDevice ==
  /\ ui = "main"
  /\ status = "disconnected"
  /\ \/ /\ paired' = TRUE
        /\ status' = "paired"
        /\ ui' = "terminating"
        /\ return' = "main"
        /\ stopping' = [stopping EXCEPT ![UI] = "check"]
     \/ /\ paired' = FALSE        \* gs_pair failed: connection_terminate refuses
        /\ ConnectionReset
        /\ UNCHANGED <<ui, return, stopping>>
  /\ MenuFrame

\* "Resume connection to ..." is offered instead of the hosts.
ConnectResume ==
  /\ ui = "main"
  /\ status # "disconnected"
  /\ Goto("menu")
  /\ UNCHANGED <<status, stopping, paired>>
  /\ MenuFrame

\* Quit and a new start of the application; the process takes its threads along.
Restart ==
  /\ ui = "main"
  /\ status' = "disconnected"
  /\ link' = 0
  /\ running' = {}
  /\ stopping' = [t \in Thread |-> IF stopping[t] = "idle" THEN "idle"
                                   ELSE IF t = UI THEN "idle" ELSE "done"]
  /\ StreamOverlayReset
  /\ crossed' = FALSE
  /\ UNCHANGED <<links, ui, return, paired>>

\* ui_connected_menu: the list of apps may not come; connection_paired is
\* called whatever the status is.
ConnectionPaired ==
  status' = IF status \in {"ready", "paired", "connected"} THEN "paired" ELSE status

ConnectedMenu ==
  /\ ui = "menu"
  /\ \/ paired /\ ConnectionPaired /\ Goto("apps")
     \/ paired /\ Goto("main") /\ UNCHANGED status
     \/ ~paired /\ Goto("apps") /\ UNCHANGED status
  /\ UNCHANGED <<stopping, paired>>
  /\ MenuFrame

\* The first thing ui_connect_loop looks at, on every frame.
MenuNoticesDisconnect ==
  /\ ui = "apps"
  /\ status = "disconnected"
  /\ Goto("main")
  /\ UNCHANGED <<status, stopping, paired>>
  /\ MenuFrame

\* Back leaves the state as it is; Disconnect asks for a termination.
LeaveMenu ==
  /\ ui = "apps"
  /\ status # "disconnected"
  /\ \/ Goto("main") /\ UNCHANGED stopping
     \/ Terminate("main")
  /\ UNCHANGED <<status, paired>>
  /\ MenuFrame

\* Pair from the menu: connection_paired, then connection_terminate.
PairFromMenu ==
  /\ ui = "apps"
  /\ status # "disconnected"
  /\ ~paired
  /\ paired' = TRUE
  /\ ConnectionPaired
  /\ ui' = "terminating"
  /\ return' = "menu"
  /\ stopping' = [stopping EXCEPT ![UI] = "check"]
  /\ MenuFrame

QuitFromMenu ==
  /\ ui = "apps"
  /\ status # "disconnected"
  /\ paired
  /\ ConnectionPaired
  /\ Goto("menu")
  /\ UNCHANGED <<stopping, paired>>
  /\ MenuFrame

\* An app entry; only a paired connection starts a stream.
LaunchApp ==
  /\ ui = "apps"
  /\ status # "disconnected"
  /\ paired
  /\ Goto(IF status = "paired" THEN "start" ELSE "loop")
  /\ UNCHANGED <<status, stopping, paired>>
  /\ MenuFrame

-----------------------------------------------------------------------------
(* Starting a stream: ui_connect_stream and connection_connection_started. *)

\* gs_start_app or LiStartConnection fails; Limelight cleans up after itself.
StartFails ==
  /\ ui = "start"
  /\ Goto("ended")
  /\ UNCHANGED <<status, link, links, running, stopping, paired, overlay, requested, crossed>>

\* LiStartConnection has brought every stage up and calls connectionStarted.
LiStartConnection ==
  /\ ui = "start"
  /\ links < MaxLinks
  /\ links' = links + 1
  /\ link' = links + 1
  /\ Goto("started")
  /\ UNCHANGED <<status, running, stopping, paired, overlay, requested, crossed>>

ConnectionStarted ==
  /\ ui = "started"
  /\ IF status = "paired"
     THEN /\ status' = "connected"
          /\ StreamOverlayReset
          /\ Goto("output")
     ELSE /\ Goto("loop")
          /\ UNCHANGED <<status, overlay, requested>>
  /\ UNCHANGED <<link, links, running, stopping, paired, crossed>>

\* start_output, in the order of stop_output.
StartOutput ==
  /\ \/ ui = "output" /\ running' = running \union {"input"} /\ Goto("media")
     \/ ui = "media" /\ running' = running \union {"media"} /\ Goto("loop")
  /\ UNCHANGED <<status, link, links, stopping, paired, overlay, requested, crossed>>

-----------------------------------------------------------------------------
(* The loop of a running stream; it takes the requests in a fixed order.   *)

LoopFrame == UNCHANGED <<link, links, running, overlay, paired, crossed>>

WhileConnected ==
  /\ ui = "loop"
  /\ Goto(IF status = "connected" THEN "apply" ELSE "ended")
  /\ UNCHANGED <<status, stopping, requested>>
  /\ LoopFrame

\* Mutant: the flag of a request stays set when it is taken.
PeekRequests(R) == UNCHANGED requested

\* stream_overlay_take_*_request: an unprotected test and clear.
TakeRequests(R) ==
  requested' = [r \in Requests |-> IF r \in R THEN 0 ELSE requested[r]]

Pending(R) == \E r \in R \intersect Requests : requested[r] # 0

\* Display settings (with the hotkey for the virtual display) and input settings.
TakeApply ==
  /\ ui = "apply"
  /\ TakeRequests(Reconnecting)
  /\ IF Pending(Reconnecting)
     THEN Terminate("refresh")
     ELSE Goto("close") /\ UNCHANGED stopping
  /\ UNCHANGED status
  /\ LoopFrame

\* Sends F12 and goes on.
TakeClose ==
  /\ ui = "close"
  /\ TakeRequests({"close"})
  /\ Goto("quit")
  /\ UNCHANGED <<status, stopping>>
  /\ LoopFrame

TakeQuit ==
  /\ ui = "quit"
  /\ TakeRequests({"quit"})
  /\ Goto(IF Pending({"quit"}) THEN "quitting" ELSE "recover")
  /\ UNCHANGED <<status, stopping>>
  /\ LoopFrame

\* gs_quit_app answers, while the stream and the in-stream menu go on.
QuitApp ==
  /\ ui = "quitting"
  /\ \/ Terminate("ended")
     \/ Goto("recover") /\ UNCHANGED stopping
  /\ UNCHANGED <<status, requested>>
  /\ LoopFrame

\* Recover sends F11 first; both leave the loop.
TakeEnd ==
  /\ ui \in {"recover", "disconnect"}
  /\ TakeRequests({ui})
  /\ IF Pending({ui})
     THEN Terminate("ended")
     ELSE /\ Goto(IF ui = "recover" THEN "disconnect" ELSE "loop")
          /\ UNCHANGED stopping
  /\ UNCHANGED status
  /\ LoopFrame

\* The controlled reconnect, half a second after the termination.
GsRefresh ==
  /\ ui = "refresh"
  /\ \/ Goto("reset") /\ paired' \in BOOLEAN
     \/ Goto("ended") /\ UNCHANGED paired
  /\ UNCHANGED <<status, link, links, running, stopping, overlay, requested, crossed>>

ResetAndPaired ==
  /\ \/ /\ ui = "reset"
        /\ ConnectionReset
        /\ Goto(IF status = "disconnected" THEN "paired" ELSE "ended")
     \/ /\ ui = "paired"
        /\ ConnectionPaired
        /\ Goto(IF status = "disconnected" THEN "ended" ELSE "start")
  /\ UNCHANGED <<stopping, requested>>
  /\ LoopFrame

\* After the loop: back to the main menu, or reload the list of apps.
AfterLoop ==
  /\ ui = "ended"
  /\ Goto(IF status = "disconnected" THEN "main" ELSE "menu")
  /\ UNCHANGED <<status, stopping, requested>>
  /\ LoopFrame

-----------------------------------------------------------------------------
MainMenu == ConnectPairedDevice \/ AddDevice \/ ConnectResume \/ Restart

AppMenu == ConnectedMenu \/ MenuNoticesDisconnect \/ LeaveMenu \/ PairFromMenu
             \/ QuitFromMenu \/ LaunchApp

\* The UI thread waits for the host, which may never answer: http.c sets no timeout.
HostCall == StartFails \/ LiStartConnection \/ QuitApp \/ GsRefresh

Turn == ConnectionStarted \/ StartOutput \/ WhileConnected \/ TakeApply \/ TakeClose
          \/ TakeQuit \/ TakeEnd \/ ResetAndPaired \/ AfterLoop

Stream == HostCall \/ Turn

User == StreamOverlayOpen \/ Cancel \/ \E r \in Requests : Confirm(r)

Next == \/ MainMenu \/ AppMenu \/ Stream \/ User
        \/ \E t \in Thread : TerminatedInternal(t)
        \/ \E k \in Link : ConnectionTerminated(k)

Spec == Init /\ [][Next]_vars

\* The threads are scheduled, the UI thread where it waits for nobody; the host
\* need not answer a call, and the person need not do anything.
FairSpec ==
  /\ Spec
  /\ WF_vars(Turn)
  /\ WF_vars(MenuNoticesDisconnect)
  /\ \A t \in Thread : WF_vars(TerminatedInternal(t))

-----------------------------------------------------------------------------
(* Properties.                                                             *)

AtRest == (\A t \in Thread : stopping[t] \in {"idle", "done"}) /\ ~Starting

\* The loop has seen a connected state and acts on requests.
Taking == ui \in Take \union {"quitting"}

InLoop == Taking \/ ui = "loop"

\* The controls, the power lock and the players are on exactly while the state
\* is connected, whoever ended the stream, and even if the host and the user
\* end it at once.  The exception is a callback that crosses the start of a
\* stream: connection_status is shared without a lock.
OutputsFollowStatus ==
  AtRest /\ ~crossed => running = IF status = "connected" THEN Output ELSE {}

\* No menu is ever shown over a stream: in the menus the state is not connected
\* (connection_paired would silently take it from there to paired), and unless a
\* callback crossed a start, Limelight is stopped, so that no second stream is
\* started over the first.  Nor is a connected state left over a stream that is
\* gone, crossed or not: whoever stopped it is about to say so.
NoForgottenStream ==
  /\ ui \in {"main", "menu", "apps", "start"} => status # "connected"
  /\ ui \in {"main", "menu", "apps"} /\ AtRest /\ ~crossed => link = 0
  /\ status = "connected" /\ link = 0 => \E t \in Thread : stopping[t] = "clear"

\* What the loop acts on was confirmed in the stream that runs: no request to
\* close the game or to recover the display waits for the next stream.  And unless
\* a callback crossed a start, none waits where no loop will take it.
RequestsAreFresh ==
  /\ Taking => \A r \in Requests : requested[r] \in {0, links}
  /\ ~crossed => \A r \in Requests : requested[r] # 0 => status = "connected"

\* gs_quit_app is never waited for without end.
HostAnswersQuit == []<>(ui # "quitting")

\* A confirmed request is taken, or the stream it was meant for is over, unless
\* the loop waits for ever for the host to quit the app.
RequestsAnswered ==
  HostAnswersQuit => \A r \in Requests : requested[r] # 0 ~> requested[r] = 0 \/ crossed

\* When the host or the network ends a stream, the loop is left, even if the
\* callback comes late; again unless it waits for ever for the host to quit the app.
HostEndNoticed == HostAnswersQuit => ((InLoop /\ link = 0) ~> (~InLoop \/ link # 0))

\* Whoever ends a stream, and even if both sides do at once, the controls are
\* released and the virtual pad removed before Limelight is stopped; the
\* exception is again a callback that crosses a start.
ReleasedUnlessCrossed ==
  [][link # 0 /\ link' = 0 /\ ~crossed /\ ~crossed' => "input" \notin running]_vars

\* input/vita.c:1281: the controls are released "while the connection is still
\* alive", which "prevents a held button surviving pause or disconnect".
ReleasedBeforeStop == [][link # 0 /\ link' = 0 => "input" \notin running]_vars
=============================================================================
