------------------------- MODULE StreamClient_proofs -------------------------
(***************************************************************************)
(* What holds of StreamClient for every set of requests and every number   *)
(* of streams: all the safety properties that the run checks.  The first    *)
(* two parts of the invariant let callbacks cross anything; the last says  *)
(* what holds as long as none has.                                         *)
(***************************************************************************)
EXTENDS StreamClient, TLAPS

Fresh == \A r \in Requests : requested[r] \in {0, links}

\* Where the UI thread can be while the state is connected.
Streaming == ui \in Take \union {"output", "media", "loop", "quitting", "terminating"}

ConnectedInStream == status = "connected" => Streaming /\ Fresh

FreshOnceStarted == Taking \/ ui \in {"output", "media"} => Fresh

\* LiStartConnection has the stream up, and its outputs are being switched on.
Up == ui \in {"started", "output", "media"}

\* The UI thread, and the callback of the latest stream.
Current(t) == t = UI \/ t = links

\* What a terminating thread has behind it.
StopDone(t) ==
  /\ stopping[t] = "media" => "input" \notin running
  /\ stopping[t] = "stop"  => running = {}
  /\ stopping[t] = "clear" => running = {} /\ link = 0

\* Callbacks exist only of streams that were started, and the UI thread is in
\* connection_terminated_internal exactly when its place says so.
ThreadsInPlace ==
  /\ link <= links
  /\ return \in {"main", "menu", "refresh", "ended"}
  /\ \A k \in Link : k > links => stopping[k] = "idle"
  /\ stopping[UI] # "done"
  /\ stopping[UI] = "idle" <=> ui # "terminating"

\* Nobody else changes the state while a stream is set up.
StatusAlong ==
  /\ ui = "paired" => status = "ready"
  /\ ui \in {"start", "started"} => status = "paired"
  /\ ui \in {"output", "media"} => status = "connected"

\* Outputs go on one after the other while nobody acts against it.
UpInOrder ==
  /\ ui \in {"started", "output"} => running = {}
  /\ ui = "media" => running = {"input"}
  /\ Up => \A t \in Thread : Current(t) => stopping[t] \in {"idle", "check"}

\* Otherwise a state that is not connected has no stream and no outputs, a
\* connected one has all outputs unless somebody is stopping them.
Settled ==
  ~Up =>
    /\ status # "connected" => link = 0 /\ running = {}
    /\ status = "connected" =>
         \/ running = Output
         \/ \E t \in Thread : Current(t) /\ stopping[t] \in {"media", "stop", "clear"}
    /\ \A t \in Thread : Current(t) => StopDone(t)

Uncrossed == ~crossed => StatusAlong /\ UpInOrder /\ Settled

\* Whoever stops a stream under a connected state, or under a start that is about to
\* connect it, has not changed the state yet.
EndIsTold ==
  link = 0 /\ (status = "connected" \/ (ui = "started" /\ status = "paired"))
    => \E t \in Thread : stopping[t] = "clear"

\* Requests wait only where a loop will take them.
Served == ~crossed => \A r \in Requests : requested[r] # 0 => status = "connected"

IInv == TypeOK /\ ConnectedInStream /\ FreshOnceStarted /\ ThreadsInPlace /\ Uncrossed
          /\ EndIsTold /\ Served

-----------------------------------------------------------------------------
(* Type correctness.                                                       *)

USE StreamAssumption

\* Initially the types hold: every flag clear, nothing started.
LEMMA InitTyped == ASSUME Init PROVE TypeOK
<1>1. stopping \in [Thread -> Stop] /\ requested \in [Requests -> 0 .. MaxLinks]
  BY DEF Init, Stop
<1>2. running \in SUBSET Output
  BY DEF Init
<1>3. crossed \in BOOLEAN
  BY Zenon DEF Init
<1> QED BY <1>1, <1>2, <1>3 DEF Init, TypeOK, Place

\* The steps of connection_terminated_internal, on any thread, keep the types.
LEMMA TerminatedTyped ==
  ASSUME TypeOK, NEW t \in Thread, TerminatedInternal(t)
  PROVE  TypeOK'
<1> USE DEF TypeOK
<1>1. CASE CheckConnected(t)
  BY <1>1 DEF CheckConnected, Stop, Crosses, Starting
<1>2. CASE StopOutput(t)
  BY <1>2 DEF StopOutput, Stop, Output, Crosses, Starting
<1>3. CASE LiStopConnection(t)
  BY <1>3 DEF LiStopConnection, Stop, Crosses, Starting
<1>4. CASE SetDisconnected(t)
  BY <1>4 DEF SetDisconnected, StreamOverlayReset, Stop, Crosses, Starting, Place
<1> QED BY <1>1, <1>2, <1>3, <1>4 DEF TerminatedInternal

\* The menus outside a stream keep the types.
LEMMA MenuTyped ==
  ASSUME TypeOK, MainMenu \/ AppMenu
  PROVE  TypeOK'
<1> USE DEF TypeOK, Goto, MenuFrame, Terminate, ConnectionReset, UiConnect, ConnectionPaired
<1>0. UI \in Thread
  BY DEF Thread
<1>1. CASE ConnectPairedDevice
  BY <1>1 DEF ConnectPairedDevice, Place
<1>2. CASE AddDevice
  BY <1>0, <1>2 DEF AddDevice, Place, Stop
<1>3. CASE ConnectResume
  BY <1>3 DEF ConnectResume, Place
<1>4. CASE Restart
  <2>1. stopping' \in [Thread -> Stop] /\ requested' \in [Requests -> 0 .. MaxLinks]
    BY <1>4 DEF Restart, StreamOverlayReset, Stop
  <2>2. running' \in SUBSET Output
    BY <1>4 DEF Restart
  <2>3. crossed' \in BOOLEAN
    BY <1>4, Zenon DEF Restart
  <2> QED BY <1>4, <2>1, <2>2, <2>3 DEF Restart, StreamOverlayReset
<1>5. CASE ConnectedMenu
  BY <1>5 DEF ConnectedMenu, Place
<1>6. CASE MenuNoticesDisconnect
  BY <1>6 DEF MenuNoticesDisconnect, Place
<1>7. CASE LeaveMenu
  BY <1>0, <1>7 DEF LeaveMenu, Place, Stop
<1>8. CASE PairFromMenu
  BY <1>0, <1>8 DEF PairFromMenu, Place, Stop
<1>9. CASE QuitFromMenu
  BY <1>9 DEF QuitFromMenu, Place
<1>10. CASE LaunchApp
  BY <1>10 DEF LaunchApp, Place
<1> QED BY <1>1, <1>2, <1>3, <1>4, <1>5, <1>6, <1>7, <1>8, <1>9, <1>10
        DEF MainMenu, AppMenu

\* Starting a stream and the loop that runs it keep the types.
LEMMA StreamTyped ==
  ASSUME TypeOK, Stream
  PROVE  TypeOK'
<1> USE DEF TypeOK, Goto, LoopFrame, Terminate, ConnectionReset, UiConnect, ConnectionPaired, TakeRequests
<1>0. UI \in Thread
  BY DEF Thread
<1>1. CASE StartFails
  BY <1>1 DEF StartFails, Place
<1>2. CASE LiStartConnection
  BY <1>2 DEF LiStartConnection, Place
<1>3. CASE ConnectionStarted
  BY <1>3 DEF ConnectionStarted, StreamOverlayReset, Place
<1>4. CASE StartOutput
  BY <1>4 DEF StartOutput, Output, Place
<1>5. CASE WhileConnected
  BY <1>5 DEF WhileConnected, Place, Take
<1>6. CASE TakeApply
  BY <1>0, <1>6 DEF TakeApply, Place, Take, Stop
<1>7. CASE TakeClose
  BY <1>7 DEF TakeClose, Place, Take
<1>8. CASE TakeQuit
  BY <1>8 DEF TakeQuit, Place, Take
<1>9. CASE QuitApp
  BY <1>0, <1>9 DEF QuitApp, Place, Take, Stop
<1>10. CASE TakeEnd
  BY <1>0, <1>10 DEF TakeEnd, Place, Take, Stop
<1>11. CASE GsRefresh
  BY <1>11 DEF GsRefresh, Place
<1>12. CASE ResetAndPaired
  BY <1>12 DEF ResetAndPaired, Place
<1>13. CASE AfterLoop
  BY <1>13 DEF AfterLoop, Place
<1> QED BY <1>1, <1>2, <1>3, <1>4, <1>5, <1>6, <1>7, <1>8, <1>9, <1>10, <1>11, <1>12, <1>13
        DEF Stream, HostCall, Turn

\* The input thread, and the start of a callback thread, keep the types.
LEMMA OthersTyped ==
  ASSUME TypeOK, User \/ \E k \in Link : ConnectionTerminated(k)
  PROVE  TypeOK'
<1> USE DEF TypeOK
<1>1. CASE StreamOverlayOpen
  BY <1>1 DEF StreamOverlayOpen
<1>2. CASE Cancel
  BY <1>2 DEF Cancel
<1>3. ASSUME NEW r \in Requests, Confirm(r) PROVE TypeOK'
  BY <1>3 DEF Confirm
<1>4. ASSUME NEW k \in Link, ConnectionTerminated(k) PROVE TypeOK'
  BY <1>4 DEF ConnectionTerminated, Stop, Thread
<1> QED BY <1>1, <1>2, <1>3, <1>4 DEF User

\* Every step keeps the types.
LEMMA StepTyped == ASSUME TypeOK, [Next]_vars PROVE TypeOK'
<1>1. CASE UNCHANGED vars
  BY <1>1 DEF vars, TypeOK
<1>2. CASE Next
  BY <1>2, TerminatedTyped, MenuTyped, StreamTyped, OthersTyped DEF Next
<1> QED BY <1>1, <1>2

-----------------------------------------------------------------------------
(* The loop acts on requests of the running stream.                        *)

Connects == ConnectedInStream /\ FreshOnceStarted

USE DEF Connects, ConnectedInStream, FreshOnceStarted, Fresh, Streaming, Taking, Take

\* A termination, on any thread, leaves the state disconnected and no request.
LEMMA TerminatedFresh ==
  ASSUME TypeOK, Connects, NEW t \in Thread, TerminatedInternal(t)
  PROVE  Connects'
<1>1. CASE CheckConnected(t) \/ StopOutput(t) \/ LiStopConnection(t)
  BY <1>1 DEF CheckConnected, StopOutput, LiStopConnection
<1>2. CASE SetDisconnected(t)
  BY <1>2 DEF SetDisconnected, StreamOverlayReset
<1> QED BY <1>1, <1>2 DEF TerminatedInternal

\* The menus never see a connected state, and never make one.
LEMMA MenuFresh ==
  ASSUME Connects, MainMenu \/ AppMenu
  PROVE  Connects'
<1> USE DEF Goto, MenuFrame, Terminate, ConnectionReset, UiConnect, ConnectionPaired
<1>1. CASE MainMenu
  BY <1>1 DEF MainMenu, ConnectPairedDevice, AddDevice, ConnectResume, Restart
<1>2. CASE ConnectedMenu \/ MenuNoticesDisconnect \/ LeaveMenu
  BY <1>2 DEF ConnectedMenu, MenuNoticesDisconnect, LeaveMenu
<1>3. CASE PairFromMenu \/ QuitFromMenu \/ LaunchApp
  BY <1>3 DEF PairFromMenu, QuitFromMenu, LaunchApp
<1> QED BY <1>1, <1>2, <1>3 DEF AppMenu

\* A new stream gets its number before the state is connected, and the state
\* becomes connected together with the reset of the requests.
LEMMA StreamFresh ==
  ASSUME TypeOK, Connects, Stream
  PROVE  Connects'
<1> USE DEF Goto, LoopFrame, Terminate, ConnectionReset, UiConnect, ConnectionPaired, TakeRequests
<1>1. CASE StartFails \/ LiStartConnection
  BY <1>1 DEF StartFails, LiStartConnection
<1>2. CASE ConnectionStarted
  BY <1>2 DEF ConnectionStarted, StreamOverlayReset
<1>3. CASE StartOutput \/ WhileConnected
  BY <1>3 DEF StartOutput, WhileConnected
<1>4. CASE TakeApply
  BY <1>4 DEF TakeApply
<1>5. CASE TakeClose \/ TakeQuit
  BY <1>5 DEF TakeClose, TakeQuit
<1>6. CASE QuitApp
  BY <1>6 DEF QuitApp
<1>7. CASE TakeEnd
  BY <1>7 DEF TakeEnd
<1>8. CASE GsRefresh \/ ResetAndPaired \/ AfterLoop
  BY <1>8 DEF GsRefresh, ResetAndPaired, AfterLoop
<1> QED BY <1>1, <1>2, <1>3, <1>4, <1>5, <1>6, <1>7, <1>8 DEF Stream, HostCall, Turn

\* A confirmation is stamped with the running stream.
LEMMA OthersFresh ==
  ASSUME TypeOK, Connects, User \/ \E k \in Link : ConnectionTerminated(k)
  PROVE  Connects'
<1>1. CASE StreamOverlayOpen \/ Cancel
  BY <1>1 DEF StreamOverlayOpen, Cancel
<1>2. ASSUME NEW r \in Requests, Confirm(r) PROVE Connects'
  BY <1>2 DEF Confirm, TypeOK
<1>3. ASSUME NEW k \in Link, ConnectionTerminated(k) PROVE Connects'
  BY <1>3 DEF ConnectionTerminated
<1> QED BY <1>1, <1>2, <1>3 DEF User

-----------------------------------------------------------------------------
(* Unless a callback crosses a start, outputs and stream follow the state.  *)

Tidy == ThreadsInPlace /\ Uncrossed

USE DEF Tidy, ThreadsInPlace, Uncrossed, StatusAlong, UpInOrder, Settled, StopDone, Up,
        Current, Output

\* A termination by the UI thread or by the latest callback leaves things tidy;
\* any other callback that acts has crossed a start.
LEMMA TerminatedTidy ==
  ASSUME IInv, NEW t \in Thread, TerminatedInternal(t)
  PROVE  Tidy'
<1> USE DEF IInv, TypeOK, Crosses, Starting, Thread, Link
<1>1. CASE CheckConnected(t)
  BY <1>1 DEF CheckConnected
<1>2. CASE StopOutput(t)
  <2>1. ThreadsInPlace'
    BY <1>2 DEF StopOutput
  <2>2. ASSUME ~crossed' PROVE ~crossed /\ ~Up /\ Current(t)
    BY <1>2, <2>2 DEF StopOutput
  <2>3. ASSUME ~crossed' PROVE StatusAlong' /\ UpInOrder'
    BY <1>2, <2>2, <2>3 DEF StopOutput
  <2>4. ASSUME ~crossed' PROVE Settled'
    <3>1. stopping[t] = "input" =>
            "input" \notin running' /\ stopping' = [stopping EXCEPT ![t] = "media"]
      BY <1>2 DEF StopOutput
    <3>2. stopping[t] = "media" => running' = {} /\ stopping' = [stopping EXCEPT ![t] = "stop"]
      BY <1>2, <2>2, <2>4 DEF StopOutput
    <3>3. \A u \in Thread : Current(u)' => StopDone(u)'
      BY <1>2, <2>2, <2>4, <3>1, <3>2 DEF StopOutput
    <3>4. status' # "connected" => link' = 0 /\ running' = {}
      BY <1>2, <2>2, <2>4 DEF StopOutput
    <3>5. Current(t)' /\ stopping'[t] \in {"media", "stop"}
      BY <1>2, <2>2, <2>4 DEF StopOutput
    <3> QED BY <3>3, <3>4, <3>5
  <2> QED BY <2>1, <2>3, <2>4
<1>3. CASE LiStopConnection(t)
  BY <1>3 DEF LiStopConnection
<1>4. CASE SetDisconnected(t)
  BY <1>4 DEF SetDisconnected, StreamOverlayReset
<1> QED BY <1>1, <1>2, <1>3, <1>4 DEF TerminatedInternal

\* The menus start from no stream and no outputs, and leave it so.
LEMMA MenuTidy ==
  ASSUME IInv, MainMenu \/ AppMenu
  PROVE  Tidy'
<1> USE DEF IInv, TypeOK, Goto, MenuFrame, Terminate, ConnectionReset, UiConnect,
            ConnectionPaired, Thread, Link
<1>1. CASE ConnectPairedDevice \/ ConnectResume
  BY <1>1 DEF ConnectPairedDevice, ConnectResume
<1>2. CASE AddDevice
  BY <1>2 DEF AddDevice
<1>3. CASE Restart
  BY <1>3 DEF Restart, StreamOverlayReset
<1>4. CASE ConnectedMenu \/ MenuNoticesDisconnect
  BY <1>4 DEF ConnectedMenu, MenuNoticesDisconnect
<1>5. CASE LeaveMenu
  BY <1>5 DEF LeaveMenu
<1>6. CASE PairFromMenu
  BY <1>6 DEF PairFromMenu
<1>7. CASE QuitFromMenu \/ LaunchApp
  BY <1>7 DEF QuitFromMenu, LaunchApp
<1> QED BY <1>1, <1>2, <1>3, <1>4, <1>5, <1>6, <1>7 DEF MainMenu, AppMenu

\* Setting a stream up and looping over it.
LEMMA StreamTidy ==
  ASSUME IInv, Stream
  PROVE  Tidy'
<1> USE DEF IInv, TypeOK, Goto, LoopFrame, Terminate, ConnectionReset, UiConnect,
            ConnectionPaired, Thread, Link
<1>1. CASE StartFails
  BY <1>1 DEF StartFails
<1>2. CASE LiStartConnection
  BY <1>2 DEF LiStartConnection
<1>3. CASE ConnectionStarted
  BY <1>3 DEF ConnectionStarted, StreamOverlayReset
<1>4. CASE StartOutput
  BY <1>4 DEF StartOutput
<1>5. CASE WhileConnected
  BY <1>5 DEF WhileConnected
<1>6. CASE TakeApply
  BY <1>6 DEF TakeApply
<1>7. CASE TakeClose \/ TakeQuit
  BY <1>7 DEF TakeClose, TakeQuit
<1>8. CASE QuitApp
  BY <1>8 DEF QuitApp
<1>9. CASE TakeEnd
  BY <1>9 DEF TakeEnd
<1>10. CASE GsRefresh
  BY <1>10 DEF GsRefresh
<1>11. CASE ResetAndPaired
  BY <1>11 DEF ResetAndPaired
<1>12. CASE AfterLoop
  BY <1>12 DEF AfterLoop
<1> QED BY <1>1, <1>2, <1>3, <1>4, <1>5, <1>6, <1>7, <1>8, <1>9, <1>10, <1>11, <1>12
        DEF Stream, HostCall, Turn

\* The in-stream menu changes none of it; a callback thread starts at rest.
LEMMA OthersTidy ==
  ASSUME IInv, User \/ \E k \in Link : ConnectionTerminated(k)
  PROVE  Tidy'
<1> USE DEF IInv, TypeOK, Thread, Link
<1>1. CASE StreamOverlayOpen \/ Cancel
  BY <1>1 DEF StreamOverlayOpen, Cancel
<1>2. ASSUME NEW r \in Requests, Confirm(r) PROVE Tidy'
  BY <1>2 DEF Confirm
<1>3. ASSUME NEW k \in Link, ConnectionTerminated(k) PROVE Tidy'
  BY <1>3 DEF ConnectionTerminated
<1> QED BY <1>1, <1>2, <1>3 DEF User

-----------------------------------------------------------------------------
(* No end of a stream goes untold, and no request waits for a loop that is left. *)

Heard == EndIsTold /\ Served

USE DEF Heard, EndIsTold, Served

\* The thread that stopped a stream changes the state, and the requests with it.
LEMMA TerminatedHeard ==
  ASSUME IInv, NEW t \in Thread, TerminatedInternal(t)
  PROVE  Heard'
<1> USE DEF IInv, TypeOK
<1>1. CASE CheckConnected(t)
  BY <1>1 DEF CheckConnected
<1>2. CASE StopOutput(t)
  BY <1>2 DEF StopOutput
<1>3. CASE LiStopConnection(t)
  BY <1>3 DEF LiStopConnection
<1>4. CASE SetDisconnected(t)
  BY <1>4 DEF SetDisconnected, StreamOverlayReset
<1> QED BY <1>1, <1>2, <1>3, <1>4 DEF TerminatedInternal

\* In the menus the state is not connected.
LEMMA MenuHeard ==
  ASSUME IInv, MainMenu \/ AppMenu
  PROVE  Heard'
<1> USE DEF IInv, Goto, MenuFrame, Terminate, ConnectionReset, UiConnect, ConnectionPaired
<1>1. CASE ConnectPairedDevice \/ ConnectResume
  BY <1>1 DEF ConnectPairedDevice, ConnectResume
<1>2. CASE AddDevice
  BY <1>2 DEF AddDevice
<1>3. CASE Restart
  BY <1>3 DEF Restart, StreamOverlayReset
<1>4. CASE ConnectedMenu \/ MenuNoticesDisconnect \/ LeaveMenu
  BY <1>4 DEF ConnectedMenu, MenuNoticesDisconnect, LeaveMenu
<1>5. CASE PairFromMenu \/ QuitFromMenu \/ LaunchApp
  BY <1>5 DEF PairFromMenu, QuitFromMenu, LaunchApp
<1> QED BY <1>1, <1>2, <1>3, <1>4, <1>5 DEF MainMenu, AppMenu

\* A start connects only the state that it left paired.
LEMMA StreamHeard ==
  ASSUME IInv, Stream
  PROVE  Heard'
<1> USE DEF IInv, TypeOK, Goto, LoopFrame, Terminate, ConnectionReset, ConnectionPaired,
            TakeRequests
<1>1. CASE StartFails \/ LiStartConnection
  BY <1>1 DEF StartFails, LiStartConnection
<1>2. CASE ConnectionStarted
  BY <1>2 DEF ConnectionStarted, StreamOverlayReset
<1>3. CASE StartOutput \/ WhileConnected
  BY <1>3 DEF StartOutput, WhileConnected
<1>4. CASE TakeApply
  BY <1>4 DEF TakeApply
<1>5. CASE TakeClose \/ TakeQuit
  BY <1>5 DEF TakeClose, TakeQuit
<1>6. CASE QuitApp
  BY <1>6 DEF QuitApp
<1>7. CASE TakeEnd
  BY <1>7 DEF TakeEnd
<1>8. CASE GsRefresh \/ ResetAndPaired \/ AfterLoop
  BY <1>8 DEF GsRefresh, ResetAndPaired, AfterLoop
<1> QED BY <1>1, <1>2, <1>3, <1>4, <1>5, <1>6, <1>7, <1>8 DEF Stream, HostCall, Turn

\* A request is confirmed while input is on, which it is only while connected.
LEMMA OthersHeard ==
  ASSUME IInv, User \/ \E k \in Link : ConnectionTerminated(k)
  PROVE  Heard'
<1> USE DEF IInv, TypeOK
<1>1. CASE StreamOverlayOpen \/ Cancel
  BY <1>1 DEF StreamOverlayOpen, Cancel
<1>2. ASSUME NEW r \in Requests, Confirm(r) PROVE Heard'
  <2>1. ~crossed => status = "connected"
    BY <1>2 DEF Confirm
  <2> QED BY <1>2, <2>1 DEF Confirm
<1>3. ASSUME NEW k \in Link, ConnectionTerminated(k) PROVE Heard'
  BY <1>3 DEF ConnectionTerminated
<1> QED BY <1>1, <1>2, <1>3 DEF User

-----------------------------------------------------------------------------
(* The theorems.                                                           *)

\* Every step keeps the inductive invariant.
LEMMA StepInv == ASSUME IInv, [Next]_vars PROVE IInv'
<1>1. TypeOK'
  BY StepTyped DEF IInv
<1>2. Connects'
  <2>1. CASE UNCHANGED vars
    BY <2>1 DEF vars, IInv
  <2>2. CASE Next
    BY <2>2, TerminatedFresh, MenuFresh, StreamFresh, OthersFresh DEF Next, IInv
  <2> QED BY <2>1, <2>2
<1>3. Tidy'
  <2>1. CASE UNCHANGED vars
    BY <2>1 DEF vars, IInv
  <2>2. CASE Next
    BY <2>2, TerminatedTidy, MenuTidy, StreamTidy, OthersTidy DEF Next
  <2> QED BY <2>1, <2>2
<1>4. Heard'
  <2>1. CASE UNCHANGED vars
    BY <2>1 DEF vars, IInv
  <2>2. CASE Next
    BY <2>2, TerminatedHeard, MenuHeard, StreamHeard, OthersHeard DEF Next
  <2> QED BY <2>1, <2>2
<1> QED BY <1>1, <1>2, <1>3, <1>4 DEF IInv

\* The inductive invariant holds in every reachable state.
THEOREM Invariance == Spec => []IInv
<1>1. Init => IInv
  <2> SUFFICES ASSUME Init PROVE IInv
    OBVIOUS
  <2>1. TypeOK
    BY InitTyped
  <2>2. Connects
    BY DEF Init
  <2>3. ThreadsInPlace
    BY DEF Init, Thread, Link
  <2>4. Settled /\ UpInOrder /\ StatusAlong
    BY DEF Init, Thread, Link
  <2>5. Heard
    BY DEF Init
  <2> QED BY <2>1, <2>2, <2>3, <2>4, <2>5 DEF IInv
<1>2. IInv /\ [Next]_vars => IInv'
  BY StepInv
<1> QED BY <1>1, <1>2, PTL DEF Spec

\* connection.c and ui_connect.c keep their state machine: every variable of
\* the client stays in its type, whatever threads interleave.
THEOREM Typed == Spec => []TypeOK
<1>1. IInv => TypeOK
  BY DEF IInv
<1> QED BY <1>1, Invariance, PTL

\* The stream loop never takes a request that was confirmed in an earlier
\* stream, even when a termination callback crosses the start of the next one.
THEOREM NothingStale == Spec => []RequestsAreFresh
<1>1. IInv => RequestsAreFresh
  BY DEF IInv, RequestsAreFresh
<1> QED BY <1>1, Invariance, PTL

\* Outputs are on exactly while connected, for any number of streams and ends,
\* as long as no callback crossed the start of a stream.
THEOREM OutputsFollow == Spec => []OutputsFollowStatus
<1>1. IInv => OutputsFollowStatus
  BY DEF IInv, OutputsFollowStatus, AtRest, Starting, Thread
<1> QED BY <1>1, Invariance, PTL

\* In the menus of ui.c and ui_connect.c the state is never connected, where
\* connection_paired would abandon the stream, and Limelight is stopped.
THEOREM NothingForgotten == Spec => []NoForgottenStream
<1>1. IInv => NoForgottenStream
  BY DEF IInv, NoForgottenStream, AtRest
<1> QED BY <1>1, Invariance, PTL

\* Only a termination and a quit stop a stream, and both find the controls off.
LEMMA StepReleases ==
  ASSUME IInv, Next, link # 0, link' = 0, ~crossed, ~crossed'
  PROVE  "input" \notin running
<1> USE DEF IInv, TypeOK
<1>1. ASSUME NEW t \in Thread, TerminatedInternal(t) PROVE "input" \notin running
  <2>1. LiStopConnection(t)
    BY <1>1 DEF TerminatedInternal, CheckConnected, StopOutput, SetDisconnected
  <2>2. ~Up /\ Current(t)
    BY <2>1 DEF LiStopConnection, Crosses, Starting
  <2> QED BY <2>1, <2>2 DEF LiStopConnection
<1>2. CASE MainMenu
  BY <1>2 DEF MainMenu, MenuFrame, ConnectPairedDevice, AddDevice, ConnectResume, Restart
<1>3. CASE AppMenu
  BY <1>3 DEF AppMenu, MenuFrame, ConnectedMenu, MenuNoticesDisconnect, LeaveMenu,
              PairFromMenu, QuitFromMenu, LaunchApp
<1>4. CASE Stream
  BY <1>4 DEF Stream, HostCall, Turn, LoopFrame, StartFails, LiStartConnection, ConnectionStarted, StartOutput,
              WhileConnected, TakeApply, TakeClose, TakeQuit, QuitApp, TakeEnd, GsRefresh,
              ResetAndPaired, AfterLoop
<1>5. CASE User \/ \E k \in Link : ConnectionTerminated(k)
  BY <1>5 DEF User, StreamOverlayOpen, Cancel, Confirm, ConnectionTerminated
<1> QED BY <1>1, <1>2, <1>3, <1>4, <1>5 DEF Next

\* The controls are released before the stream is stopped, whichever threads
\* stop it and in whichever order, unless a callback crossed a start.
THEOREM Released == Spec => ReleasedUnlessCrossed
<1>1. IInv /\ [Next]_vars =>
        [link # 0 /\ link' = 0 /\ ~crossed /\ ~crossed' => "input" \notin running]_vars
  BY StepReleases
<1> QED BY <1>1, Invariance, PTL DEF Spec, ReleasedUnlessCrossed
=============================================================================
