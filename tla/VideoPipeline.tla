---------------------------- MODULE VideoPipeline ----------------------------
(***************************************************************************)
(* The video pipeline of the Vita client, video/vita.c: the staged setup    *)
(* and cleanup that Limelight calls, the decoder that runs on Limelight's   *)
(* receive thread, the watchdog thread (frame_pacer) that redraws the menu  *)
(* over a silent stream, and vitavideo_start and vitavideo_stop, which the  *)
(* threads of StreamClient call.                                           *)
(*                                                                         *)
(* A draw may take any time, so every wait of the cleanup is bounded; when  *)
(* one runs out, the pipeline is quarantined: nothing is freed and no later *)
(* setup is accepted.                                                      *)
(***************************************************************************)
EXTENDS Naturals, Sequences

CONSTANTS
  Caller,        \* threads that start, stop and tear down the pipeline
  UI,            \* the one of them that sets streams up
  MaxRequests,   \* bound: changes of the menu in one stream
  MaxDrop        \* bound: frames the watchdog may ask to drop

ASSUME VideoAssumption ==
  /\ UI \in Caller
  /\ Caller \intersect {"none", "free", "pacer", "decoder"} = {}
  /\ MaxRequests \in Nat
  /\ MaxDrop \in Nat

VARIABLES
  status,      \* video_status, the stages that are up: 0 (NOT_INIT) to 6
  held,        \* the buffers, libraries and blocks that are allocated
  complete,    \* history: the last setup brought every stage up
  lib,         \* where Limelight is in setup and cleanup
  runner,      \* the thread that runs Limelight's setup or cleanup
  mutex,       \* video_render_mutex: none (not alive), free, or its holder
  ready,       \* video_render_mutex_initialized
  blocked,     \* video_cleanup_blocked
  active,      \* active_video_thread
  pacing,      \* active_pacer_thread
  pacer,       \* where the watchdog thread is
  decode,      \* where vita_submit_decode_unit is
  call,        \* where each caller is in vitavideo_start or vitavideo_stop
  begun,       \* vitavideo_start was called: never, before this stream, or now
  available,   \* decoded_frame_available
  drop,        \* need_drop
  requested,   \* redraw_request_generation
  rendered,    \* rendered_redraw_generation
  seen,        \* the generation the running draw has read
  changed,     \* the menu has changed and not yet asked for a redraw
  shown        \* the last draw began after the last change

lifecycle == <<status, held, complete, lib, runner>>
screen == <<requested, rendered, seen, changed, shown>>
vars == <<lifecycle, screen, mutex, ready, blocked, active, pacing, pacer,
          decode, call, begun, available, drop>>

Stage == 1 .. 6
MemBlock == 4   \* INIT_DECODER_MEMBLOCK
Watchdog == 6   \* INIT_FRAME_PACER_THREAD

\* What each stage allocates, in order.
Acquires == << << >>, <<"buffer", "texture">>, <<"init", "library">>,
               <<"info", "decoder", "block">>, <<"hardware">>, << >> >>

First(s, k) == {Acquires[s][i] : i \in 1 .. k}

Acquired(s) == First(s, Len(Acquires[s]))

Resource == UNION {Acquired(s) : s \in Stage}

\* What decoding a frame touches.
DecodeUses == {"buffer", "texture", "decoder", "block", "hardware"}

Teardown == {"pacer", "lock", "free", "destroy", "clear"}

InDraw == pacer = "draw" \/ decode = "draw"

Pending == requested # rendered

Flags == {complete, ready, blocked, active, pacing, available, changed, shown} \subseteq BOOLEAN

TypeOK ==
  /\ Flags
  /\ status \in 0 .. 6
  /\ held \subseteq Resource
  /\ lib \in Teardown \union {"idle", "setup", "streaming", "join"}
  /\ runner \in Caller \union {"none"}
  /\ mutex \in Caller \union {"none", "free", "pacer", "decoder"}
  /\ pacer \in {"none", "ready", "loop", "awake", "poll", "draw", "ended"}
  /\ decode \in {"idle", "lock", "decode", "drop", "draw"}
  /\ call \in [Caller -> {"idle", "startLock", "startSet", "request", "stopLock", "stopSet"}]
  /\ begun \in {"never", "before", "now"}
  /\ drop \in 0 .. MaxDrop
  /\ requested \in 0 .. MaxRequests + 1
  /\ rendered \in 0 .. MaxRequests + 1
  /\ seen \in 0 .. MaxRequests + 1

Init ==
  /\ status = 0
  /\ held = {}
  /\ complete = FALSE
  /\ lib = "idle"
  /\ runner = "none"
  /\ mutex = "none"
  /\ ready = FALSE
  /\ blocked = FALSE
  /\ active = FALSE
  /\ pacing = FALSE
  /\ pacer = "none"
  /\ decode = "idle"
  /\ call = [c \in Caller |-> "idle"]
  /\ begun = "never"
  /\ available = FALSE
  /\ drop = 0
  /\ requested = 0
  /\ rendered = 0
  /\ seen = 0
  /\ changed = FALSE
  /\ shown = FALSE

ResetCounters ==
  /\ available' = FALSE
  /\ requested' = 0
  /\ rendered' = 0
  /\ drop' = 0
  /\ UNCHANGED <<seen, changed, shown>>

-----------------------------------------------------------------------------
(* vita_setup: refused after a quarantine, then one stage after the other.  *)

SetupRefused ==
  /\ lib = "idle"
  /\ call[UI] = "idle"
  /\ blocked
  /\ UNCHANGED vars

SetupBegin ==
  /\ lib = "idle"
  /\ call[UI] = "idle"
  /\ ~blocked
  /\ mutex' = IF ready THEN mutex ELSE "free"
  /\ ready' = TRUE
  /\ active' = FALSE
  /\ ResetCounters
  /\ lib' = "setup"
  /\ runner' = UI
  /\ begun' = IF begun = "now" THEN "before" ELSE begun
  /\ complete' = FALSE
  /\ UNCHANGED <<status, held, blocked, pacing, pacer, decode, call>>

SetupStage ==
  /\ lib = "setup"
  /\ status < Watchdog
  /\ status' = status + 1
  /\ held' = held \union Acquired(status + 1)
  /\ IF status + 1 = Watchdog
     THEN pacing' = TRUE /\ pacer' = "ready"
     ELSE UNCHANGED <<pacing, pacer>>
  /\ UNCHANGED <<screen, complete, lib, runner, mutex, ready, blocked, active, decode,
                 call, begun, available, drop>>

SetupDone ==
  /\ lib = "setup"
  /\ status = Watchdog
  /\ lib' = "streaming"
  /\ runner' = "none"
  /\ complete' = TRUE
  /\ UNCHANGED <<screen, status, held, mutex, ready, blocked, active, pacing, pacer,
                 decode, call, begun, available, drop>>

\* vita_cleanup up to the wait for the watchdog.
CleanupBegin ==
  /\ active' = FALSE
  /\ pacing' = (pacing /\ status # Watchdog)
  /\ lib' = "pacer"

\* A step of a stage fails after k of its allocations; "goto cleanup".
SetupFails ==
  /\ lib = "setup"
  /\ status < Watchdog
  /\ \E k \in 0 .. Len(Acquires[status + 1]) :
       /\ k = Len(Acquires[status + 1]) => status + 1 \in {MemBlock, Watchdog}
       /\ held' = held \union First(status + 1, k)
  /\ CleanupBegin
  /\ UNCHANGED <<screen, status, complete, runner, mutex, ready, blocked, pacer, decode,
                 call, begun, available, drop>>

-----------------------------------------------------------------------------
(* Limelight ends the stream: it joins its receive thread, which runs the   *)
(* decoder, and calls vita_cleanup.                                        *)

StopStream(c) ==
  /\ lib = "streaming"
  /\ call[c] = "idle"
  /\ lib' = "join"
  /\ runner' = c
  /\ UNCHANGED <<screen, status, held, complete, mutex, ready, blocked, active, pacing,
                 pacer, decode, call, begun, available, drop>>

JoinDecoder ==
  /\ lib = "join"
  /\ decode = "idle"
  /\ CleanupBegin
  /\ UNCHANGED <<screen, status, held, complete, runner, mutex, ready, blocked, pacer,
                 decode, call, begun, available, drop>>

Return == lib' = "idle" /\ runner' = "none"

Quarantine ==
  /\ blocked' = TRUE
  /\ Return
  /\ UNCHANGED <<screen, status, held, complete, mutex, ready, active, pacing, pacer,
                 decode, call, begun, available, drop>>

\* Mutant: the cleanup goes on when the watchdog does not answer.
StopPacerAnyway ==
  /\ lib = "pacer"
  /\ status' = IF status = Watchdog THEN status - 1 ELSE status
  /\ pacer' = IF pacer = "ended" THEN "none" ELSE pacer
  /\ lib' = "lock"
  /\ UNCHANGED <<screen, held, complete, runner, mutex, ready, blocked, active, pacing,
                 decode, call, begun, available, drop>>

\* Mutant: the wait for the watchdog has no timeout.
StopPacerPatiently ==
  /\ lib = "pacer"
  /\ pacer \in {"none", "ended"}
  /\ pacer' = "none"
  /\ status' = IF status = Watchdog THEN status - 1 ELSE status
  /\ lib' = "lock"
  /\ UNCHANGED <<screen, held, complete, runner, mutex, ready, blocked, active, pacing,
                 decode, call, begun, available, drop>>

StopPacer ==
  /\ lib = "pacer"
  /\ \/ /\ status = Watchdog => pacer = "ended"
        /\ status' = IF status = Watchdog THEN status - 1 ELSE status
        /\ pacer' = "none"
        /\ lib' = "lock"
        /\ UNCHANGED <<screen, held, complete, runner, mutex, ready, blocked, active,
                       pacing, decode, call, begun, available, drop>>
     \/ /\ status = Watchdog
        /\ pacer # "ended"     \* two seconds have passed
        /\ Quarantine

\* lock_video_render_bounded, from the cleanup.
CleanupLock ==
  /\ lib = "lock"
  /\ IF mutex = "free"
     THEN /\ mutex' = runner
          /\ lib' = "free"
          /\ UNCHANGED <<screen, status, held, complete, runner, ready, blocked, active,
                         pacing, pacer, decode, call, begun, available, drop>>
     ELSE Quarantine

\* Mutant: the decoder's block is kept for the next stream.
FreeKeepsBlock ==
  /\ lib = "free"
  /\ held' = held \ UNION {Acquired(s) \ {"block"} : s \in 1 .. status}
  /\ status' = 0
  /\ ResetCounters
  /\ mutex' = "free"
  /\ lib' = "destroy"
  /\ UNCHANGED <<complete, runner, ready, blocked, active, pacing, pacer, decode, call, begun>>

\* Every stage that is up is taken down, from the last to the first.
FreeStages ==
  /\ lib = "free"
  /\ held' = held \ UNION {Acquired(s) : s \in 1 .. status}
  /\ status' = 0
  /\ ResetCounters
  /\ mutex' = "free"
  /\ lib' = "destroy"
  /\ UNCHANGED <<complete, runner, ready, blocked, active, pacing, pacer, decode, call, begun>>

\* pthread_mutex_destroy refuses while another thread holds the mutex.
DestroyMutex ==
  /\ lib = "destroy"
  /\ IF mutex = "free"
     THEN mutex' = "none" /\ lib' = "clear" /\ UNCHANGED <<blocked, runner>>
     ELSE blocked' = TRUE /\ Return /\ UNCHANGED mutex
  /\ UNCHANGED <<screen, status, held, complete, ready, active, pacing, pacer, decode,
                 call, begun, available, drop>>

ClearReady ==
  /\ lib = "clear"
  /\ ready' = FALSE
  /\ blocked' = FALSE
  /\ Return
  /\ UNCHANGED <<screen, status, held, complete, mutex, active, pacing, pacer, decode,
                 call, begun, available, drop>>

LibStep == SetupBegin \/ SetupStage \/ SetupDone \/ SetupFails \/ JoinDecoder \/ StopPacer
             \/ CleanupLock \/ FreeStages \/ DestroyMutex \/ ClearReady

-----------------------------------------------------------------------------
(* vitavideo_start and vitavideo_stop, on the thread that starts or stops   *)
(* the outputs of the stream.                                              *)

CallFrame == UNCHANGED <<lifecycle, rendered, seen, changed, shown, pacing, pacer, decode,
                         available, drop>>

At(c, place) == call' = [call EXCEPT ![c] = place]

Start ==
  /\ lib = "streaming"
  /\ call[UI] = "idle"
  /\ begun # "now"
  /\ begun' = "now"
  /\ IF ready THEN At(UI, "startLock") /\ UNCHANGED active
              ELSE At(UI, "request") /\ active' = TRUE
  /\ UNCHANGED <<mutex, ready, blocked, requested>>
  /\ CallFrame

\* Only a thread that saw the state connected stops the outputs; a callback may
\* have seen it in an earlier stream.
Stop(c) ==
  /\ call[c] = "idle"
  /\ c # runner
  /\ IF c = UI THEN begun = "now" ELSE begun # "never"
  /\ active' = FALSE
  /\ At(c, IF ready THEN "stopLock" ELSE "idle")
  /\ UNCHANGED <<mutex, ready, blocked, requested, begun>>
  /\ CallFrame

\* lock_video_render_bounded: a lock that is held or gone is tried for two seconds.
CallLock(c) ==
  /\ call[c] \in {"startLock", "stopLock"}
  /\ IF mutex = "free"
     THEN /\ mutex' = c
          /\ At(c, IF call[c] = "startLock" THEN "startSet" ELSE "stopSet")
          /\ UNCHANGED blocked
     ELSE /\ blocked' = TRUE
          /\ At(c, "idle")
          /\ UNCHANGED mutex
  /\ UNCHANGED <<ready, active, requested, begun>>
  /\ CallFrame

CallSet(c) ==
  /\ \/ /\ call[c] = "startSet"
        /\ active' = TRUE
        /\ At(c, "request")
     \/ /\ call[c] = "stopSet"
        /\ At(c, "idle")
        /\ UNCHANGED active
  /\ mutex' = "free"
  /\ UNCHANGED <<ready, blocked, requested, begun>>
  /\ CallFrame

CallRequest(c) ==
  /\ call[c] = "request"
  /\ requested' = IF ready THEN requested + 1 ELSE requested
  /\ At(c, "idle")
  /\ UNCHANGED <<mutex, ready, blocked, active, begun>>
  /\ CallFrame

CallStep(c) == CallLock(c) \/ CallSet(c) \/ CallRequest(c)

-----------------------------------------------------------------------------
(* The watchdog thread and the decoder.                                    *)

DrawFrame == UNCHANGED <<lifecycle, changed, requested, ready, blocked, active, pacing, call, begun>>

\* draw_stream_surface reads the generation, draws and publishes what it read.
DrawBegin(t) ==
  /\ mutex' = t
  /\ seen' = requested
  /\ shown' = TRUE
  /\ UNCHANGED rendered

\* Mutant: the generation is read again once the frame is on the screen.
PublishLatest ==
  /\ mutex' = "free"
  /\ rendered' = requested
  /\ UNCHANGED <<seen, shown>>

DrawEnd ==
  /\ mutex' = "free"
  /\ rendered' = seen
  /\ UNCHANGED <<seen, shown>>

PacerInit ==
  /\ pacer = "ready"
  /\ pacer' = "loop"
  /\ drop' = 0
  /\ UNCHANGED <<mutex, seen, rendered, shown, decode, available>>
  /\ DrawFrame

\* One round: once a second the surplus of frames is to be dropped.
PacerWake ==
  /\ pacer = "loop"
  /\ pacer' = IF pacing THEN "awake" ELSE "ended"
  /\ \/ UNCHANGED drop
     \/ pacing /\ active /\ drop < MaxDrop /\ drop' = drop + 1
  /\ UNCHANGED <<mutex, seen, rendered, shown, decode, available>>
  /\ DrawFrame

\* The flags are read, then the lock is tried.
PacerLook ==
  /\ pacer = "awake"
  /\ active
  /\ ready
  /\ pacer' = "poll"
  /\ UNCHANGED <<mutex, seen, rendered, shown, decode, available, drop>>
  /\ DrawFrame

\* The try-lock succeeds and a redraw is due.
PacerDraw ==
  /\ pacer = "poll"
  /\ mutex = "free"
  /\ pacer' = "draw"
  /\ DrawBegin("pacer")
  /\ UNCHANGED <<decode, available, drop>>
  /\ DrawFrame

\* Nothing to draw, not yet time to, or the lock is taken.
PacerSkip ==
  /\ pacer \in {"awake", "poll"}
  /\ pacer' = "loop"
  /\ UNCHANGED <<mutex, seen, rendered, shown, decode, available, drop>>
  /\ DrawFrame

PacerDrawn ==
  /\ pacer = "draw"
  /\ pacer' = "loop"
  /\ DrawEnd
  /\ UNCHANGED <<decode, available, drop>>
  /\ DrawFrame

DecodeUnit ==
  /\ lib = "streaming"
  /\ decode = "idle"
  /\ decode' = "lock"
  /\ UNCHANGED <<mutex, seen, rendered, shown, pacer, available, drop>>
  /\ DrawFrame

DecodeLock ==
  /\ decode = "lock"
  /\ mutex = "free"
  /\ mutex' = "decoder"
  /\ decode' = "decode"
  /\ UNCHANGED <<seen, rendered, shown, pacer, available, drop>>
  /\ DrawFrame

\* No picture, or video is off: the frame is not shown.
DecodeUnshown ==
  /\ decode = "decode"
  /\ \/ UNCHANGED available
     \/ ~active /\ available' = TRUE
  /\ decode' = "idle"
  /\ mutex' = "free"
  /\ UNCHANGED <<seen, rendered, shown, pacer, drop>>
  /\ DrawFrame

\* Mutant: "> 0" is ">= 0".
DropAtZero ==
  /\ decode = "decode"
  /\ active
  /\ available' = TRUE
  /\ decode' = "drop"
  /\ UNCHANGED <<mutex, seen, rendered, shown, pacer, drop>>
  /\ DrawFrame

DecodeShown ==
  /\ decode = "decode"
  /\ active
  /\ available' = TRUE
  /\ IF drop > 0
     THEN decode' = "drop" /\ UNCHANGED <<mutex, seen, rendered, shown>>
     ELSE decode' = "draw" /\ DrawBegin("decoder")
  /\ UNCHANGED <<pacer, drop>>
  /\ DrawFrame

DecodeDrop ==
  /\ decode = "drop"
  /\ drop' = drop - 1
  /\ decode' = "idle"
  /\ mutex' = "free"
  /\ UNCHANGED <<seen, rendered, shown, pacer, available>>
  /\ DrawFrame

DecodeDrawn ==
  /\ decode = "draw"
  /\ decode' = "idle"
  /\ DrawEnd
  /\ UNCHANGED <<pacer, available, drop>>
  /\ DrawFrame

PacerStep == PacerInit \/ PacerWake \/ PacerLook \/ PacerSkip \/ PacerDraw \/ PacerDrawn

DecodeStep == DecodeLock \/ DecodeUnshown \/ DecodeShown \/ DecodeDrop \/ DecodeDrawn

-----------------------------------------------------------------------------
\* The input thread changes the menu, then asks for a redraw.
MenuChange ==
  /\ lib = "streaming"
  /\ requested < MaxRequests
  /\ ~changed
  /\ changed' = TRUE
  /\ shown' = FALSE
  /\ UNCHANGED <<lifecycle, requested, rendered, seen, mutex, ready, blocked, active,
                 pacing, pacer, decode, call, begun, available, drop>>

RequestRedraw ==
  /\ changed
  /\ changed' = FALSE
  /\ requested' = IF ready THEN requested + 1 ELSE requested
  /\ UNCHANGED <<lifecycle, rendered, seen, shown, mutex, ready, blocked, active,
                 pacing, pacer, decode, call, begun, available, drop>>

Next == \/ LibStep \/ SetupRefused
        \/ \E c \in Caller : StopStream(c) \/ Stop(c) \/ CallStep(c)
        \/ Start
        \/ PacerStep \/ DecodeUnit \/ DecodeStep
        \/ MenuChange \/ RequestRedraw

Spec == Init /\ [][Next]_vars

\* Limelight's thread and the callers are scheduled; nothing is assumed of the
\* watchdog and the decoder, a draw of which need never end.
FairSpec ==
  /\ Spec
  /\ WF_vars(LibStep)
  /\ \A c \in Caller : WF_vars(CallStep(c))

-----------------------------------------------------------------------------
(* Properties.                                                             *)

\* Nothing is used once it is freed, however long the watchdog hangs in the display
\* and whoever ends the stream meanwhile: the mutex outlives the two threads that
\* lock it (the watchdog reads the flags and tries the lock later), a draw that
\* shows the last picture has its texture, and a frame that is being decoded has
\* everything it needs.
UsesOnlyHeld ==
  /\ pacer \notin {"none", "ended"} \/ decode # "idle" => mutex # "none"
  /\ InDraw /\ available => "texture" \in held
  /\ decode # "idle" => DecodeUses \subseteq held

\* A stream that was set up to the last stage leaves nothing allocated, unless
\* it is quarantined.  (A stage that fails keeps what it had allocated itself.)
FreedAfterStream == lib = "idle" /\ status = 0 /\ complete => held = {}

\* No change of the menu stays off the screen while the pipeline believes that
\* nothing is left to draw.
NoStaleScreen ==
  lib = "streaming" /\ active /\ ~InDraw /\ ~changed /\ ~Pending
    /\ (\A c \in Caller : call[c] # "request") => shown

\* Once the decoder has been joined, tearing a stream down ends, even if a draw of
\* the watchdog never does, and the threads that start or stop the outputs come
\* back, with or without the lock.
WaitsEnd ==
  /\ lib \in Teardown ~> lib = "idle"
  /\ \A c \in Caller : call[c] # "idle" ~> call[c] = "idle"

\* vita.c:343: a quarantine is for "the watchdog [that] is still inside Vita2D":
\* what is quarantined is still allocated.
QuarantinedForCause ==
  lib = "idle" /\ blocked /\ (\A c \in Caller : call[c] = "idle") => status # 0
=============================================================================
