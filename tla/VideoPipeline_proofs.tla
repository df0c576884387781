------------------------ MODULE VideoPipeline_proofs ------------------------
(***************************************************************************)
(* The safety properties of VideoPipeline for any set of callers and any    *)
(* number of menu changes and dropped frames.  The invariant says which     *)
(* stages are up, and which thread can be where, at each place of setup and *)
(* cleanup; the rest follows.                                              *)
(***************************************************************************)
EXTENDS VideoPipeline, TLAPS

\* Where stages are up, and how many.
StagesInPlace ==
  /\ lib \in {"streaming", "join"} => status = Watchdog
  /\ lib \in {"lock", "free"} => status # Watchdog
  /\ lib \in {"destroy", "clear"} => status = 0
  /\ lib = "idle" /\ status # 0 => blocked
  /\ lib \in {"idle", "streaming"} <=> runner = "none"
  /\ lib = "setup" => runner = UI

\* A thread is in Limelight or in vitavideo_start and vitavideo_stop, not in both;
\* only the UI thread starts outputs.
CallersInPlace ==
  \A c \in Caller :
    /\ runner = c => call[c] = "idle"
    /\ call[c] \in {"startLock", "startSet", "request"} => c = UI /\ begun = "now"

\* The watchdog exists exactly while its stage is up.
WatchdogInPlace == pacer = "none" <=> status # Watchdog

\* The decoder runs in streams only.
DecoderInPlace == decode # "idle" => lib \in {"streaming", "join"}

\* The mutex and its flag live from the beginning of the setup to the cleanup.
MutexInPlace ==
  /\ mutex = "none" <=> lib = "clear" \/ (lib = "idle" /\ ~ready)
  /\ lib # "idle" \/ status # 0 => ready
  /\ mutex # "none" => ready
  /\ pacer = "draw" <=> mutex = "pacer"
  /\ decode \in {"decode", "drop", "draw"} <=> mutex = "decoder"
  /\ \A c \in Caller : mutex = c <=> \/ call[c] \in {"startSet", "stopSet"}
                                     \/ lib = "free" /\ runner = c

\* What the stages that are up have allocated.
Allocated ==
  /\ status > 1 => {"buffer", "texture"} \subseteq held
  /\ status > 3 => {"decoder", "block"} \subseteq held
  /\ status > 4 => {"hardware"} \subseteq held

\* A complete stream is taken down completely.
CompleteInPlace ==
  complete =>
    /\ lib # "setup"
    /\ lib = "pacer" => status = Watchdog
    /\ lib \in {"lock", "free"} => status = Watchdog - 1
    /\ lib \in {"destroy", "clear"} => held = {}
    /\ lib = "idle" /\ status = 0 => held = {}

\* The frames to drop: the decoder is about to drop one only if there is one.
DropInPlace ==
  /\ decode = "drop" => drop > 0
  /\ lib = "setup" /\ status # Watchdog => drop = 0
  /\ pacer = "ready" => drop = 0

\* The redraws that may still be asked for in a stream.
ToCome == (IF changed THEN 1 ELSE 0)
        + (IF begun # "now" \/ call[UI] \in {"startLock", "startSet", "request"} THEN 1 ELSE 0)

RequestsInPlace ==
  /\ requested + ToCome <= MaxRequests + 1
  /\ changed => MaxRequests > 0

\* The generations follow each other.
GenerationsInPlace ==
  /\ rendered <= requested
  /\ InDraw => seen <= requested

\* What is not on the screen has been asked for, or soon will be.
ScreenInPlace ==
  lib = "streaming" /\ active =>
    \/ shown \/ changed \/ call[UI] = "request"
    \/ requested > (IF InDraw THEN seen ELSE rendered)

ActiveInPlace ==
  /\ active => begun = "now"
  /\ lib = "setup" => ~active

IInv == /\ TypeOK
        /\ StagesInPlace /\ CallersInPlace /\ WatchdogInPlace /\ DecoderInPlace /\ MutexInPlace
        /\ Allocated /\ CompleteInPlace
        /\ DropInPlace /\ RequestsInPlace /\ GenerationsInPlace
        /\ ScreenInPlace /\ ActiveInPlace

-----------------------------------------------------------------------------
(* The invariant is inductive.                                             *)

USE VideoAssumption
USE DEF MemBlock, Watchdog, Stage, Teardown, InDraw

\* Nothing runs at first.
LEMMA InitInv == ASSUME Init PROVE IInv
<1>0. Flags
  BY Zenon DEF Init, Flags
<1>1. TypeOK
  BY <1>0 DEF Init, TypeOK
<1>2. StagesInPlace /\ CallersInPlace /\ WatchdogInPlace /\ DecoderInPlace
  BY DEF Init, StagesInPlace, CallersInPlace, WatchdogInPlace, DecoderInPlace
<1>3. MutexInPlace /\ Allocated /\ CompleteInPlace /\ DropInPlace
  BY DEF Init, MutexInPlace, Allocated, CompleteInPlace, DropInPlace
<1>4. RequestsInPlace /\ GenerationsInPlace /\ ScreenInPlace /\ ActiveInPlace
  BY DEF Init, RequestsInPlace, ToCome, GenerationsInPlace, ScreenInPlace, ActiveInPlace
<1>. QED
  BY <1>1, <1>2, <1>3, <1>4 DEF IInv

\* What the stages allocate, as sets.
LEMMA Stages ==
  /\ Acquired(1) = {}
  /\ Acquired(2) = {"buffer", "texture"}
  /\ Acquired(3) = {"init", "library"}
  /\ Acquired(4) = {"info", "decoder", "block"}
  /\ Acquired(5) = {"hardware"}
  /\ Acquired(6) = {}
BY DEF Acquired, First, Acquires

\* A part of a stage's allocations is among all of them.
LEMMA PartOfStage ==
  ASSUME NEW s \in Stage, NEW k \in 0 .. Len(Acquires[s])
  PROVE  First(s, k) \subseteq Resource
<1>1. 1 .. k \subseteq 1 .. Len(Acquires[s])
  BY DEF Acquires
<1>2. First(s, k) \subseteq Acquired(s)
  BY <1>1 DEF First, Acquired
<1>. QED
  BY <1>2 DEF Resource

\* And so are all of them.
LEMMA ResourceOfStage == ASSUME NEW s \in Stage PROVE Acquired(s) \subseteq Resource
BY DEF Resource

\* The flags stay flags.
LEMMA FlagsStep == ASSUME Flags, Next PROVE Flags'
<1>1. CASE LibStep \/ SetupRefused \/ \E c \in Caller : StopStream(c)
  BY <1>1, Zenon DEF Flags, LibStep, SetupRefused, SetupBegin, SetupStage, SetupDone, SetupFails,
     JoinDecoder, StopPacer, CleanupLock, FreeStages, DestroyMutex, ClearReady, StopStream,
     CleanupBegin, Quarantine, Return, ResetCounters, screen, vars, lifecycle
<1>2. CASE Start \/ \E c \in Caller : Stop(c) \/ CallStep(c)
  BY <1>2, Zenon DEF Flags, Start, Stop, CallStep, CallLock, CallSet, CallRequest, CallFrame, lifecycle
<1>3. CASE PacerStep
  BY <1>3, Zenon DEF Flags, PacerStep, PacerInit, PacerWake, PacerLook, PacerSkip, PacerDraw,
     PacerDrawn, DrawBegin, DrawEnd, DrawFrame, lifecycle
<1>4. CASE DecodeUnit \/ DecodeStep
  BY <1>4, Zenon DEF Flags, DecodeUnit, DecodeStep, DecodeLock, DecodeUnshown, DecodeShown,
     DecodeDrop, DecodeDrawn, DrawBegin, DrawEnd, DrawFrame, lifecycle
<1>5. CASE MenuChange \/ RequestRedraw
  BY <1>5, Zenon DEF Flags, MenuChange, RequestRedraw, lifecycle
<1>. QED
  BY <1>1, <1>2, <1>3, <1>4, <1>5 DEF Next

-----------------------------------------------------------------------------
(* Setup and cleanup.                                                      *)

\* Setup and cleanup keep the types.
LEMMA LifecycleTyped ==
  ASSUME IInv, Flags', LibStep \/ \E c \in Caller : StopStream(c)
  PROVE  TypeOK'
<1>1. CASE SetupBegin
  BY <1>1 DEF IInv, TypeOK, SetupBegin, ResetCounters
<1>2. CASE SetupStage
  <2>1. status + 1 \in Stage
    BY <1>2 DEF IInv, TypeOK, SetupStage
  <2>2. held' \subseteq Resource
    BY <1>2, <2>1, ResourceOfStage DEF IInv, TypeOK, SetupStage
  <2>. QED
    BY <1>2, <2>1, <2>2 DEF IInv, TypeOK, SetupStage, screen
<1>3. CASE SetupFails
  <2>1. status + 1 \in Stage
    BY <1>3 DEF IInv, TypeOK, SetupFails
  <2>2. held' \subseteq Resource
    BY <1>3, <2>1, PartOfStage DEF IInv, TypeOK, SetupFails
  <2>. QED
    BY <1>3, <2>2 DEF IInv, TypeOK, SetupFails, CleanupBegin, screen
<1>4. CASE SetupDone \/ JoinDecoder \/ \E c \in Caller : StopStream(c)
  BY <1>4 DEF IInv, TypeOK, SetupDone, JoinDecoder, CleanupBegin, StopStream, screen
<1>5. CASE StopPacer
  BY <1>5 DEF IInv, TypeOK, StopPacer, Quarantine, Return, screen
<1>6. CASE CleanupLock
  BY <1>6 DEF IInv, TypeOK, StagesInPlace, CleanupLock, Quarantine, Return, screen
<1>7. CASE FreeStages
  BY <1>7 DEF IInv, TypeOK, FreeStages, ResetCounters
<1>8. CASE DestroyMutex \/ ClearReady
  BY <1>8 DEF IInv, TypeOK, DestroyMutex, ClearReady, Return, screen
<1>. QED
  BY <1>1, <1>2, <1>3, <1>4, <1>5, <1>6, <1>7, <1>8 DEF LibStep

\* The other threads keep the types.
LEMMA ThreadsTyped ==
  ASSUME IInv, Flags',
         Start \/ PacerStep \/ DecodeUnit \/ DecodeStep \/ MenuChange \/ RequestRedraw
           \/ \E c \in Caller : Stop(c) \/ CallStep(c)
  PROVE  TypeOK'
<1>1. CASE Start \/ \E c \in Caller : Stop(c)
  BY <1>1 DEF IInv, TypeOK, Start, Stop, At, CallFrame, lifecycle
<1>2. ASSUME NEW c \in Caller, CallStep(c)
      PROVE  TypeOK'
  <2>1. CASE CallLock(c) \/ CallSet(c)
    BY <2>1 DEF IInv, TypeOK, CallLock, CallSet, At, CallFrame, lifecycle
  <2>2. CASE CallRequest(c)
    BY <2>2 DEF IInv, TypeOK, CallersInPlace, RequestsInPlace, ToCome, CallRequest, At,
                CallFrame, lifecycle
  <2>. QED
    BY <1>2, <2>1, <2>2 DEF CallStep
<1>3. CASE PacerStep
  BY <1>3 DEF IInv, TypeOK, PacerStep, PacerInit, PacerWake, PacerLook, PacerSkip, PacerDraw,
              PacerDrawn, DrawBegin, DrawEnd, DrawFrame, lifecycle
<1>4. CASE DecodeUnit \/ DecodeStep
  BY <1>4 DEF IInv, TypeOK, DropInPlace, DecodeUnit, DecodeStep, DecodeLock, DecodeUnshown,
              DecodeShown, DecodeDrop, DecodeDrawn, DrawBegin, DrawEnd, DrawFrame, lifecycle
<1>5. CASE MenuChange \/ RequestRedraw
  BY <1>5 DEF IInv, TypeOK, RequestsInPlace, ToCome, MenuChange, RequestRedraw, lifecycle
<1>. QED
  BY <1>1, <1>2, <1>3, <1>4, <1>5

-----------------------------------------------------------------------------
(* Who can be where.                                                       *)

\* Setup and cleanup: the stages, the threads and the mutex.
LEMMA LifecycleInPlace ==
  ASSUME IInv, LibStep \/ \E c \in Caller : StopStream(c)
  PROVE  StagesInPlace' /\ CallersInPlace' /\ WatchdogInPlace' /\ DecoderInPlace' /\ MutexInPlace'
<1>. USE DEF IInv, TypeOK, StagesInPlace, CallersInPlace, WatchdogInPlace, DecoderInPlace,
             MutexInPlace, screen
<1>1. CASE SetupBegin
  BY <1>1 DEF SetupBegin, ResetCounters
<1>2. CASE SetupStage \/ SetupDone
  BY <1>2 DEF SetupStage, SetupDone
<1>3. CASE SetupFails \/ JoinDecoder
  BY <1>3 DEF SetupFails, JoinDecoder, CleanupBegin
<1>4. CASE \E c \in Caller : StopStream(c)
  BY <1>4 DEF StopStream
<1>5. CASE StopPacer
  <2>1. CASE Quarantine /\ lib = "pacer" /\ status = Watchdog
    BY <2>1 DEF Quarantine, Return
  <2>2. CASE ~Quarantine
    <3>1. /\ status' = IF status = Watchdog THEN status - 1 ELSE status
          /\ pacer' = "none"
          /\ lib = "pacer" /\ lib' = "lock"
          /\ status = Watchdog => pacer = "ended"
          /\ UNCHANGED <<runner, mutex, ready, blocked, decode, call, begun>>
      BY <1>5, <2>2 DEF StopPacer
    <3>2. StagesInPlace' /\ WatchdogInPlace' /\ DecoderInPlace' /\ CallersInPlace'
      BY <3>1
    <3>3. MutexInPlace'
      BY <3>1
    <3>. QED
      BY <3>2, <3>3
  <2>. QED
    BY <1>5, <2>1, <2>2 DEF StopPacer
<1>6. CASE CleanupLock
  BY <1>6 DEF CleanupLock, Quarantine, Return
<1>7. CASE FreeStages
  BY <1>7 DEF FreeStages, ResetCounters
<1>8. CASE DestroyMutex
  BY <1>8 DEF DestroyMutex, Return
<1>9. CASE ClearReady
  <2>0. status' = 0
    BY <1>9 DEF ClearReady
  <2>1. StagesInPlace' /\ WatchdogInPlace' /\ DecoderInPlace'
    BY <1>9, <2>0 DEF ClearReady, Return
  <2>2. CallersInPlace'
    BY <1>9 DEF ClearReady, Return
  <2>3. MutexInPlace'
    BY <1>9 DEF ClearReady, Return
  <2>. QED
    BY <2>1, <2>2, <2>3
<1>. QED
  BY <1>1, <1>2, <1>3, <1>4, <1>5, <1>6, <1>7, <1>8, <1>9 DEF LibStep

\* The callers of vitavideo_start and vitavideo_stop.
LEMMA CallsInPlace ==
  ASSUME IInv, Start \/ \E c \in Caller : Stop(c) \/ CallStep(c)
  PROVE  StagesInPlace' /\ CallersInPlace' /\ WatchdogInPlace' /\ DecoderInPlace' /\ MutexInPlace'
<1>. USE DEF IInv, TypeOK, StagesInPlace, CallersInPlace, WatchdogInPlace, DecoderInPlace,
             MutexInPlace, CallFrame, lifecycle, At
<1>1. CASE Start
  BY <1>1 DEF Start
<1>2. ASSUME NEW c \in Caller, Stop(c)
      PROVE  StagesInPlace' /\ CallersInPlace' /\ WatchdogInPlace' /\ DecoderInPlace' /\ MutexInPlace'
  BY <1>2 DEF Stop
<1>3. ASSUME NEW c \in Caller, CallLock(c)
      PROVE  StagesInPlace' /\ CallersInPlace' /\ WatchdogInPlace' /\ DecoderInPlace' /\ MutexInPlace'
  BY <1>3 DEF CallLock
<1>4. ASSUME NEW c \in Caller, CallSet(c)
      PROVE  StagesInPlace' /\ CallersInPlace' /\ WatchdogInPlace' /\ DecoderInPlace' /\ MutexInPlace'
  BY <1>4 DEF CallSet
<1>5. ASSUME NEW c \in Caller, CallRequest(c)
      PROVE  StagesInPlace' /\ CallersInPlace' /\ WatchdogInPlace' /\ DecoderInPlace' /\ MutexInPlace'
  BY <1>5 DEF CallRequest
<1>. QED
  BY <1>1, <1>2, <1>3, <1>4, <1>5 DEF CallStep

\* The watchdog, the decoder and the menu.
LEMMA ThreadsInPlace ==
  ASSUME IInv, PacerStep \/ DecodeUnit \/ DecodeStep \/ MenuChange \/ RequestRedraw
  PROVE  StagesInPlace' /\ CallersInPlace' /\ WatchdogInPlace' /\ DecoderInPlace' /\ MutexInPlace'
<1>. USE DEF IInv, TypeOK, StagesInPlace, CallersInPlace, WatchdogInPlace, DecoderInPlace,
             MutexInPlace, DrawFrame, lifecycle
<1>1. CASE PacerInit \/ PacerWake \/ PacerLook \/ PacerSkip
  BY <1>1 DEF PacerInit, PacerWake, PacerLook, PacerSkip
<1>2. CASE PacerDraw \/ PacerDrawn
  BY <1>2 DEF PacerDraw, PacerDrawn, DrawBegin, DrawEnd
<1>3. CASE DecodeUnit \/ DecodeLock \/ DecodeUnshown
  BY <1>3 DEF DecodeUnit, DecodeLock, DecodeUnshown
<1>4. CASE DecodeShown \/ DecodeDrop \/ DecodeDrawn
  BY <1>4 DEF DecodeShown, DecodeDrop, DecodeDrawn, DrawBegin, DrawEnd
<1>5. CASE MenuChange \/ RequestRedraw
  BY <1>5 DEF MenuChange, RequestRedraw
<1>. QED
  BY <1>1, <1>2, <1>3, <1>4, <1>5 DEF PacerStep, DecodeStep

-----------------------------------------------------------------------------
(* What is allocated.                                                      *)

\* Only setup and cleanup allocate and free.
LEMMA HoldingsStep ==
  ASSUME IInv, Next
  PROVE  Allocated' /\ CompleteInPlace'
<1>. USE DEF IInv, TypeOK, StagesInPlace, Allocated, CompleteInPlace, screen
<1>1. CASE SetupBegin
  BY <1>1 DEF SetupBegin, ResetCounters
<1>2. CASE SetupStage
  <2>1. status + 1 \in 1 .. 6
    BY <1>2 DEF SetupStage
  <2>. QED
    BY <1>2, <2>1, Stages DEF SetupStage
<1>3. CASE SetupFails
  BY <1>3 DEF SetupFails, CleanupBegin
<1>4. CASE SetupDone \/ JoinDecoder \/ \E c \in Caller : StopStream(c)
  BY <1>4 DEF SetupDone, JoinDecoder, CleanupBegin, StopStream
<1>5. CASE StopPacer
  BY <1>5 DEF StopPacer, Quarantine, Return
<1>6. CASE CleanupLock
  BY <1>6 DEF CleanupLock, Quarantine, Return
<1>7. CASE FreeStages
  <2>1. complete => held' = {}
    BY <1>7, Stages DEF FreeStages, Resource
  <2>. QED
    BY <1>7, <2>1 DEF FreeStages, ResetCounters
<1>8. CASE DestroyMutex \/ ClearReady
  BY <1>8 DEF DestroyMutex, ClearReady, Return
<1>9. CASE SetupRefused
  BY <1>9 DEF SetupRefused, vars, lifecycle
<1>10. CASE Start \/ \E c \in Caller : Stop(c) \/ CallStep(c)
  BY <1>10 DEF Start, Stop, CallStep, CallLock, CallSet, CallRequest, CallFrame, lifecycle
<1>11. CASE PacerStep \/ DecodeUnit \/ DecodeStep
  BY <1>11 DEF PacerStep, PacerInit, PacerWake, PacerLook, PacerSkip, PacerDraw, PacerDrawn,
     DecodeUnit, DecodeStep, DecodeLock, DecodeUnshown, DecodeShown, DecodeDrop, DecodeDrawn,
     DrawFrame, lifecycle
<1>12. CASE MenuChange \/ RequestRedraw
  BY <1>12 DEF MenuChange, RequestRedraw, lifecycle
<1>. QED
  BY <1>1, <1>2, <1>3, <1>4, <1>5, <1>6, <1>7, <1>8, <1>9, <1>10, <1>11, <1>12 DEF Next, LibStep

-----------------------------------------------------------------------------
(* The counters and the screen.                                            *)

\* Setup and cleanup start counting from zero.
LEMMA LifecycleCounts ==
  ASSUME IInv, LibStep \/ \E c \in Caller : StopStream(c)
  PROVE  DropInPlace' /\ RequestsInPlace' /\ GenerationsInPlace' /\ ScreenInPlace' /\ ActiveInPlace'
<1>. USE DEF IInv, TypeOK, StagesInPlace, CallersInPlace, WatchdogInPlace, DecoderInPlace,
             DropInPlace, RequestsInPlace, ToCome, GenerationsInPlace, ScreenInPlace,
             ActiveInPlace, screen
<1>1. CASE SetupBegin
  BY <1>1 DEF SetupBegin, ResetCounters
<1>2. CASE SetupStage \/ SetupDone
  BY <1>2 DEF SetupStage, SetupDone
<1>3. CASE SetupFails \/ JoinDecoder
  BY <1>3 DEF SetupFails, JoinDecoder, CleanupBegin
<1>4. CASE \E c \in Caller : StopStream(c)
  BY <1>4 DEF StopStream
<1>5. CASE StopPacer
  BY <1>5 DEF StopPacer, Quarantine, Return
<1>6. CASE CleanupLock
  BY <1>6 DEF CleanupLock, Quarantine, Return
<1>7. CASE FreeStages
  BY <1>7 DEF FreeStages, ResetCounters
<1>8. CASE DestroyMutex \/ ClearReady
  BY <1>8 DEF DestroyMutex, ClearReady, Return
<1>. QED
  BY <1>1, <1>2, <1>3, <1>4, <1>5, <1>6, <1>7, <1>8 DEF LibStep

\* A start of the outputs asks for one redraw.
LEMMA CallsCount ==
  ASSUME IInv, Start \/ \E c \in Caller : Stop(c) \/ CallStep(c)
  PROVE  DropInPlace' /\ RequestsInPlace' /\ GenerationsInPlace' /\ ScreenInPlace' /\ ActiveInPlace'
<1>. USE DEF IInv, TypeOK, StagesInPlace, CallersInPlace, WatchdogInPlace, DecoderInPlace,
             MutexInPlace, DropInPlace, RequestsInPlace, ToCome, GenerationsInPlace,
             ScreenInPlace, ActiveInPlace, CallFrame, lifecycle, At
<1>1. CASE Start
  BY <1>1 DEF Start
<1>2. ASSUME NEW c \in Caller, Stop(c)
      PROVE  DropInPlace' /\ RequestsInPlace' /\ GenerationsInPlace' /\ ScreenInPlace' /\ ActiveInPlace'
  BY <1>2 DEF Stop
<1>3. ASSUME NEW c \in Caller, CallLock(c)
      PROVE  DropInPlace' /\ RequestsInPlace' /\ GenerationsInPlace' /\ ScreenInPlace' /\ ActiveInPlace'
  BY <1>3 DEF CallLock
<1>4. ASSUME NEW c \in Caller, CallSet(c)
      PROVE  DropInPlace' /\ RequestsInPlace' /\ GenerationsInPlace' /\ ScreenInPlace' /\ ActiveInPlace'
  BY <1>4 DEF CallSet
<1>5. ASSUME NEW c \in Caller, CallRequest(c)
      PROVE  DropInPlace' /\ RequestsInPlace' /\ GenerationsInPlace' /\ ScreenInPlace' /\ ActiveInPlace'
  BY <1>5 DEF CallRequest
<1>. QED
  BY <1>1, <1>2, <1>3, <1>4, <1>5 DEF CallStep

\* A draw publishes the generation it began with, and changes come after that.
LEMMA ThreadsCount ==
  ASSUME IInv, PacerStep \/ DecodeUnit \/ DecodeStep \/ MenuChange \/ RequestRedraw
  PROVE  DropInPlace' /\ RequestsInPlace' /\ GenerationsInPlace' /\ ScreenInPlace' /\ ActiveInPlace'
<1>. USE DEF IInv, TypeOK, StagesInPlace, WatchdogInPlace, DecoderInPlace,
             MutexInPlace, DropInPlace, RequestsInPlace, ToCome, GenerationsInPlace,
             ScreenInPlace, ActiveInPlace, DrawFrame, lifecycle
<1>1. CASE PacerInit \/ PacerWake \/ PacerLook \/ PacerSkip
  BY <1>1 DEF PacerInit, PacerWake, PacerLook, PacerSkip
<1>2. CASE PacerDraw \/ PacerDrawn
  BY <1>2 DEF PacerDraw, PacerDrawn, DrawBegin, DrawEnd
<1>3. CASE DecodeUnit \/ DecodeLock \/ DecodeUnshown
  BY <1>3 DEF DecodeUnit, DecodeLock, DecodeUnshown
<1>4. CASE DecodeShown \/ DecodeDrop \/ DecodeDrawn
  BY <1>4 DEF DecodeShown, DecodeDrop, DecodeDrawn, DrawBegin, DrawEnd
<1>5. CASE MenuChange
  BY <1>5 DEF MenuChange
<1>6. CASE RequestRedraw
  BY <1>6 DEF RequestRedraw
<1>. QED
  BY <1>1, <1>2, <1>3, <1>4, <1>5, <1>6 DEF PacerStep, DecodeStep

-----------------------------------------------------------------------------
(* The theorems.                                                           *)

\* Every step keeps the invariant.
LEMMA StepInv == ASSUME IInv, [Next]_vars PROVE IInv'
<1>1. CASE UNCHANGED vars
  <2>1. TypeOK'
    BY <1>1 DEF vars, lifecycle, screen, IInv, TypeOK, Flags
  <2>2. StagesInPlace' /\ CallersInPlace' /\ WatchdogInPlace' /\ DecoderInPlace' /\ MutexInPlace'
    BY <1>1 DEF vars, lifecycle, screen, IInv, StagesInPlace, CallersInPlace, WatchdogInPlace,
                DecoderInPlace, MutexInPlace
  <2>3. Allocated' /\ CompleteInPlace'
    BY <1>1 DEF vars, lifecycle, screen, IInv, Allocated, CompleteInPlace
  <2>4. DropInPlace' /\ RequestsInPlace' /\ GenerationsInPlace' /\ ScreenInPlace' /\ ActiveInPlace'
    BY <1>1 DEF vars, lifecycle, screen, IInv, DropInPlace, RequestsInPlace, ToCome,
                GenerationsInPlace, ScreenInPlace, ActiveInPlace
  <2>. QED
    BY <2>1, <2>2, <2>3, <2>4 DEF IInv
<1>2. CASE Next /\ ~UNCHANGED vars
  <2>1. Flags'
    BY <1>2, FlagsStep DEF IInv, TypeOK
  <2>2. CASE LibStep \/ \E c \in Caller : StopStream(c)
    BY <1>2, <2>1, <2>2, LifecycleTyped, LifecycleInPlace, HoldingsStep, LifecycleCounts DEF IInv
  <2>3. CASE Start \/ \E c \in Caller : Stop(c) \/ CallStep(c)
    BY <1>2, <2>1, <2>3, ThreadsTyped, CallsInPlace, HoldingsStep, CallsCount DEF IInv
  <2>4. CASE PacerStep \/ DecodeUnit \/ DecodeStep \/ MenuChange \/ RequestRedraw
    BY <1>2, <2>1, <2>4, ThreadsTyped, ThreadsInPlace, HoldingsStep, ThreadsCount DEF IInv
  <2>. QED
    BY <1>2, <2>2, <2>3, <2>4 DEF Next, SetupRefused
<1>. QED
  BY <1>1, <1>2

\* The invariant holds in every behaviour of the pipeline.
THEOREM Invariance == Spec => []IInv
<1>1. Init => IInv
  BY InitInv
<1>2. IInv /\ [Next]_vars => IInv'
  BY StepInv
<1>. QED
  BY <1>1, <1>2, PTL DEF Spec

\* Types: among others, need_drop is never decremented at zero (DecodeDrop).
THEOREM Typed == Spec => []TypeOK
<1>1. IInv => TypeOK
  BY DEF IInv
<1>. QED
  BY <1>1, Invariance, PTL

\* Nothing that is freed is used, whatever hangs and whoever ends the stream.
THEOREM NothingFreedIsUsed == Spec => []UsesOnlyHeld
<1>1. IInv => UsesOnlyHeld
  <2> SUFFICES ASSUME IInv PROVE UsesOnlyHeld
    OBVIOUS
  <2>1. pacer # "none" \/ decode # "idle" => status = Watchdog
    BY DEF IInv, WatchdogInPlace, DecoderInPlace, StagesInPlace
  <2>2. InDraw => pacer # "none" \/ decode # "idle"
    BY DEF InDraw
  <2>3. status = Watchdog => mutex # "none"
    BY DEF IInv, MutexInPlace, StagesInPlace
  <2>4. status = Watchdog => DecodeUses \subseteq held
    BY DEF IInv, Allocated, DecodeUses
  <2>. QED
    BY <2>1, <2>2, <2>3, <2>4 DEF UsesOnlyHeld, DecodeUses, IInv, DecoderInPlace
<1>. QED
  BY <1>1, Invariance, PTL

\* A complete stream leaves nothing allocated unless it is quarantined.
THEOREM NothingLeft == Spec => []FreedAfterStream
<1>1. IInv => FreedAfterStream
  BY DEF IInv, CompleteInPlace, FreedAfterStream
<1>. QED
  BY <1>1, Invariance, PTL

\* No change of the menu is taken for drawn by a draw that began before it.
THEOREM NothingUnseen == Spec => []NoStaleScreen
<1>1. IInv => NoStaleScreen
  BY DEF IInv, TypeOK, ScreenInPlace, NoStaleScreen, Pending, GenerationsInPlace
<1>. QED
  BY <1>1, Invariance, PTL

-----------------------------------------------------------------------------
(* Why a pipeline is quarantined.                                          *)

\* Outputs are started and stopped only while a stage is up.  The code does not see
\* to this: vitavideo_stop may be called by a callback while the cleanup runs.
CallsWhileUp == status = 0 => \A c \in Caller : call[c] = "idle"

Cause == lib = "idle" /\ blocked => status # 0

\* When no caller holds the mutex, the cleanup finds it free once the watchdog is gone.
LEMMA NobodyHolds ==
  ASSUME IInv, CallsWhileUp, status = 0, lib \in {"lock", "destroy"}
  PROVE  mutex = "free"
<1>1. pacer = "none" /\ decode = "idle"
  BY DEF IInv, WatchdogInPlace, DecoderInPlace
<1>2. mutex \notin {"none", "pacer", "decoder"}
  BY <1>1 DEF IInv, MutexInPlace
<1>3. \A c \in Caller : mutex # c
  BY DEF IInv, MutexInPlace, CallsWhileUp
<1>. QED
  BY <1>2, <1>3 DEF IInv, TypeOK

\* Nothing but a wait that ran out for something still allocated quarantines.
LEMMA CauseStep ==
  ASSUME IInv, CallsWhileUp, Cause, [Next]_vars
  PROVE  Cause'
<1>. USE DEF Cause
<1>1. CASE SetupBegin \/ SetupStage \/ SetupDone \/ SetupFails \/ JoinDecoder
           \/ \E c \in Caller : StopStream(c)
  BY <1>1 DEF SetupBegin, SetupStage, SetupDone, SetupFails, JoinDecoder, StopStream, CleanupBegin
<1>2. CASE StopPacer
  BY <1>2 DEF StopPacer, Quarantine
<1>3. CASE CleanupLock
  BY <1>3, NobodyHolds DEF CleanupLock, Quarantine
<1>4. CASE FreeStages \/ ClearReady
  BY <1>4 DEF FreeStages, ClearReady
<1>5. CASE DestroyMutex
  <2>1. status = 0 /\ lib = "destroy"
    BY <1>5 DEF DestroyMutex, IInv, StagesInPlace
  <2>2. mutex = "free"
    BY <2>1, NobodyHolds
  <2>. QED
    BY <1>5, <2>2 DEF DestroyMutex
<1>6. ASSUME NEW c \in Caller, CallLock(c)
      PROVE  Cause'
  <2>1. status # 0 /\ status' = status
    BY <1>6 DEF CallLock, CallFrame, lifecycle, CallsWhileUp
  <2>. QED
    BY <2>1
<1>7. CASE Start \/ \E c \in Caller : Stop(c) \/ CallSet(c) \/ CallRequest(c)
  BY <1>7 DEF Start, Stop, CallSet, CallRequest, CallFrame, lifecycle
<1>8. CASE PacerStep \/ DecodeUnit \/ DecodeStep
  BY <1>8 DEF PacerStep, PacerInit, PacerWake, PacerLook, PacerSkip, PacerDraw, PacerDrawn,
     DecodeUnit, DecodeStep, DecodeLock, DecodeUnshown, DecodeShown, DecodeDrop, DecodeDrawn,
     DrawFrame, lifecycle
<1>9. CASE MenuChange \/ RequestRedraw \/ SetupRefused \/ UNCHANGED vars
  BY <1>9 DEF MenuChange, RequestRedraw, SetupRefused, vars, lifecycle
<1>. QED
  BY <1>1, <1>2, <1>3, <1>4, <1>5, <1>6, <1>7, <1>8, <1>9 DEF Next, LibStep, CallStep

\* vita.c:343: a quarantine is for what is still allocated, unless outputs are started
\* or stopped while nothing is up: the cause of what the run video_lockout finds.
THEOREM OnlyForCause == Spec /\ []CallsWhileUp => []QuarantinedForCause
<1>1. Init => Cause
  BY DEF Init, Cause
<1>2. IInv /\ CallsWhileUp /\ Cause /\ [Next]_vars => Cause'
  BY CauseStep
<1>3. Cause => QuarantinedForCause
  BY DEF Cause, QuarantinedForCause
<1>. QED
  BY <1>1, <1>2, <1>3, Invariance, PTL DEF Spec
=============================================================================
