----------------------------- MODULE MapPromise -----------------------------
(***************************************************************************)
(* What the saved controller map promises to the person who made it, with   *)
(* the journal of files, the settings and the menus left out: a register    *)
(* that is written as a whole or not at all, and says truly which.          *)
(*                                                                         *)
(* The mapper's screen shows the saved map, and a change that succeeds is   *)
(* the saved map from then on; one that fails has changed nothing, and one  *)
(* that the end of the program cuts off has done the one or the other.  A   *)
(* stream plays with the hardware's map or with the saved one.              *)
(***************************************************************************)
CONSTANTS Map, Default, None

VARIABLES
  saved,   \* the person's map, None before the first one
  shown,   \* what the mapper's screen shows, None when it is closed
  asked,   \* the map whose saving is under way, or None
  played,  \* the map of the stream that runs, or None
  lost     \* a complete map was taken for a missing one: no promise from then on

vars == <<saved, shown, asked, played, lost>>

Init == saved = None /\ shown = None /\ asked = None /\ played = None /\ lost = FALSE

\* The first map: one that was there, or the built-in one that a menu saves.
Adopt == /\ saved = None /\ shown = None /\ played = None
         /\ saved' \in Map
         /\ UNCHANGED <<shown, asked, played, lost>>

Open == /\ saved # None /\ shown = None /\ played = None
        /\ shown' = saved
        /\ UNCHANGED <<saved, asked, played, lost>>

Leave == /\ asked = None
         /\ shown' = None
         /\ UNCHANGED <<saved, asked, played, lost>>

\* A binding is changed.
Ask == /\ shown # None /\ asked = None
       /\ asked' \in Map \ {shown}
       /\ UNCHANGED <<saved, shown, played, lost>>

Commit == /\ asked # None /\ saved = shown
          /\ saved' = asked
          /\ UNCHANGED <<shown, asked, played, lost>>

Succeed == /\ asked # None /\ saved = asked
           /\ shown' = asked /\ asked' = None
           /\ UNCHANGED <<saved, played, lost>>

Fail == /\ asked # None /\ saved = shown
        /\ asked' = None
        /\ UNCHANGED <<saved, shown, played, lost>>

Play == /\ shown = None
        /\ played' \in {Default, saved}
        /\ UNCHANGED <<saved, shown, asked, lost>>

EndStream == played' = None /\ UNCHANGED <<saved, shown, asked, lost>>

\* The program ends: what is saved stays.
Crash == /\ shown' = None /\ asked' = None /\ played' = None
         /\ UNCHANGED <<saved, lost>>

Lose == /\ lost' = TRUE
        /\ saved' = None /\ shown' = None /\ asked' = None /\ played' = None

Next == \/ Adopt \/ Open \/ Leave \/ Ask \/ Commit \/ Succeed \/ Fail \/ Play \/ EndStream
        \/ Crash \/ Lose

Spec == Init /\ [][Next]_vars
=============================================================================
