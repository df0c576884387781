--------------------------- MODULE DisplayPromise ---------------------------
(***************************************************************************)
(* What the display-session transaction of the host companion promises to  *)
(* the person in front of the PC, with the processes, the lock and the      *)
(* file writes left out.                                                   *)
(*                                                                         *)
(* physical is the set of physical displays that are switched on.  owed    *)
(* holds the layout the companion owes the user, or is empty.  Physical    *)
(* displays change hands only while a layout is owed, what is owed is      *)
(* exactly the layout that was found, and a debt ends by being paid.       *)
(***************************************************************************)
CONSTANT Physical   \* the physical displays of the PC

VARIABLES physical, owed

vars == <<physical, owed>>

Init == /\ physical \in (SUBSET Physical) \ {{}}
        /\ owed = {}

\* A transaction opens: the layout it found is owed.
Owe == /\ owed = {}
       /\ owed' = {physical}
       /\ UNCHANGED physical

\* While something is owed the physical displays may go away and come back.
Rearrange == /\ owed # {}
             /\ physical' \in SUBSET Physical
             /\ UNCHANGED owed

\* The debt is cancelled only when the user's displays are lit as they were.
Settle == /\ physical \in owed
          /\ owed' = {}
          /\ UNCHANGED physical

\* The user picks another layout in Windows; some physical display stays on.
UserArranges == /\ owed = {}
                /\ physical' \in (SUBSET Physical) \ {{}}
                /\ UNCHANGED owed

Next == Owe \/ Rearrange \/ Settle \/ UserArranges

Spec == Init /\ [][Next]_vars
=============================================================================
