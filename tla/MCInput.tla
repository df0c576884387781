------------------------------- MODULE MCInput -------------------------------
(***************************************************************************)
(* Instances of Input.  Each scene is a person who uses part of the         *)
(* controls, so that the scenes' state spaces add up instead of multiplying *)
(***************************************************************************)
EXTENDS Input

NoZones == [z \in Zone |-> "none"]

\* Chords and the menu.
ChordScene ==
  [buttons |-> {"START", "L1", "LEFT", "CROSS"}, zones |-> NoZones, modes |-> {0},
   ps |-> {"system"}, fingers |-> 0, sprint |-> FALSE]

\* The PS button in its modes, changed from the menu and between streams.
PsScene ==
  [buttons |-> {"PS", "CROSS"},
   zones |-> [NoZones EXCEPT ![2] = "menu"], modes |-> {3},
   ps |-> {"system", "immediate", "safe"}, fingers |-> 1, sprint |-> FALSE]

\* Every touch mode, with a corner that opens the menu.
TouchScene ==
  [buttons |-> {"CROSS"}, zones |-> [NoZones EXCEPT ![1] = "menu"], modes |-> TouchMode,
   ps |-> {"local"}, fingers |-> 3, sprint |-> FALSE]

\* A key, a pad button, the keyboard and the menu in the corners.
ZoneScene ==
  [buttons |-> {"CROSS"},
   zones |-> <<"key", "keyboard", "pad", "menu">>, modes |-> {1},
   ps |-> {"system"}, fingers |-> 2, sprint |-> FALSE]

\* The sprint helper, and the PS button that only a double tap passes on.
SprintScene ==
  [buttons |-> {"PS"}, zones |-> NoZones, modes |-> {1},
   ps |-> {"local"}, fingers |-> 0, sprint |-> TRUE]

MCScenes == {ChordScene, PsScene, TouchScene, ZoneScene, SprintScene}
=============================================================================
