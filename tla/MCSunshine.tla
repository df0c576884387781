----------------------------- MODULE MCSunshine -----------------------------
(***************************************************************************)
(* Instances of SunshineIntegration: the scenes' state spaces add up.       *)
(***************************************************************************)
EXTENDS SunshineIntegration

Quiet == [dirs |-> {"d1"}, keys |-> {}, modes |-> {"native"}, paths |-> {"new"}, ids |-> {"id1"},
          commands |-> {}, helpers |-> {}, touches |-> {}, legacy |-> FALSE, kills |-> TRUE]

SetUp == [Quiet EXCEPT !.commands = {"configure", "cleanup"}]

\* Keys: configured in one mode and another, edited, removed.
KeyScene == [SetUp EXCEPT !.keys = {"dd"}, !.modes = {"native", "app"}, !.touches = {"keys"},
             !.kills = FALSE]

\* A display whose id changes, with a key that one mode leaves alone.
IdScene == [SetUp EXCEPT !.keys = {"output"}, !.ids = Id, !.modes = {"native", "app"}]

\* Hooks and the application, with what an earlier version left.
LegacyScene == [SetUp EXCEPT !.keys = {"controller"}, !.modes = {"native", "app"},
                !.paths = Path, !.legacy = TRUE, !.touches = {"backup"}]

\* The person edits applications, ours as well.
AppScene == [SetUp EXCEPT !.modes = {"native", "app"}, !.paths = Path, !.legacy = TRUE,
             !.touches = {"apps"}, !.kills = FALSE]

\* Two configuration directories, removed one after the other.
TwoDirs == [SetUp EXCEPT !.dirs = {"d1", "d2"}, !.keys = {"controller"}, !.modes = {"app"}]

\* The service under two processes.
ServiceScene == [Quiet EXCEPT !.commands = Served, !.helpers = Served]

\* The removal beside the rescue action.
UninstallScene == [SetUp EXCEPT !.modes = {"apollo"}, !.helpers = {"rescue"},
                   !.touches = {"apps"}, !.kills = FALSE]

MCScenes == {KeyScene, IdScene, LegacyScene, AppScene, TwoDirs, ServiceScene, UninstallScene}
=============================================================================
