--------------------------- MODULE DisplaySession ---------------------------
(***************************************************************************)
(* The manual display transaction of the Windows host companion: `session  *)
(* start|test|mode|stop|recover`, the driver verification that borrows the *)
(* same recovery record, `display disable-virtual`, and the rescue action   *)
(* (hotkey F11, `emergency recover-display`, `session recover-upgrade`,     *)
(* `uninstall prepare`).                                                   *)
(*                                                                         *)
(* Every command is an operating-system process.  A step of a process is    *)
(* one access to what processes share: the Windows display topology, the   *)
(* recovery record on disk, and the lock file.  A process can be killed     *)
(* between any two steps; every call into Windows can fail.                *)
(***************************************************************************)
EXTENDS Naturals

CONSTANTS
  Procs,        \* host processes that may run at the same time
  NoProc,       \* holder of the lock file when nobody has it open
  Physical,     \* physical displays
  Vdd,          \* the managed virtual display
  Commands,     \* the commands users, hooks and tasks may issue
  Attempts,     \* activation attempts (20 in StartCore, 40 in PrimeNativeMode)
  MaxCommands,  \* bound: commands other than stop and rescue
  MaxFaults,    \* bound: failing calls into Windows
  MaxCrashes    \* bound: killed processes and reboots

Displays == Physical \union {Vdd}

\* "primed" is a prime command whose native mode has been verified.
Command == {"start", "test", "prime", "primed", "stop", "mode", "disable", "rescue"}

ASSUME SessionAssumption ==
  /\ NoProc \notin Procs
  /\ Vdd \notin Physical
  /\ Physical # {}
  /\ Commands \subseteq Command \ {"primed"}
  /\ Attempts \in Nat \ {0}
  /\ MaxCommands \in Nat /\ MaxFaults \in Nat /\ MaxCrashes \in Nat

VARIABLES
  layout,    \* the active displays (QueryDisplayConfig / SetDisplayConfig)
  record,    \* display-recovery.json: absent, torn (truncated) or saved
  lock,      \* who has session.lock open
  pc,        \* where each process is
  cmd,       \* the command each process runs
  captured,  \* the topology a process has read and still means to use
  tries,     \* activation attempts used
  used,      \* how much of the three bounds is spent
  home       \* history: the physical displays the user last chose

vars == <<layout, record, lock, pc, cmd, captured, tries, used, home>>

Label == {"idle", "lock", "check", "truncate", "write", "prepare", "activate",
          "verify", "mode", "retruncate", "rewrite", "look", "restore", "clear",
          "change", "disable", "switchoff", "physical", "light", "hide", "confirm",
          "discard", "recheck", "reload", "reapply", "relight"}

Layout == (SUBSET Displays) \ {{}}

Absent == [state |-> "absent", layout |-> {}]
Torn == [state |-> "torn", layout |-> {}]
Saved(l) == [state |-> "saved", layout |-> l]

Lit(l) == l \intersect Physical

TypeOK ==
  /\ layout \in Layout
  /\ record \in {Absent, Torn} \union {Saved(l) : l \in Layout}
  /\ lock \in Procs \union {NoProc}
  /\ pc \in [Procs -> Label]
  /\ cmd \in [Procs -> Command \union {"none"}]
  /\ captured \in [Procs -> SUBSET Displays]
  /\ tries \in [Procs -> 0 .. Attempts]
  /\ used \in [commands : 0 .. MaxCommands, faults : 0 .. MaxFaults, crashes : 0 .. MaxCrashes]
  /\ home \in (SUBSET Physical) \ {{}}

Init ==
  /\ layout \in Layout
  /\ Lit(layout) # {}
  /\ home = Lit(layout)
  /\ record = Absent
  /\ lock = NoProc
  /\ pc = [p \in Procs |-> "idle"]
  /\ cmd = [p \in Procs |-> "none"]
  /\ captured = [p \in Procs |-> {}]
  /\ tries = [p \in Procs |-> 0]
  /\ used = [commands |-> 0, faults |-> 0, crashes |-> 0]

-----------------------------------------------------------------------------
(* Control flow shared by the commands.                                    *)

Goto(p, label) == /\ pc' = [pc EXCEPT ![p] = label]
                  /\ UNCHANGED <<cmd, lock, captured, tries>>

\* Where a command enters: only rescue and disable do not open the lock file.
Entry(c) == CASE c = "rescue"  -> "physical"
              [] c = "disable" -> "disable"
              [] c = "none"    -> "idle"
              [] OTHER         -> "lock"

\* Mutant: the lock file stays open when the process has nothing more to do.
FinishLocked(p, next) ==
  /\ lock' = lock
  /\ cmd' = [cmd EXCEPT ![p] = next]
  /\ pc' = [pc EXCEPT ![p] = Entry(next)]
  /\ captured' = [captured EXCEPT ![p] = {}]
  /\ tries' = [tries EXCEPT ![p] = 0]

\* The method returns or throws: `using` closes the lock file, and the process
\* goes on with what follows the method in the same command, if anything.
FinishWith(p, next) ==
  /\ lock' = IF lock = p THEN NoProc ELSE lock
  /\ cmd' = [cmd EXCEPT ![p] = next]
  /\ pc' = [pc EXCEPT ![p] = Entry(next)]
  /\ captured' = [captured EXCEPT ![p] = {}]
  /\ tries' = [tries EXCEPT ![p] = 0]

\* `session test` runs RestoreIfPending in a finally block, and a verified
\* driver has its idle virtual display disabled.
FollowUp(c) == CASE c = "test"   -> "stop"
                 [] c = "primed" -> "disable"
                 [] OTHER        -> "none"

Finish(p) == FinishWith(p, FollowUp(cmd[p]))

\* An exception leaves the command; only the finally block of test still runs.
Throw(p) == FinishWith(p, IF cmd[p] = "test" THEN "stop" ELSE "none")

Fault == /\ used.faults < MaxFaults
         /\ used' = [used EXCEPT !.faults = @ + 1]

Opens(p) == cmd[p] \in {"start", "test", "prime"}

Begin(p, c) ==
  /\ pc[p] = "idle"
  /\ IF c \in {"stop", "rescue"}
     THEN UNCHANGED used
     ELSE /\ used.commands < MaxCommands
          /\ used' = [used EXCEPT !.commands = @ + 1]
  /\ cmd' = [cmd EXCEPT ![p] = c]
  /\ pc' = [pc EXCEPT ![p] = Entry(c)]
  /\ UNCHANGED <<layout, record, lock, captured, tries, home>>

\* Mutant: the lock file is opened for sharing.
ShareLock(p) ==
  /\ pc[p] = "lock"
  /\ lock' = p
  /\ pc' = [pc EXCEPT ![p] = IF Opens(p) THEN "check"
                             ELSE IF cmd[p] = "mode" THEN "change" ELSE "look"]
  /\ UNCHANGED <<layout, record, cmd, captured, tries, used, home>>

\* session.lock is opened without sharing: a second opener gets an exception.
AcquireLock(p) ==
  /\ pc[p] = "lock"
  /\ lock = NoProc
  /\ lock' = p
  /\ pc' = [pc EXCEPT ![p] = IF Opens(p) THEN "check"
                             ELSE IF cmd[p] = "mode" THEN "change" ELSE "look"]
  /\ UNCHANGED <<layout, record, cmd, captured, tries, used, home>>

LockBusy(p) ==
  /\ pc[p] = "lock"
  /\ lock # NoProc
  /\ Throw(p)
  /\ UNCHANGED <<layout, record, used, home>>

-----------------------------------------------------------------------------
(* SessionManager.StartCore and SessionManager.PrimeNativeMode.            *)

RefusePending(p) ==
  /\ pc[p] = "check"
  /\ record # Absent
  /\ Throw(p)
  /\ UNCHANGED <<layout, record, used, home>>

\* Mutant: a pending record does not stop the capture.
CaptureAnyway(p) ==
  /\ pc[p] = "check"
  /\ captured' = [captured EXCEPT ![p] = layout]
  /\ pc' = [pc EXCEPT ![p] = "truncate"]
  /\ UNCHANGED <<layout, record, lock, cmd, tries, used, home>>

Capture(p) ==
  /\ pc[p] = "check"
  /\ record = Absent
  /\ captured' = [captured EXCEPT ![p] = layout]
  /\ pc' = [pc EXCEPT ![p] = "truncate"]
  /\ UNCHANGED <<layout, record, lock, cmd, tries, used, home>>

\* SaveRecovery writes in place: it opens or creates the file and sets its
\* length to 0, then writes the JSON and flushes it.
Truncate(p) ==
  /\ pc[p] \in {"truncate", "retruncate"}
  /\ record' = Torn
  /\ Goto(p, IF pc[p] = "truncate" THEN "write" ELSE "rewrite")
  /\ UNCHANGED <<layout, used, home>>

WriteFirst(p) ==
  /\ pc[p] = "write"
  /\ record' = Saved(captured[p])
  /\ Goto(p, IF cmd[p] = "prime" THEN "verify" ELSE "prepare")
  /\ UNCHANGED <<layout, used, home>>

\* The second save, after the virtual display took the mode.  StartCore then
\* returns; PrimeNativeMode goes on to restore the layout.
WriteSecond(p) ==
  /\ pc[p] = "rewrite"
  /\ record' = Saved(captured[p])
  /\ IF cmd[p] = "prime"
     THEN /\ cmd' = [cmd EXCEPT ![p] = "primed"]
          /\ pc' = [pc EXCEPT ![p] = "restore"]
          /\ UNCHANGED <<lock, captured, tries>>
     ELSE Finish(p)
  /\ UNCHANGED <<layout, used, home>>

\* The first save is outside the try block, the second inside it.
SaveFails(p) ==
  /\ Fault
  /\ \/ pc[p] \in {"truncate", "write"} /\ Throw(p)
     \/ pc[p] \in {"retruncate", "rewrite"} /\ Goto(p, "restore")
  /\ UNCHANGED <<layout, record, home>>

\* Restarting the display driver can take the virtual display away.
DriverReloaded == layout' \in {layout, layout \ {Vdd}} \ {{}}

PrepareMode(p) ==
  /\ pc[p] = "prepare"
  /\ DriverReloaded
  /\ Goto(p, "activate")
  /\ UNCHANGED <<record, used, home>>

ActivateVirtualDisplay(p) ==
  /\ pc[p] = "activate"
  /\ layout' = {Vdd}
  /\ Goto(p, "mode")
  /\ UNCHANGED <<record, used, home>>

\* Mutant: one active physical display is kept beside the virtual one.
VerifyBesideOne(p) ==
  /\ pc[p] = "verify"
  /\ \E m \in Lit(layout) : layout' = {m, Vdd}
  /\ Goto(p, "mode")
  /\ UNCHANGED <<record, used, home>>

\* PrimeNativeMode keeps every active physical display beside the virtual one.
VerifyVirtualDisplay(p) ==
  /\ pc[p] = "verify"
  /\ Lit(layout) # {}
  /\ layout' = Lit(layout) \union {Vdd}
  /\ Goto(p, "mode")
  /\ UNCHANGED <<record, used, home>>

SetMode(p) ==
  /\ pc[p] = "mode"
  /\ Vdd \in layout
  /\ Goto(p, "retruncate")
  /\ UNCHANGED <<layout, record, used, home>>

\* One more attempt, from `label`, or the catch block when none is left.
Retry(p, label) ==
  /\ tries' = [tries EXCEPT ![p] = @ + 1]
  /\ pc' = [pc EXCEPT ![p] = IF tries[p] + 1 < Attempts THEN label ELSE "restore"]
  /\ UNCHANGED <<cmd, lock, captured>>

SetModeFails(p) ==
  /\ pc[p] = "mode"
  /\ IF Vdd \in layout THEN Fault ELSE UNCHANGED used
  /\ Retry(p, IF cmd[p] = "prime" THEN "mode" ELSE "activate")
  /\ UNCHANGED <<layout, record, home>>

ActivationFails(p) ==
  /\ \/ /\ pc[p] = "activate"
        /\ Fault
        /\ Retry(p, "activate")
     \/ /\ pc[p] = "prepare"
        /\ Fault
        /\ Goto(p, "restore")
     \/ /\ pc[p] = "verify"
        /\ IF Lit(layout) = {} THEN UNCHANGED used ELSE Fault
        /\ Goto(p, "restore")
  /\ UNCHANGED <<layout, record, home>>

-----------------------------------------------------------------------------
(* Restore and ClearRecovery: the tail of RestoreIfPending, of the catch    *)
(* blocks and of PrimeNativeMode.                                          *)

\* Mutant: a pending record is cleared without being restored.
ClearUnread(p) ==
  /\ pc[p] = "look"
  /\ IF record = Absent THEN Finish(p) ELSE Goto(p, "clear")
  /\ UNCHANGED <<layout, record, used, home>>

LookForRecord(p) ==
  /\ pc[p] = "look"
  /\ IF record = Absent THEN Finish(p) ELSE Goto(p, "restore")
  /\ UNCHANGED <<layout, record, used, home>>

Restore(p) ==
  /\ pc[p] = "restore"
  /\ record.state = "saved"
  /\ layout' = record.layout
  /\ Goto(p, "clear")
  /\ UNCHANGED <<record, used, home>>

\* Mutant: the error of a failed restore is swallowed, and the record cleared.
RestoreFailsSilently(p) ==
  /\ pc[p] = "restore"
  /\ IF record.state = "saved" THEN Fault ELSE UNCHANGED used
  /\ Goto(p, "clear")
  /\ UNCHANGED <<layout, record, home>>

\* No record, an unreadable one, or Windows refuses: whatever is on disk stays.
RestoreFails(p) ==
  /\ pc[p] = "restore"
  /\ IF record.state = "saved" THEN Fault ELSE UNCHANGED used
  /\ Throw(p)
  /\ UNCHANGED <<layout, record, home>>

ClearRecovery(p) ==
  /\ pc[p] = "clear"
  /\ record' = Absent
  /\ Finish(p)
  /\ UNCHANGED <<layout, used, home>>

ClearFails(p) ==
  /\ pc[p] = "clear"
  /\ Fault
  /\ Throw(p)
  /\ UNCHANGED <<layout, record, home>>

-----------------------------------------------------------------------------
(* Commands that change no record.                                         *)

\* Changing the mode of the active virtual display leaves the topology alone.
ChangeMode(p) ==
  /\ pc[p] = "change"
  /\ Finish(p)
  /\ UNCHANGED <<layout, record, used, home>>

\* DisableManagedVirtualDisplays, alone or inside the rescue action, takes no
\* lock: it reads the topology, and applies what it read without the virtual
\* display.  It refuses to switch off the machine's last screen.
Disabled(p) == IF cmd[p] = "rescue" THEN Goto(p, "confirm") ELSE Finish(p)

DisableManagedVirtualDisplays(p) ==
  /\ pc[p] \in {"disable", "hide"}
  /\ layout # {Vdd}
  /\ IF Vdd \in layout
     THEN /\ captured' = [captured EXCEPT ![p] = layout]
          /\ pc' = [pc EXCEPT ![p] = "switchoff"]
          /\ UNCHANGED <<cmd, lock, tries>>
     ELSE Disabled(p)
  /\ UNCHANGED <<layout, record, used, home>>

ApplyRemainingPaths(p) ==
  /\ pc[p] = "switchoff"
  /\ layout' = Lit(captured[p])
  /\ Disabled(p)
  /\ UNCHANGED <<record, used, home>>

DisableFails(p) ==
  /\ cmd[p] # "rescue"
  /\ \/ pc[p] = "disable" /\ layout = {Vdd} /\ UNCHANGED used
     \/ pc[p] \in {"disable", "switchoff"} /\ Fault
  /\ Throw(p)
  /\ UNCHANGED <<layout, record, home>>

-----------------------------------------------------------------------------
(* RecoverPhysicalAndDiscardPendingTransactionCore and the rescue action    *)
(* around it.  None of these steps opens session.lock.                     *)

PhysicalOnly(l) == IF Lit(l) # {} THEN Lit(l) ELSE Physical

RecoverPhysicalDisplays(p) ==
  /\ pc[p] \in {"physical", "reapply"}
  /\ captured' = [captured EXCEPT ![p] = PhysicalOnly(layout)]
  /\ pc' = [pc EXCEPT ![p] = IF pc[p] = "physical" THEN "light" ELSE "relight"]
  /\ UNCHANGED <<layout, record, lock, cmd, tries, used, home>>

ApplyPhysical(p) ==
  /\ pc[p] \in {"light", "relight"}
  /\ layout' = captured[p]
  /\ IF pc[p] = "light" THEN Goto(p, "hide") ELSE Finish(p)
  /\ UNCHANGED <<record, used, home>>

\* Checked before the record is discarded and once more after that.
PhysicalOnlyNow == Lit(layout) # {} /\ Vdd \notin layout

VerifyPhysicalOnlyTopology(p) ==
  /\ pc[p] \in {"confirm", "recheck"}
  /\ PhysicalOnlyNow
  /\ Goto(p, IF pc[p] = "confirm" THEN "discard" ELSE "reload")
  /\ UNCHANGED <<layout, record, used, home>>

\* A writer has the file open without delete sharing.
RecordOpen == \E q \in Procs : pc[q] \in {"write", "rewrite"}

\* Mutant: the record is parsed first, and an unreadable one is left alone.
DiscardReadable(p) ==
  /\ pc[p] = "discard"
  /\ ~RecordOpen
  /\ record' = IF record = Torn THEN record ELSE Absent
  /\ Goto(p, "recheck")
  /\ UNCHANGED <<layout, used, home>>

DiscardRecord(p) ==
  /\ pc[p] = "discard"
  /\ ~RecordOpen
  /\ record' = Absent
  /\ Goto(p, "recheck")
  /\ UNCHANGED <<layout, used, home>>

\* The hotkey action notes the failure and goes on with the driver; the
\* command-line variants stop.
RescueFails(p) ==
  /\ cmd[p] = "rescue"
  /\ \/ pc[p] = "hide" /\ layout = {Vdd} /\ UNCHANGED used
     \/ pc[p] \in {"confirm", "recheck"} /\ ~PhysicalOnlyNow /\ UNCHANGED used
     \/ pc[p] = "discard" /\ RecordOpen /\ UNCHANGED used
     \/ pc[p] \in {"physical", "light", "hide", "switchoff", "confirm", "discard", "recheck"} /\ Fault
  /\ Goto(p, "reload") \/ Throw(p)
  /\ UNCHANGED <<layout, record, home>>

ReloadDriver(p) ==
  /\ pc[p] = "reload"
  /\ DriverReloaded
  /\ Goto(p, "reapply")
  /\ UNCHANGED <<record, used, home>>

\* No driver or no Sunshine, a reload that failed, or `recover-upgrade`.
SkipReload(p) ==
  /\ pc[p] = "reload"
  /\ Finish(p)
  /\ UNCHANGED <<layout, record, used, home>>

\* The ten attempts at the end have all failed.
ReapplyFails(p) ==
  /\ pc[p] \in {"reapply", "relight"}
  /\ Fault
  /\ Finish(p)
  /\ UNCHANGED <<layout, record, home>>

-----------------------------------------------------------------------------
(* The environment.                                                        *)

\* A killed process: Windows closes its handles, which frees the lock file.
Kill(p) ==
  /\ pc[p] # "idle"
  /\ used.crashes < MaxCrashes
  /\ used' = [used EXCEPT !.crashes = @ + 1]
  /\ FinishWith(p, "none")
  /\ UNCHANGED <<layout, record, home>>

\* The topologies are applied without saving them to the display database, so
\* a restart may bring the user's own displays back.
Reboot ==
  /\ used.crashes < MaxCrashes
  /\ used' = [used EXCEPT !.crashes = @ + 1]
  /\ layout' \in {layout, home}
  /\ lock' = NoProc
  /\ pc' = [p \in Procs |-> "idle"]
  /\ cmd' = [p \in Procs |-> "none"]
  /\ captured' = [p \in Procs |-> {}]
  /\ tries' = [p \in Procs |-> 0]
  /\ UNCHANGED <<record, home>>

\* Bound: the user rearranges displays only while no transaction is open and
\* no command is between its reading of the topology and its use.
UserArranges ==
  /\ lock = NoProc
  /\ record = Absent
  /\ \A p \in Procs : captured[p] = {}
  /\ layout' \in {l \in Layout : Lit(l) # {}}
  /\ home' = Lit(layout')
  /\ UNCHANGED <<record, lock, pc, cmd, captured, tries, used>>

\* What a process does of itself once it has begun.
Open(p) == \/ AcquireLock(p) \/ LockBusy(p) \/ RefusePending(p) \/ Capture(p)
           \/ Truncate(p) \/ WriteFirst(p) \/ WriteSecond(p) \/ SaveFails(p)
           \/ PrepareMode(p) \/ ActivateVirtualDisplay(p) \/ VerifyVirtualDisplay(p)
           \/ SetMode(p) \/ SetModeFails(p) \/ ActivationFails(p)

Close(p) == \/ LookForRecord(p) \/ Restore(p) \/ RestoreFails(p)
            \/ ClearRecovery(p) \/ ClearFails(p)
            \/ ChangeMode(p) \/ DisableManagedVirtualDisplays(p) \/ ApplyRemainingPaths(p)
            \/ DisableFails(p)

Rescue(p) == \/ RecoverPhysicalDisplays(p) \/ ApplyPhysical(p)
             \/ VerifyPhysicalOnlyTopology(p) \/ DiscardRecord(p) \/ RescueFails(p)
             \/ ReloadDriver(p) \/ SkipReload(p) \/ ReapplyFails(p)

Step(p) == Open(p) \/ Close(p) \/ Rescue(p)

Next == \/ \E p \in Procs : Step(p) \/ Kill(p) \/ (\E c \in Commands : Begin(p, c))
        \/ Reboot
        \/ UserArranges

Spec == Init /\ [][Next]_vars

\* Windows runs every process, and somebody keeps asking for the layout back:
\* the prep hook's undo command, the logon task and the person at the PC all
\* issue `session stop` or `session recover`; where those commands cannot help,
\* the person presses F11.
FairSpec ==
  /\ Spec
  /\ \A p \in Procs : WF_vars(Step(p))
  /\ \A c \in Commands \intersect {"stop", "rescue"} :
        SF_vars(\E p \in Procs : Begin(p, c))

-----------------------------------------------------------------------------
(* Properties.                                                             *)

\* The commands that open session.lock, and the virtual-display switch-off.
Careful == Command \ {"primed", "rescue"}

\* With no recovery record on disk, exactly the physical displays the user last
\* chose are on: whatever failed, was killed or was refused, no command leaves
\* other screens, or none, without something for `session recover` to find.
\* StartCore saves before it activates, and clears after it restored.
HomeUnlessRecorded == record = Absent => Lit(layout) = home

\* A record that can be read holds a layout with the user's own physical
\* displays; a transaction never captures the topology another one made.
RecordIsHome == record.state = "saved" => Lit(record.layout) = home

\* The user's physical displays are switched as a whole: a driver check beside
\* them, a stale read by a command that holds no lock, a failed activation or a
\* half-done restore never leaves a part of them on.
AllOrNothing == Lit(layout) \in {{}, home}

\* A saved record is rewritten only by the transaction that owns it, and only
\* to the same layout: nobody's second save lands on somebody else's record.
RewritesOnlyItsOwn ==
  [][record.state = "saved" /\ record' = Torn
       => \E p \in Procs : lock = p /\ record.layout = captured[p]]_vars

\* The transaction implements the promise; the record on disk, readable or
\* not, stands for the debt.
Promise == INSTANCE DisplayPromise
             WITH physical <- Lit(layout),
                  owed <- IF record = Absent THEN {} ELSE {home}

KeepsPromise == Promise!Spec

\* When commands, failures and kills stop coming, the recovery commands end in
\* one of two ways: the user's displays are on and no record is left, or the
\* record was torn by a kill or by a failing write, which no retry repairs.
EventuallyHome ==
  <>[]\/ record = Absent /\ Lit(layout) = home
      \/ record = Torn /\ used.crashes + used.faults > 0

\* The rescue action ends every wedge, the torn record included: in the end a
\* physical display is on and no record refuses the next `session start`.
RescueSettles == <>[](Lit(layout) # {} /\ record = Absent)

\* SessionManager.cs:154: when setting up and restoring have both failed, "the
\* recovery record has been retained".
RecordRetained ==
  [][\A p \in Procs : Opens(p) /\ RestoreFails(p) => record' # Absent]_vars
=============================================================================
