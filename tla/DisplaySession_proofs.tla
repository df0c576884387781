------------------------ MODULE DisplaySession_proofs ------------------------
(***************************************************************************)
(* The display transaction, for any number of processes, displays, attempts, *)
(* failures and kills: its types and whose record is written with every     *)
(* command, and its promises to the user as long as nobody issues the       *)
(* rescue action.                                                          *)
(***************************************************************************)
EXTENDS DisplaySession, TLAPS

\* The rescue action ignores session.lock and discards records, which breaks
\* what the transaction promises; those theorems are about the other commands.
NoRescue == "rescue" \notin Commands

\* Between AcquireLock and the end of the method.
Held == {"check", "truncate", "write", "prepare", "activate", "verify", "mode",
         "retruncate", "rewrite", "look", "restore", "clear", "change"}

\* StartCore and PrimeNativeMode after their first save, before the second.
Showing == {"prepare", "activate", "verify", "mode", "retruncate"}

Calm == {"idle", "lock", "disable", "switchoff"} \union Held

\* Everything between AcquireLock and its return runs under the lock file.
Excluded == \A p \in Procs : pc[p] \in Held => lock = p

\* What a process knows of the record and of the layout it has read, whoever
\* else runs the rescue action: the record under a transaction is the one it
\* wrote, or has been discarded; never another one's.
Owns(p) ==
  /\ pc[p] \in {"truncate", "write", "rewrite", "light", "relight"} \union Showing
       => captured[p] \in Layout
  /\ pc[p] = "switchoff" => Lit(captured[p]) # {}
  /\ pc[p] = "truncate" => record = Absent
  /\ pc[p] \in {"write", "rewrite"} => record = Torn
  /\ pc[p] \in Showing => record \in {Absent, Saved(captured[p])}
  /\ pc[p] \notin {"restore", "clear"} => tries[p] < Attempts

OwnInv == TypeOK /\ Excluded /\ \A p \in Procs : Owns(p)

\* Nobody runs the rescue action.
Undisturbed == \A p \in Procs : pc[p] \in Calm /\ cmd[p] # "rescue"

\* Without it, what a transaction has captured is the user's layout, and the
\* record stays until that layout is lit again.
ProcOK(p) ==
  /\ pc[p] \in {"truncate", "write", "rewrite", "switchoff"} \union Showing
       => Lit(captured[p]) = home
  /\ pc[p] \in Showing => record = Saved(captured[p])
  /\ pc[p] = "restore" => record # Absent
  /\ pc[p] = "clear" => Lit(layout) = home

HomeInv == /\ Undisturbed
           /\ \A p \in Procs : ProcOK(p)
           /\ HomeUnlessRecorded
           /\ RecordIsHome
           /\ AllOrNothing

IInv == OwnInv /\ HomeInv

-----------------------------------------------------------------------------
(* What holds with every command, the rescue action included.              *)

USE SessionAssumption
USE DEF Displays, Layout, Lit, Absent, Torn, Saved, Held, Showing, Calm, Label, Command

LEMMA InitOwn == Init => OwnInv
BY DEF Init, OwnInv, TypeOK, Excluded, Owns

USE DEF OwnInv, TypeOK, Excluded, Owns
USE DEF Goto, Finish, FinishWith, FollowUp, Throw, Fault, Opens, Entry, Retry, DriverReloaded, Disabled

\* Taking the lock, saving, showing the virtual display.
LEMMA OpenOwn ==
  ASSUME OwnInv, NEW p \in Procs, Open(p)
  PROVE  OwnInv'
<1>1. CASE AcquireLock(p)
  <2>1. TypeOK' /\ Excluded'
    BY <1>1, SMTT(30) DEF AcquireLock
  <2>2. Owns(p)'
    BY <1>1, SMTT(30) DEF AcquireLock
  <2>3. \A q \in Procs \ {p} : Owns(q)'
    BY <1>1, SMTT(30) DEF AcquireLock
  <2>4. QED  BY <2>1, <2>2, <2>3
<1>2. CASE LockBusy(p)
  <2>1. TypeOK' /\ Excluded'
    BY <1>2, SMTT(30) DEF LockBusy
  <2>2. Owns(p)'
    BY <1>2, SMTT(30) DEF LockBusy
  <2>3. \A q \in Procs \ {p} : Owns(q)'
    BY <1>2, SMTT(30) DEF LockBusy
  <2>4. QED  BY <2>1, <2>2, <2>3
<1>3. CASE RefusePending(p)
  <2>1. TypeOK' /\ Excluded'
    BY <1>3, SMTT(30) DEF RefusePending
  <2>2. Owns(p)'
    BY <1>3, SMTT(30) DEF RefusePending
  <2>3. \A q \in Procs \ {p} : Owns(q)'
    BY <1>3, SMTT(30) DEF RefusePending
  <2>4. QED  BY <2>1, <2>2, <2>3
<1>4. CASE Capture(p)
  <2>1. TypeOK' /\ Excluded'
    BY <1>4, SMTT(30) DEF Capture
  <2>2. Owns(p)'
    BY <1>4, SMTT(30) DEF Capture
  <2>3. \A q \in Procs \ {p} : Owns(q)'
    BY <1>4, SMTT(30) DEF Capture
  <2>4. QED  BY <2>1, <2>2, <2>3
<1>5. CASE Truncate(p)
  <2>1. TypeOK' /\ Excluded'
    BY <1>5, SMTT(30) DEF Truncate
  <2>2. Owns(p)'
    BY <1>5, SMTT(30) DEF Truncate
  <2>3. \A q \in Procs \ {p} : Owns(q)'
    BY <1>5, SMTT(30) DEF Truncate
  <2>4. QED  BY <2>1, <2>2, <2>3
<1>6. CASE WriteFirst(p)
  <2>1. TypeOK' /\ Excluded'
    BY <1>6, SMTT(30) DEF WriteFirst
  <2>2. Owns(p)'
    BY <1>6, SMTT(30) DEF WriteFirst
  <2>3. \A q \in Procs \ {p} : Owns(q)'
    BY <1>6, SMTT(30) DEF WriteFirst
  <2>4. QED  BY <2>1, <2>2, <2>3
<1>7. CASE WriteSecond(p)
  <2>1. TypeOK' /\ Excluded'
    BY <1>7, SMTT(30) DEF WriteSecond
  <2>2. Owns(p)'
    BY <1>7, SMTT(30) DEF WriteSecond
  <2>3. \A q \in Procs \ {p} : Owns(q)'
    BY <1>7, SMTT(30) DEF WriteSecond
  <2>4. QED  BY <2>1, <2>2, <2>3
<1>8. CASE SaveFails(p)
  <2>1. TypeOK' /\ Excluded'
    BY <1>8, SMTT(30) DEF SaveFails
  <2>2. Owns(p)'
    BY <1>8, SMTT(30) DEF SaveFails
  <2>3. \A q \in Procs \ {p} : Owns(q)'
    BY <1>8, SMTT(30) DEF SaveFails
  <2>4. QED  BY <2>1, <2>2, <2>3
<1>9. CASE PrepareMode(p)
  <2>1. TypeOK' /\ Excluded'
    BY <1>9, SMTT(30) DEF PrepareMode
  <2>2. Owns(p)'
    BY <1>9, SMTT(30) DEF PrepareMode
  <2>3. \A q \in Procs \ {p} : Owns(q)'
    BY <1>9, SMTT(30) DEF PrepareMode
  <2>4. QED  BY <2>1, <2>2, <2>3
<1>10. CASE ActivateVirtualDisplay(p)
  <2>1. TypeOK' /\ Excluded'
    BY <1>10, SMTT(30) DEF ActivateVirtualDisplay
  <2>2. Owns(p)'
    BY <1>10, SMTT(30) DEF ActivateVirtualDisplay
  <2>3. \A q \in Procs \ {p} : Owns(q)'
    BY <1>10, SMTT(30) DEF ActivateVirtualDisplay
  <2>4. QED  BY <2>1, <2>2, <2>3
<1>11. CASE VerifyVirtualDisplay(p)
  <2>1. TypeOK' /\ Excluded'
    BY <1>11, SMTT(30) DEF VerifyVirtualDisplay
  <2>2. Owns(p)'
    BY <1>11, SMTT(30) DEF VerifyVirtualDisplay
  <2>3. \A q \in Procs \ {p} : Owns(q)'
    BY <1>11, SMTT(30) DEF VerifyVirtualDisplay
  <2>4. QED  BY <2>1, <2>2, <2>3
<1>12. CASE SetMode(p)
  <2>1. TypeOK' /\ Excluded'
    BY <1>12, SMTT(30) DEF SetMode
  <2>2. Owns(p)'
    BY <1>12, SMTT(30) DEF SetMode
  <2>3. \A q \in Procs \ {p} : Owns(q)'
    BY <1>12, SMTT(30) DEF SetMode
  <2>4. QED  BY <2>1, <2>2, <2>3
<1>13. CASE SetModeFails(p)
  <2>1. TypeOK' /\ Excluded'
    BY <1>13, SMTT(30) DEF SetModeFails
  <2>2. Owns(p)'
    BY <1>13, SMTT(30) DEF SetModeFails
  <2>3. \A q \in Procs \ {p} : Owns(q)'
    BY <1>13, SMTT(30) DEF SetModeFails
  <2>4. QED  BY <2>1, <2>2, <2>3
<1>14. CASE ActivationFails(p)
  <2>1. TypeOK' /\ Excluded'
    BY <1>14, SMTT(30) DEF ActivationFails
  <2>2. Owns(p)'
    BY <1>14, SMTT(30) DEF ActivationFails
  <2>3. \A q \in Procs \ {p} : Owns(q)'
    BY <1>14, SMTT(30) DEF ActivationFails
  <2>4. QED  BY <2>1, <2>2, <2>3
<1>15. QED  BY <1>1, <1>2, <1>3, <1>4, <1>5, <1>6, <1>7, <1>8, <1>9, <1>10, <1>11, <1>12, <1>13, <1>14 DEF Open

\* Restoring, clearing, and the commands that write no record.
LEMMA CloseOwn ==
  ASSUME OwnInv, NEW p \in Procs, Close(p)
  PROVE  OwnInv'
<1>1. CASE LookForRecord(p)
  <2>1. TypeOK' /\ Excluded'
    BY <1>1, SMTT(30) DEF LookForRecord
  <2>2. Owns(p)'
    BY <1>1, SMTT(30) DEF LookForRecord
  <2>3. \A q \in Procs \ {p} : Owns(q)'
    BY <1>1, SMTT(30) DEF LookForRecord
  <2>4. QED  BY <2>1, <2>2, <2>3
<1>2. CASE Restore(p)
  <2>1. TypeOK' /\ Excluded'
    BY <1>2, SMTT(30) DEF Restore
  <2>2. Owns(p)'
    BY <1>2, SMTT(30) DEF Restore
  <2>3. \A q \in Procs \ {p} : Owns(q)'
    BY <1>2, SMTT(30) DEF Restore
  <2>4. QED  BY <2>1, <2>2, <2>3
<1>3. CASE RestoreFails(p)
  <2>1. TypeOK' /\ Excluded'
    BY <1>3, SMTT(30) DEF RestoreFails
  <2>2. Owns(p)'
    BY <1>3, SMTT(30) DEF RestoreFails
  <2>3. \A q \in Procs \ {p} : Owns(q)'
    BY <1>3, SMTT(30) DEF RestoreFails
  <2>4. QED  BY <2>1, <2>2, <2>3
<1>4. CASE ClearRecovery(p)
  <2>1. TypeOK' /\ Excluded'
    BY <1>4, SMTT(30) DEF ClearRecovery
  <2>2. Owns(p)'
    BY <1>4, SMTT(30) DEF ClearRecovery
  <2>3. \A q \in Procs \ {p} : Owns(q)'
    BY <1>4, SMTT(30) DEF ClearRecovery
  <2>4. QED  BY <2>1, <2>2, <2>3
<1>5. CASE ClearFails(p)
  <2>1. TypeOK' /\ Excluded'
    BY <1>5, SMTT(30) DEF ClearFails
  <2>2. Owns(p)'
    BY <1>5, SMTT(30) DEF ClearFails
  <2>3. \A q \in Procs \ {p} : Owns(q)'
    BY <1>5, SMTT(30) DEF ClearFails
  <2>4. QED  BY <2>1, <2>2, <2>3
<1>6. CASE ChangeMode(p)
  <2>1. TypeOK' /\ Excluded'
    BY <1>6, SMTT(30) DEF ChangeMode
  <2>2. Owns(p)'
    BY <1>6, SMTT(30) DEF ChangeMode
  <2>3. \A q \in Procs \ {p} : Owns(q)'
    BY <1>6, SMTT(30) DEF ChangeMode
  <2>4. QED  BY <2>1, <2>2, <2>3
<1>7. CASE DisableManagedVirtualDisplays(p)
  <2>1. TypeOK' /\ Excluded'
    BY <1>7, SMTT(30) DEF DisableManagedVirtualDisplays
  <2>2. Owns(p)'
    BY <1>7, SMTT(30) DEF DisableManagedVirtualDisplays
  <2>3. \A q \in Procs \ {p} : Owns(q)'
    BY <1>7, SMTT(30) DEF DisableManagedVirtualDisplays
  <2>4. QED  BY <2>1, <2>2, <2>3
<1>8. CASE ApplyRemainingPaths(p)
  <2>1. TypeOK' /\ Excluded'
    BY <1>8, SMTT(30) DEF ApplyRemainingPaths
  <2>2. Owns(p)'
    BY <1>8, SMTT(30) DEF ApplyRemainingPaths
  <2>3. \A q \in Procs \ {p} : Owns(q)'
    BY <1>8, SMTT(30) DEF ApplyRemainingPaths
  <2>4. QED  BY <2>1, <2>2, <2>3
<1>9. CASE DisableFails(p)
  <2>1. TypeOK' /\ Excluded'
    BY <1>9, SMTT(30) DEF DisableFails
  <2>2. Owns(p)'
    BY <1>9, SMTT(30) DEF DisableFails
  <2>3. \A q \in Procs \ {p} : Owns(q)'
    BY <1>9, SMTT(30) DEF DisableFails
  <2>4. QED  BY <2>1, <2>2, <2>3
<1>10. QED  BY <1>1, <1>2, <1>3, <1>4, <1>5, <1>6, <1>7, <1>8, <1>9 DEF Close

\* The rescue action, which never opens session.lock.
LEMMA RescueOwn ==
  ASSUME OwnInv, NEW p \in Procs, Rescue(p)
  PROVE  OwnInv'
<1>1. CASE RecoverPhysicalDisplays(p)
  <2>1. TypeOK' /\ Excluded'
    BY <1>1, SMTT(30) DEF RecoverPhysicalDisplays, PhysicalOnly
  <2>2. Owns(p)'
    BY <1>1, SMTT(30) DEF RecoverPhysicalDisplays, PhysicalOnly
  <2>3. \A q \in Procs \ {p} : Owns(q)'
    BY <1>1, SMTT(30) DEF RecoverPhysicalDisplays, PhysicalOnly
  <2>4. QED  BY <2>1, <2>2, <2>3
<1>2. CASE ApplyPhysical(p)
  <2>1. TypeOK' /\ Excluded'
    BY <1>2, SMTT(30) DEF ApplyPhysical
  <2>2. Owns(p)'
    BY <1>2, SMTT(30) DEF ApplyPhysical
  <2>3. \A q \in Procs \ {p} : Owns(q)'
    BY <1>2, SMTT(30) DEF ApplyPhysical
  <2>4. QED  BY <2>1, <2>2, <2>3
<1>3. CASE VerifyPhysicalOnlyTopology(p)
  <2>1. TypeOK' /\ Excluded'
    BY <1>3, SMTT(30) DEF VerifyPhysicalOnlyTopology, PhysicalOnlyNow
  <2>2. Owns(p)'
    BY <1>3, SMTT(30) DEF VerifyPhysicalOnlyTopology, PhysicalOnlyNow
  <2>3. \A q \in Procs \ {p} : Owns(q)'
    BY <1>3, SMTT(30) DEF VerifyPhysicalOnlyTopology, PhysicalOnlyNow
  <2>4. QED  BY <2>1, <2>2, <2>3
<1>4. CASE DiscardRecord(p)
  <2>1. TypeOK' /\ Excluded'
    BY <1>4, SMTT(30) DEF DiscardRecord, RecordOpen
  <2>2. Owns(p)'
    BY <1>4, SMTT(30) DEF DiscardRecord, RecordOpen
  <2>3. \A q \in Procs \ {p} : Owns(q)'
    BY <1>4, SMTT(30) DEF DiscardRecord, RecordOpen
  <2>4. QED  BY <2>1, <2>2, <2>3
<1>5. CASE RescueFails(p)
  <2>1. TypeOK' /\ Excluded'
    BY <1>5, SMTT(30) DEF RescueFails, PhysicalOnlyNow
  <2>2. Owns(p)'
    BY <1>5, SMTT(30) DEF RescueFails, PhysicalOnlyNow
  <2>3. \A q \in Procs \ {p} : Owns(q)'
    BY <1>5, SMTT(30) DEF RescueFails, PhysicalOnlyNow
  <2>4. QED  BY <2>1, <2>2, <2>3
<1>6. CASE ReloadDriver(p)
  <2>1. TypeOK' /\ Excluded'
    BY <1>6, SMTT(30) DEF ReloadDriver
  <2>2. Owns(p)'
    BY <1>6, SMTT(30) DEF ReloadDriver
  <2>3. \A q \in Procs \ {p} : Owns(q)'
    BY <1>6, SMTT(30) DEF ReloadDriver
  <2>4. QED  BY <2>1, <2>2, <2>3
<1>7. CASE SkipReload(p)
  <2>1. TypeOK' /\ Excluded'
    BY <1>7, SMTT(30) DEF SkipReload
  <2>2. Owns(p)'
    BY <1>7, SMTT(30) DEF SkipReload
  <2>3. \A q \in Procs \ {p} : Owns(q)'
    BY <1>7, SMTT(30) DEF SkipReload
  <2>4. QED  BY <2>1, <2>2, <2>3
<1>8. CASE ReapplyFails(p)
  <2>1. TypeOK' /\ Excluded'
    BY <1>8, SMTT(30) DEF ReapplyFails
  <2>2. Owns(p)'
    BY <1>8, SMTT(30) DEF ReapplyFails
  <2>3. \A q \in Procs \ {p} : Owns(q)'
    BY <1>8, SMTT(30) DEF ReapplyFails
  <2>4. QED  BY <2>1, <2>2, <2>3
<1>9. QED  BY <1>1, <1>2, <1>3, <1>4, <1>5, <1>6, <1>7, <1>8 DEF Rescue

\* New commands, kills, reboots and the user's own rearrangements.
LEMMA EnvironmentOwn ==
  ASSUME OwnInv,
         \/ Reboot \/ UserArranges
         \/ \E p \in Procs : Kill(p) \/ (\E c \in Commands : Begin(p, c))
  PROVE  OwnInv'
<1>1. ASSUME NEW p \in Procs, Kill(p) PROVE OwnInv'
  BY <1>1, SMTT(30) DEF Kill
<1>2. ASSUME NEW p \in Procs, NEW c \in Commands, Begin(p, c) PROVE OwnInv'
  BY <1>2, SMTT(30) DEF Begin
<1>3. CASE Reboot
  BY <1>3, SMTT(30) DEF Reboot
<1>4. CASE UserArranges
  BY <1>4, SMTT(30) DEF UserArranges
<1>5. QED  BY <1>1, <1>2, <1>3, <1>4

HIDE DEF OwnInv, TypeOK, Excluded, Owns
HIDE DEF Goto, Finish, FinishWith, FollowUp, Throw, Fault, Opens, Entry, Retry, DriverReloaded, Disabled

LEMMA StepOwn ==
  ASSUME OwnInv, [Next]_vars
  PROVE  OwnInv'
<1>1. CASE UNCHANGED vars
  BY <1>1 DEF vars, OwnInv, TypeOK, Excluded, Owns
<1>2. ASSUME NEW p \in Procs, Step(p) PROVE OwnInv'
  BY <1>2, OpenOwn, CloseOwn, RescueOwn DEF Step
<1>3. QED  BY <1>1, <1>2, EnvironmentOwn DEF Next

THEOREM InvarianceOwn == Spec => []OwnInv
<1>1. OwnInv /\ [Next]_vars => OwnInv'
  BY StepOwn
<1>2. QED  BY InitOwn, <1>1, PTL DEF Spec

\* THEOREM: every variable keeps its type, whatever commands are issued: Windows
\* is never asked for an empty layout, no record holds one, and a process never
\* exceeds its activation attempts.
THEOREM Typed == Spec => []TypeOK
<1>1. OwnInv => TypeOK
  BY DEF OwnInv
<1>2. QED  BY InvarianceOwn, <1>1, PTL

\* A step rewrites a saved record only from SaveRecovery's second call.
LEMMA OnlyTruncateTears ==
  ASSUME [Next]_vars, record.state = "saved", record' = Torn
  PROVE  \E p \in Procs : Truncate(p)
<1>1. record # Absent /\ record # Torn /\ Torn # Absent
  OBVIOUS
<1>2. record' # record
  BY <1>1
<1>3. PICK p \in Procs : Step(p)
  BY <1>2 DEF Next, vars, Kill, Begin, Reboot, UserArranges
<1>4. ~Close(p)
  BY <1>1, <1>2 DEF Close, LookForRecord, Restore, RestoreFails, ClearRecovery,
                    ClearFails, ChangeMode, DisableManagedVirtualDisplays,
                    ApplyRemainingPaths, DisableFails
<1>5. ~Rescue(p)
  BY <1>1, <1>2 DEF Rescue, RecoverPhysicalDisplays, ApplyPhysical,
                    VerifyPhysicalOnlyTopology, DiscardRecord, RescueFails,
                    ReloadDriver, SkipReload, ReapplyFails
<1>6. Truncate(p) \/ WriteFirst(p) \/ WriteSecond(p)
  BY <1>2, <1>3, <1>4, <1>5 DEF Step, Open, AcquireLock, LockBusy, RefusePending, Capture,
                    SaveFails, PrepareMode, ActivateVirtualDisplay, VerifyVirtualDisplay,
                    SetMode, SetModeFails, ActivationFails
<1>7. QED  BY <1>6 DEF WriteFirst, WriteSecond

\* THEOREM: no transaction's second save lands on another one's record, not even
\* when the rescue action discards records in between.
THEOREM NoForeignRewrite == Spec => RewritesOnlyItsOwn
<1>1. OwnInv /\ [Next]_vars
        => [record.state = "saved" /\ record' = Torn
              => \E p \in Procs : lock = p /\ record.layout = captured[p]]_vars
  <2>. SUFFICES ASSUME OwnInv, [Next]_vars, record.state = "saved", record' = Torn
                PROVE  \E p \in Procs : lock = p /\ record.layout = captured[p]
    OBVIOUS
  <2>1. PICK p \in Procs : Truncate(p)
    BY OnlyTruncateTears
  <2>2. pc[p] = "retruncate"
    BY <2>1 DEF Truncate, OwnInv, Owns
  <2>3. lock = p /\ record = Saved(captured[p])
    BY <2>2 DEF OwnInv, Excluded, Owns
  <2>4. QED  BY <2>3
<1>2. QED  BY InvarianceOwn, <1>1, PTL DEF Spec, RewritesOnlyItsOwn

-----------------------------------------------------------------------------
(* The invariant of the commands that open the lock is inductive.          *)

\* The invariant holds at the start.
LEMMA InitInv == Init => IInv
BY InitOwn DEF Init, IInv, HomeInv, Undisturbed, ProcOK, HomeUnlessRecorded,
       RecordIsHome, AllOrNothing

\* While p is inside the lock nobody else is.
LEMMA Alone ==
  ASSUME Excluded, NEW p \in Procs, pc[p] \in Held,
         NEW q \in Procs, q # p
  PROVE  pc[q] \notin Held
BY DEF Excluded

\* A layout that shows the user's displays is one Windows can apply.
LEMMA HomeLayout ==
  ASSUME TypeOK, NEW l \in SUBSET Displays, Lit(l) = home
  PROVE  l \in Layout
BY DEF TypeOK

\* A process between its first and second save holds the lock file and the
\* layout of the user.
LEMMA Holding ==
  ASSUME IInv, NEW p \in Procs,
         pc[p] \in {"truncate", "write", "rewrite"} \union Showing
  PROVE  /\ pc[p] \in Held /\ lock = p
         /\ Lit(captured[p]) = home /\ captured[p] \in Layout
<1>1. pc[p] \in Held /\ lock = p
  BY DEF IInv, OwnInv, Excluded
<1>2. captured[p] \in SUBSET Displays /\ Lit(captured[p]) = home
  BY DEF IInv, OwnInv, TypeOK, HomeInv, ProcOK
<1>3. QED  BY <1>1, <1>2, HomeLayout DEF IInv, OwnInv

\* Every leaf of the three lemmas below re-establishes the whole invariant over
\* one action, so each needs its parts and the shared control flow.
USE DEF IInv, OwnInv, HomeInv, TypeOK, Undisturbed, Excluded, Owns, ProcOK, HomeUnlessRecorded, RecordIsHome, AllOrNothing
USE DEF Goto, Finish, FinishWith, FollowUp, Throw, Fault, Opens, Entry, Retry, DriverReloaded, Disabled

\* Taking the lock, saving, showing the virtual display.
LEMMA OpenInv ==
  ASSUME IInv, NEW p \in Procs, Open(p)
  PROVE  HomeInv'
<1>1. CASE AcquireLock(p)
  BY <1>1, SMTT(30) DEF AcquireLock
<1>2. CASE LockBusy(p)
  BY <1>2, SMTT(30) DEF LockBusy
<1>3. CASE RefusePending(p)
  BY <1>3, SMTT(30) DEF RefusePending
<1>4. CASE Capture(p)
  BY <1>4, SMTT(30) DEF Capture
<1>5. CASE Truncate(p)
  BY <1>5, SMTT(30) DEF Truncate
<1>6. CASE WriteFirst(p)
  <2>1. /\ pc[p] \in Held /\ lock = p
        /\ Lit(captured[p]) = home /\ captured[p] \in Layout
    BY <1>6, Holding DEF WriteFirst
  <2>2. Undisturbed'
    BY <1>6, <2>1, SMTT(30) DEF WriteFirst
  <2>3. \A q \in Procs : ProcOK(q)'
    BY <1>6, <2>1, Alone, SMTT(30) DEF WriteFirst
  <2>4. (HomeUnlessRecorded /\ RecordIsHome /\ AllOrNothing)'
    BY <1>6, <2>1, SMTT(30) DEF WriteFirst
  <2>5. QED  BY <2>2, <2>3, <2>4
<1>7. CASE WriteSecond(p)
  <2>1. /\ pc[p] \in Held /\ lock = p
        /\ Lit(captured[p]) = home /\ captured[p] \in Layout
    BY <1>7, Holding DEF WriteSecond
  <2>2. Undisturbed'
    BY <1>7, <2>1, SMTT(30) DEF WriteSecond
  <2>3. \A q \in Procs : ProcOK(q)'
    BY <1>7, <2>1, Alone, SMTT(30) DEF WriteSecond
  <2>4. (HomeUnlessRecorded /\ RecordIsHome /\ AllOrNothing)'
    BY <1>7, <2>1, SMTT(30) DEF WriteSecond
  <2>5. QED  BY <2>2, <2>3, <2>4
<1>8. CASE SaveFails(p)
  BY <1>8, SMTT(30) DEF SaveFails
<1>9. CASE PrepareMode(p)
  BY <1>9, SMTT(30) DEF PrepareMode
<1>10. CASE ActivateVirtualDisplay(p)
  <2>1. /\ pc[p] \in Held /\ lock = p
        /\ Lit(captured[p]) = home /\ captured[p] \in Layout
    BY <1>10, Holding DEF ActivateVirtualDisplay
  <2>2. Undisturbed'
    BY <1>10, <2>1, SMTT(30) DEF ActivateVirtualDisplay
  <2>3. \A q \in Procs : ProcOK(q)'
    BY <1>10, <2>1, Alone, SMTT(30) DEF ActivateVirtualDisplay
  <2>4. (HomeUnlessRecorded /\ RecordIsHome /\ AllOrNothing)'
    BY <1>10, <2>1, SMTT(30) DEF ActivateVirtualDisplay
  <2>5. QED  BY <2>2, <2>3, <2>4
<1>11. CASE VerifyVirtualDisplay(p)
  <2>1. /\ pc[p] \in Held /\ lock = p
        /\ Lit(captured[p]) = home /\ captured[p] \in Layout
    BY <1>11, Holding DEF VerifyVirtualDisplay
  <2>2. Undisturbed'
    BY <1>11, <2>1, SMTT(30) DEF VerifyVirtualDisplay
  <2>3. \A q \in Procs : ProcOK(q)'
    BY <1>11, <2>1, Alone, SMTT(30) DEF VerifyVirtualDisplay
  <2>4. (HomeUnlessRecorded /\ RecordIsHome /\ AllOrNothing)'
    BY <1>11, <2>1, SMTT(30) DEF VerifyVirtualDisplay
  <2>5. QED  BY <2>2, <2>3, <2>4
<1>12. CASE SetMode(p)
  BY <1>12, SMTT(30) DEF SetMode
<1>13. CASE SetModeFails(p)
  <2>1. /\ pc[p] \in Held /\ lock = p
        /\ Lit(captured[p]) = home /\ captured[p] \in Layout
    BY <1>13, Holding DEF SetModeFails
  <2>2. Undisturbed'
    BY <1>13, <2>1, SMTT(30) DEF SetModeFails
  <2>3. \A q \in Procs : ProcOK(q)'
    BY <1>13, <2>1, Alone, SMTT(30) DEF SetModeFails
  <2>4. (HomeUnlessRecorded /\ RecordIsHome /\ AllOrNothing)'
    BY <1>13, <2>1, SMTT(30) DEF SetModeFails
  <2>5. QED  BY <2>2, <2>3, <2>4
<1>14. CASE ActivationFails(p)
  BY <1>14, SMTT(30) DEF ActivationFails
<1>15. QED  BY <1>1, <1>2, <1>3, <1>4, <1>5, <1>6, <1>7, <1>8, <1>9, <1>10,
              <1>11, <1>12, <1>13, <1>14 DEF Open

\* Restoring, clearing, and the commands that write no record.
LEMMA CloseInv ==
  ASSUME IInv, NEW p \in Procs, Close(p)
  PROVE  HomeInv'
<1>1. CASE LookForRecord(p)
  BY <1>1, SMTT(30) DEF LookForRecord
<1>2. CASE Restore(p)
  BY <1>2, SMTT(30) DEF Restore
<1>3. CASE RestoreFails(p)
  BY <1>3, SMTT(30) DEF RestoreFails
<1>4. CASE ClearRecovery(p)
  BY <1>4, SMTT(30) DEF ClearRecovery
<1>5. CASE ClearFails(p)
  BY <1>5, SMTT(30) DEF ClearFails
<1>6. CASE ChangeMode(p)
  BY <1>6, SMTT(30) DEF ChangeMode
<1>7. CASE DisableManagedVirtualDisplays(p)
  BY <1>7, SMTT(30) DEF DisableManagedVirtualDisplays
<1>8. CASE ApplyRemainingPaths(p)
  BY <1>8, SMTT(30) DEF ApplyRemainingPaths
<1>9. CASE DisableFails(p)
  BY <1>9, SMTT(30) DEF DisableFails
<1>10. QED  BY <1>1, <1>2, <1>3, <1>4, <1>5, <1>6, <1>7, <1>8, <1>9 DEF Close

\* Nobody is inside the rescue action.
LEMMA RescueNever ==
  ASSUME IInv, NEW p \in Procs
  PROVE  ~Rescue(p)
BY DEF Rescue, RecoverPhysicalDisplays, ApplyPhysical, VerifyPhysicalOnlyTopology,
       DiscardRecord, RescueFails, ReloadDriver, SkipReload, ReapplyFails

\* New commands, kills, reboots and the user's own rearrangements.
LEMMA EnvironmentInv ==
  ASSUME NoRescue, IInv,
         \/ Reboot \/ UserArranges
         \/ \E p \in Procs : Kill(p) \/ (\E c \in Commands : Begin(p, c))
  PROVE  HomeInv'
<1>1. ASSUME NEW p \in Procs, Kill(p) PROVE HomeInv'
  BY <1>1, SMTT(30) DEF Kill
<1>2. ASSUME NEW p \in Procs, NEW c \in Commands, Begin(p, c) PROVE HomeInv'
  BY <1>2, SMTT(30) DEF Begin, NoRescue
<1>3. CASE Reboot
  BY <1>3, SMTT(30) DEF Reboot
<1>4. CASE UserArranges
  <2>1. ASSUME NEW p \in Procs
        PROVE  pc[p] \notin Held /\ pc[p] # "switchoff"
    <3>1. pc[p] \notin Held
      BY <1>4 DEF UserArranges
    <3>2. captured[p] = {} /\ home # {}
      BY <1>4 DEF UserArranges
    <3>3. pc[p] = "switchoff" => Lit(captured[p]) = home
      OBVIOUS
    <3>4. QED  BY <3>1, <3>2, <3>3
  <2>2. QED  BY <1>4, <2>1, SMTT(30) DEF UserArranges
<1>5. QED  BY <1>1, <1>2, <1>3, <1>4

HIDE DEF IInv, OwnInv, HomeInv, TypeOK, Undisturbed, Excluded, Owns, ProcOK, HomeUnlessRecorded, RecordIsHome, AllOrNothing
HIDE DEF Goto, Finish, FinishWith, FollowUp, Throw, Fault, Opens, Entry, Retry, DriverReloaded, Disabled

\* Every step keeps the invariant.
LEMMA StepInv ==
  ASSUME NoRescue, IInv, [Next]_vars
  PROVE  IInv'
<1>1. ASSUME UNCHANGED vars PROVE HomeInv'
  BY <1>1 DEF vars, IInv, HomeInv, Undisturbed, ProcOK, HomeUnlessRecorded,
              RecordIsHome, AllOrNothing
<1>2. ASSUME NEW p \in Procs, Step(p) PROVE HomeInv'
  BY <1>2, OpenInv, CloseInv, RescueNever DEF Step
<1>3. HomeInv'
  BY <1>1, <1>2, EnvironmentInv DEF Next
<1>4. OwnInv'
  BY StepOwn DEF IInv
<1>5. QED  BY <1>3, <1>4 DEF IInv

-----------------------------------------------------------------------------
(* What follows from it.                                                   *)

\* THEOREM: without the rescue action the inductive invariant always holds, for
\* any number of processes, displays, retries, failures and kills.
THEOREM Invariance == NoRescue => (Spec => []IInv)
<1>. SUFFICES ASSUME NoRescue PROVE Spec => []IInv
  OBVIOUS
<1>1. IInv /\ [Next]_vars => IInv'
  BY StepInv
<1>2. QED  BY InitInv, <1>1, PTL DEF Spec

\* THEOREM: whenever no recovery record is on disk, exactly the physical displays
\* the user chose are on, whatever was killed or failed before.
THEOREM NothingLost == NoRescue => (Spec => []HomeUnlessRecorded)
<1>. SUFFICES ASSUME NoRescue PROVE Spec => []HomeUnlessRecorded
  OBVIOUS
<1>1. IInv => HomeUnlessRecorded
  BY DEF IInv, HomeInv
<1>2. QED  BY Invariance, <1>1, PTL

\* THEOREM: a readable record always holds the user's own physical displays.
THEOREM RecordTrue == NoRescue => (Spec => []RecordIsHome)
<1>. SUFFICES ASSUME NoRescue PROVE Spec => []RecordIsHome
  OBVIOUS
<1>1. IInv => RecordIsHome
  BY DEF IInv, HomeInv
<1>2. QED  BY Invariance, <1>1, PTL

\* THEOREM: the user's physical displays are on or off as a whole, whatever
\* command stopped half way.
THEOREM NeverHalf == NoRescue => (Spec => []AllOrNothing)
<1>. SUFFICES ASSUME NoRescue PROVE Spec => []AllOrNothing
  OBVIOUS
<1>1. IInv => AllOrNothing
  BY DEF IInv, HomeInv
<1>2. QED  BY Invariance, <1>1, PTL

\* THEOREM: "the recovery record has been retained" is true of every failed start
\* and verification while nobody issues the rescue action: only that action,
\* which takes no lock, makes the message wrong.
THEOREM Retained == NoRescue => (Spec => RecordRetained)
<1>. SUFFICES ASSUME NoRescue PROVE Spec => RecordRetained
  OBVIOUS
<1>1. IInv /\ [Next]_vars
        => [\A p \in Procs : Opens(p) /\ RestoreFails(p) => record' # Absent]_vars
  BY DEF IInv, HomeInv, ProcOK, RestoreFails
<1>2. QED  BY Invariance, <1>1, PTL DEF Spec, RecordRetained

-----------------------------------------------------------------------------
(* The transaction implements DisplayPromise.                              *)

\* Only UserArranges changes what the user chose, and a step that touches the
\* record leaves the displays alone.
LEMMA OneThingAtATime ==
  ASSUME IInv, [Next]_vars
  PROVE  /\ home' = home \/ UserArranges
         /\ record' # record => layout' = layout
<1>1. CASE UNCHANGED vars
  BY <1>1 DEF vars
<1>2. ASSUME NEW p \in Procs, Open(p)
      PROVE  home' = home /\ (record' # record => layout' = layout)
  BY <1>2 DEF Open, AcquireLock, LockBusy, RefusePending, Capture, Truncate, WriteFirst,
              WriteSecond, SaveFails, PrepareMode, ActivateVirtualDisplay,
              VerifyVirtualDisplay, SetMode, SetModeFails, ActivationFails
<1>3. ASSUME NEW p \in Procs, Close(p)
      PROVE  home' = home /\ (record' # record => layout' = layout)
  BY <1>3 DEF Close, LookForRecord, Restore, RestoreFails, ClearRecovery, ClearFails,
              ChangeMode, DisableManagedVirtualDisplays, ApplyRemainingPaths,
              DisableFails
<1>4. ASSUME NEW p \in Procs, Kill(p) \/ (\E c \in Commands : Begin(p, c))
      PROVE  home' = home /\ record' = record
  BY <1>4 DEF Kill, Begin
<1>5. Reboot => home' = home /\ record' = record
  BY DEF Reboot
<1>6. UserArranges => record' = record
  BY DEF UserArranges
<1>7. QED  BY <1>1, <1>2, <1>3, <1>4, <1>5, <1>6, RescueNever DEF Next, Step

\* Every step is a step of the promise or leaves it alone.
LEMMA PromiseStep ==
  ASSUME IInv, IInv', [Next]_vars
  PROVE  [Promise!Next]_(Promise!vars)
<1>1. Lit(layout) \in SUBSET Physical /\ Lit(layout') \in SUBSET Physical
  OBVIOUS
<1>2. record = Absent => Lit(layout) = home
  BY DEF IInv, HomeInv, HomeUnlessRecorded
<1>3. record' = Absent => Lit(layout') = home'
  BY DEF IInv, HomeInv, HomeUnlessRecorded
<1>4. CASE UserArranges
  BY <1>4 DEF UserArranges, Promise!Next, Promise!UserArranges
<1>5. CASE home' = home
  <2>1. CASE record = Absent /\ record' = Absent
    BY <1>2, <1>3, <1>5, <2>1 DEF Promise!vars
  <2>2. CASE record = Absent /\ record' # Absent
    BY <1>2, <1>5, <2>2, OneThingAtATime DEF Promise!Next, Promise!Owe
  <2>3. CASE record # Absent /\ record' = Absent
    BY <1>3, <1>5, <2>3, OneThingAtATime DEF Promise!Next, Promise!Settle
  <2>4. CASE record # Absent /\ record' # Absent
    BY <1>1, <1>5, <2>4 DEF Promise!Next, Promise!Rearrange
  <2>5. QED  BY <2>1, <2>2, <2>3, <2>4
<1>6. QED  BY <1>4, <1>5, OneThingAtATime

\* THEOREM: the display transaction implements the promise: physical displays
\* change hands only while the layout that was found is owed, and the debt ends
\* only with that layout lit.
THEOREM Refinement == NoRescue => (Spec => KeepsPromise)
<1>. SUFFICES ASSUME NoRescue PROVE Spec => KeepsPromise
  OBVIOUS
<1>1. Init => Promise!Init
  BY DEF Init, Promise!Init
<1>2. IInv /\ IInv' /\ [Next]_vars => [Promise!Next]_(Promise!vars)
  BY PromiseStep
<1>3. QED  BY Invariance, <1>1, <1>2, PTL DEF Spec, KeepsPromise, Promise!Spec
=============================================================================
