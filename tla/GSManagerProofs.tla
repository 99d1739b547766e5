--------------------------- MODULE GSManagerProofs ---------------------------
(***************************************************************************)
(* Theorems about GSManager for every set of monitors and settings: the    *)
(* types of its variables and the consistency of the flags and copies that *)
(* the manager and its windows keep.                                       *)
(***************************************************************************)
EXTENDS GSManager, TLAPS

(***************************************************************************)
(* What the helpers do.                                                    *)
(***************************************************************************)
\* Showing windows leaves well-typed timers, windows and jobs, one of each
\* for every monitor shown, and never takes the lock away.
LEMMA ShowWindowsEffect ==
  ASSUME TypeOK, NEW ms \in SUBSET Monitors, NEW locked \in BOOLEAN,
         ShowWindows(ms, locked)
  PROVE  /\ lock_active' \in BOOLEAN
         /\ locked => lock_active'
         /\ lock_timer' \in BOOLEAN
         /\ cycle_timer' \in BOOLEAN
         /\ win' = [m \in ms |-> NewWindow(lock_active')]
         /\ win' \in [ms -> Window]
         /\ jobs' = [m \in ms |-> "INVALID"]
         /\ jobs' \in [ms -> JobStatus]
<1>. DEFINE after == locked \/ (ms # {} /\ WantsLock /\ prefs.lock_now)
<1>1. after \in BOOLEAN /\ lock_active' = after
  BY DEF ShowWindows, TypeOK, Prefs, WantsLock
<1>2. lock_timer' \in BOOLEAN
  BY DEF ShowWindows, TypeOK, Prefs, WantsLock
<1>3. cycle_timer' \in BOOLEAN
  BY DEF ShowWindows, TypeOK, Prefs, WantsLock
<1>4. NewWindow(after) \in Window
  BY <1>1 DEF NewWindow, Window, ChildState
<1>5. win' = [m \in ms |-> NewWindow(after)]
  BY DEF ShowWindows
<1>6. jobs' = [m \in ms |-> "INVALID"]
  BY DEF ShowWindows
<1>7. locked => after
  OBVIOUS
<1>. HIDE DEF after
<1>. QED
  BY <1>1, <1>2, <1>3, <1>4, <1>5, <1>6, <1>7 DEF JobStatus

\* Starting themes leaves a job as it was or running, and runs it only in a
\* window that was a candidate.
LEMMA StartInEffect ==
  ASSUME NEW js, js \in [DOMAIN js -> JobStatus], NEW candidates,
         StartIn(js, candidates)
  PROVE  /\ DOMAIN jobs' = DOMAIN js
         /\ jobs' \in [DOMAIN js -> JobStatus]
         /\ \A m \in DOMAIN js : jobs'[m] = js[m] \/ (m \in candidates /\ jobs'[m] = "RUNNING")
<1>1. PICK S \in SUBSET candidates :
        jobs' = [m \in DOMAIN js |-> IF m \in S THEN "RUNNING" ELSE js[m]]
  BY DEF StartIn
<1>. QED
  BY <1>1 DEF JobStatus

\* A change of one window's record leaves the windows well-typed.
LEMMA WindowUpdate ==
  ASSUME TypeOK, NEW m \in Windows, NEW r \in Window, win' = [win EXCEPT ![m] = r]
  PROVE  DOMAIN win' = Windows /\ win' \in [Windows -> Window]
  BY DEF TypeOK, Windows

\* What can become of a job.
LEMMA GrabTypes ==
  \A w \in Monitors \cup NotAMonitor, b \in BOOLEAN :
    GrabOf(w, b) \in [window : Monitors \cup NotAMonitor, no_pointer : BOOLEAN]
  BY DEF GrabOf

LEMMA JobTypes ==
  \A j \in JobStatus : Killed(j) \in JobStatus /\ Suspended(j) \in JobStatus
  BY DEF Killed, Suspended, HasProcess, JobStatus

-----------------------------------------------------------------------------
(***************************************************************************)
(* Types.                                                                  *)
(***************************************************************************)
LEMMA TypeInit == Init => TypeOK
<1>. SUFFICES ASSUME Init PROVE TypeOK
  OBVIOUS
<1>1. prefs \in Prefs
  BY PrefsAssumption DEF Init
<1>2. Windows = {} /\ win \in [Windows -> Window] /\ jobs \in [{} -> JobStatus]
  BY DEF Init, NoWindows, NoJobs, Windows
<1>3. grab \in [window : Monitors \cup NotAMonitor, no_pointer : BOOLEAN]
  BY DEF Init, GrabOf, NotAMonitor
<1>. QED
  BY <1>1, <1>2, <1>3 DEF Init, TypeOK

LEMMA TypeStep == TypeOK /\ [Next]_vars => TypeOK'
<1>. SUFFICES ASSUME TypeOK, [Next]_vars PROVE TypeOK'
  OBVIOUS
<1>. USE DEF settings, timers
<1>a. ASSUME NEW locked \in BOOLEAN, ActivateWith(locked) PROVE TypeOK'
  <2>1. (locked \/ (WantsLock /\ prefs.lock_now)) \in BOOLEAN /\ monitors \in SUBSET Monitors
    BY DEF TypeOK, WantsLock, Prefs
  <2>2. ShowWindows(monitors, locked \/ (WantsLock /\ prefs.lock_now))
    BY <1>a DEF ActivateWith
  <2>3. /\ lock_active' \in BOOLEAN /\ lock_timer' \in BOOLEAN /\ cycle_timer' \in BOOLEAN
        /\ win' \in [monitors -> Window] /\ jobs' \in [monitors -> JobStatus]
    BY <2>1, <2>2, ShowWindowsEffect
  <2>. QED
    BY <1>a, <2>1, <2>3 DEF ActivateWith, TypeOK, GrabOf, NotAMonitor, Windows
<1>b. ASSUME Deactivate, deferred' \in Nat PROVE TypeOK'
  BY <1>b DEF Deactivate, TypeOK, GrabAfterPopdown, GrabOf, NoGrab, NotAMonitor, NoJobs,
             NoWindows, Windows
<1>c. ASSUME EnableLocker, lock_timer' \in BOOLEAN PROVE TypeOK'
  BY <1>c, ZenonT(40) DEF EnableLocker, TypeOK, Windows, Window
<1>1. CASE Activate
  BY <1>1, <1>a DEF Activate, TypeOK
<1>2. CASE ActivateFails
  BY <1>2 DEF ActivateFails, TypeOK, vars, Windows
<1>3. CASE Deactivate /\ UNCHANGED deferred
  BY <1>3, <1>b DEF TypeOK
<1>4. CASE Lock
  BY <1>4, <1>a, <1>c DEF Lock, TypeOK
<1>5. CASE SetThrottled
  <2>1. DOMAIN jobs' = DOMAIN jobs /\ jobs' \in [DOMAIN jobs -> JobStatus]
    BY <1>5, StartInEffect, JobTypes DEF SetThrottled, TypeOK
  <2>. QED
    BY <1>5, <2>1 DEF SetThrottled, TypeOK, Windows
<1>c2. ASSUME Cycle PROVE TypeOK'
  <2>. DEFINE fresh == [m \in DOMAIN jobs |-> "INVALID"]
  <2>1. DOMAIN fresh = DOMAIN jobs /\ fresh \in [DOMAIN fresh -> JobStatus]
    BY DEF JobStatus
  <2>2. StartIn(fresh, Startable(fresh, win))
    BY <1>c2 DEF Cycle
  <2>3. DOMAIN jobs' = DOMAIN fresh /\ jobs' \in [DOMAIN fresh -> JobStatus]
    BY <2>1, <2>2, StartInEffect
  <2>. QED
    BY <1>c2, <2>1, <2>3 DEF Cycle, TypeOK, Windows
<1>d. ASSUME NEW m, RequestUnlock(m) PROVE TypeOK'
  <2>1. CASE RequestLeave(m)
    <3>. DEFINE leaving == [win[m] EXCEPT !.deactivated_idle = TRUE]
    <3>a. m \in Windows /\ win[m] \in Window
      BY <1>d DEF RequestUnlock, TypeOK, Windows
    <3>b. leaving \in Window
      BY <3>a DEF Window
    <3>c. win' = [win EXCEPT ![m] = leaving]
      BY <2>1 DEF RequestLeave
    <3>1. DOMAIN win' = Windows /\ win' \in [Windows -> Window]
      BY <3>a, <3>b, <3>c, WindowUpdate
    <3>. QED
      BY <2>1, <3>1 DEF RequestLeave, TypeOK, Windows
  <2>2. CASE RequestDialog(m)
    <3>1. DOMAIN win' = Windows /\ win' \in [Windows -> Window]
      BY <1>d, <2>2, ZenonT(40) DEF RequestUnlock, RequestDialog, WithDialogUp, TypeOK, Windows, Window
    <3>2. DOMAIN jobs' = DOMAIN jobs /\ jobs' \in [DOMAIN jobs -> JobStatus]
      BY <2>2, JobTypes DEF RequestDialog, HandleDialogUp, TypeOK
    <3>3. grab' \in [window : Monitors \cup NotAMonitor, no_pointer : BOOLEAN]
      BY <1>d, <2>2 DEF RequestUnlock, RequestDialog, HandleDialogUp, GrabOf, TypeOK
    <3>. QED
      BY <2>2, <3>1, <3>2, <3>3 DEF RequestDialog, HandleDialogUp, TypeOK, Windows
  <2>. QED
    BY <1>d, <2>1, <2>2 DEF RequestUnlock
<1>e. ASSUME NEW m \in Monitors, ReadEnd(m) PROVE TypeOK'
  <2>1. m \in Windows
    BY <1>e DEF ReadEnd
  <2>2. CASE FinishOk(m)
    BY <2>1, <2>2 DEF FinishOk, TypeOK, Windows, Window, ChildState
  <2>3. CASE PopdownDialog(m)
    <3>1. DOMAIN win' = Windows /\ win' \in [Windows -> Window]
      <4>1. /\ DOMAIN WithDialogDown(m) = Windows
            /\ WithDialogDown(m) \in [Windows -> Window]
        <5>. DEFINE r == [win[m] EXCEPT !.response = "CANCEL", !.child = "none",
                                        !.dialog_up = FALSE, !.popup_idle = FALSE]
        <5>1. r \in Window
          <6>1. "none" \in ChildState /\ win[m] \in Window
            BY <2>1 DEF TypeOK, Windows, ChildState
          <6>. QED
            BY <6>1 DEF Window
        <5>2. WithDialogDown(m) = [win EXCEPT ![m] = r]
          BY <2>1 DEF WithDialogDown, TypeOK, Windows
        <5>. QED
          BY <2>1, <5>1, <5>2 DEF TypeOK, Windows
      <4>. QED
        BY <2>3, <4>1 DEF PopdownDialog, Windows, Window
    <3>2. DOMAIN jobs' = DOMAIN jobs /\ jobs' \in [DOMAIN jobs -> JobStatus]
      <4>. DEFINE resumed == [w \in DOMAIN jobs |-> IF jobs[w] = "STOPPED" THEN "RUNNING" ELSE jobs[w]]
      <4>1. DOMAIN resumed = DOMAIN jobs /\ resumed \in [DOMAIN resumed -> JobStatus]
        BY DEF TypeOK, JobStatus
      <4>2. \/ UNCHANGED jobs
            \/ StartIn(resumed, Startable(resumed, win))
        BY <2>3 DEF PopdownDialog, HandleDialogDown
      <4>3. CASE UNCHANGED jobs
        BY <4>3 DEF TypeOK
      <4>4. CASE StartIn(resumed, Startable(resumed, win))
        BY <4>1, <4>4, StartInEffect
      <4>. QED
        BY <4>2, <4>3, <4>4
    <3>. QED
      BY <2>3, <3>1, <3>2 DEF PopdownDialog, HandleDialogDown, TypeOK, Windows, GrabOf
  <2>. QED
    BY <1>e, <2>2, <2>3 DEF ReadEnd
<1>6. CASE Cycle
  BY <1>6, <1>c2
<1>7. ASSUME NEW m \in monitors, RequestUnlock(m) PROVE TypeOK'
  BY <1>7, <1>d
<1>8. ASSUME NEW w \in Windows, NEW m \in monitors, Activity(w, m) PROVE TypeOK'
  BY <1>8, <1>d DEF Activity
<1>9. ASSUME NEW m \in Monitors, PopupDialogIdle(m) PROVE TypeOK'
  <2>1. DOMAIN win' = Windows /\ win' \in [Windows -> Window]
    <3>1. PICK c \in ChildState :
            win' = [win EXCEPT ![m].popup_idle = FALSE, ![m].child = c]
      BY <1>9 DEF PopupDialogIdle, ChildState, Watched, Talking
    <3>. QED
      <4>. DEFINE r == [win[m] EXCEPT !.popup_idle = FALSE, !.child = c]
      <4>1. m \in Windows /\ r \in Window
        BY <1>9 DEF PopupDialogIdle, TypeOK, Windows, Window
      <4>2. win' = [win EXCEPT ![m] = r]
        BY <3>1, <4>1 DEF TypeOK, Windows
      <4>. QED
        BY <4>1, <4>2, WindowUpdate
  <2>. QED
    BY <1>9, <2>1 DEF PopupDialogIdle, TypeOK, Windows
<1>10. ASSUME NEW m \in Monitors, DialogSpeaks(m) PROVE TypeOK'
  BY <1>10 DEF DialogSpeaks, TypeOK, Windows, Window, ChildState, Watched
<1>11. ASSUME NEW m \in Monitors, ReadWindowId(m) PROVE TypeOK'
  BY <1>11 DEF ReadWindowId, TypeOK, Windows, Window, ChildState, Watched, Talking
<1>12. ASSUME NEW m \in Monitors, ReadQuit(m) PROVE TypeOK'
  BY <1>12 DEF ReadQuit, TypeOK, Windows, Window, ChildState, Watched, Spoken
<1>13. ASSUME NEW m \in Monitors, EmitDeactivatedIdle(m) PROVE TypeOK'
  <2>1. DOMAIN win' = Windows /\ win' \in [Windows -> Window]
    <3>1. m \in Windows /\ win[m] \in Window /\ win' = [win EXCEPT ![m] = [win[m] EXCEPT !.deactivated_idle = FALSE]]
      BY <1>13 DEF EmitDeactivatedIdle, TypeOK, Windows
    <3>2. [win[m] EXCEPT !.deactivated_idle = FALSE] \in Window
      BY <3>1 DEF Window
    <3>. QED
      BY <3>1, <3>2, WindowUpdate
  <2>. QED
    BY <1>13, <2>1 DEF EmitDeactivatedIdle, TypeOK, Windows
<1>14. CASE WindowDeactivatedIdle
  BY <1>14, <1>b DEF WindowDeactivatedIdle, TypeOK, Windows
<1>15. ASSUME NEW m \in Monitors, MapEvent(m) PROVE TypeOK'
  <2>1. DOMAIN jobs' = DOMAIN jobs /\ jobs' \in [DOMAIN jobs -> JobStatus]
    BY <1>15, StartInEffect DEF MapEvent, TypeOK
  <2>2. DOMAIN win' = Windows /\ win' \in [Windows -> Window]
    <3>1. m \in Windows /\ win[m] \in Window /\ win' = [win EXCEPT ![m] = [win[m] EXCEPT !.mapped = TRUE]]
      BY <1>15 DEF MapEvent, TypeOK, Windows
    <3>2. [win[m] EXCEPT !.mapped = TRUE] \in Window
      BY <3>1 DEF Window
    <3>. QED
      BY <3>1, <3>2, WindowUpdate
  <2>3. grab' \in [window : Monitors \cup NotAMonitor, no_pointer : BOOLEAN]
    <3>1. grab' \in {grab, GrabOf(m, FALSE)}
      BY <1>15 DEF MapEvent
    <3>. QED
      BY <3>1, GrabTypes, ZenonT(40) DEF TypeOK
  <2>. QED
    BY <1>15, <2>1, <2>2, <2>3 DEF MapEvent, TypeOK, Windows
<1>16. ASSUME NEW m \in Monitors, Obscured(m) PROVE TypeOK'
  <2>1. DOMAIN win' = Windows /\ win' \in [Windows -> Window]
    <3>1. m \in Windows /\ win[m] \in Window /\ win' = [win EXCEPT ![m] = [win[m] EXCEPT !.obscured = TRUE]]
      BY <1>16 DEF Obscured, TypeOK, Windows
    <3>2. [win[m] EXCEPT !.obscured = TRUE] \in Window
      BY <3>1 DEF Window
    <3>. QED
      BY <3>1, <3>2, WindowUpdate
  <2>2. DOMAIN jobs' = DOMAIN jobs /\ jobs' \in [DOMAIN jobs -> JobStatus]
    BY <1>16, JobTypes DEF Obscured, TypeOK
  <2>. QED
    BY <1>16, <2>1, <2>2 DEF Obscured, TypeOK, Windows
<1>17. ASSUME NEW m \in Monitors, Unobscured(m) PROVE TypeOK'
  <2>1. DOMAIN jobs' = DOMAIN jobs /\ jobs' \in [DOMAIN jobs -> JobStatus]
    BY <1>17, StartInEffect DEF Unobscured, TypeOK
  <2>2. DOMAIN win' = Windows /\ win' \in [Windows -> Window]
    <3>1. m \in Windows /\ win[m] \in Window /\ win' = [win EXCEPT ![m] = [win[m] EXCEPT !.obscured = FALSE]]
      BY <1>17 DEF Unobscured, TypeOK, Windows
    <3>2. [win[m] EXCEPT !.obscured = FALSE] \in Window
      BY <3>1 DEF Window
    <3>. QED
      BY <3>1, <3>2, WindowUpdate
  <2>. QED
    BY <1>17, <2>1, <2>2 DEF Unobscured, TypeOK, Windows
<1>18. ASSUME NEW m \in Monitors, GrabBroken(m) PROVE TypeOK'
  BY <1>18 DEF GrabBroken, NoGrab, NotAMonitor, TypeOK, Windows
<1>19. ASSUME NEW m \in Monitors, ThemeDies(m) PROVE TypeOK'
  BY <1>19 DEF ThemeDies, JobStatus, TypeOK, Windows
<1>20. ASSUME NEW ms \in SUBSET Monitors, MonitorsChanged(ms) PROVE TypeOK'
  <2>1. CASE ~active
    BY <1>20, <2>1 DEF MonitorsChanged, TypeOK, Windows
  <2>2. CASE active
    <3>1. ShowWindows(ms, lock_active) /\ lock_active \in BOOLEAN
      BY <1>20, <2>2 DEF MonitorsChanged, TypeOK
    <3>2. /\ lock_active' \in BOOLEAN /\ lock_timer' \in BOOLEAN /\ cycle_timer' \in BOOLEAN
          /\ win' \in [ms -> Window] /\ jobs' \in [ms -> JobStatus]
      BY <3>1, ShowWindowsEffect
    <3>3. /\ grab' \in [window : Monitors \cup NotAMonitor, no_pointer : BOOLEAN]
          /\ dialog_up' \in BOOLEAN
      <4>1. grab' \in {GrabOf("overlay", FALSE), GrabOf("none", FALSE)}
        BY <1>20, <2>2 DEF MonitorsChanged, GrabAfterPopdown
      <4>2. {"overlay", "none"} \subseteq Monitors \cup NotAMonitor
        BY DEF NotAMonitor
      <4>. QED
        BY <1>20, <2>2, <4>1, <4>2, GrabTypes, ZenonT(40) DEF MonitorsChanged, TypeOK
    <3>. QED
      BY <1>20, <2>2, <3>2, <3>3 DEF MonitorsChanged, TypeOK, Windows
  <2>. QED
    BY <2>1, <2>2 DEF TypeOK
<1>21. CASE LockTimeout
  BY <1>21, <1>c DEF LockTimeout
<1>22. CASE CycleTimeout
  BY <1>22, <1>c2 DEF CycleTimeout
<1>23. CASE PrefsChanged
  BY <1>23, PrefsAssumption DEF PrefsChanged, TypeOK, Windows
<1>24. CASE UNCHANGED vars
  BY <1>24 DEF vars, TypeOK, Windows
<1>25. \A m \in Monitors : monitors \cup {m} \in SUBSET Monitors /\ monitors \ {m} \in SUBSET Monitors
  BY DEF TypeOK
<1>. QED
  BY <1>1, <1>2, <1>3, <1>4, <1>5, <1>6, <1>7, <1>8, <1>9, <1>10, <1>11, <1>12, <1>13,
     <1>14, <1>15, <1>16, <1>17, <1>18, <1>19, <1>20, <1>21, <1>22, <1>23, <1>24, <1>25, <1>e
  DEF Next, Call, Environment, ReadDialog

\* TypeOK, for every set of monitors and every choice of settings.
THEOREM TypeCorrect == Spec => []TypeOK
  BY TypeInit, TypeStep, PTL DEF Spec

-----------------------------------------------------------------------------
(***************************************************************************)
(* Consistency of the flags.  The invariant is the conjunction of the      *)
(* properties about them and of DialogHeld, without which a dialog that    *)
(* answers could find its window's flag down.                              *)
(***************************************************************************)
\* A dialog process, or one about to be started, has its window's flag up.
DialogHeld ==
  \A m \in Windows : win[m].popup_idle \/ win[m].child # "none" => win[m].dialog_up

Flags ==
  /\ InactiveIsClean
  /\ DialogAgreement
  /\ LockCopiesAgree
  /\ OnlyDialogListens
  /\ DialogOnlyWhenLocked
  /\ DialogHeld

\* A step that leaves the flags, their copies and the timers alone.
Dull ==
  /\ UNCHANGED <<monitors, active, lock_active, dialog_up, lock_timer, cycle_timer>>
  /\ DOMAIN win' = DOMAIN win
  /\ DOMAIN jobs' = DOMAIN jobs
  /\ ~active => grab' = grab
  /\ \A m \in DOMAIN win :
       /\ win'[m].dialog_up = win[m].dialog_up
       /\ win'[m].lock_active = win[m].lock_active
       /\ win'[m].sensitive = win[m].sensitive
       /\ win'[m].popup_idle \/ win'[m].child # "none"
            => win[m].popup_idle \/ win[m].child # "none"

LEMMA FlagsInit == Init => Flags
<1>. SUFFICES ASSUME Init PROVE Flags
  OBVIOUS
<1>1. Windows = {} /\ DialogWindows = {}
  BY DEF Init, NoWindows, Windows, DialogWindows
<1>2. InactiveIsClean
  BY DEF Init, InactiveIsClean, GrabOf
<1>. QED
  BY <1>1, <1>2 DEF Flags, Init, DialogAgreement, LockCopiesAgree, OnlyDialogListens,
                    DialogOnlyWhenLocked, DialogHeld

LEMMA DullKeepsFlags ==
  ASSUME TypeOK, TypeOK', Flags, Dull
  PROVE  Flags'
<1>1. Windows' = Windows
  BY DEF Dull, Windows
<1>2. InactiveIsClean'
  <2>1. CASE active
    BY <2>1, <1>1 DEF Flags, InactiveIsClean, Dull
  <2>2. CASE ~active
    <3>1. DOMAIN win' = {} /\ DOMAIN jobs' = {}
      BY <2>2 DEF Flags, InactiveIsClean, Dull, NoWindows, NoJobs
    <3>2. win' = NoWindows /\ jobs' = NoJobs
      BY <3>1 DEF TypeOK, NoWindows, NoJobs, Windows
    <3>. QED
      BY <2>2, <3>2 DEF Flags, InactiveIsClean, Dull, NoWindows, NoJobs
  <2>. QED
    BY <2>1, <2>2
<1>3. DialogWindows' = DialogWindows
  BY <1>1 DEF Dull, DialogWindows, Windows
<1>4. DialogAgreement'
  BY <1>3 DEF Flags, DialogAgreement, Dull
<1>5. LockCopiesAgree' /\ OnlyDialogListens' /\ DialogHeld'
  BY <1>1 DEF Flags, LockCopiesAgree, OnlyDialogListens, DialogHeld, Dull, Windows
<1>6. DialogOnlyWhenLocked'
  BY DEF Flags, DialogOnlyWhenLocked, Dull
<1>. QED
  BY <1>2, <1>4, <1>5, <1>6 DEF Flags

\* Windows shown afresh have no dialog and know whether the saver is locked.
LEMMA FreshWindowsFlags ==
  ASSUME TypeOK, NEW ms \in SUBSET Monitors, NEW locked \in BOOLEAN,
         ShowWindows(ms, locked), active', monitors' = ms, dialog_up' = FALSE
  PROVE  Flags'
<1>1. /\ win' = [m \in ms |-> NewWindow(lock_active')]
      /\ jobs' = [m \in ms |-> "INVALID"]
      /\ lock_active' \in BOOLEAN
  BY ShowWindowsEffect
<1>2. DOMAIN win' = ms /\ DOMAIN jobs' = ms
  BY <1>1
<1>3. \A m \in ms : /\ win'[m].dialog_up = FALSE
                    /\ win'[m].lock_active = lock_active'
                    /\ win'[m].sensitive = TRUE
                    /\ win'[m].popup_idle = FALSE
                    /\ win'[m].child = "none"
  BY <1>1 DEF NewWindow
<1>4. DialogWindows' = {}
  BY <1>2, <1>3 DEF DialogWindows, Windows
<1>. QED
  BY <1>2, <1>3, <1>4 DEF Flags, InactiveIsClean, DialogAgreement, LockCopiesAgree,
     OnlyDialogListens, DialogOnlyWhenLocked, DialogHeld, Windows

LEMMA DeactivateFlags ==
  ASSUME TypeOK, Deactivate
  PROVE  Flags'
<1>1. Windows' = {} /\ DialogWindows' = {}
  BY DEF Deactivate, NoWindows, Windows, DialogWindows
<1>2. grab'.window = "none"
  BY DEF Deactivate, GrabAfterPopdown, NoGrab, GrabOf, TypeOK
<1>3. InactiveIsClean'
  BY <1>2 DEF Deactivate, InactiveIsClean
<1>. QED
  BY <1>1, <1>3 DEF Flags, Deactivate, DialogAgreement, LockCopiesAgree, OnlyDialogListens,
                    DialogOnlyWhenLocked, DialogHeld

LEMMA EnableLockerFlags ==
  ASSUME TypeOK, TypeOK', Flags, EnableLocker, active \/ lock_timer' = FALSE
  PROVE  Flags'
<1>1. Windows' = Windows /\ DOMAIN jobs' = DOMAIN jobs
  BY DEF EnableLocker, Windows
<1>2. \A m \in Windows : /\ win'[m].dialog_up = win[m].dialog_up
                         /\ win'[m].lock_active = TRUE
                         /\ win'[m].sensitive = win[m].sensitive
                         /\ win'[m].popup_idle = win[m].popup_idle
                         /\ win'[m].child = win[m].child
  BY DEF EnableLocker, TypeOK, Windows, Window
<1>3. DialogWindows' = DialogWindows
  BY <1>1, <1>2 DEF DialogWindows
<1>4. InactiveIsClean'
  <2>1. CASE active
    BY <2>1, <1>1 DEF Flags, InactiveIsClean, EnableLocker, settings
  <2>2. CASE ~active
    <3>1. DOMAIN win' = {}
      BY <2>2, <1>1 DEF Flags, InactiveIsClean, NoWindows, Windows
    <3>2. win' = NoWindows
      BY <3>1 DEF TypeOK, NoWindows, Windows
    <3>. QED
      BY <2>2, <3>2 DEF Flags, InactiveIsClean, EnableLocker, NoJobs
  <2>. QED
    BY <2>1, <2>2
<1>5. dialog_up' = dialog_up /\ active' = active /\ lock_active' = TRUE
  BY DEF EnableLocker
<1>6. DialogAgreement'
  BY <1>3, <1>5 DEF Flags, DialogAgreement
<1>7. LockCopiesAgree' /\ OnlyDialogListens' /\ DialogHeld'
  BY <1>1, <1>2, <1>5 DEF Flags, LockCopiesAgree, OnlyDialogListens, DialogHeld
<1>8. DialogOnlyWhenLocked'
  BY <1>5 DEF Flags, DialogOnlyWhenLocked
<1>. QED
  BY <1>4, <1>6, <1>7, <1>8 DEF Flags

LEMMA RequestDialogFlags ==
  ASSUME TypeOK, Flags, active, ~dialog_up, NEW m \in Windows, RequestDialog(m)
  PROVE  Flags'
<1>1. Windows' = Windows /\ DOMAIN jobs' = DOMAIN jobs
  BY DEF RequestDialog, WithDialogUp, HandleDialogUp, Windows
<1>2. DialogWindows = {}
  BY DEF Flags, DialogAgreement
<1>3. /\ win'[m].dialog_up
      /\ win'[m].lock_active = win[m].lock_active
      /\ win'[m].sensitive = win[m].sensitive
  BY DEF RequestDialog, WithDialogUp, TypeOK, Windows, Window
<1>4. \A w \in Windows \ {m} : /\ win'[w].dialog_up = win[w].dialog_up
                               /\ win'[w].lock_active = win[w].lock_active
                               /\ win'[w].sensitive = FALSE
                               /\ win'[w].popup_idle = win[w].popup_idle
                               /\ win'[w].child = win[w].child
  BY ZenonT(40) DEF RequestDialog, WithDialogUp, TypeOK, Windows, Window
<1>5. \A w \in Windows : ~win[w].dialog_up /\ win[w].sensitive
  BY <1>2 DEF Flags, OnlyDialogListens, DialogWindows
<1>6. DialogWindows' = {m}
  BY <1>1, <1>3, <1>4, <1>5 DEF DialogWindows, TypeOK, Windows, Window
<1>7. dialog_up' = TRUE /\ lock_active' = lock_active /\ win[m].lock_active
  BY DEF RequestDialog, HandleDialogUp
<1>8. InactiveIsClean'
  BY <1>1 DEF Flags, InactiveIsClean, RequestDialog, HandleDialogUp, settings, timers
<1>9. DialogAgreement'
  BY <1>6, <1>7 DEF DialogAgreement
<1>10. LockCopiesAgree'
  BY <1>1, <1>3, <1>4, <1>7 DEF Flags, LockCopiesAgree
<1>12. DialogOnlyWhenLocked'
  BY <1>7 DEF Flags, LockCopiesAgree, DialogOnlyWhenLocked, RequestDialog
<1>11. OnlyDialogListens' /\ DialogHeld'
  BY <1>1, <1>3, <1>4, <1>5, <1>7 DEF Flags, OnlyDialogListens, DialogHeld
<1>. QED
  BY <1>8, <1>9, <1>10, <1>11, <1>12 DEF Flags

LEMMA PopdownDialogFlags ==
  ASSUME TypeOK, Flags, NEW m \in Windows, win[m].child # "none", PopdownDialog(m)
  PROVE  Flags'
<1>0. DOMAIN jobs' = DOMAIN jobs
  <2>. DEFINE resumed == [w \in DOMAIN jobs |-> IF jobs[w] = "STOPPED" THEN "RUNNING" ELSE jobs[w]]
  <2>1. DOMAIN resumed = DOMAIN jobs /\ resumed \in [DOMAIN resumed -> JobStatus]
    BY DEF TypeOK, JobStatus
  <2>2. UNCHANGED jobs \/ StartIn(resumed, Startable(resumed, win))
    BY DEF PopdownDialog, HandleDialogDown
  <2>. QED
    BY <2>1, <2>2, StartInEffect
<1>1. Windows' = Windows
  BY DEF PopdownDialog, Windows
<1>2. dialog_up /\ DialogWindows = {m} /\ active
  BY DEF Flags, DialogHeld, DialogAgreement, DialogWindows, DialogOnlyWhenLocked
<1>. DEFINE down == [win[m] EXCEPT !.response = "CANCEL", !.child = "none",
                                   !.dialog_up = FALSE, !.popup_idle = FALSE]
<1>a. win'[m] = [down EXCEPT !.sensitive = TRUE]
  BY DEF PopdownDialog, WithDialogDown, TypeOK, Windows
<1>3. /\ ~win'[m].dialog_up
      /\ ~win'[m].popup_idle
      /\ win'[m].child = "none"
      /\ win'[m].lock_active = win[m].lock_active
  BY <1>a DEF TypeOK, Windows, Window
<1>4. \A w \in Windows \ {m} : /\ win'[w].dialog_up = win[w].dialog_up
                               /\ win'[w].lock_active = win[w].lock_active
                               /\ win'[w].popup_idle = win[w].popup_idle
                               /\ win'[w].child = win[w].child
  BY DEF PopdownDialog, WithDialogDown, TypeOK, Windows, Window
<1>5. \A w \in Windows : win'[w].sensitive
  BY DEF PopdownDialog, WithDialogDown, TypeOK, Windows, Window
<1>6. DialogWindows' = {}
  BY <1>1, <1>2, <1>3, <1>4 DEF DialogWindows
<1>7. dialog_up' = FALSE /\ lock_active' = lock_active
  BY DEF PopdownDialog, HandleDialogDown
<1>8. InactiveIsClean'
  BY <1>0, <1>1, <1>2 DEF Flags, InactiveIsClean, PopdownDialog, settings, timers
<1>9. DialogAgreement'
  BY <1>6, <1>7 DEF DialogAgreement
<1>10. LockCopiesAgree' /\ DialogOnlyWhenLocked'
  BY <1>1, <1>3, <1>4, <1>7 DEF Flags, LockCopiesAgree, DialogOnlyWhenLocked
<1>11. OnlyDialogListens' /\ DialogHeld'
  BY <1>1, <1>3, <1>4, <1>5, <1>7 DEF Flags, OnlyDialogListens, DialogHeld
<1>. QED
  BY <1>8, <1>9, <1>10, <1>11 DEF Flags

LEMMA FlagsStep == TypeOK /\ TypeOK' /\ Flags /\ [Next]_vars => Flags'
<1>. SUFFICES ASSUME TypeOK, TypeOK', Flags, [Next]_vars PROVE Flags'
  OBVIOUS
<1>. USE DEF settings, timers
<1>a. ASSUME NEW locked \in BOOLEAN, ActivateWith(locked) PROVE Flags'
  <2>. DEFINE now == locked \/ (WantsLock /\ prefs.lock_now)
  <2>1. now \in BOOLEAN /\ monitors \in SUBSET Monitors
    BY DEF TypeOK, WantsLock, Prefs
  <2>2. ShowWindows(monitors, now) /\ active' /\ monitors' = monitors /\ dialog_up' = FALSE
    BY <1>a DEF ActivateWith, Flags, InactiveIsClean, TypeOK
  <2>. HIDE DEF now
  <2>. QED
    BY <2>1, <2>2, FreshWindowsFlags
<1>b. ASSUME Dull PROVE Flags'
  BY <1>b, DullKeepsFlags
<1>c. ASSUME Cycle PROVE Dull
  <2>. DEFINE fresh == [m \in DOMAIN jobs |-> "INVALID"]
  <2>1. DOMAIN fresh = DOMAIN jobs /\ fresh \in [DOMAIN fresh -> JobStatus]
    BY DEF JobStatus
  <2>2. StartIn(fresh, Startable(fresh, win))
    BY <1>c DEF Cycle
  <2>3. DOMAIN jobs' = DOMAIN jobs
    BY <2>1, <2>2, StartInEffect
  <2>. QED
    BY <1>c, <2>3 DEF Cycle, Dull
<1>d. ASSUME NEW m, RequestUnlock(m) PROVE Flags'
  <2>1. CASE RequestLeave(m)
    BY <1>b, <1>d, <2>1 DEF RequestUnlock, RequestLeave, Dull, TypeOK, Windows, Window
  <2>. QED
    BY <1>d, <2>1, RequestDialogFlags DEF RequestUnlock
<1>1. CASE Activate
  BY <1>1, <1>a DEF Activate, TypeOK
<1>2. CASE ActivateFails
  BY <1>2, <1>b DEF ActivateFails, Dull, vars
<1>3. CASE Deactivate
  BY <1>3, DeactivateFlags
<1>4. CASE Lock
  <2>1. CASE ActivateWith(TRUE)
    BY <2>1, <1>a
  <2>2. CASE EnableLocker /\ UNCHANGED lock_timer
    <3>1. active \/ lock_timer' = FALSE
      BY <2>2 DEF Flags, InactiveIsClean, TypeOK
    <3>. QED
      BY <2>2, <3>1, EnableLockerFlags
  <2>. QED
    BY <1>4, <2>1, <2>2 DEF Lock
<1>5. CASE SetThrottled
  <2>1. DOMAIN jobs' = DOMAIN jobs
    BY <1>5, StartInEffect DEF SetThrottled, TypeOK
  <2>. QED
    BY <1>5, <1>b, <2>1 DEF SetThrottled, Dull
<1>6. CASE Cycle
  BY <1>6, <1>b, <1>c
<1>7. ASSUME NEW m \in monitors, RequestUnlock(m) PROVE Flags'
  BY <1>7, <1>d
<1>8. ASSUME NEW w \in Windows, NEW m \in monitors, Activity(w, m) PROVE Flags'
  BY <1>8, <1>d DEF Activity
<1>9. ASSUME NEW m \in Monitors, PopupDialogIdle(m) PROVE Flags'
  BY <1>9, <1>b DEF PopupDialogIdle, Dull, TypeOK, Windows, Window
<1>10. ASSUME NEW m \in Monitors, DialogSpeaks(m) PROVE Flags'
  BY <1>10, <1>b DEF DialogSpeaks, Dull, Talking, TypeOK, Windows, Window
<1>11. ASSUME NEW m \in Monitors, ReadWindowId(m) PROVE Flags'
  BY <1>11, <1>b DEF ReadWindowId, Dull, TypeOK, Windows, Window
<1>12. ASSUME NEW m \in Monitors, ReadQuit(m) PROVE Flags'
  BY <1>12, <1>b DEF ReadQuit, Dull, TypeOK, Windows, Window
<1>13. ASSUME NEW m \in Monitors, ReadEnd(m) PROVE Flags'
  <2>1. m \in Windows /\ win[m].child \in {"ok", "cancel", "exited"}
    BY <1>13 DEF ReadEnd
  <2>2. CASE FinishOk(m)
    BY <2>1, <2>2, <1>b DEF FinishOk, Dull, TypeOK, Windows, Window
  <2>3. CASE PopdownDialog(m)
    BY <2>1, <2>3, PopdownDialogFlags
  <2>. QED
    BY <1>13, <2>2, <2>3 DEF ReadEnd
<1>14. ASSUME NEW m \in Monitors, EmitDeactivatedIdle(m) PROVE Flags'
  BY <1>14, <1>b DEF EmitDeactivatedIdle, Dull, TypeOK, Windows, Window
<1>15. CASE WindowDeactivatedIdle
  BY <1>15, <1>b, DeactivateFlags DEF WindowDeactivatedIdle, Dull
<1>16. ASSUME NEW m \in Monitors, MapEvent(m) PROVE Flags'
  <2>1. DOMAIN jobs' = DOMAIN jobs
    BY <1>16, StartInEffect DEF MapEvent, TypeOK
  <2>2. active
    BY <1>16 DEF MapEvent, Flags, InactiveIsClean, NoWindows, Windows
  <2>. QED
    BY <1>16, <1>b, <2>1, <2>2 DEF MapEvent, Dull, TypeOK, Windows, Window
<1>17. ASSUME NEW m \in Monitors, Obscured(m) PROVE Flags'
  BY <1>17, <1>b DEF Obscured, Dull, TypeOK, Windows, Window
<1>18. ASSUME NEW m \in Monitors, Unobscured(m) PROVE Flags'
  <2>1. DOMAIN jobs' = DOMAIN jobs
    BY <1>18, StartInEffect DEF Unobscured, TypeOK
  <2>. QED
    BY <1>18, <1>b, <2>1 DEF Unobscured, Dull, TypeOK, Windows, Window
<1>19. ASSUME NEW m \in Monitors, GrabBroken(m) PROVE Flags'
  <2>1. active
    BY <1>19 DEF GrabBroken, Flags, InactiveIsClean, NoWindows, Windows
  <2>. QED
    BY <1>19, <1>b, <2>1 DEF GrabBroken, Dull
<1>20. ASSUME NEW m \in Monitors, ThemeDies(m) PROVE Flags'
  BY <1>20, <1>b DEF ThemeDies, Dull
<1>21. ASSUME NEW ms \in SUBSET Monitors, MonitorsChanged(ms) PROVE Flags'
  <2>1. CASE ~active
    <3>1. UNCHANGED <<active, lock_active, dialog_up, timers, win, jobs, grab>>
      BY <1>21, <2>1 DEF MonitorsChanged
    <3>. QED
      BY <2>1, <3>1 DEF Flags, InactiveIsClean, DialogAgreement, DialogWindows, LockCopiesAgree,
         OnlyDialogListens, DialogOnlyWhenLocked, DialogHeld, Windows, NoWindows, NoJobs
  <2>2. CASE active
    <3>1. lock_active \in BOOLEAN /\ ShowWindows(ms, lock_active) /\ active' /\ monitors' = ms
      BY <1>21, <2>2 DEF MonitorsChanged, TypeOK
    <3>2. dialog_up' = FALSE
      BY <1>21, <2>2 DEF MonitorsChanged, Flags, DialogAgreement
    <3>. QED
      BY <3>1, <3>2, FreshWindowsFlags
  <2>. QED
    BY <2>1, <2>2
<1>22. CASE LockTimeout
  BY <1>22, EnableLockerFlags DEF LockTimeout
<1>23. CASE CycleTimeout
  BY <1>23, <1>b, <1>c DEF CycleTimeout
<1>24. CASE PrefsChanged
  BY <1>24, <1>b DEF PrefsChanged, Dull
<1>25. CASE UNCHANGED vars
  BY <1>25, <1>b DEF vars, Dull
<1>26. \A m \in Monitors : monitors \cup {m} \in SUBSET Monitors /\ monitors \ {m} \in SUBSET Monitors
  BY DEF TypeOK
<1>. QED
  BY <1>1, <1>2, <1>3, <1>4, <1>5, <1>6, <1>7, <1>8, <1>9, <1>10, <1>11, <1>12, <1>13,
     <1>14, <1>15, <1>16, <1>17, <1>18, <1>19, <1>20, <1>21, <1>22, <1>23, <1>24, <1>25, <1>26
  DEF Next, Call, Environment, ReadDialog

LEMMA FlagsInvariant == Spec => [](TypeOK /\ Flags)
<1>1. Init => TypeOK /\ Flags
  BY TypeInit, FlagsInit
<1>2. TypeOK /\ Flags /\ [Next]_vars => (TypeOK /\ Flags)'
  BY TypeStep, FlagsStep
<1>. QED
  BY <1>1, <1>2, PTL DEF Spec

\* The manager and its windows never disagree about the dialog, and only one
\* window has it up.
THEOREM DialogsAgree == Spec => []DialogAgreement
<1>1. TypeOK /\ Flags => DialogAgreement
  BY DEF Flags
<1>. QED
  BY <1>1, FlagsInvariant, PTL

\* No window's copy of lock_active is ever out of date.
THEOREM LockCopies == Spec => []LockCopiesAgree
<1>1. TypeOK /\ Flags => LockCopiesAgree
  BY DEF Flags
<1>. QED
  BY <1>1, FlagsInvariant, PTL

\* Exactly the windows that should take input do.
THEOREM Listeners == Spec => []OnlyDialogListens
<1>1. TypeOK /\ Flags => OnlyDialogListens
  BY DEF Flags
<1>. QED
  BY <1>1, FlagsInvariant, PTL

\* A deactivation leaves nothing behind.
THEOREM CleanWhenInactive == Spec => []InactiveIsClean
<1>1. TypeOK /\ Flags => InactiveIsClean
  BY DEF Flags
<1>. QED
  BY <1>1, FlagsInvariant, PTL

\* The dialog is up only while the saver is locked.
THEOREM DialogImpliesLock == Spec => []DialogOnlyWhenLocked
<1>1. TypeOK /\ Flags => DialogOnlyWhenLocked
  BY DEF Flags
<1>. QED
  BY <1>1, FlagsInvariant, PTL

-----------------------------------------------------------------------------
(***************************************************************************)
(* Themes.  That none runs in a window nobody sees is inductive only       *)
(* together with the same fact about stopped ones: they are resumed        *)
(* without a look at the window.                                           *)
(***************************************************************************)
NoHiddenTheme == \A m \in DOMAIN jobs : HasProcess(jobs[m]) => ~win[m].obscured

Themes == ThemesQuiet /\ NoHiddenTheme

\* A step that themes do not notice.
Unnoticed ==
  /\ UNCHANGED <<jobs, dialog_up, throttled>>
  /\ \A m \in DOMAIN win : win'[m].obscured = win[m].obscured

LEMMA JobsOfWindows == Flags => DOMAIN jobs = Windows
<1>1. CASE active
  BY <1>1 DEF Flags, InactiveIsClean
<1>2. CASE ~active
  BY <1>2 DEF Flags, InactiveIsClean, NoJobs, NoWindows, Windows
<1>. QED
  BY <1>1, <1>2

\* Starting themes is harmless when nothing blocks them and only windows
\* that are seen are candidates.
LEMMA StartInKeepsThemes ==
  ASSUME NEW js, js \in [DOMAIN js -> JobStatus], NEW candidates,
         StartIn(js, candidates), ~dialog_up', ~throttled',
         \A m \in DOMAIN js : HasProcess(js[m]) => ~win'[m].obscured,
         \A m \in candidates : ~win'[m].obscured
  PROVE  Themes'
<1>1. /\ DOMAIN jobs' = DOMAIN js
      /\ \A m \in DOMAIN js : jobs'[m] = js[m] \/ (m \in candidates /\ jobs'[m] = "RUNNING")
  BY StartInEffect
<1>2. \A m \in DOMAIN js : HasProcess(jobs'[m]) => ~win'[m].obscured
  BY <1>1
<1>. QED
  BY <1>1, <1>2 DEF Themes, ThemesQuiet, NoHiddenTheme, HasProcess

LEMMA ThemesStep ==
  TypeOK /\ TypeOK' /\ Flags /\ Flags' /\ Themes /\ [Next]_vars => Themes'
<1>. SUFFICES ASSUME TypeOK, TypeOK', Flags, Flags', Themes, [Next]_vars PROVE Themes'
  OBVIOUS
<1>. USE DEF settings, timers
<1>0. DOMAIN jobs = Windows /\ jobs \in [DOMAIN jobs -> JobStatus]
  BY JobsOfWindows DEF TypeOK
<1>a. ASSUME Unnoticed PROVE Themes'
  BY <1>a, <1>0 DEF Unnoticed, Themes, ThemesQuiet, NoHiddenTheme, Windows
<1>b. ASSUME NEW ms \in SUBSET Monitors, NEW locked, ShowWindows(ms, locked) PROVE Themes'
  BY <1>b DEF ShowWindows, Themes, ThemesQuiet, NoHiddenTheme, HasProcess
<1>c. ASSUME Deactivate PROVE Themes'
  BY <1>c DEF Deactivate, NoJobs, Themes, ThemesQuiet, NoHiddenTheme
<1>d. ASSUME EnableLocker PROVE Themes'
  BY <1>d, <1>a DEF EnableLocker, Unnoticed, TypeOK, Windows, Window
<1>e. ASSUME Cycle PROVE Themes'
  <2>. DEFINE fresh == [m \in DOMAIN jobs |-> "INVALID"]
  <2>1. /\ DOMAIN fresh = DOMAIN jobs /\ fresh \in [DOMAIN fresh -> JobStatus]
        /\ \A m \in DOMAIN fresh : ~HasProcess(fresh[m])
    BY DEF JobStatus, HasProcess
  <2>2. StartIn(fresh, Startable(fresh, win)) /\ ~dialog_up' /\ ~throttled' /\ win' = win
    BY <1>e DEF Cycle
  <2>3. \A m \in Startable(fresh, win) : ~win'[m].obscured
    BY <2>2 DEF Startable
  <2>. HIDE DEF fresh
  <2>. QED
    BY <2>1, <2>2, <2>3, StartInKeepsThemes
<1>f. ASSUME NEW m, RequestUnlock(m) PROVE Themes'
  <2>1. CASE RequestLeave(m)
    BY <1>f, <2>1, <1>a DEF RequestUnlock, RequestLeave, Unnoticed, TypeOK, Windows, Window
  <2>2. CASE RequestDialog(m)
    <3>1. \A w \in Windows : win'[w].obscured = win[w].obscured
      <4>. USE DEF TypeOK, Windows, Window
      <4>1. /\ win'[m] = [win[m] EXCEPT !.popup_idle = TRUE, !.dialog_up = TRUE]
            /\ \A w \in Windows \ {m} : win'[w] = [win[w] EXCEPT !.sensitive = FALSE]
        BY <1>f, <2>2 DEF RequestUnlock, RequestDialog, WithDialogUp
      <4>2. win'[m].obscured = win[m].obscured
        BY <4>1, <1>f DEF RequestUnlock
      <4>3. ASSUME NEW w \in Windows \ {m} PROVE win'[w].obscured = win[w].obscured
        <5>1. win[w] \in Window
          OBVIOUS
        <5>2. win'[w] = [win[w] EXCEPT !.sensitive = FALSE]
          BY <4>1
        <5>. HIDE DEF TypeOK
        <5>. QED
          BY <5>1, <5>2
      <4>. QED
        BY <4>2, <4>3
    <3>2. CASE throttled
      BY <2>2, <3>1, <3>2, <1>0
      DEF RequestDialog, HandleDialogUp, Themes, ThemesQuiet, NoHiddenTheme, HasProcess
    <3>3. CASE ~throttled
      BY <2>2, <3>1, <3>3, <1>0 DEF RequestDialog, HandleDialogUp, Suspended, Themes, ThemesQuiet,
                                   NoHiddenTheme, HasProcess
    <3>. QED
      BY <3>2, <3>3
  <2>. QED
    BY <1>f, <2>1, <2>2 DEF RequestUnlock
<1>g. ASSUME NEW m \in Windows, win[m].child # "none", PopdownDialog(m) PROVE Themes'
  <2>. DEFINE resumed == [w \in DOMAIN jobs |-> IF jobs[w] = "STOPPED" THEN "RUNNING" ELSE jobs[w]]
  <2>1. \A w \in Windows : win'[w].obscured = win[w].obscured
    <3>. DEFINE down == [win[m] EXCEPT !.response = "CANCEL", !.child = "none",
                                       !.dialog_up = FALSE, !.popup_idle = FALSE]
    <3>. USE DEF TypeOK, Windows, Window
    <3>1. /\ win'[m] = [down EXCEPT !.sensitive = TRUE]
          /\ \A w \in Windows \ {m} : win'[w] = [win[w] EXCEPT !.sensitive = TRUE]
      BY <1>g DEF PopdownDialog, WithDialogDown
    <3>2. win'[m].obscured = win[m].obscured
      BY <3>1
    <3>3. ASSUME NEW w \in Windows \ {m} PROVE win'[w].obscured = win[w].obscured
      <4>1. win[w] \in Window
        OBVIOUS
      <4>2. win'[w] = [win[w] EXCEPT !.sensitive = TRUE]
        BY <3>1
      <4>. HIDE DEF TypeOK
      <4>. QED
        BY <4>1, <4>2
    <3>. QED
      BY <3>2, <3>3
  <2>2. dialog_up
    BY <1>g DEF Flags, DialogHeld, DialogAgreement, DialogWindows
  <2>3. CASE throttled
    <3>1. UNCHANGED jobs
      BY <1>g, <2>3 DEF PopdownDialog, HandleDialogDown
    <3>. QED
      BY <2>1, <2>2, <3>1, <1>0 DEF Themes, ThemesQuiet, NoHiddenTheme
  <2>4. CASE ~throttled
    <3>1. DOMAIN resumed = DOMAIN jobs /\ resumed \in [DOMAIN resumed -> JobStatus]
      BY DEF TypeOK, JobStatus
    <3>2. StartIn(resumed, Startable(resumed, win)) /\ ~dialog_up' /\ ~throttled'
      BY <1>g, <2>4 DEF PopdownDialog, HandleDialogDown
    <3>3. \A w \in DOMAIN resumed : HasProcess(resumed[w]) => ~win'[w].obscured
      BY <2>1, <1>0 DEF Themes, NoHiddenTheme, HasProcess
    <3>4. \A w \in Startable(resumed, win) : ~win'[w].obscured
      BY <2>1, <1>0 DEF Startable
    <3>. HIDE DEF resumed
    <3>. QED
      BY <3>1, <3>2, <3>3, <3>4, StartInKeepsThemes
  <2>. QED
    BY <2>3, <2>4
<1>1. CASE Activate
  BY <1>1, <1>b DEF Activate, ActivateWith, TypeOK
<1>2. CASE ActivateFails
  BY <1>2, <1>a DEF ActivateFails, Unnoticed, vars
<1>4. CASE Lock
  BY <1>4, <1>b, <1>d DEF Lock, ActivateWith, TypeOK
<1>5. CASE SetThrottled
  <2>1. CASE dialog_up
    BY <1>5, <2>1 DEF SetThrottled, Themes, ThemesQuiet, NoHiddenTheme
  <2>2. CASE ~dialog_up /\ ~throttled
    BY <1>5, <2>2 DEF SetThrottled, Killed, Themes, ThemesQuiet, NoHiddenTheme, HasProcess
  <2>3. CASE ~dialog_up /\ throttled
    <3>1. StartIn(jobs, Startable(jobs, win)) /\ ~dialog_up' /\ ~throttled' /\ win' = win
      BY <1>5, <2>3 DEF SetThrottled
    <3>2. \A m \in Startable(jobs, win) : ~win'[m].obscured
      BY <3>1 DEF Startable
    <3>. QED
      BY <1>0, <3>1, <3>2, StartInKeepsThemes DEF Themes, NoHiddenTheme
  <2>. QED
    BY <2>1, <2>2, <2>3
<1>8. ASSUME NEW w \in Windows, NEW m \in monitors, Activity(w, m) PROVE Themes'
  BY <1>8, <1>f DEF Activity
<1>9. ASSUME NEW m \in Monitors, PopupDialogIdle(m) PROVE Themes'
  BY <1>9, <1>a DEF PopupDialogIdle, Unnoticed, TypeOK, Windows, Window
<1>10. ASSUME NEW m \in Monitors, DialogSpeaks(m) PROVE Themes'
  BY <1>10, <1>a DEF DialogSpeaks, Unnoticed, TypeOK, Windows, Window
<1>11. ASSUME NEW m \in Monitors, ReadWindowId(m) PROVE Themes'
  BY <1>11, <1>a DEF ReadWindowId, Unnoticed, TypeOK, Windows, Window
<1>12. ASSUME NEW m \in Monitors, ReadQuit(m) PROVE Themes'
  BY <1>12, <1>a DEF ReadQuit, Unnoticed, TypeOK, Windows, Window
<1>13. ASSUME NEW m \in Monitors, ReadEnd(m) PROVE Themes'
  <2>1. m \in Windows /\ win[m].child \in {"ok", "cancel", "exited"}
    BY <1>13 DEF ReadEnd
  <2>2. CASE FinishOk(m)
    BY <2>1, <2>2, <1>a DEF FinishOk, Unnoticed, TypeOK, Windows, Window
  <2>. QED
    BY <1>13, <2>1, <2>2, <1>g DEF ReadEnd
<1>14. ASSUME NEW m \in Monitors, EmitDeactivatedIdle(m) PROVE Themes'
  BY <1>14, <1>a DEF EmitDeactivatedIdle, Unnoticed, TypeOK, Windows, Window
<1>15. CASE WindowDeactivatedIdle
  BY <1>15, <1>a, <1>c DEF WindowDeactivatedIdle, Unnoticed
<1>16. ASSUME NEW m \in Monitors, MapEvent(m) PROVE Themes'
  <2>1. \A w \in Windows : win'[w].obscured = win[w].obscured
    BY <1>16 DEF MapEvent, TypeOK, Windows, Window
  <2>2. CASE UNCHANGED jobs
    BY <1>16, <1>a, <2>1, <2>2 DEF MapEvent, Unnoticed, Windows
  <2>3. CASE StartIn(jobs, Startable(jobs, win) \cap {m}) /\ ~dialog_up /\ ~throttled
    <3>1. \A w \in Startable(jobs, win) \cap {m} : ~win'[w].obscured
      BY <1>0, <2>1 DEF Startable
    <3>. QED
      BY <1>0, <1>16, <2>1, <2>3, <3>1, StartInKeepsThemes DEF MapEvent, Themes, NoHiddenTheme
  <2>. QED
    BY <1>16, <2>2, <2>3 DEF MapEvent
<1>17. ASSUME NEW m \in Monitors, Obscured(m) PROVE Themes'
  <2>1. \A w \in Windows \ {m} : win'[w].obscured = win[w].obscured
    BY <1>17 DEF Obscured, TypeOK, Windows, Window
  <2>. QED
    BY <1>17, <1>0, <2>1 DEF Obscured, Killed, HasProcess, Themes, ThemesQuiet, NoHiddenTheme
<1>18. ASSUME NEW m \in Monitors, Unobscured(m) PROVE Themes'
  <2>1. \A w \in Windows : win'[w].obscured => win[w].obscured
    BY <1>18 DEF Unobscured, TypeOK, Windows, Window
  <2>2. CASE UNCHANGED jobs
    BY <1>18, <1>0, <2>1, <2>2 DEF Unobscured, Themes, ThemesQuiet, NoHiddenTheme
  <2>3. CASE StartIn(jobs, Startable(jobs, win') \cap {m}) /\ ~dialog_up /\ ~throttled
    <3>1. \A w \in Startable(jobs, win') \cap {m} : ~win'[w].obscured
      BY DEF Startable
    <3>2. \A w \in DOMAIN jobs : HasProcess(jobs[w]) => ~win'[w].obscured
      BY <1>0, <2>1 DEF Themes, NoHiddenTheme
    <3>. QED
      BY <1>0, <1>18, <2>3, <3>1, <3>2, StartInKeepsThemes DEF Unobscured
  <2>. QED
    BY <1>18, <2>2, <2>3 DEF Unobscured
<1>19. ASSUME NEW m \in Monitors, GrabBroken(m) PROVE Themes'
  BY <1>19, <1>a DEF GrabBroken, Unnoticed
<1>20. ASSUME NEW m \in Monitors, ThemeDies(m) PROVE Themes'
  BY <1>20, <1>0 DEF ThemeDies, Themes, ThemesQuiet, NoHiddenTheme, HasProcess
<1>21. ASSUME NEW ms \in SUBSET Monitors, MonitorsChanged(ms) PROVE Themes'
  BY <1>21, <1>a, <1>b DEF MonitorsChanged, Unnoticed
<1>22. CASE LockTimeout
  BY <1>22, <1>d DEF LockTimeout
<1>23. CASE CycleTimeout
  BY <1>23, <1>e DEF CycleTimeout
<1>24. CASE PrefsChanged
  BY <1>24, <1>a DEF PrefsChanged, Unnoticed
<1>25. CASE UNCHANGED vars
  BY <1>25, <1>a DEF vars, Unnoticed
<1>26. \A m \in Monitors : monitors \cup {m} \in SUBSET Monitors /\ monitors \ {m} \in SUBSET Monitors
  BY DEF TypeOK
<1>. QED
  BY <1>1, <1>2, <1>4, <1>5, <1>8, <1>9, <1>10, <1>11, <1>12, <1>13, <1>14, <1>15, <1>16, <1>17,
     <1>18, <1>19, <1>20, <1>21, <1>22, <1>23, <1>24, <1>25, <1>26, <1>c, <1>e, <1>f
  DEF Next, Call, Environment, ReadDialog

\* No theme runs while a dialog is up, while throttled, or where nobody sees
\* it.
THEOREM ThemesStayQuiet == Spec => []ThemesQuiet
<1>1. Init => Themes
  BY DEF Init, NoJobs, Themes, ThemesQuiet, NoHiddenTheme
<1>2. Themes => ThemesQuiet
  BY DEF Themes
<1>. QED
  BY <1>1, <1>2, FlagsInvariant, ThemesStep, PTL DEF Spec

-----------------------------------------------------------------------------
(***************************************************************************)
(* The dialog's life.  Whether the dialog can fail to start matters only   *)
(* to the first conjunct of DialogUnderWay; the others are Lives.          *)
(***************************************************************************)
LivesIn(m) ==
  /\ win[m].popup_idle \/ win[m].child # "none" => win[m].dialog_up
  /\ ~(win[m].popup_idle /\ win[m].child # "none")
  /\ win[m].response = "OK" <=> win[m].child = "answered"

Lives == \A m \in Windows : LivesIn(m)

CaredFor == SpawnMayFail \/ \A m \in Windows : win[m].dialog_up => UnderWay(m)

DialogLife == Lives /\ CaredFor

\* What a window's dialog is known by.
DialogOf(r) == <<r.dialog_up, r.popup_idle, r.child, r.response, r.deactivated_idle>>

\* Windows whose dialog a step leaves as it is.
LeftAlone(m) ==
  DialogOf(win'[m]) = DialogOf(win[m]) /\ (deferred > 0 => deferred' > 0)

LEMMA LeftAloneLives ==
  ASSUME NEW m, LeftAlone(m)
  PROVE  /\ win'[m].child = win[m].child
         /\ win'[m].deactivated_idle = win[m].deactivated_idle
         /\ LivesIn(m) => LivesIn(m)'
         /\ (win[m].dialog_up => UnderWay(m)) => (win'[m].dialog_up => UnderWay(m)')
<1>1. /\ win'[m].dialog_up = win[m].dialog_up
      /\ win'[m].popup_idle = win[m].popup_idle
      /\ win'[m].child = win[m].child
      /\ win'[m].response = win[m].response
      /\ win'[m].deactivated_idle = win[m].deactivated_idle
      /\ deferred > 0 => deferred' > 0
  BY DEF LeftAlone, DialogOf
<1>. QED
  BY <1>1, Zenon DEF LivesIn, UnderWay

\* A step that changes the dialog of one window at most.
LEMMA LifeByWindow ==
  ASSUME DialogLife, Windows' = Windows, NEW m,
         \A w \in Windows \ {m} : LeftAlone(w),
         m \in Windows => /\ LivesIn(m)'
                          /\ SpawnMayFail \/ (win'[m].dialog_up => UnderWay(m)')
  PROVE  DialogLife'
<1>1. \A w \in Windows \ {m} : LivesIn(w)'
  BY LeftAloneLives DEF DialogLife, Lives
<1>2. \A w \in Windows \ {m} : SpawnMayFail \/ (win'[w].dialog_up => UnderWay(w)')
  BY LeftAloneLives DEF DialogLife, CaredFor
<1>. QED
  BY <1>1, <1>2 DEF DialogLife, Lives, CaredFor

LEMMA LifeLeftAlone ==
  ASSUME DialogLife, Windows' = Windows, \A w \in Windows : LeftAlone(w)
  PROVE  DialogLife'
<1>1. \A w \in Windows : LivesIn(w)'
  BY LeftAloneLives DEF DialogLife, Lives
<1>2. \A w \in Windows : SpawnMayFail \/ (win'[w].dialog_up => UnderWay(w)')
  BY LeftAloneLives DEF DialogLife, CaredFor
<1>. QED
  BY <1>1, <1>2 DEF DialogLife, Lives, CaredFor

\* Windows shown afresh have no dialog.
LEMMA FreshLife ==
  ASSUME TypeOK, NEW ms \in SUBSET Monitors, NEW locked \in BOOLEAN, ShowWindows(ms, locked)
  PROVE  DialogLife'
<1>1. win' = [m \in ms |-> NewWindow(lock_active')]
  BY ShowWindowsEffect
<1>2. Windows' = ms
  BY <1>1 DEF Windows
<1>3. \A m \in ms : /\ win'[m].dialog_up = FALSE
                    /\ win'[m].popup_idle = FALSE
                    /\ win'[m].child = "none"
                    /\ win'[m].response = "CANCEL"
  BY <1>1 DEF NewWindow
<1>. QED
  BY <1>2, <1>3 DEF DialogLife, Lives, LivesIn, CaredFor

LEMMA NoLife ==
  ASSUME win = NoWindows
  PROVE  DialogLife
<1>1. Windows = {}
  BY DEF NoWindows, Windows
<1>. QED
  BY <1>1 DEF DialogLife, Lives, CaredFor

LEMMA PopdownLife ==
  ASSUME TypeOK, Flags, DialogLife, NEW m \in Windows, win[m].child # "none", PopdownDialog(m)
  PROVE  /\ DialogLife'
         /\ Windows' = Windows
         /\ win'[m].child = "none"
         /\ win'[m].deactivated_idle = win[m].deactivated_idle
         /\ \A w \in Windows \ {m} : LeftAlone(w)
<1>1. Windows' = Windows
  BY DEF PopdownDialog, Windows
<1>. DEFINE down == [win[m] EXCEPT !.response = "CANCEL", !.child = "none",
                                   !.dialog_up = FALSE, !.popup_idle = FALSE]
<1>2. win'[m] = [down EXCEPT !.sensitive = TRUE]
  BY DEF PopdownDialog, WithDialogDown, TypeOK, Windows
<1>3. /\ win'[m].dialog_up = FALSE
      /\ win'[m].popup_idle = FALSE
      /\ win'[m].child = "none"
      /\ win'[m].response = "CANCEL"
      /\ win'[m].deactivated_idle = win[m].deactivated_idle
  BY <1>2 DEF TypeOK, Windows, Window
<1>4. ASSUME NEW w \in Windows \ {m} PROVE LeftAlone(w)
  <2>1. win[w] \in Window
    BY DEF TypeOK, Windows
  <2>2. win'[w] = [win[w] EXCEPT !.sensitive = TRUE]
    BY DEF PopdownDialog, WithDialogDown, TypeOK, Windows
  <2>3. deferred' = deferred
    BY DEF PopdownDialog
  <2>. QED
    BY <2>1, <2>2, <2>3 DEF LeftAlone, DialogOf, Window
<1>5. LivesIn(m)'
  BY <1>3 DEF LivesIn
<1>6. DialogLife'
  BY <1>1, <1>3, <1>4, <1>5, LifeByWindow
<1>. QED
  BY <1>1, <1>3, <1>4, <1>6

LEMMA RequestDialogLife ==
  ASSUME TypeOK, Flags, DialogLife, ~dialog_up, NEW m \in Windows, RequestDialog(m)
  PROVE  /\ DialogLife'
         /\ Windows' = Windows
         /\ \A w \in Windows : /\ win'[w].child = win[w].child
                               /\ win'[w].deactivated_idle = win[w].deactivated_idle
<1>1. Windows' = Windows
  BY DEF RequestDialog, WithDialogUp, Windows
<1>2. win'[m] = [win[m] EXCEPT !.popup_idle = TRUE, !.dialog_up = TRUE]
  BY DEF RequestDialog, WithDialogUp, TypeOK, Windows
<1>3. win[m] \in Window /\ ~win[m].dialog_up
  BY DEF TypeOK, Windows, Flags, DialogAgreement, DialogWindows
<1>4. win[m].child = "none" /\ win[m].response # "OK"
  BY <1>3 DEF DialogLife, Lives, LivesIn
<1>5. /\ win'[m].dialog_up
      /\ win'[m].popup_idle
      /\ win'[m].child = win[m].child
      /\ win'[m].response = win[m].response
      /\ win'[m].deactivated_idle = win[m].deactivated_idle
  BY <1>2, <1>3 DEF Window
<1>6. ASSUME NEW w \in Windows \ {m} PROVE LeftAlone(w)
  <2>1. win[w] \in Window
    BY DEF TypeOK, Windows
  <2>2. win'[w] = [win[w] EXCEPT !.sensitive = FALSE]
    BY DEF RequestDialog, WithDialogUp, TypeOK, Windows
  <2>3. deferred' = deferred
    BY DEF RequestDialog
  <2>. QED
    BY <2>1, <2>2, <2>3 DEF LeftAlone, DialogOf, Window
<1>7. LivesIn(m)' /\ UnderWay(m)'
  BY <1>4, <1>5 DEF LivesIn, UnderWay
<1>8. DialogLife'
  BY <1>1, <1>6, <1>7, LifeByWindow
<1>. QED
  BY <1>1, <1>5, <1>6, <1>8, LeftAloneLives

\* Lines read from the dialog, or written by it, and its start.
LEMMA ChildLife ==
  ASSUME TypeOK, DialogLife, NEW m \in Windows, NEW c \in Watched,
         win[m].child # "answered", win[m].popup_idle \/ win[m].child # "none",
         Windows' = Windows, UNCHANGED deferred,
         win'[m].dialog_up = win[m].dialog_up,
         win'[m].popup_idle = FALSE,
         win'[m].child = c,
         win'[m].response = win[m].response,
         win'[m].deactivated_idle = win[m].deactivated_idle,
         \A w \in Windows \ {m} : win'[w] = win[w]
  PROVE  DialogLife' /\ \A w \in Windows \ {m} : LeftAlone(w)
<1>1. \A w \in Windows \ {m} : LeftAlone(w)
  BY DEF LeftAlone, DialogOf
<1>2. win[m].dialog_up /\ win[m].response # "OK"
  BY DEF DialogLife, Lives, LivesIn
<1>3. c # "none" /\ c # "answered"
  BY DEF Watched, Talking, Spoken
<1>4. LivesIn(m)' /\ UnderWay(m)'
  BY <1>2, <1>3 DEF LivesIn, UnderWay
<1>. QED
  BY <1>1, <1>4, LifeByWindow

LEMMA FinishOkLife ==
  ASSUME TypeOK, DialogLife, NEW m \in Windows, win[m].child \in {"ok", "exited"}, FinishOk(m)
  PROVE  /\ DialogLife'
         /\ Windows' = Windows
         /\ win'[m].child = "answered"
         /\ win'[m].deactivated_idle
         /\ \A w \in Windows \ {m} : LeftAlone(w)
<1>1. Windows' = Windows
  BY DEF FinishOk, Windows
<1>2. win[m] \in Window /\ win'[m] = [win[m] EXCEPT !.response = "OK", !.child = "answered",
                                                   !.deactivated_idle = TRUE]
  BY DEF FinishOk, TypeOK, Windows
<1>3. /\ win'[m].dialog_up = win[m].dialog_up
      /\ win'[m].popup_idle = win[m].popup_idle
      /\ win'[m].child = "answered"
      /\ win'[m].response = "OK"
      /\ win'[m].deactivated_idle
  BY <1>2 DEF Window
<1>4. \A w \in Windows \ {m} : LeftAlone(w)
  BY DEF FinishOk, LeftAlone, DialogOf, TypeOK, Windows
<1>5. win[m].dialog_up /\ ~win[m].popup_idle
  BY DEF DialogLife, Lives, LivesIn
<1>7. LivesIn(m)' /\ UnderWay(m)'
  BY <1>3, <1>5 DEF LivesIn, UnderWay
<1>8. DialogLife'
  BY <1>1, <1>4, <1>7, LifeByWindow
<1>. QED
  BY <1>1, <1>3, <1>4, <1>8

\* A step in which no window's dialog changes.
LEMMA SameDialogs ==
  ASSUME DialogLife, Windows' = Windows, UNCHANGED deferred,
         \A w \in Windows : DialogOf(win'[w]) = DialogOf(win[w])
  PROVE  /\ DialogLife'
         /\ \A w \in Windows : /\ win'[w].child = win[w].child
                               /\ win'[w].deactivated_idle = win[w].deactivated_idle
<1>1. \A w \in Windows : LeftAlone(w)
  BY DEF LeftAlone
<1>. QED
  BY <1>1, LifeLeftAlone, LeftAloneLives

-----------------------------------------------------------------------------
(***************************************************************************)
(* The manager as a ScreenLock.  Each lemma says what a step does to the   *)
(* screen, the grant and the decision, and with it to the dialog's life.   *)
(***************************************************************************)
Granting(m) == win[m].child \in {"ok", "answered"}

Abstractly == SL!Next \/ UNCHANGED SL!state

LEMMA Stutters ==
  ASSUME Windows' = Windows, UNCHANGED <<active, lock_active, deferred>>,
         \A w \in Windows : /\ Granting(w)' <=> Granting(w)
                            /\ win'[w].deactivated_idle = win[w].deactivated_idle
  PROVE  Abstractly
<1>1. Screen' = Screen
  BY DEF Screen
<1>2. Granted' = Granted
  BY DEF Granted, Granting
<1>3. Leaving' = Leaving
  BY DEF Leaving
<1>. QED
  BY <1>1, <1>2, <1>3 DEF Abstractly, SL!state

\* What windows shown afresh and a manager without windows have forgotten.
LEMMA Forgotten ==
  ASSUME \A m \in Windows : win[m].child = "none" /\ win[m].deactivated_idle = FALSE
  PROVE  ~Granted /\ (Leaving = (deferred > 0))
  BY DEF Granted, Leaving

LEMMA ForgottenAfresh ==
  ASSUME TypeOK, NEW ms \in SUBSET Monitors, NEW locked \in BOOLEAN, ShowWindows(ms, locked)
  PROVE  ~Granted' /\ (Leaving' = (deferred' > 0))
<1>1. win' = [m \in ms |-> NewWindow(lock_active')]
  BY ShowWindowsEffect
<1>2. Windows' = ms
  BY <1>1 DEF Windows
<1>3. \A m \in ms : win'[m].child = "none" /\ win'[m].deactivated_idle = FALSE
  BY <1>1 DEF NewWindow
<1>. QED
  BY <1>2, <1>3 DEF Granted, Leaving

LEMMA ForgottenWindows ==
  ASSUME win = NoWindows
  PROVE  ~Granted /\ (Leaving = (deferred > 0))
<1>1. Windows = {}
  BY DEF NoWindows, Windows
<1>. QED
  BY <1>1, Forgotten

LEMMA Quiet ==
  ASSUME DialogLife, Windows' = Windows, UNCHANGED <<active, lock_active, deferred>>,
         \A w \in Windows : DialogOf(win'[w]) = DialogOf(win[w])
  PROVE  DialogLife' /\ Abstractly
<1>1. /\ DialogLife'
      /\ \A w \in Windows : /\ win'[w].child = win[w].child
                            /\ win'[w].deactivated_idle = win[w].deactivated_idle
  BY SameDialogs
<1>. QED
  BY <1>1, Stutters DEF Granting

LEMMA ActivateImplements ==
  ASSUME TypeOK, Flags, NEW locked \in BOOLEAN, ActivateWith(locked)
  PROVE  DialogLife' /\ Abstractly
<1>. DEFINE now == locked \/ (WantsLock /\ prefs.lock_now)
<1>1. now \in BOOLEAN /\ monitors \in SUBSET Monitors
  BY DEF TypeOK, WantsLock, Prefs
<1>2. ShowWindows(monitors, now) /\ ~active /\ active' /\ deferred' = deferred
  BY DEF ActivateWith
<1>3. DialogLife' /\ ~Granted' /\ (Leaving' = (deferred' > 0)) /\ lock_active' \in BOOLEAN
  <2>. HIDE DEF now
  <2>. QED
    BY <1>1, <1>2, FreshLife, ForgottenAfresh, ShowWindowsEffect
<1>4. ~Granted /\ (Leaving = (deferred > 0))
  BY <1>2, ForgottenWindows DEF Flags, InactiveIsClean
<1>5. Screen = "off" /\ Screen' \in {"on", "locked"}
  BY <1>2, <1>3 DEF Screen
<1>6. Granted' = Granted /\ Leaving' = Leaving
  BY <1>2, <1>3, <1>4 DEF Granted, Leaving
<1>7. SL!Engage
  BY <1>5, <1>6 DEF SL!Engage
<1>. QED
  BY <1>3, <1>7 DEF Abstractly, SL!Next

LEMMA EnableLockerImplements ==
  ASSUME TypeOK, Flags, DialogLife, EnableLocker
  PROVE  DialogLife' /\ Abstractly
<1>1. Windows' = Windows /\ UNCHANGED <<active, deferred>> /\ lock_active'
  BY DEF EnableLocker, Windows
<1>2. \A w \in Windows : DialogOf(win'[w]) = DialogOf(win[w])
  BY DEF EnableLocker, DialogOf, TypeOK, Windows, Window
<1>3. /\ DialogLife'
      /\ \A w \in Windows : /\ win'[w].child = win[w].child
                            /\ win'[w].deactivated_idle = win[w].deactivated_idle
  BY <1>1, <1>2, SameDialogs
<1>4. Granted' = Granted /\ Leaving' = Leaving
  BY <1>1, <1>3 DEF Granted, Leaving
<1>5. CASE active /\ ~lock_active
  <2>1. Screen = "on" /\ Screen' = "locked"
    BY <1>1, <1>5 DEF Screen
  <2>2. SL!Lock
    BY <1>4, <2>1 DEF SL!Lock
  <2>. QED
    BY <1>3, <2>2 DEF Abstractly, SL!Next
<1>6. CASE ~active \/ lock_active
  <2>1. Screen' = Screen
    BY <1>1, <1>6 DEF Screen
  <2>. QED
    BY <1>3, <1>4, <2>1 DEF Abstractly, SL!state
<1>. QED
  BY <1>5, <1>6

LEMMA RequestImplements ==
  ASSUME TypeOK, Flags, DialogLife, NEW m, RequestUnlock(m)
  PROVE  DialogLife' /\ Abstractly
<1>. USE DEF settings, timers
<1>0. m \in Windows /\ active /\ ~dialog_up
  BY DEF RequestUnlock
<1>1. CASE RequestLeave(m)
  <2>1. /\ Windows' = Windows /\ UNCHANGED <<active, lock_active, deferred>>
        /\ win[m] \in Window
        /\ win'[m] = [win[m] EXCEPT !.deactivated_idle = TRUE]
        /\ \A w \in Windows \ {m} : win'[w] = win[w]
    BY <1>0, <1>1 DEF RequestLeave, TypeOK, Windows
  <2>2. /\ win'[m].dialog_up = win[m].dialog_up
        /\ win'[m].popup_idle = win[m].popup_idle
        /\ win'[m].child = win[m].child
        /\ win'[m].response = win[m].response
        /\ win'[m].deactivated_idle
    BY <2>1 DEF Window
  <2>3. \A w \in Windows \ {m} : LeftAlone(w)
    BY <2>1 DEF LeftAlone, DialogOf
  <2>4. LivesIn(m)' /\ (SpawnMayFail \/ (win'[m].dialog_up => UnderWay(m)'))
    BY <1>0, <2>1, <2>2 DEF DialogLife, Lives, LivesIn, CaredFor, UnderWay
  <2>5. DialogLife'
    BY <1>0, <2>1, <2>3, <2>4, LifeByWindow
  <2>6. Screen = "on" /\ Screen' = Screen
    BY <1>0, <1>1, <2>1 DEF RequestLeave, Screen, Flags, LockCopiesAgree
  <2>7. Granted' = Granted
    BY <1>0, <2>1, <2>2 DEF Granted
  <2>8. Leaving' = TRUE
    BY <1>0, <2>1, <2>2 DEF Leaving
  <2>9. SL!Decide
    BY <2>6, <2>7, <2>8 DEF SL!Decide
  <2>. QED
    BY <2>5, <2>9 DEF Abstractly, SL!Next
<1>2. CASE RequestDialog(m)
  <2>1. /\ DialogLife' /\ Windows' = Windows
        /\ \A w \in Windows : /\ win'[w].child = win[w].child
                              /\ win'[w].deactivated_idle = win[w].deactivated_idle
    BY <1>0, <1>2, RequestDialogLife
  <2>2. UNCHANGED <<active, lock_active, deferred>>
    BY <1>2 DEF RequestDialog
  <2>. QED
    BY <2>1, <2>2, Stutters DEF Granting
<1>. QED
  BY <1>1, <1>2 DEF RequestUnlock

\* A step of the dialog of window m that writes or reads what its process says.
LEMMA ChildImplements ==
  ASSUME TypeOK, Flags, DialogLife, NEW m \in Windows, NEW c \in Watched,
         win[m].child # "answered", win[m].popup_idle \/ win[m].child # "none",
         win[m].child = "ok" => c = "ok",
         Windows' = Windows, UNCHANGED <<active, lock_active, deferred>>,
         win'[m].dialog_up = win[m].dialog_up,
         win'[m].popup_idle = FALSE,
         win'[m].child = c,
         win'[m].response = win[m].response,
         win'[m].deactivated_idle = win[m].deactivated_idle,
         \A w \in Windows \ {m} : win'[w] = win[w]
  PROVE  DialogLife' /\ Abstractly
<1>1. DialogLife'
  BY ChildLife
<1>2. c # "answered"
  BY DEF Watched, Talking, Spoken
<1>3. Screen' = Screen
  BY DEF Screen
<1>4. Leaving' = Leaving
  BY DEF Leaving
<1>5. CASE c = "ok" /\ win[m].child # "ok"
  <2>1. win[m].dialog_up
    BY DEF DialogLife, Lives, LivesIn
  <2>2. Screen = "locked"
    BY <2>1 DEF Flags, DialogAgreement, DialogWindows, DialogOnlyWhenLocked, Screen
  <2>3. Granted' = TRUE
    BY <1>5 DEF Granted
  <2>4. SL!Grant
    BY <1>3, <1>4, <2>2, <2>3 DEF SL!Grant
  <2>. QED
    BY <1>1, <2>4 DEF Abstractly, SL!Next
<1>6. CASE ~(c = "ok" /\ win[m].child # "ok")
  <2>1. Granted' = Granted
    BY <1>2, <1>6 DEF Granted
  <2>. QED
    BY <1>1, <1>3, <1>4, <2>1 DEF Abstractly, SL!state
<1>. QED
  BY <1>5, <1>6

LEMMA ReadEndImplements ==
  ASSUME TypeOK, Flags, DialogLife, NEW m, ReadEnd(m)
  PROVE  DialogLife' /\ Abstractly
<1>. USE DEF settings, timers
<1>1. m \in Windows /\ win[m].child \in {"ok", "cancel", "exited"}
  BY DEF ReadEnd
<1>2. win[m].response # "OK" /\ win[m].dialog_up
  BY <1>1 DEF DialogLife, Lives, LivesIn
<1>3. CASE win[m].child = "ok"
  <2>1. FinishOk(m)
    BY <1>3 DEF ReadEnd
  <2>2. /\ DialogLife'
        /\ Windows' = Windows
        /\ win'[m].child = "answered"
        /\ win'[m].deactivated_idle
    BY <1>1, <1>3, <2>1, FinishOkLife
  <2>7. UNCHANGED <<active, lock_active, deferred>>
    BY <2>1 DEF FinishOk
  <2>3. Granted /\ Granted' /\ Leaving'
    BY <1>1, <1>3, <2>2 DEF Granted, Leaving
  <2>4. Screen = "locked" /\ Screen' = Screen
    BY <1>1, <1>2, <2>7 DEF Flags, DialogAgreement, DialogWindows, DialogOnlyWhenLocked, Screen
  <2>5. Granted' = Granted /\ Leaving' = TRUE
    BY <2>3 DEF Granted, Leaving
  <2>6. SL!Decide
    BY <2>3, <2>4, <2>5 DEF SL!Decide
  <2>. QED
    BY <2>2, <2>6 DEF Abstractly, SL!Next
<1>4. CASE win[m].child # "ok"
  <2>1. PopdownDialog(m)
    BY <1>2, <1>4 DEF ReadEnd
  <2>2. /\ DialogLife'
        /\ Windows' = Windows
        /\ win'[m].child = "none"
        /\ win'[m].deactivated_idle = win[m].deactivated_idle
        /\ \A w \in Windows \ {m} : LeftAlone(w)
        /\ UNCHANGED <<active, lock_active, deferred>>
    BY <1>1, <2>1, PopdownLife DEF PopdownDialog
  <2>3. \A w \in Windows : /\ Granting(w)' <=> Granting(w)
                           /\ win'[w].deactivated_idle = win[w].deactivated_idle
    BY <1>1, <1>4, <2>2, LeftAloneLives DEF Granting
  <2>. QED
    BY <2>2, <2>3, Stutters
<1>. QED
  BY <1>3, <1>4

LEMMA LeaveImplements ==
  ASSUME TypeOK, Flags, DialogLife, WindowDeactivatedIdle
  PROVE  DialogLife' /\ Abstractly
<1>. USE DEF settings, timers
<1>1. deferred > 0 /\ deferred' = deferred - 1 /\ deferred \in Nat
  BY DEF WindowDeactivatedIdle, TypeOK
<1>2. Leaving = TRUE
  BY <1>1 DEF Leaving
<1>3. win' = NoWindows /\ ~active'
  BY DEF WindowDeactivatedIdle, Deactivate, Flags, InactiveIsClean
<1>4. ~Granted' /\ (Leaving' = (deferred' > 0))
  <2>1. Windows' = {}
    BY <1>3 DEF NoWindows, Windows
  <2>. QED
    BY <2>1 DEF Granted, Leaving
<1>5. DialogLife'
  <2>1. Windows' = {}
    BY <1>3 DEF NoWindows, Windows
  <2>. QED
    BY <2>1 DEF DialogLife, Lives, CaredFor
<1>6. Screen' = "off"
  BY <1>3 DEF Screen
<1>7. Granted' = FALSE /\ Leaving' \in BOOLEAN
  BY <1>4 DEF Granted
<1>8. CASE active
  <2>1. Screen # "off"
    BY <1>8 DEF Screen
  <2>2. SL!Leave
    BY <1>2, <1>6, <1>7, <2>1 DEF SL!Leave
  <2>. QED
    BY <1>5, <2>2 DEF Abstractly, SL!Next
<1>9. CASE ~active
  <2>1. Screen = "off" /\ ~Granted
    BY <1>9, ForgottenWindows DEF Screen, Flags, InactiveIsClean
  <2>2. Granted' = Granted
    BY <1>7, <2>1 DEF Granted
  <2>3. CASE deferred' > 0
    <3>1. Leaving' = Leaving
      BY <1>2, <1>4, <2>3
    <3>. QED
      BY <1>5, <1>6, <2>1, <2>2, <3>1 DEF Abstractly, SL!state
  <2>4. CASE ~(deferred' > 0)
    <3>1. Leaving' = FALSE
      BY <1>4, <2>4 DEF Leaving
    <3>2. SL!Settle
      BY <1>2, <1>6, <2>1, <2>2, <3>1 DEF SL!Settle
    <3>. QED
      BY <1>5, <3>2 DEF Abstractly, SL!Next
  <2>. QED
    BY <2>3, <2>4
<1>. QED
  BY <1>8, <1>9

LEMMA DismissImplements ==
  ASSUME TypeOK, Flags, DialogLife, Dismissal, Deactivate, UNCHANGED deferred
  PROVE  DialogLife' /\ Abstractly
<1>1. win' = NoWindows /\ active /\ ~active'
  BY DEF Deactivate
<1>2. Windows' = {}
  BY <1>1 DEF NoWindows, Windows
<1>3. Granted' = FALSE /\ (Leaving' = (deferred' > 0))
  BY <1>2 DEF Granted, Leaving
<1>4. Screen # "off" /\ Screen' = "off"
  BY <1>1 DEF Screen
<1>5. Leaving' \in {Leaving, FALSE}
  <2>1. CASE deferred > 0
    BY <1>3, <2>1 DEF Leaving
  <2>2. CASE ~(deferred > 0)
    BY <1>3, <2>2 DEF Leaving
  <2>. QED
    BY <2>1, <2>2
<1>6. SL!Dismiss
  BY <1>3, <1>4, <1>5 DEF SL!Dismiss
<1>7. DialogLife'
  BY <1>2 DEF DialogLife, Lives, CaredFor
<1>. QED
  BY <1>6, <1>7 DEF Abstractly, SL!Next

LEMMA RebuildImplements ==
  ASSUME TypeOK, Flags, DialogLife, NEW ms \in SUBSET Monitors, MonitorsChanged(ms)
  PROVE  DialogLife' /\ Abstractly
<1>. USE DEF settings, timers
<1>1. CASE ~active
  <2>1. UNCHANGED <<active, lock_active, deferred, win>>
    BY <1>1 DEF MonitorsChanged
  <2>2. Windows' = Windows /\ \A w \in Windows : DialogOf(win'[w]) = DialogOf(win[w])
    BY <2>1 DEF Windows
  <2>. QED
    BY <2>1, <2>2, Quiet
<1>2. CASE active
  <2>1. /\ lock_active \in BOOLEAN /\ ShowWindows(ms, lock_active)
        /\ UNCHANGED <<active, deferred>>
    BY <1>2 DEF MonitorsChanged, TypeOK
  <2>2. /\ DialogLife' /\ ~Granted' /\ (Leaving' = (deferred' > 0))
        /\ lock_active => lock_active'
    BY <2>1, FreshLife, ForgottenAfresh, ShowWindowsEffect
  <2>3. Screen # "off" /\ Screen' \in {Screen, "locked"}
    BY <1>2, <2>1, <2>2 DEF Screen
  <2>4. Leaving' \in {Leaving, FALSE}
    <3>1. CASE deferred > 0
      BY <2>1, <2>2, <3>1 DEF Leaving
    <3>2. CASE ~(deferred > 0)
      BY <2>1, <2>2, <3>2 DEF Leaving
    <3>. QED
      BY <3>1, <3>2
  <2>5. Granted' = FALSE
    BY <2>2 DEF Granted
  <2>6. SL!Rebuild
    BY <2>3, <2>4, <2>5 DEF SL!Rebuild
  <2>. QED
    BY <2>2, <2>6 DEF Abstractly, SL!Next
<1>. QED
  BY <1>1, <1>2

LEMMA EmitImplements ==
  ASSUME TypeOK, Flags, DialogLife, NEW m, EmitDeactivatedIdle(m)
  PROVE  DialogLife' /\ Abstractly
<1>. USE DEF settings, timers
<1>1. /\ m \in Windows /\ win[m].deactivated_idle
      /\ Windows' = Windows /\ UNCHANGED <<active, lock_active>>
      /\ win[m] \in Window
      /\ win'[m] = [win[m] EXCEPT !.deactivated_idle = FALSE]
      /\ \A w \in Windows \ {m} : win'[w] = win[w]
  BY DEF EmitDeactivatedIdle, TypeOK, Windows
<1>2. deferred' > 0
  BY DEF EmitDeactivatedIdle, TypeOK
<1>3. /\ win'[m].dialog_up = win[m].dialog_up
      /\ win'[m].popup_idle = win[m].popup_idle
      /\ win'[m].child = win[m].child
      /\ win'[m].response = win[m].response
  BY <1>1 DEF Window
<1>4. \A w \in Windows \ {m} : LeftAlone(w)
  BY <1>1, <1>2 DEF LeftAlone, DialogOf
<1>5. LivesIn(m)' /\ (SpawnMayFail \/ (win'[m].dialog_up => UnderWay(m)'))
  BY <1>1, <1>2, <1>3 DEF DialogLife, Lives, LivesIn, CaredFor, UnderWay
<1>6. DialogLife'
  BY <1>1, <1>4, <1>5, LifeByWindow
<1>7. Screen' = Screen
  BY <1>1 DEF Screen
<1>8. Granted' = Granted
  BY <1>1, <1>3 DEF Granted
<1>9. Leaving' = Leaving
  <2>1. Leaving /\ Leaving'
    BY <1>1, <1>2 DEF Leaving
  <2>. QED
    BY <2>1 DEF Leaving
<1>. QED
  BY <1>6, <1>7, <1>8, <1>9 DEF Abstractly, SL!state

LEMMA LifeStep ==
  TypeOK /\ Flags /\ DialogLife /\ [Next]_vars => DialogLife' /\ Abstractly
<1>. SUFFICES ASSUME TypeOK, Flags, DialogLife, [Next]_vars PROVE DialogLife' /\ Abstractly
  OBVIOUS
<1>. USE DEF settings, timers
<1>a. ASSUME UNCHANGED <<active, lock_active, deferred, win>> PROVE DialogLife' /\ Abstractly
  <2>1. Windows' = Windows /\ \A w \in Windows : DialogOf(win'[w]) = DialogOf(win[w])
    BY <1>a DEF Windows
  <2>. QED
    BY <1>a, <2>1, Quiet
<1>1. CASE Activate
  BY <1>1, ActivateImplements DEF Activate, TypeOK
<1>2. CASE ActivateFails
  BY <1>2, <1>a DEF ActivateFails, vars
<1>3. CASE Dismissal /\ Deactivate /\ UNCHANGED deferred
  BY <1>3, DismissImplements
<1>4. CASE Lock
  BY <1>4, ActivateImplements, EnableLockerImplements DEF Lock
<1>5. CASE SetThrottled
  BY <1>5, <1>a DEF SetThrottled
<1>6. ASSUME Cycle PROVE DialogLife' /\ Abstractly
  BY <1>6, <1>a DEF Cycle
<1>7. ASSUME NEW m \in monitors, RequestUnlock(m) PROVE DialogLife' /\ Abstractly
  BY <1>7, RequestImplements
<1>8. ASSUME NEW w \in Windows, NEW m \in monitors, Activity(w, m)
      PROVE  DialogLife' /\ Abstractly
  BY <1>8, RequestImplements DEF Activity
<1>9. ASSUME NEW m \in Monitors, PopupDialogIdle(m) PROVE DialogLife' /\ Abstractly
  <2>1. m \in Windows /\ win[m] \in Window /\ win[m].popup_idle /\ win[m].child = "none"
    BY <1>9 DEF PopupDialogIdle, TypeOK, Windows, DialogLife, Lives, LivesIn
  <2>2. UNCHANGED <<active, lock_active, deferred>>
    BY <1>9 DEF PopupDialogIdle
  <2>3. PICK c \in {"starting"} \cup (IF SpawnMayFail THEN {"none"} ELSE {}) :
          win' = [win EXCEPT ![m].popup_idle = FALSE, ![m].child = c]
    BY <1>9 DEF PopupDialogIdle
  <2>4. /\ Windows' = Windows
        /\ win'[m] = [win[m] EXCEPT !.popup_idle = FALSE, !.child = c]
        /\ \A w \in Windows \ {m} : win'[w] = win[w]
    BY <2>1, <2>3 DEF TypeOK, Windows
  <2>5. c \in ChildState
    BY DEF ChildState, Watched, Talking
  <2>6. /\ win'[m].dialog_up = win[m].dialog_up
        /\ win'[m].popup_idle = FALSE
        /\ win'[m].child = c
        /\ win'[m].response = win[m].response
        /\ win'[m].deactivated_idle = win[m].deactivated_idle
    BY <2>1, <2>4, <2>5 DEF Window
  <2>7. CASE c = "starting"
    <3>1. c \in Watched
      BY <2>7 DEF Watched, Talking
    <3>. QED
      BY <2>1, <2>2, <2>4, <2>6, <3>1, ChildImplements
  <2>8. CASE c = "none" /\ SpawnMayFail
    <3>1. LivesIn(m)'
      BY <2>1, <2>6, <2>8 DEF LivesIn, DialogLife, Lives
    <3>2. \A w \in Windows \ {m} : LeftAlone(w)
      BY <2>2, <2>4 DEF LeftAlone, DialogOf
    <3>3. DialogLife'
      BY <2>4, <2>8, <3>1, <3>2, LifeByWindow
    <3>4. \A w \in Windows : /\ Granting(w)' <=> Granting(w)
                             /\ win'[w].deactivated_idle = win[w].deactivated_idle
      BY <2>1, <2>4, <2>6, <2>8 DEF Granting
    <3>. QED
      BY <2>2, <2>4, <3>3, <3>4, Stutters
  <2>. QED
    BY <2>7, <2>8
<1>b. ASSUME NEW m \in Windows, NEW c \in Watched, win[m].child \in Watched,
             win[m].child = "ok" => c = "ok", win' = [win EXCEPT ![m].child = c],
             UNCHANGED <<active, lock_active, deferred>>
      PROVE  DialogLife' /\ Abstractly
  <2>1. win[m] \in Window /\ win[m].child \notin {"none", "answered"}
    BY <1>b DEF TypeOK, Windows, Watched, Talking, Spoken
  <2>2. /\ Windows' = Windows
        /\ win'[m] = [win[m] EXCEPT !.child = c]
        /\ \A w \in Windows \ {m} : win'[w] = win[w]
    BY <1>b DEF TypeOK, Windows
  <2>3. c \in ChildState
    BY DEF ChildState
  <2>4. /\ win'[m].dialog_up = win[m].dialog_up
        /\ win'[m].popup_idle = win[m].popup_idle
        /\ win'[m].child = c
        /\ win'[m].response = win[m].response
        /\ win'[m].deactivated_idle = win[m].deactivated_idle
    BY <2>1, <2>2, <2>3 DEF Window
  <2>5. win[m].popup_idle = FALSE
    BY <2>1 DEF DialogLife, Lives, LivesIn, Window
  <2>. QED
    BY <1>b, <2>1, <2>2, <2>4, <2>5, ChildImplements
<1>10. ASSUME NEW m \in Monitors, DialogSpeaks(m) PROVE DialogLife' /\ Abstractly
  <2>1. PICK c \in Spoken : win' = [win EXCEPT ![m].child = c]
    BY <1>10 DEF DialogSpeaks
  <2>2. /\ m \in Windows /\ win[m].child \in Watched /\ win[m].child # "ok" /\ c \in Watched
        /\ UNCHANGED <<active, lock_active, deferred>>
    BY <1>10 DEF DialogSpeaks, Watched, Talking
  <2>. QED
    BY <2>1, <2>2, <1>b
<1>11. ASSUME NEW m \in Monitors, ReadWindowId(m) PROVE DialogLife' /\ Abstractly
  <2>1. /\ m \in Windows /\ win[m].child \in Watched /\ win[m].child # "ok"
        /\ "asking" \in Watched /\ win' = [win EXCEPT ![m].child = "asking"]
        /\ UNCHANGED <<active, lock_active, deferred>>
    BY <1>11 DEF ReadWindowId, Watched, Talking
  <2>. QED
    BY <2>1, <1>b
<1>12. ASSUME NEW m \in Monitors, ReadQuit(m) PROVE DialogLife' /\ Abstractly
  <2>1. /\ m \in Windows /\ win[m].child \in Watched /\ win[m].child # "ok"
        /\ "exited" \in Watched /\ win' = [win EXCEPT ![m].child = "exited"]
        /\ UNCHANGED <<active, lock_active, deferred>>
    BY <1>12 DEF ReadQuit, Watched, Spoken
  <2>. QED
    BY <2>1, <1>b
<1>13. ASSUME NEW m \in Monitors, ReadEnd(m) PROVE DialogLife' /\ Abstractly
  BY <1>13, ReadEndImplements
<1>14. ASSUME NEW m \in Monitors, EmitDeactivatedIdle(m) PROVE DialogLife' /\ Abstractly
  BY <1>14, EmitImplements
<1>15. CASE WindowDeactivatedIdle
  BY <1>15, LeaveImplements
<1>16. ASSUME NEW m \in Monitors, MapEvent(m) PROVE DialogLife' /\ Abstractly
  <2>1. Windows' = Windows /\ UNCHANGED <<active, lock_active, deferred>>
    BY <1>16 DEF MapEvent, Windows
  <2>2. \A w \in Windows : DialogOf(win'[w]) = DialogOf(win[w])
    BY <1>16 DEF MapEvent, DialogOf, TypeOK, Windows, Window
  <2>. QED
    BY <2>1, <2>2, Quiet
<1>17. ASSUME NEW m \in Monitors, Obscured(m) PROVE DialogLife' /\ Abstractly
  <2>1. Windows' = Windows /\ UNCHANGED <<active, lock_active, deferred>>
    BY <1>17 DEF Obscured, Windows
  <2>2. \A w \in Windows : DialogOf(win'[w]) = DialogOf(win[w])
    BY <1>17 DEF Obscured, DialogOf, TypeOK, Windows, Window
  <2>. QED
    BY <2>1, <2>2, Quiet
<1>18. ASSUME NEW m \in Monitors, Unobscured(m) PROVE DialogLife' /\ Abstractly
  <2>1. Windows' = Windows /\ UNCHANGED <<active, lock_active, deferred>>
    BY <1>18 DEF Unobscured, Windows
  <2>2. \A w \in Windows : DialogOf(win'[w]) = DialogOf(win[w])
    BY <1>18 DEF Unobscured, DialogOf, TypeOK, Windows, Window
  <2>. QED
    BY <2>1, <2>2, Quiet
<1>19. ASSUME NEW m \in Monitors, GrabBroken(m) PROVE DialogLife' /\ Abstractly
  BY <1>19, <1>a DEF GrabBroken
<1>20. ASSUME NEW m \in Monitors, ThemeDies(m) PROVE DialogLife' /\ Abstractly
  BY <1>20, <1>a DEF ThemeDies
<1>21. ASSUME NEW ms \in SUBSET Monitors, MonitorsChanged(ms) PROVE DialogLife' /\ Abstractly
  BY <1>21, RebuildImplements
<1>22. CASE LockTimeout
  BY <1>22, EnableLockerImplements DEF LockTimeout
<1>23. CASE CycleTimeout
  BY <1>23, <1>6 DEF CycleTimeout
<1>24. CASE PrefsChanged
  BY <1>24, <1>a DEF PrefsChanged
<1>25. CASE UNCHANGED vars
  BY <1>25, <1>a DEF vars
<1>26. \A m \in Monitors : monitors \cup {m} \in SUBSET Monitors /\ monitors \ {m} \in SUBSET Monitors
  BY DEF TypeOK
<1>. QED
  BY <1>1, <1>2, <1>3, <1>4, <1>5, <1>6, <1>7, <1>8, <1>9, <1>10, <1>11, <1>12, <1>13,
     <1>14, <1>15, <1>16, <1>17, <1>18, <1>19, <1>20, <1>21, <1>22, <1>23, <1>24, <1>25, <1>26
  DEF Next, Call, Environment, ReadDialog

LEMMA LifeInit == Init => DialogLife /\ SL!Init
<1>. SUFFICES ASSUME Init PROVE DialogLife /\ SL!Init
  OBVIOUS
<1>1. Windows = {}
  BY DEF Init, NoWindows, Windows
<1>2. DialogLife
  BY <1>1 DEF DialogLife, Lives, CaredFor
<1>3. Screen = "off" /\ ~Granted /\ ~Leaving
  <2>1. ~(deferred > 0) /\ ~active
    BY DEF Init
  <2>. QED
    BY <1>1, <2>1 DEF Screen, Granted, Leaving
<1>. QED
  BY <1>2, <1>3 DEF SL!Init

LEMMA LifeInvariant == Spec => [](TypeOK /\ Flags /\ DialogLife)
<1>1. Init => DialogLife
  BY LifeInit
<1>2. TypeOK /\ Flags /\ DialogLife /\ [Next]_vars => DialogLife'
  BY LifeStep
<1>. QED
  BY <1>1, <1>2, FlagsInvariant, PTL DEF Spec

\* If a dialog that is asked for always starts, one that is up is always about
\* to be started, listened to, or on its way out.
THEOREM DialogsUnderWay ==
  ASSUME ~SpawnMayFail
  PROVE  Spec => []DialogUnderWay
<1>1. TypeOK /\ Flags /\ DialogLife => DialogUnderWay
  BY DEF DialogLife, Lives, LivesIn, CaredFor, DialogUnderWay
<1>. QED
  BY <1>1, LifeInvariant, PTL

\* The manager implements ScreenLock, with and without calls that dismiss the
\* saver: a locked screen is left on a decision only, which was taken before it
\* was locked or after access was granted.
THEOREM ScreenLockImplemented == Spec => ImplementsScreenLock
<1>1. Init => SL!Init
  BY LifeInit
<1>2. TypeOK /\ Flags /\ DialogLife /\ [Next]_vars => [SL!Next]_(SL!state)
  BY LifeStep DEF Abstractly
<1>. QED
  BY <1>1, <1>2, LifeInvariant, PTL DEF Spec, ImplementsScreenLock, SL!Spec

\* Whatever the daemon does, a screen that is locked when it is left was left
\* with access granted, on an earlier decision, or on a call of the session's
\* owner (gs_manager_deactivate): no hotplug, timer, throttling, failed dialog
\* or change of the settings has it left.
THEOREM LockedScreenKept == Spec => SL!LeftForAReason /\ SL!StaysLocked
<1>1. [SL!Next]_(SL!state) =>
        [Screen = "locked" /\ Screen' = "off" => Granted \/ Leaving \/ Dismissal]_(SL!state)
  BY DEF SL!Next, SL!Engage, SL!Lock, SL!Grant, SL!Decide, SL!Leave, SL!Settle,
         SL!Rebuild, SL!Dismiss, SL!state
<1>2. [SL!Next]_(SL!state) =>
        [Screen = "locked" => Screen' \in {"locked", "off"}]_(SL!state)
  BY DEF SL!Next, SL!Engage, SL!Lock, SL!Grant, SL!Decide, SL!Leave, SL!Settle,
         SL!Rebuild, SL!Dismiss, SL!state
<1>. QED
  BY <1>1, <1>2, ScreenLockImplemented, PTL
  DEF ImplementsScreenLock, SL!Spec, SL!LeftForAReason, SL!StaysLocked

-----------------------------------------------------------------------------
(***************************************************************************)
(* The conversations with the dialog processes: what a step makes of the   *)
(* child of every window.                                                  *)
(***************************************************************************)
Conversing == \A m \in Monitors : Conversation(m)!Next \/ UNCHANGED ChildOf(m)

\* The windows stay, and so do their children.
LEMMA ChildrenStay ==
  ASSUME Windows' = Windows, \A w \in Windows : win'[w].child = win[w].child
  PROVE  Conversing
<1>1. \A m \in Monitors : UNCHANGED ChildOf(m)
  BY DEF ChildOf, Windows
<1>. QED
  BY <1>1 DEF Conversing

\* The windows, if any, are new: every conversation that there was is over.
LEMMA ChildrenGone ==
  ASSUME \A w \in Windows' : win'[w].child = "none"
  PROVE  Conversing
<1>. SUFFICES ASSUME NEW m \in Monitors
              PROVE  Conversation(m)!Next \/ UNCHANGED ChildOf(m)
  BY DEF Conversing
<1>1. ChildOf(m)' = "none"
  BY DEF ChildOf, Windows
<1>. QED
  BY <1>1 DEF Conversation!Next, Conversation!Finish

\* One window's child moves the way a conversation does.
LEMMA ChildMoves ==
  ASSUME TypeOK, NEW m \in Windows, NEW c,
         \/ win[m].child = "none" /\ c = "starting"
         \/ win[m].child = "starting" /\ c = "asking"
         \/ win[m].child \in Talking /\ c \in Spoken
         \/ win[m].child = "quit" /\ c = "exited"
         \/ win[m].child = "ok" /\ c = "answered"
         \/ win[m].child # "none" /\ c = "none",
         Windows' = Windows, win'[m].child = c,
         \A w \in Windows \ {m} : win'[w].child = win[w].child
  PROVE  Conversing
<1>. SUFFICES ASSUME NEW n \in Monitors
              PROVE  Conversation(n)!Next \/ UNCHANGED ChildOf(n)
  BY DEF Conversing
<1>1. CASE n # m
  BY <1>1 DEF ChildOf, Windows
<1>2. CASE n = m
  <2>1. ChildOf(m) = win[m].child /\ ChildOf(m)' = c
    BY DEF ChildOf, Windows
  <2>. QED
    BY <1>2, <2>1
    DEF Conversation!Next, Conversation!Start, Conversation!Embed, Conversation!Speak,
        Conversation!Terminate, Conversation!Accept, Conversation!Finish,
        Conversation!Talking, Conversation!Ends, Talking, Spoken
<1>. QED
  BY <1>1, <1>2

\* Windows that are shown afresh have no dialog yet.
LEMMA ChildrenAfresh ==
  ASSUME NEW ms \in SUBSET Monitors, NEW locked, ShowWindows(ms, locked)
  PROVE  Conversing
<1>. DEFINE now == locked \/ (ms # {} /\ WantsLock /\ prefs.lock_now)
<1>1. win' = [m \in ms |-> NewWindow(now)]
  BY DEF ShowWindows
<1>. HIDE DEF now
<1>2. \A w \in Windows' : win'[w].child = "none"
  BY <1>1 DEF Windows, NewWindow
<1>. QED
  BY <1>2, ChildrenGone

LEMMA ChildrenEnded ==
  ASSUME win' = NoWindows
  PROVE  Conversing
<1>1. Windows' = {}
  BY DEF NoWindows, Windows
<1>. QED
  BY <1>1, ChildrenGone

LEMMA RequestConverses ==
  ASSUME TypeOK, NEW m, RequestUnlock(m)
  PROVE  Conversing
<1>1. m \in Windows
  BY DEF RequestUnlock
<1>2. CASE RequestLeave(m)
  <2>1. Windows' = Windows /\ \A w \in Windows : win'[w].child = win[w].child
    BY <1>1, <1>2 DEF RequestLeave, TypeOK, Windows, Window
  <2>. QED
    BY <2>1, ChildrenStay
<1>3. CASE RequestDialog(m)
  <2>1. win' = WithDialogUp(m)
    BY <1>3 DEF RequestDialog
  <2>2. Windows' = Windows /\ \A w \in Windows : win'[w].child = win[w].child
    BY <2>1 DEF WithDialogUp, TypeOK, Windows, Window
  <2>. QED
    BY <2>2, ChildrenStay
<1>. QED
  BY <1>2, <1>3 DEF RequestUnlock

LEMMA ReadEndConverses ==
  ASSUME TypeOK, Flags, DialogLife, NEW m, ReadEnd(m)
  PROVE  Conversing
<1>1. m \in Windows /\ win[m].child \in {"ok", "cancel", "exited"} /\ win[m] \in Window
  BY DEF ReadEnd, TypeOK, Windows
<1>2. win[m].response # "OK"
  BY <1>1 DEF DialogLife, Lives, LivesIn
<1>3. CASE win[m].child = "ok"
  <2>1. FinishOk(m)
    BY <1>3 DEF ReadEnd
  <2>2. /\ Windows' = Windows /\ win'[m].child = "answered"
        /\ \A w \in Windows \ {m} : win'[w].child = win[w].child
    BY <1>1, <2>1 DEF FinishOk, TypeOK, Windows, Window
  <2>. QED
    BY <1>1, <1>3, <2>2, ChildMoves
<1>4. CASE win[m].child # "ok"
  <2>1. PopdownDialog(m)
    BY <1>2, <1>4 DEF ReadEnd
  <2>2. /\ Windows' = Windows /\ win'[m].child = "none"
        /\ \A w \in Windows \ {m} : win'[w].child = win[w].child
    BY <1>1, <2>1, PopdownLife, LeftAloneLives
  <2>. QED
    BY <1>1, <1>4, <2>2, ChildMoves
<1>. QED
  BY <1>3, <1>4

LEMMA ChildrenStep ==
  TypeOK /\ Flags /\ DialogLife /\ [Next]_vars => Conversing
<1>. SUFFICES ASSUME TypeOK, Flags, DialogLife, [Next]_vars PROVE Conversing
  OBVIOUS
<1>. USE DEF settings, timers
<1>a. ASSUME UNCHANGED win PROVE Conversing
  BY <1>a, ChildrenStay DEF Windows
<1>1. CASE Activate
  <2>1. ShowWindows(monitors, lock_active \/ (WantsLock /\ prefs.lock_now))
    BY <1>1 DEF Activate, ActivateWith
  <2>2. monitors \in SUBSET Monitors
    BY DEF TypeOK
  <2>. QED
    BY <2>1, <2>2, ChildrenAfresh
<1>2. CASE ActivateFails
  BY <1>2, <1>a DEF ActivateFails, vars
<1>3. CASE Dismissal /\ Deactivate /\ UNCHANGED deferred
  BY <1>3, ChildrenEnded DEF Deactivate
<1>b. ASSUME EnableLocker PROVE Conversing
  <2>1. Windows' = Windows /\ \A w \in Windows : win'[w].child = win[w].child
    BY <1>b DEF EnableLocker, TypeOK, Windows, Window
  <2>. QED
    BY <2>1, ChildrenStay
<1>4. CASE Lock
  <2>1. CASE ActivateWith(TRUE)
    <3>1. ShowWindows(monitors, TRUE \/ (WantsLock /\ prefs.lock_now))
      BY <2>1 DEF ActivateWith
    <3>2. monitors \in SUBSET Monitors
      BY DEF TypeOK
    <3>. QED
      BY <3>1, <3>2, ChildrenAfresh
  <2>. QED
    BY <1>4, <1>b, <2>1 DEF Lock
<1>5. CASE SetThrottled
  BY <1>5, <1>a DEF SetThrottled
<1>6. ASSUME Cycle PROVE Conversing
  BY <1>6, <1>a DEF Cycle
<1>7. ASSUME NEW m \in monitors, RequestUnlock(m) PROVE Conversing
  BY <1>7, RequestConverses
<1>8. ASSUME NEW w \in Windows, NEW m \in monitors, Activity(w, m) PROVE Conversing
  BY <1>8, RequestConverses DEF Activity
<1>9. ASSUME NEW m \in Monitors, PopupDialogIdle(m) PROVE Conversing
  <2>1. m \in Windows /\ win[m] \in Window /\ win[m].child = "none"
    BY <1>9 DEF PopupDialogIdle, TypeOK, Windows, DialogLife, Lives, LivesIn
  <2>2. PICK c \in {"starting", "none"} :
          win' = [win EXCEPT ![m].popup_idle = FALSE, ![m].child = c]
    BY <1>9 DEF PopupDialogIdle
  <2>3. /\ Windows' = Windows /\ win'[m].child = c
        /\ \A w \in Windows \ {m} : win'[w].child = win[w].child
    BY <2>1, <2>2 DEF TypeOK, Windows, Window
  <2>4. CASE c = "starting"
    BY <2>1, <2>3, <2>4, ChildMoves
  <2>5. CASE c = "none"
    BY <2>1, <2>3, <2>5, ChildrenStay
  <2>. QED
    BY <2>4, <2>5
<1>c. ASSUME NEW m \in Windows, NEW c, win' = [win EXCEPT ![m].child = c]
      PROVE  /\ Windows' = Windows /\ win'[m].child = c
             /\ \A w \in Windows \ {m} : win'[w].child = win[w].child
  <2>1. win[m] \in Window
    BY DEF TypeOK, Windows
  <2>. QED
    BY <1>c, <2>1 DEF TypeOK, Windows, Window
<1>10. ASSUME NEW m \in Monitors, DialogSpeaks(m) PROVE Conversing
  <2>1. PICK c \in Spoken : win' = [win EXCEPT ![m].child = c]
    BY <1>10 DEF DialogSpeaks
  <2>2. m \in Windows /\ win[m].child \in Talking
    BY <1>10 DEF DialogSpeaks
  <2>. QED
    BY <2>1, <2>2, <1>c, ChildMoves
<1>11. ASSUME NEW m \in Monitors, ReadWindowId(m) PROVE Conversing
  <2>1. /\ m \in Windows /\ win[m].child = "starting"
        /\ win' = [win EXCEPT ![m].child = "asking"]
    BY <1>11 DEF ReadWindowId
  <2>. QED
    BY <2>1, <1>c, ChildMoves
<1>12. ASSUME NEW m \in Monitors, ReadQuit(m) PROVE Conversing
  <2>1. /\ m \in Windows /\ win[m].child = "quit"
        /\ win' = [win EXCEPT ![m].child = "exited"]
    BY <1>12 DEF ReadQuit
  <2>. QED
    BY <2>1, <1>c, ChildMoves
<1>13. ASSUME NEW m \in Monitors, ReadEnd(m) PROVE Conversing
  BY <1>13, ReadEndConverses
<1>14. ASSUME NEW m \in Monitors, EmitDeactivatedIdle(m) PROVE Conversing
  <2>1. Windows' = Windows /\ \A w \in Windows : win'[w].child = win[w].child
    BY <1>14 DEF EmitDeactivatedIdle, TypeOK, Windows, Window
  <2>. QED
    BY <2>1, ChildrenStay
<1>15. CASE WindowDeactivatedIdle
  <2>1. win' = NoWindows \/ UNCHANGED win
    BY <1>15 DEF WindowDeactivatedIdle, Deactivate
  <2>. QED
    BY <2>1, <1>a, ChildrenEnded
<1>16. ASSUME NEW m \in Monitors, MapEvent(m) PROVE Conversing
  <2>1. Windows' = Windows /\ \A w \in Windows : win'[w].child = win[w].child
    BY <1>16 DEF MapEvent, TypeOK, Windows, Window
  <2>. QED
    BY <2>1, ChildrenStay
<1>17. ASSUME NEW m \in Monitors, Obscured(m) PROVE Conversing
  <2>1. Windows' = Windows /\ \A w \in Windows : win'[w].child = win[w].child
    BY <1>17 DEF Obscured, TypeOK, Windows, Window
  <2>. QED
    BY <2>1, ChildrenStay
<1>18. ASSUME NEW m \in Monitors, Unobscured(m) PROVE Conversing
  <2>1. Windows' = Windows /\ \A w \in Windows : win'[w].child = win[w].child
    BY <1>18 DEF Unobscured, TypeOK, Windows, Window
  <2>. QED
    BY <2>1, ChildrenStay
<1>19. ASSUME NEW m \in Monitors, GrabBroken(m) PROVE Conversing
  BY <1>19, <1>a DEF GrabBroken
<1>20. ASSUME NEW m \in Monitors, ThemeDies(m) PROVE Conversing
  BY <1>20, <1>a DEF ThemeDies
<1>21. ASSUME NEW ms \in SUBSET Monitors, MonitorsChanged(ms) PROVE Conversing
  <2>1. ShowWindows(ms, lock_active) \/ UNCHANGED win
    BY <1>21 DEF MonitorsChanged
  <2>. QED
    BY <2>1, <1>a, ChildrenAfresh
<1>22. CASE LockTimeout
  BY <1>22, <1>b DEF LockTimeout
<1>23. CASE CycleTimeout
  BY <1>23, <1>6 DEF CycleTimeout
<1>24. CASE PrefsChanged
  BY <1>24, <1>a DEF PrefsChanged
<1>25. CASE UNCHANGED vars
  BY <1>25, <1>a DEF vars
<1>26. \A m \in Monitors : monitors \cup {m} \in SUBSET Monitors /\ monitors \ {m} \in SUBSET Monitors
  BY DEF TypeOK
<1>. QED
  BY <1>1, <1>2, <1>3, <1>4, <1>5, <1>6, <1>7, <1>8, <1>9, <1>10, <1>11, <1>12, <1>13,
     <1>14, <1>15, <1>16, <1>17, <1>18, <1>19, <1>20, <1>21, <1>22, <1>23, <1>24, <1>25, <1>26
  DEF Next, Call, Environment, ReadDialog

\* What the manager makes of the dialog process of every window is a
\* conversation as DialogChild has it, whatever hotplugs, deactivations and
\* requests to unlock come in between.
THEOREM ChildrenImplemented == Spec => ImplementsChildren
<1>1. Init => \A m \in Monitors : Conversation(m)!Init
  <2>. SUFFICES ASSUME Init, NEW m \in Monitors PROVE Conversation(m)!Init
    OBVIOUS
  <2>1. ChildOf(m) = "none"
    BY DEF Init, NoWindows, Windows, ChildOf
  <2>. QED
    BY <2>1 DEF Conversation!Init
<1>2. TypeOK /\ Flags /\ DialogLife /\ [Next]_vars
        => [\A m \in Monitors : Conversation(m)!Next \/ UNCHANGED ChildOf(m)]_vars
  BY ChildrenStep DEF Conversing
<1>. QED
  BY <1>1, <1>2, LifeInvariant, PTL DEF Spec, ImplementsChildren
=============================================================================
