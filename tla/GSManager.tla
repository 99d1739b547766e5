------------------------------ MODULE GSManager ------------------------------
(***************************************************************************)
(* The screensaver's manager (gs-manager.c) with the windows it puts on    *)
(* the monitors (gs-window.c), the themes it runs in them (gs-job.c), the  *)
(* unlock dialog each window can pop up, and the device grab (gs-grab.c),  *)
(* as they behave on an X11 display.                                       *)
(*                                                                         *)
(* The daemon is one thread around a GLib main loop, so an action is one   *)
(* dispatch: a call of the D-Bus listener, an X event, a timeout, an idle  *)
(* source, or a line read from the dialog process.  What the daemon does   *)
(* not control (monitors, the dialog process, the order in which sources   *)
(* become ready) is chosen by the environment actions.                     *)
(***************************************************************************)
EXTENDS Naturals, FiniteSets

CONSTANTS
  Monitors,      \* the monitors that can be plugged in (GdkMonitor)
  PrefsValues,   \* the settings the user may choose between (GSPrefs)
  MaxDeferred,   \* bound on window_deactivated_idle sources that wait
  Hotplug,       \* may monitors come and go?
  SpawnMayFail,  \* may the dialog fail to start?
  GrabMayFail,   \* may gs_grab_grab_root give up?
  Dismissal      \* may the session ask for deactivation (SetActive, Quit)?

Prefs == [lock_enabled : BOOLEAN,
          lock_with_saver : BOOLEAN,    \* lock_with_saver_enabled
          lock_now : BOOLEAN,           \* lock_timeout = 0
          random : BOOLEAN]             \* mode = GS_MODE_RANDOM

NotAMonitor == {"none", "root", "overlay"}

ASSUME MonitorsAssumption == Monitors \cap NotAMonitor = {}
ASSUME PrefsAssumption == PrefsValues \subseteq Prefs
ASSUME BoundAssumption == MaxDeferred \in Nat \ {0}
ASSUME SwitchAssumption ==
  {Hotplug, SpawnMayFail, GrabMayFail, Dismissal} \subseteq BOOLEAN

VARIABLES
  prefs,         \* GSPrefs
  monitors,      \* the monitors GDK reports now
  active,        \* manager->priv->active
  lock_active,   \* manager->priv->lock_active
  dialog_up,     \* manager->priv->dialog_up
  throttled,     \* manager->priv->throttled
  lock_timer,    \* is lock_timeout_id set?
  cycle_timer,   \* is cycle_timeout_id set?
  win,           \* manager->priv->windows: monitor |-> GSWindow
  jobs,          \* manager->priv->jobs: the GSJob of a monitor's window
  grab,          \* GSGrab: grab_window and no_pointer_grab
  deferred       \* number of window_deactivated_idle sources that wait

settings == <<prefs, monitors>>
timers   == <<lock_timer, cycle_timer>>
vars == <<prefs, monitors, active, lock_active, dialog_up, throttled,
          lock_timer, cycle_timer, win, jobs, grab, deferred>>

-----------------------------------------------------------------------------
(***************************************************************************)
(* The unlock dialog of a window is a child process.  Its state is what    *)
(* the process has written and the window has not read yet:                *)
(*   none       there is no process (lock_pid = 0)                         *)
(*   starting   spawned, the plug's WINDOW ID not read yet                 *)
(*   asking     embedded, the user is being authenticated                  *)
(*   ok, cancel, quit   RESPONSE=OK, RESPONSE=CANCEL, REQUEST QUIT written *)
(*   exited     the process is gone and its pipe is at end of file         *)
(*   answered   RESPONSE=OK was read, nobody reads the pipe any more       *)
(***************************************************************************)
Talking    == {"starting", "asking"}
Spoken     == {"ok", "cancel", "quit", "exited"}
Watched    == Talking \cup Spoken              \* lock_watch_id > 0
ChildState == {"none", "answered"} \cup Watched

JobStatus == {"INVALID", "RUNNING", "STOPPED", "DEAD"}

Window == [lock_active : BOOLEAN,
           dialog_up : BOOLEAN,
           obscured : BOOLEAN,
           sensitive : BOOLEAN,
           mapped : BOOLEAN,             \* has the map-event arrived?
           popup_idle : BOOLEAN,         \* popup_dialog_idle_id
           deactivated_idle : BOOLEAN,   \* deactivated_idle_id
           response : {"CANCEL", "OK"},  \* dialog_response
           child : ChildState]

NewWindow(locked) ==
  [lock_active |-> locked, dialog_up |-> FALSE, obscured |-> FALSE,
   sensitive |-> TRUE, mapped |-> FALSE, popup_idle |-> FALSE,
   deactivated_idle |-> FALSE, response |-> "CANCEL", child |-> "none"]

NoWindows == [m \in {} |-> NewWindow(FALSE)]
NoJobs    == [m \in {} |-> "INVALID"]
NoGrab(g) == [g EXCEPT !.window = "none"]       \* gs_grab_release, gs_grab_reset
GrabOf(w, no_pointer) == [window |-> w, no_pointer |-> no_pointer]

Windows == DOMAIN win
DialogWindows == {m \in Windows : win[m].dialog_up}

\* Destroying the windows pops down a dialog, whose window takes the devices
\* and loses them as it goes.
GrabAfterPopdown(g) ==
  IF DialogWindows = {} THEN g ELSE GrabOf("none", FALSE)

TypeOK ==
  /\ prefs \in Prefs
  /\ monitors \subseteq Monitors
  /\ active \in BOOLEAN
  /\ lock_active \in BOOLEAN
  /\ dialog_up \in BOOLEAN
  /\ throttled \in BOOLEAN
  /\ lock_timer \in BOOLEAN
  /\ cycle_timer \in BOOLEAN
  /\ Windows \subseteq Monitors
  /\ win \in [Windows -> Window]
  /\ DOMAIN jobs \subseteq Monitors
  /\ jobs \in [DOMAIN jobs -> JobStatus]
  /\ grab \in [window : Monitors \cup NotAMonitor, no_pointer : BOOLEAN]
  /\ deferred \in Nat

Init ==
  /\ prefs \in PrefsValues
  /\ monitors = Monitors
  /\ active = FALSE
  /\ lock_active = FALSE
  /\ dialog_up = FALSE
  /\ throttled = FALSE
  /\ lock_timer = FALSE
  /\ cycle_timer = FALSE
  /\ win = NoWindows
  /\ jobs = NoJobs
  /\ grab = GrabOf("none", FALSE)
  /\ deferred = 0

-----------------------------------------------------------------------------
(***************************************************************************)
(* Themes.  A job has a process exactly when it is RUNNING or STOPPED      *)
(* (by SIGSTOP); gs_job_is_running asks only whether there is a process.   *)
(***************************************************************************)
HasProcess(j) == j \in {"RUNNING", "STOPPED"}

Killed(j)    == IF HasProcess(j) THEN "DEAD" ELSE j
Suspended(j) == IF HasProcess(j) THEN "STOPPED" ELSE j

\* SLIP (see README): the window's visibility is not consulted.
StartableUnseen(js, ws) == {m \in DOMAIN js : ~HasProcess(js[m])}

\* The windows in which manager_maybe_start_job_for_window gets as far as
\* gs_job_start, as far as the job and the window decide it.
Startable(js, ws) ==
  {m \in DOMAIN js : ~HasProcess(js[m]) /\ ~ws[m].obscured}

\* A theme that is told to start does, or its command cannot be run (or is
\* empty: the blank screen).
StartIn(js, candidates) ==
  \E S \in SUBSET candidates :
    jobs' = [m \in DOMAIN js |-> IF m \in S THEN "RUNNING" ELSE js[m]]

-----------------------------------------------------------------------------
(***************************************************************************)
(* Operations the rest of the daemon calls.                                *)
(***************************************************************************)
WantsLock == prefs.lock_enabled /\ prefs.lock_with_saver

\* SLIP: new windows take no notice of the lock that is already engaged.
ShowWindowsAfresh(ms, locked) ==
  LET lockedAfter == ms # {} /\ WantsLock /\ prefs.lock_now
  IN  /\ lock_active' = lockedAfter
      /\ win' = [m \in ms |-> NewWindow(lockedAfter)]
      /\ jobs' = [m \in ms |-> "INVALID"]
      /\ lock_timer' = (ms # {} /\ WantsLock /\ ~prefs.lock_now)
      /\ cycle_timer' = (cycle_timer \/ (ms # {} /\ prefs.random))

\* SLIP: a second window removes the timer the first one set.
ShowWindowsNoTimer(ms, locked) ==
  LET lockedAfter == locked \/ (ms # {} /\ WantsLock /\ prefs.lock_now)
  IN  /\ lock_active' = lockedAfter
      /\ win' = [m \in ms |-> NewWindow(lockedAfter)]
      /\ jobs' = [m \in ms |-> "INVALID"]
      /\ lock_timer' = (WantsLock /\ ~prefs.lock_now /\ ~locked /\ ~active)
      /\ cycle_timer' = (cycle_timer \/ (ms # {} /\ prefs.random))

\* Creates and shows a window on each monitor of ms; every window shown
\* gets a new job and starts the lock and cycle timers afresh.
ShowWindows(ms, locked) ==
  LET lockedAfter == locked \/ (ms # {} /\ WantsLock /\ prefs.lock_now)
  IN  /\ lock_active' = lockedAfter
      /\ win' = [m \in ms |-> NewWindow(lockedAfter)]
      /\ jobs' = [m \in ms |-> "INVALID"]
      /\ lock_timer' = IF ms = {} THEN lock_timer
                       ELSE WantsLock /\ ~prefs.lock_now /\ ~locked
      /\ cycle_timer' = (cycle_timer \/ (ms # {} /\ prefs.random))

ActivateWith(locked) ==
  /\ ~active
  /\ active' = TRUE
  /\ grab' = GrabOf("root", FALSE)
  /\ ShowWindows(monitors, locked \/ (WantsLock /\ prefs.lock_now))
  /\ UNCHANGED <<settings, dialog_up, throttled, deferred>>

Activate == ActivateWith(lock_active)

\* gs_manager_activate returns FALSE: no devices, no blanking.
ActivateFails == GrabMayFail /\ ~active /\ UNCHANGED vars

\* SLIP: the timers are left running.
DeactivateKeepsTimers ==
  /\ active
  /\ active' = FALSE
  /\ dialog_up' = FALSE
  /\ lock_active' = FALSE
  /\ grab' = GrabAfterPopdown(NoGrab(grab))
  /\ jobs' = NoJobs
  /\ win' = NoWindows
  /\ UNCHANGED <<settings, timers, throttled>>

Deactivate ==
  /\ active
  /\ active' = FALSE
  /\ dialog_up' = FALSE
  /\ lock_active' = FALSE
  /\ lock_timer' = FALSE
  /\ cycle_timer' = FALSE
  /\ grab' = NoGrab(grab)
  /\ jobs' = NoJobs
  /\ win' = NoWindows
  /\ UNCHANGED <<settings, throttled>>

\* SLIP: the windows are not told.
EnableLockerUntold ==
  /\ lock_active' = TRUE
  /\ UNCHANGED <<settings, active, dialog_up, throttled, cycle_timer, win, jobs,
                 grab, deferred>>

EnableLocker ==
  /\ lock_active' = TRUE
  /\ win' = [m \in Windows |-> [win[m] EXCEPT !.lock_active = TRUE]]
  /\ UNCHANGED <<settings, active, dialog_up, throttled, cycle_timer, jobs,
                 grab, deferred>>

\* A Lock call, of the session or of the idle listener: the locker is enabled
\* first, whether or not the saver can then be activated.
Lock ==
  /\ prefs.lock_enabled
  /\ \/ ActivateWith(TRUE)
     \/ /\ active \/ GrabMayFail
        /\ EnableLocker
        /\ UNCHANGED lock_timer

SetThrottled ==
  /\ throttled' = ~throttled
  /\ \/ dialog_up /\ UNCHANGED jobs
     \/ ~dialog_up /\ ~throttled /\ jobs' = [m \in DOMAIN jobs |-> Killed(jobs[m])]
     \/ ~dialog_up /\ throttled /\ StartIn(jobs, Startable(jobs, win))
  /\ UNCHANGED <<settings, active, lock_active, dialog_up, timers, win, grab,
                 deferred>>

\* Every theme is stopped and a new job takes its place.
Cycle ==
  /\ active /\ ~dialog_up /\ ~throttled
  /\ LET fresh == [m \in DOMAIN jobs |-> "INVALID"]
     IN  StartIn(fresh, Startable(fresh, win))
  /\ UNCHANGED <<settings, active, lock_active, dialog_up, throttled, timers,
                 win, grab, deferred>>

-----------------------------------------------------------------------------
(***************************************************************************)
(* A request to unlock, for the window m under the pointer.                *)
(***************************************************************************)
\* Nothing is locked: the window will tell the manager to deactivate.
RequestLeave(m) ==
  /\ ~win[m].lock_active
  /\ win' = [win EXCEPT ![m].deactivated_idle = TRUE]
  /\ UNCHANGED <<settings, active, lock_active, dialog_up, throttled, timers,
                 jobs, grab, deferred>>

\* The manager makes way for the dialog of window m.
HandleDialogUp(m) ==
  /\ dialog_up' = TRUE
  /\ grab' = GrabOf(m, TRUE)
  /\ jobs' = IF throttled THEN jobs
             ELSE [w \in DOMAIN jobs |-> Suspended(jobs[w])]

WithDialogUp(m) ==
  [w \in Windows |->
     IF w = m THEN [win[w] EXCEPT !.popup_idle = TRUE, !.dialog_up = TRUE]
              ELSE [win[w] EXCEPT !.sensitive = FALSE]]

\* The window will pop up the dialog.  (It is down here: DialogAgreement.)
RequestDialog(m) ==
  /\ win[m].lock_active
  /\ win' = WithDialogUp(m)
  /\ HandleDialogUp(m)
  /\ UNCHANGED <<settings, active, lock_active, throttled, timers, deferred>>

\* SLIP: a dialog that is up already is overlooked.
RequestUnlockTwice(m) ==
  /\ active
  /\ m \in Windows
  /\ win[m].child \notin Watched
  /\ RequestLeave(m) \/ RequestDialog(m)

RequestUnlock(m) ==
  /\ active /\ ~dialog_up
  /\ m \in Windows
  /\ win[m].child \notin Watched
  /\ RequestLeave(m) \/ RequestDialog(m)

\* Input reaches window w; the pointer may be over another window, m.
Activity(w, m) ==
  /\ w \in Windows
  /\ win[w].sensitive
  /\ win[w].child \in {"none", "starting"}      \* no lock_socket yet
  /\ RequestUnlock(m)

-----------------------------------------------------------------------------
(***************************************************************************)
(* The dialog of window m.                                                 *)
(***************************************************************************)
PopupDialogIdle(m) ==
  /\ m \in Windows
  /\ win[m].popup_idle
  /\ \E c \in {"starting"} \cup (IF SpawnMayFail THEN {"none"} ELSE {}) :
       win' = [win EXCEPT ![m].popup_idle = FALSE, ![m].child = c]
  /\ UNCHANGED <<settings, active, lock_active, dialog_up, throttled, timers,
                 jobs, grab, deferred>>

\* The process writes its answer, or asks to be terminated, or dies.
DialogSpeaks(m) ==
  /\ m \in Windows
  /\ win[m].child \in Talking
  /\ \E c \in Spoken : win' = [win EXCEPT ![m].child = c]
  /\ UNCHANGED <<settings, active, lock_active, dialog_up, throttled, timers,
                 jobs, grab, deferred>>

ReadWindowId(m) ==
  /\ m \in Windows
  /\ win[m].child = "starting"
  /\ win' = [win EXCEPT ![m].child = "asking"]
  /\ UNCHANGED <<settings, active, lock_active, dialog_up, throttled, timers,
                 jobs, grab, deferred>>

\* REQUEST QUIT: the process is sent SIGTERM.
ReadQuit(m) ==
  /\ m \in Windows
  /\ win[m].child = "quit"
  /\ win' = [win EXCEPT ![m].child = "exited"]
  /\ UNCHANGED <<settings, active, lock_active, dialog_up, throttled, timers,
                 jobs, grab, deferred>>

\* SLIP: the OK is noted and nobody is told.
FinishOkSilently(m) ==
  /\ win' = [win EXCEPT ![m].response = "OK", ![m].child = "answered"]
  /\ UNCHANGED <<settings, active, lock_active, dialog_up, throttled, timers,
                 jobs, grab, deferred>>

\* RESPONSE=OK: the window will tell the manager to deactivate.  The dialog
\* stays up until the manager destroys the window.
FinishOk(m) ==
  /\ win' = [win EXCEPT ![m].response = "OK", ![m].child = "answered",
                        ![m].deactivated_idle = TRUE]
  /\ UNCHANGED <<settings, active, lock_active, dialog_up, throttled, timers,
                 jobs, grab, deferred>>

\* The manager takes the devices back and lets the themes go on.
HandleDialogDown(m) ==
  /\ dialog_up' = FALSE
  /\ grab' = GrabOf(m, FALSE)
  /\ LET resumed == [w \in DOMAIN jobs |->
                      IF jobs[w] = "STOPPED" THEN "RUNNING" ELSE jobs[w]]
     IN  \/ throttled /\ UNCHANGED jobs
         \/ ~throttled /\ StartIn(resumed, Startable(resumed, win))

WithDialogDown(m) ==
  [win EXCEPT ![m].response = "CANCEL", ![m].child = "none",
              ![m].dialog_up = FALSE, ![m].popup_idle = FALSE]

\* SLIP: the other windows stay insensitive.
PopdownDialogDeaf(m) ==
  /\ win' = WithDialogDown(m)
  /\ HandleDialogDown(m)
  /\ UNCHANGED <<settings, active, lock_active, throttled, timers, deferred>>

\* The dialog goes down, and every window listens again.  (It is up here:
\* DialogUnderWay.)
PopdownDialog(m) ==
  /\ win' = [w \in Windows |-> [WithDialogDown(m)[w] EXCEPT !.sensitive = TRUE]]
  /\ HandleDialogDown(m)
  /\ UNCHANGED <<settings, active, lock_active, throttled, timers, deferred>>

\* SLIP: the end of the pipe is not taken for an answer.
ReadEndAnswersOnly(m) ==
  /\ m \in Windows
  /\ \/ win[m].child = "ok" /\ FinishOk(m)
     \/ win[m].child = "cancel" /\ PopdownDialog(m)

\* The end of the conversation: an answer, or the end of the pipe, which
\* leaves dialog_response as it was.
ReadEnd(m) ==
  /\ m \in Windows
  /\ win[m].child \in {"ok", "cancel", "exited"}
  /\ LET ok == \/ win[m].child = "ok"
               \/ win[m].child = "exited" /\ win[m].response = "OK"
     IN  (ok /\ FinishOk(m)) \/ (~ok /\ PopdownDialog(m))

ReadDialog(m) == ReadWindowId(m) \/ ReadQuit(m) \/ ReadEnd(m)

\* The window's "deactivated" signal: the manager defers its reaction to an
\* idle source that it neither remembers nor removes.
EmitDeactivatedIdle(m) ==
  /\ m \in Windows
  /\ win[m].deactivated_idle
  /\ deferred < MaxDeferred
  /\ win' = [win EXCEPT ![m].deactivated_idle = FALSE]
  /\ deferred' = deferred + 1
  /\ UNCHANGED <<settings, active, lock_active, dialog_up, throttled, timers,
                 jobs, grab>>

WindowDeactivatedIdle ==
  /\ deferred > 0
  /\ deferred' = deferred - 1
  /\ \/ Deactivate
     \/ /\ ~active
        /\ UNCHANGED <<settings, active, lock_active, dialog_up, throttled,
                       timers, win, jobs, grab>>

-----------------------------------------------------------------------------
(***************************************************************************)
(* X events and timeouts.                                                  *)
(***************************************************************************)
\* The window is on the screen; it takes the grab if the pointer is on it.
MapEvent(m) ==
  /\ m \in Windows
  /\ ~win[m].mapped
  /\ win' = [win EXCEPT ![m].mapped = TRUE]
  /\ grab' \in {grab, GrabOf(m, FALSE)}
  /\ \/ (dialog_up \/ throttled) /\ UNCHANGED jobs
     \/ ~dialog_up /\ ~throttled /\ StartIn(jobs, Startable(jobs, win) \cap {m})
  /\ UNCHANGED <<settings, active, lock_active, dialog_up, throttled, timers,
                 deferred>>

Obscured(m) ==
  /\ m \in Windows
  /\ ~win[m].obscured
  /\ win' = [win EXCEPT ![m].obscured = TRUE]
  /\ jobs' = [w \in DOMAIN jobs |-> IF w = m THEN Killed(jobs[m]) ELSE jobs[w]]
  /\ UNCHANGED <<settings, active, lock_active, dialog_up, throttled, timers,
                 grab, deferred>>

Unobscured(m) ==
  /\ m \in Windows
  /\ win[m].obscured
  /\ win' = [win EXCEPT ![m].obscured = FALSE]
  /\ \/ (dialog_up \/ throttled) /\ UNCHANGED jobs
     \/ ~dialog_up /\ ~throttled /\ StartIn(jobs, Startable(jobs, win') \cap {m})
  /\ UNCHANGED <<settings, active, lock_active, dialog_up, throttled, timers,
                 grab, deferred>>

\* Another client took both devices from the window that held them.
GrabBroken(m) ==
  /\ m \in Windows
  /\ grab.window = m
  /\ grab' = NoGrab(grab)
  /\ UNCHANGED <<settings, active, lock_active, dialog_up, throttled, timers,
                 win, jobs, deferred>>

\* A theme whose stderr the job watches dies by itself.
ThemeDies(m) ==
  /\ m \in DOMAIN jobs
  /\ jobs[m] = "RUNNING"
  /\ jobs' = [jobs EXCEPT ![m] = "DEAD"]
  /\ UNCHANGED <<settings, active, lock_active, dialog_up, throttled, timers,
                 win, grab, deferred>>

\* A monitor was added or removed.  While active, every window is destroyed
\* and a new one made for each monitor there is now.  The devices are first
\* moved to the overlay, but popping down a dialog moves them to its window,
\* which is about to be destroyed.
MonitorsChanged(ms) ==
  /\ Hotplug
  /\ ms # monitors
  /\ monitors' = ms
  /\ \/ /\ ~active
        /\ UNCHANGED <<lock_active, dialog_up, timers, win, jobs, grab>>
     \/ /\ active
        /\ ShowWindows(ms, lock_active)
        /\ dialog_up' = (dialog_up /\ DialogWindows = {})
        /\ grab' = GrabAfterPopdown(GrabOf("overlay", FALSE))
  /\ UNCHANGED <<prefs, active, throttled, deferred>>

LockTimeout ==
  /\ lock_timer
  /\ lock_timer' = FALSE
  /\ EnableLocker

CycleTimeout == cycle_timer /\ Cycle

PrefsChanged ==
  /\ prefs' \in PrefsValues \ {prefs}
  /\ UNCHANGED <<monitors, active, lock_active, dialog_up, throttled, timers,
                 win, jobs, grab, deferred>>

-----------------------------------------------------------------------------
Call ==
  \/ Activate
  \/ ActivateFails
  \/ Dismissal /\ Deactivate /\ UNCHANGED deferred
  \/ Lock
  \/ SetThrottled
  \/ Cycle
  \/ \E m \in monitors : RequestUnlock(m)

Environment ==
  \/ \E w \in Windows, m \in monitors : Activity(w, m)
  \/ \E m \in Monitors :
       \/ DialogSpeaks(m)
       \/ MapEvent(m)
       \/ Obscured(m)
       \/ Unobscured(m)
       \/ GrabBroken(m)
       \/ ThemeDies(m)
       \/ MonitorsChanged(monitors \cup {m})
       \/ MonitorsChanged(monitors \ {m})
  \/ PrefsChanged

Next ==
  \/ Call
  \/ Environment
  \/ \E m \in Monitors :
       PopupDialogIdle(m) \/ ReadDialog(m) \/ EmitDeactivatedIdle(m)
  \/ WindowDeactivatedIdle
  \/ LockTimeout
  \/ CycleTimeout

Spec == Init /\ [][Next]_vars

\* The main loop dispatches what is ready, and a dialog does not stay silent
\* for ever: it gives up by its own timeouts.
Fairness ==
  /\ \A m \in Monitors :
       /\ WF_vars(PopupDialogIdle(m))
       /\ WF_vars(DialogSpeaks(m))
       /\ WF_vars(ReadDialog(m))
       /\ WF_vars(EmitDeactivatedIdle(m))
  /\ WF_vars(WindowDeactivatedIdle)
  /\ WF_vars(LockTimeout)

FairSpec == Spec /\ Fairness

-----------------------------------------------------------------------------
(***************************************************************************)
(* What has to hold after every dispatch.                                  *)
(***************************************************************************)
\* There are two flags for "the dialog is up", one in the manager that
\* refuses further unlock requests and one in the window that will clear the
\* first.  They agree, and only one window has its dialog up.
DialogAgreement ==
  /\ dialog_up = (DialogWindows # {})
  /\ \A m, n \in DialogWindows : m = n

\* Every window decides by its own copy of lock_active whether activity asks
\* for a password; no copy is ever out of date, whichever of the lock timer,
\* a Lock call and a hotplug came last.
LockCopiesAgree == \A m \in Windows : win[m].lock_active = lock_active

\* While the dialog is up no other window takes input, and afterwards every
\* window does again.
OnlyDialogListens ==
  \A m \in Windows : win[m].sensitive = (dialog_up => win[m].dialog_up)

\* No theme process runs (it may exist, stopped) while the dialog is up,
\* while throttled, or in a window nobody can see.
ThemesQuiet ==
  \A m \in DOMAIN jobs :
    jobs[m] = "RUNNING" => ~dialog_up /\ ~throttled /\ ~win[m].obscured

\* A deactivation leaves nothing behind: no window, theme, or grab of the
\* user's devices, and no timer that would lock or cycle the next activation.
InactiveIsClean ==
  /\ ~active => /\ win = NoWindows /\ jobs = NoJobs
                /\ grab.window = "none"
                /\ ~lock_timer /\ ~cycle_timer /\ ~dialog_up
  /\ active => Windows = monitors /\ DOMAIN jobs = monitors

\* What is going to take a dialog down that is up: it is about to be started,
\* its process is being listened to, or its OK is on the way to the manager.
UnderWay(m) ==
  \/ win[m].popup_idle
  \/ win[m].child \in Watched
  \/ win[m].child = "answered" /\ (win[m].deactivated_idle \/ deferred > 0)

\* A dialog that is up blocks every further request to unlock, so one that
\* nothing will take down would lock the user out.  Conversely a dialog
\* process or a dialog about to be started always has its window's flag up.
DialogUnderWay ==
  \A m \in Windows :
    /\ win[m].dialog_up => UnderWay(m)
    /\ win[m].popup_idle \/ win[m].child # "none" => win[m].dialog_up
    /\ ~(win[m].popup_idle /\ win[m].child # "none")
    /\ win[m].response = "OK" <=> win[m].child = "answered"

\* The dialog is up only while the saver is locked.
DialogOnlyWhenLocked == dialog_up => active /\ lock_active

(***************************************************************************)
(* The manager implements the abstract screen lock: its many flags and     *)
(* sources amount to a screen, a grant and a decision to leave.            *)
(***************************************************************************)
Screen  == IF ~active THEN "off" ELSE IF lock_active THEN "locked" ELSE "on"
Granted == \E m \in Windows : win[m].child \in {"ok", "answered"}
Leaving == deferred > 0 \/ \E m \in Windows : win[m].deactivated_idle

SL == INSTANCE ScreenLock WITH screen <- Screen, granted <- Granted, leaving <- Leaving

\* A locked screen is only ever left with access granted or on an earlier
\* decision, and never silently unlocked (every step is one of ScreenLock).
ImplementsScreenLock == SL!Spec

\* What a monitor's window and its dialog process have come to.
ChildOf(m) == IF m \in Windows THEN win[m].child ELSE "none"

Conversation(m) == INSTANCE DialogChild WITH child <- ChildOf(m)

\* The window's flags, the idle source that starts the dialog, the hotplugs and
\* the deactivations together treat a dialog process the way UnlockConversation
\* has it end to end: none is started over another, and an answer is acted upon
\* once, by the window that asked for it.
ImplementsChildren ==
  /\ \A m \in Monitors : Conversation(m)!Init
  /\ [][\A m \in Monitors : Conversation(m)!Next \/ UNCHANGED ChildOf(m)]_vars

-----------------------------------------------------------------------------
(***************************************************************************)
(* Liveness.                                                               *)
(***************************************************************************)
\* A dialog that is up comes down: it does not keep refusing requests.
DialogComesDown == dialog_up ~> ~dialog_up

\* An accepted password takes effect: it does not linger in a window whose
\* dialog is finished.  Deactivation is what ends it, or a hotplug, whose
\* rebuilt windows have forgotten it.
GrantTakesEffect == Granted ~> ~Granted

\* Every hotplug starts the delay afresh; once they cease, the screen is
\* locked when the delay has passed, whatever they did to the timer, unless
\* the saver ends first or the user switches locking off.
LockEngages ==
  <>[][FALSE]_monitors => (lock_timer ~> (lock_active \/ ~active \/ ~WantsLock))

=============================================================================
