----------------------------- MODULE X11Session -----------------------------
(***************************************************************************)
(* The X11 side of the daemon: the idle listener (gs-listener-x11.c with    *)
(* gs-listener.c) and what the monitor and the manager do on its signals,   *)
(* together with the grab of GSGrab, in which an activation may block or    *)
(* fail.                                                                    *)
(*                                                                         *)
(* Everything runs in the main loop, so nothing of the listener runs while  *)
(* a call of the grab is under way, or the windows are being destroyed.  The X server counts the time without   *)
(* input and turns its own screen saver on; its notifications wait in       *)
(* `notify'.  Of the time only its place among the timeouts matters.        *)
(***************************************************************************)
EXTENDS GSGrab, Sequences

CONSTANTS
  Overlay,       \* the one window that is not made for a monitor
  PrefsValues,   \* the settings tried
  MaxNotify      \* bound: notifications on their way

ASSUME OverlayAssumption == Overlay \in Windows
ASSUME NotifyAssumption == MaxNotify \in Nat \ {0}

VARIABLES
  active,       \* GSManagerPrivate.active
  dialog,       \* the window whose dialog is up, or "none"
  task,         \* why the windows are being destroyed, and how far that is
  prefs,        \* what the preferences say, as the listener has it
  timer,        \* the source of lock_timer is there
  idle_time,    \* 0: below the timeout, 1: above, 2: the lock timeout is over too
  state,        \* ScreenSaverOff, On or Disabled, as the server has it
  notify,       \* ScreenSaverNotify events on their way: "Reset" stands for
                \* ScreenSaverOff and ScreenSaverDisabled, which are one case
  fullscreen,   \* the active window covers the screen, which inhibits the saver
  inhibited,    \* GSListenerDBus.inhibitors is not empty
  ignored       \* history: "lock" came while locking was disabled

listener == <<prefs, timer, idle_time, state, notify, fullscreen, inhibited, ignored>>
manager  == <<active, dialog, task>>
session  == <<manager, listener>>
x11vars == <<vars, session>>

Preferences == [enabled : BOOLEAN, lock_enabled : BOOLEAN,
                lock_with_saver : BOOLEAN, lock_at_once : BOOLEAN]
ASSUME PrefsAssumption == PrefsValues \subseteq Preferences

States  == {"Off", "On", "Disabled"}
Notices == {"On", "Reset"}

\* The windows of the monitors.
Shown == Windows \ {Overlay}

\* The main loop has the thread.
Resting == Idle /\ task = "none"

\* The type invariant.  There is at most one lock_timer, and there always is.
SessionTypeOK ==
  /\ TypeOK
  /\ active \in BOOLEAN
  /\ dialog \in Shown \cup {"none"}
  /\ task \in {"none", "overlay", "renew", "leave"}
  /\ prefs \in PrefsValues /\ timer = TRUE
  /\ idle_time \in 0..2 /\ state \in States
  /\ notify \in Seq(Notices) /\ Len(notify) <= MaxNotify
  /\ fullscreen \in BOOLEAN /\ inhibited \in BOOLEAN /\ ignored \in BOOLEAN

\* The daemon after the idle callback of gs_listener_init.
SessionInit ==
  /\ Init
  /\ prefs \in PrefsValues /\ fullscreen \in BOOLEAN
  /\ active = FALSE /\ dialog = "none" /\ task = "none" /\ timer = TRUE
  /\ idle_time = 0 /\ state = "Off" /\ notify = <<>>
  /\ inhibited = FALSE /\ ignored = FALSE

-----------------------------------------------------------------------------
\* gs_manager_activate begins with the grab of the root window.
Activates ==
  IF active THEN UNCHANGED call ELSE call' = [NoCall EXCEPT !.op = "root"]

NoSignal == UNCHANGED <<ignored, call>>

\* listener_activate_cb and listener_lock_cb do nothing while the saver is
\* inhibited, and "lock" does nothing at all where locking is disabled.
EmitActivate == IF inhibited THEN NoSignal ELSE Activates /\ UNCHANGED ignored

EmitLock ==
  IF inhibited THEN NoSignal
  ELSE IF prefs.lock_enabled
  THEN Activates /\ UNCHANGED ignored
  ELSE ignored' = TRUE /\ UNCHANGED call

\* lock_state: the time to lock has come.  A lock timeout of 0 is over as soon
\* as the server's saver is on.
LockDue ==
  /\ state = "On" /\ prefs.lock_with_saver
  /\ prefs.lock_at_once \/ idle_time = 2

\* SLIP: the source is removed in its own callback and not added again.
lock_timer_once ==
  /\ Resting /\ timer /\ prefs.enabled
  /\ IF fullscreen \/ (idle_time = 0 /\ state = "Off")
     THEN timer' = FALSE /\ NoSignal
     ELSE /\ UNCHANGED timer
          /\ IF idle_time = 0 \/ state = "Disabled"
             THEN IF LockDue THEN EmitLock ELSE NoSignal
             ELSE IF LockDue THEN EmitLock ELSE EmitActivate
  /\ UNCHANGED <<Devices, focus, broken, taken, refused>>
  /\ UNCHANGED <<manager, prefs, idle_time, state, notify, fullscreen, inhibited>>

\* lock_timer, each time the source fires.  It is replaced by one with another
\* timeout, or stays.
lock_timer ==
  /\ Resting /\ timer /\ prefs.enabled
  /\ timer' = TRUE
  /\ IF fullscreen \/ (idle_time = 0 /\ state = "Off")
     THEN NoSignal
     ELSE IF idle_time = 0 \/ state = "Disabled"
     THEN IF LockDue THEN EmitLock ELSE NoSignal
     ELSE IF LockDue THEN EmitLock ELSE EmitActivate
  /\ UNCHANGED <<Devices, focus, broken, taken, refused>>
  /\ UNCHANGED <<manager, prefs, idle_time, state, notify, fullscreen, inhibited>>

\* xroot_filter on a ScreenSaverNotify event.
xroot_filter ==
  /\ Resting /\ notify # <<>>
  /\ notify' = Tail(notify)
  /\ timer' = TRUE
  /\ IF Head(notify) = "On" /\ prefs.enabled /\ ~fullscreen
     THEN IF prefs.lock_enabled /\ prefs.lock_with_saver /\ prefs.lock_at_once
          THEN EmitLock ELSE EmitActivate
     ELSE NoSignal
  /\ UNCHANGED <<Devices, focus, broken, taken, refused>>
  /\ UNCHANGED <<manager, prefs, idle_time, state, fullscreen, inhibited>>

\* set_timeouts of gs-listener.c and of gs-listener-x11.c: the server's saver
\* gets its timeout again.
PrefsChanged ==
  /\ Resting
  /\ \E new \in PrefsValues : new # prefs /\ prefs' = new
  /\ timer' = TRUE
  /\ state' = (IF state = "Disabled" THEN "Off" ELSE state)
  /\ UNCHANGED vars
  /\ UNCHANGED <<manager, idle_time, notify, fullscreen, inhibited, ignored>>

-----------------------------------------------------------------------------
(***************************************************************************)
(* The manager and the grab.                                               *)
(***************************************************************************)
\* A round of gs_grab_grab_root, and the rest of gs_manager_activate after the
\* last: with the devices the saver is active, without it is not.
ActivationRound ==
  /\ call.op = "root"
  /\ \/ RootGrabbed /\ active' = TRUE
     \/ RootRefused /\ UNCHANGED active
  /\ UNCHANGED <<broken, taken, dialog, task, listener>>

\* window_map_event_cb: the window gets the focus, and the devices if the
\* pointer is on its monitor.
MapEvent ==
  /\ Resting /\ active
  /\ \E w \in Shown :
       /\ focus' = w
       /\ \/ gs_grab_move_to_window(w, FALSE)
          \/ UNCHANGED <<Devices, broken, call, taken, refused>>
  /\ UNCHANGED session

\* handle_window_dialog_up and handle_window_dialog_down: the window of the
\* dialog gets the devices, without the pointer and then with it.
DialogUp ==
  /\ Resting /\ active /\ dialog = "none"
  /\ \E w \in Shown : dialog' = w /\ gs_grab_move_to_window(w, TRUE)
  /\ UNCHANGED <<focus, active, task, listener>>

DialogDown ==
  /\ Resting /\ dialog # "none"
  /\ gs_grab_move_to_window(dialog, FALSE)
  /\ dialog' = "none"
  /\ UNCHANGED <<focus, active, task, listener>>

\* recreate_windows: the devices go to the overlay, the focus goes nowhere.
MonitorsChanged ==
  /\ Resting /\ active
  /\ gs_grab_move_to_window(Overlay, FALSE)
  /\ task' = "overlay"
  /\ UNCHANGED <<focus, active, dialog, listener>>

FocusNowhere ==
  /\ Idle /\ task = "overlay"
  /\ focus' = "none"
  /\ task' = "renew"
  /\ UNCHANGED <<Devices, broken, call, taken, refused, active, dialog, listener>>

\* SLIP: the grab is left to the windows that are destroyed.
DeactivateGrabbed ==
  /\ Resting /\ active
  /\ task' = "leave"
  /\ UNCHANGED <<vars, active, dialog, listener>>

\* gs_manager_deactivate: for a user who proved to be one, for activity when
\* there is nothing to unlock, or for a call of D-Bus.
Deactivate ==
  /\ Resting /\ active
  /\ gs_grab_release
  /\ task' = "leave"
  /\ UNCHANGED <<active, dialog, listener>>

\* gs_window_destroy pops down a dialog, with the manager's handlers still
\* connected: the window that is to go gets the devices.
PopDown ==
  /\ task \in {"renew", "leave"} /\ dialog # "none"
  /\ gs_grab_move_to_window(dialog, FALSE)
  /\ dialog' = "none"
  /\ UNCHANGED <<focus, active, task, listener>>

\* Windows that are gone have no devices, no record, which is a weak pointer,
\* and hear no event.  The overlay is hidden when the saver is left.
Vanish(W) ==
  /\ kbd' = (IF kbd \in W THEN "none" ELSE kbd)
  /\ ptr' = (IF ptr \in W THEN "none" ELSE ptr)
  /\ grab' = (IF grab.window \in W THEN [grab EXCEPT !.window = "none"] ELSE grab)
  /\ broken' = FALSE

DestroyWindows ==
  /\ Idle /\ task \in {"renew", "leave"} /\ dialog = "none"
  /\ Vanish(IF task = "leave" THEN Windows ELSE Shown)
  /\ active' = (task = "renew")
  /\ task' = "none"
  /\ UNCHANGED <<focus, call, taken, refused, dialog, listener>>

\* Nothing breaks the overlay's grab, and the event waits for the main loop.
OfGrab ==
  /\ \/ MoveRound \/ OtherTakes \/ OtherReleases
     \/ kbd # Overlay /\ GrabBreaks
     \/ Resting /\ window_grab_broken_cb
  /\ UNCHANGED session

-----------------------------------------------------------------------------
(***************************************************************************)
(* The X server and the user.                                              *)
(***************************************************************************)
TimePasses ==
  /\ idle_time < 2 /\ idle_time' = idle_time + 1
  /\ UNCHANGED vars
  /\ UNCHANGED <<manager, prefs, timer, state, notify, fullscreen, inhibited, ignored>>

Turns(new) ==
  /\ Len(notify) < MaxNotify
  /\ state' = new
  /\ notify' = Append(notify, IF new = "On" THEN "On" ELSE "Reset")

SaverGoesOn ==
  /\ idle_time > 0 /\ state = "Off" /\ Turns("On")
  /\ UNCHANGED vars
  /\ UNCHANGED <<manager, prefs, timer, idle_time, fullscreen, inhibited, ignored>>

\* Another client has the server's saver turned off.
SaverIsDisabled ==
  /\ state # "Disabled" /\ Turns("Disabled")
  /\ UNCHANGED vars
  /\ UNCHANGED <<manager, prefs, timer, idle_time, fullscreen, inhibited, ignored>>

UserActs ==
  /\ idle_time > 0
  /\ idle_time' = 0 /\ ignored' = FALSE
  /\ IF state = "On" THEN Turns("Off") ELSE UNCHANGED <<state, notify>>
  /\ UNCHANGED vars
  /\ UNCHANGED <<manager, prefs, timer, fullscreen, inhibited>>

FullscreenChanges ==
  /\ fullscreen' = ~fullscreen
  /\ UNCHANGED vars
  /\ UNCHANGED <<manager, prefs, timer, idle_time, state, notify, inhibited, ignored>>

\* The first request to inhibit the saver, or the end of the last.  Nobody tells the
\* idle listener: listener_check_activation does nothing.
InhibitionChanges ==
  /\ inhibited' = ~inhibited
  /\ UNCHANGED vars
  /\ UNCHANGED <<manager, prefs, timer, idle_time, state, notify, fullscreen, ignored>>

-----------------------------------------------------------------------------
SessionNext ==
  \/ lock_timer \/ xroot_filter \/ PrefsChanged
  \/ ActivationRound \/ OfGrab
  \/ MapEvent \/ DialogUp \/ DialogDown \/ MonitorsChanged \/ FocusNowhere
  \/ Deactivate \/ PopDown \/ DestroyWindows
  \/ TimePasses \/ SaverGoesOn \/ SaverIsDisabled \/ UserActs \/ FullscreenChanges
  \/ InhibitionChanges

SessionSpec == SessionInit /\ [][SessionNext]_x11vars

\* The main loop runs what is ready between any two calls, no call sleeps for
\* ever, what a handler has begun it goes on with, and a client that took a
\* device gives it back some time.
SessionFairSpec ==
  /\ SessionSpec
  /\ SF_x11vars(lock_timer) /\ SF_x11vars(xroot_filter) /\ WF_x11vars(SaverGoesOn)
  /\ WF_x11vars(ActivationRound)
  /\ WF_x11vars(FocusNowhere) /\ WF_x11vars(PopDown) /\ WF_x11vars(DestroyWindows)
  /\ WF_x11vars(MoveRound /\ UNCHANGED session)
  /\ WF_x11vars(OtherReleases /\ UNCHANGED session)

-----------------------------------------------------------------------------
(***************************************************************************)
(* Properties.                                                             *)
(***************************************************************************)
\* The devices are held for an active saver or for one that is being activated,
\* never for one that is not there, whatever failed in between: a user whose
\* saver is gone can type and click.  gs_manager_deactivate lets go of them
\* first, but a dialog that is open when its window is destroyed takes them
\* again, and another client may have had them meanwhile.
GrabFollowsSaver ==
  Idle /\ ~active => kbd \notin Targets /\ ptr \notin Targets

\* Who stays away gets the saver, also when the first attempt fails since other
\* clients had the devices, when a fullscreen window or a client has held it off
\* for some time, or a call has deactivated it.  Excused are a disabled saver, listener's or server's,
\* and "lock" without locking, which is ignored.
IdleActivates ==
  \/ []<><<PrefsChanged>>_x11vars
  \/ idle_time > 0 ~> \/ active \/ idle_time = 0 \/ ~prefs.enabled
                      \/ fullscreen \/ inhibited \/ state = "Disabled" \/ ignored
=============================================================================
