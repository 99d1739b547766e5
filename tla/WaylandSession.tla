--------------------------- MODULE WaylandSession ---------------------------
(***************************************************************************)
(* The Wayland side of the daemon: the session lock                        *)
(* (gs-session-lock-manager.c), the idle alarms (gs-listener-wayland.c with *)
(* gs-listener.c) and what the manager does with both, against the          *)
(* compositor of protocols/ext-session-lock-v1.xml and                      *)
(* protocols/ext-idle-notify-v1.xml.                                        *)
(*                                                                         *)
(* Everything runs in one thread, but wl_display_roundtrip dispatches       *)
(* events: a handler that waits in one is suspended, and the handlers of    *)
(* the events that come in run on top of it.  `stack' holds the suspended   *)
(* handlers, innermost first.  The compositor takes a request at once; its  *)
(* events wait in `queue' for any length of time.  A roundtrip is over when *)
(* the queue is empty: an event that a real roundtrip leaves in the queue   *)
(* is one that the compositor sends a little later here.                    *)
(***************************************************************************)
EXTENDS Naturals, Sequences, FiniteSets

CONSTANTS
  Monitors,    \* the monitors, each with a window while the saver is active
  PrefsValues, \* the settings tried
  MaxQueue,    \* bound: events on their way
  MaxRebuilds  \* bound: rebuildings of the windows within one another

ASSUME MonitorsAssumption == Monitors # {} /\ IsFiniteSet(Monitors)
ASSUME BoundAssumption == MaxQueue \in Nat \ {0} /\ MaxRebuilds \in Nat \ {0}

VARIABLES
  active,       \* GSManagerPrivate.active
  lock_active,  \* GSManagerPrivate.lock_active
  windows,      \* GSManagerPrivate.windows: what each is for the compositor
  wl_lock,      \* wl_lock # NULL
  locked,       \* GSSessionLockManager.locked
  alarms,       \* GSListenerWayland.alarms
  prefs,        \* what the preferences say
  zero,         \* GSListenerWayland.lock_timeout == 0
  stack,        \* suspended handlers
  error,        \* what has killed the daemon, or "none"
  object,       \* the compositor: the state of the lock object
  told,         \* the compositor: locked has been sent for it
  session,      \* the compositor: "open" or "locked"
  queue,        \* the compositor's events on their way
  fired,        \* alarms that are idle for the compositor
  idle,         \* the user has been away for longer than every timeout
  fullscreen,   \* the active window covers the screen, which inhibits the saver
  inhibited,    \* GSListenerDBus.inhibitors is not empty
  ignored       \* history: why the activation alarm has come to nothing, if it has

client == <<active, lock_active, windows, wl_lock, locked, alarms, prefs, zero,
            stack, error>>
compositor == <<object, told, session>>
vars == <<client, compositor, queue, fired, idle, fullscreen, inhibited, ignored>>

\* An alarm is idle once.  Its "lock" comes to nothing where locking is disabled,
\* its "lock" or "activate" while a client inhibits the saver, or when the session
\* lock is refused.
Reasons == {"no", "unlocked", "inhibited", "refused"}

\* What may kill the daemon: a protocol error, or a lock it uses that it has not.
Errors == {"none", "invalid_destroy", "invalid_unlock", "role", "null_lock", "freed_lock"}

AlarmId == {"ALARM_ACTIVATE", "ALARM_LOCK", "ALARM_DEACTIVATE"}

\* A handler suspended in a roundtrip, and the windows it has yet to show.
Frame == [in : {"lock", "show", "recreate", "unlock", "deactivate"},
          left : SUBSET Monitors, waits : BOOLEAN]

OfLock == {"locked", "finished"} \X {"lock"}
OfAlarm(ids) == {"idled", "resumed"} \X ids
Void == <<"void", "void">>
Event == OfLock \cup OfAlarm(AlarmId) \cup {Void}

Preferences == [enabled : BOOLEAN, lock_enabled : BOOLEAN, lock_with_saver : BOOLEAN,
                lock_at_once : BOOLEAN]
ASSUME PrefsAssumption == PrefsValues \subseteq Preferences

TypeOK ==
  /\ active \in BOOLEAN /\ lock_active \in BOOLEAN
  /\ windows \in [Monitors -> {"none", "plain", "added", "surface"}]
  /\ wl_lock \in BOOLEAN /\ locked \in BOOLEAN
  /\ alarms \subseteq AlarmId
  /\ prefs \in Preferences /\ zero \in BOOLEAN
  /\ stack \in Seq(Frame)
  /\ error \in Errors
  /\ object \in {"none", "pending", "granted", "finished"} /\ told \in BOOLEAN
  /\ session \in {"open", "locked"}
  /\ queue \in Seq(Event) /\ Len(queue) <= MaxQueue
  /\ fired \subseteq alarms
  /\ idle \in BOOLEAN /\ fullscreen \in BOOLEAN /\ inhibited \in BOOLEAN
  /\ ignored \in Reasons

NoWindows == [m \in Monitors |-> "none"]

\* The daemon after the idle callback of gs_listener_init.  A listener that is
\* not enabled never took the lock timeout over: it still is zero.
Init ==
  /\ prefs \in PrefsValues
  /\ zero = (prefs.enabled => prefs.lock_at_once)
  /\ alarms = IF prefs.enabled THEN {"ALARM_ACTIVATE"} ELSE {}
  /\ active = FALSE /\ lock_active = FALSE /\ windows = NoWindows
  /\ wl_lock = FALSE /\ locked = FALSE /\ stack = <<>> /\ error = "none"
  /\ object = "none" /\ told = FALSE /\ session = "open" /\ queue = <<>>
  /\ fired = {} /\ idle = FALSE /\ fullscreen \in BOOLEAN
  /\ inhibited = FALSE /\ ignored = "no"

-----------------------------------------------------------------------------
Alive == error = "none"
AtRest == Alive /\ stack = <<>>

\* Events are dispatched by the main loop and by every roundtrip.
Dispatching == Alive /\ (stack # <<>> => stack[1].waits)

Suspended(where, left) == [in |-> where, left |-> left, waits |-> TRUE]

\* The innermost handler goes on.
Resumes(where) ==
  /\ Alive /\ stack # <<>> /\ stack[1].in = where
  /\ stack[1].waits => queue = <<>>

\* The events of objects that are destroyed stay where they are and will be
\* discarded when it is their turn.
Without(q, gone) == [i \in DOMAIN q |-> IF q[i] \in gone THEN Void ELSE q[i]]

-----------------------------------------------------------------------------
(***************************************************************************)
(* The idle alarms.  Adding one replaces one that was there.               *)
(***************************************************************************)
\* The alarms become the set `keep' together with new ones for `add'.  What came
\* of an activation alarm is forgotten with it.
AlarmsBecome(keep, add) ==
  /\ alarms' = (alarms \cap keep) \cup add
  /\ fired' = (fired \cap keep) \ add
  /\ queue' = Without(queue, OfAlarm((AlarmId \ keep) \cup add))
  /\ ignored' = IF "ALARM_ACTIVATE" \in keep \ add THEN ignored ELSE "no"

\* listener_lock_cb and listener_dbus_lock_cb, as far as the locker goes.
LockerEnabled == prefs.lock_enabled /\ ~inhibited

\* The handler of the manager's "activated"; "lock" has the locker enabled.
manager_activated ==
  /\ AlarmsBecome(AlarmId \ {"ALARM_ACTIVATE"},
       {"ALARM_DEACTIVATE"} \cup
       (IF prefs.lock_with_saver /\ ~zero THEN {"ALARM_LOCK"} ELSE {}))
  /\ lock_active' = (lock_active
       \/ (prefs.lock_with_saver /\ zero /\ LockerEnabled))

manager_deactivated ==
  AlarmsBecome({"ALARM_ACTIVATE"}, IF prefs.enabled THEN {"ALARM_ACTIVATE"} ELSE {})

\* SLIP: the activation alarm is armed whether the saver is active or not.
set_timeouts_always(new, changed) ==
  /\ prefs' = new
  /\ IF ~new.enabled
     THEN AlarmsBecome({"ALARM_DEACTIVATE"}, {}) /\ UNCHANGED zero
     ELSE /\ zero' = new.lock_at_once
          /\ AlarmsBecome(IF new.lock_with_saver THEN AlarmId
                                                 ELSE AlarmId \ {"ALARM_LOCK"},
               IF changed \/ "ALARM_ACTIVATE" \notin alarms
               THEN {"ALARM_ACTIVATE"} ELSE {})

\* set_timeouts of gs-listener.c and of gs-listener-wayland.c.  `changed' says
\* whether the activation timeout is another one.
set_timeouts(new, changed) ==
  /\ prefs' = new
  /\ IF ~new.enabled
     THEN AlarmsBecome({"ALARM_DEACTIVATE"}, {}) /\ UNCHANGED zero
     ELSE /\ zero' = new.lock_at_once
          /\ AlarmsBecome(IF new.lock_with_saver THEN AlarmId
                                                 ELSE AlarmId \ {"ALARM_LOCK"},
               IF /\ "ALARM_DEACTIVATE" \notin alarms
                  /\ changed \/ "ALARM_ACTIVATE" \notin alarms
               THEN {"ALARM_ACTIVATE"} ELSE {})

PrefsChanged ==
  /\ AtRest
  /\ \E new \in PrefsValues, changed \in BOOLEAN :
       /\ new # prefs \/ changed
       /\ set_timeouts(new, changed)
  /\ UNCHANGED <<active, lock_active, windows, wl_lock, locked, stack, error,
                 compositor, idle, fullscreen, inhibited>>

-----------------------------------------------------------------------------
(***************************************************************************)
(* The session lock.                                                       *)
(***************************************************************************)
\* gs_manager_activate as far as the roundtrip of gs_session_lock_manager_lock.
\* When there is a lock already the activation fails.
Activate ==
  IF active \/ wl_lock
  THEN UNCHANGED <<wl_lock, stack, object, told>>
  ELSE /\ wl_lock' = TRUE
       /\ object' = "pending" /\ told' = FALSE
       /\ stack' = <<Suspended("lock", {})>> \o stack

\* gs_session_lock_manager_lock returns.  Without a lock the activation fails, and
\* so has the alarm that asked for it, or that will not ask again.
\* Otherwise there are windows, which are shown one after the other.  Windows
\* of an activation that ran in the roundtrip are destroyed with their lock
\* surfaces still there, a protocol error.
LockReturns ==
  /\ Resumes("lock")
  /\ IF ~wl_lock
     THEN /\ stack' = Tail(stack)
          /\ ignored' = IF ignored = "no" /\ "ALARM_ACTIVATE" \in fired
                        THEN "refused" ELSE ignored
          /\ UNCHANGED <<active, lock_active, windows, error>>
     ELSE /\ active' = TRUE /\ UNCHANGED ignored
          /\ lock_active' = (lock_active \/ (prefs.lock_enabled
                               /\ prefs.lock_with_saver /\ prefs.lock_at_once))
          /\ windows' = [m \in Monitors |-> "added"]
          /\ error' = IF \E m \in Monitors : windows[m] = "surface" THEN "role" ELSE "none"
          /\ stack' = <<[in |-> "show", left |-> Monitors, waits |-> FALSE]>> \o Tail(stack)
  /\ UNCHANGED <<wl_lock, locked, alarms, prefs, zero, compositor, queue, fired,
                 idle, fullscreen, inhibited>>

\* window_realized: the lock surface of a window that was added to the lock
\* manager, and a roundtrip.  Any other window is just shown.
Realize(m, as, where, left) ==
  /\ IF as = "plain"
     THEN /\ windows' = [windows EXCEPT ![m] = "plain"]
          /\ UNCHANGED error
          /\ stack' = <<[in |-> where, left |-> left, waits |-> FALSE]>> \o Tail(stack)
     ELSE IF ~wl_lock
     THEN error' = "null_lock" /\ UNCHANGED <<windows, stack>>
     ELSE /\ windows' = [windows EXCEPT ![m] = "surface"]
          /\ UNCHANGED error
          /\ stack' = <<Suspended(where, left)>> \o Tail(stack)

\* The loop of show_windows.
ShowNext ==
  /\ Resumes("show")
  /\ \E m \in stack[1].left :
       Realize(m, windows[m], "show", stack[1].left \ {m})
  /\ UNCHANGED <<active, lock_active, wl_lock, locked, alarms, prefs, zero,
                 compositor, queue, fired, idle, fullscreen, inhibited, ignored>>

\* All windows are shown: gs_manager_activate emits "activated".
Shown ==
  /\ Resumes("show") /\ stack[1].left = {}
  /\ stack' = Tail(stack)
  /\ manager_activated
  /\ UNCHANGED <<active, windows, wl_lock, locked, prefs, zero, error, compositor,
                 idle, fullscreen, inhibited>>

\* The loop of show_windows stops at a table that has changed under its iterator.
LoopBroken ==
  IF stack # <<>> /\ stack[1].in = "show"
  THEN <<Suspended("show", {})>> \o Tail(stack) ELSE stack

Rebuilds == {i \in DOMAIN stack : stack[i].in = "recreate"}

\* recreate_windows for whatever monitors there are now, here the same ones; also
\* in the roundtrip of a window that is being shown, which goes with the others.
\* In the roundtrip of an unlock wl_lock is not NULL, but freed: the first window
\* made anew uses it.  In that of a deactivation the manager listens no more.
MonitorsChanged ==
  /\ Dispatching /\ active /\ Cardinality(Rebuilds) < MaxRebuilds
  /\ stack # <<>> => stack[1].in # "deactivate"
  /\ windows' = NoWindows
  /\ IF stack # <<>> /\ stack[1].in = "unlock"
     THEN error' = "freed_lock" /\ UNCHANGED stack
     ELSE /\ stack' = <<[in |-> "recreate", left |-> Monitors, waits |-> FALSE]>>
                      \o LoopBroken
          /\ UNCHANGED error
  /\ UNCHANGED <<active, lock_active, wl_lock, locked, alarms, prefs, zero,
                 compositor, queue, fired, idle, fullscreen, inhibited, ignored>>

\* A window is created, added to the lock manager if that has a lock, and shown.
\* One that a rebuilding within this one has made for the monitor is destroyed
\* with its lock surface still there, a protocol error.
RecreateNext ==
  /\ Resumes("recreate")
  /\ \/ \E m \in stack[1].left :
          IF windows[m] = "surface"
          THEN error' = "role" /\ UNCHANGED <<windows, stack>>
          ELSE Realize(m, IF wl_lock THEN "added" ELSE "plain", "recreate",
                       stack[1].left \ {m})
     \/ /\ stack[1].left = {}
        /\ stack' = Tail(stack)
        /\ UNCHANGED <<windows, error>>
  /\ UNCHANGED <<active, lock_active, wl_lock, locked, alarms, prefs, zero,
                 compositor, queue, fired, idle, fullscreen, inhibited, ignored>>

\* ext_session_lock_v1_destroy and ext_session_lock_v1_unlock_and_destroy.
DestroyRequest ==
  /\ object' = "none"
  /\ queue' = Without(queue, OfLock)
  /\ error' = IF told THEN "invalid_destroy" ELSE error
  /\ UNCHANGED <<told, session>>

UnlockRequest ==
  /\ object' = "none"
  /\ queue' = Without(queue, OfLock)
  /\ IF told THEN session' = "open" /\ UNCHANGED error
             ELSE error' = "invalid_unlock" /\ UNCHANGED session
  /\ UNCHANGED told

\* What is left of a window when the lock surfaces are gone.
Bared == [m \in Monitors |-> IF windows[m] = "surface" THEN "plain" ELSE windows[m]]

\* The end of gs_manager_deactivate, after the unlocking.
Deactivated ==
  /\ active' = FALSE /\ lock_active' = FALSE
  /\ manager_deactivated

\* SLIP: the flag of the last lock stays.
UnlockReturnsLocked ==
  /\ Resumes("unlock") \/ Resumes("deactivate")
  /\ stack' = Tail(stack)
  /\ wl_lock' = FALSE /\ UNCHANGED locked /\ windows' = Bared
  /\ IF stack[1].in = "deactivate" THEN Deactivated
     ELSE UNCHANGED <<active, lock_active, alarms, fired, queue, ignored>>
  /\ UNCHANGED <<prefs, zero, error, compositor, idle, fullscreen, inhibited>>

\* gs_session_lock_manager_unlock, after the roundtrip.
UnlockReturns ==
  /\ Resumes("unlock") \/ Resumes("deactivate")
  /\ stack' = Tail(stack)
  /\ wl_lock' = FALSE /\ locked' = FALSE /\ windows' = Bared
  /\ IF stack[1].in = "deactivate" THEN Deactivated
     ELSE UNCHANGED <<active, lock_active, alarms, fired, queue, ignored>>
  /\ UNCHANGED <<prefs, zero, error, compositor, idle, fullscreen, inhibited>>

\* SLIP: a lock that is not there yet needs no request.
LeaveLockPending ==
  /\ AtRest /\ active /\ ~locked
  /\ windows' = NoWindows
  /\ wl_lock' = FALSE
  /\ Deactivated
  /\ UNCHANGED <<locked, prefs, zero, error, compositor, stack, idle, fullscreen, inhibited>>

\* gs_manager_deactivate, for a user who proved to be one, for activity when
\* there is nothing to unlock, or for a call of D-Bus.  An object that is not
\* locked is destroyed without a roundtrip, one that is gone is left alone.
DeactivateUnlocked ==
  /\ AtRest /\ active /\ ~locked
  /\ windows' = NoWindows
  /\ wl_lock' = FALSE
  /\ active' = FALSE /\ lock_active' = FALSE
  /\ alarms' = IF prefs.enabled THEN {"ALARM_ACTIVATE"} ELSE {}
  /\ fired' = {} /\ ignored' = "no"
  /\ queue' = Without(queue, Event)
  /\ IF wl_lock
     THEN object' = "none" /\ error' = IF told THEN "invalid_destroy" ELSE error
     ELSE UNCHANGED <<object, error>>
  /\ UNCHANGED <<locked, prefs, zero, stack, told, session, idle, fullscreen, inhibited>>

DeactivateLocked ==
  /\ AtRest /\ active /\ locked
  /\ windows' = NoWindows
  /\ UnlockRequest
  /\ stack' = <<Suspended("deactivate", {})>>
  /\ UNCHANGED <<active, lock_active, wl_lock, locked, alarms, prefs, zero, fired,
                 idle, fullscreen, inhibited, ignored>>

\* A call of D-Bus: Lock enables the locker before it activates.
ActivateRequest ==
  /\ AtRest /\ ~active
  /\ \E lock \in BOOLEAN : lock_active' = (lock_active \/ (lock /\ prefs.lock_enabled))
  /\ Activate
  /\ UNCHANGED <<active, windows, locked, alarms, prefs, zero, error, session,
                 queue, fired, idle, fullscreen, inhibited, ignored>>

-----------------------------------------------------------------------------
(***************************************************************************)
(* The handlers of events.  The rest of what follows is unchanged by each.  *)
(***************************************************************************)
Locked ==
  /\ Head(queue) = <<"locked", "lock">>
  /\ locked' = TRUE
  /\ queue' = Tail(queue)
  /\ UNCHANGED <<lock_active, windows, wl_lock, alarms, stack, error, compositor,
                 fired, ignored>>

\* lock_finished: the lock is let go; the manager does not hear of it.
Finished ==
  /\ Head(queue) = <<"finished", "lock">>
  /\ IF locked
     THEN /\ UnlockRequest
          /\ stack' = <<Suspended("unlock", {})>> \o stack
          /\ UNCHANGED <<wl_lock, windows>>
     ELSE /\ DestroyRequest
          /\ wl_lock' = FALSE /\ windows' = Bared
          /\ UNCHANGED stack
  /\ UNCHANGED <<lock_active, locked, alarms, fired, ignored>>

\* SLIP: the alarm that has fired is left as it is.
FullscreenUnarmed ==
  /\ Head(queue) = <<"idled", "ALARM_ACTIVATE">>
  /\ fullscreen
  /\ queue' = Tail(queue)
  /\ UNCHANGED <<lock_active, windows, wl_lock, locked, alarms, stack, error,
                 compositor, fired, ignored>>

\* The saver is not to cover a fullscreen window: another alarm.
Fullscreen ==
  /\ Head(queue) = <<"idled", "ALARM_ACTIVATE">>
  /\ fullscreen
  /\ AlarmsBecome(AlarmId, {"ALARM_ACTIVATE"})
  /\ UNCHANGED <<lock_active, windows, wl_lock, locked, stack, error, compositor>>

\* "lock" if that is to happen at once, else "activate".  Neither does anything
\* while the saver is inhibited (listener_lock_cb, listener_activate_cb), nor
\* does "lock" where locking is disabled, and either fails while an earlier
\* activation waits for its lock; and the alarm stays as it is, idle.
IdledActivate ==
  /\ Head(queue) = <<"idled", "ALARM_ACTIVATE">>
  /\ ~fullscreen
  /\ queue' = Tail(queue)
  /\ LET at_once == prefs.lock_with_saver /\ zero
         why == IF inhibited THEN "inhibited"
                ELSE IF at_once /\ ~prefs.lock_enabled THEN "unlocked"
                ELSE IF ~active /\ wl_lock THEN "refused" ELSE "no"
     IN  /\ ignored' = why
         /\ IF why \in {"inhibited", "unlocked"}
            THEN UNCHANGED <<lock_active, wl_lock, stack, object, told>>
            ELSE lock_active' = (lock_active \/ at_once) /\ Activate
  /\ UNCHANGED <<windows, locked, alarms, error, session, fired>>

\* "lock": the saver is active when this alarm is there.
IdledLock ==
  /\ Head(queue) = <<"idled", "ALARM_LOCK">>
  /\ lock_active' = (lock_active \/ LockerEnabled)
  /\ AlarmsBecome(AlarmId \ {"ALARM_LOCK"}, {})
  /\ UNCHANGED <<windows, wl_lock, locked, stack, error, compositor>>

\* Nothing, as for the event of an object that is gone, or "poke", which brings
\* up the dialog or has the saver leave.
IdledDeactivateOrResumed ==
  /\ \/ Head(queue) \in {Void, <<"idled", "ALARM_DEACTIVATE">>}
     \/ Head(queue) \in {"resumed"} \X AlarmId
  /\ queue' = Tail(queue)
  /\ UNCHANGED <<lock_active, windows, wl_lock, locked, alarms, stack, error,
                 compositor, fired, ignored>>

Dispatch ==
  /\ Dispatching /\ queue # <<>>
  /\ \/ IdledActivate \/ Locked \/ Finished \/ Fullscreen \/ IdledLock
     \/ IdledDeactivateOrResumed
  /\ UNCHANGED <<active, prefs, zero, idle, fullscreen, inhibited>>

-----------------------------------------------------------------------------
(***************************************************************************)
(* The compositor and the user.                                            *)
(***************************************************************************)
Room == Len(queue) < MaxQueue

\* The compositor answers a lock request.
Grants ==
  /\ Alive /\ Room /\ object = "pending"
  /\ object' = "granted" /\ told' = TRUE /\ session' = "locked"
  /\ queue' = Append(queue, <<"locked", "lock">>)
  /\ UNCHANGED <<client, fired, idle, fullscreen, inhibited, ignored>>

Denies ==
  /\ Alive /\ Room /\ object = "pending"
  /\ object' = "finished"
  /\ queue' = Append(queue, <<"finished", "lock">>)
  /\ UNCHANGED <<client, told, session, fired, idle, fullscreen, inhibited, ignored>>

\* It has a way of its own to unlock the session.
Revokes ==
  /\ Alive /\ Room /\ object = "granted"
  /\ object' = "finished" /\ session' = "open"
  /\ queue' = Append(queue, <<"finished", "lock">>)
  /\ UNCHANGED <<client, told, fired, idle, fullscreen, inhibited, ignored>>

\* The alarm with timeout 0 is idle whenever the user pauses.
AlarmFires ==
  /\ Alive /\ Room
  /\ \E id \in alarms \ fired :
       /\ idle \/ id = "ALARM_DEACTIVATE"
       /\ fired' = fired \cup {id}
       /\ queue' = Append(queue, <<"idled", id>>)
  /\ UNCHANGED <<client, compositor, idle, fullscreen, inhibited, ignored>>

UserLeaves ==
  /\ Alive /\ ~idle /\ idle' = TRUE /\ ignored' = "no"
  /\ UNCHANGED <<client, compositor, queue, fired, fullscreen, inhibited>>

\* Each alarm that is idle is resumed.  Input does not come in while nested
\* handlers run, a bound on the depth of the stack.
UserActs ==
  /\ Alive /\ Len(stack) <= 1 /\ Len(queue) + Cardinality(fired) <= MaxQueue
  /\ idle \/ fired # {}
  /\ idle' = FALSE /\ fired' = {}
  /\ \E order \in [1..Cardinality(fired) -> fired] :
       /\ \A i, j \in DOMAIN order : order[i] = order[j] => i = j
       /\ queue' = queue \o [i \in DOMAIN order |-> <<"resumed", order[i]>>]
  /\ UNCHANGED <<client, compositor, fullscreen, inhibited, ignored>>

\* The active window changes while the user is there, or a player leaves
\* fullscreen by itself.
FullscreenChanges ==
  /\ Alive /\ (idle => fullscreen)
  /\ fullscreen' = ~fullscreen
  /\ UNCHANGED <<client, compositor, queue, fired, idle, inhibited, ignored>>

\* The first request to inhibit the saver, or the end of the last; what becomes
\* of a request is in GSListenerDBus.  listener_check_activation does nothing.
InhibitionChanges ==
  /\ Alive
  /\ inhibited' = ~inhibited
  /\ UNCHANGED <<client, compositor, queue, fired, idle, fullscreen, ignored>>

-----------------------------------------------------------------------------
Next ==
  \/ PrefsChanged \/ ActivateRequest \/ LockReturns \/ ShowNext \/ Shown
  \/ MonitorsChanged \/ RecreateNext
  \/ DeactivateUnlocked \/ DeactivateLocked \/ UnlockReturns
  \/ Dispatch
  \/ Grants \/ Denies \/ Revokes \/ AlarmFires
  \/ UserLeaves \/ UserActs \/ FullscreenChanges
  \/ InhibitionChanges

Spec == Init /\ [][Next]_vars

\* The main loop runs what is ready, and the compositor serves its clients.  An
\* alarm that is due is sent sooner or later, however often the queue is full.
FairSpec ==
  /\ Spec
  /\ WF_vars(LockReturns) /\ WF_vars(ShowNext) /\ WF_vars(Shown)
  /\ WF_vars(RecreateNext) /\ WF_vars(UnlockReturns) /\ WF_vars(Dispatch)
  /\ WF_vars(Grants \/ Denies) /\ SF_vars(AlarmFires)

-----------------------------------------------------------------------------
(***************************************************************************)
(* Properties.                                                             *)
(***************************************************************************)
\* unlock_and_destroy is sent for a lock that is known to be locked only:
\* gs_session_lock_manager_unlock tells the two ways to let go of a lock apart
\* by a flag that outlives the lock, and a stale one would have the compositor
\* kill the daemon over the next.
NoInvalidUnlock == error # "invalid_unlock"

\* A session that is locked by the daemon has a daemon that knows: the manager
\* is active and keeps the lock, and every monitor has a lock surface to show
\* the dialog on, also after recreate_windows, whatever was refused, revoked or
\* deactivated in whichever order.  Otherwise nothing the user does would unlock
\* the session, or the user would not see how.
NobodyLockedOut ==
  AtRest /\ session = "locked" =>
    active /\ wl_lock /\ \A m \in Monitors : windows[m] = "surface"

\* When the dust settles, the alarms fit the state of the saver: one for
\* activation exactly when the saver may activate, one for deactivation exactly
\* when it is active, one for locking only when it is active and to lock.
AlarmsFit ==
  AtRest =>
    /\ "ALARM_ACTIVATE" \in alarms <=> prefs.enabled /\ ~active
    /\ "ALARM_DEACTIVATE" \in alarms <=> active
    /\ "ALARM_LOCK" \in alarms => active /\ prefs.lock_with_saver

\* The saver is disabled, must wait for a fullscreen window, or is inhibited.
Excused == ~prefs.enabled \/ fullscreen \/ inhibited

\* Who stays away gets the saver, also after a fullscreen window has held it
\* off, an attempt of another has failed, or a call has deactivated the saver,
\* unless the preferences, and with them the timeout, never stop changing, and
\* unless the alarm that is armed has come to nothing: the listener's "lock" where
\* locking is disabled, either of its signals while the saver is inhibited, or
\* the session lock it asked for was refused.  The next alarm that is armed is
\* to do better.
IdleActivates ==
  \/ []<><<PrefsChanged>>_vars
  \/ idle ~> (active \/ ~idle \/ Excused \/ ignored # "no" \/ ~Alive)

\* The same where locking is disabled: the preferences offer the saver by
\* itself, "Activate screensaver when computer is idle".
IdleActivatesUnlocked ==
  \/ []<><<PrefsChanged>>_vars
  \/ idle ~> (active \/ ~idle \/ Excused \/ ignored \in {"inhibited", "refused"} \/ ~Alive)

\* The same after the saver was inhibited: the interface has saving the screen
\* blocked until UnInhibit is called, not until the user has come back.
IdleActivatesUninhibited ==
  \/ []<><<PrefsChanged>>_vars
  \/ idle ~> (active \/ ~idle \/ Excused \/ ignored \in {"unlocked", "refused"} \/ ~Alive)
=============================================================================
