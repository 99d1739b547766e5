# A verification development for xfce4-screensaver

xfce4-screensaver blanks the screen of an idle session, runs themes ("savers")
in the windows it covers the monitors with, and asks for a password before it
gives a locked screen back. This directory holds TLA+ modules translated from
its source, TLC configurations that check them on small instances, and proofs,
checked by TLAPS, of what must hold for every number of monitors and all
settings. Line references are to files under `src/src/` unless they say
otherwise.

## The program

The daemon is a single thread around a GLib main loop. D-Bus messages, X (or
Wayland) events, timeouts, idle sources, and the ends of pipes and children are
all dispatched from it, one at a time and to completion. Concurrency is
therefore *between dispatches*: what one handler decided may be stale when the
source it deferred its work to is dispatched. Beside the daemon there are other
processes: one unlock dialog at a time (`xfce4-screensaver-dialog`, with a
thread of its own around PAM), a theme process for each window, and the clients
on the bus.

| Component | State it keeps | Operations | Talks to |
|---|---|---|---|
| **Manager** `gs-manager.c` | `active`, `lock_active`, `dialog_up`, `throttled`, the lock and cycle timers, a window and a job for each monitor, the grab, the overlay | activate, deactivate, enable the locker, throttle, cycle, request unlock, show message; handlers of its windows' signals, of monitor hotplug and of its timers | windows (signals), jobs, grab, session lock, monitor ("activated", "deactivated") |
| **Window** `gs-window.c` | its own `lock_active`, `dialog_up`, obscured, sensitive; the dialog's pid, pipe, answer; idle sources `popup_dialog_idle` and `emit_deactivated_idle`; queued keys | request unlock, input events, pop up/down the dialog, read its answers, visibility, destroy | manager (signals), dialog (pipe, signals, X embedding) |
| **Job** `gs-job.c` | process, status | start, stop, suspend | theme process |
| **Grab** `gs-grab.c` | the window that holds the devices, whether with the pointer | grab root, move, release, reset | X server |
| **Monitor** `gs-monitor.c` | - | the callbacks that wire the others together | all |
| **D-Bus listener** `gs-listener-dbus.c` | `active`, `throttled`, inhibitors and throttlers by cookie, logind's inhibitor descriptors, two bus connections | the methods of `org.xfce.ScreenSaver`, logind's Lock, Unlock, PrepareForSleep, NameOwnerChanged, reconnection | monitor (signals), clients, logind |
| **Idle listeners** `gs-listener*.c` | idle alarms | "activate", "lock", "poke" | monitor |
| **Session lock** `gs-session-lock-manager.c` (Wayland) | the `ext_session_lock_v1` object, whether it is locked, a lock surface for each window | lock, unlock, add, realize and remove windows; `locked`, `finished` | compositor, manager |
| **Dialog and plug** `xfce4-screensaver-dialog.c`, `gs-lock-plug.c` | the attempt, its timeouts, the plug's answer | authenticate, cancel, quit | window (pipe), authentication |
| **Authentication** `gs-auth-*.c` | PAM's thread, the message handed over to the main thread | verify a user | dialog |
| **Preferences** `gs-prefs.c` | the settings, changed at any time by xfconf | load, change | manager, listeners |
| **Slideshow** `savers/gste-slideshow.c` | the picture shown, the one fading in, a timer, two queues, the worker's cache of file names | schedule, load, take the result, fade, resize | a worker thread |
| **Preferences dialog** `xfce4-screensaver-preferences.c` | widgets, selection, preview job | show and change settings, choose a theme, preview | xfconf, and through it the daemon and other programs |
| **Themes** `gs-theme-manager.c`, the other savers, command line client, start-up | - | - | - |

### What is hard, and what has to hold

* *Two flags for one fact.* The manager's and a window's `dialog_up`; the
  manager's and each window's `lock_active`; the listener's and the manager's
  `active`. They are brought up to date by different handlers.
* *Deferred work.* A window tells of its deactivation from an idle source, and
  the manager reacts from another one which it does not remember. Locks,
  hotplugs, deactivations and new activations can come in between.
* *Rebuilding under way.* A hotplug destroys and rebuilds every window, at any
  point of a dialog's life.
* *A dialog process that may do anything*: answer, ask to be terminated, crash,
  close its pipe, before or after its plug is embedded, or fail to start.
* *Themes under four influences*: throttling, dialog, visibility, cycling.
* *Devices that another client may hold or take*, and that the dialog needs.
* *Cookies and connections* of clients that come and go, on a bus that does too.
* *Nested loops.* The dialog waits for PAM and for the user in main loops inside
  main loops, in which timeouts of earlier attempts still fire. On Wayland a
  handler waits in a roundtrip, in which other handlers run.
* *Two threads*: PAM's and the dialog's, the slideshow's loader and its drawing.
* *A compositor that refuses or revokes the lock*, and events that are still in
  flight when the object they are for is destroyed.
* *Three copies of the settings*, and a theme that is stored in two writes with
  a handler of the writer running in between.

Correct, for the dialog, means: OK only after the right password, no lost keys,
no prompt without an end. For the idle listeners: who stays away gets the saver.
For grab and session lock: what the daemon takes for granted is so for the X
server or the compositor, nothing is held without a saver to show for it, and
no call blocks for ever. For the slideshow: one load at a time, clean fades, no
picture starved. For the preferences: the copies agree and the user's choice is
what is stored.

Correct, for the manager and its windows, means: the flags agree; input goes to
the one window that should have it; a theme never runs where it must not; a
deactivation leaves nothing behind; a dialog that is up comes down; a locked
screen is left only when access was granted (or on an earlier decision); and
the delayed lock engages.

## The modules

| Module | What it is |
|---|---|
| `GSManager` | The manager with its windows, themes, dialog and grab, as one state machine: X11 backend. Also its properties. |
| `ScreenLock` | The abstract specification: a screen that is off, on or locked, a grant, a decision to leave. |
| `MCGSManager` | Constants of the TLC runs of `GSManager`. |
| `GSManagerProofs` | Theorems about `GSManager`, and that it implements `ScreenLock`. |
| `GSListenerDBus` | The D-Bus listener with its clients, the session bus, logind and the daemon's file descriptors. Also its properties. |
| `MCGSListenerDBus` | The symmetry of the TLC runs of `GSListenerDBus`. |
| `GSListenerDBusProofs` | Theorems about `GSListenerDBus`. |
| `LockDialog` | The dialog's process: start, plug, attempts, authentication with and without a thread, and the keys on their way to it. |
| `DialogSpeech` | The abstract specification of what the dialog writes to the daemon. |
| `LockDialogProofs` | Theorems about `LockDialog`, and that it implements `DialogSpeech`. |
| `DialogChild` | The abstract specification of a window's conversation with its dialog process: what both sides may rely on. |
| `UnlockConversation` | `LockDialog` composed with the window that reads its pipe. |
| `UnlockConversationProofs` | Theorems about `UnlockConversation`, and that it implements `DialogChild`. |
| `MCLockDialog` | Constants of the TLC run of `UnlockConversation`. |
| `GSGrab` | The grab of the devices against an X server with other clients. |
| `X11Session` | The X11 idle listener and the manager's activations, composed with `GSGrab` (which it extends: an activation is a call of the grab that blocks the main loop). |
| `X11SessionProofs` | Theorems about both. |
| `MCX11Session` | Constants of the TLC run of both. |
| `WaylandSession` | Session lock, idle alarms and the manager's activations on Wayland, against the compositor. |
| `WaylandSessionProofs` | Theorems about `WaylandSession`. |
| `MCWaylandSession` | The TLC runs of `WaylandSession`. |
| `Slideshow`, `MCSlideshow` | The slideshow saver with its two threads. |
| `PictureShow` | The abstract specification: the slideshow as one sequential program. |
| `SlideshowProofs` | Theorems about `Slideshow`, and that it implements `PictureShow`. |
| `Preferences`, `MCPreferences` | The settings between the preferences dialog, the daemon and other programs. |
| `PreferencesProofs` | Theorems about `Preferences`. |

### GSManager

An action is one dispatch with everything it calls. Its variables are the fields
named in the comments of `VARIABLES`; `win` and `jobs` are the manager's two
hash tables, keyed by monitor. The state of a dialog process and of the pipe to
it is folded into one field, `child`: what the process wrote and the window has
not read yet.

| Actions | Code |
|---|---|
| `Activate`, `ActivateFails`, `Deactivate` | `gs_manager_activate`, `gs_manager_deactivate` with `show_windows`, `window_show_cb` |
| `Lock`, `LockTimeout`, `SetThrottled`, `Cycle`, `CycleTimeout` | `listener_dbus_lock_cb` and the calls of the same names |
| `RequestUnlock` (`RequestLeave`, `RequestDialog`), `Activity` | `gs_manager_request_unlock`, `gs_window_request_unlock`, `maybe_handle_activity` |
| `PopupDialogIdle`, `ReadWindowId`, `ReadQuit`, `ReadEnd` | `popup_dialog_idle`, `dialog_process_watch`, `popdown_dialog` |
| `EmitDeactivatedIdle`, `WindowDeactivatedIdle` | the two idle sources of a deactivation |
| `MapEvent`, `Obscured`, `Unobscured`, `GrabBroken`, `ThemeDies`, `MonitorsChanged`, `PrefsChanged`, `DialogSpeaks` | X events, children and settings |

Abstractions:

* The order in which ready sources are dispatched is left open; GLib's order
  (by priority, then age) is one of those considered.
* Whether the theme of a window can be started at all (is its command empty,
  does it run?) is a choice at each start.
* A window that is destroyed while it holds the devices stops holding them:
  `gs_grab` keeps a weak pointer. `gs_window_destroy` pops down a dialog with
  the manager's handlers still connected, so the devices go to the dying window:
  `GrabAfterPopdown`.
* `gs_grab_move_to_window` retries until it succeeds; it is one step here.
* `ThemeDies` stands for the child watch of themes whose output is watched.
* `SetThrottled` is a toggle: a call that changes nothing does nothing.
* `Quit` is the deactivation it performs; the end of the process is left out.
* A `Lock` that fails to activate leaves `lock_active` set; the next activation
  is then locked whatever the settings say. This is what the code does.
* Left out: the status message, the information bar, the watchdog that raises
  windows, the key queue, cursor and focus, drawing.

### GSListenerDBus

The requests of clients (`inhibitors`, `throttlers`: the two hash tables, keyed
by cookie), the daemon's descriptors `fds`, both copies of `active` and
`throttled`, and around them the bus: `inbox` holds what was sent and not yet
dispatched, `held` the granted requests that nothing is to end, `alive` who is
connected. `calls` are the daemon's calls of the manager that have not returned,
innermost first: who hears the answer, what the manager's `active` is to become
and how far the manager has come. `Dispatch` is `listener_dbus_filter_function` on the first message
with everything it calls.

| Actions | Code |
|---|---|
| `RequestActive`, `RequestInactive`, `IdleActivate` | SetActive, Lock, Quit, logind's Lock and Unlock, the idle listener; all through `ActivateSaver` (`gs_listener_dbus_activate_saver` as far as the manager) |
| `ManagerRefuses`, `ManagerChanges` | `gs_manager_activate`, `gs_manager_deactivate` up to where they set `active` |
| `ManagerDeactivates` | `window_deactivated_idle`: the manager's own deactivation |
| `ManagerActivated`, `ManagerDeactivated` | the handlers of "activated" (`manager_activated`) and "deactivated" (`manager_deactivated_cb`), which call the listener from inside the manager |
| `ManagerReturns` | the rest of `gs_listener_dbus_activate_saver` once the manager has said yes |
| `Dispatch`: `AddInhibit`, `AddThrottle`, `RemoveInhibit`, `RemoveThrottle`, `ServiceDeleted` | `listener_dbus_add_ref_entry`, `listener_dbus_remove_ref_entry`, `listener_service_deleted` |
| `PrepareForSleep`, `ReleaseSleep`, `WakeUp` | `listener_dbus_handle_system_message` |
| `BusDies`, `Reinit` | "Disconnected", `reinit_dbus` |
| `Client` | `Request`, `Cancel`, `Exit`, `ReleaseName` of clients (not part of the daemon) |

Abstractions:

* A call is read and answered in one dispatch; the bus keeps the order of what
  one client sends and of the announcement of its end. That is also the order
  in which the model's single queue holds them. `MaxInbox` bounds the queue.
* A cookie is a member of a small set. The code draws it at random and compares
  it with the live table (`UniqueKey`). `Cancel` sends any cookie in the name of
  any client, as the code lets it; also one that is not given out yet, so that a
  request may be granted with its cancel waiting (`Doomed`). A client asks only
  while cookies are left.
* The manager's refusal to activate is a choice. While the manager waits in a
  roundtrip (`InRoundtrip`) the idle listener may ask again: `MaxCalls` bounds
  such calls. Messages of the session bus are not dispatched in a roundtrip.
* `fds` has one element for each descriptor: what it stands for. `open` takes
  the lowest free one, `close` frees what the number stands for, whoever
  opened it. Descriptor 0 belongs to somebody else.
* logind announces sleep and waking up in turn. Its Lock may or may not come
  true, depending on two settings.
* After the session bus died nothing is read from the new connection: the
  filter is not installed on it. What `Reinit` can and cannot do is taken from
  `gs_listener_dbus_dbus_init`.
* Left out: loss of the system bus, the ConsoleKit build, the Get methods and
  ShowMessage, the signals `ActiveChanged` and the query for the session id.
  `listener_check_activation` does nothing, since `session_idle` is never set.

### LockDialog

One dialog process from `main` to its end. `loop` says in which of the nested
main loops the main thread is: the outer one, the one that waits for PAM's
thread, the one that waits for the user, or the lines of `auth_message_handler`
after it that dispatch what is pending. A timeout may fire in any of them. The
handshake of the two threads is `pam`, `queued` and `asking`: the message is
data on the thread's stack, `queued` the idle source that points to it.

| Actions | Code |
|---|---|
| `BootFails`, `popup_dialog_idle` | `main` up to its loop: `hack_uid`, `gs_auth_init`, `lock_initialization` |
| `StartPam`, `StartDirect`, `FinishDirect` | `auth_check_idle`, `do_auth_check`, with the back-end |
| `gs_auth_run_message_handler`, `gs_auth_thread_func` | PAM's thread |
| `gs_auth_queued_message_handler`, `FinishMessage`, `gs_auth_loop_quit`, `LeavePamLoop` | the main thread's part |
| `entry_key_press`, `prompt_entry_activate`, `cancel_button_clicked`, `switch_user_button_clicked`, `unlock_button_clicked` | the plug's handlers |
| `queue_key_event`, `lock_socket_show` | the window's queue of early keys, and the embedding |
| `dialog_timed_out`, `response_cancel_idle`, `reset_idle_cb`, `quit_timeout_cb`, `quit_response_ok`, `response_request_quit` | the other sources |

Abstractions:

* A password is right or wrong; typing on after any word makes a wrong one. What
  PAM, the helper, crypt and BSD authentication do is a choice, but nobody is
  accepted who did not answer rightly.
* Time is abstract: a timeout may fire at any moment once it is attached.
* `gtk_main_quit` tells the innermost loop to return. When PAM's thread ends in
  the same round, what its descriptor reported is still dispatched (`quits.pam` is
  "race"), and a CANCEL that came in that round is lost: the attempt ends with
  PAM's verdict. Otherwise ("cut") the process ends itself.
* A message without a question counts as interrupted, as in the code.
* `KeysArrive` speaks of the time before the user first answers or an attempt
  fails. Afterwards keys that wait in the plug and keys typed after a late
  `reset_idle_cb` made the entry sensitive come in swapped order. The first
  Return, Escape or space is eaten by the window; keys beyond
  `MAX_QUEUED_EVENTS` are lost.

### UnlockConversation, and how the dialog's modules fit together

`LockDialog` with the window of the daemon at the other end of the pipe. The
dialog's steps append the line they write to `pipe`; the window reads one line
at a time, as late as it likes, and sees the end of the process only after the
last line. Meanwhile the manager may destroy the window.

| Actions | Code |
|---|---|
| `DialogStep` | a step of `LockDialog`; lines for a window that has closed its end are lost |
| `ReadOn` | `dialog_process_watch` on WINDOW ID and REQUEST QUIT (the signal it sends is `Terminated` of `LockDialog`) |
| `ReadResponse`, `ReadEnd` | `dialog_process_watch` on RESPONSE= and on the end of the pipe, `gs_window_dialog_finish` |
| `Destroy` | `gs_window_destroy`, for the manager's own reasons |

`GSManager` folds process and pipe into the field `child`, and `DialogChild` says
what such a field may do. Both sides implement it: the dialog with its pipe
(`ImplementsChild`), and every window of the manager (`ImplementsChildren`). What
the manager's model takes for granted of a dialog is thus what the dialog's
model delivers, and the argument for a screen that is given back goes through
four modules: `ScreenLock` is left with access granted only; the manager grants
access only on a `child` that said "ok" (`ImplementsScreenLock`); and a `child`
is "ok" only where the authentication has accepted what was typed (`UnlockIsProved`,
which covers the moment the line is next to be read, on top of `OkIsProved`). The
fairness `GSManager` assumes of a dialog (`DialogSpeaks`, `ReadEnd`) is what
`DialogEnds` and `ConversationEnds` show of the dialog's own.

Left out: the lines NOTICE=, which are only logged, and errors of the read, which
end the watch as the end of the pipe does.

### GSGrab and X11Session

`GSGrab` has a call of the manager under way (`call`), the X server's idea of
who has keyboard, pointer and focus, and the record `grab`. One round of
`gs_grab_move` runs with the server grabbed and is one step; between rounds of
`gs_grab_grab_window` the process sleeps and other clients act. `X11Session`
extends it: its handlers need the main loop, and hence no call under way
(`Resting`). A hotplug and a deactivation make several calls of the grab, and
`task` says how far they are: other clients act in between. While they destroy
the windows, `gs_window_destroy` pops down an open dialog with the manager's
handlers still connected, so `handle_window_dialog_down` moves the grab to the
window that is about to go, on a deactivation after `gs_grab_release`. The
devices then come free because GDK lets go of those of a window it hides, and
the X server of those of a window that is no longer viewable (`Vanish`). A
record of such a window counts as none: the weak pointer is cleared when the
window is finalized, and nothing can be got for it until then.

| Actions | Code |
|---|---|
| `gs_grab_grab_root`, `gs_grab_move_to_window`, `gs_grab_release`, `GrabRound`, `MoveRound` | the functions of the same names, `gs_grab_grab_window`, `gs_grab_move` |
| `window_grab_broken_cb`, `GrabBreaks`, `OtherTakes`, `OtherReleases` | the manager's handler; the X server |
| `lock_timer`, `xroot_filter`, `PrefsChanged` | `gs-listener-x11.c`, `set_timeouts` |
| `ActivationRound` | `gs_manager_activate` with `gs_grab_grab_root` |
| `MapEvent`, `DialogUp`, `DialogDown` | `window_map_event_cb`, `handle_window_dialog_up`, `handle_window_dialog_down`: the grab moves |
| `MonitorsChanged`, `FocusNowhere`, `PopDown`, `DestroyWindows` | `recreate_windows`: grab to the overlay, focus to nowhere, `gs_window_destroy` of each window with the popdown of its dialog, windows gone |
| `Deactivate`, `PopDown`, `DestroyWindows` | `gs_manager_deactivate`: `gs_grab_release`, then the same |
| `TimePasses`, `SaverGoesOn`, `SaverIsDisabled`, `UserActs`, `FullscreenChanges` | the X server, the user |
| `InhibitionChanges` | the first request to inhibit the saver, and the end of the last |

What the listeners ask for passes by the inhibitors (`listener_activate_cb`,
`listener_lock_cb`): of `GSListenerDBus` both session modules keep whether there
are any (`inhibited`). The end of the last one tells the listeners nothing, since
`listener_check_activation` returns at once; the X11 listener polls and finds out,
the Wayland listener does not.

The idle time is below the timeout, above it, or above the lock timeout as well.
Seen in the model, and left as it is in the code: when the grab of the root
window gives up after it has nuked the focus, the focus stays nowhere;
`gs_grab_move_to_window` goes on for ever if the server refuses free devices
each time (`MaxRefused` excludes it); "lock" is ignored where locking is
disabled (`ignored`).

### WaylandSession

`wl_display_roundtrip` dispatches events, so a handler that waits in one is
suspended with the handlers of those events on top of it: `stack`. The
compositor's half of `ext_session_lock_v1` and `ext_idle_notification_v1` is
`object`, `told`, `session`, `fired` and `queue`; a request it must not get is a
protocol error, which ends the daemon (`error`). The events of an object that
the daemon has destroyed stay in the queue and are discarded at their turn.

| Actions | Code |
|---|---|
| `ActivateRequest`, `LockReturns`, `ShowNext`, `Shown`, `MonitorsChanged`, `RecreateNext` | `gs_manager_activate`, `gs_session_lock_manager_lock`, `show_windows`, `window_realized`, `recreate_windows` |
| `DeactivateUnlocked`, `DeactivateLocked`, `UnlockReturns` | `gs_manager_deactivate`, `gs_session_lock_manager_unlock` |
| `Dispatch` | `locked`, `finished`, `idled` and `resumed` events with their handlers |
| `PrefsChanged` | `set_timeouts` |
| `Grants`, `Denies`, `Revokes`, `AlarmFires`, `UserLeaves`, `UserActs`, `FullscreenChanges` | the compositor, the user |
| `InhibitionChanges` | as in `X11Session` |

Seen in the model, and left as it is in the code: a deactivation that crosses
the compositor's `locked` destroys an object that must be unlocked
(`invalid_destroy`); `finished` in the roundtrip of one window has the next one
use a lock that is gone (`null_lock`); an activation nested in the roundtrip of
another has its windows destroyed under their lock surfaces (`role`); after
`finished` the manager stays active and its unlock does nothing; the listener's
lock timeout stays 0 while it is disabled; lock-with-saver switched on while the
saver is active arms no alarm; an alarm that goes off while the saver is inhibited,
for activation or for locking, is used up (the first is a finding).

`MonitorsChanged` may come in wherever events are dispatched: at rest, and in the
roundtrip of any handler but a deactivation, which has disconnected from the
display. On top of `show_windows` it ends that loop, because
`g_hash_table_iter_next` refuses a table that has changed (`LoopBroken`; GLib built
with its assertions, the default). On top of another `recreate_windows` the outer
loop goes on to a monitor that has its new window already, and
`g_hash_table_insert` destroys that one under its lock surface (`role`). In the
roundtrip of `gs_session_lock_manager_unlock` for `finished`, `wl_lock` is freed
and not yet `NULL`, and the first window made anew would use it (`freed_lock`). Two
rebuildings within one another are allowed (`MaxRebuilds`): one that is interrupted
and one that interrupts. The monitors after the change are taken to be the same
ones, and what GTK does with a window that is destroyed while it is being shown is
left out.

### Slideshow

The worker thread and the main loop with the two queues between them. A file is
its rank for `strcmp`; all timeouts of the next load are one timer.

| Actions | Code |
|---|---|
| `push_load_image_func`, `results_pull_func`, `draw_iter` | the main loop |
| `TakeLoad`, `ReadFile`, `PushResult` | `load_threadfunc`, `op_load_image`, `get_pixbuf_from_local_dir` |
| `size_allocate`, `Configure` | the first allocation and later ones |
| `FilesChange` | the user |

`op_load_image` returns early while the window is one pixel wide or high, and
the show stops for good: `dropped` exempts it from the properties. A resize
blanks the back buffer. The end of the widget is not modelled (`finalize` leaves
the timer of the next load behind).

`surf` is the set of pictures that may be seen on the back buffer. Every frame is
painted over what is there, the margins with the background, so the last one, at
full opacity, leaves nothing else only if its picture covers (`Covers`): it has no
alpha channel (`Transparent`), or `start_fade` has flattened it, which it does only
where `--background-color` is given. Beneath a transparent picture any of the
pictures that were seen may still be seen, or none: `update_display` leaves it open,
because it depends on where the pictures are transparent and how large they are.

### Preferences

xfconf's store, the daemon's copy, the dialog's widgets and another program, as
steps between notifications. `todo` is what remains of the dialog's handler: its
own notification of a write runs before the write returns.

| Actions | Code |
|---|---|
| `configure_capplet`, `setup_treeview_idle`, `response_cb` | start and end of the dialog |
| `SelectRow`, `fullscreen_preview_step`, `tree_selection_changed_cb`, `config_set_mode`, `SetThemes` | the choice of a theme, from the list or the full-screen preview |
| `fullscreen_preview_start_cb`, `fullscreen_preview_cancelled_cb`, `gs_job_died` | the preview |
| `SwitchToggled`, `DelayChanged`, `key_changed_cb` | switches, spin buttons and their notifications |
| `PrefsChanged` | the daemon's `key_changed_cb` |
| `OtherSets`, `OtherSetsMode`, `OtherSetsThemes` | another program, a second dialog for one |

Seen in the model, and left as it is in the code: the dialog does not react to a
change of the mode, so when two programs' pairs of writes interleave its
selection may be stale (`mixed` exempts it); it accepts up to 1440 minutes, of
which the daemon uses 480; a stored idle delay below 1 is 10 minutes for the
daemon and 1 in the dialog; the buttons of the full-screen preview cannot get
past the separator row, and change the theme though the list is insensitive.
Not modelled: logging out, the infobars, themes that are uninstalled meanwhile.

Definitions marked `SLIP` are not part of the specification. Each is a variant
of the definition that follows it, with a mistake a maintainer might make, and is
kept to show that the properties are sensitive to such mistakes: put in
place of that definition, it makes the property it belongs to fail.

## Runs

Two monitors wherever windows have to agree. One monitor cannot show a disagreement between
windows; a third adds no new kind of relation, since a handler treats "its"
window and "the others". `MaxDeferred` bounds the `window_deactivated_idle`
sources that wait at the same time: 2, one that was overtaken by a deactivation
and one of the next activation. Of the settings, `lock_enabled` and
`lock_with_saver` matter only together except to `Lock`; three choices cover:
locks at once, locks later and cycles, does not lock. The user changes between
them at any time; `live` has the last two.

| Run | Question |
|---|---|
| `manager` | Six safety invariants, hotplugs and failing grabs included. The dialog always starts. |
| `live` | One monitor that comes and goes, no calls that dismiss the saver. Every step is a step of `ScreenLock`; a dialog that is up comes down; a granted access never stays pending; the delayed lock engages once hotplugs cease. Every window treats its dialog as `DialogChild` says. That the steps of two windows refine both as well is what the proofs add. |
| `listener` | The five safety invariants of the listener. Two clients, one of which owns a well-known name, and each of which may cancel the other's requests; two cookies; three calls to the manager in one another (`MaxCalls`: one that waits, one from its roundtrip, one from the handler of a signal); logind may refuse an inhibitor (one, `MaxRefusals`), the manager may refuse to activate, the session bus may die. |
| `dialog` | The nine properties of the dialog and of the window that reads its pipe, which is as long as it gets. Three failures allowed (5 in the code: the first, a middle and the last are what differs), PAM with two messages in a conversation, the back-ends without a thread, two actions of the user: enough to type ahead and answer, and to answer and cancel. |
| `x11` | Grab and idle listener. A window with its dialog, the overlay and the root, two rounds in a cycle, one device taken and one grab refused: enough for a round that fails half way, a second cycle, and giving up, and for trouble at each of the calls that destroying the windows makes. Three settings: lock at once, do not lock, no saver. One notification of the server's saver waits at a time (`MaxNotify`). |
| `wayland` | Two monitors, so that an event can come in between two windows; two events on their way, so that one can be overtaken; two rebuildings of the windows in one another; six settings: lock at once or later with the lock screen disabled or not, no lock with the saver, no saver. |
| `slideshow` | The invariants, and that the two threads do what `PictureShow` does. Four files, one of them a thumbnail and another with an alpha channel, with a background color and without, two changes, two resizes, three frames in a fade: the first, a middle and the last. |
| `prefs` | Two themes, a switch and a delay it governs; one change by another program, which may come between any two writes of the dialog. The dialog's bound on delays is above the daemon's, and the store may hold a value above both. |
| `spurious`, `idle_unlocked`, `idle_inhibited`, `logind_refuses` | Four statements of comments, messages, the preferences' labels and the D-Bus documentation that the code does not keep; see `findings` in `PROJECT.json`. |

Two messages in the queue are enough to have one overtaken by its client's end;
two clients and cookies to have one client's end meet another's request;
descriptors 0 to 3 hold the sleep inhibitor and two requests' (and run out when
one more would be needed, which the guard of `Request` excludes by the cookies).

The properties, each checked by a run (the type invariants and what follows from
them or from other properties, `OkIsProved` and `DialogOnlyWhenLocked`, are left
to the proofs):

* `DialogAgreement`: the manager's `dialog_up` is set exactly when a window's
  is, and never two windows'.
* `LockCopiesAgree`: no window's copy of `lock_active` is out of date.
* `OnlyDialogListens`: with a dialog up, only its window is sensitive;
  otherwise all are.
* `ThemesQuiet`: no theme runs with a dialog up, throttled, or unseen.
* `InactiveIsClean`: no window, theme, grab or timer outlives the activation.
* `DialogUnderWay`: something is on its way to take down any dialog that is up.
* `ImplementsScreenLock`: refinement of `ScreenLock`.
* `DialogComesDown`, `GrantTakesEffect`, `LockEngages`: liveness. A grant takes
  effect when the saver is left or a hotplug makes the windows anew, which
  forget the answer: the user is then asked again.
* `ActiveAgrees`: whenever no call is under way, the listener's `active` is the
  manager's. The listener asks, hears the answer and writes its copy in three
  steps, with calls of the idle listener from roundtrips, refusals, the
  handlers of "activated" and "deactivated" and the manager's own
  deactivations in between; while a call is under way the copies do differ.
* `ThrottleFollows`: themes are throttled exactly while there is a throttle
  request.
* `RequestsHold`: a granted request stays in force until a cancel names its
  cookie, its client gives up a well-known name, or its client exits. The first
  two are what the code allows, including a cancel from any other client
  (the FIXME at `gs-listener-dbus.c:940`); the property is that there is no fourth
  way, such as another request that is granted the same cookie.
* `NoOrphans`: while the daemon is registered, a request outlives its client by
  no more than the messages that wait.
* `DescriptorsAgree`: unless logind refuses an inhibitor, every descriptor
  belongs to the request it was opened for, none leaks, and sleep is held off
  exactly while it should be.
* `OneConversation`: a message is handled only while the thread that sent it
  waits, and a new attempt starts only when no thread is left.
* `PromptEnds`: while the dialog waits for the user, a timeout that ends the
  wait is attached, whatever stale timeouts and keys came before.
* `KeysArrive`: until the first answer or failure, the two queues and the entry
  together hold what was typed, in order.
* `ImplementsSpeech`: the lines written are those of `DialogSpeech`.
* `UnlockIsProved`: the window takes the screen for unlocked, or is about to,
  only if the authentication of a dialog that came up accepted what was typed.
* `OkIsHeard`: no OK is lost between the two processes, however late the window
  reads and whatever became of the dialog since.
* `ImplementsChild`, `ImplementsChildren`: dialog and pipe on one side, every
  window of the manager on the other, keep to `DialogChild`.
* `DialogEnds`, `ConversationEnds`: the process ends without anybody's help, and
  the window notices.
* `RecordTrue`: the window on record has the keyboard, and the pointer exactly
  if it was not renounced, unless a grab-broken event is on its way.
* `GrabFollowsSaver`: without an active saver, or one that is being activated,
  the daemon holds no device.
* `MoveDelivers`, `CallsReturn`: a move that returns has delivered, and every
  call returns.
* `IdleActivates` of `x11`: who stays away gets the saver, for any number of
  attempts that failed and of calls that deactivated it, with excuses: saver
  disabled, fullscreen window, settings that never stop changing, "lock" ignored, an
  inhibitor, as long as it is there.
* `IdleActivates` of `wayland`: the same for each activation alarm. An alarm is idle
  once, so one that comes to nothing is an excuse for as long as it stays armed: its
  signal was ignored (locking disabled, or an inhibitor) or the session lock it asked
  for was refused (`ignored`). That ends with the alarm: when the saver is activated
  or deactivated by a call, when a fullscreen window or the settings have it armed
  anew, or when the user has been back. An attempt of somebody else that fails is no
  excuse, unless it holds the lock just when the alarm goes off.
* `NoInvalidUnlock`: no unlock request for a lock that is not locked.
* `NobodyLockedOut`: a session the daemon has locked has a daemon that knows, and
  on every monitor a lock surface for the dialog, also after a hotplug.
* `AlarmsFit`: the alarms are those the state of the saver calls for.
* `LoadsFollow`, `PicturesShown`: one load under way across the two threads, no
  picture starved.
* `FadeEndsClean`: after a fade nothing is seen but the current picture, if that is
  opaque or a background color is given; beneath a transparent one rests of those
  before it stay, of one that covers at most.
* `ImplementsPictureShow`: refinement of `PictureShow`: what comes on the screen is
  what one sequential program would show, each pass in its order.
* `SettingsAgree`: daemon and widgets follow the store but for the
  notifications on their way, and the selection is what the daemon shows.
* `ChoiceSticks`: the theme the user selects is the theme stored.

`manager` and `live` check deadlock; so do `listener`, `dialog`, `x11` and
`prefs`. The daemon of `wayland` stops after a protocol error, and the show of `slideshow`
after a dropped load.

### Fairness

Weak fairness of each idle source, each read of the pipe, and the lock timer:
the main loop dispatches what stays ready. Weak fairness of `DialogSpeaks`: the
plug and the dialog give up after 60 s without input, so a dialog speaks unless
somebody types for ever, which is excluded. No fairness is assumed of calls,
input, hotplugs or settings. The lock timer is restarted by every hotplug, so
`LockEngages` is stated under the condition that they cease.

`LockDialog`: PAM's thread comes to an end, the main loop dispatches what is
ready, every timeout passes. Nothing is assumed of the user or of the daemon's
signal. `UnlockConversation` adds that the window reads what there is to read.
`X11Session`: no call sleeps for ever, other clients give devices back,
and the handlers of the timer and of notifications get their turn (strong
fairness, because a call that blocks the main loop disables them in between; a
ready source is dispatched when it returns). `WaylandSession`: suspended handlers
go on, events are dispatched, the compositor answers a lock request and sends an
alarm that is due (strong fairness of `AlarmFires`: the queue is bounded in the model
only, and a D-Bus call that is revoked again and again fills it in between).
`Slideshow`: both threads run, timers fire, a window that is
shown is allocated a size; each file of the cache leaves it when it is read, so no
fairness of the random choice is needed.

## Proofs

`GSManagerProofs` proves for every set of monitors, every set of settings and
all switches, from the assumptions named in `GSManager` only:

* `TypeCorrect`.
* `DialogsAgree`, `LockCopies`, `Listeners`, `CleanWhenInactive`,
  `DialogImpliesLock`: five invariants by one inductive invariant, `Flags`. None
  of the five is inductive alone. Popping down a dialog clears one window's
  flag and the manager's, which keeps them in agreement only if no other
  window's flag was up; and that the window that pops down had its flag up at
  all follows from `DialogHeld` (a window with a dialog process, or about to
  start one, has its flag up). A hotplug clears both flags because of the
  agreement. That a dialog is up only while locked needs the copies to agree,
  since the window asks its own copy. Most steps touch none of this; `Dull`
  says so once for all of them.
* `ThemesStayQuiet`, by `Themes`: the fact about running themes together with
  the same fact about stopped ones in windows nobody sees, because
  `handle_window_dialog_down` resumes a stopped theme without asking whether its
  window is visible.
* `DialogsUnderWay` (`DialogUnderWay`), assuming that a dialog can be spawned
  (`~SpawnMayFail`: where it cannot, the flags stay up, see the end), by
  `DialogLife`. Its part `Lives` says of each window what its flag, its idle
  source, its process and the answer read last have to do with each other, and
  holds with or without that assumption; `CaredFor` adds that something to come
  ends the dialog. The hard steps are the ones in which another window's dialog
  is popped down on the way: `DialogsAgree` is what rules it out.
* `ScreenLockImplemented`: each dispatch, under the mapping the run `live` checks,
  is a step of `ScreenLock` or a stutter. It needs `Flags` and `Lives`: that
  access is granted in a locked saver only, and that an answer of OK is forgotten
  with the window that has it, are facts about the dialog that is up. The theorem
  covers deactivations by request as well (`Dismissal`).
* `LockedScreenKept`: the two action properties `ScreenLock` is about, of the daemon
  itself, by `ScreenLockImplemented`: a locked screen is left with access granted,
  on a decision taken before it was locked, or on the owner's call, and stays
  locked until then.
* `ChildrenImplemented`: each window's `child` does what `DialogChild` allows, or
  nothing. Most steps leave every `child` alone, or end them all (`ChildrenStay`,
  `ChildrenGone`, `ChildrenAfresh`). The rest rests on `DialogHeld`: a dialog is
  asked for only by a window whose `child` is "none", so none is started over
  another, and a window that pops its dialog down had one.

`GSListenerDBusProofs` proves every property of the run `listener` for every set
of clients, cookies and descriptors and every length of the queue, from the
assumptions named in `GSListenerDBus`, and any number of refusals by logind:

* `ListenerTypeCorrect`; `ManagerFollowsThrottlers`, inductive given the types.
* `ListenerKnowsManager`, by `CallsInv`, for any depth of nested calls. Either
  all calls under way are activations (`Activating`), and a manager that is
  active without the listener knowing has on the stack the call that made it so
  and that will say it; or one deactivation is under way alone (`Deactivating`),
  whose own place tells what each copy is.
* `DescriptorsKept`, inductive as it is stated but for one fact, `SleepInv`:
  the call that lets the system sleep is the outermost one and comes to its end
  once, so that `sleep_inhibitor` is not closed a second time.
* `RequestsKept`, by `NoneDoomed`: no message that waits ends a request that is
  held, whether it is a cancel, of any sender, or the end of its client.
* `NobodyOrphaned`, by `FollowedInv`: a request that waits for a client that is
  gone has that client's end behind it in the queue (`Attended`).

`LockDialogProofs` proves every safety property of the runs of `LockDialog`, for
every back-end, every MAX_FAILURES, every length of the queues and any input:

* `NoPromptStays` (`PromptEnds`), from the types.
* `ThreadsTakeTurns` (`OneConversation`), by `Turns`: at any time at most
  one of the two threads runs on the conversation. Only PAM has a thread and only
  its main loop waits for one; the thread is seen to be done after its end; and
  while it runs there is no verdict of an earlier attempt.
* `OnlyPasswordsUnlock` (`OkIsProved`), by `Attempts`, `Outcomes` and `Proved` on
  top of that. `Attempts`: an attempt is under way only while failures are left.
  `Outcomes`: an attempt excludes any outcome, and the outcomes each other.
  `Proved`: the verdict goes by what PAM has seen, which is what was answered
  last, to a prompt and not to a message.
* `TypedAheadArrives` (`KeysArrive`), by `KeysKept`: the keys typed, in order, are
  those in the entry, in the plug's queue and in the window's, taken together;
  and an entry that is ready has none kept for it.
* `SpeechKept`: the steps of the dialog are steps of `DialogSpeech` or leave what
  is written alone. It needs all of the above, and `Withdrawing`: a dialog that is
  withdrawn is about to leave a main loop, its own or the one that waits for
  PAM's thread.

`UnlockConversationProofs` proves every safety property of the dialog together
with its window, for every back-end, number of failures and messages, any input,
and a window that reads as late as it likes:

* `DialogWithin`: the conversation is one of `LockDialog`, so that every theorem of
  `LockDialogProofs` holds of its process. The steps the window adds are the ones
  in which it takes the process down; `FinishEnds` shows that the process may
  end like that by itself, wherever it is.
* `ConversationTyped`.
* `UnlocksAreProved` (`UnlockIsProved`) and `OksAreHeard` (`OkIsHeard`), by `PipeInv`.
  Neither is inductive: they speak of what the window has read, and it reads what
  was written long ago. `PipeTells`: an OK in the pipe, or read, was written by a
  dialog that grants access, the id is the pipe's first line, and a request to
  be terminated was made. `WatchTells`: while the window watches, the first answer
  in the pipe is the first answer the dialog gave (`FirstAnswer`), so that an OK
  that is next to be read proves as much as one that was (`NextIsOk`), and an empty
  pipe at the end of the process therefore means that there was none. That a
  dialog that grants access was given the password is `OkIsProved` of the process
  with the invariants it rests on (`DialogInv`), carried over by `DialogWithin`.
* `ChildImplemented`: every step is one of `DialogChild` or a stutter under the
  mapping `ChildState`, which looks into the pipe. A line the dialog writes moves
  the conversation on only if nothing decisive is in the pipe before it, and
  what is there is not unsaid.

`X11SessionProofs` proves, for any windows, any length of a cycle and any number
of refusals and of clients that take devices:

* `X11Types`.
* `RecordIsTrue` and `MovesDeliver`, by `Recorded`. `RecordTrue` is not inductive:
  the event of a broken grab may be handled after a later grab has succeeded,
  and what the handler then leaves on record is true only because it looks for
  the pointer first. `Recorded` says that the record is true then as well.
* `GrabsFollow`, by `Follows`. That a saver that is not active has no devices and
  moves no grab (`Absent`) rests on two facts about one that is being left:
  after the release the popdown of a dialog may take the devices again, or have
  them still half moved, but only windows get them, never the root window
  (`Leaving`), and windows go; and a move goes to a window while a grab of the
  root is an activation's (`Moving`).

`WaylandSessionProofs` proves every safety property of the run `wayland`, for
every set of monitors, every length of the queue and handlers suspended in
roundtrips to any depth:

* `SessionTypes`.
* `NoStaleUnlock`, by `LockInv`: while the daemon lives, its
  flags and the compositor's object agree (`Keeping`); events of the object are
  on their way only while it is there (`Announced`); and at most one handler is
  letting go of a lock, on top of all others, while an inactive manager has a
  lock only below a `gs_manager_activate` that waits for it (`Nested`). Without
  `Announced`, a late `locked` could set the flag for no object; without
  `Nested`, a `finished` could come between an unlocking and its end.
* `AlarmsFollow`, by `AlarmsInv` on top of `LockInv`: the alarms are the saver's
  as soon as "activated" is out, the idle ones until then (`Armed`); events come
  of armed alarms only (`Eventful`); underneath an activation there are only others
  that wait for their lock, and a loop of `show_windows` underneath a
  `recreate_windows` is broken (`Stacked`, by `Ordered`); and an activation that goes
  on although another has happened in its roundtrip does not survive, because the
  old windows still have their lock surfaces (`Windowed`). That last case is the
  reason for the invariant: were it survived, the alarms would be those of an idle
  saver.
* `NoLockWithoutKey` (`NobodyLockedOut`): that the manager knows is `LockInv`'s; that
  every monitor has its surface is `Windowed`'s, which accounts for each monitor
  while the manager keeps the lock: it has a surface, or the innermost loop of
  `show_windows` or `recreate_windows` is yet to come to it (`ToCome`), whatever other
  loops that one has interrupted.
* `NoImaginedLock`: while the session is open, a daemon that keeps a lock waits for
  the answer to its request or has yet to read `finished`. By `Expecting`, on top
  of `LockInv`; no run states it.

`SlideshowProofs` proves, for every number of pictures and of frames of a fade:

* `OneLoad` (`LoadsFollow`) and `SlideshowTypes`.
* `CleanFades` (`FadeEndsClean`), by `Beneath`: during a fade, too, at most one of the
  pictures beneath covers. That needs `OneLoad`: a picture that came while another
  was still fading in would leave two.
* `ShowImplemented`: the two threads implement `PictureShow`. Since one load is under
  way (`LoadsFollow`), and the worker holds a picture only until it has queued it
  (`Carries`), wherever that load is seen, in the timer, a queue, the worker or
  the fade, is the stage of the sequential show (`Staged`, `OneStage`). A step's
  stage before and after it then give the step of `PictureShow`.

`PreferencesProofs` proves every property of the run `prefs`, for every list of
themes, every set of switches and delays with the key names apart, and any
number of writes of other programs:

* `PreferencesTypes`.
* `CopiesAgree` (`SettingsAgree`). The property speaks of quiet moments only; the
  invariant says what is so at the others. `Copies` and `Shows`: a copy has what
  is stored, but for the keys its owner is yet to hear of. `Staged`: what remains
  of the dialog's handler is always about the row that is selected, although
  notifications run in the middle of it; `Displayed`: so are the preview and the
  button, once they have been told. `InTurn`: unless two programs' pairs of writes
  have met, the store stands for a row or is half-way to the one selected, and
  the selection is that row or the notification of the list is still to come.
* `ChoiceKept` (`ChoiceSticks`), by `Kept`: the notification that comes in the middle
  of the user's own change finds the selection as it is, so it cannot start
  another one.

Only model-checked: liveness, which is out of TLAPS' reach (`DialogComesDown`,
`GrantTakesEffect`, `LockEngages`, `DialogEnds`, `ConversationEnds`, `CallsReturn`, `IdleActivates`,
`PicturesShown`).

## Not modelled

* One module with both the requests of clients and the idle listeners. The parts
  meet in a few calls only ("activate", "lock", "deactivated", is it inhibited?),
  which each module has as an action or a choice; the product of their state
  spaces is out of TLC's reach.
* Loss of the system bus, the ConsoleKit build, `ShowMessage`, the Get methods and the
  signals of the D-Bus listener: no state beyond a connection.
* The on-screen keyboard of a window (`gs-window.c`), its information bar, its
  watchdog, and all drawing.
* `gs-theme-manager.c`, the command line client, start-up and logging: no state
  between calls. The savers floaters and popsquares: floating-point geometry on
  one timer. `xfce-bg.c`, `xfce-desktop-utils.c`, `xfcekbd-indicator.c`: drawing.
* The preferences of logging out and the status message.

What the code does although a document says otherwise, beside `findings`: a theme
suspended for a dialog stays stopped when Throttle comes during the dialog and
UnThrottle after it; a map event during a dialog takes back the pointer; a Lock
between the decision to leave an unlocked saver and its idle source is undone
without a password; a dialog that cannot be spawned leaves both `dialog_up` set;
a client that gives up a well-known name loses its requests; requests outlive the
session bus they came by.
