--------------------------- MODULE X11SessionProofs ---------------------------
(***************************************************************************)
(* Theorems about X11Session, and so about the grab of GSGrab in it, for   *)
(* any windows, any number of rounds, and other clients that take devices  *)
(* any number of times.                                                    *)
(***************************************************************************)
EXTENDS X11Session, TLAPS, SequenceTheorems

\* The parts of the type invariant that the arguments below rest on.
Calls == [op : {"none", "root", "move"}, window : Targets, no_pointer : BOOLEAN,
          i : 0..(Retries - 1), nuked : BOOLEAN]
Grabs == [window : Targets \cup {"none"}, no_pointer : BOOLEAN]

LEMMA NoCallIs ==
  /\ NoCall \in Calls /\ NoCall.op = "none"
  /\ [NoCall EXCEPT !.op = "root"] \in Calls /\ [NoCall EXCEPT !.op = "root"].op = "root"
  /\ \A w \in Windows, np \in BOOLEAN :
       LET c == [NoCall EXCEPT !.op = "move", !.window = w, !.no_pointer = np]
       IN  c \in Calls /\ c.op = "move"
<1>1. 0 \in 0..(Retries - 1)
  BY BoundsAssumption
<1>. QED
  BY <1>1 DEF NoCall, Calls, Targets

LEMMA GotTypes ==
  ASSUME TypeOK, NEW w \in Targets, NEW np \in BOOLEAN, Got(w, np)
  PROVE  /\ kbd' \in Targets \cup {"other", "none"}
         /\ ptr' \in Targets \cup {"other", "none"} /\ grab' \in Grabs
  BY DEF TypeOK, Got, Released, Grabs

LEMMA LetGoTypes ==
  ASSUME TypeOK, LetGo
  PROVE  /\ kbd' \in Targets \cup {"other", "none"}
         /\ ptr' \in Targets \cup {"other", "none"} /\ grab' \in Grabs
  BY DEF TypeOK, LetGo, Released, Grabs

LEMMA RefuseTypes ==
  ASSUME TypeOK, refused' = refused \/ Refuse
  PROVE  refused' \in 0..MaxRefused
  BY BoundsAssumption DEF TypeOK, Refuse

\* A round of gs_grab_grab_window on the root window.
LEMMA RootTypes ==
  ASSUME TypeOK, call.op = "root", RootGrabbed \/ RootRefused,
         UNCHANGED <<broken, taken>>
  PROVE  TypeOK'
<1>c. call \in Calls /\ call.i \in 0..(Retries - 1) /\ Retries \in Nat \ {0}
      /\ focus \in Targets \cup {"client", "none"} /\ Root \in Targets
      BY BoundsAssumption DEF TypeOK, Calls, Targets
<1>1. CASE RootGrabbed
  <2>1. /\ kbd' \in Targets \cup {"other", "none"}
        /\ ptr' \in Targets \cup {"other", "none"} /\ grab' \in Grabs
    BY <1>1, <1>c, GotTypes DEF RootGrabbed
  <2>2. call' \in Calls /\ focus' \in Targets \cup {"client", "none"}
        /\ refused' = refused
    BY <1>1, <1>c, NoCallIs DEF RootGrabbed
  <2>. QED
    BY <2>1, <2>2 DEF TypeOK, Calls, Grabs
<1>2. CASE RootRefused
  <2>1. refused' \in 0..MaxRefused
    BY <1>2, RefuseTypes DEF RootRefused
  <2>2. focus' \in Targets \cup {"client", "none"}
        /\ UNCHANGED Devices
    BY <1>2, <1>c DEF RootRefused
  <2>3. call' \in Calls
    <3>0. 0 \in 0..(Retries - 1) /\ (call.i + 1 < Retries => call.i + 1 \in 0..(Retries - 1))
      BY <1>c
    <3>a. ASSUME NEW i \in 0..(Retries - 1), NEW nuked \in BOOLEAN
          PROVE  [call EXCEPT !.i = i, !.nuked = nuked] \in Calls
      BY <1>c DEF Calls
    <3>1. \A nuked \in BOOLEAN : [call EXCEPT !.i = 0, !.nuked = nuked] \in Calls
      BY <3>0, <3>a
    <3>2. call.i + 1 < Retries =>
            \A nuked \in BOOLEAN : [call EXCEPT !.i = @ + 1, !.nuked = nuked] \in Calls
      BY <3>0, <3>a
    <3>3. \A middle \in BOOLEAN : (call.nuked \/ middle) \in BOOLEAN
      OBVIOUS
    <3>. QED
      BY <1>2, <3>1, <3>2, <3>3, NoCallIs DEF RootRefused
  <2>. QED
    BY <2>1, <2>2, <2>3 DEF TypeOK, Calls, Devices
<1>. QED
  BY <1>1, <1>2

LEMMA MoveTypes ==
  ASSUME TypeOK, MoveRound
  PROVE  TypeOK'
<1>c. call \in Calls /\ call.window \in Targets /\ call.no_pointer \in BOOLEAN
      /\ grab.window \in Targets \cup {"none"}
      /\ UNCHANGED <<focus, broken, taken>>
  BY DEF TypeOK, Calls, Grabs, MoveRound
<1>1. /\ kbd' \in Targets \cup {"other", "none"}
      /\ ptr' \in Targets \cup {"other", "none"} /\ grab' \in Grabs
  <2>1. CASE UNCHANGED Devices
    BY <2>1 DEF Devices, TypeOK, Grabs
  <2>2. CASE LetGo
    BY <2>2, LetGoTypes
  <2>3. CASE Got(call.window, call.no_pointer)
    BY <1>c, <2>3, GotTypes
  <2>4. CASE grab.window # "none" /\ Got(grab.window, call.no_pointer)
    BY <1>c, <2>4, GotTypes
  <2>. QED
    BY <2>1, <2>2, <2>3, <2>4 DEF MoveRound, MoveSkips, Moved, MoveRefused
<1>2. refused' \in 0..MaxRefused
  <2>1. refused' = refused \/ Refuse
    BY DEF MoveRound, MoveSkips, Moved, MoveRefused
  <2>. QED
    BY <2>1, RefuseTypes
<1>3. call' \in Calls
  BY <1>c, NoCallIs DEF MoveRound, MoveSkips, Moved, MoveRefused
<1>. QED
  BY <1>c, <1>1, <1>2, <1>3 DEF TypeOK, Calls, Grabs

\* Where the callbacks of the main loop leave the call and the devices.
Signalled ==
  /\ Resting /\ UNCHANGED <<Devices, focus, broken, taken, refused>>
  /\ call' = call \/ (~active /\ call' = [NoCall EXCEPT !.op = "root"])

LEMMA Signals ==
  ASSUME lock_timer \/ xroot_filter
  PROVE  Signalled /\ UNCHANGED manager
  BY DEF lock_timer, xroot_filter, Signalled, EmitLock, EmitActivate, NoSignal, Activates

\* A window that is to get the devices.
LEMMA MoveBegins ==
  ASSUME TypeOK, NEW w \in Windows, NEW np \in BOOLEAN, gs_grab_move_to_window(w, np),
         focus' \in Targets \cup {"client", "none"}
  PROVE  TypeOK' /\ call'.op = "move" /\ call'.window = w
<1>1. call' \in Calls /\ call'.op = "move" /\ call'.window = w
  <2>1. call' = [NoCall EXCEPT !.op = "move", !.window = w, !.no_pointer = np]
    BY DEF gs_grab_move_to_window
  <2>. QED
    BY <2>1, NoCallIs DEF NoCall
<1>2. UNCHANGED <<kbd, ptr, grab, broken, taken, refused>>
  BY DEF gs_grab_move_to_window, Devices
<1>. QED
  BY <1>1, <1>2 DEF TypeOK, Calls

ManagerTypeOK ==
  /\ active \in BOOLEAN
  /\ dialog \in Shown \cup {"none"}
  /\ task \in {"none", "overlay", "renew", "leave"}

Windowed == MapEvent \/ DialogUp \/ DialogDown \/ MonitorsChanged \/ PopDown

\* What the manager does to the windows.
LEMMA ManagerTypes ==
  ASSUME SessionTypeOK, Windowed \/ FocusNowhere \/ Deactivate \/ DestroyWindows
  PROVE  TypeOK' /\ ManagerTypeOK' /\ UNCHANGED listener
<1>t. TypeOK /\ ManagerTypeOK
  BY DEF SessionTypeOK, ManagerTypeOK
<1>n. "none" \notin Targets /\ Shown \subseteq Windows /\ Overlay \in Windows
  BY TargetsAssumption, OverlayAssumption DEF Shown
<1>f. /\ focus \in Targets \cup {"client", "none"}
      /\ \A w \in Windows : w \in Targets
  BY <1>t DEF TypeOK, Targets
<1>1. CASE MapEvent
  <2>1. PICK w \in Shown :
          /\ focus' = w
          /\ \/ gs_grab_move_to_window(w, FALSE)
             \/ UNCHANGED <<Devices, broken, call, taken, refused>>
    BY <1>1 DEF MapEvent
  <2>2. w \in Windows /\ focus' \in Targets \cup {"client", "none"}
    BY <1>n, <1>f, <2>1
  <2>3. TypeOK'
    <3>1. CASE gs_grab_move_to_window(w, FALSE)
      BY <1>t, <2>2, <3>1, MoveBegins
    <3>2. CASE UNCHANGED <<Devices, broken, call, taken, refused>>
      BY <1>t, <2>2, <3>2 DEF TypeOK, Devices
    <3>. QED
      BY <2>1, <3>1, <3>2
  <2>. QED
    BY <1>1, <1>t, <2>3 DEF MapEvent, session, manager, ManagerTypeOK
<1>2. CASE DialogUp
  <2>1. PICK w \in Shown : dialog' = w /\ gs_grab_move_to_window(w, TRUE)
    BY <1>2 DEF DialogUp
  <2>2. focus' = focus /\ UNCHANGED <<active, task, listener>>
    BY <1>2 DEF DialogUp
  <2>3. TypeOK'
    BY <1>t, <1>n, <1>f, <2>1, <2>2, MoveBegins
  <2>. QED
    BY <1>t, <2>1, <2>2, <2>3 DEF ManagerTypeOK
<1>3. CASE DialogDown \/ PopDown
  <2>1. /\ gs_grab_move_to_window(dialog, FALSE) /\ dialog # "none"
        /\ dialog' = "none" /\ focus' = focus /\ UNCHANGED <<active, task, listener>>
    BY <1>3 DEF DialogDown, PopDown
  <2>2. dialog \in Windows
    BY <1>t, <1>n, <2>1 DEF ManagerTypeOK
  <2>3. TypeOK'
    BY <1>t, <1>f, <2>1, <2>2, MoveBegins
  <2>. QED
    BY <1>t, <2>1, <2>3 DEF ManagerTypeOK
<1>4. CASE MonitorsChanged
  <2>1. TypeOK'
    BY <1>4, <1>t, <1>n, <1>f, MoveBegins DEF MonitorsChanged
  <2>. QED
    BY <1>4, <1>t, <2>1 DEF MonitorsChanged, ManagerTypeOK
<1>5. CASE FocusNowhere
  BY <1>5, <1>t DEF FocusNowhere, Devices, TypeOK, ManagerTypeOK
<1>6. CASE Deactivate
  <2>1. TypeOK'
    BY <1>6, <1>t, LetGoTypes DEF Deactivate, gs_grab_release, TypeOK, Grabs
  <2>. QED
    BY <1>6, <1>t, <2>1 DEF Deactivate, ManagerTypeOK
<1>7. CASE DestroyWindows
  <2>1. TypeOK'
    BY <1>7, <1>t DEF DestroyWindows, Vanish, TypeOK
  <2>2. active' \in BOOLEAN /\ task' = "none" /\ UNCHANGED <<dialog, listener>>
    BY <1>7, Zenon DEF DestroyWindows
  <2>. QED
    BY <1>t, <2>1, <2>2 DEF ManagerTypeOK
<1>. QED
  BY <1>1, <1>2, <1>3, <1>4, <1>5, <1>6, <1>7 DEF Windowed

\* Every step leaves the grab in a state of its type, and the listener too; in
\* particular the timer source of gs-listener-x11.c never goes.
THEOREM X11Types == SessionSpec => []SessionTypeOK
<1>1. SessionInit => SessionTypeOK
  <2>. SUFFICES ASSUME SessionInit PROVE SessionTypeOK
    OBVIOUS
  <2>1. TypeOK
    <3>1. call \in Calls
      BY NoCallIs DEF SessionInit, Init
    <3>2. taken \in 0..MaxTaken /\ refused \in 0..MaxRefused
      BY BoundsAssumption DEF SessionInit, Init
    <3>3. grab \in Grabs
      BY DEF SessionInit, Init, Grabs
    <3>. QED
      BY <3>1, <3>2, <3>3 DEF SessionInit, Init, TypeOK, Calls, Grabs
  <2>2. notify \in Seq(Notices) /\ Len(notify) <= MaxNotify
    BY NotifyAssumption DEF SessionInit
  <2>3. active \in BOOLEAN /\ timer = TRUE /\ fullscreen \in BOOLEAN
        /\ inhibited \in BOOLEAN /\ ignored \in BOOLEAN
    BY Zenon DEF SessionInit
  <2>4. prefs \in PrefsValues /\ state \in States
    BY DEF SessionInit, States
  <2>5. idle_time \in 0..2
    BY DEF SessionInit
  <2>. QED
    BY <2>1, <2>2, <2>3, <2>4, <2>5 DEF SessionTypeOK, SessionInit
<1>2. SessionTypeOK /\ [SessionNext]_x11vars => SessionTypeOK'
  <2>. SUFFICES ASSUME SessionTypeOK, [SessionNext]_x11vars PROVE SessionTypeOK'
    OBVIOUS
  <2>t. TypeOK /\ notify \in Seq(Notices) /\ Len(notify) <= MaxNotify /\ MaxNotify \in Nat
        /\ Len(notify) \in Nat
    BY NotifyAssumption, LenProperties DEF SessionTypeOK
  <2>v. UNCHANGED vars => TypeOK'
    BY <2>t DEF vars, TypeOK
  <2>1. CASE lock_timer \/ xroot_filter
    <3>1. Signalled
      BY <2>1, Signals
    <3>2. TypeOK'
      <4>1. call' \in Calls
        BY <2>t, <3>1, NoCallIs DEF Signalled, TypeOK, Calls
      <4>. QED
        BY <2>t, <3>1, <4>1 DEF Signalled, Devices, TypeOK, Calls
    <3>3. notify' \in Seq(Notices) /\ Len(notify') <= MaxNotify
      <4>1. notify # <<>> => Tail(notify) \in Seq(Notices) /\ Len(Tail(notify)) = Len(notify) - 1
        BY <2>t, HeadTailProperties
      <4>. QED
        BY <2>1, <2>t, <4>1 DEF lock_timer, xroot_filter
    <3>4. ignored' \in BOOLEAN
      BY <2>1 DEF lock_timer, xroot_filter, EmitLock, EmitActivate, NoSignal, SessionTypeOK
    <3>. QED
      BY <2>1, <3>2, <3>3, <3>4 DEF lock_timer, xroot_filter, manager, SessionTypeOK
  <2>2. CASE PrefsChanged
    BY <2>2, <2>t, <2>v DEF PrefsChanged, manager, SessionTypeOK, States
  <2>3. CASE ActivationRound
    <3>1. TypeOK'
      BY <2>3, <2>t, RootTypes DEF ActivationRound
    <3>. QED
      BY <2>3, <3>1 DEF ActivationRound, listener, SessionTypeOK
  <2>4. CASE MapEvent \/ DialogUp \/ DialogDown \/ MonitorsChanged \/ PopDown
    BY <2>4, ManagerTypes DEF Windowed, ManagerTypeOK, listener, SessionTypeOK
  <2>11. CASE FocusNowhere \/ Deactivate \/ DestroyWindows
    BY <2>11, ManagerTypes DEF ManagerTypeOK, listener, SessionTypeOK
  <2>5. CASE OfGrab
    <3>1. TypeOK'
      <4>1. CASE MoveRound
        BY <2>t, <4>1, MoveTypes
      <4>2. CASE OtherTakes
        BY <2>t, <4>2, BoundsAssumption DEF OtherTakes, TypeOK
      <4>3. CASE OtherReleases
        BY <2>t, <4>3 DEF OtherReleases, TypeOK
      <4>4. CASE GrabBreaks
        BY <2>t, <4>4 DEF GrabBreaks, TypeOK, Released
      <4>5. CASE window_grab_broken_cb
        BY <2>t, <4>5 DEF window_grab_broken_cb, TypeOK
      <4>. QED
        BY <2>5, <4>1, <4>2, <4>3, <4>4, <4>5 DEF OfGrab
    <3>. QED
      BY <2>5, <3>1 DEF OfGrab, session, manager, listener, SessionTypeOK
  <2>6. CASE TimePasses \/ FullscreenChanges \/ InhibitionChanges
    <3>1. TypeOK' /\ UNCHANGED <<manager, prefs, timer, state, notify, ignored>>
      BY <2>6, <2>v DEF TimePasses, FullscreenChanges, InhibitionChanges
    <3>2. idle_time' \in 0..2
      <4>1. idle_time \in 0..2
        BY DEF SessionTypeOK
      <4>. QED
        BY <2>6, <4>1 DEF TimePasses, FullscreenChanges, InhibitionChanges
    <3>3. fullscreen' \in BOOLEAN /\ inhibited' \in BOOLEAN
      BY <2>6, Zenon DEF TimePasses, FullscreenChanges, InhibitionChanges, SessionTypeOK
    <3>. QED
      BY <2>t, <3>1, <3>2, <3>3 DEF SessionTypeOK, manager
  <2>7. ASSUME NEW new \in States, Turns(new)
        PROVE  /\ notify' \in Seq(Notices) /\ Len(notify') <= MaxNotify /\ state' \in States
    <3>1. \A e \in Notices : Append(notify, e) \in Seq(Notices) /\ Len(Append(notify, e)) = Len(notify) + 1
      BY <2>t, AppendProperties
    <3>2. (IF new = "On" THEN "On" ELSE "Reset") \in Notices
      BY DEF Notices
    <3>. QED
      BY <2>t, <2>7, <3>1, <3>2 DEF Turns
  <2>8. CASE SaverGoesOn \/ SaverIsDisabled
    <3>1. /\ notify' \in Seq(Notices) /\ Len(notify') <= MaxNotify /\ state' \in States
      BY <2>7, <2>8 DEF SaverGoesOn, SaverIsDisabled, States
    <3>. QED
      BY <2>8, <2>v, <3>1 DEF SaverGoesOn, SaverIsDisabled, manager, SessionTypeOK
  <2>9. CASE UserActs
    <3>1. /\ notify' \in Seq(Notices) /\ Len(notify') <= MaxNotify /\ state' \in States
      <4>1. CASE Turns("Off")
        BY <2>7, <4>1 DEF States
      <4>2. CASE UNCHANGED <<state, notify>>
        BY <2>t, <4>2 DEF SessionTypeOK
      <4>. QED
        BY <2>9, <4>1, <4>2 DEF UserActs
    <3>2. /\ TypeOK' /\ UNCHANGED <<manager, prefs, timer, fullscreen, inhibited>>
          /\ idle_time' = 0 /\ ignored' = FALSE
      BY <2>9, <2>v DEF UserActs
    <3>3. idle_time' \in 0..2
      BY <3>2
    <3>4. ignored' \in BOOLEAN
      BY <3>2, Zenon
    <3>. QED
      BY <3>1, <3>2, <3>3, <3>4 DEF manager, SessionTypeOK
  <2>10. CASE UNCHANGED x11vars
    BY <2>10, <2>t, <2>v DEF x11vars, session, manager, listener, SessionTypeOK
  <2>. QED
    BY <2>1, <2>2, <2>3, <2>4, <2>5, <2>6, <2>8, <2>9, <2>10, <2>11 DEF SessionNext
<1>. QED
  BY <1>1, <1>2, PTL DEF SessionSpec

-----------------------------------------------------------------------------
(***************************************************************************)
(* The record of the grab.                                                 *)
(***************************************************************************)
\* The record is true as long as the pointer is held, even when the event of a
\* broken grab is to come: the grab has been renewed since.  The grab of the root
\* window and the overlay's do not break.
Recorded ==
  grab.window # "none" /\ (~broken \/ ptr \in Targets \/ grab.window \in {Root, Overlay}) =>
    /\ kbd = grab.window
    /\ ptr \in Targets <=> ~grab.no_pointer
    /\ ptr \in Targets => ptr = grab.window

LEMMA Names == "none" \notin Targets /\ "other" \notin Targets
  BY TargetsAssumption

LEMMA GotRecorded ==
  ASSUME NEW w \in Targets, NEW np \in BOOLEAN, Got(w, np)
  PROVE  /\ Recorded' /\ kbd' = w /\ (ptr' \in Targets <=> ~np)
<1>1. /\ kbd' = w /\ grab' = [window |-> w, no_pointer |-> np]
      /\ grab'.window = w /\ grab'.no_pointer = np
  BY DEF Got
<1>2. CASE np
  <2>1. ptr' \notin Targets
    BY <1>2, Names DEF Got, Released
  <2>. QED
    BY <1>1, <1>2, <2>1 DEF Recorded
<1>3. CASE ~np
  <2>1. ptr' = w
    BY <1>3 DEF Got
  <2>. QED
    BY <1>1, <1>3, <2>1 DEF Recorded
<1>. QED
  BY <1>2, <1>3

LEMMA LetGoRecorded ==
  ASSUME TypeOK, LetGo
  PROVE  Recorded' /\ kbd' \notin Targets /\ ptr' \notin Targets
  BY Names DEF TypeOK, LetGo, Released, Recorded

LEMMA MoveRecorded ==
  ASSUME TypeOK, Recorded, MoveRound
  PROVE  /\ Recorded'
         /\ call'.op = "none" => \/ broken'
                                 \/ kbd' = call.window /\ (ptr' \in Targets <=> ~call.no_pointer)
<1>c. /\ call.window \in Targets /\ call.no_pointer \in BOOLEAN /\ call.op = "move"
      /\ grab.window \in Targets \cup {"none"} /\ broken' = broken
  BY DEF TypeOK, MoveRound
<1>1. CASE MoveSkips
  <2>1. /\ UNCHANGED Devices
        /\ grab = [window |-> call.window, no_pointer |-> call.no_pointer]
    BY <1>1 DEF MoveSkips
  <2>2. grab.window = call.window /\ grab.no_pointer = call.no_pointer
        /\ grab.window # "none"
    BY <1>c, <2>1, Names
  <2>3. kbd' = kbd /\ ptr' = ptr /\ grab' = grab
    BY <2>1 DEF Devices
  <2>. QED
    BY <1>c, <2>2, <2>3 DEF Recorded
<1>2. CASE Moved
  BY <1>c, <1>2, GotRecorded DEF Moved
<1>3. CASE MoveRefused
  <2>1. call'.op # "none"
    BY <1>c, <1>3 DEF MoveRefused
  <2>2. CASE UNCHANGED Devices
    BY <1>c, <2>1, <2>2 DEF Devices, Recorded
  <2>3. CASE LetGo
    BY <2>1, <2>3, LetGoRecorded
  <2>4. CASE grab.window # "none" /\ Got(grab.window, call.no_pointer)
    BY <1>c, <2>1, <2>4, GotRecorded
  <2>. QED
    BY <1>3, <2>2, <2>3, <2>4 DEF MoveRefused
<1>. QED
  BY <1>1, <1>2, <1>3 DEF MoveRound

LEMMA RecordedStep ==
  ASSUME SessionTypeOK, Recorded, [SessionNext]_x11vars
  PROVE  Recorded'
<1>t. TypeOK
  BY DEF SessionTypeOK
<1>d. UNCHANGED <<Devices, broken>> => Recorded'
  BY DEF Devices, Recorded
<1>v. UNCHANGED vars => Recorded'
  BY <1>d DEF vars, Devices
<1>1. CASE lock_timer \/ xroot_filter
  BY <1>1, <1>d, Signals DEF Signalled
<1>2. CASE PrefsChanged \/ TimePasses \/ FullscreenChanges \/ InhibitionChanges \/ SaverGoesOn
             \/ SaverIsDisabled \/ UserActs \/ UNCHANGED x11vars
  BY <1>2, <1>v DEF PrefsChanged, TimePasses, FullscreenChanges, InhibitionChanges, SaverGoesOn,
       SaverIsDisabled, UserActs, x11vars
<1>3. CASE ActivationRound
  <2>1. CASE RootGrabbed
    <3>1. Got(Root, FALSE) /\ Root \in Targets
      BY <2>1 DEF RootGrabbed, Targets
    <3>. QED
      BY <3>1, GotRecorded
  <2>2. CASE RootRefused
    BY <1>3, <1>d, <2>2 DEF RootRefused, ActivationRound
  <2>. QED
    BY <1>3, <2>1, <2>2 DEF ActivationRound
<1>4. CASE Windowed \/ FocusNowhere
  BY <1>4, <1>d DEF Windowed, MapEvent, DialogUp, DialogDown, MonitorsChanged, PopDown,
     FocusNowhere, gs_grab_move_to_window
<1>7. CASE DestroyWindows
  <2>1. grab'.window # "none" => grab' = grab /\ kbd' = kbd /\ ptr' = ptr /\ grab.window \in {Root, Overlay}
    <3>. SUFFICES ASSUME grab'.window # "none" PROVE grab' = grab /\ kbd' = kbd /\ ptr' = ptr
                                                /\ grab.window \in {Root, Overlay}
      OBVIOUS
    <3>. DEFINE W == IF task = "leave" THEN Windows ELSE Shown
    <3>1. Vanish(W) /\ W \subseteq Windows /\ Shown \subseteq W
      BY <1>7 DEF DestroyWindows, Shown
    <3>. HIDE DEF W
    <3>2. grab.window \notin W /\ grab' = grab /\ grab.window # "none"
      BY <1>t, <3>1 DEF Vanish, TypeOK
    <3>3. grab.window \in {Root, Overlay}
      BY <1>t, <3>1, <3>2 DEF TypeOK, Targets, Shown
    <3>4. kbd = grab.window /\ (ptr \in Targets => ptr = grab.window)
      BY <3>2, <3>3 DEF Recorded
    <3>5. kbd' = kbd /\ (ptr \notin W => ptr' = ptr)
      BY <3>1, <3>2, <3>4 DEF Vanish
    <3>6. ptr \notin W
      BY <3>1, <3>2, <3>4 DEF Targets
    <3>. QED
      BY <3>2, <3>3, <3>5, <3>6
  <2>2. CASE grab'.window = "none"
    BY <2>2 DEF Recorded
  <2>3. CASE grab'.window # "none"
    BY <2>1, <2>3 DEF Recorded
  <2>. QED
    BY <2>2, <2>3
<1>5. CASE Deactivate
  BY <1>t, <1>5, LetGoRecorded DEF Deactivate, gs_grab_release
<1>6. CASE OfGrab
  <2>1. CASE MoveRound
    BY <1>t, <2>1, MoveRecorded
  <2>2. CASE OtherTakes \/ OtherReleases
    BY <1>t, <2>2, Names DEF OtherTakes, OtherReleases, Recorded, TypeOK
  <2>3. CASE kbd # Overlay /\ GrabBreaks
    <3>1. ptr' \notin Targets /\ broken' /\ grab' = grab /\ kbd \in Windows
      BY <1>t, <2>3, Names DEF GrabBreaks, Released, TypeOK
    <3>2. grab.window \notin {Root, Overlay}
      <4>1. grab.window \in {Root, Overlay} => grab.window # "none"
        BY Names, OverlayAssumption DEF Targets
      <4>2. kbd \notin {Root, Overlay}
        BY <2>3, <3>1, RootAssumption
      <4>. QED
        BY <4>1, <4>2 DEF Recorded
    <3>. QED
      BY <3>1, <3>2 DEF Recorded
  <2>4. CASE window_grab_broken_cb
    BY <1>t, <2>4 DEF window_grab_broken_cb, Recorded, TypeOK
  <2>. QED
    BY <1>6, <2>1, <2>2, <2>3, <2>4 DEF OfGrab
<1>. QED
  BY <1>1, <1>2, <1>3, <1>4, <1>5, <1>6, <1>7 DEF SessionNext, Windowed

\* What GSGrab has on record it has, so that gs_grab_move may skip a grab that
\* is on record already.
THEOREM RecordIsTrue == SessionSpec => []RecordTrue
<1>1. SessionInit => Recorded
  BY DEF SessionInit, Init, Recorded
<1>2. SessionTypeOK /\ Recorded /\ [SessionNext]_x11vars => Recorded'
  BY RecordedStep
<1>3. Recorded => RecordTrue
  BY DEF Recorded, RecordTrue
<1>. QED
  BY <1>1, <1>2, <1>3, X11Types, PTL DEF SessionSpec

\* gs_grab_move_to_window returns with the devices it was asked for, or lost
\* them so late that the event of it is to come.
THEOREM MovesDeliver == SessionSpec => MoveDelivers
<1>1. SessionInit => Recorded
  BY DEF SessionInit, Init, Recorded
<1>2. SessionTypeOK /\ Recorded /\ [SessionNext]_x11vars => Recorded'
  BY RecordedStep
<1>3. SessionTypeOK /\ Recorded /\ [SessionNext]_x11vars =>
        [call.op = "move" /\ call'.op = "none" =>
           \/ broken'
           \/ kbd' = call.window /\ (ptr' \in Targets <=> ~call.no_pointer)]_vars
  <2>. SUFFICES ASSUME SessionTypeOK, Recorded, [SessionNext]_x11vars,
                       call.op = "move", call'.op = "none"
                PROVE  \/ broken'
                       \/ kbd' = call.window /\ (ptr' \in Targets <=> ~call.no_pointer)
    OBVIOUS
  <2>1. ~Idle /\ call' # call /\ TypeOK
    BY NoCallIs DEF Idle, SessionTypeOK
  <2>2. MoveRound
    BY <2>1 DEF SessionNext, x11vars, vars, lock_timer, xroot_filter, PrefsChanged,
         ActivationRound, MapEvent, DialogUp, DialogDown, MonitorsChanged, FocusNowhere,
         Deactivate, PopDown, DestroyWindows, Resting, gs_grab_move_to_window,
         gs_grab_release,
         OfGrab, OtherTakes, OtherReleases, GrabBreaks, window_grab_broken_cb,
         TimePasses, SaverGoesOn, SaverIsDisabled, UserActs, FullscreenChanges, InhibitionChanges
  <2>. QED
    BY <2>1, <2>2, MoveRecorded
<1>. QED
  BY <1>1, <1>2, <1>3, X11Types, PTL DEF SessionSpec, MoveDelivers

-----------------------------------------------------------------------------
(***************************************************************************)
(* The grab and the saver.                                                 *)
(***************************************************************************)
\* A saver that is not active has no devices, and nobody moves them.  While it is
\* being left, after the release, only windows get the devices, and only windows
\* that go.
Leaving ==
  task = "leave" => kbd # Root /\ ptr # Root /\ grab.window # Root

Moving ==
  /\ call.op = "move" => call.window \in Windows
  /\ call.op = "root" => task = "none"

Absent ==
  ~active => /\ kbd \notin Targets /\ ptr \notin Targets
             /\ call.op # "move" /\ task = "none" /\ dialog = "none"

Follows == Leaving /\ Moving /\ Absent

LEMMA Apart == /\ "none" \notin Targets /\ "other" \notin Targets /\ Root \notin Windows
               /\ Root # "none" /\ Root # "other" /\ Root \in Targets
  BY TargetsAssumption, RootAssumption DEF Targets

LEMMA NoCallOp == Idle => call.op = "none"
  BY NoCallIs DEF Idle

\* Releasing the devices, and windows that vanish, leave nothing to the root.
LEMMA LeavingStep ==
  ASSUME SessionTypeOK, Follows, [SessionNext]_x11vars
  PROVE  Leaving'
<1>. SUFFICES ASSUME task' = "leave" PROVE kbd' # Root /\ ptr' # Root /\ grab'.window # Root
  BY DEF Leaving
<1>t. TypeOK
  BY DEF SessionTypeOK
<1>1. CASE Deactivate
  <2>1. LetGo
    BY <1>1 DEF Deactivate, gs_grab_release
  <2>2. kbd' \notin Targets /\ ptr' \notin Targets
    BY <1>t, <2>1, LetGoRecorded
  <2>3. grab'.window = "none"
    BY <1>t, <2>1 DEF LetGo, TypeOK
  <2>. QED
    BY <2>2, <2>3, Apart
<1>2. ASSUME ~Deactivate PROVE task = "leave"
  BY <1>2, Signals DEF SessionNext, x11vars, session, manager, PrefsChanged, ActivationRound,
     MapEvent, DialogUp, DialogDown, MonitorsChanged, FocusNowhere, PopDown, DestroyWindows,
     OfGrab, TimePasses, SaverGoesOn, SaverIsDisabled, UserActs, FullscreenChanges,
     InhibitionChanges
<1>3. ASSUME task = "leave" PROVE kbd # Root /\ ptr # Root /\ grab.window # Root
  BY <1>3 DEF Follows, Leaving
<1>4. CASE UNCHANGED <<kbd, ptr, grab>> /\ ~Deactivate
  BY <1>2, <1>3, <1>4
<1>5. CASE MoveRound /\ ~Deactivate
  <2>1. call.window \in Windows /\ call.no_pointer \in BOOLEAN
    BY <1>5, <1>t DEF MoveRound, Follows, Moving, TypeOK
  <2>2. ASSUME NEW w \in Windows \cup {grab.window}, Got(w, call.no_pointer)
        PROVE  kbd' # Root /\ ptr' # Root /\ grab'.window # Root
    <3>1. w # Root
      BY <1>2, <1>3, <1>5, <2>2, Apart
    <3>2. kbd' = w /\ grab'.window = w
      BY <2>2 DEF Got
    <3>3. ptr' = w \/ ptr' = ptr \/ ptr' = "none"
      BY <2>2 DEF Got, Released
    <3>. QED
      BY <1>2, <1>3, <1>5, <3>1, <3>2, <3>3, Apart
  <2>3. CASE UNCHANGED Devices
    BY <1>2, <1>3, <1>5, <2>3 DEF Devices
  <2>4. CASE LetGo
    <3>1. kbd' \notin Targets /\ ptr' \notin Targets
      BY <1>t, <2>4, LetGoRecorded
    <3>2. grab'.window = "none"
      BY <1>t, <2>4 DEF LetGo, TypeOK
    <3>. QED
      BY <3>1, <3>2, Apart
  <2>. QED
    BY <1>5, <2>1, <2>2, <2>3, <2>4 DEF MoveRound, MoveSkips, Moved, MoveRefused
<1>6. CASE ActivationRound
  <2>1. task = "none" /\ task' = task
    BY <1>6 DEF ActivationRound, Follows, Moving
  <2>. QED
    BY <2>1
<1>7. CASE OfGrab /\ ~MoveRound /\ ~Deactivate
  <2>1. /\ kbd' = kbd \/ kbd' \in {"none", "other"}
        /\ ptr' = ptr \/ ptr' \in {"none", "other"}
    BY <1>7 DEF OfGrab, OtherTakes, OtherReleases, GrabBreaks, window_grab_broken_cb, Released
  <2>2. grab'.window = grab.window \/ grab'.window = "none"
    BY <1>7, <1>t DEF OfGrab, OtherTakes, OtherReleases, GrabBreaks, window_grab_broken_cb, TypeOK
  <2>. QED
    BY <1>2, <1>3, <1>7, <2>1, <2>2, Apart
<1>8. CASE DestroyWindows
  BY <1>8 DEF DestroyWindows
<1>. QED
  BY <1>1, <1>4, <1>5, <1>6, <1>7, <1>8, Signals
  DEF SessionNext, x11vars, vars, session, Signalled, Devices, PrefsChanged, MapEvent, DialogUp,
      DialogDown, MonitorsChanged, FocusNowhere, PopDown, gs_grab_move_to_window, OfGrab,
      TimePasses, SaverGoesOn, SaverIsDisabled, UserActs, FullscreenChanges, InhibitionChanges

\* A grab of the root window that failed goes on, or is over.
LEMMA RefusedOp ==
  ASSUME TypeOK, call.op = "root", RootRefused PROVE call'.op \in {"root", "none"}
<1>1. call \in Calls
  BY DEF TypeOK, Calls
<1>2. \/ call' = NoCall
      \/ \E i, nuked : call' = [call EXCEPT !.i = i, !.nuked = nuked]
  BY DEF RootRefused
<1>3. CASE call' = NoCall
  BY <1>3, NoCallIs
<1>4. CASE \E i, nuked : call' = [call EXCEPT !.i = i, !.nuked = nuked]
  <2>1. PICK i, nuked : call' = [call EXCEPT !.i = i, !.nuked = nuked]
    BY <1>4
  <2>. QED
    BY <1>1, <2>1 DEF Calls
<1>. QED
  BY <1>2, <1>3, <1>4

\* A grab of the root window is for an activation, and the devices move to
\* windows.
LEMMA MovingStep ==
  ASSUME SessionTypeOK, Follows, [SessionNext]_x11vars
  PROVE  Moving'
<1>t. TypeOK /\ Moving
  BY DEF SessionTypeOK, Follows
<1>1. CASE UNCHANGED <<call, task>>
  BY <1>t, <1>1 DEF Moving
<1>2. CASE lock_timer \/ xroot_filter
  BY <1>2, <1>t, Signals, NoCallIs DEF Signalled, Resting, manager, Moving
<1>3. CASE ActivationRound
  <2>1. call.op = "root" /\ task = "none" /\ task' = task
    BY <1>3, <1>t DEF ActivationRound, Moving
  <2>2. call'.op \in {"root", "none"}
    BY <1>3, <1>t, <2>1, RefusedOp, NoCallIs DEF ActivationRound, RootGrabbed
  <2>. QED
    BY <2>1, <2>2 DEF Moving
<1>4. ASSUME NEW w \in Windows, NEW np \in BOOLEAN, gs_grab_move_to_window(w, np)
      PROVE  Moving'
  <2>1. call'.op = "move" /\ call'.window = w
    BY <1>4, NoCallIs DEF gs_grab_move_to_window, NoCall
  <2>. QED
    BY <2>1 DEF Moving
<1>5. CASE Windowed
  <2>1. Shown \subseteq Windows /\ Overlay \in Windows
    BY OverlayAssumption DEF Shown
  <2>2. dialog \in Windows \cup {"none"}
    BY <2>1 DEF SessionTypeOK
  <2>3. CASE UNCHANGED <<call, task>>
    BY <1>1, <2>3
  <2>4. CASE \E w \in Windows, np \in BOOLEAN : gs_grab_move_to_window(w, np)
    BY <1>4, <2>4
  <2>5. ASSUME NEW np \in BOOLEAN, gs_grab_move_to_window(dialog, np), dialog # "none"
        PROVE  Moving'
    BY <1>4, <2>2, <2>5
  <2>. QED
    BY <1>5, <2>1, <2>3, <2>4, <2>5
    DEF Windowed, MapEvent, DialogUp, DialogDown, MonitorsChanged, PopDown, session, manager
<1>6. CASE FocusNowhere \/ Deactivate \/ DestroyWindows
  <2>1. Idle /\ call' = call
    BY <1>6 DEF FocusNowhere, Deactivate, gs_grab_release, DestroyWindows
  <2>. QED
    BY <2>1, NoCallOp DEF Moving
<1>7. CASE OfGrab
  <2>1. task' = task
    BY <1>7 DEF OfGrab, session, manager
  <2>2. CASE MoveRound
    BY <1>t, <2>1, <2>2, NoCallIs
    DEF MoveRound, MoveSkips, Moved, MoveRefused, Moving
  <2>3. CASE ~MoveRound
    <3>1. call' = call
      BY <1>7, <2>3 DEF OfGrab, OtherTakes, OtherReleases, GrabBreaks, window_grab_broken_cb
    <3>. QED
      BY <1>1, <2>1, <3>1
  <2>. QED
    BY <2>2, <2>3
<1>. QED
  BY <1>1, <1>2, <1>3, <1>5, <1>6, <1>7
  DEF SessionNext, Windowed, x11vars, vars, session, manager, PrefsChanged, TimePasses,
      SaverGoesOn, SaverIsDisabled, UserActs, FullscreenChanges, InhibitionChanges

LEMMA AbsentStep ==
  ASSUME SessionTypeOK, Follows, [SessionNext]_x11vars
  PROVE  Absent'
<1>t. TypeOK /\ Absent /\ Leaving /\ Moving
  BY DEF SessionTypeOK, Follows
<1>v. UNCHANGED <<kbd, ptr, call, manager>> => Absent'
  BY <1>t DEF manager, Absent
<1>1. CASE lock_timer \/ xroot_filter
  BY <1>1, <1>t, Signals, NoCallIs DEF Signalled, Devices, manager, Absent
<1>2. CASE PrefsChanged \/ TimePasses \/ FullscreenChanges \/ InhibitionChanges \/ SaverGoesOn
             \/ SaverIsDisabled \/ UserActs \/ UNCHANGED x11vars
  BY <1>2, <1>v DEF PrefsChanged, TimePasses, FullscreenChanges, InhibitionChanges, SaverGoesOn,
       SaverIsDisabled, UserActs, x11vars, session, vars
<1>3. CASE ActivationRound
  <2>1. CASE active' = TRUE
    BY <2>1 DEF Absent
  <2>2. CASE RootRefused /\ active' = active
    <3>1. call'.op \in {"root", "none"} /\ UNCHANGED <<kbd, ptr, task, dialog>>
      BY <1>3, <1>t, <2>2, RefusedOp DEF ActivationRound, RootRefused, Devices
    <3>. QED
      BY <1>t, <2>2, <3>1 DEF Absent
  <2>. QED
    BY <1>3, <2>1, <2>2 DEF ActivationRound
<1>4. CASE Windowed \/ FocusNowhere \/ Deactivate
  <2>1. active' = active
    BY <1>4 DEF Windowed, MapEvent, DialogUp, DialogDown, MonitorsChanged, PopDown, FocusNowhere,
       Deactivate, session, manager
  <2>2. active
    BY <1>4, <1>t DEF Windowed, MapEvent, DialogUp, DialogDown, MonitorsChanged, PopDown,
       FocusNowhere, Deactivate, Absent
  <2>. QED
    BY <2>1, <2>2 DEF Absent
<1>5. CASE DestroyWindows
  <2>1. CASE task = "renew"
    BY <1>5, <2>1 DEF DestroyWindows, Absent
  <2>2. CASE task = "leave"
    <3>1. Vanish(Windows) /\ Idle /\ call' = call /\ task' = "none" /\ dialog' = "none"
      BY <1>5, <2>2 DEF DestroyWindows
    <3>2. kbd' \notin Targets /\ ptr' \notin Targets
      BY <1>t, <2>2, <3>1, Apart DEF Leaving, Vanish, TypeOK, Targets
    <3>. QED
      BY <3>1, <3>2, NoCallOp DEF Absent
  <2>. QED
    BY <1>5, <2>1, <2>2 DEF DestroyWindows
<1>6. CASE OfGrab
  <2>1. UNCHANGED manager
    BY <1>6 DEF OfGrab, session
  <2>2. CASE MoveRound
    BY <1>t, <2>1, <2>2 DEF MoveRound, manager, Absent
  <2>3. CASE OtherTakes \/ OtherReleases \/ GrabBreaks \/ window_grab_broken_cb
    <3>1. call' = call
      BY <2>3 DEF OtherTakes, OtherReleases, GrabBreaks, window_grab_broken_cb
    <3>2. kbd \notin Targets => kbd' \notin Targets
      BY <2>3, Apart DEF OtherTakes, OtherReleases, GrabBreaks, window_grab_broken_cb
    <3>3. ptr \notin Targets => ptr' \notin Targets
      BY <2>3, Apart DEF OtherTakes, OtherReleases, GrabBreaks, window_grab_broken_cb,
           Released
    <3>. QED
      BY <1>t, <2>1, <3>1, <3>2, <3>3 DEF manager, Absent
  <2>. QED
    BY <1>6, <2>2, <2>3 DEF OfGrab
<1>. QED
  BY <1>1, <1>2, <1>3, <1>4, <1>5, <1>6 DEF SessionNext, Windowed

\* Whatever the server refused and other clients took on the way, and though a
\* dialog that is popped down as the saver is left takes the devices once more,
\* the daemon holds keyboard and pointer only for a saver that is there, or is
\* coming.
THEOREM GrabsFollow == SessionSpec => []GrabFollowsSaver
<1>1. SessionInit => Follows
  BY Apart, NoCallIs DEF SessionInit, Init, Follows, Leaving, Moving, Absent
<1>2. SessionTypeOK /\ Follows /\ [SessionNext]_x11vars => Follows'
  BY LeavingStep, MovingStep, AbsentStep DEF Follows
<1>3. Follows => GrabFollowsSaver
  BY DEF Follows, Absent, GrabFollowsSaver
<1>. QED
  BY <1>1, <1>2, <1>3, X11Types, PTL DEF SessionSpec
=============================================================================
