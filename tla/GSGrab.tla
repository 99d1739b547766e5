------------------------------- MODULE GSGrab -------------------------------
(***************************************************************************)
(* The grab of keyboard and pointer (gs-grab.c), against an X server whose *)
(* other clients take and release the devices meanwhile, and whose windows *)
(* may lose a grab (window_grab_broken_cb of gs-manager.c).                *)
(*                                                                         *)
(* The manager's calls block: `call' is the one under way.  One round of   *)
(* gs_grab_move is one step, since it has the X server grabbed and no other *)
(* client is served; one round of gs_grab_grab_window is one step too, and *)
(* other clients act while it sleeps between two rounds.                   *)
(***************************************************************************)
EXTENDS Naturals

CONSTANTS
  Windows,     \* the manager's windows, the overlay among them
  Root,        \* the root window
  Retries,     \* rounds of one cycle, 12 in the code
  MaxTaken,    \* bound: how often another client takes a device
  MaxRefused   \* bound: grabs the server refuses though the devices are free

ASSUME RootAssumption == Root \notin Windows
ASSUME BoundsAssumption ==
  Retries \in Nat \ {0} /\ MaxTaken \in Nat /\ MaxRefused \in Nat

Targets == Windows \cup {Root}

ASSUME TargetsAssumption == Targets \cap {"none", "other", "client"} = {}

VARIABLES
  kbd,      \* who has the keyboard: a window of ours, "other" or "none"
  ptr,      \* who has the pointer
  focus,    \* the input focus: "client", "none", or a window of ours
  grab,     \* GSGrab: grab_window and no_pointer_grab
  broken,   \* a grab-broken event is on its way
  call,     \* the call under way
  taken,    \* counts for MaxTaken
  refused   \* counts for MaxRefused

vars == <<kbd, ptr, focus, grab, broken, call, taken, refused>>

NoCall == [op |-> "none", window |-> Root, no_pointer |-> FALSE,
           i |-> 0, nuked |-> FALSE]

TypeOK ==
  /\ kbd \in Targets \cup {"other", "none"}
  /\ ptr \in Targets \cup {"other", "none"}
  /\ focus \in Targets \cup {"client", "none"}
  /\ grab \in [window : Targets \cup {"none"}, no_pointer : BOOLEAN]
  /\ broken \in BOOLEAN
  /\ call \in [op : {"none", "root", "move"}, window : Targets,
               no_pointer : BOOLEAN, i : 0..(Retries - 1), nuked : BOOLEAN]
  /\ taken \in 0..MaxTaken
  /\ refused \in 0..MaxRefused

Init ==
  /\ kbd = "none" /\ ptr = "none" /\ focus = "client"
  /\ grab = [window |-> "none", no_pointer |-> FALSE]
  /\ broken = FALSE /\ call = NoCall
  /\ taken = 0 /\ refused = 0

-----------------------------------------------------------------------------
\* The devices as an ungrab of ours leaves them.
Released(d) == IF d \in Targets THEN "none" ELSE d

\* gs_grab_get can succeed: no other client has what it asks for.
Free(no_pointer) == kbd # "other" /\ (no_pointer \/ ptr # "other")

\* A successful gs_grab_get.  Without the pointer it lets go of one that was
\* grabbed before, by grabbing anew.
Got(w, no_pointer) ==
  /\ kbd' = w
  /\ ptr' = IF no_pointer THEN Released(ptr) ELSE w
  /\ grab' = [window |-> w, no_pointer |-> no_pointer]

\* SLIP: the record survives the ungrab.
LetGoForgetful ==
  /\ kbd' = Released(kbd) /\ ptr' = Released(ptr)
  /\ UNCHANGED grab

\* gs_grab_release: the flag stays as it was.
LetGo ==
  /\ kbd' = Released(kbd) /\ ptr' = Released(ptr)
  /\ grab' = [grab EXCEPT !.window = "none"]

Refuse == refused < MaxRefused /\ refused' = refused + 1

Devices == <<kbd, ptr, grab>>

-----------------------------------------------------------------------------
(***************************************************************************)
(* The manager's calls.                                                    *)
(***************************************************************************)
Idle == call = NoCall

gs_grab_grab_root ==
  /\ Idle
  /\ call' = [NoCall EXCEPT !.op = "root"]
  /\ UNCHANGED <<Devices, focus, broken, taken, refused>>

\* (The focus is the caller's business.)
gs_grab_move_to_window(w, no_pointer) ==
  /\ Idle
  /\ call' = [NoCall EXCEPT !.op = "move", !.window = w, !.no_pointer = no_pointer]
  /\ UNCHANGED <<Devices, broken, taken, refused>>

gs_grab_release ==
  /\ Idle
  /\ LetGo
  /\ UNCHANGED <<focus, broken, call, taken, refused>>

-----------------------------------------------------------------------------
(***************************************************************************)
(* A round of gs_grab_grab_window on the root window.                      *)
(***************************************************************************)
RootGrabbed ==
  /\ Free(FALSE)
  /\ Got(Root, FALSE)
  /\ focus' = IF call.nuked THEN Root ELSE focus
  /\ call' = NoCall
  /\ UNCHANGED refused

\* SLIP: whatever the reason of the failure, another cycle begins.
RootRefusedAgain ==
  /\ call' = [call EXCEPT !.i = (@ + 1) % Retries]
  /\ UNCHANGED <<Devices, focus, refused>>

\* A failed round.  Half way through a cycle the focus is taken from whoever
\* has it.  After the last round of a cycle the call gives up, unless it was
\* another client that has the devices: then there is another cycle.
RootRefused ==
  LET middle == call.i = Retries \div 2
      again == ~Free(FALSE)
  IN  /\ IF again THEN UNCHANGED refused ELSE Refuse
      /\ focus' = IF middle THEN "none" ELSE focus
      /\ IF call.i + 1 < Retries
         THEN call' = [call EXCEPT !.i = @ + 1, !.nuked = @ \/ middle]
         ELSE IF again
         THEN call' = [call EXCEPT !.i = 0, !.nuked = @ \/ middle]
         ELSE call' = NoCall
      /\ UNCHANGED Devices

GrabRound ==
  /\ call.op = "root"
  /\ RootGrabbed \/ RootRefused
  /\ UNCHANGED <<broken, taken>>

-----------------------------------------------------------------------------
(***************************************************************************)
(* A round of gs_grab_move: nothing to do, or the grab moves, or it fails  *)
(* and the old window gets it back, with the new flag, or not even that.   *)
(***************************************************************************)
MoveSkips ==
  /\ grab = [window |-> call.window, no_pointer |-> call.no_pointer]
  /\ call' = NoCall
  /\ UNCHANGED <<Devices, refused>>

Moved ==
  /\ grab # [window |-> call.window, no_pointer |-> call.no_pointer]
  /\ Free(call.no_pointer)
  /\ Got(call.window, call.no_pointer)
  /\ call' = NoCall
  /\ UNCHANGED refused

\* SLIP: nothing is tried for the old window, nor for the new one again.
MoveRefusedForGood ==
  /\ grab # [window |-> call.window, no_pointer |-> call.no_pointer]
  /\ (~Free(call.no_pointer) /\ UNCHANGED refused) \/ Refuse
  /\ LetGo
  /\ call' = NoCall

MoveRefused ==
  /\ grab # [window |-> call.window, no_pointer |-> call.no_pointer]
  /\ UNCHANGED call
  /\ \/ /\ grab.window # "none"
        /\ Free(call.no_pointer) /\ Refuse
        /\ Got(grab.window, call.no_pointer)
     \/ /\ (~Free(call.no_pointer) /\ UNCHANGED refused) \/ Refuse
        /\ IF grab.window = "none" THEN UNCHANGED Devices ELSE LetGo

MoveRound ==
  /\ call.op = "move"
  /\ MoveSkips \/ Moved \/ MoveRefused
  /\ UNCHANGED <<focus, broken, taken>>

-----------------------------------------------------------------------------
(***************************************************************************)
(* The X server and its other clients.                                     *)
(***************************************************************************)
OtherTakes ==
  /\ taken < MaxTaken /\ taken' = taken + 1
  /\ \/ kbd = "none" /\ kbd' = "other" /\ UNCHANGED ptr
     \/ ptr = "none" /\ ptr' = "other" /\ UNCHANGED kbd
  /\ UNCHANGED <<focus, grab, broken, call, refused>>

OtherReleases ==
  /\ kbd = "other" \/ ptr = "other"
  /\ kbd' = (IF kbd = "other" THEN "none" ELSE kbd)
  /\ ptr' = (IF ptr = "other" THEN "none" ELSE ptr)
  /\ UNCHANGED <<focus, grab, broken, call, taken, refused>>

\* The window that has the grab is no longer viewable.
GrabBreaks ==
  /\ kbd \in Windows
  /\ kbd' = "none" /\ ptr' = Released(ptr) /\ broken' = TRUE
  /\ UNCHANGED <<focus, grab, call, taken, refused>>

\* The event is handled when no call blocks the main thread.
window_grab_broken_cb ==
  /\ Idle /\ broken
  /\ broken' = FALSE
  /\ grab' = IF ptr \in Targets THEN grab ELSE [grab EXCEPT !.window = "none"]
  /\ UNCHANGED <<kbd, ptr, focus, call, taken, refused>>

-----------------------------------------------------------------------------
Next ==
  \/ gs_grab_grab_root \/ gs_grab_release
  \/ \E w \in Windows, np \in BOOLEAN : gs_grab_move_to_window(w, np) /\ UNCHANGED focus
  \/ GrabRound \/ MoveRound
  \/ OtherTakes \/ OtherReleases \/ GrabBreaks \/ window_grab_broken_cb

Spec == Init /\ [][Next]_vars

\* A call does not sleep for ever, and a client that took a device gives it
\* back some time.
FairSpec ==
  /\ Spec
  /\ WF_vars(GrabRound) /\ WF_vars(MoveRound) /\ WF_vars(OtherReleases)

-----------------------------------------------------------------------------
(***************************************************************************)
(* Properties.                                                             *)
(***************************************************************************)
\* What GSGrab takes for granted is so: the window it has on record has the
\* keyboard, and it has the pointer exactly if it did not renounce it, unless
\* the server broke the grab and the event is still to come.  Moves that find
\* their arguments on record skip the grab because of this.
RecordTrue ==
  grab.window # "none" /\ ~broken =>
    /\ kbd = grab.window
    /\ ptr \in Targets <=> ~grab.no_pointer
    /\ ptr \in Targets => ptr = grab.window

\* gs_grab_move_to_window "doesn't fail" (gs-grab.c:364): when it returns, the
\* window has the devices it was to get, whatever other clients took and the
\* server refused in between, or lost them so late that the event is to come.
MoveDelivers ==
  [][call.op = "move" /\ call'.op = "none" =>
       \/ broken'
       \/ /\ kbd' = call.window
          /\ ptr' \in Targets <=> ~call.no_pointer]_vars

\* No call blocks the screensaver for ever, as long as other clients let go of
\* the devices at last and the server does not refuse a free one each time:
\* gs_grab_move_to_window has no other way out than success.
CallsReturn == call.op # "none" ~> call.op = "none"
=============================================================================
