----------------------------- MODULE DialogChild -----------------------------
(***************************************************************************)
(* The conversation of a window with its dialog process, as both sides may *)
(* rely on it.  `child' is what the process has come to and the window has *)
(* not reacted to yet: nothing is heard from one before it is started, it  *)
(* comes to one end, an OK that the window has heard is not taken back,    *)
(* and a process that is to be terminated never grants anything.           *)
(***************************************************************************)
VARIABLE child

Talking == {"starting", "asking"}
Ends    == {"ok", "cancel", "quit", "exited"}

\* A conversation is seen from its start, or from before it.
Init == child \in {"none", "starting"}

Start == child = "none" /\ child' = "starting"

\* The window is told what to embed.
Embed == child = "starting" /\ child' = "asking"

\* An answer, a request to be terminated, or the end without either.
Speak == child \in Talking /\ child' \in Ends

Terminate == child = "quit" /\ child' = "exited"

Accept == child = "ok" /\ child' = "answered"

\* The dialog is taken down: for its answer or end, or with the window.
Finish == child # "none" /\ child' = "none"

Next == Start \/ Embed \/ Speak \/ Terminate \/ Accept \/ Finish

Spec == Init /\ [][Next]_child
=============================================================================
