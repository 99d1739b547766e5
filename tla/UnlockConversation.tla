------------------------- MODULE UnlockConversation -------------------------
(***************************************************************************)
(* The unlock dialog (LockDialog) together with the window that started it *)
(* and reads its lines from a pipe (dialog_process_watch of gs-window.c).  *)
(*                                                                         *)
(* The two processes go on at their own pace: what the dialog has written  *)
(* waits in the pipe while the dialog goes on, ends, or is terminated, and *)
(* the manager may destroy the window at any moment.  The lines NOTICE=    *)
(* are left out, the window only logs them.  A conversation is that of one *)
(* process; the next one begins like the first.                            *)
(***************************************************************************)
EXTENDS LockDialog

VARIABLES
  pipe,             \* the lines that the window has not read yet
  heard,            \* the window has read "ID" or "REQUEST QUIT"
  dialog_response,  \* GSWindowPrivate.dialog_response
  watch             \* what became of the source lock_watch_id

window == <<heard, dialog_response, watch>>
conversation == <<vars, pipe, window>>

Line == {"ID", "OK", "CANCEL", "REQUEST QUIT"}

\* answered: OK was read, the dialog stays until the window is destroyed;
\* finished: the window has taken the dialog down; destroyed: with the window.
ConversationTypes ==
  /\ pipe \in Seq(Line)
  /\ heard \subseteq {"ID", "REQUEST QUIT"}
  /\ dialog_response \in {"CANCEL", "OK"}
  /\ watch \in {"watching", "answered", "finished", "destroyed"}

\* The process is spawned and its output is watched.
ConversationInit ==
  /\ Init
  /\ pipe = <<>> /\ heard = {}
  /\ dialog_response = "CANCEL" /\ watch = "watching"

-----------------------------------------------------------------------------
(***************************************************************************)
(* The dialog's side.                                                      *)
(***************************************************************************)
\* The step writes the line.
Writes(line) ==
  \/ line \in said' \ said
  \/ line \in {"OK", "CANCEL"} /\ answers' = Append(answers, line)

\* A step of the dialog.  The end that the window has closed takes nothing.
DialogStep ==
  /\ Next
  /\ \/ /\ watch = "watching"
        /\ \E line \in Line : Writes(line) /\ pipe' = Append(pipe, line)
     \/ /\ watch = "watching" => \A line \in Line : ~Writes(line)
        /\ UNCHANGED pipe
  /\ UNCHANGED window

-----------------------------------------------------------------------------
(***************************************************************************)
(* The window's side: one line is read at a time, and the end of the pipe  *)
(* is seen only after the last line.                                       *)
(***************************************************************************)
Reads(line) == watch = "watching" /\ pipe # <<>> /\ Head(pipe) = line

\* WINDOW ID is there to be embedded; after REQUEST QUIT the process is sent a
\* signal (LockDialog's Terminated), and the window reads on.
ReadOn ==
  /\ \E line \in {"ID", "REQUEST QUIT"} :
       /\ Reads(line)
       /\ heard' = heard \cup {line}
       /\ pipe' = Tail(pipe)
  /\ UNCHANGED <<vars, dialog_response, watch>>

\* gs_window_dialog_finish: the process is sent a signal and waited for.
dialog_finish ==
  /\ loop' = "exited"
  /\ UNCHANGED <<backend, quits, pam, queued, dead, asking, plug, timers, resets,
                 idles, failures, answers, said, input, spurious, withdrawn,
                 accepted, early>>

\* The watch ends.  After an OK the window tells the manager to deactivate,
\* which destroys it; otherwise the dialog is taken down here.
Finished ==
  /\ \/ /\ dialog_response' = "OK"
        /\ watch' = "answered"
        /\ UNCHANGED vars
     \/ /\ dialog_response' # "OK"
        /\ watch' = "finished"
        /\ dialog_finish
  /\ pipe' = <<>>
  /\ UNCHANGED heard

ReadResponse ==
  /\ \E line \in {"OK", "CANCEL"} : Reads(line) /\ dialog_response' = line
  /\ Finished

\* SLIP: the end of the process is noticed before its last lines.
ReadEndEarly ==
  /\ watch = "watching" /\ loop = "exited"
  /\ UNCHANGED dialog_response
  /\ Finished

\* SLIP: the end of the pipe counts as the answer.
ReadEndAsOk ==
  /\ watch = "watching" /\ pipe = <<>> /\ loop = "exited"
  /\ dialog_response' = "OK"
  /\ Finished

\* SLIP: a dialog that was sent a signal is not watched to its end.
ReadEndUnasked ==
  /\ watch = "watching" /\ pipe = <<>> /\ loop = "exited"
  /\ "REQUEST QUIT" \notin heard
  /\ UNCHANGED dialog_response
  /\ Finished

\* The end of the pipe leaves dialog_response as it was.
ReadEnd ==
  /\ watch = "watching" /\ pipe = <<>> /\ loop = "exited"
  /\ UNCHANGED dialog_response
  /\ Finished

\* gs_window_destroy, for the manager's own reasons.
Destroy ==
  /\ watch \in {"watching", "answered"}
  /\ watch' = "destroyed"
  /\ dialog_finish
  /\ pipe' = <<>>
  /\ UNCHANGED <<heard, dialog_response>>

WindowStep == ReadOn \/ ReadResponse \/ ReadEnd \/ Destroy

ConversationNext == DialogStep \/ WindowStep

ConversationSpec == ConversationInit /\ [][ConversationNext]_conversation

\* The daemon's main loop reads what there is to read.
ConversationFairSpec ==
  /\ ConversationSpec
  /\ Fairness
  /\ WF_conversation(ReadOn \/ ReadResponse \/ ReadEnd)

-----------------------------------------------------------------------------
(***************************************************************************)
(* Properties.                                                             *)
(***************************************************************************)
\* An OK is not lost on its way: the window takes a dialog down by itself only
\* if the dialog's first word was not OK, even when the dialog has ended, or
\* was asked to, long before it is read.
OkIsHeard == watch = "finished" => answers = <<>> \/ Head(answers) # "OK"

\* What is left to read after the line with the id.
Answer == IF pipe # <<>> /\ Head(pipe) = "ID" THEN Tail(pipe) ELSE pipe

\* The conversation as the manager's model has it.
ChildState ==
  IF watch = "answered" THEN "answered"
  ELSE IF watch # "watching" THEN "none"
  ELSE IF "REQUEST QUIT" \in heard THEN "exited"
  ELSE IF Answer # <<>>
  THEN CASE Head(Answer) = "OK" -> "ok"
         [] Head(Answer) = "CANCEL" -> "cancel"
         [] OTHER -> "quit"
  ELSE IF loop = "exited" THEN "exited"
  ELSE IF "ID" \in heard THEN "asking" ELSE "starting"

\* Across the two processes the window takes the screen for unlocked, or is
\* about to, only if the authentication of a dialog that came up accepted what
\* was typed, however late the line is read and whatever the dialog did since.
UnlockIsProved ==
  (dialog_response = "OK" \/ ChildState = "ok") /\ "ID" \in said => accepted

Child == INSTANCE DialogChild WITH child <- ChildState

\* What the window makes of any dialog is a conversation as the manager's model
\* (GSManager) lets them be: one end, and no OK after a request to terminate.
ImplementsChild == Child!Spec

\* The window is not left with a dialog that has nothing more to say.
ConversationEnds == <>(watch # "watching")
=============================================================================
