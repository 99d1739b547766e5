----------------------------- MODULE LockDialog -----------------------------
(***************************************************************************)
(* The unlock dialog, a process of its own (xfce4-screensaver-dialog.c),   *)
(* its lock plug (gs-lock-plug.c) and the authentication behind it         *)
(* (gs-auth-pam.c with its thread, gs-auth-helper.c, gs-auth-pwent.c and   *)
(* gs-auth-bsdauth.c without one).                                         *)
(*                                                                         *)
(* The main thread nests main loops.  `loop' is the innermost thing that   *)
(* runs: the main loop of main() ("outer"), the one that waits for PAM's   *)
(* thread ("auth"), the one that waits for the user ("prompt"), and the    *)
(* last lines of auth_message_handler, which dispatch what is pending      *)
(* before the answer goes back ("drain").  In "prompt" and "drain" the     *)
(* thread back-ends have message_handler_mutex locked by the main thread.  *)
(*                                                                         *)
(* Time is abstract: a source with a timeout may fire at any moment once   *)
(* it is attached.  A password is the right one or a wrong one.            *)
(***************************************************************************)
EXTENDS Naturals, Sequences, FiniteSets

CONSTANTS
  MaxFailures,  \* MAX_FAILURES of the dialog, 5 in the code
  Backends,     \* authentication back-ends: "pam" and those without a thread
  MaxMessages,  \* bound: messages of one PAM conversation
  MaxInput,     \* bound: what the user types, clicks and presses
  MaxSpurious   \* bound: wakeups of g_cond_wait that nobody signalled

ASSUME FailuresAssumption == MaxFailures \in Nat \ {0}
ASSUME BoundsAssumption ==
  MaxMessages \in Nat /\ MaxInput \in Nat /\ MaxSpurious \in Nat

VARIABLES
  backend,   \* the back-end the dialog is built with
  loop,      \* where the main thread is
  quits,     \* gtk_main_quit calls the running loops have not acted on yet
  pam,       \* PAM's thread and its conversation
  queued,    \* the idle source of the thread's message: "none" or its style
  dead,      \* such sources whose message is gone: the thread waits no more
  asking,    \* the message that is being handled and the answer to it
  plug,      \* widgets, typed text and the queue of early keys
  timers,    \* timeout sources: "cancel", "response" and "quit"
  resets,    \* pending reset_idle_cb timeouts
  idles,     \* idle sources of main(): "check", "ok", "request"
  failures,  \* loop_counter
  answers,   \* RESPONSE lines on standard output
  said,      \* the other lines: "ID" and "REQUEST QUIT"
  input,     \* counts the user's actions, for MaxInput
  spurious,  \* counts the wakeups without a signal, for MaxSpurious
  withdrawn, \* history: cancelled before the authentication had its result
  accepted,  \* history: the latest prompt was answered with the right password
  shown,     \* the window has embedded the plug
  queue,     \* the keys the window keeps for the plug
  meant      \* history: what the user has typed so far, until it matters no more

early == <<shown, queue, meant>>
vars == <<backend, loop, quits, pam, queued, dead, asking, plug, timers,
          resets, idles, failures, answers, said, input, spurious, withdrawn,
          accepted, early>>

-----------------------------------------------------------------------------
Text == {"", "right", "wrong"}
Styles == {"prompt", "info"}

\* What is typed after what is there already.
Typed(before, word) ==
  IF word = "" THEN before ELSE IF before = "" THEN word ELSE "wrong"

NoThread == [thread |-> "none", done |-> FALSE, verdict |-> FALSE,
             good |-> TRUE, proved |-> FALSE, asked |-> 0]

Threaded == backend = "pam"

\* The records the state is made of: PAM's thread, the message under way, the
\* plug, and the window's queue.
PamThreads == [thread : {"none", "running", "waiting", "closed"}, done : BOOLEAN,
               verdict : BOOLEAN, good : BOOLEAN, proved : BOOLEAN,
               asked : 0..MaxMessages]
Messages == [style : Styles \cup {"none"}, reply : Text \cup {"none"}]
Plugs == [entry : BOOLEAN, area : BOOLEAN, unlock : BOOLEAN, activating : BOOLEAN,
          typed : Text, keys : Text, enter : BOOLEAN]
Queues == [keys : Text, enter : BOOLEAN]
Quits == [main : BOOLEAN, pam : {"no", "cut", "race"}]
Answers == Seq({"CANCEL", "OK"})

TypeOK ==
  /\ backend \in Backends
  /\ loop \in {"boot", "outer", "auth", "prompt", "drain", "exited"}
  /\ quits \in Quits
  /\ pam \in PamThreads
  /\ queued \in Styles \cup {"none"}
  /\ dead \in 0..MaxSpurious
  /\ asking \in Messages
  /\ plug \in Plugs
  /\ timers \subseteq {"cancel", "response", "quit"}
  /\ resets \in 0..MaxFailures
  /\ idles \subseteq {"check", "ok", "request"}
  /\ failures \in 0..MaxFailures
  /\ answers \in Answers
  /\ said \subseteq {"ID", "REQUEST QUIT"}
  /\ input \in 0..MaxInput
  /\ spurious \in 0..MaxSpurious
  /\ withdrawn \in BOOLEAN /\ accepted \in BOOLEAN
  /\ shown \in BOOLEAN
  /\ queue \in Queues
  /\ meant \in Text \cup {"void"}

-----------------------------------------------------------------------------
(***************************************************************************)
(* main() up to its main loop.                                             *)
(***************************************************************************)
\* hack_uid: may the dialog ask for a password after shedding privileges?
Environments ==
  [setuid : BOOLEAN, dropped : BOOLEAN, root : BOOLEAN,
   password : BOOLEAN, mdm : BOOLEAN]

hack_uid(env) == (env.setuid => env.dropped) /\ ~env.root

\* gs_auth_init: only the password file back-end needs to have found one.
gs_auth_init(env) == backend = "pwent" => env.password

lock_initialization(env) == gs_auth_init(env) /\ ~env.mdm

Init ==
  /\ backend \in Backends
  /\ loop = "boot"
  /\ quits = [main |-> FALSE, pam |-> "no"]
  /\ pam = NoThread
  /\ queued = "none" /\ dead = 0
  /\ asking = [style |-> "none", reply |-> "none"]
  /\ plug = [entry |-> TRUE, area |-> TRUE, unlock |-> TRUE,
             activating |-> FALSE, typed |-> "", keys |-> "", enter |-> FALSE]
  /\ timers = {} /\ resets = 0 /\ idles = {}
  /\ failures = 0 /\ answers = <<>> /\ said = {}
  /\ input = 0 /\ spurious = 0 /\ withdrawn = FALSE /\ accepted = FALSE
  /\ shown = FALSE /\ queue = [keys |-> "", enter |-> FALSE] /\ meant = ""

\* Where the screen cannot be locked the dialog says so by unlocking it; a
\* missing display or configuration daemon ends it without a word.
BootFails ==
  /\ loop = "boot"
  /\ \/ \E env \in Environments :
          /\ ~(hack_uid(env) /\ lock_initialization(env))
          /\ answers' = <<"OK">>
     \/ UNCHANGED answers
  /\ loop' = "exited"
  /\ UNCHANGED <<backend, quits, pam, queued, dead, asking, plug, timers, resets,
                 idles, failures, said, input, spurious, withdrawn, accepted, early>>

\* The plug is shown, which prints its id and starts the cancel timeout.
popup_dialog_idle ==
  /\ loop = "boot"
  /\ \E env \in Environments : hack_uid(env) /\ lock_initialization(env)
  /\ loop' = "outer"
  /\ said' = {"ID"}
  /\ timers' = {"cancel"}
  /\ idles' = {"check"}
  /\ UNCHANGED <<backend, quits, pam, queued, dead, asking, plug, resets,
                 failures, answers, input, spurious, withdrawn, accepted, early>>

-----------------------------------------------------------------------------
(***************************************************************************)
(* The plug.                                                               *)
(***************************************************************************)
WithSensitive(p, on) == [p EXCEPT !.entry = on, !.area = on]

\* Keys that came before the entry was ready are typed now; an early Return
\* presses the unlock button, which clicks a moment later.
WithForwarded(p) ==
  [p EXCEPT !.typed = Typed(@, p.keys), !.keys = "",
            !.activating = @ \/ p.enter, !.enter = FALSE]

\* request_response up to the loop: the prompt is enabled, the user has a
\* minute from now on.
WithPrompt(p) == WithForwarded([WithSensitive(p, TRUE) EXCEPT !.unlock = TRUE])

WithoutPrompt(p) == [p EXCEPT !.unlock = FALSE, !.entry = FALSE]

\* gtk_main_quit: the innermost main loop that gtk_main runs is told to
\* return.  What the descriptor of PAM's thread reported in the same round
\* is still dispatched.
InPamLoop == Threaded /\ loop \in {"auth", "prompt", "drain"}

gtk_main_quit ==
  IF ~InPamLoop THEN [quits EXCEPT !.main = TRUE]
  ELSE IF quits.pam # "no" THEN quits
  ELSE [quits EXCEPT !.pam = IF pam.thread = "closed" THEN "race" ELSE "cut"]

\* Has the authentication of this attempt come to its result?
Decided ==
  \/ pam.thread = "closed"
  \/ ~Threaded /\ loop = "drain" /\ asking.reply = "right"
  \/ "ok" \in idles

\* gs_lock_plug_response and its two handlers.  An OK matters to the loop that
\* waits for the user only; a CANCEL clears the entry, is printed, and quits a
\* main loop as well.  Then request_response takes the text, and the plug says
\* that it checks it.
gs_lock_plug_response(cancel) ==
  /\ meant' = "void"
  /\ timers' = timers \ {"cancel", "response"}
  /\ IF cancel
     THEN /\ answers' = Append(answers, "CANCEL")
          /\ quits' = gtk_main_quit
          /\ withdrawn' = (withdrawn \/ ~Decided)
     ELSE UNCHANGED <<answers, quits, withdrawn>>
  /\ LET after == [plug EXCEPT !.activating = @ /\ cancel,
                                !.typed = IF cancel THEN "" ELSE @]
     IN  IF loop = "prompt"
         THEN /\ loop' = "drain"
              /\ asking' = [asking EXCEPT
                              !.reply = IF cancel THEN "none" ELSE plug.typed]
              /\ plug' = IF cancel THEN WithoutPrompt(after)
                         ELSE [WithSensitive(WithoutPrompt(after), FALSE)
                                 EXCEPT !.typed = ""]
         ELSE UNCHANGED <<loop, asking>> /\ plug' = after

Alive == loop \notin {"boot", "exited"}

\* What the user does while the plug is there to do it in.
UserActs == Alive /\ shown /\ input < MaxInput /\ input' = input + 1

plugless == <<backend, loop, quits, pam, queued, dead, asking, resets, idles,
              failures, answers, said, spurious, withdrawn, accepted>>

Void(word) == IF meant = "void" THEN "void" ELSE word

\* The keys of a word in the plug: for the entry, or kept for later.
KeysTo(p, word) ==
  IF p.entry THEN [p EXCEPT !.typed = Typed(@, word)]
  ELSE [p EXCEPT !.keys = Typed(@, word)]

\* Return: activates the entry, hence the unlock button, or is kept as well.
ReturnTo(p) ==
  IF p.entry THEN [p EXCEPT !.activating = TRUE] ELSE [p EXCEPT !.enter = TRUE]

entry_key_press ==
  /\ UserActs
  /\ \E word \in Text \ {""} :
       plug' = KeysTo(plug, word) /\ meant' = Void(Typed(meant, word))
  /\ timers' = timers \cup {"cancel"}
  /\ UNCHANGED <<plugless, shown, queue>>

prompt_entry_activate ==
  /\ UserActs
  /\ plug' = ReturnTo(plug)
  /\ timers' = timers \cup {"cancel"}
  /\ UNCHANGED <<plugless, early>>

\* Keys that come before the window has embedded the plug wait in the window.
\* A Return that comes first is eaten, and what exceeds MAX_QUEUED_EVENTS is
\* dropped.
queue_key_event ==
  /\ loop # "exited" /\ ~shown /\ input < MaxInput /\ input' = input + 1
  /\ \/ \E word \in Text \ {""} :
          \/ /\ queue' = [queue EXCEPT !.keys = Typed(@, word)]
             /\ meant' = Void(Typed(meant, word))
          \/ queue' = [queue EXCEPT !.keys = "wrong"] /\ meant' = "void"
     \/ /\ queue' = [queue EXCEPT !.enter = queue.keys # ""]
        /\ UNCHANGED meant
  /\ UNCHANGED <<plugless, plug, timers, shown>>

\* SLIP: the queue is emptied before the plug can take it.
lock_socket_show_late ==
  /\ Alive /\ ~shown /\ shown' = TRUE
  /\ queue' = [keys |-> "", enter |-> FALSE]
  /\ UNCHANGED <<plugless, plug, timers, input, meant>>

\* The plug is embedded and gets the keys that waited.
lock_socket_show ==
  /\ Alive /\ ~shown /\ shown' = TRUE
  /\ queue' = [keys |-> "", enter |-> FALSE]
  /\ LET typed == KeysTo(plug, queue.keys)
     IN  plug' = IF queue.enter THEN ReturnTo(typed) ELSE typed
  /\ timers' = IF queue.keys = "" THEN timers ELSE timers \cup {"cancel"}
  /\ UNCHANGED <<plugless, input, meant>>

ByResponse == <<backend, pam, queued, dead, resets, idles, failures, said,
                spurious, accepted, shown, queue>>

\* The unlock button: clicked with the mouse, or by itself after it was
\* activated from the keyboard.
unlock_button_clicked ==
  /\ \/ UserActs /\ plug.unlock /\ plug.area /\ ~plug.activating
     \/ Alive /\ plug.activating /\ UNCHANGED input
  /\ gs_lock_plug_response(FALSE)
  /\ UNCHANGED ByResponse

\* The cancel button, or Escape, or the end of the plug's window.
cancel_button_clicked ==
  /\ UserActs
  /\ gs_lock_plug_response(TRUE)
  /\ UNCHANGED ByResponse

\* Switch user: the dialog cancels itself two seconds later.
switch_user_button_clicked ==
  /\ UserActs /\ plug.area
  /\ plug' = WithSensitive(plug, FALSE)
  /\ timers' = timers \cup {"response"}
  /\ UNCHANGED <<plugless, early>>

\* SLIP: the dialog only says that the time has expired.
TimedOutOnly ==
  /\ Alive /\ "cancel" \in timers
  /\ plug' = WithSensitive(plug, FALSE)
  /\ timers' = timers \ {"cancel"}
  /\ UNCHANGED <<plugless, input, early>>

dialog_timed_out ==
  /\ Alive /\ "cancel" \in timers
  /\ plug' = WithSensitive(plug, FALSE)
  /\ timers' = (timers \ {"cancel"}) \cup {"response"}
  /\ UNCHANGED <<plugless, input, early>>

response_cancel_idle ==
  /\ Alive /\ "response" \in timers
  /\ gs_lock_plug_response(TRUE)
  /\ UNCHANGED <<ByResponse, input>>

\* Three seconds after a failure, whatever the next attempt is doing by then.
reset_idle_cb ==
  /\ Alive /\ resets > 0
  /\ resets' = resets - 1
  /\ plug' = WithSensitive(plug, TRUE)
  /\ UNCHANGED <<backend, loop, quits, pam, queued, dead, asking, timers, idles,
                 failures, answers, said, input, spurious, withdrawn, accepted, early>>

-----------------------------------------------------------------------------
(***************************************************************************)
(* The attempts.                                                           *)
(***************************************************************************)
\* An attempt that failed: the dialog tells it to the window, and either tries
\* again at once or asks to be terminated, and goes by itself if it is not.
Failed(base) ==
  /\ failures' = failures + 1
  /\ IF failures' < MaxFailures
     THEN resets' = resets + 1 /\ idles' = base /\ timers' = timers
     ELSE /\ idles' = (base \ {"check"}) \cup {"request"}
          /\ timers' = timers \cup {"quit"}
          /\ UNCHANGED resets

\* The rest of auth_check_idle, back in the outer loop.
Verdict(success) ==
  /\ loop' = "outer"
  /\ asking' = [style |-> "none", reply |-> "none"]
  /\ IF success
     THEN /\ idles' = (idles \ {"check"}) \cup {"ok"}
          /\ UNCHANGED <<failures, resets, timers>>
     ELSE Failed(idles)
  /\ UNCHANGED <<backend, answers, said, input, spurious, withdrawn, early>>

OuterIdle == loop = "outer" /\ ~quits.main

\* do_auth_check, with PAM: the user is unknown or PAM cannot be set up, or
\* the thread is started and the main thread waits in a loop of its own.
StartPam ==
  /\ OuterIdle /\ "check" \in idles /\ Threaded
  /\ accepted' = FALSE
  /\ \/ /\ Verdict(FALSE)
        /\ UNCHANGED <<quits, pam, queued, dead, plug>>
     \/ /\ loop' = "auth"
        /\ pam' = [NoThread EXCEPT !.thread = "running"]
        /\ UNCHANGED <<backend, quits, queued, dead, asking, plug, timers,
                       resets, idles, failures, answers, said, input, spurious,
                       withdrawn, early>>

\* SLIP: the prompt does not restart the plug's timeout.
BeginMessageUntimed(style) ==
  /\ asking' = [style |-> style, reply |-> "none"]
  /\ IF style = "prompt"
     THEN loop' = "prompt" /\ plug' = WithPrompt(plug) /\ timers' = timers
     ELSE loop' = "drain" /\ UNCHANGED <<plug, timers>>

\* auth_message_handler: a prompt waits for the user, a message is shown.
BeginMessage(style) ==
  /\ asking' = [style |-> style, reply |-> "none"]
  /\ IF style = "prompt"
     THEN /\ loop' = "prompt"
          /\ plug' = WithPrompt(plug)
          /\ timers' = timers \cup {"cancel"}
     ELSE loop' = "drain" /\ UNCHANGED <<plug, timers>>

\* do_auth_check without a thread: the one question is asked right here.
StartDirect ==
  /\ OuterIdle /\ "check" \in idles /\ ~Threaded
  /\ BeginMessage("prompt")
  /\ UNCHANGED <<backend, quits, pam, queued, dead, resets, idles, failures,
                 answers, said, input, spurious, withdrawn, accepted, early>>

\* SLIP: the helper's exit status is not looked at.
VerifiedUnread(reply) == reply # "none"

\* ext_run, passwds_match, auth_userokay: no password, no success, and a
\* process that cannot be started or waited for is none either.
Verified(reply) == reply = "right"

FinishDirect ==
  /\ loop = "drain" /\ ~Threaded
  /\ \E success \in BOOLEAN :
       /\ success => Verified(asking.reply)
       /\ Verdict(success)
  /\ accepted' = (asking.reply = "right")
  /\ UNCHANGED <<quits, pam, queued, dead, plug>>

-----------------------------------------------------------------------------
(***************************************************************************)
(* PAM's thread, and the handler that answers it in the main thread.       *)
(***************************************************************************)
PamThread(next) ==
  /\ loop # "exited"
  /\ pam' = next
  /\ UNCHANGED <<backend, loop, quits, asking, plug, timers, resets, idles,
                 failures, answers, said, input, withdrawn, accepted, early>>

\* gs_auth_run_message_handler: the message is on the thread's stack, the
\* handler becomes an idle source, and the thread waits.
gs_auth_run_message_handler ==
  /\ pam.thread = "running" /\ pam.asked < MaxMessages
  /\ queued' \in Styles
  /\ PamThread([pam EXCEPT !.thread = "waiting", !.asked = @ + 1])
  /\ UNCHANGED <<dead, spurious>>

\* g_cond_wait may return without a signal once the mutex is free: before the
\* handler has locked it.  The message goes, the idle source stays.
SpuriousWakeup ==
  /\ pam.thread = "waiting" /\ queued # "none" /\ spurious < MaxSpurious
  /\ queued' = "none" /\ dead' = dead + 1 /\ spurious' = spurious + 1
  /\ PamThread([pam EXCEPT !.thread = "running",
                           !.good = @ /\ queued # "prompt"])

\* pam_authenticate returns and the thread closes its end of the pipe.  PAM
\* accepts whom it has asked for a password and got only right ones from.
gs_auth_thread_func ==
  /\ pam.thread = "running"
  /\ \E verdict \in BOOLEAN :
       /\ verdict => pam.good /\ pam.proved
       /\ PamThread([pam EXCEPT !.thread = "closed", !.verdict = verdict])
  /\ UNCHANGED <<queued, dead, spurious>>

AuthIdle == loop = "auth" /\ quits.pam = "no" /\ ~pam.done

\* The idle source runs in the loop that waits for the thread.
gs_auth_queued_message_handler ==
  /\ AuthIdle /\ queued # "none"
  /\ queued' = "none"
  /\ BeginMessage(queued)
  /\ UNCHANGED <<backend, quits, pam, dead, resets, idles, failures, answers,
                 said, input, spurious, withdrawn, accepted, early>>

\* A source whose message is gone reads a stack that is used for other things:
\* anything may come of it, the least being nothing, the worst the end.
HandleDead ==
  /\ AuthIdle \/ OuterIdle
  /\ dead > 0
  /\ dead' = dead - 1
  /\ loop' \in {loop, "exited"}
  /\ UNCHANGED <<backend, quits, pam, queued, asking, plug, timers, resets,
                 idles, failures, answers, said, input, spurious, withdrawn,
                 accepted, early>>

\* SLIP: the thread is signalled before the user has answered.
FinishMessageEarly ==
  /\ loop \in {"prompt", "drain"} /\ Threaded
  /\ loop' = IF loop = "prompt" THEN loop ELSE "auth"
  /\ pam' = [pam EXCEPT !.thread = "running",
                        !.good = @ /\ (asking.style = "prompt" => asking.reply = "right"),
                        !.proved = @ \/ asking.reply = "right"]
  /\ asking' = [asking EXCEPT !.reply = "none"]
  /\ accepted' = IF asking.style = "prompt" THEN asking.reply = "right"
                 ELSE accepted
  /\ UNCHANGED <<backend, quits, queued, dead, plug, timers, resets, idles,
                 failures, answers, said, input, spurious, withdrawn, early>>

\* The handler signals the thread and unlocks the mutex.  A message without an
\* answer counts as interrupted; PAM gives up a prompt for it.
FinishMessage ==
  /\ loop = "drain" /\ Threaded
  /\ loop' = "auth"
  /\ pam' = [pam EXCEPT !.thread = "running",
                        !.good = @ /\ (asking.style = "prompt" => asking.reply = "right"),
                        !.proved = @ \/ asking.reply = "right"]
  /\ asking' = [style |-> "none", reply |-> "none"]
  /\ accepted' = IF asking.style = "prompt" THEN asking.reply = "right"
                 ELSE accepted
  /\ UNCHANGED <<backend, quits, queued, dead, plug, timers, resets, idles,
                 failures, answers, said, input, spurious, withdrawn, early>>

\* The pipe is closed: the thread can be reaped.
gs_auth_loop_quit ==
  /\ loop = "auth" /\ pam.thread = "closed" /\ ~pam.done
  /\ quits.pam \in {"no", "race"}
  /\ pam' = [pam EXCEPT !.done = TRUE]
  /\ UNCHANGED <<backend, loop, quits, queued, dead, asking, plug, timers,
                 resets, idles, failures, answers, said, input, spurious,
                 withdrawn, accepted, early>>

\* SLIP: the thread is joined although the dialog was cancelled.
LeavePamLoopJoining ==
  /\ loop = "auth" /\ (quits.pam # "no" \/ pam.done)
  /\ pam.thread = "closed"
  /\ pam' = NoThread
  /\ quits' = [quits EXCEPT !.pam = "no"]
  /\ Verdict(pam.verdict)
  /\ UNCHANGED <<queued, dead, plug, accepted>>

\* The loop returns.  If the thread is not known to be done the dialog was
\* cancelled, and the process terminates itself; else the thread is joined.
LeavePamLoop ==
  /\ loop = "auth" /\ (quits.pam # "no" \/ pam.done)
  /\ IF pam.done
     THEN /\ pam' = NoThread
          /\ quits' = [quits EXCEPT !.pam = "no"]
          /\ Verdict(pam.verdict)
          /\ UNCHANGED <<queued, dead, plug, accepted>>
     ELSE /\ loop' = "exited"
          /\ UNCHANGED <<backend, quits, pam, queued, dead, asking, plug,
                         timers, resets, idles, failures, answers, said, input,
                         spurious, withdrawn, accepted, early>>

-----------------------------------------------------------------------------
(***************************************************************************)
(* The other sources of the outer loop, and its end.                       *)
(***************************************************************************)
OuterOnly == <<backend, pam, queued, dead, asking, plug, resets, failures,
               input, spurious, withdrawn, accepted, early>>

quit_response_ok ==
  /\ OuterIdle /\ "ok" \in idles
  /\ idles' = idles \ {"ok"}
  /\ answers' = Append(answers, "OK")
  /\ quits' = gtk_main_quit
  /\ UNCHANGED <<OuterOnly, loop, timers, said>>

response_request_quit ==
  /\ OuterIdle /\ "request" \in idles
  /\ idles' = idles \ {"request"}
  /\ said' = said \cup {"REQUEST QUIT"}
  /\ UNCHANGED <<OuterOnly, loop, timers, answers, quits>>

quit_timeout_cb ==
  /\ Alive /\ "quit" \in timers
  /\ timers' = timers \ {"quit"}
  /\ quits' = gtk_main_quit
  /\ UNCHANGED <<OuterOnly, loop, idles, answers, said>>

\* The outer loop returns.
Exit ==
  /\ loop = "outer" /\ quits.main
  /\ loop' = "exited"
  /\ UNCHANGED <<OuterOnly, idles, timers, answers, said, quits>>

\* The window terminates the dialog: because it was asked to, or because the
\* screensaver is deactivated.
Terminated ==
  /\ Alive
  /\ loop' = "exited"
  /\ UNCHANGED <<OuterOnly, idles, timers, answers, said, quits>>

Exited == loop = "exited" /\ UNCHANGED vars

-----------------------------------------------------------------------------
User ==
  \/ queue_key_event
  \/ entry_key_press
  \/ prompt_entry_activate
  \/ cancel_button_clicked
  \/ switch_user_button_clicked

Thread ==
  gs_auth_run_message_handler \/ gs_auth_thread_func

Main ==
  \/ BootFails \/ popup_dialog_idle
  \/ StartPam \/ StartDirect \/ FinishDirect
  \/ gs_auth_queued_message_handler \/ FinishMessage
  \/ gs_auth_loop_quit \/ LeavePamLoop
  \/ quit_response_ok \/ response_request_quit \/ Exit

Timers ==
  dialog_timed_out \/ response_cancel_idle \/ reset_idle_cb \/ quit_timeout_cb

Next ==
  \/ User \/ lock_socket_show \/ unlock_button_clicked \/ Thread \/ Main \/ Timers
  \/ Terminated \/ Exited

Spec == Init /\ [][Next]_vars

\* The same where g_cond_wait makes use of its right to return unasked.
SpuriousSpec == Init /\ [][Next \/ SpuriousWakeup \/ HandleDead]_vars

\* PAM's modules come to an end, the main loop dispatches what is ready, and
\* every timeout passes.  The user owes the dialog nothing.
Fairness ==
  /\ WF_vars(Thread) /\ WF_vars(Main)
  /\ WF_vars(dialog_timed_out) /\ WF_vars(response_cancel_idle)
  /\ WF_vars(reset_idle_cb) /\ WF_vars(quit_timeout_cb)

FairSpec == Spec /\ Fairness

-----------------------------------------------------------------------------
(***************************************************************************)
(* Properties.                                                             *)
(***************************************************************************)
\* The screen is unlocked only by a password: when the dialog that has come
\* up writes RESPONSE=OK, the authentication of the attempt it ends accepted
\* what was typed for it.  `OK' is written from an idle source in the outer
\* loop, after every wait and cancellation that may come in between.
OkIsProved ==
  LET ok == "ok" \in idles \/ \E i \in DOMAIN answers : answers[i] = "OK"
  IN  ok /\ "ID" \in said => accepted

\* PAM's thread and the main thread agree on whose turn it is: a message is
\* handled only while the thread that sent it waits for the answer, its data
\* still being on that thread's stack, and a new attempt initialises the mutex
\* and the condition only when no thread is left that may use them.
OneConversation ==
  /\ dead = 0
  /\ Threaded /\ loop \in {"prompt", "drain"} =>
       pam.thread = "waiting" /\ queued = "none"
  /\ queued # "none" => pam.thread = "waiting" /\ loop \in {"auth", "exited"}
  /\ loop \in {"boot", "outer"} => pam = NoThread

\* The thread "blocks until the gui responds" (gs-auth-pam.c:299): no idle
\* source is left that handles a message whose sender has gone on.
BlocksUntilAnswered == dead = 0

\* No prompt stays for ever: whenever the dialog waits for the user, its
\* minute or the two seconds after it are running, whatever clicks, keys and
\* stale three-second timeouts came before.
PromptEnds == loop = "prompt" => timers \cap {"cancel", "response"} # {}

\* Keys typed ahead are not lost on their way through the two queues and the
\* entry: until the user first answers or an attempt fails, the plug that is
\* there, or else the window, has all of what was typed, and the entry that is
\* ready has it by itself.  (Keys beyond MAX_QUEUED_EVENTS are lost.)
KeysArrive ==
  Alive /\ failures = 0 /\ meant # "void" =>
    /\ meant = Typed(Typed(plug.typed, plug.keys), queue.keys)
    /\ shown => queue.keys = ""
    /\ loop = "prompt" /\ shown /\ plug.entry => plug.typed = meant

Speech ==
  INSTANCE DialogSpeech
    WITH notices <- failures,
         asked <- "REQUEST QUIT" \in said,
         ok <- \E i \in DOMAIN answers : answers[i] = "OK",
         withdrawn <- withdrawn,
         over <- loop = "exited"

\* The lines the dialog writes keep to what the window relies on.
ImplementsSpeech == Speech!Spec

\* The dialog ends: answered, cancelled, timed out, or after the last failure
\* at the latest when nobody terminates it.
DialogEnds == <>(loop = "exited")
=============================================================================
