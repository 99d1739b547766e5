-------------------------- MODULE LockDialogProofs --------------------------
(***************************************************************************)
(* Theorems about LockDialog for every number of failures and messages,    *)
(* and any amount of input.                                                *)
(***************************************************************************)
EXTENDS LockDialog, TLAPS

\* The dialog makes another attempt only while failures are left, an attempt
\* that is under way is the one `check' stands for, and no more timeouts of
\* failed attempts are pending than there were failures.
Attempts ==
  /\ "check" \in idles => failures < MaxFailures
  /\ loop \in {"auth", "prompt", "drain"} => "check" \in idles
  /\ resets <= failures
  /\ loop = "boot" => failures = 0

\* OneConversation and what makes it inductive: only PAM has a thread, only its
\* main loop waits for one, and the thread is seen to be done after its end.
Turns ==
  /\ OneConversation
  /\ ~Threaded => pam = NoThread /\ queued = "none"
  /\ loop = "auth" => Threaded
  /\ pam.done => pam.thread = "closed"
  /\ pam.thread # "closed" => ~pam.verdict

HasOk(lines) == \E i \in DOMAIN lines : lines[i] = "OK"

\* Granted now or in a moment, and asked to be terminated likewise.
Granted == "ok" \in idles \/ HasOk(answers)
Asked == "request" \in idles \/ "REQUEST QUIT" \in said

\* An attempt that is left excludes any outcome, and the outcomes each other.
Outcomes ==
  /\ loop = "boot" => said = {} /\ answers = <<>> /\ idles = {} /\ ~withdrawn
  /\ Granted => "check" \notin idles /\ failures < MaxFailures
  /\ Asked => "check" \notin idles /\ failures = MaxFailures
  /\ "ok" \in idles => ~HasOk(answers)

\* OkIsProved and what makes it inductive: the right password is the answer to a
\* prompt, what PAM has seen is what was answered last, and its verdict goes by
\* what it has seen.
Proved ==
  /\ Granted /\ "ID" \in said => accepted
  /\ loop = "prompt" => asking.style = "prompt"
  /\ asking.style # "prompt" => asking.reply # "right"
  /\ Threaded /\ pam.good /\ pam.proved => accepted
  /\ pam.verdict => pam.good /\ pam.proved

\* A dialog that is withdrawn from is about to leave a main loop: its own, or
\* the one that waits for PAM's thread, which it does not see ending any more.
Withdrawing ==
  /\ quits.pam = "race" => pam.thread = "closed"
  /\ withdrawn =>
       \/ quits.main \/ loop = "exited"
       \/ InPamLoop /\ quits.pam = "cut" /\ ~pam.done

\* KeysArrive and what makes it inductive: an entry that is ready has no keys
\* kept for it.
KeysKept ==
  loop # "exited" /\ failures = 0 /\ meant # "void" =>
    /\ meant = Typed(Typed(plug.typed, plug.keys), queue.keys)
    /\ shown => queue.keys = ""
    /\ plug.entry => plug.keys = ""

\* The steps that leave everything but plug, timers, keys and input alone.
PlugAction ==
  \/ queue_key_event \/ entry_key_press \/ prompt_entry_activate
  \/ switch_user_button_clicked \/ lock_socket_show \/ dialog_timed_out

Response ==
  cancel_button_clicked \/ unlock_button_clicked \/ response_cancel_idle

-----------------------------------------------------------------------------
(***************************************************************************)
(* What the helpers return.                                                *)
(***************************************************************************)
LEMMA TypedType ==
  ASSUME NEW a \in Text, NEW b \in Text PROVE Typed(a, b) \in Text
  BY DEF Text, Typed

LEMMA SensitiveType ==
  ASSUME NEW p \in Plugs, NEW on \in BOOLEAN PROVE WithSensitive(p, on) \in Plugs
  BY DEF Plugs, WithSensitive

LEMMA ForwardedType ==
  ASSUME NEW p \in Plugs PROVE WithForwarded(p) \in Plugs
<1>1. Typed(p.typed, p.keys) \in Text /\ "" \in Text
  BY TypedType DEF Plugs, Text
<1>. QED
  BY <1>1 DEF Plugs, WithForwarded

LEMMA PromptType ==
  ASSUME NEW p \in Plugs PROVE WithPrompt(p) \in Plugs /\ WithoutPrompt(p) \in Plugs
<1>1. [WithSensitive(p, TRUE) EXCEPT !.unlock = TRUE] \in Plugs
  BY SensitiveType DEF Plugs
<1>2. WithoutPrompt(p) \in Plugs
  BY DEF Plugs, WithoutPrompt
<1>. QED
  BY <1>1, <1>2, ForwardedType DEF WithPrompt

LEMMA KeysType ==
  ASSUME NEW p \in Plugs, NEW word \in Text
  PROVE  KeysTo(p, word) \in Plugs /\ ReturnTo(p) \in Plugs
<1>1. Typed(p.typed, word) \in Text /\ Typed(p.keys, word) \in Text
  BY TypedType DEF Plugs
<1>. QED
  BY <1>1 DEF Plugs, KeysTo, ReturnTo

LEMMA VoidType ==
  ASSUME NEW word \in Text PROVE Void(word) \in Text \cup {"void"}
  BY DEF Void

\* A counter below its bound may grow by one.
LEMMA Counts ==
  ASSUME NEW n \in Nat, NEW k \in 0..n, k < n PROVE k + 1 \in 0..n
  OBVIOUS

LEMMA SomeFailures == 0 < MaxFailures
  BY FailuresAssumption

LEMMA InputType ==
  ASSUME TypeOK, input' = input + 1, input < MaxInput PROVE input' \in 0..MaxInput
<1>1. input \in 0..MaxInput /\ MaxInput \in Nat
  BY BoundsAssumption DEF TypeOK
<1>. QED
  BY <1>1, Counts

\* What a response leaves, by its effects on each variable.
LEMMA ResponseIs ==
  ASSUME Response
  PROVE  /\ Alive /\ UNCHANGED ByResponse
         /\ \E cancel \in BOOLEAN : gs_lock_plug_response(cancel)
         /\ input' # input => input' = input + 1 /\ input < MaxInput
<1>1. CASE cancel_button_clicked
  BY <1>1 DEF cancel_button_clicked, UserActs
<1>2. CASE unlock_button_clicked
  BY <1>2 DEF unlock_button_clicked, UserActs
<1>3. CASE response_cancel_idle
  BY <1>3 DEF response_cancel_idle
<1>. QED
  BY <1>1, <1>2, <1>3 DEF Response

LEMMA PlugActionIs ==
  ASSUME PlugAction
  PROVE  UNCHANGED plugless
  BY DEF PlugAction, queue_key_event, entry_key_press, prompt_entry_activate,
         switch_user_button_clicked, lock_socket_show, dialog_timed_out, plugless

-----------------------------------------------------------------------------
(***************************************************************************)
(* Types.                                                                  *)
(***************************************************************************)
LEMMA TypeInit == Init => TypeOK /\ Attempts
<1>. SUFFICES ASSUME Init PROVE TypeOK /\ Attempts
  OBVIOUS
<1>1. /\ 0 \in 0..MaxFailures /\ 0 \in 0..MaxSpurious
      /\ 0 \in 0..MaxInput /\ 0 \in 0..MaxMessages /\ 0 < MaxFailures
  BY FailuresAssumption, BoundsAssumption
<1>2. pam \in PamThreads
  BY <1>1 DEF Init, NoThread, PamThreads
<1>3. plug \in Plugs /\ meant \in Text \cup {"void"}
  BY DEF Init, Plugs, Text
<1>4. answers \in Answers
  <2>1. answers = <<>>
    BY DEF Init
  <2>. QED
    BY <2>1 DEF Answers
<1>5. /\ asking \in Messages
      /\ queue \in Queues
      /\ quits \in Quits
  BY DEF Init, Text, Messages, Queues, Quits
<1>6. Attempts
  <2>1. failures = 0 /\ resets = 0 /\ loop = "boot" /\ idles = {}
    BY DEF Init
  <2>. QED
    BY <2>1 DEF Attempts
<1>7. TypeOK
  BY <1>1, <1>2, <1>3, <1>4, <1>5 DEF Init, TypeOK
<1>. QED
  BY <1>6, <1>7

LEMMA QuitType ==
  ASSUME TypeOK PROVE gtk_main_quit \in Quits
  BY DEF TypeOK, gtk_main_quit, Quits

LEMMA PlugActionTypes ==
  ASSUME TypeOK, PlugAction
  PROVE  /\ plug' \in Plugs /\ timers' \subseteq {"cancel", "response", "quit"}
         /\ input' \in 0..MaxInput /\ shown' \in BOOLEAN
         /\ queue' \in Queues
         /\ meant' \in Text \cup {"void"}
<1>1. /\ plug \in Plugs /\ timers \subseteq {"cancel", "response", "quit"}
      /\ input \in 0..MaxInput /\ shown \in BOOLEAN
      /\ queue \in Queues /\ queue.keys \in Text
      /\ meant \in Text \cup {"void"} /\ "" \in Text /\ "wrong" \in Text
  BY DEF TypeOK, Queues, Text
<1>2. CASE queue_key_event
  <2>1. input' \in 0..MaxInput
    BY <1>2, InputType DEF queue_key_event
  <2>2. CASE \E word \in Text \ {""} :
               /\ queue' = [queue EXCEPT !.keys = Typed(@, word)]
               /\ meant' = Void(Typed(meant, word))
    <3>1. PICK word \in Text :
               /\ queue' = [queue EXCEPT !.keys = Typed(@, word)]
               /\ meant' = Void(Typed(meant, word))
      BY <2>2
    <3>2. Typed(queue.keys, word) \in Text
      BY <1>1, TypedType
    <3>3. meant' \in Text \cup {"void"}
      BY <1>1, <3>1, TypedType DEF Void
    <3>. QED
      BY <1>1, <1>2, <2>1, <3>1, <3>2, <3>3 DEF queue_key_event, Queues
  <2>3. CASE queue' = [queue EXCEPT !.keys = "wrong"] /\ meant' = "void"
    BY <1>1, <1>2, <2>1, <2>3 DEF queue_key_event, Queues
  <2>4. CASE queue' = [queue EXCEPT !.enter = queue.keys # ""] /\ UNCHANGED meant
    BY <1>1, <1>2, <2>1, <2>4 DEF queue_key_event, Queues
  <2>. QED
    BY <1>2, <2>2, <2>3, <2>4 DEF queue_key_event
<1>3. CASE entry_key_press
  <2>1. PICK word \in Text :
             plug' = KeysTo(plug, word) /\ meant' = Void(Typed(meant, word))
    BY <1>3 DEF entry_key_press
  <2>2. plug' \in Plugs /\ meant' \in Text \cup {"void"}
    BY <1>1, <2>1, KeysType, TypedType DEF Void
  <2>3. input' \in 0..MaxInput
    BY <1>3, InputType DEF entry_key_press, UserActs
  <2>. QED
    BY <1>1, <1>3, <2>2, <2>3 DEF entry_key_press
<1>4. CASE prompt_entry_activate
  <2>1. input' \in 0..MaxInput
    BY <1>4, InputType DEF prompt_entry_activate, UserActs
  <2>2. plug' \in Plugs
    BY <1>1, <1>4, KeysType DEF prompt_entry_activate
  <2>. QED
    BY <1>1, <1>4, <2>1, <2>2 DEF prompt_entry_activate, early
<1>5. CASE switch_user_button_clicked
  <2>1. input' \in 0..MaxInput
    BY <1>5, InputType DEF switch_user_button_clicked, UserActs
  <2>2. plug' \in Plugs
    BY <1>1, <1>5, SensitiveType DEF switch_user_button_clicked
  <2>. QED
    BY <1>1, <1>5, <2>1, <2>2 DEF switch_user_button_clicked, early
<1>6. CASE lock_socket_show
  <2>1. KeysTo(plug, queue.keys) \in Plugs
    BY <1>1, KeysType
  <2>2. plug' \in Plugs
    BY <1>1, <1>6, <2>1, KeysType DEF lock_socket_show
  <2>. QED
    BY <1>1, <1>6, <2>2 DEF lock_socket_show, Queues
<1>7. CASE dialog_timed_out
  <2>1. plug' \in Plugs
    BY <1>1, <1>7, SensitiveType DEF dialog_timed_out
  <2>. QED
    BY <1>1, <1>7, <2>1 DEF dialog_timed_out, early
<1>. QED
  BY <1>2, <1>3, <1>4, <1>5, <1>6, <1>7 DEF PlugAction

LEMMA ResponseTypes ==
  ASSUME TypeOK, Attempts, Response PROVE TypeOK' /\ Attempts'
<1>1. PICK cancel \in BOOLEAN : gs_lock_plug_response(cancel)
  BY ResponseIs
<1>2. UNCHANGED ByResponse
  BY ResponseIs
<1>3. input' \in 0..MaxInput
  <2>1. input \in 0..MaxInput
    BY DEF TypeOK
  <2>. QED
    BY <2>1, ResponseIs, InputType
<1>4. answers' \in Answers
  <2>1. answers \in Answers /\ "CANCEL" \in {"CANCEL", "OK"}
    BY DEF TypeOK
  <2>2. answers' = Append(answers, "CANCEL") \/ answers' = answers
    BY <1>1 DEF gs_lock_plug_response
  <2>. QED
    BY <2>1, <2>2 DEF Answers
<1>5. /\ quits' \in Quits
      /\ withdrawn' \in BOOLEAN
  BY <1>1, QuitType DEF TypeOK, gs_lock_plug_response
<1>6. /\ timers' \subseteq {"cancel", "response", "quit"} /\ meant' = "void"
  BY <1>1 DEF TypeOK, gs_lock_plug_response
<1>7. /\ asking' \in Messages
      /\ loop' \in {"boot", "outer", "auth", "prompt", "drain", "exited"}
      /\ loop' # loop => loop = "prompt" /\ loop' = "drain"
  <2>1. /\ asking \in Messages /\ plug.typed \in Text
        /\ loop \in {"boot", "outer", "auth", "prompt", "drain", "exited"}
    BY DEF TypeOK, Plugs
  <2>2. CASE loop = "prompt"
    <3>1. /\ loop' = "drain"
          /\ asking' = [asking EXCEPT
                          !.reply = IF cancel THEN "none" ELSE plug.typed]
      BY <1>1, <2>2 DEF gs_lock_plug_response
    <3>2. asking' \in Messages
      BY <2>1, <3>1 DEF Messages
    <3>. QED
      BY <2>2, <3>1, <3>2
  <2>3. CASE loop # "prompt"
    <3>1. loop' = loop /\ asking' = asking
      BY <1>1, <2>3 DEF gs_lock_plug_response
    <3>2. asking' \in Messages
      BY <2>1, <3>1, Zenon
    <3>3. loop' \in {"boot", "outer", "auth", "prompt", "drain", "exited"}
      BY <2>1, <3>1, Zenon
    <3>. QED
      BY <3>1, <3>2, <3>3
  <2>. QED
    BY <2>2, <2>3
<1>8. plug' \in Plugs
  <2>. DEFINE after == [plug EXCEPT !.activating = @ /\ cancel,
                                    !.typed = IF cancel THEN "" ELSE @]
  <2>1. plug \in Plugs /\ "" \in Text
    BY DEF TypeOK, Text
  <2>2. after \in Plugs
    BY <2>1 DEF Plugs
  <2>3. /\ WithoutPrompt(after) \in Plugs
        /\ WithSensitive(WithoutPrompt(after), FALSE) \in Plugs
    BY <2>2, PromptType, SensitiveType
  <2>4. [WithSensitive(WithoutPrompt(after), FALSE) EXCEPT !.typed = ""] \in Plugs
    BY <2>1, <2>3 DEF Plugs
  <2>5. plug' \in {after, WithoutPrompt(after),
                   [WithSensitive(WithoutPrompt(after), FALSE) EXCEPT !.typed = ""]}
    BY <1>1 DEF gs_lock_plug_response
  <2>. QED
    BY <2>2, <2>3, <2>4, <2>5
<1>9. TypeOK'
  BY <1>2, <1>3, <1>4, <1>5, <1>6, <1>7, <1>8 DEF TypeOK, ByResponse
<1>10. Attempts'
  BY <1>2, <1>7 DEF Attempts, ByResponse
<1>. QED
  BY <1>9, <1>10

\* An attempt ends in a result and no other attempt, or in a failure with one
\* more chance or none.
LEMMA VerdictIs ==
  ASSUME TypeOK, Attempts, "check" \in idles, NEW success \in BOOLEAN, Verdict(success)
  PROVE  /\ loop' = "outer" /\ asking' = [style |-> "none", reply |-> "none"]
         /\ idles' \subseteq {"check", "ok", "request"}
         /\ timers' \subseteq {"cancel", "response", "quit"}
         /\ failures' \in 0..MaxFailures /\ resets' \in 0..MaxFailures
         /\ resets' <= failures' /\ ("check" \in idles' => failures' < MaxFailures)
         /\ UNCHANGED <<backend, answers, said, input, spurious, withdrawn, early>>
<1>1. /\ MaxFailures \in Nat \ {0} /\ failures \in 0..MaxFailures
      /\ resets \in 0..MaxFailures /\ resets <= failures /\ failures < MaxFailures
  BY FailuresAssumption DEF TypeOK, Attempts
<1>2. CASE success
  BY <1>1, <1>2 DEF TypeOK, Verdict
<1>3. CASE ~success
  <2>1. Failed(idles)
    BY <1>3 DEF Verdict
  <2>2. failures' = failures + 1
    BY <2>1 DEF Failed
  <2>3. resets' = resets + 1 \/ resets' = resets
    BY <2>1 DEF Failed
  <2>4. /\ idles \subseteq {"check", "ok", "request"}
        /\ timers \subseteq {"cancel", "response", "quit"}
    BY DEF TypeOK
  <2>6. /\ idles' \subseteq {"check", "ok", "request"}
        /\ timers' \subseteq {"cancel", "response", "quit"}
        /\ "check" \in idles' => failures' < MaxFailures
    <3>1. CASE failures' < MaxFailures
      <4>1. idles' = idles /\ timers' = timers
        BY <2>1, <3>1 DEF Failed
      <4>. QED
        BY <2>4, <3>1, <4>1
    <3>2. CASE ~(failures' < MaxFailures)
      <4>1. /\ idles' = (idles \ {"check"}) \cup {"request"}
            /\ timers' = timers \cup {"quit"}
        BY <2>1, <3>2 DEF Failed
      <4>. QED
        BY <2>4, <4>1
    <3>. QED
      BY <3>1, <3>2
  <2>5. /\ failures' \in 0..MaxFailures /\ resets' \in 0..MaxFailures
        /\ resets' <= failures'
    BY <1>1, <2>2, <2>3
  <2>. QED
    BY <1>3, <2>5, <2>6 DEF Verdict
<1>. QED
  BY <1>2, <1>3

LEMMA PamTypes ==
  ASSUME TypeOK
  PROVE  /\ pam \in PamThreads /\ NoThread \in PamThreads
         /\ [NoThread EXCEPT !.thread = "running"] \in PamThreads
<1>1. 0 \in 0..MaxMessages
  BY BoundsAssumption
<1>. QED
  BY <1>1 DEF TypeOK, NoThread, PamThreads

LEMMA BeginTypes ==
  ASSUME TypeOK, NEW style \in Styles, BeginMessage(style)
  PROVE  /\ asking' = [style |-> style, reply |-> "none"]
         /\ loop' \in {"prompt", "drain"} /\ plug' \in Plugs
         /\ timers' \subseteq {"cancel", "response", "quit"}
<1>1. plug \in Plugs
  BY DEF TypeOK
<1>. QED
  BY <1>1, PromptType DEF TypeOK, BeginMessage

\* Where a result comes from, the rest of the state being what it was.
LEMMA VerdictTypes ==
  ASSUME TypeOK, Attempts, "check" \in idles, NEW success \in BOOLEAN, Verdict(success),
         quits' \in Quits, pam' \in PamThreads, accepted' \in BOOLEAN,
         UNCHANGED <<queued, dead, plug>>
  PROVE  TypeOK' /\ Attempts'
<1>1. /\ loop' = "outer" /\ asking' = [style |-> "none", reply |-> "none"]
      /\ idles' \subseteq {"check", "ok", "request"}
      /\ timers' \subseteq {"cancel", "response", "quit"}
      /\ failures' \in 0..MaxFailures /\ resets' \in 0..MaxFailures
      /\ resets' <= failures' /\ ("check" \in idles' => failures' < MaxFailures)
      /\ UNCHANGED <<backend, answers, said, input, spurious, withdrawn, early>>
  BY VerdictIs
<1>2. asking' \in Messages
  BY <1>1 DEF Messages
<1>3. TypeOK'
  BY <1>1, <1>2 DEF TypeOK, early
<1>4. Attempts'
  BY <1>1 DEF Attempts
<1>. QED
  BY <1>3, <1>4

\* A message that is taken up, the rest of the state being what it was.
LEMMA MessageTypes ==
  ASSUME TypeOK, Attempts, "check" \in idles, NEW style \in Styles,
         BeginMessage(style), queued' \in {queued, "none"},
         UNCHANGED <<backend, quits, pam, dead, resets, idles, failures, answers,
                     said, input, spurious, withdrawn, accepted, early>>
  PROVE  TypeOK' /\ Attempts'
<1>1. /\ asking' = [style |-> style, reply |-> "none"]
      /\ loop' \in {"prompt", "drain"} /\ plug' \in Plugs
      /\ timers' \subseteq {"cancel", "response", "quit"}
  BY BeginTypes
<1>2. asking' \in Messages
  BY <1>1 DEF Messages
<1>3. TypeOK'
  BY <1>1, <1>2 DEF TypeOK, early
<1>4. Attempts'
  BY <1>1 DEF Attempts
<1>. QED
  BY <1>3, <1>4

LEMMA TypeStep == TypeOK /\ Attempts /\ [Next]_vars => TypeOK' /\ Attempts'
<1>. SUFFICES ASSUME TypeOK, Attempts, [Next]_vars PROVE TypeOK' /\ Attempts'
  OBVIOUS
<1>. USE DEF early
<1>1. CASE PlugAction
  <2>1. UNCHANGED plugless
    BY <1>1, PlugActionIs
  <2>. QED
    BY <1>1, <2>1, PlugActionTypes DEF TypeOK, Attempts, plugless
<1>2. CASE Response
  BY <1>2, ResponseTypes
<1>3. CASE BootFails
  <2>1. answers' \in Answers
    <3>1. answers' = <<"OK">> \/ answers' = answers
      BY <1>3 DEF BootFails
    <3>2. <<"OK">> \in Answers
      BY DEF Answers
    <3>. QED
      BY <3>1, <3>2 DEF TypeOK
  <2>. QED
    BY <1>3, <2>1 DEF TypeOK, Attempts, BootFails
<1>4. CASE popup_dialog_idle
  <2>2. TypeOK'
    BY <1>4 DEF TypeOK, popup_dialog_idle
  <2>3. Attempts'
    <3>1. /\ loop = "boot" /\ loop' = "outer"
          /\ resets' = resets /\ failures' = failures
      BY <1>4 DEF popup_dialog_idle
    <3>2. 0 < MaxFailures
      BY FailuresAssumption
    <3>. QED
      BY <3>1, <3>2 DEF Attempts
  <2>. QED
    BY <2>2, <2>3
<1>5. CASE StartPam
  <2>1. CASE Verdict(FALSE) /\ UNCHANGED <<quits, pam, queued, dead, plug>>
    <3>1. "check" \in idles
      BY <1>5 DEF StartPam
    <3>2. accepted' = FALSE
      BY <1>5 DEF StartPam
    <3>3. quits' \in Quits /\ pam' \in PamThreads
      BY <2>1 DEF TypeOK
    <3>. QED
      BY <2>1, <3>1, <3>2, <3>3, VerdictTypes
  <2>2. CASE /\ loop' = "auth"
             /\ pam' = [NoThread EXCEPT !.thread = "running"]
             /\ UNCHANGED <<backend, quits, queued, dead, asking, plug, timers,
                            resets, idles, failures, answers, said, input,
                            spurious, withdrawn, early>>
    <3>1. pam' \in PamThreads
      BY <2>2, PamTypes
    <3>. QED
      BY <1>5, <2>2, <3>1 DEF StartPam, TypeOK, Attempts
  <2>. QED
    BY <1>5, <2>1, <2>2 DEF StartPam
<1>6. CASE StartDirect
  <2>1. BeginMessage("prompt") /\ "prompt" \in Styles /\ "none" \in Text \cup {"none"}
    BY <1>6 DEF StartDirect, Styles
  <2>2. "check" \in idles
    BY <1>6 DEF StartDirect
  <2>. QED
    BY <1>6, <2>1, <2>2, MessageTypes DEF StartDirect
<1>7. CASE FinishDirect
  <2>1. PICK success \in BOOLEAN : Verdict(success)
    BY <1>7 DEF FinishDirect
  <2>2. "check" \in idles
    BY <1>7 DEF FinishDirect, Attempts
  <2>3. /\ UNCHANGED <<quits, pam, queued, dead, plug>>
        /\ accepted' \in BOOLEAN
    BY <1>7 DEF FinishDirect
  <2>4. /\ quits' \in Quits /\ pam' \in PamThreads
    BY <2>3 DEF TypeOK
  <2>. QED
    BY <2>1, <2>2, <2>3, <2>4, VerdictTypes
<1>8. CASE gs_auth_run_message_handler
  <2>1. pam' \in PamThreads
    <3>1. pam.asked + 1 \in 0..MaxMessages
      BY <1>8, PamTypes, BoundsAssumption, Counts
      DEF gs_auth_run_message_handler, PamThreads
    <3>. QED
      BY <1>8, <3>1, PamTypes DEF gs_auth_run_message_handler, PamThread, PamThreads
  <2>. QED
    BY <1>8, <2>1
    DEF gs_auth_run_message_handler, PamThread, TypeOK, Attempts
<1>9. CASE gs_auth_thread_func
  <2>1. pam' \in PamThreads
    BY <1>9, PamTypes DEF gs_auth_thread_func, PamThread, PamThreads
  <2>. QED
    BY <1>9, <2>1 DEF gs_auth_thread_func, PamThread, TypeOK, Attempts
<1>10. CASE gs_auth_queued_message_handler
  <2>1. queued \in Styles /\ BeginMessage(queued)
    BY <1>10 DEF gs_auth_queued_message_handler, TypeOK
  <2>2. "check" \in idles
    BY <1>10 DEF gs_auth_queued_message_handler, Attempts, AuthIdle
  <2>. QED
    BY <1>10, <2>1, <2>2, MessageTypes DEF gs_auth_queued_message_handler
<1>11. CASE FinishMessage
  <2>1. pam' \in PamThreads
    BY <1>11, PamTypes DEF FinishMessage, PamThreads
  <2>2. accepted' \in BOOLEAN
    <3>1. accepted' \in {accepted, asking.reply = "right"}
      BY <1>11 DEF FinishMessage
    <3>2. accepted \in BOOLEAN
      BY DEF TypeOK
    <3>. QED
      BY <3>1, <3>2
  <2>3. asking' \in Messages
    BY <1>11 DEF FinishMessage, Messages
  <2>4. TypeOK'
    BY <1>11, <2>1, <2>2, <2>3 DEF FinishMessage, TypeOK
  <2>5. Attempts'
    BY <1>11 DEF FinishMessage, Attempts
  <2>. QED
    BY <2>4, <2>5
<1>12. CASE gs_auth_loop_quit
  <2>1. pam' \in PamThreads
    BY <1>12, PamTypes DEF gs_auth_loop_quit, PamThreads
  <2>. QED
    BY <1>12, <2>1 DEF gs_auth_loop_quit, TypeOK, Attempts
<1>13. CASE LeavePamLoop
  <2>1. CASE pam.done
    <3>1. /\ pam' = NoThread /\ Verdict(pam.verdict)
          /\ quits' = [quits EXCEPT !.pam = "no"]
          /\ UNCHANGED <<queued, dead, plug, accepted>>
      BY <1>13, <2>1 DEF LeavePamLoop
    <3>2. "check" \in idles /\ pam.verdict \in BOOLEAN
      BY <1>13, PamTypes DEF LeavePamLoop, Attempts, PamThreads
    <3>3. quits' \in Quits
      BY <3>1 DEF TypeOK, Quits
    <3>4. pam' \in PamThreads
      BY <3>1, PamTypes
    <3>5. accepted' \in BOOLEAN /\ UNCHANGED <<queued, dead, plug>>
      BY <3>1 DEF TypeOK
    <3>. QED
      BY <3>1, <3>2, <3>3, <3>4, <3>5, VerdictTypes
  <2>2. CASE ~pam.done
    BY <1>13, <2>2 DEF LeavePamLoop, TypeOK, Attempts
  <2>. QED
    BY <2>1, <2>2
<1>14. CASE quit_response_ok
  <2>1. answers' \in Answers
    <3>1. answers' = Append(answers, "OK") /\ "OK" \in {"CANCEL", "OK"}
      BY <1>14 DEF quit_response_ok
    <3>2. answers \in Seq({"CANCEL", "OK"})
      BY DEF TypeOK, Answers
    <3>. QED
      BY <3>1, <3>2 DEF Answers
  <2>2. quits' \in Quits
    BY <1>14, QuitType DEF quit_response_ok
  <2>. QED
    BY <1>14, <2>1, <2>2 DEF quit_response_ok, OuterOnly, TypeOK, Attempts
<1>15. CASE response_request_quit
  <2>1. TypeOK'
    BY <1>15 DEF response_request_quit, OuterOnly, TypeOK
  <2>2. Attempts'
    BY <1>15 DEF response_request_quit, OuterOnly, Attempts
  <2>. QED
    BY <2>1, <2>2
<1>16. CASE quit_timeout_cb
  <2>1. quits' \in Quits
    BY <1>16, QuitType DEF quit_timeout_cb
  <2>. QED
    BY <1>16, <2>1 DEF quit_timeout_cb, OuterOnly, TypeOK, Attempts
<1>17. CASE Exit \/ Terminated
  BY <1>17 DEF Exit, Terminated, OuterOnly, TypeOK, Attempts
<1>18. CASE reset_idle_cb
  <2>1. plug' \in Plugs
    BY <1>18, SensitiveType DEF reset_idle_cb, TypeOK
  <2>2. resets' \in 0..MaxFailures /\ resets' <= failures
    <3>1. resets \in 0..MaxFailures /\ failures \in 0..MaxFailures
          /\ resets <= failures /\ MaxFailures \in Nat
      BY FailuresAssumption DEF TypeOK, Attempts
    <3>2. resets > 0 /\ resets' = resets - 1
      BY <1>18 DEF reset_idle_cb
    <3>. QED
      BY <3>1, <3>2
  <2>. QED
    BY <1>18, <2>1, <2>2 DEF reset_idle_cb, TypeOK, Attempts
<1>19. CASE UNCHANGED vars
  <2>1. TypeOK'
    BY <1>19 DEF vars, TypeOK
  <2>2. Attempts'
    BY <1>19 DEF vars, Attempts
  <2>. QED
    BY <2>1, <2>2
<1>. QED
  BY <1>1, <1>2, <1>3, <1>4, <1>5, <1>6, <1>7, <1>8, <1>9, <1>10, <1>11, <1>12,
     <1>13, <1>14, <1>15, <1>16, <1>17, <1>18, <1>19
  DEF Next, User, Thread, Main, Timers, PlugAction, Response, Exited

\* The dialog's state stays within its types, whatever its back-end.
THEOREM DialogTypes == Spec => []TypeOK
  BY TypeInit, TypeStep, PTL DEF Spec
-----------------------------------------------------------------------------
(***************************************************************************)
(* Prompts that end, and the two threads.                                  *)
(***************************************************************************)
LEMMA PromptStep == PromptEnds /\ [Next]_vars => PromptEnds'
<1>. SUFFICES ASSUME PromptEnds, [Next]_vars PROVE PromptEnds'
  OBVIOUS
<1>. USE DEF PromptEnds
<1>1. CASE PlugAction
  <2>1. loop' = loop
    BY <1>1, PlugActionIs DEF plugless
  <2>2. timers' = timers \/ "cancel" \in timers' \/ "response" \in timers'
    BY <1>1 DEF PlugAction, queue_key_event, entry_key_press, prompt_entry_activate,
                switch_user_button_clicked, lock_socket_show, dialog_timed_out
  <2>. QED
    BY <2>1, <2>2
<1>2. CASE Response
  <2>1. loop' # "prompt"
    BY <1>2, ResponseIs DEF gs_lock_plug_response
  <2>. QED
    BY <2>1
<1>3. CASE StartDirect \/ gs_auth_queued_message_handler
  <2>1. loop' = "prompt" => "cancel" \in timers'
    BY <1>3 DEF StartDirect, gs_auth_queued_message_handler, BeginMessage
  <2>. QED
    BY <2>1
<1>4. CASE quit_timeout_cb
  <2>1. loop' = loop /\ timers' = timers \ {"quit"}
    BY <1>4 DEF quit_timeout_cb, OuterOnly
  <2>. QED
    BY <2>1
<1>5. CASE \/ BootFails \/ popup_dialog_idle \/ StartPam \/ FinishDirect
           \/ FinishMessage \/ LeavePamLoop \/ Exit \/ Terminated
  <2>1. loop' # "prompt"
    BY <1>5 DEF BootFails, popup_dialog_idle, StartPam, FinishDirect, FinishMessage,
                LeavePamLoop, Exit, Terminated, Verdict
  <2>. QED
    BY <2>1
<1>6. CASE \/ Thread \/ gs_auth_loop_quit \/ quit_response_ok
           \/ response_request_quit \/ reset_idle_cb \/ UNCHANGED vars
  <2>1. loop' = loop /\ timers' = timers
    BY <1>6 DEF Thread, gs_auth_run_message_handler, gs_auth_thread_func, PamThread,
                gs_auth_loop_quit, quit_response_ok, response_request_quit,
                OuterOnly, reset_idle_cb, vars
  <2>. QED
    BY <2>1
<1>. QED
  BY <1>1, <1>2, <1>3, <1>4, <1>5, <1>6
  DEF Next, User, Main, Timers, PlugAction, Response, Exited

\* No prompt stays for ever: while the dialog waits for the user a timeout is
\* running that will cancel it, whatever the other timeouts and sources did.
THEOREM NoPromptStays == Spec => []PromptEnds
<1>1. Init => PromptEnds
  BY DEF Init, PromptEnds
<1>. QED
  BY <1>1, PromptStep, PTL DEF Spec

LEMMA TurnsInit == Init => Turns
<1>. SUFFICES ASSUME Init PROVE Turns
  OBVIOUS
<1>1. dead = 0 /\ loop = "boot" /\ queued = "none" /\ pam = NoThread
  BY DEF Init
<1>2. ~NoThread.done /\ ~NoThread.verdict
  BY DEF NoThread
<1>. QED
  BY <1>1, <1>2 DEF Turns, OneConversation

LEMMA TurnsStep == TypeOK /\ Turns /\ [Next]_vars => Turns'
<1>. SUFFICES ASSUME TypeOK, Turns, [Next]_vars PROVE Turns'
  OBVIOUS
<1>. USE DEF Turns, OneConversation, Threaded
<1>1. CASE PlugAction
  BY <1>1, PlugActionIs DEF plugless
<1>2. CASE Response
  <2>1. UNCHANGED <<backend, pam, queued, dead>>
    BY <1>2, ResponseIs DEF ByResponse
  <2>2. loop' # loop => loop = "prompt" /\ loop' = "drain"
    BY <1>2, ResponseIs DEF gs_lock_plug_response
  <2>. QED
    BY <2>1, <2>2
<1>3. CASE BootFails \/ popup_dialog_idle
  BY <1>3 DEF BootFails, popup_dialog_idle
<1>4. CASE StartPam
  <2>1. UNCHANGED <<backend, queued, dead>> /\ loop = "outer" /\ backend = "pam"
    BY <1>4 DEF StartPam, Verdict, OuterIdle
  <2>2. \/ loop' = "outer" /\ pam' = pam
        \/ loop' = "auth" /\ pam' = [NoThread EXCEPT !.thread = "running"]
    BY <1>4 DEF StartPam, Verdict
  <2>. QED
    BY <2>1, <2>2 DEF NoThread
<1>5. CASE StartDirect
  BY <1>5 DEF StartDirect, BeginMessage
<1>6. CASE FinishDirect
  BY <1>6 DEF FinishDirect, Verdict
<1>7. CASE gs_auth_run_message_handler
  <2>1. /\ pam.thread = "running" /\ loop # "exited"
        /\ pam' = [pam EXCEPT !.thread = "waiting", !.asked = @ + 1]
        /\ UNCHANGED <<backend, loop, dead>>
    BY <1>7 DEF gs_auth_run_message_handler, PamThread
  <2>2. /\ pam'.thread = "waiting" /\ pam'.done = pam.done
        /\ pam'.verdict = pam.verdict /\ pam # NoThread
    BY <2>1 DEF NoThread
  <2>3. loop \in {"boot", "outer", "auth", "prompt", "drain", "exited"}
    BY DEF TypeOK
  <2>. QED
    BY <2>1, <2>2, <2>3
<1>8. CASE gs_auth_thread_func
  <2>1. /\ pam.thread = "running" /\ loop # "exited"
        /\ UNCHANGED <<backend, loop, dead, queued>>
    BY <1>8 DEF gs_auth_thread_func, PamThread
  <2>2. pam'.thread = "closed" /\ pam # NoThread
    BY <1>8 DEF gs_auth_thread_func, PamThread, NoThread
  <2>. QED
    BY <2>1, <2>2
<1>9. CASE gs_auth_queued_message_handler
  <2>1. /\ loop = "auth" /\ queued # "none" /\ queued' = "none"
        /\ loop' \in {"prompt", "drain"} /\ UNCHANGED <<backend, pam, dead>>
    BY <1>9 DEF gs_auth_queued_message_handler, BeginMessage, AuthIdle
  <2>. QED
    BY <2>1
<1>10. CASE FinishMessage
  <2>1. /\ loop = "drain" /\ backend = "pam" /\ loop' = "auth"
        /\ UNCHANGED <<backend, queued, dead>>
    BY <1>10 DEF FinishMessage
  <2>2. /\ pam'.thread = "running" /\ pam'.done = pam.done
        /\ pam'.verdict = pam.verdict
    BY <1>10 DEF FinishMessage
  <2>. QED
    BY <2>1, <2>2
<1>11. CASE gs_auth_loop_quit
  <2>1. pam.thread = "closed" /\ loop = "auth" /\ UNCHANGED <<backend, loop, queued, dead>>
    BY <1>11 DEF gs_auth_loop_quit
  <2>2. pam'.thread = "closed"
    BY <2>1, <1>11 DEF gs_auth_loop_quit
  <2>. QED
    BY <2>1, <2>2
<1>12. CASE LeavePamLoop
  <2>1. CASE pam.done
    <3>1. pam' = NoThread /\ loop' = "outer" /\ UNCHANGED <<backend, queued, dead>>
      BY <1>12, <2>1 DEF LeavePamLoop, Verdict
    <3>. QED
      BY <2>1, <3>1 DEF NoThread
  <2>2. CASE ~pam.done
    <3>1. loop = "auth" /\ loop' = "exited" /\ UNCHANGED <<backend, pam, queued, dead>>
      BY <1>12, <2>2 DEF LeavePamLoop
    <3>. QED
      BY <3>1
  <2>. QED
    BY <2>1, <2>2
<1>13. CASE quit_response_ok \/ response_request_quit \/ quit_timeout_cb
  BY <1>13 DEF quit_response_ok, response_request_quit, quit_timeout_cb, OuterOnly
<1>14. CASE Exit \/ Terminated
  BY <1>14 DEF Exit, Terminated, OuterOnly
<1>15. CASE reset_idle_cb \/ UNCHANGED vars
  BY <1>15 DEF reset_idle_cb, vars
<1>. QED
  BY <1>1, <1>2, <1>3, <1>4, <1>5, <1>6, <1>7, <1>8, <1>9, <1>10, <1>11, <1>12,
     <1>13, <1>14, <1>15
  DEF Next, User, Thread, Main, Timers, PlugAction, Response, Exited

\* The main thread handles a message only while the thread that sent it waits,
\* and a new attempt finds no thread of an earlier one.
THEOREM ThreadsTakeTurns == Spec => []OneConversation
<1>1. Turns => OneConversation
  BY DEF Turns
<1>. QED
  BY <1>1, TurnsInit, TurnsStep, DialogTypes, PTL DEF Spec
-----------------------------------------------------------------------------
(***************************************************************************)
(* What comes of the attempts.                                             *)
(***************************************************************************)
\* Of the lines that answer, only "OK" is one.
LEMMA OkLines ==
  /\ ~HasOk(<<>>)
  /\ \A lines \in Answers : HasOk(Append(lines, "CANCEL")) <=> HasOk(lines)
  /\ \A lines \in Answers : HasOk(Append(lines, "OK"))
<1>1. ~HasOk(<<>>)
  BY DEF HasOk
<1>2. ASSUME NEW lines \in Answers
      PROVE  HasOk(Append(lines, "CANCEL")) <=> HasOk(lines)
  BY DEF HasOk, Answers
<1>3. ASSUME NEW lines \in Answers PROVE HasOk(Append(lines, "OK"))
  <2>1. Append(lines, "OK")[Len(lines) + 1] = "OK"
    BY DEF Answers
  <2>2. Len(lines) + 1 \in DOMAIN Append(lines, "OK")
    BY DEF Answers
  <2>. QED
    BY <2>1, <2>2 DEF HasOk
<1>. QED
  BY <1>1, <1>2, <1>3

LEMMA VerdictOutcome ==
  ASSUME TypeOK, Attempts, "check" \in idles, NEW success \in BOOLEAN, Verdict(success)
  PROVE  /\ UNCHANGED <<answers, said, withdrawn>> /\ loop' = "outer"
         /\ success => /\ idles' = (idles \ {"check"}) \cup {"ok"}
                       /\ failures' = failures
         /\ ~success =>
              /\ failures < MaxFailures /\ failures' = failures + 1
              /\ \/ idles' = idles
                 \/ /\ idles' = (idles \ {"check"}) \cup {"request"}
                    /\ failures' = MaxFailures
<1>1. failures < MaxFailures /\ failures \in Nat /\ MaxFailures \in Nat
  <2>1. failures \in 0..MaxFailures /\ MaxFailures \in Nat
    BY FailuresAssumption DEF TypeOK
  <2>2. failures < MaxFailures
    BY DEF Attempts
  <2>. QED
    BY <2>1, <2>2
<1>2. CASE success
  BY <1>2 DEF Verdict
<1>3. CASE ~success
  <2>1. Failed(idles)
    BY <1>3 DEF Verdict
  <2>2. failures' = failures + 1
    BY <2>1 DEF Failed
  <2>3. CASE failures' < MaxFailures
    <3>1. idles' = idles
      BY <2>1, <2>3 DEF Failed
    <3>. QED
      BY <1>1, <1>3, <2>2, <3>1 DEF Verdict
  <2>4. CASE ~(failures' < MaxFailures)
    <3>1. idles' = (idles \ {"check"}) \cup {"request"}
      BY <2>1, <2>4 DEF Failed
    <3>2. failures' = MaxFailures
      BY <1>1, <2>2, <2>4
    <3>. QED
      BY <1>1, <1>3, <2>2, <3>1, <3>2 DEF Verdict
  <2>. QED
    BY <2>3, <2>4
<1>. QED
  BY <1>2, <1>3

\* The steps that no outcome depends on.
Neutral ==
  \/ PlugAction \/ StartDirect \/ Thread \/ gs_auth_queued_message_handler
  \/ FinishMessage \/ gs_auth_loop_quit \/ quit_timeout_cb \/ Exit \/ Terminated
  \/ reset_idle_cb \/ UNCHANGED vars

LEMMA NeutralIs ==
  ASSUME Neutral
  PROVE  /\ UNCHANGED <<idles, failures, answers, said, withdrawn>>
         /\ loop' = "boot" => loop = "boot"
<1>1. CASE PlugAction
  BY <1>1, PlugActionIs DEF plugless
<1>2. CASE StartDirect \/ gs_auth_queued_message_handler
  BY <1>2 DEF StartDirect, gs_auth_queued_message_handler, BeginMessage
<1>3. CASE Thread \/ FinishMessage \/ gs_auth_loop_quit
  BY <1>3 DEF Thread, gs_auth_run_message_handler, gs_auth_thread_func, PamThread,
              FinishMessage, gs_auth_loop_quit
<1>4. CASE quit_timeout_cb \/ Exit \/ Terminated
  BY <1>4 DEF quit_timeout_cb, Exit, Terminated, OuterOnly
<1>5. CASE reset_idle_cb \/ UNCHANGED vars
  BY <1>5 DEF reset_idle_cb, vars
<1>. QED
  BY <1>1, <1>2, <1>3, <1>4, <1>5 DEF Neutral

LEMMA NextIs ==
  ASSUME [Next]_vars
  PROVE  \/ Neutral \/ Response \/ BootFails \/ popup_dialog_idle \/ StartPam
         \/ FinishDirect \/ LeavePamLoop \/ quit_response_ok \/ response_request_quit
  BY DEF Next, User, Thread, Main, Timers, PlugAction, Response, Exited, Neutral

\* What a response does to the outcomes: nothing.
LEMMA ResponseOutcome ==
  ASSUME TypeOK, Response
  PROVE  /\ UNCHANGED <<idles, failures, said>>
         /\ HasOk(answers') <=> HasOk(answers)
         /\ loop # "boot" /\ loop' # "boot"
<1>1. PICK cancel \in BOOLEAN : gs_lock_plug_response(cancel)
  BY ResponseIs
<1>2. answers' = Append(answers, "CANCEL") \/ answers' = answers
  BY <1>1 DEF gs_lock_plug_response
<1>3. HasOk(answers') <=> HasOk(answers)
  <2>1. answers \in Answers
    BY DEF TypeOK
  <2>2. HasOk(Append(answers, "CANCEL")) <=> HasOk(answers)
    BY <2>1, OkLines
  <2>3. CASE answers' = answers
    BY <2>3, Zenon
  <2>4. CASE answers' = Append(answers, "CANCEL")
    BY <2>2, <2>4, Zenon
  <2>. QED
    BY <1>2, <2>3, <2>4
<1>. QED
  BY <1>1, <1>3, ResponseIs DEF gs_lock_plug_response, ByResponse, Alive

LEMMA OutcomesInit == Init => Outcomes
<1>. SUFFICES ASSUME Init PROVE Outcomes
  OBVIOUS
<1>1. /\ idles = {} /\ answers = <<>> /\ said = {} /\ ~withdrawn
  BY DEF Init
<1>. QED
  BY <1>1, OkLines DEF Outcomes, Granted, Asked

LEMMA OutcomesByVerdict ==
  ASSUME TypeOK, Attempts, Outcomes, "check" \in idles, NEW success \in BOOLEAN,
         Verdict(success)
  PROVE  Outcomes'
<1>1. ~Granted /\ ~Asked
  BY DEF Outcomes
<1>2. /\ answers' = answers /\ said' = said /\ loop' = "outer"
  BY VerdictOutcome
<1>3. HasOk(answers') <=> HasOk(answers)
  BY <1>2, Zenon
<1>4. failures < MaxFailures /\ failures \in Nat /\ MaxFailures \in Nat
  <2>1. failures \in 0..MaxFailures /\ MaxFailures \in Nat
    BY FailuresAssumption DEF TypeOK
  <2>2. failures < MaxFailures
    BY DEF Attempts
  <2>. QED
    BY <2>1, <2>2
<1>5. CASE success
  <2>1. idles' = (idles \ {"check"}) \cup {"ok"} /\ failures' = failures
    BY <1>5, VerdictOutcome
  <2>. QED
    BY <1>1, <1>2, <1>3, <1>4, <2>1 DEF Outcomes, Granted, Asked
<1>6. CASE ~success
  <2>1. /\ \/ idles' = idles
           \/ /\ idles' = (idles \ {"check"}) \cup {"request"}
              /\ failures' = MaxFailures
    BY <1>6, VerdictOutcome
  <2>. QED
    BY <1>1, <1>2, <1>3, <2>1 DEF Outcomes, Granted, Asked
<1>. QED
  BY <1>5, <1>6

LEMMA OutcomesStep ==
  TypeOK /\ Attempts /\ Outcomes /\ [Next]_vars => Outcomes'
<1>. SUFFICES ASSUME TypeOK, Attempts, Outcomes, [Next]_vars PROVE Outcomes'
  OBVIOUS
<1>. USE DEF Outcomes, Granted, Asked
<1>0. MaxFailures \in Nat \ {0} /\ failures \in 0..MaxFailures
  BY FailuresAssumption DEF TypeOK
<1>1. CASE Neutral
  <2>1. /\ UNCHANGED <<idles, failures, answers, said, withdrawn>>
        /\ loop' = "boot" => loop = "boot"
    BY <1>1, NeutralIs
  <2>2. HasOk(answers') <=> HasOk(answers)
    BY <2>1, Zenon
  <2>. QED
    BY <2>1, <2>2
<1>2. CASE Response
  BY <1>2, ResponseOutcome
<1>3. CASE BootFails
  <2>1. /\ loop = "boot" /\ loop' = "exited" /\ UNCHANGED <<idles, failures, said>>
    BY <1>3 DEF BootFails
  <2>2. failures < MaxFailures
    <3>1. failures = 0
      BY <2>1 DEF Attempts
    <3>. QED
      BY <3>1, SomeFailures, Zenon
  <2>. QED
    BY <2>1, <2>2
<1>4. CASE popup_dialog_idle
  <2>1. /\ loop = "boot" /\ loop' = "outer" /\ UNCHANGED <<failures, answers>>
        /\ idles' = {"check"} /\ said' = {"ID"}
    BY <1>4 DEF popup_dialog_idle
  <2>. QED
    BY <2>1, OkLines
<1>5. CASE StartPam
  <2>1. CASE Verdict(FALSE)
    <3>1. "check" \in idles
      BY <1>5 DEF StartPam
    <3>. QED
      BY <2>1, <3>1, OutcomesByVerdict
  <2>2. CASE ~Verdict(FALSE)
    <3>1. /\ UNCHANGED <<idles, failures, answers, said, withdrawn>>
          /\ loop' = "auth"
      BY <1>5, <2>2 DEF StartPam
    <3>. QED
      BY <3>1
  <2>. QED
    BY <2>1, <2>2
<1>6. CASE FinishDirect
  <2>1. PICK success \in BOOLEAN : Verdict(success)
    BY <1>6 DEF FinishDirect
  <2>2. "check" \in idles
    BY <1>6 DEF FinishDirect, Attempts
  <2>. QED
    BY <2>1, <2>2, OutcomesByVerdict
<1>7. CASE LeavePamLoop
  <2>1. "check" \in idles
    BY <1>7 DEF LeavePamLoop, Attempts
  <2>2. CASE pam.done
    <3>1. Verdict(pam.verdict) /\ pam.verdict \in BOOLEAN
      BY <1>7, <2>2, PamTypes DEF LeavePamLoop, PamThreads
    <3>. QED
      BY <2>1, <3>1, OutcomesByVerdict
  <2>3. CASE ~pam.done
    <3>1. /\ UNCHANGED <<idles, failures, answers, said, withdrawn>>
          /\ loop' = "exited"
      BY <1>7, <2>3 DEF LeavePamLoop
    <3>. QED
      BY <3>1
  <2>. QED
    BY <2>2, <2>3
<1>8. CASE quit_response_ok
  <2>1. /\ "ok" \in idles /\ idles' = idles \ {"ok"} /\ loop' = loop /\ loop = "outer"
        /\ UNCHANGED <<failures, said>> /\ answers' = Append(answers, "OK")
    BY <1>8 DEF quit_response_ok, OuterOnly, OuterIdle
  <2>2. HasOk(answers')
    BY <2>1, OkLines DEF TypeOK
  <2>. QED
    BY <2>1, <2>2
<1>9. CASE response_request_quit
  <2>1. /\ "request" \in idles /\ idles' = idles \ {"request"}
        /\ loop' = loop /\ loop = "outer" /\ said' = said \cup {"REQUEST QUIT"}
        /\ UNCHANGED <<failures, answers>>
    BY <1>9 DEF response_request_quit, OuterOnly, OuterIdle
  <2>. QED
    BY <2>1
<1>. QED
  BY <1>1, <1>2, <1>3, <1>4, <1>5, <1>6, <1>7, <1>8, <1>9, NextIs

-----------------------------------------------------------------------------
(***************************************************************************)
(* Only a password unlocks.                                                *)
(***************************************************************************)
LEMMA ProvedInit == Init => Proved
<1>. SUFFICES ASSUME Init PROVE Proved
  OBVIOUS
<1>1. /\ said = {} /\ loop = "boot" /\ asking.reply = "none"
  BY DEF Init
<1>2. ~pam.proved /\ ~pam.verdict
  <2>1. pam = NoThread
    BY DEF Init
  <2>. QED
    BY <2>1 DEF NoThread
<1>. QED
  BY <1>1, <1>2 DEF Proved

\* A response that is taken leaves the prompt, another one leaves everything.
LEMMA ProvedByResponse ==
  ASSUME TypeOK, Proved, Response PROVE Proved'
<1>1. PICK cancel \in BOOLEAN : gs_lock_plug_response(cancel)
  BY ResponseIs
<1>2. UNCHANGED <<backend, pam, accepted>>
  BY ResponseIs DEF ByResponse
<1>3. Granted' = Granted /\ said' = said
  BY ResponseOutcome DEF Granted
<1>4. /\ loop' = "prompt" => asking'.style = "prompt"
      /\ asking'.style # "prompt" => asking'.reply # "right"
  <2>1. CASE loop = "prompt"
    <3>1. loop' = "drain" /\ asking'.style = asking.style
      BY <1>1, <2>1 DEF gs_lock_plug_response, TypeOK, Messages
    <3>. QED
      BY <2>1, <3>1 DEF Proved
  <2>2. CASE loop # "prompt"
    <3>1. UNCHANGED <<loop, asking>>
      BY <1>1, <2>2 DEF gs_lock_plug_response
    <3>. QED
      BY <3>1 DEF Proved
  <2>. QED
    BY <2>1, <2>2
<1>. QED
  BY <1>2, <1>3, <1>4 DEF Proved, Threaded

\* An attempt that comes to a result in its favour was answered rightly.
LEMMA ProvedByVerdict ==
  ASSUME TypeOK, Attempts, Outcomes, "check" \in idles, NEW success \in BOOLEAN,
         Verdict(success), success => accepted',
         Threaded' /\ pam'.good /\ pam'.proved => accepted',
         pam'.verdict => pam'.good /\ pam'.proved
  PROVE  Proved'
<1>1. ~Granted
  BY DEF Outcomes
<1>2. Granted' => success
  BY <1>1, VerdictOutcome DEF Granted
<1>3. asking' = [style |-> "none", reply |-> "none"] /\ loop' = "outer"
  BY DEF Verdict
<1>. QED
  BY <1>2, <1>3 DEF Proved

LEMMA ProvedStep ==
  /\ TypeOK /\ Attempts /\ Turns /\ Outcomes /\ Proved /\ [Next]_vars
  => Proved'
<1>. SUFFICES ASSUME TypeOK, Attempts, Turns, Outcomes, Proved, [Next]_vars
              PROVE  Proved'
  OBVIOUS
<1>1. CASE PlugAction
  BY <1>1, PlugActionIs DEF Proved, plugless, Granted, Threaded
<1>2. CASE Response
  BY <1>2, ProvedByResponse
<1>3. CASE BootFails
  <2>1. /\ loop = "boot" /\ loop' = "exited" /\ UNCHANGED <<backend, said, asking, pam, accepted>>
    BY <1>3 DEF BootFails
  <2>. QED
    BY <2>1 DEF Proved, Outcomes, Threaded
<1>4. CASE popup_dialog_idle
  <2>1. /\ loop = "boot" /\ loop' = "outer" /\ idles' = {"check"}
        /\ UNCHANGED <<backend, answers, asking, pam, accepted>>
    BY <1>4 DEF popup_dialog_idle
  <2>2. ~Granted'
    BY <2>1, OkLines DEF Outcomes, Granted
  <2>. QED
    BY <2>1, <2>2 DEF Proved, Threaded
<1>5. CASE StartPam
  <2>1. "check" \in idles /\ ~Granted /\ pam = NoThread /\ loop = "outer"
    BY <1>5 DEF StartPam, OuterIdle, Turns, OneConversation, Outcomes
  <2>2. CASE Verdict(FALSE) /\ UNCHANGED <<quits, pam, queued, dead, plug>>
    <3>1. ~pam'.proved /\ ~pam'.verdict
      BY <2>1, <2>2 DEF NoThread
    <3>. QED
      BY <2>1, <2>2, <3>1, ProvedByVerdict
  <2>3. CASE /\ loop' = "auth"
             /\ pam' = [NoThread EXCEPT !.thread = "running"]
             /\ UNCHANGED <<backend, quits, queued, dead, asking, plug, timers,
                            resets, idles, failures, answers, said, input,
                            spurious, withdrawn, early>>
    <3>1. ~pam'.proved /\ ~pam'.verdict
      BY <2>3 DEF NoThread
    <3>2. ~Granted' /\ asking' = asking
      BY <2>1, <2>3 DEF Granted
    <3>. QED
      BY <2>3, <3>1, <3>2 DEF Proved
  <2>. QED
    BY <1>5, <2>2, <2>3 DEF StartPam
<1>6. CASE StartDirect
  <2>1. BeginMessage("prompt") /\ UNCHANGED <<backend, idles, answers, said, pam, accepted>>
    BY <1>6 DEF StartDirect
  <2>2. asking' = [style |-> "prompt", reply |-> "none"]
    BY <2>1 DEF BeginMessage
  <2>. QED
    BY <2>1, <2>2 DEF Proved, Granted, Threaded
<1>7. CASE FinishDirect
  <2>1. PICK success \in BOOLEAN :
             (success => asking.reply = "right") /\ Verdict(success)
    BY <1>7 DEF FinishDirect, Verified
  <2>2. /\ "check" \in idles /\ ~Threaded /\ accepted' = (asking.reply = "right")
        /\ UNCHANGED <<pam, backend>>
    BY <1>7, <2>1 DEF FinishDirect, Attempts, Verdict
  <2>3. ~pam'.proved /\ ~pam'.verdict
    <3>1. pam' = NoThread
      BY <2>2 DEF Turns
    <3>. QED
      BY <3>1 DEF NoThread
  <2>. QED
    BY <2>1, <2>2, <2>3, ProvedByVerdict
<1>8. CASE gs_auth_run_message_handler
  <2>1. UNCHANGED <<backend, loop, asking, idles, answers, said, accepted>>
    BY <1>8 DEF gs_auth_run_message_handler, PamThread
  <2>2. /\ pam'.good = pam.good /\ pam'.proved = pam.proved
        /\ pam'.verdict = pam.verdict
    BY <1>8 DEF gs_auth_run_message_handler, PamThread
  <2>. QED
    BY <2>1, <2>2 DEF Proved, Granted, Threaded
<1>9. CASE gs_auth_thread_func
  <2>1. UNCHANGED <<backend, loop, asking, idles, answers, said, accepted>>
    BY <1>9 DEF gs_auth_thread_func, PamThread
  <2>2. /\ pam'.good = pam.good /\ pam'.proved = pam.proved
        /\ pam'.verdict => pam.good /\ pam.proved
    BY <1>9, PamTypes DEF gs_auth_thread_func, PamThread, PamThreads
  <2>. QED
    BY <2>1, <2>2 DEF Proved, Granted, Threaded
<1>10. CASE gs_auth_queued_message_handler
  <2>1. /\ BeginMessage(queued)
        /\ UNCHANGED <<backend, idles, answers, said, pam, accepted>>
    BY <1>10 DEF gs_auth_queued_message_handler
  <2>2. /\ asking' = [style |-> queued, reply |-> "none"]
        /\ loop' = "prompt" => queued = "prompt"
    BY <2>1 DEF BeginMessage
  <2>. QED
    BY <2>1, <2>2 DEF Proved, Granted, Threaded
<1>11. CASE FinishMessage
  <2>1. /\ loop = "drain" /\ Threaded /\ loop' = "auth"
        /\ asking' = [style |-> "none", reply |-> "none"]
        /\ accepted' = IF asking.style = "prompt" THEN asking.reply = "right"
                       ELSE accepted
        /\ UNCHANGED <<backend, idles, answers, said>>
    BY <1>11 DEF FinishMessage
  <2>2. /\ pam'.good <=>
             pam.good /\ (asking.style = "prompt" => asking.reply = "right")
        /\ pam'.proved <=> pam.proved \/ asking.reply = "right"
        /\ pam'.verdict = pam.verdict
    BY <1>11, PamTypes DEF FinishMessage, PamThreads
  <2>3. ~pam.verdict
    BY <2>1 DEF Turns, OneConversation
  <2>4. ~Granted
    BY <2>1 DEF Attempts, Outcomes
  <2>. QED
    BY <2>1, <2>2, <2>3, <2>4 DEF Proved, Granted
<1>12. CASE gs_auth_loop_quit
  <2>1. UNCHANGED <<backend, loop, asking, idles, answers, said, accepted>>
    BY <1>12 DEF gs_auth_loop_quit
  <2>2. /\ pam'.good = pam.good /\ pam'.proved = pam.proved
        /\ pam'.verdict = pam.verdict
    BY <1>12 DEF gs_auth_loop_quit
  <2>. QED
    BY <2>1, <2>2 DEF Proved, Granted, Threaded
<1>13. CASE LeavePamLoop
  <2>1. "check" \in idles /\ Threaded
    BY <1>13 DEF LeavePamLoop, Attempts, Turns
  <2>2. CASE pam.done
    <3>1. /\ Verdict(pam.verdict) /\ pam.verdict \in BOOLEAN
          /\ pam' = NoThread /\ accepted' = accepted
      BY <1>13, <2>2, PamTypes DEF LeavePamLoop, PamThreads
    <3>2. pam.verdict => accepted'
      BY <2>1, <3>1 DEF Proved
    <3>3. ~pam'.proved /\ ~pam'.verdict
      BY <3>1 DEF NoThread
    <3>. QED
      BY <2>1, <3>1, <3>2, <3>3, ProvedByVerdict
  <2>3. CASE ~pam.done
    <3>1. /\ loop' = "exited"
          /\ UNCHANGED <<backend, pam, asking, idles, answers, said, accepted>>
      BY <1>13, <2>3 DEF LeavePamLoop
    <3>. QED
      BY <3>1 DEF Proved, Granted, Threaded
  <2>. QED
    BY <2>2, <2>3
<1>14. CASE quit_response_ok
  <2>1. /\ "ok" \in idles
        /\ UNCHANGED <<backend, loop, pam, asking, said, accepted>>
    BY <1>14 DEF quit_response_ok, OuterOnly
  <2>. QED
    BY <2>1 DEF Proved, Granted, Threaded
<1>15. CASE response_request_quit
  <2>1. /\ idles' = idles \ {"request"} /\ said' = said \cup {"REQUEST QUIT"}
        /\ UNCHANGED <<backend, loop, pam, asking, answers, accepted>>
    BY <1>15 DEF response_request_quit, OuterOnly
  <2>. QED
    BY <2>1 DEF Proved, Granted, Threaded
<1>16. CASE quit_timeout_cb \/ Exit \/ Terminated
  <2>1. /\ UNCHANGED <<backend, pam, asking, idles, answers, said, accepted>>
        /\ loop' \in {loop, "exited"}
    BY <1>16 DEF quit_timeout_cb, Exit, Terminated, OuterOnly
  <2>. QED
    BY <2>1 DEF Proved, Granted, Threaded
<1>17. CASE reset_idle_cb \/ UNCHANGED vars
  <2>1. UNCHANGED <<backend, loop, pam, asking, idles, answers, said, accepted>>
    BY <1>17 DEF reset_idle_cb, vars
  <2>. QED
    BY <2>1 DEF Proved, Granted, Threaded
<1>. QED
  BY <1>1, <1>2, <1>3, <1>4, <1>5, <1>6, <1>7, <1>8, <1>9, <1>10, <1>11, <1>12,
     <1>13, <1>14, <1>15, <1>16, <1>17
  DEF Next, User, Thread, Main, Timers, PlugAction, Response, Exited

\* The screen is unlocked only by a password: an "OK" that is written, or is
\* about to be, follows a prompt that was answered rightly.
THEOREM OnlyPasswordsUnlock == Spec => []OkIsProved
<1>. DEFINE IInv == TypeOK /\ Attempts /\ Turns /\ Outcomes /\ Proved
<1>1. Init => IInv
  BY TypeInit, TurnsInit, OutcomesInit, ProvedInit
<1>2. IInv /\ [Next]_vars => IInv'
  BY TypeStep, TurnsStep, OutcomesStep, ProvedStep
<1>3. IInv => OkIsProved
  BY DEF Proved, Granted, HasOk, OkIsProved
<1>. QED
  BY <1>1, <1>2, <1>3, PTL DEF Spec
-----------------------------------------------------------------------------
(***************************************************************************)
(* Keys on their way.                                                      *)
(***************************************************************************)
LEMMA TypedTwice ==
  ASSUME NEW a \in Text, NEW b \in Text, NEW c \in Text
  PROVE  Typed(Typed(a, b), c) = Typed(a, Typed(b, c))
  BY DEF Text, Typed

LEMMA TypedNothing ==
  ASSUME NEW a \in Text PROVE Typed(a, "") = a /\ Typed("", a) = a
  BY DEF Text, Typed

\* Forwarding types the keys that were kept, which is what had been meant.
LEMMA ForwardedKeys ==
  ASSUME NEW p \in Plugs
  PROVE  /\ WithPrompt(p).typed = Typed(p.typed, p.keys)
         /\ WithPrompt(p).keys = ""
  BY DEF Plugs, WithPrompt, WithForwarded, WithSensitive

LEMMA KeysToKeys ==
  ASSUME NEW p \in Plugs, NEW word \in Text, p.entry => p.keys = ""
  PROVE  /\ Typed(KeysTo(p, word).typed, KeysTo(p, word).keys)
              = Typed(Typed(p.typed, p.keys), word)
         /\ KeysTo(p, word).entry => KeysTo(p, word).keys = ""
<1>1. p.typed \in Text /\ p.keys \in Text
  BY DEF Plugs
<1>2. CASE p.entry
  <2>1. /\ KeysTo(p, word).typed = Typed(p.typed, word)
        /\ KeysTo(p, word).keys = "" /\ p.keys = ""
    BY <1>2 DEF Plugs, KeysTo
  <2>2. Typed(p.typed, word) \in Text
    BY <1>1, TypedType
  <2>. QED
    BY <1>1, <2>1, <2>2, TypedNothing
<1>3. CASE ~p.entry
  <2>1. /\ KeysTo(p, word).typed = p.typed /\ ~KeysTo(p, word).entry
        /\ KeysTo(p, word).keys = Typed(p.keys, word)
    BY <1>3 DEF Plugs, KeysTo
  <2>2. Typed(Typed(p.typed, p.keys), word) = Typed(p.typed, Typed(p.keys, word))
    BY <1>1, TypedTwice
  <2>. QED
    BY <2>1, <2>2, Zenon
<1>. QED
  BY <1>2, <1>3

LEMMA CountersType ==
  ASSUME TypeOK PROVE failures \in Nat /\ resets \in Nat
<1>1. failures \in 0..MaxFailures /\ resets \in 0..MaxFailures
  BY DEF TypeOK
<1>2. MaxFailures \in Nat
  BY FailuresAssumption
<1>. QED
  BY <1>1, <1>2

\* The steps that no key is concerned by.
LEMMA KeysUntouched ==
  ASSUME KeysKept, UNCHANGED <<plug, shown, queue, meant>>,
         loop' # "exited" => loop # "exited", failures' = 0 => failures = 0
  PROVE  KeysKept'
  BY DEF KeysKept

LEMMA KeysByVerdict ==
  ASSUME TypeOK, Attempts, KeysKept, "check" \in idles, loop # "exited",
         NEW success \in BOOLEAN, Verdict(success), UNCHANGED plug
  PROVE  KeysKept'
<1>1. UNCHANGED <<shown, queue, meant>>
  BY DEF Verdict, early
<1>2. failures' = 0 => failures = 0
  <2>1. failures \in Nat
    BY CountersType
  <2>2. failures' = failures \/ failures' = failures + 1
    BY VerdictOutcome
  <2>. QED
    BY <2>1, <2>2
<1>. QED
  BY <1>1, <1>2, KeysUntouched

LEMMA KeysByMessage ==
  ASSUME TypeOK, KeysKept, loop # "exited", NEW style \in Styles, BeginMessage(style),
         UNCHANGED <<failures, early>>
  PROVE  KeysKept'
<1>1. plug \in Plugs
  BY DEF TypeOK
<1>2. CASE style = "prompt"
  <2>1. plug' = WithPrompt(plug) /\ plug'.typed \in Text /\ plug'.keys = ""
    BY <1>1, <1>2, ForwardedKeys, TypedType DEF BeginMessage, Plugs
  <2>2. Typed(plug'.typed, plug'.keys) = Typed(plug.typed, plug.keys)
    BY <1>1, <2>1, ForwardedKeys, TypedNothing
  <2>. QED
    BY <2>1, <2>2 DEF KeysKept, early
<1>3. CASE style # "prompt"
  <2>1. plug' = plug
    BY <1>3 DEF BeginMessage
  <2>. QED
    BY <2>1, KeysUntouched DEF early
<1>. QED
  BY <1>2, <1>3

LEMMA KeysByPlug ==
  ASSUME TypeOK, KeysKept, PlugAction PROVE KeysKept'
<1>. SUFFICES ASSUME loop' # "exited", failures' = 0, meant' # "void"
              PROVE  /\ meant' = Typed(Typed(plug'.typed, plug'.keys), queue'.keys)
                     /\ shown' => queue'.keys = ""
                     /\ plug'.entry => plug'.keys = ""
  BY DEF KeysKept
<1>1. loop # "exited" /\ failures = 0
  BY PlugActionIs DEF plugless
<1>2. /\ plug \in Plugs /\ queue \in Queues /\ queue.keys \in Text
      /\ plug.typed \in Text /\ plug.keys \in Text /\ "" \in Text
      /\ Typed(plug.typed, plug.keys) \in Text
  <2>1. plug \in Plugs /\ queue \in Queues
    BY DEF TypeOK
  <2>2. queue.keys \in Text /\ plug.typed \in Text /\ plug.keys \in Text /\ "" \in Text
    BY <2>1 DEF Plugs, Queues, Text
  <2>. QED
    BY <2>1, <2>2, TypedType
<1>3. meant # "void" =>
        /\ meant = Typed(Typed(plug.typed, plug.keys), queue.keys)
        /\ shown => queue.keys = ""
        /\ plug.entry => plug.keys = ""
  BY <1>1 DEF KeysKept
<1>4. CASE queue_key_event
  <2>1. plug' = plug /\ ~shown /\ ~shown'
    BY <1>4 DEF queue_key_event
  <2>2. CASE \E word \in Text \ {""} :
               /\ queue' = [queue EXCEPT !.keys = Typed(@, word)]
               /\ meant' = Void(Typed(meant, word))
    <3>1. PICK word \in Text :
               /\ queue' = [queue EXCEPT !.keys = Typed(@, word)]
               /\ meant' = Void(Typed(meant, word))
      BY <2>2
    <3>2. queue'.keys = Typed(queue.keys, word)
      BY <1>2, <3>1 DEF Queues
    <3>3. meant # "void" /\ meant' = Typed(meant, word)
      BY <3>1 DEF Void
    <3>4. Typed(Typed(Typed(plug.typed, plug.keys), queue.keys), word)
            = Typed(Typed(plug.typed, plug.keys), Typed(queue.keys, word))
      BY <1>2, TypedTwice, Zenon
    <3>5. meant' = Typed(Typed(plug'.typed, plug'.keys), queue'.keys)
      BY <1>3, <2>1, <3>2, <3>3, <3>4, Zenon
    <3>6. plug'.entry => plug'.keys = ""
      BY <1>3, <2>1, <3>3
    <3>. QED
      BY <2>1, <3>5, <3>6
  <2>3. CASE queue' = [queue EXCEPT !.enter = queue.keys # ""] /\ UNCHANGED meant
    <3>1. queue'.keys = queue.keys
      BY <1>2, <2>3 DEF Queues
    <3>. QED
      BY <1>3, <2>1, <2>3, <3>1
  <2>. QED
    BY <1>4, <2>2, <2>3 DEF queue_key_event
<1>5. CASE entry_key_press
  <2>1. PICK word \in Text :
             plug' = KeysTo(plug, word) /\ meant' = Void(Typed(meant, word))
    BY <1>5 DEF entry_key_press
  <2>2. UNCHANGED <<shown, queue>> /\ shown
    BY <1>5 DEF entry_key_press, UserActs
  <2>3. meant # "void" /\ meant' = Typed(meant, word)
    BY <2>1 DEF Void
  <2>4. queue.keys = "" /\ meant = Typed(plug.typed, plug.keys)
    BY <1>2, <1>3, <2>2, <2>3, TypedNothing
  <2>5. /\ Typed(plug'.typed, plug'.keys) = meant'
        /\ plug'.entry => plug'.keys = ""
    BY <1>2, <1>3, <2>1, <2>3, <2>4, KeysToKeys
  <2>6. meant' \in Text
    BY <1>2, <2>1, <2>3, <2>4, TypedType
  <2>. QED
    BY <2>2, <2>4, <2>5, <2>6, TypedNothing
<1>6. CASE prompt_entry_activate
  <2>1. plug' = ReturnTo(plug) /\ UNCHANGED <<shown, queue, meant>>
    BY <1>6 DEF prompt_entry_activate, early
  <2>2. plug'.typed = plug.typed /\ plug'.keys = plug.keys /\ plug'.entry = plug.entry
    BY <1>2, <2>1 DEF Plugs, ReturnTo
  <2>. QED
    BY <1>3, <2>1, <2>2
<1>7. CASE switch_user_button_clicked \/ dialog_timed_out
  <2>1. plug' = WithSensitive(plug, FALSE) /\ UNCHANGED <<shown, queue, meant>>
    BY <1>7 DEF switch_user_button_clicked, dialog_timed_out, early
  <2>2. plug'.typed = plug.typed /\ plug'.keys = plug.keys /\ ~plug'.entry
    BY <1>2, <2>1 DEF Plugs, WithSensitive
  <2>. QED
    BY <1>3, <2>1, <2>2
<1>8. CASE lock_socket_show
  <2>1. /\ queue' = [keys |-> "", enter |-> FALSE] /\ meant' = meant
        /\ plug' = IF queue.enter THEN ReturnTo(KeysTo(plug, queue.keys))
                   ELSE KeysTo(plug, queue.keys)
    BY <1>8 DEF lock_socket_show
  <2>2. /\ Typed(KeysTo(plug, queue.keys).typed, KeysTo(plug, queue.keys).keys) = meant
        /\ KeysTo(plug, queue.keys).entry => KeysTo(plug, queue.keys).keys = ""
    BY <1>2, <1>3, <2>1, KeysToKeys
  <2>3. /\ plug'.typed = KeysTo(plug, queue.keys).typed
        /\ plug'.keys = KeysTo(plug, queue.keys).keys
        /\ plug'.entry = KeysTo(plug, queue.keys).entry
    BY <1>2, <2>1, KeysType DEF Plugs, ReturnTo
  <2>4. meant \in Text /\ queue'.keys = ""
    BY <1>2, <1>3, <2>1, TypedType
  <2>5. Typed(Typed(plug'.typed, plug'.keys), queue'.keys) = Typed(meant, "")
    BY <2>2, <2>3, <2>4, Zenon
  <2>. QED
    BY <2>1, <2>2, <2>3, <2>4, <2>5, TypedNothing
<1>. QED
  BY <1>4, <1>5, <1>6, <1>7, <1>8 DEF PlugAction

LEMMA KeysInit == Init => KeysKept
<1>. SUFFICES ASSUME Init PROVE KeysKept
  OBVIOUS
<1>1. plug.typed = "" /\ plug.keys = "" /\ queue.keys = "" /\ meant = ""
  BY DEF Init
<1>. QED
  BY <1>1 DEF KeysKept, Typed

LEMMA KeysStep ==
  TypeOK /\ Attempts /\ KeysKept /\ [Next]_vars => KeysKept'
<1>. SUFFICES ASSUME TypeOK, Attempts, KeysKept, [Next]_vars PROVE KeysKept'
  OBVIOUS
<1>1. CASE PlugAction
  BY <1>1, KeysByPlug
<1>2. CASE Response
  <2>1. meant' = "void"
    BY <1>2, ResponseIs DEF gs_lock_plug_response
  <2>. QED
    BY <2>1 DEF KeysKept
<1>3. CASE BootFails \/ Exit \/ Terminated
  <2>1. loop' = "exited"
    BY <1>3 DEF BootFails, Exit, Terminated
  <2>. QED
    BY <2>1 DEF KeysKept
<1>4. CASE popup_dialog_idle
  BY <1>4, KeysUntouched DEF popup_dialog_idle, early
<1>5. CASE StartPam
  <2>1. "check" \in idles /\ loop # "exited"
    BY <1>5 DEF StartPam, OuterIdle
  <2>2. CASE Verdict(FALSE) /\ UNCHANGED <<quits, pam, queued, dead, plug>>
    BY <2>1, <2>2, KeysByVerdict
  <2>3. CASE UNCHANGED <<backend, quits, queued, dead, asking, plug, timers,
                         resets, idles, failures, answers, said, input,
                         spurious, withdrawn, early>>
    BY <2>1, <2>3, KeysUntouched DEF early
  <2>. QED
    BY <1>5, <2>2, <2>3 DEF StartPam
<1>6. CASE StartDirect
  <2>1. /\ BeginMessage("prompt") /\ "prompt" \in Styles /\ loop # "exited"
        /\ UNCHANGED <<failures, early>>
    BY <1>6 DEF StartDirect, Styles, OuterIdle
  <2>. QED
    BY <2>1, KeysByMessage
<1>7. CASE FinishDirect
  <2>1. PICK success \in BOOLEAN : Verdict(success)
    BY <1>7 DEF FinishDirect
  <2>2. "check" \in idles /\ loop # "exited" /\ UNCHANGED plug
    BY <1>7 DEF FinishDirect, Attempts
  <2>. QED
    BY <2>1, <2>2, KeysByVerdict
<1>8. CASE Thread \/ FinishMessage \/ gs_auth_loop_quit
  <2>1. UNCHANGED <<plug, shown, queue, meant, failures>> /\ loop # "exited"
    BY <1>8 DEF Thread, gs_auth_run_message_handler, gs_auth_thread_func, PamThread,
                FinishMessage, gs_auth_loop_quit, early
  <2>. QED
    BY <2>1, KeysUntouched
<1>9. CASE gs_auth_queued_message_handler
  <2>1. /\ BeginMessage(queued) /\ queued \in Styles /\ loop # "exited"
        /\ UNCHANGED <<failures, early>>
    BY <1>9 DEF gs_auth_queued_message_handler, AuthIdle, TypeOK
  <2>. QED
    BY <2>1, KeysByMessage
<1>10. CASE LeavePamLoop
  <2>1. "check" \in idles /\ loop # "exited"
    BY <1>10 DEF LeavePamLoop, Attempts
  <2>2. CASE pam.done
    <3>1. Verdict(pam.verdict) /\ pam.verdict \in BOOLEAN /\ UNCHANGED plug
      BY <1>10, <2>2, PamTypes DEF LeavePamLoop, PamThreads
    <3>. QED
      BY <2>1, <3>1, KeysByVerdict
  <2>3. CASE ~pam.done
    <3>1. loop' = "exited"
      BY <1>10, <2>3 DEF LeavePamLoop
    <3>. QED
      BY <3>1 DEF KeysKept
  <2>. QED
    BY <2>2, <2>3
<1>11. CASE quit_response_ok \/ response_request_quit \/ quit_timeout_cb
  <2>1. UNCHANGED <<plug, shown, queue, meant, failures, loop>>
    BY <1>11 DEF quit_response_ok, response_request_quit, quit_timeout_cb, OuterOnly, early
  <2>. QED
    BY <2>1, KeysUntouched
<1>12. CASE reset_idle_cb
  <2>1. resets > 0 /\ resets \in Nat /\ resets <= failures /\ failures \in Nat
    <3>1. resets \in Nat /\ failures \in Nat
      BY CountersType
    <3>. QED
      BY <1>12, <3>1 DEF reset_idle_cb, Attempts
  <2>2. failures # 0
    BY <2>1
  <2>3. failures' = failures
    BY <1>12 DEF reset_idle_cb
  <2>. QED
    BY <2>2, <2>3 DEF KeysKept
<1>13. CASE UNCHANGED vars
  <2>1. UNCHANGED <<plug, shown, queue, meant, failures, loop>>
    BY <1>13 DEF vars, early
  <2>. QED
    BY <2>1, KeysUntouched
<1>. QED
  BY <1>1, <1>2, <1>3, <1>4, <1>5, <1>6, <1>7, <1>8, <1>9, <1>10, <1>11, <1>12, <1>13
  DEF Next, User, Main, Timers, PlugAction, Response, Exited

\* Whatever is typed ahead, before there is a plug or before its entry is ready,
\* is what the user finds in the entry of the first prompt.
THEOREM TypedAheadArrives == Spec => []KeysArrive
<1>. DEFINE IInv == TypeOK /\ Attempts /\ KeysKept
<1>1. Init => IInv
  BY TypeInit, KeysInit
<1>2. IInv /\ [Next]_vars => IInv'
  BY TypeStep, KeysStep
<1>3. IInv => KeysArrive
  <2>. SUFFICES ASSUME IInv, Alive, failures = 0, meant # "void"
                PROVE  /\ meant = Typed(Typed(plug.typed, plug.keys), queue.keys)
                       /\ shown => queue.keys = ""
                       /\ loop = "prompt" /\ shown /\ plug.entry => plug.typed = meant
    BY DEF KeysArrive
  <2>1. /\ meant = Typed(Typed(plug.typed, plug.keys), queue.keys)
        /\ shown => queue.keys = ""
        /\ plug.entry => plug.keys = ""
    BY DEF KeysKept, Alive
  <2>2. plug.typed \in Text
    BY DEF TypeOK, Plugs
  <2>. QED
    BY <2>1, <2>2, TypedNothing
<1>. QED
  BY <1>1, <1>2, <1>3, PTL DEF Spec
-----------------------------------------------------------------------------
(***************************************************************************)
(* What the window may rely on: LockDialog implements DialogSpeech.        *)
(***************************************************************************)
LEMMA QuitIs ==
  ASSUME TypeOK
  PROVE  /\ ~InPamLoop => gtk_main_quit.main /\ gtk_main_quit.pam = quits.pam
         /\ InPamLoop =>
              /\ gtk_main_quit.main = quits.main
              /\ quits.pam # "no" => gtk_main_quit.pam = quits.pam
              /\ quits.pam = "no" =>
                   gtk_main_quit.pam = IF pam.thread = "closed" THEN "race" ELSE "cut"
<1>1. quits \in Quits
  BY DEF TypeOK
<1>2. CASE InPamLoop
  BY <1>1, <1>2 DEF gtk_main_quit, Quits
<1>3. CASE ~InPamLoop
  BY <1>1, <1>3 DEF gtk_main_quit, Quits
<1>. QED
  BY <1>2, <1>3

\* What any quit keeps of Withdrawing.
LEMMA QuitWithdraws ==
  ASSUME TypeOK, Turns, Withdrawing, loop # "exited"
  PROVE  /\ gtk_main_quit.pam = "race" => pam.thread = "closed"
         /\ withdrawn \/ pam.thread # "closed" =>
              \/ gtk_main_quit.main
              \/ InPamLoop /\ gtk_main_quit.pam = "cut" /\ ~pam.done
<1>1. quits.pam \in {"no", "cut", "race"} /\ (pam.done => pam.thread = "closed")
  BY DEF TypeOK, Quits, Turns
<1>2. CASE InPamLoop
  BY <1>1, <1>2, QuitIs DEF Withdrawing
<1>3. CASE ~InPamLoop
  BY <1>1, <1>3, QuitIs DEF Withdrawing
<1>. QED
  BY <1>2, <1>3

LEMMA WithdrawingByResponse ==
  ASSUME TypeOK, Turns, Withdrawing, Response PROVE Withdrawing'
<1>1. PICK cancel \in BOOLEAN : gs_lock_plug_response(cancel)
  BY ResponseIs
<1>2. UNCHANGED <<backend, pam>> /\ loop # "exited"
  BY ResponseIs DEF ByResponse, Alive
<1>3. loop' # loop => loop = "prompt" /\ loop' = "drain"
  BY <1>1 DEF gs_lock_plug_response
<1>4. InPamLoop' = InPamLoop /\ loop' # "exited"
  BY <1>2, <1>3 DEF InPamLoop, Threaded
<1>5. CASE cancel
  <2>1. quits' = gtk_main_quit /\ withdrawn' = (withdrawn \/ ~Decided)
    BY <1>1, <1>5 DEF gs_lock_plug_response
  <2>2. ~Decided => pam.thread # "closed"
    BY DEF Decided
  <2>. QED
    BY <1>2, <1>4, <2>1, <2>2, QuitWithdraws DEF Withdrawing
<1>6. CASE ~cancel
  <2>1. UNCHANGED <<quits, withdrawn>>
    BY <1>1, <1>6 DEF gs_lock_plug_response
  <2>. QED
    BY <1>2, <1>4, <2>1 DEF Withdrawing
<1>. QED
  BY <1>5, <1>6

LEMMA WithdrawingInit == Init => Withdrawing
<1>1. Init => ~withdrawn /\ quits = [main |-> FALSE, pam |-> "no"]
  BY DEF Init
<1>. QED
  BY <1>1 DEF Withdrawing

LEMMA WithdrawingStep ==
  TypeOK /\ Turns /\ Outcomes /\ Withdrawing /\ [Next]_vars => Withdrawing'
<1>. SUFFICES ASSUME TypeOK, Turns, Outcomes, Withdrawing, [Next]_vars
              PROVE  Withdrawing'
  OBVIOUS
<1>0. loop \in {"boot", "outer"} => pam = NoThread /\ quits.pam # "race"
  BY DEF Turns, OneConversation, NoThread, Withdrawing
<1>1. CASE PlugAction
  BY <1>1, PlugActionIs DEF plugless, Withdrawing, InPamLoop, Threaded
<1>2. CASE Response
  BY <1>2, WithdrawingByResponse
<1>3. CASE BootFails \/ Exit \/ Terminated
  <2>1. loop' = "exited" /\ UNCHANGED <<quits, pam>>
    BY <1>3 DEF BootFails, Exit, Terminated, OuterOnly
  <2>. QED
    BY <2>1 DEF Withdrawing
<1>4. CASE popup_dialog_idle
  <2>1. loop = "boot" /\ UNCHANGED <<quits, pam, withdrawn>>
    BY <1>4 DEF popup_dialog_idle
  <2>. QED
    BY <2>1 DEF Withdrawing, Outcomes
<1>5. CASE StartPam \/ StartDirect
  <2>1. /\ loop = "outer" /\ ~quits.main /\ UNCHANGED <<quits, withdrawn>>
    BY <1>5 DEF StartPam, StartDirect, OuterIdle, Verdict
  <2>2. ~withdrawn
    BY <2>1 DEF Withdrawing, InPamLoop
  <2>. QED
    BY <1>0, <2>1, <2>2 DEF Withdrawing
<1>6. CASE FinishDirect
  <2>1. /\ loop = "drain" /\ ~Threaded /\ loop' = "outer"
        /\ UNCHANGED <<quits, pam, withdrawn>>
    BY <1>6 DEF FinishDirect, Verdict
  <2>. QED
    BY <2>1 DEF Withdrawing, InPamLoop
<1>7. CASE Thread
  <2>1. /\ UNCHANGED <<backend, loop, quits, withdrawn>> /\ pam.thread = "running"
    BY <1>7 DEF Thread, gs_auth_run_message_handler, gs_auth_thread_func, PamThread
  <2>2. pam'.done = pam.done
    <3>1. CASE gs_auth_run_message_handler
      BY <3>1 DEF gs_auth_run_message_handler, PamThread
    <3>2. CASE gs_auth_thread_func
      BY <3>2 DEF gs_auth_thread_func, PamThread
    <3>. QED
      BY <1>7, <3>1, <3>2 DEF Thread
  <2>. QED
    BY <2>1, <2>2 DEF Withdrawing, InPamLoop, Threaded
<1>8. CASE gs_auth_queued_message_handler
  <2>1. /\ loop = "auth" /\ loop' \in {"prompt", "drain"}
        /\ UNCHANGED <<backend, quits, pam, withdrawn>>
    BY <1>8 DEF gs_auth_queued_message_handler, BeginMessage, AuthIdle
  <2>. QED
    BY <2>1 DEF Withdrawing, InPamLoop, Threaded
<1>9. CASE FinishMessage
  <2>1. /\ loop = "drain" /\ loop' = "auth" /\ Threaded
        /\ UNCHANGED <<backend, quits, withdrawn>>
    BY <1>9 DEF FinishMessage
  <2>2. pam'.done = pam.done /\ pam.thread = "waiting"
    BY <1>9, <2>1 DEF FinishMessage, Turns, OneConversation
  <2>. QED
    BY <2>1, <2>2 DEF Withdrawing, InPamLoop, Threaded
<1>10. CASE gs_auth_loop_quit
  <2>1. /\ loop = "auth" /\ pam.thread = "closed" /\ quits.pam \in {"no", "race"}
        /\ UNCHANGED <<backend, loop, quits, withdrawn>>
    BY <1>10 DEF gs_auth_loop_quit
  <2>2. pam'.thread = pam.thread
    BY <1>10 DEF gs_auth_loop_quit
  <2>. QED
    BY <2>1, <2>2 DEF Withdrawing
<1>11. CASE LeavePamLoop
  <2>1. CASE pam.done
    <3>1. /\ loop = "auth" /\ quits' = [quits EXCEPT !.pam = "no"]
          /\ withdrawn' = withdrawn /\ quits \in Quits
      BY <1>11, <2>1 DEF LeavePamLoop, Verdict, TypeOK
    <3>2. quits'.pam = "no" /\ quits'.main = quits.main
      BY <3>1 DEF Quits
    <3>. QED
      BY <2>1, <3>1, <3>2 DEF Withdrawing
  <2>2. CASE ~pam.done
    <3>1. loop' = "exited" /\ UNCHANGED <<quits, pam>>
      BY <1>11, <2>2 DEF LeavePamLoop
    <3>. QED
      BY <3>1 DEF Withdrawing
  <2>. QED
    BY <2>1, <2>2
<1>12. CASE quit_response_ok \/ quit_timeout_cb
  <2>1. /\ quits' = gtk_main_quit /\ UNCHANGED <<backend, loop, pam, withdrawn>>
        /\ loop # "exited"
    BY <1>12 DEF quit_response_ok, quit_timeout_cb, OuterOnly, OuterIdle, Alive
  <2>2. InPamLoop' = InPamLoop
    BY <2>1 DEF InPamLoop, Threaded
  <2>. QED
    BY <2>1, <2>2, QuitWithdraws DEF Withdrawing
<1>13. CASE response_request_quit \/ reset_idle_cb \/ UNCHANGED vars
  <2>1. UNCHANGED <<backend, loop, pam, quits, withdrawn>>
    BY <1>13 DEF response_request_quit, OuterOnly, reset_idle_cb, vars
  <2>. QED
    BY <2>1 DEF Withdrawing, InPamLoop, Threaded
<1>. QED
  BY <1>1, <1>2, <1>3, <1>4, <1>5, <1>6, <1>7, <1>8, <1>9, <1>10, <1>11, <1>12, <1>13
  DEF Next, User, Main, Timers, PlugAction, Response, Exited

\* The steps of DialogSpeech in the terms of the dialog.
Over == loop = "exited"
Quitting == "REQUEST QUIT" \in said

LEMMA SameTruth ==
  ASSUME NEW word, NEW lines, NEW more, word \in lines <=> word \in more
  PROVE  (word \in lines) = (word \in more)
  OBVIOUS

LEMMA QuittingStays ==
  ASSUME Quitting' <=> Quitting
  PROVE  ("REQUEST QUIT" \in said)' = ("REQUEST QUIT" \in said)
<1>1. "REQUEST QUIT" \in said' <=> "REQUEST QUIT" \in said
  BY DEF Quitting
<1>. QED
  BY <1>1, SameTruth, Zenon

LEMMA OkStays ==
  ASSUME HasOk(answers') <=> HasOk(answers)
  PROVE  (\E i \in DOMAIN answers : answers[i] = "OK")'
           = (\E i \in DOMAIN answers : answers[i] = "OK")
  BY DEF HasOk

LEMMA EndStays ==
  ASSUME Over' <=> Over PROVE (loop = "exited")' = (loop = "exited")
  BY DEF Over

LEMMA SpeechStutters ==
  ASSUME UNCHANGED <<failures, withdrawn>>, Quitting' <=> Quitting, Over' <=> Over,
         HasOk(answers') <=> HasOk(answers)
  PROVE  UNCHANGED Speech!vars
  BY QuittingStays, OkStays, EndStays, Zenon DEF Speech!vars

LEMMA SpeechEnds ==
  ASSUME UNCHANGED <<failures, withdrawn>>, Quitting' <=> Quitting, ~Over, Over',
         HasOk(answers') <=> HasOk(answers)
  PROVE  Speech!Next
<1>1. ~(loop = "exited") /\ (loop = "exited")' = TRUE
  BY DEF Over
<1>. QED
  BY <1>1, QuittingStays, OkStays, Zenon DEF Speech!Next, Speech!End

LEMMA SpeechByVerdict ==
  ASSUME TypeOK, Attempts, Outcomes, "check" \in idles, loop # "exited",
         NEW success \in BOOLEAN, Verdict(success)
  PROVE  Speech!Next \/ UNCHANGED Speech!vars
<1>1. ~HasOk(answers) /\ ~Quitting
  BY DEF Outcomes, Granted, Asked, Quitting
<1>2. /\ UNCHANGED <<answers, said, withdrawn>> /\ loop' = "outer"
  BY VerdictOutcome
<1>3. /\ HasOk(answers') <=> HasOk(answers)
      /\ Quitting' <=> Quitting
      /\ Over' <=> Over
      /\ ~Over
  BY <1>2 DEF HasOk, Quitting, Over
<1>4. CASE success
  BY <1>2, <1>3, <1>4, VerdictOutcome, SpeechStutters
<1>5. CASE ~success
  <2>1. failures < MaxFailures /\ failures' = failures + 1
    BY <1>5, VerdictOutcome
  <2>2. Speech!Notice
    BY <1>1, <1>2, <1>3, <2>1 DEF Speech!Notice, HasOk, Quitting, Over
  <2>. QED
    BY <2>2 DEF Speech!Next
<1>. QED
  BY <1>4, <1>5

LEMMA OverStays ==
  ASSUME [Next]_vars, loop = "exited" PROVE loop' = "exited"
<1>1. CASE PlugAction
  BY <1>1, PlugActionIs DEF plugless
<1>2. CASE Response
  BY <1>2, ResponseIs DEF Alive
<1>3. CASE Thread \/ Main
  BY <1>3 DEF Thread, gs_auth_run_message_handler, gs_auth_thread_func, PamThread,
              Main, BootFails, popup_dialog_idle, StartPam, StartDirect, FinishDirect,
              gs_auth_queued_message_handler, AuthIdle, FinishMessage,
              gs_auth_loop_quit, LeavePamLoop, quit_response_ok,
              response_request_quit, Exit, OuterIdle
<1>4. CASE Terminated \/ quit_timeout_cb \/ reset_idle_cb \/ UNCHANGED vars
  BY <1>4 DEF Terminated, quit_timeout_cb, reset_idle_cb, Alive, vars
<1>. QED
  BY <1>1, <1>2, <1>3, <1>4 DEF Next, User, Timers, PlugAction, Response, Exited

\* A step that changes neither lines nor failures is the end or none at all.
LEMMA SpeechSilent ==
  ASSUME [Next]_vars, UNCHANGED <<failures, withdrawn>>, Quitting' <=> Quitting,
         HasOk(answers') <=> HasOk(answers)
  PROVE  Speech!Next \/ UNCHANGED Speech!vars
<1>1. Over => Over'
  BY OverStays DEF Over
<1>2. CASE Over' <=> Over
  BY <1>2, SpeechStutters
<1>3. CASE ~(Over' <=> Over)
  BY <1>1, <1>3, SpeechEnds
<1>. QED
  BY <1>2, <1>3

LEMMA SpeechByResponse ==
  ASSUME TypeOK, Attempts, [Next]_vars, Response PROVE Speech!Next \/ UNCHANGED Speech!vars
<1>1. PICK cancel \in BOOLEAN : gs_lock_plug_response(cancel)
  BY ResponseIs
<1>2. /\ failures' = failures /\ (Quitting' <=> Quitting)
      /\ HasOk(answers') <=> HasOk(answers)
  BY ResponseOutcome DEF Quitting
<1>3. CASE withdrawn' = withdrawn
  BY <1>2, <1>3, SpeechSilent
<1>4. CASE withdrawn' # withdrawn
  <2>1. ~withdrawn /\ withdrawn'
    BY <1>1, <1>4 DEF gs_lock_plug_response, TypeOK
  <2>2. ~Over /\ ~Over'
    BY <1>1, ResponseIs DEF Over, Alive, gs_lock_plug_response
  <2>3. Speech!Withdraw
    <3>1. ~(loop = "exited") /\ ((loop = "exited")' = (loop = "exited"))
      BY <2>2 DEF Over
    <3>2. withdrawn' = TRUE
      BY <2>1, ResponseTypes DEF TypeOK
    <3>. QED
      BY <1>2, <2>1, <3>1, <3>2, QuittingStays, OkStays, Zenon DEF Speech!Withdraw
  <2>. QED
    BY <2>3 DEF Speech!Next
<1>. QED
  BY <1>3, <1>4

LEMMA SpeechStep ==
  TypeOK /\ Attempts /\ Outcomes /\ Withdrawing /\ [Next]_vars
    => Speech!Next \/ UNCHANGED Speech!vars
<1>. SUFFICES ASSUME TypeOK, Attempts, Outcomes, Withdrawing, [Next]_vars
              PROVE  Speech!Next \/ UNCHANGED Speech!vars
  OBVIOUS
<1>1. CASE Neutral
  <2>1. UNCHANGED <<failures, answers, said, withdrawn>>
    BY <1>1, NeutralIs
  <2>2. /\ HasOk(answers') <=> HasOk(answers)
        /\ Quitting' <=> Quitting
    BY <2>1, Zenon DEF HasOk, Quitting
  <2>. QED
    BY <2>1, <2>2, SpeechSilent
<1>2. CASE Response
  BY <1>2, SpeechByResponse
<1>3. CASE BootFails
  <2>1. /\ loop = "boot" /\ loop' = "exited" /\ UNCHANGED <<failures, said, withdrawn>>
        /\ answers' = <<"OK">> \/ answers' = answers
    BY <1>3 DEF BootFails
  <2>2. ~withdrawn /\ answers = <<>> /\ failures = 0
    BY <2>1 DEF Outcomes, Attempts
  <2>3. (Quitting' <=> Quitting) /\ ~Over /\ Over'
    BY <2>1 DEF Quitting, Over
  <2>4. CASE answers' = answers
    <3>1. HasOk(answers') <=> HasOk(answers)
      BY <2>4, Zenon
    <3>. QED
      BY <2>1, <2>3, <3>1, SpeechSilent
  <2>5. CASE answers' = <<"OK">>
    <3>1. ~HasOk(answers)
      BY <2>2, OkLines, Zenon
    <3>2. HasOk(answers')
      BY <2>5 DEF HasOk
    <3>3. Speech!GrantAndEnd
      BY <2>1, <2>2, <2>3, <3>1, <3>2, Zenon
      DEF Speech!GrantAndEnd, HasOk, Quitting, Over
    <3>. QED
      BY <3>3 DEF Speech!Next
  <2>. QED
    BY <2>1, <2>4, <2>5
<1>4. CASE popup_dialog_idle
  <2>1. /\ loop = "boot" /\ UNCHANGED <<failures, answers, withdrawn>>
        /\ said' = {"ID"}
    BY <1>4 DEF popup_dialog_idle
  <2>2. Quitting' <=> Quitting
    BY <2>1 DEF Quitting, Outcomes
  <2>3. HasOk(answers') <=> HasOk(answers)
    BY <2>1, Zenon
  <2>. QED
    BY <2>1, <2>2, <2>3, SpeechSilent
<1>5. CASE StartPam
  <2>1. "check" \in idles /\ loop # "exited"
    BY <1>5 DEF StartPam, OuterIdle
  <2>2. CASE Verdict(FALSE)
    BY <2>1, <2>2, SpeechByVerdict
  <2>3. CASE ~Verdict(FALSE)
    <3>1. UNCHANGED <<failures, answers, said, withdrawn>>
      BY <1>5, <2>3 DEF StartPam
    <3>2. /\ HasOk(answers') <=> HasOk(answers)
          /\ Quitting' <=> Quitting
      BY <3>1, Zenon DEF HasOk, Quitting
    <3>. QED
      BY <3>1, <3>2, SpeechSilent
  <2>. QED
    BY <2>2, <2>3
<1>6. CASE FinishDirect
  <2>1. PICK success \in BOOLEAN : Verdict(success)
    BY <1>6 DEF FinishDirect
  <2>2. "check" \in idles /\ loop # "exited"
    BY <1>6 DEF FinishDirect, Attempts
  <2>. QED
    BY <2>1, <2>2, SpeechByVerdict
<1>7. CASE LeavePamLoop
  <2>1. "check" \in idles /\ loop # "exited"
    BY <1>7 DEF LeavePamLoop, Attempts
  <2>2. CASE pam.done
    <3>1. Verdict(pam.verdict) /\ pam.verdict \in BOOLEAN
      BY <1>7, <2>2, PamTypes DEF LeavePamLoop, PamThreads
    <3>. QED
      BY <2>1, <3>1, SpeechByVerdict
  <2>3. CASE ~pam.done
    <3>1. UNCHANGED <<failures, answers, said, withdrawn>>
      BY <1>7, <2>3 DEF LeavePamLoop
    <3>2. /\ HasOk(answers') <=> HasOk(answers)
          /\ Quitting' <=> Quitting
      BY <3>1, Zenon DEF HasOk, Quitting
    <3>. QED
      BY <3>1, <3>2, SpeechSilent
  <2>. QED
    BY <2>2, <2>3
<1>8. CASE quit_response_ok
  <2>1. /\ "ok" \in idles /\ loop = "outer" /\ ~quits.main
        /\ answers' = Append(answers, "OK")
        /\ UNCHANGED <<failures, said, withdrawn, loop>>
    BY <1>8 DEF quit_response_ok, OuterOnly, OuterIdle
  <2>2. ~HasOk(answers) /\ failures < MaxFailures
    BY <2>1 DEF Outcomes, Granted
  <2>3. HasOk(answers')
    <3>1. answers \in Answers
      BY DEF TypeOK
    <3>. QED
      BY <2>1, <3>1, OkLines
  <2>4. ~withdrawn
    BY <2>1 DEF Withdrawing, InPamLoop
  <2>5. (Quitting' <=> Quitting) /\ ~Over /\ ~Over'
    BY <2>1 DEF Quitting, Over
  <2>6. Speech!Grant
    BY <2>1, <2>2, <2>3, <2>4, <2>5, Zenon
    DEF Speech!Grant, HasOk, Quitting, Over
  <2>. QED
    BY <2>6 DEF Speech!Next
<1>9. CASE response_request_quit
  <2>1. /\ "request" \in idles /\ loop = "outer"
        /\ said' = said \cup {"REQUEST QUIT"}
        /\ UNCHANGED <<failures, answers, withdrawn, loop>>
    BY <1>9 DEF response_request_quit, OuterOnly, OuterIdle
  <2>2. ~HasOk(answers) /\ failures = MaxFailures
    <3>1. failures = MaxFailures /\ ~(failures < MaxFailures)
      <4>1. failures = MaxFailures
        BY <2>1 DEF Outcomes, Asked
      <4>. QED
        BY <4>1, FailuresAssumption
    <3>. QED
      BY <3>1 DEF Outcomes, Granted
  <2>3. (HasOk(answers') <=> HasOk(answers)) /\ Quitting' /\ ~Over /\ ~Over'
    BY <2>1 DEF HasOk, Quitting, Over
  <2>4. CASE Quitting
    BY <2>1, <2>3, <2>4, SpeechSilent
  <2>5. CASE ~Quitting
    <3>1. Speech!Ask
      BY <2>1, <2>2, <2>3, <2>5, Zenon DEF Speech!Ask, HasOk, Quitting, Over
    <3>. QED
      BY <3>1 DEF Speech!Next
  <2>. QED
    BY <2>4, <2>5
<1>. QED
  BY <1>1, <1>2, <1>3, <1>4, <1>5, <1>6, <1>7, <1>8, <1>9, NextIs

LEMMA SpeechInit == Init => Speech!Init
<1>. SUFFICES ASSUME Init PROVE Speech!Init
  OBVIOUS
<1>1. failures = 0 /\ said = {} /\ answers = <<>> /\ ~withdrawn /\ loop = "boot"
  BY DEF Init
<1>2. ~HasOk(answers)
  BY <1>1, OkLines, Zenon
<1>3. ~Quitting /\ ~Over
  BY <1>1 DEF Quitting, Over
<1>. QED
  BY <1>1, <1>2, <1>3 DEF Speech!Init, HasOk, Quitting, Over

\* The dialog keeps to DialogSpeech: no failure is told of after the last one,
\* an OK comes once and only while attempts are left, and never after the dialog
\* was withdrawn from before there was a result.
THEOREM SpeechKept == Spec => ImplementsSpeech
<1>. DEFINE IInv == TypeOK /\ Attempts /\ Turns /\ Outcomes /\ Withdrawing
<1>1. Init => IInv
  BY TypeInit, TurnsInit, OutcomesInit, WithdrawingInit
<1>2. IInv /\ [Next]_vars => IInv'
  BY TypeStep, TurnsStep, OutcomesStep, WithdrawingStep
<1>3. IInv /\ [Next]_vars => [Speech!Next]_(Speech!vars)
  BY SpeechStep
<1>. QED
  BY <1>1, <1>2, <1>3, SpeechInit, PTL DEF Spec, ImplementsSpeech, Speech!Spec
=============================================================================
