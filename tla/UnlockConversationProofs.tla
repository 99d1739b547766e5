---------------------- MODULE UnlockConversationProofs ----------------------
(***************************************************************************)
(* Theorems about the dialog together with the window that reads its       *)
(* lines, for every number of failures and messages, and any amount of     *)
(* input.                                                                  *)
(***************************************************************************)
EXTENDS UnlockConversation, LockDialogProofs

AnAnswer(line) == line \in {"OK", "CANCEL"}

\* What waits in the pipe was written: an OK by a dialog that grants access,
\* a request by one that asks; the id is its first line.
PipeTells ==
  /\ loop = "boot" => pipe = <<>>
  /\ \A i \in DOMAIN pipe :
       /\ pipe[i] = "ID" => i = 1
       /\ pipe[i] = "OK" => HasOk(answers)
       /\ pipe[i] = "REQUEST QUIT" => "REQUEST QUIT" \in said
  /\ "REQUEST QUIT" \in heard => "REQUEST QUIT" \in said
  /\ dialog_response = "OK" => HasOk(answers)

\* The answer that the window will come to first is the dialog's first answer.
FirstAnswer ==
  IF answers = <<>> THEN \A i \in DOMAIN pipe : ~AnAnswer(pipe[i])
  ELSE \E i \in DOMAIN pipe :
         pipe[i] = Head(answers) /\ \A j \in 1..(i - 1) : ~AnAnswer(pipe[j])

\* The window that watches has had no answer, the one that does not has closed
\* its end, and has the dialog ended unless it said OK.
WatchTells ==
  /\ watch = "watching" => dialog_response = "CANCEL" /\ FirstAnswer
  /\ watch # "watching" => pipe = <<>>
  /\ watch \in {"finished", "destroyed"} => loop = "exited"
  /\ OkIsHeard

PipeInv == ConversationTypes /\ PipeTells /\ WatchTells

-----------------------------------------------------------------------------
(***************************************************************************)
(* The dialog, as its window sees it.                                      *)
(***************************************************************************)
\* To take the dialog down is to end it, which it may do by itself at any time.
LEMMA FinishEnds ==
  ASSUME dialog_finish, loop \in {"boot", "outer", "auth", "prompt", "drain", "exited"}
  PROVE  Next \/ UNCHANGED vars
<1>. USE DEF dialog_finish, early
<1>1. CASE loop = "boot"
  <2>1. BootFails
    BY <1>1 DEF BootFails
  <2>. QED
    BY <2>1 DEF Next, Main
<1>2. CASE loop = "exited"
  BY <1>2 DEF vars
<1>3. CASE Alive
  <2>1. Terminated
    BY <1>3 DEF Terminated, OuterOnly
  <2>. QED
    BY <2>1 DEF Next
<1>. QED
  BY <1>1, <1>2, <1>3 DEF Alive

LEMMA WithinStep ==
  TypeOK /\ [ConversationNext]_conversation => [Next]_vars
<1>. SUFFICES ASSUME TypeOK, [ConversationNext]_conversation PROVE [Next]_vars
  OBVIOUS
<1>0. ASSUME dialog_finish PROVE [Next]_vars
  BY <1>0, FinishEnds DEF TypeOK
<1>1. CASE DialogStep
  BY <1>1 DEF DialogStep
<1>2. CASE ReadOn
  BY <1>2 DEF ReadOn
<1>3. CASE ReadResponse \/ ReadEnd
  BY <1>0, <1>3 DEF ReadResponse, ReadEnd, Finished
<1>4. CASE Destroy
  BY <1>0, <1>4 DEF Destroy
<1>5. CASE UNCHANGED conversation
  BY <1>5 DEF conversation
<1>. QED
  BY <1>1, <1>2, <1>3, <1>4, <1>5 DEF ConversationNext, WindowStep

\* What the theorems about the dialog rest on.
DialogInv == TypeOK /\ Attempts /\ Turns /\ Outcomes /\ Proved

LEMMA DialogInvStep == DialogInv /\ [Next]_vars => DialogInv'
  BY TypeStep, TurnsStep, OutcomesStep, ProvedStep DEF DialogInv

LEMMA DialogInvariant ==
  ConversationSpec => []DialogInv /\ [][Next]_vars
<1>1. ConversationInit => DialogInv
  BY TypeInit, TurnsInit, OutcomesInit, ProvedInit DEF ConversationInit, DialogInv
<1>2. DialogInv /\ [ConversationNext]_conversation => [Next]_vars
  BY WithinStep DEF DialogInv
<1>3. DialogInv /\ [ConversationNext]_conversation => DialogInv'
  BY <1>2, DialogInvStep
<1>. QED
  BY <1>1, <1>2, <1>3, PTL DEF ConversationSpec

\* A dialog that is listened to is a dialog: whatever the window does to it,
\* the theorems about LockDialog hold.
THEOREM DialogWithin == ConversationSpec => Spec
<1>1. ConversationInit => Init
  BY DEF ConversationInit
<1>. QED
  BY <1>1, DialogInvariant, PTL DEF Spec, ConversationSpec

-----------------------------------------------------------------------------
(***************************************************************************)
(* What the dialog writes.                                                 *)
(***************************************************************************)
\* What a step of the dialog adds to a pipe that is watched.
Added(line) == pipe' = Append(pipe, line)

\* Lines are added to the ones that are there.
LEMMA LinesGrow ==
  ASSUME NEW S, NEW lines \in Seq(S), NEW line \in S
  PROVE  /\ Append(lines, line) \in Seq(S)
         /\ Append(lines, line) # lines
         /\ DOMAIN Append(lines, line) = 1..(Len(lines) + 1)
         /\ DOMAIN lines = 1..Len(lines) /\ Len(lines) \in Nat
         /\ \A i \in DOMAIN lines : Append(lines, line)[i] = lines[i]
         /\ Append(lines, line)[Len(lines) + 1] = line
<1>1. Len(Append(lines, line)) = Len(lines) + 1 /\ Len(lines) \in Nat
  OBVIOUS
<1>. QED
  BY <1>1

LEMMA LineAdded ==
  ASSUME pipe \in Seq(Line), NEW line \in Line, Added(line)
  PROVE  /\ pipe' \in Seq(Line)
         /\ DOMAIN pipe' = 1..(Len(pipe) + 1)
         /\ DOMAIN pipe = 1..Len(pipe) /\ Len(pipe) \in Nat
         /\ \A i \in DOMAIN pipe : pipe'[i] = pipe[i]
         /\ pipe'[Len(pipe) + 1] = line
         /\ \A i \in DOMAIN pipe' : i \in DOMAIN pipe \/ i = Len(pipe) + 1
<1>1. /\ pipe' \in Seq(Line)
      /\ DOMAIN pipe' = 1..(Len(pipe) + 1)
      /\ DOMAIN pipe = 1..Len(pipe) /\ Len(pipe) \in Nat
      /\ \A i \in DOMAIN pipe : pipe'[i] = pipe[i]
      /\ pipe'[Len(pipe) + 1] = line
  BY LinesGrow DEF Added
<1>2. \A i \in DOMAIN pipe' : i \in DOMAIN pipe \/ i = Len(pipe) + 1
  BY <1>1
<1>. QED
  BY <1>1, <1>2

\* A step of the dialog writes one line at most: the id when it comes up, an
\* answer, or the request to be terminated.
LEMMA StepWrites ==
  ASSUME TypeOK, Attempts, Outcomes, [Next]_vars
  PROVE  \/ UNCHANGED <<answers, said>>
         \/ /\ \E line \in {"OK", "CANCEL"} : answers' = Append(answers, line)
            /\ said' = said /\ loop' # "boot" /\ loop # "exited"
         \/ /\ answers' = answers /\ loop = "boot" /\ loop' = "outer"
            /\ said = {} /\ said' = {"ID"}
         \/ /\ answers' = answers /\ loop = "outer" /\ loop' = "outer"
            /\ said' = said \cup {"REQUEST QUIT"}
<1>1. CASE Neutral
  BY <1>1, NeutralIs
<1>2. CASE Response
  <2>1. PICK cancel \in BOOLEAN : gs_lock_plug_response(cancel)
    BY <1>2, ResponseIs
  <2>2. answers' = Append(answers, "CANCEL") \/ answers' = answers
    BY <2>1 DEF gs_lock_plug_response
  <2>3. said' = said /\ loop' # "boot" /\ loop # "exited"
    BY <1>2, ResponseOutcome, ResponseIs DEF Alive
  <2>. QED
    BY <2>2, <2>3
<1>3. CASE BootFails
  <2>1. answers = <<>> /\ Append(<<>>, "OK") = <<"OK">>
    BY <1>3 DEF BootFails, Outcomes
  <2>2. /\ answers' = <<"OK">> \/ answers' = answers
        /\ said' = said /\ loop' = "exited" /\ loop = "boot"
    BY <1>3 DEF BootFails
  <2>. QED
    BY <2>1, <2>2
<1>4. CASE popup_dialog_idle
  BY <1>4 DEF popup_dialog_idle, Outcomes
<1>5. CASE StartPam
  BY <1>5 DEF StartPam, Verdict
<1>6. CASE FinishDirect
  BY <1>6 DEF FinishDirect, Verdict
<1>7. CASE LeavePamLoop
  BY <1>7 DEF LeavePamLoop, Verdict
<1>8. CASE quit_response_ok
  BY <1>8 DEF quit_response_ok, OuterOnly, OuterIdle
<1>9. CASE response_request_quit
  BY <1>9 DEF response_request_quit, OuterOnly, OuterIdle
<1>. QED
  BY <1>1, <1>2, <1>3, <1>4, <1>5, <1>6, <1>7, <1>8, <1>9, NextIs

LEMMA WatchedStep ==
  ASSUME TypeOK, Attempts, Outcomes, DialogStep, watch = "watching"
  PROVE  \/ UNCHANGED <<answers, said, pipe>>
         \/ /\ \E line \in {"OK", "CANCEL"} :
                 answers' = Append(answers, line) /\ Added(line)
            /\ said' = said /\ loop' # "boot" /\ loop # "exited"
         \/ /\ answers' = answers /\ loop = "boot" /\ loop' = "outer"
            /\ said = {} /\ said' = {"ID"} /\ Added("ID")
         \/ /\ answers' = answers /\ loop = "outer" /\ loop' = "outer"
            /\ said' = said \cup {"REQUEST QUIT"} /\ Added("REQUEST QUIT")
<1>0. [Next]_vars /\ answers \in Seq({"CANCEL", "OK"})
  BY DEF DialogStep, TypeOK, Answers
<1>1. \A line \in {"OK", "CANCEL"} : Append(answers, line) # answers
  BY <1>0, LinesGrow
<1>2. Append(answers, "OK") # Append(answers, "CANCEL")
  <2>1. Append(answers, "OK")[Len(answers) + 1] = "OK"
    BY <1>0, LinesGrow
  <2>2. Append(answers, "CANCEL")[Len(answers) + 1] = "CANCEL"
    BY <1>0, LinesGrow
  <2>. QED
    BY <2>1, <2>2
<1>3. CASE UNCHANGED <<answers, said>>
  <2>1. \A line \in Line : ~Writes(line)
    BY <1>1, <1>3 DEF Writes
  <2>. QED
    BY <1>3, <2>1 DEF DialogStep
<1>4. ASSUME NEW line \in {"OK", "CANCEL"}, answers' = Append(answers, line), said' = said
      PROVE  Added(line)
  <2>1. Writes(line) /\ \A other \in Line \ {line} : ~Writes(other)
    BY <1>2, <1>4 DEF Writes
  <2>. QED
    BY <2>1 DEF DialogStep, Added, Line
<1>5. ASSUME answers' = answers, NEW line \in {"ID", "REQUEST QUIT"},
             line \notin said, said' = said \cup {line}
      PROVE  Added(line)
  <2>1. Writes(line) /\ \A other \in Line \ {line} : ~Writes(other)
    BY <1>1, <1>5 DEF Writes, Line
  <2>. QED
    BY <2>1 DEF DialogStep, Added, Line
<1>6. CASE /\ answers' = answers /\ loop = "boot" /\ loop' = "outer"
           /\ said = {} /\ said' = {"ID"}
  BY <1>5, <1>6
<1>7. CASE /\ answers' = answers /\ loop = "outer" /\ loop' = "outer"
           /\ said' = said \cup {"REQUEST QUIT"}
  <2>1. CASE "REQUEST QUIT" \in said
    BY <1>3, <1>7, <2>1
  <2>2. CASE "REQUEST QUIT" \notin said
    BY <1>5, <1>7, <2>2
  <2>. QED
    BY <2>1, <2>2
<1>. QED
  BY <1>0, <1>3, <1>4, <1>6, <1>7, StepWrites

\* An OK that was written stays written.
LEMMA OkRemains ==
  ASSUME TypeOK, Attempts, Outcomes, [Next]_vars, HasOk(answers) PROVE HasOk(answers')
<1>1. answers \in Answers
  BY DEF TypeOK
<1>2. answers' = answers \/ \E line \in {"OK", "CANCEL"} : answers' = Append(answers, line)
  BY StepWrites
<1>3. CASE answers' = answers
  BY <1>3, Zenon
<1>4. CASE answers' = Append(answers, "OK")
  BY <1>1, <1>4, OkLines
<1>5. CASE answers' = Append(answers, "CANCEL")
  <2>1. HasOk(Append(answers, "CANCEL"))
    BY <1>1, OkLines
  <2>. QED
    BY <1>5, <2>1, Zenon
<1>. QED
  BY <1>2, <1>3, <1>4, <1>5

\* Who asks to be terminated has granted nothing.
LEMMA AskedOrGranted ==
  ASSUME TypeOK, Outcomes, Asked PROVE ~HasOk(answers)
<1>1. failures = MaxFailures /\ ~(MaxFailures < MaxFailures)
  BY FailuresAssumption DEF Outcomes
<1>2. ~Granted
  BY <1>1, Zenon DEF Outcomes
<1>. QED
  BY <1>2 DEF Granted

-----------------------------------------------------------------------------
(***************************************************************************)
(* The first answer in the pipe.                                           *)
(***************************************************************************)
\* Another line behind does not matter.
LEMMA FirstStays ==
  ASSUME pipe \in Seq(Line), FirstAnswer, NEW line \in Line, ~AnAnswer(line),
         Added(line), answers' = answers
  PROVE  FirstAnswer'
<1>1. /\ DOMAIN pipe' = 1..(Len(pipe) + 1) /\ DOMAIN pipe = 1..Len(pipe)
      /\ Len(pipe) \in Nat
      /\ \A i \in DOMAIN pipe : pipe'[i] = pipe[i]
      /\ pipe'[Len(pipe) + 1] = line
  BY LineAdded
<1>2. CASE answers = <<>>
  <2>1. \A i \in DOMAIN pipe' : ~AnAnswer(pipe'[i])
    BY <1>1, <1>2 DEF FirstAnswer, AnAnswer
  <2>. QED
    BY <1>2, <2>1 DEF FirstAnswer
<1>3. CASE answers # <<>>
  <2>1. PICK i \in DOMAIN pipe :
             pipe[i] = Head(answers) /\ \A j \in 1..(i - 1) : ~AnAnswer(pipe[j])
    BY <1>3 DEF FirstAnswer
  <2>2. i \in DOMAIN pipe' /\ pipe'[i] = Head(answers')
    BY <1>1, <2>1
  <2>3. \A j \in 1..(i - 1) : j \in DOMAIN pipe
    BY <1>1
  <2>4. \A j \in 1..(i - 1) : ~AnAnswer(pipe'[j])
    BY <1>1, <2>1, <2>3 DEF AnAnswer
  <2>. QED
    BY <1>3, <2>2, <2>4 DEF FirstAnswer
<1>. QED
  BY <1>2, <1>3

\* The first answer that is written is the first that can be read.
LEMMA FirstComes ==
  ASSUME pipe \in Seq(Line), answers \in Answers, FirstAnswer,
         NEW line \in {"OK", "CANCEL"}, Added(line), answers' = Append(answers, line)
  PROVE  FirstAnswer'
<1>0. line \in Line
  BY DEF Line
<1>1. /\ DOMAIN pipe' = 1..(Len(pipe) + 1) /\ DOMAIN pipe = 1..Len(pipe)
      /\ Len(pipe) \in Nat
      /\ \A i \in DOMAIN pipe : pipe'[i] = pipe[i]
      /\ pipe'[Len(pipe) + 1] = line
  BY <1>0, LineAdded
<1>2. answers' # <<>>
  BY DEF Answers
<1>3. CASE answers = <<>>
  <2>1. Head(answers') = line
    BY <1>3
  <2>2. \A j \in 1..Len(pipe) : ~AnAnswer(pipe'[j])
    BY <1>1, <1>3 DEF FirstAnswer, AnAnswer
  <2>3. Len(pipe) + 1 \in DOMAIN pipe' /\ (Len(pipe) + 1) - 1 = Len(pipe)
    BY <1>1
  <2>4. \E i \in DOMAIN pipe' :
          pipe'[i] = Head(answers') /\ \A j \in 1..(i - 1) : ~AnAnswer(pipe'[j])
    BY <1>1, <2>1, <2>2, <2>3
  <2>. QED
    BY <1>2, <2>4 DEF FirstAnswer
<1>4. CASE answers # <<>>
  <2>0. Head(answers') = Head(answers)
    BY <1>4 DEF Answers
  <2>1. PICK i \in DOMAIN pipe :
             pipe[i] = Head(answers) /\ \A j \in 1..(i - 1) : ~AnAnswer(pipe[j])
    BY <1>4 DEF FirstAnswer
  <2>2. i \in DOMAIN pipe' /\ pipe'[i] = Head(answers')
    BY <1>1, <2>0, <2>1
  <2>3. \A j \in 1..(i - 1) : j \in DOMAIN pipe
    BY <1>1
  <2>4. \A j \in 1..(i - 1) : ~AnAnswer(pipe'[j])
    BY <1>1, <2>1, <2>3 DEF AnAnswer
  <2>. QED
    BY <1>2, <2>2, <2>4 DEF FirstAnswer
<1>. QED
  BY <1>3, <1>4

\* What is behind the line that is read.
LEMMA LinesRead ==
  ASSUME NEW S, NEW lines \in Seq(S), lines # <<>>
  PROVE  /\ Head(lines) = lines[1] /\ Head(lines) \in S /\ 1 \in DOMAIN lines
         /\ Tail(lines) \in Seq(S) /\ DOMAIN lines = 1..Len(lines)
         /\ DOMAIN Tail(lines) = 1..(Len(lines) - 1) /\ Len(lines) \in Nat \ {0}
         /\ \A i \in DOMAIN Tail(lines) :
              i + 1 \in DOMAIN lines /\ i + 1 # 1 /\ Tail(lines)[i] = lines[i + 1]
<1>1. /\ Len(lines) \in Nat \ {0} /\ Len(Tail(lines)) = Len(lines) - 1
      /\ Tail(lines) \in Seq(S) /\ Head(lines) = lines[1] /\ DOMAIN lines = 1..Len(lines)
  OBVIOUS
<1>. QED
  BY <1>1

\* A line that is no answer is read.
LEMMA FirstLeft ==
  ASSUME pipe \in Seq(Line), pipe # <<>>, answers \in Answers, FirstAnswer,
         ~AnAnswer(Head(pipe)), pipe' = Tail(pipe), answers' = answers
  PROVE  FirstAnswer'
<1>1. /\ Head(pipe) = pipe[1] /\ Len(pipe) \in Nat \ {0}
      /\ DOMAIN pipe = 1..Len(pipe) /\ DOMAIN pipe' = 1..(Len(pipe) - 1)
      /\ \A i \in DOMAIN pipe' : i + 1 \in DOMAIN pipe /\ pipe'[i] = pipe[i + 1]
  BY LinesRead
<1>2. CASE answers = <<>>
  <2>1. \A i \in DOMAIN pipe' : ~AnAnswer(pipe'[i])
    BY <1>1, <1>2 DEF FirstAnswer, AnAnswer
  <2>. QED
    BY <1>2, <2>1 DEF FirstAnswer
<1>3. CASE answers # <<>>
  <2>1. PICK i \in DOMAIN pipe :
             pipe[i] = Head(answers) /\ \A j \in 1..(i - 1) : ~AnAnswer(pipe[j])
    BY <1>3 DEF FirstAnswer
  <2>2. Head(answers) \in {"CANCEL", "OK"}
    BY <1>3, LinesRead DEF Answers
  <2>3. i # 1
    BY <1>1, <2>1, <2>2 DEF AnAnswer
  <2>4. i - 1 \in DOMAIN pipe' /\ (i - 1) + 1 = i
    BY <1>1, <2>1, <2>3
  <2>5. pipe'[i - 1] = Head(answers')
    BY <1>1, <2>1, <2>4
  <2>6. \A j \in 1..((i - 1) - 1) : j \in DOMAIN pipe' /\ j + 1 \in 1..(i - 1)
    BY <1>1, <2>1, <2>3
  <2>7. \A j \in 1..((i - 1) - 1) : ~AnAnswer(pipe'[j])
    BY <1>1, <2>1, <2>6 DEF AnAnswer
  <2>8. \E k \in DOMAIN pipe' :
          pipe'[k] = Head(answers') /\ \A j \in 1..(k - 1) : ~AnAnswer(pipe'[j])
    BY <2>4, <2>5, <2>7
  <2>. QED
    BY <1>3, <2>8 DEF FirstAnswer
<1>. QED
  BY <1>2, <1>3

\* The first answer that is read is the first that was written.
LEMMA FirstRead ==
  ASSUME pipe \in Seq(Line), pipe # <<>>, FirstAnswer, AnAnswer(Head(pipe))
  PROVE  answers # <<>> /\ Head(answers) = Head(pipe)
<1>1. Head(pipe) = pipe[1] /\ DOMAIN pipe = 1..Len(pipe) /\ Len(pipe) \in Nat \ {0}
  BY LinesRead
<1>2. answers # <<>>
  BY <1>1 DEF FirstAnswer, AnAnswer
<1>3. PICK i \in DOMAIN pipe :
           pipe[i] = Head(answers) /\ \A j \in 1..(i - 1) : ~AnAnswer(pipe[j])
  BY <1>2 DEF FirstAnswer
<1>4. i = 1
  BY <1>1, <1>3 DEF AnAnswer
<1>. QED
  BY <1>1, <1>2, <1>3, <1>4

-----------------------------------------------------------------------------
(***************************************************************************)
(* What the window reads.                                                  *)
(***************************************************************************)
\* A line that the dialog adds.
LEMMA PipeByLine ==
  ASSUME PipeTells, pipe \in Seq(Line), NEW line \in Line, Added(line),
         UNCHANGED <<heard, dialog_response>>, loop' # "boot", said \subseteq said',
         HasOk(answers) => HasOk(answers'),
         line = "ID" => pipe = <<>>, line = "OK" => HasOk(answers'),
         line = "REQUEST QUIT" => "REQUEST QUIT" \in said'
  PROVE  PipeTells' /\ pipe' \in Seq(Line)
<1>1. /\ DOMAIN pipe' = 1..(Len(pipe) + 1) /\ DOMAIN pipe = 1..Len(pipe)
      /\ Len(pipe) \in Nat /\ pipe' \in Seq(Line)
      /\ \A i \in DOMAIN pipe : pipe'[i] = pipe[i]
      /\ pipe'[Len(pipe) + 1] = line
      /\ \A i \in DOMAIN pipe' : i \in DOMAIN pipe \/ i = Len(pipe) + 1
  BY LineAdded
<1>2. line = "ID" => Len(pipe) + 1 = 1
  OBVIOUS
<1>3. ASSUME NEW i \in DOMAIN pipe'
      PROVE  /\ pipe'[i] = "ID" => i = 1
             /\ pipe'[i] = "OK" => HasOk(answers')
             /\ pipe'[i] = "REQUEST QUIT" => "REQUEST QUIT" \in said'
  <2>1. CASE i \in DOMAIN pipe
    <3>1. pipe'[i] = pipe[i]
      BY <1>1, <2>1
    <3>. QED
      BY <2>1, <3>1 DEF PipeTells
  <2>2. CASE i = Len(pipe) + 1
    <3>1. pipe'[i] = line
      BY <1>1, <2>2
    <3>2. line = "ID" => i = 1
      BY <1>2, <2>2
    <3>. QED
      BY <3>1, <3>2, Zenon
  <2>. QED
    BY <1>1, <2>1, <2>2, Zenon
<1>. QED
  BY <1>1, <1>3 DEF PipeTells

\* The pipe as it was, while the dialog goes on.
LEMMA PipeStays ==
  ASSUME PipeTells, UNCHANGED <<pipe, heard, dialog_response>>,
         loop' = "boot" => loop = "boot", said \subseteq said',
         HasOk(answers) => HasOk(answers')
  PROVE  PipeTells'
  BY DEF PipeTells

LEMMA BootIsFirst ==
  ASSUME [Next]_vars, loop' = "boot" PROVE loop = "boot"
<1>1. CASE Neutral
  BY <1>1, NeutralIs
<1>2. CASE Response
  <2>1. PICK cancel \in BOOLEAN : gs_lock_plug_response(cancel)
    BY <1>2, ResponseIs
  <2>. QED
    BY <2>1 DEF gs_lock_plug_response
<1>3. CASE BootFails \/ popup_dialog_idle \/ StartPam \/ FinishDirect \/ LeavePamLoop
  BY <1>3 DEF BootFails, popup_dialog_idle, StartPam, FinishDirect, LeavePamLoop, Verdict
<1>4. CASE quit_response_ok \/ response_request_quit
  BY <1>4 DEF quit_response_ok, response_request_quit
<1>. QED
  BY <1>1, <1>2, <1>3, <1>4, NextIs

\* A step of the dialog while the window watches.
LEMMA PipeByDialog ==
  ASSUME DialogInv, PipeInv, DialogStep, watch = "watching"
  PROVE  PipeInv'
<1>0. /\ [Next]_vars /\ pipe \in Seq(Line) /\ answers \in Answers /\ FirstAnswer
      /\ UNCHANGED <<heard, dialog_response, watch>>
  BY DEF DialogStep, window, PipeInv, ConversationTypes, DialogInv, TypeOK, WatchTells
<1>1. /\ HasOk(answers) => HasOk(answers')
      /\ loop' = "boot" => loop = "boot"
  BY <1>0, OkRemains, BootIsFirst DEF DialogInv
<1>2. PipeTells' /\ pipe' \in Seq(Line) /\ FirstAnswer' => PipeInv'
  BY <1>0 DEF PipeInv, ConversationTypes, WatchTells, OkIsHeard
<1>3. CASE UNCHANGED <<answers, said, pipe>>
  <2>1. PipeTells'
    BY <1>0, <1>1, <1>3, PipeStays DEF PipeInv
  <2>2. FirstAnswer'
    BY <1>0, <1>3 DEF FirstAnswer
  <2>. QED
    BY <1>0, <1>2, <1>3, <2>1, <2>2
<1>4. ASSUME NEW line \in {"OK", "CANCEL"}, answers' = Append(answers, line),
             Added(line), said' = said, loop' # "boot"
      PROVE  PipeInv'
  <2>1. line \in Line
    BY DEF Line
  <2>2. line = "OK" => HasOk(answers')
    BY <1>0, <1>4, OkLines
  <2>3. PipeTells' /\ pipe' \in Seq(Line)
    BY <1>0, <1>1, <1>4, <2>1, <2>2, PipeByLine DEF PipeInv
  <2>4. FirstAnswer'
    BY <1>0, <1>4, FirstComes
  <2>. QED
    BY <1>2, <2>3, <2>4
<1>5. ASSUME NEW line \in {"ID", "REQUEST QUIT"}, answers' = answers, Added(line),
             said \subseteq said', line \in said', loop' # "boot",
             line = "ID" => pipe = <<>>
      PROVE  PipeInv'
  <2>1. line \in Line /\ ~AnAnswer(line)
    BY DEF Line, AnAnswer
  <2>2. PipeTells' /\ pipe' \in Seq(Line)
    BY <1>0, <1>1, <1>5, <2>1, PipeByLine DEF PipeInv
  <2>3. FirstAnswer'
    BY <1>0, <1>5, <2>1, FirstStays
  <2>. QED
    BY <1>2, <2>2, <2>3
<1>6. loop = "boot" => pipe = <<>>
  BY DEF PipeInv, PipeTells
<1>. QED
  BY <1>3, <1>4, <1>5, <1>6, WatchedStep DEF DialogInv

\* A step of the dialog that nobody listens to any more.
LEMMA PipeUnwatched ==
  ASSUME DialogInv, PipeInv, DialogStep, watch # "watching"
  PROVE  PipeInv'
<1>1. [Next]_vars /\ UNCHANGED <<heard, dialog_response, watch>> /\ pipe = <<>>
  BY DEF DialogStep, window, PipeInv, WatchTells
<1>2. pipe' = pipe
  BY DEF DialogStep
<1>3. /\ HasOk(answers) => HasOk(answers')
      /\ loop' = "boot" => loop = "boot"
      /\ said \subseteq said'
  BY <1>1, OkRemains, BootIsFirst, StepWrites DEF DialogInv
<1>4. PipeTells'
  BY <1>1, <1>2, <1>3, PipeStays DEF PipeInv
<1>5. loop = "exited" => loop' = "exited" /\ answers' = answers
  <2>. SUFFICES ASSUME loop = "exited" PROVE loop' = "exited" /\ answers' = answers
    OBVIOUS
  <2>1. loop' = "exited"
    BY <1>1, OverStays
  <2>. QED
    BY <1>1, <2>1, StepWrites DEF DialogInv
<1>6. WatchTells'
  BY <1>1, <1>2, <1>5 DEF PipeInv, WatchTells, OkIsHeard
<1>. QED
  BY <1>1, <1>2, <1>4, <1>6 DEF PipeInv, ConversationTypes

\* What the end of the watch leaves, if the window has taken the dialog down
\* for good reason.
LEMMA PipeByEnd ==
  ASSUME DialogInv, PipeInv, pipe' = <<>>, heard' = heard,
         dialog_response' \in {"CANCEL", "OK"},
         dialog_response' = "OK" => HasOk(answers),
         \/ watch' = "answered" /\ UNCHANGED vars
         \/ watch' \in {"finished", "destroyed"} /\ dialog_finish,
         watch' = "finished" => answers = <<>> \/ Head(answers) # "OK"
  PROVE  PipeInv'
<1>1. /\ answers' = answers /\ said' = said /\ loop' \in {loop, "exited"}
      /\ watch' # "answered" => loop' = "exited"
  BY DEF vars, dialog_finish
<1>2. HasOk(answers) => HasOk(answers')
  BY <1>1, Zenon
<1>3. PipeTells'
  <2>1. DOMAIN pipe' = {}
    OBVIOUS
  <2>2. "REQUEST QUIT" \in heard' => "REQUEST QUIT" \in said'
    BY <1>1 DEF PipeInv, PipeTells
  <2>3. dialog_response' = "OK" => HasOk(answers')
    BY <1>2
  <2>. QED
    BY <2>1, <2>2, <2>3 DEF PipeTells
<1>4. WatchTells'
  BY <1>1 DEF WatchTells, OkIsHeard
<1>5. ConversationTypes'
  <2>1. watch' \in {"answered", "finished", "destroyed"}
    OBVIOUS
  <2>2. pipe' \in Seq(Line)
    OBVIOUS
  <2>3. heard' \subseteq {"ID", "REQUEST QUIT"}
    BY DEF PipeInv, ConversationTypes
  <2>. QED
    BY <2>1, <2>2, <2>3 DEF ConversationTypes
<1>. QED
  BY <1>3, <1>4, <1>5 DEF PipeInv

LEMMA PipeByReadOn ==
  ASSUME DialogInv, PipeInv, ReadOn
  PROVE  PipeInv'
<1>1. PICK line \in {"ID", "REQUEST QUIT"} :
           Reads(line) /\ heard' = heard \cup {line} /\ pipe' = Tail(pipe)
  BY DEF ReadOn
<1>2. /\ pipe \in Seq(Line) /\ pipe # <<>> /\ Head(pipe) = line /\ watch = "watching"
      /\ UNCHANGED <<loop, answers, said, dialog_response, watch>>
      /\ answers \in Answers
  BY <1>1 DEF Reads, ReadOn, vars, PipeInv, ConversationTypes, DialogInv, TypeOK
<1>3. /\ Head(pipe) = pipe[1] /\ 1 \in DOMAIN pipe /\ pipe' \in Seq(Line)
      /\ DOMAIN pipe' = 1..(Len(pipe) - 1) /\ Len(pipe) \in Nat \ {0}
      /\ \A i \in DOMAIN pipe' :
           i + 1 \in DOMAIN pipe /\ i + 1 # 1 /\ pipe'[i] = pipe[i + 1]
  BY <1>1, <1>2, LinesRead
<1>4. FirstAnswer'
  <2>1. ~AnAnswer(Head(pipe))
    BY <1>2 DEF AnAnswer
  <2>. QED
    BY <1>1, <1>2, <2>1, FirstLeft DEF PipeInv, WatchTells
<1>5. HasOk(answers') <=> HasOk(answers)
  BY <1>2, Zenon
<1>6. \A i \in DOMAIN pipe' :
        /\ pipe'[i] # "ID"
        /\ pipe'[i] = "OK" => HasOk(answers)
        /\ pipe'[i] = "REQUEST QUIT" => "REQUEST QUIT" \in said
  <2>. SUFFICES ASSUME NEW i \in DOMAIN pipe'
                PROVE  /\ pipe'[i] # "ID"
                       /\ pipe'[i] = "OK" => HasOk(answers)
                       /\ pipe'[i] = "REQUEST QUIT" => "REQUEST QUIT" \in said
    OBVIOUS
  <2>1. i + 1 \in DOMAIN pipe /\ i + 1 # 1 /\ pipe'[i] = pipe[i + 1]
    BY <1>3
  <2>. QED
    BY <2>1, Zenon DEF PipeInv, PipeTells
<1>7. line = "REQUEST QUIT" => "REQUEST QUIT" \in said
  BY <1>2, <1>3 DEF PipeInv, PipeTells
<1>8. loop # "boot"
  BY <1>2 DEF PipeInv, PipeTells
<1>9. PipeTells'
  BY <1>1, <1>2, <1>5, <1>6, <1>7, <1>8 DEF PipeInv, PipeTells
<1>10. WatchTells'
  BY <1>2, <1>4 DEF PipeInv, WatchTells, OkIsHeard
<1>11. ConversationTypes'
  BY <1>1, <1>2, <1>3 DEF PipeInv, ConversationTypes
<1>. QED
  BY <1>9, <1>10, <1>11 DEF PipeInv

LEMMA PipeByResponse ==
  ASSUME DialogInv, PipeInv, ReadResponse
  PROVE  PipeInv'
<1>1. PICK line \in {"OK", "CANCEL"} : Reads(line) /\ dialog_response' = line
  BY DEF ReadResponse
<1>2. /\ pipe \in Seq(Line) /\ pipe # <<>> /\ Head(pipe) = line /\ watch = "watching"
  BY <1>1 DEF Reads, PipeInv, ConversationTypes
<1>3. answers # <<>> /\ Head(answers) = line
  <2>1. AnAnswer(Head(pipe))
    BY <1>2 DEF AnAnswer
  <2>. QED
    BY <1>2, <2>1, FirstRead DEF PipeInv, WatchTells
<1>4. line = "OK" => HasOk(answers)
  BY <1>2, LinesRead DEF PipeInv, PipeTells
<1>5. CASE line = "OK"
  <2>1. watch' = "answered" /\ UNCHANGED vars /\ pipe' = <<>> /\ heard' = heard
    BY <1>1, <1>5 DEF ReadResponse, Finished
  <2>. QED
    BY <1>1, <1>4, <2>1, PipeByEnd
<1>6. CASE line = "CANCEL"
  <2>1. watch' = "finished" /\ dialog_finish /\ pipe' = <<>> /\ heard' = heard
    BY <1>1, <1>6 DEF ReadResponse, Finished
  <2>. QED
    BY <1>1, <1>3, <1>6, <2>1, PipeByEnd
<1>. QED
  BY <1>5, <1>6

LEMMA PipeByReadEnd ==
  ASSUME DialogInv, PipeInv, ReadEnd
  PROVE  PipeInv'
<1>1. /\ watch = "watching" /\ pipe = <<>> /\ dialog_response' = dialog_response
      /\ dialog_response = "CANCEL" /\ FirstAnswer
  BY DEF ReadEnd, PipeInv, WatchTells
<1>2. answers = <<>>
  BY <1>1 DEF FirstAnswer
<1>3. watch' = "finished" /\ dialog_finish /\ pipe' = <<>> /\ heard' = heard
  BY <1>1 DEF ReadEnd, Finished
<1>. QED
  BY <1>1, <1>2, <1>3, PipeByEnd

LEMMA PipeStep ==
  DialogInv /\ PipeInv /\ [ConversationNext]_conversation => PipeInv'
<1>. SUFFICES ASSUME DialogInv, PipeInv, [ConversationNext]_conversation PROVE PipeInv'
  OBVIOUS
<1>1. CASE DialogStep
  BY <1>1, PipeByDialog, PipeUnwatched
<1>2. CASE ReadOn
  BY <1>2, PipeByReadOn
<1>3. CASE ReadResponse
  BY <1>3, PipeByResponse
<1>4. CASE ReadEnd
  BY <1>4, PipeByReadEnd
<1>5. CASE Destroy
  <2>1. /\ dialog_response' = dialog_response /\ heard' = heard /\ pipe' = <<>>
        /\ watch' = "destroyed" /\ dialog_finish
    BY <1>5 DEF Destroy
  <2>2. dialog_response \in {"CANCEL", "OK"} /\ (dialog_response = "OK" => HasOk(answers))
    BY DEF PipeInv, ConversationTypes, PipeTells
  <2>. QED
    BY <2>1, <2>2, PipeByEnd
<1>6. CASE UNCHANGED conversation
  <2>1. UNCHANGED <<pipe, heard, dialog_response, watch, loop, answers, said>>
    BY <1>6 DEF conversation, window, vars
  <2>2. HasOk(answers') <=> HasOk(answers)
    BY <2>1, Zenon
  <2>3. PipeTells'
    BY <2>1, <2>2, PipeStays DEF PipeInv
  <2>4. WatchTells' /\ ConversationTypes'
    BY <2>1 DEF PipeInv, WatchTells, FirstAnswer, OkIsHeard, ConversationTypes
  <2>. QED
    BY <2>3, <2>4 DEF PipeInv
<1>. QED
  BY <1>1, <1>2, <1>3, <1>4, <1>5, <1>6 DEF ConversationNext, WindowStep

LEMMA PipeInit == ConversationInit => PipeInv
<1>. SUFFICES ASSUME ConversationInit PROVE PipeInv
  OBVIOUS
<1>1. /\ pipe = <<>> /\ heard = {} /\ dialog_response = "CANCEL" /\ watch = "watching"
      /\ answers = <<>>
  BY DEF ConversationInit, Init
<1>. QED
  BY <1>1 DEF PipeInv, ConversationTypes, PipeTells, WatchTells, FirstAnswer, OkIsHeard

LEMMA PipeInvariant == ConversationSpec => [](DialogInv /\ PipeInv)
  BY PipeInit, PipeStep, DialogInvariant, PTL DEF ConversationSpec

\* Of the window too every variable keeps its type.
THEOREM ConversationTyped == ConversationSpec => []ConversationTypes
<1>1. PipeInv => ConversationTypes
  BY DEF PipeInv
<1>. QED
  BY <1>1, PipeInvariant, PTL

\* No OK is lost on its way: the pipe keeps the order of the answers, and its end
\* is read after them.
THEOREM OksAreHeard == ConversationSpec => []OkIsHeard
<1>1. PipeInv => OkIsHeard
  BY DEF PipeInv, WatchTells
<1>. QED
  BY <1>1, PipeInvariant, PTL

-----------------------------------------------------------------------------
(***************************************************************************)
(* The conversation as the manager has it.                                 *)
(***************************************************************************)
Told == "REQUEST QUIT" \in heard

LEMMA ChildIs ==
  /\ watch = "answered" => ChildState = "answered"
  /\ watch \notin {"watching", "answered"} => ChildState = "none"
  /\ watch = "watching" =>
       /\ Told => ChildState = "exited"
       /\ ~Told /\ Answer # <<>> =>
            /\ Head(Answer) = "OK" => ChildState = "ok"
            /\ Head(Answer) = "CANCEL" => ChildState = "cancel"
            /\ Head(Answer) \notin {"OK", "CANCEL"} => ChildState = "quit"
       /\ ~Told /\ Answer = <<>> =>
            /\ loop = "exited" => ChildState = "exited"
            /\ loop # "exited" /\ "ID" \in heard => ChildState = "asking"
            /\ loop # "exited" /\ "ID" \notin heard => ChildState = "starting"
  BY DEF ChildState, Told

LEMMA HeadThere ==
  ASSUME NEW S, NEW lines \in Seq(S), lines # <<>>
  PROVE  1 \in DOMAIN lines /\ Head(lines) = lines[1]
<1>1. Len(lines) \in Nat /\ Len(lines) # 0 /\ DOMAIN lines = 1..Len(lines)
  OBVIOUS
<1>. QED
  BY <1>1

LEMMA SecondThere ==
  ASSUME NEW S, NEW lines \in Seq(S), lines # <<>>, Tail(lines) # <<>>
  PROVE  2 \in DOMAIN lines /\ Head(Tail(lines)) = lines[2]
<1>1. /\ Len(lines) \in Nat /\ DOMAIN lines = 1..Len(lines)
      /\ Tail(lines) \in Seq(S) /\ Len(Tail(lines)) = Len(lines) - 1
  OBVIOUS
<1>2. Len(Tail(lines)) # 0
  BY <1>1
<1>3. 2 \in DOMAIN lines
  BY <1>1, <1>2
<1>4. Head(Tail(lines)) = Tail(lines)[1] /\ Tail(lines)[1] = lines[2]
  BY <1>1, <1>2
<1>. QED
  BY <1>3, <1>4

\* The OK that the window comes to next is in the pipe.
LEMMA NextIsOk ==
  ASSUME pipe \in Seq(Line), ChildState = "ok"
  PROVE  \E i \in DOMAIN pipe : pipe[i] = "OK"
<1>1. Answer # <<>> /\ Head(Answer) = "OK"
  BY ChildIs, SMT
<1>2. CASE Answer = pipe
  <2>1. 1 \in DOMAIN pipe /\ Head(pipe) = pipe[1]
    BY <1>1, <1>2, HeadThere
  <2>. QED
    BY <1>1, <1>2, <2>1, Zenon
<1>3. CASE pipe # <<>> /\ Answer = Tail(pipe)
  <2>1. 2 \in DOMAIN pipe /\ Head(Tail(pipe)) = pipe[2]
    BY <1>1, <1>3, SecondThere
  <2>. QED
    BY <1>1, <1>3, <2>1, Zenon
<1>. QED
  BY <1>2, <1>3 DEF Answer

\* The window takes the screen for unlocked only if what was typed was accepted:
\* an OK that it has read was written, and was about to be only by a dialog whose
\* authentication had accepted.
THEOREM UnlocksAreProved == ConversationSpec => []UnlockIsProved
<1>1. DialogInv /\ PipeInv => UnlockIsProved
  <2>. SUFFICES ASSUME DialogInv, PipeInv, "ID" \in said,
                       dialog_response = "OK" \/ ChildState = "ok"
                PROVE  accepted
    BY DEF UnlockIsProved
  <2>1. HasOk(answers)
    <3>1. /\ pipe \in Seq(Line)
          /\ \A i \in DOMAIN pipe : pipe[i] = "OK" => HasOk(answers)
          /\ dialog_response = "OK" => HasOk(answers)
      BY Zenon DEF PipeInv, ConversationTypes, PipeTells
    <3>2. CASE ChildState = "ok"
      BY <3>1, <3>2, NextIsOk, Zenon
    <3>. QED
      BY <3>1, <3>2
  <2>. QED
    BY <2>1 DEF DialogInv, Proved, Granted
<1>. QED
  BY <1>1, PipeInvariant, PTL

LEMMA LastAdded ==
  ASSUME NEW S, NEW lines \in Seq(S), NEW line \in S
  PROVE  /\ Append(lines, line) # <<>>
         /\ lines # <<>> => Head(Append(lines, line)) = Head(lines)
         /\ lines = <<>> => Head(Append(lines, line)) = line
<1>1. Append(lines, line) # <<>>
  <2>1. Len(Append(lines, line)) = Len(lines) + 1 /\ Len(lines) \in Nat
    OBVIOUS
  <2>2. Len(<<>>) = 0
    OBVIOUS
  <2>. QED
    BY <2>1, <2>2
<1>2. lines # <<>> => Head(Append(lines, line)) = Head(lines)
  OBVIOUS
<1>3. lines = <<>> => Head(Append(lines, line)) = line
  <2>1. Append(<<>>, line) = <<line>> /\ Head(<<line>>) = line
    OBVIOUS
  <2>. QED
    BY <2>1, Zenon
<1>. QED
  BY <1>1, <1>2, <1>3

\* Another line behind, when the id is the first.
LEMMA AnswerAdded ==
  ASSUME pipe \in Seq(Line), NEW line \in Line, line # "ID", Added(line)
  PROVE  /\ Answer' # <<>>
         /\ Answer # <<>> => Head(Answer') = Head(Answer)
         /\ Answer = <<>> => Head(Answer') = line
<1>1. CASE pipe = <<>>
  <2>1. Answer = <<>> /\ pipe' = <<line>>
    BY <1>1 DEF Answer, Added
  <2>2. Answer' = <<line>>
    BY <2>1 DEF Answer
  <2>. QED
    BY <2>1, <2>2
<1>2. CASE pipe # <<>> /\ Head(pipe) = "ID"
  <2>1. Answer = Tail(pipe) /\ Tail(pipe) \in Seq(Line)
    BY <1>2 DEF Answer
  <2>2. pipe' # <<>> /\ Head(pipe') = "ID" /\ Tail(pipe') = Append(Tail(pipe), line)
    BY <1>2 DEF Added
  <2>3. Answer' = Append(Answer, line)
    BY <2>1, <2>2 DEF Answer
  <2>4. Answer \in Seq(Line)
    BY <2>1
  <2>5. /\ Append(Answer, line) # <<>>
        /\ Answer # <<>> => Head(Append(Answer, line)) = Head(Answer)
        /\ Answer = <<>> => Head(Append(Answer, line)) = line
    BY <2>4, LastAdded
  <2>. QED
    BY <2>3, <2>5, Zenon
<1>3. CASE pipe # <<>> /\ Head(pipe) # "ID"
  <2>1. Answer = pipe
    BY <1>3 DEF Answer
  <2>2. pipe' # <<>> /\ Head(pipe') = Head(pipe)
    BY <1>3 DEF Added
  <2>3. Answer' = pipe'
    BY <1>3, <2>2 DEF Answer
  <2>. QED
    BY <1>3, <2>1, <2>2, <2>3
<1>. QED
  BY <1>1, <1>2, <1>3

LEMMA AnswerAtFirst ==
  ASSUME pipe = <<>>, Added("ID") PROVE Answer = <<>> /\ Answer' = <<>>
<1>1. pipe' = <<"ID">>
  BY DEF Added
<1>. QED
  BY <1>1 DEF Answer

\* The id is read: what is left to read stays.
LEMMA AnswerLeft ==
  ASSUME pipe \in Seq(Line), pipe # <<>>, Head(pipe) = "ID", pipe' = Tail(pipe),
         \A i \in DOMAIN pipe : pipe[i] = "ID" => i = 1
  PROVE  Answer' = Answer
<1>1. Answer = pipe'
  BY DEF Answer
<1>2. /\ pipe' \in Seq(Line)
      /\ \A i \in DOMAIN pipe' : i + 1 \in DOMAIN pipe /\ i + 1 # 1 /\ pipe'[i] = pipe[i + 1]
  BY LinesRead
<1>3. pipe' # <<>> => Head(pipe') # "ID"
  <2>. SUFFICES ASSUME pipe' # <<>> PROVE Head(pipe') # "ID"
    OBVIOUS
  <2>1. Head(pipe') = pipe'[1] /\ 1 \in DOMAIN pipe'
    BY <1>2, LinesRead
  <2>. QED
    BY <1>2, <2>1
<1>4. Answer' = pipe'
  BY <1>3 DEF Answer
<1>. QED
  BY <1>1, <1>4

Conversed == Child!Next \/ UNCHANGED ChildState

\* The window takes the dialog down.
LEMMA ChildFinishes ==
  ASSUME ConversationTypes, watch \in {"watching", "answered"},
         watch' \in {"finished", "destroyed"}
  PROVE  Conversed
<1>1. ChildState' = "none"
  BY DEF ChildState
<1>2. ChildState # "none"
  BY ChildIs
<1>. QED
  BY <1>1, <1>2 DEF Conversed, Child!Next, Child!Finish

\* Nobody watches, or what is watched does not change.
LEMMA ChildUnseen ==
  ASSUME watch # "watching", watch' = watch PROVE Conversed
  BY DEF Conversed, ChildState

\* The dialog goes on while the window watches.
LEMMA ChildSpeaks ==
  ASSUME DialogInv, PipeInv, DialogStep, watch = "watching"
  PROVE  Conversed
<1>0. /\ [Next]_vars /\ pipe \in Seq(Line) /\ UNCHANGED <<heard, watch>>
      /\ loop = "boot" => pipe = <<>>
  BY DEF DialogStep, window, PipeInv, ConversationTypes, PipeTells
<1>1. loop = "exited" => loop' = "exited"
  BY <1>0, OverStays
<1>2. Told' = Told
  BY <1>0 DEF Told
<1>3. CASE Told
  <2>1. ChildState = "exited" /\ ChildState' = "exited"
    BY <1>0, <1>2, <1>3 DEF ChildState, Told
  <2>. QED
    BY <2>1 DEF Conversed
<1>4. ASSUME ~Told, Answer' = Answer PROVE Conversed
  <2>1. CASE Answer # <<>> \/ (loop' = "exited" <=> loop = "exited")
    <3>1. ChildState' = ChildState
      BY <1>0, <1>4, <2>1 DEF ChildState
    <3>. QED
      BY <3>1 DEF Conversed
  <2>2. CASE Answer = <<>> /\ loop # "exited" /\ loop' = "exited"
    <3>1. ChildState \in {"starting", "asking"}
      BY <1>4, <2>2, ChildIs
    <3>2. ChildState' = "exited"
      BY <1>0, <1>4, <2>2 DEF ChildState
    <3>. QED
      BY <3>1, <3>2 DEF Conversed, Child!Next, Child!Speak, Child!Talking, Child!Ends
  <2>. QED
    BY <1>1, <2>1, <2>2
<1>5. ASSUME ~Told, NEW line \in {"OK", "CANCEL", "REQUEST QUIT"}, Added(line),
             loop # "exited"
      PROVE  Conversed
  <2>0. line \in Line /\ line # "ID"
    BY DEF Line
  <2>1. /\ Answer' # <<>>
        /\ Answer # <<>> => Head(Answer') = Head(Answer)
        /\ Answer = <<>> => Head(Answer') = line
    BY <1>0, <1>5, <2>0, AnswerAdded
  <2>2. CASE Answer # <<>>
    <3>1. ChildState' = ChildState
      BY <1>0, <1>5, <2>1, <2>2 DEF ChildState
    <3>. QED
      BY <3>1 DEF Conversed
  <2>3. CASE Answer = <<>>
    <3>1. ChildState \in {"starting", "asking"}
      BY <1>5, <2>3, ChildIs
    <3>2. ChildState' \in {"ok", "cancel", "quit"}
      BY <1>0, <1>5, <2>1, <2>3 DEF ChildState, Told
    <3>. QED
      BY <3>1, <3>2 DEF Conversed, Child!Next, Child!Speak, Child!Talking, Child!Ends
  <2>. QED
    BY <2>2, <2>3
<1>6. CASE UNCHANGED pipe
  <2>1. Answer' = Answer
    BY <1>6 DEF Answer
  <2>. QED
    BY <1>3, <1>4, <2>1
<1>7. CASE loop = "boot" /\ Added("ID")
  BY <1>0, <1>3, <1>4, <1>7, AnswerAtFirst
<1>. QED
  BY <1>3, <1>5, <1>6, <1>7, WatchedStep DEF DialogInv

LEMMA ChildReadsOn ==
  ASSUME DialogInv, PipeInv, ReadOn
  PROVE  Conversed
<1>1. PICK line \in {"ID", "REQUEST QUIT"} :
           Reads(line) /\ heard' = heard \cup {line} /\ pipe' = Tail(pipe)
  BY DEF ReadOn
<1>2. /\ pipe \in Seq(Line) /\ pipe # <<>> /\ Head(pipe) = line
      /\ watch = "watching" /\ watch' = watch /\ loop' = loop
  BY <1>1 DEF Reads, ReadOn, vars, PipeInv, ConversationTypes
<1>3. CASE line = "ID"
  <2>1. Answer' = Answer
    BY <1>1, <1>2, <1>3, AnswerLeft DEF PipeInv, PipeTells
  <2>2. "REQUEST QUIT" \in heard' <=> "REQUEST QUIT" \in heard
    BY <1>1, <1>3
  <2>3. CASE Told \/ Answer # <<>> \/ loop = "exited"
    <3>1. ChildState' = ChildState
      BY <1>2, <2>1, <2>2, <2>3 DEF ChildState, Told
    <3>. QED
      BY <3>1 DEF Conversed
  <2>4. CASE ~Told /\ Answer = <<>> /\ loop # "exited"
    <3>1. ChildState \in {"starting", "asking"}
      BY <1>2, <2>4, ChildIs
    <3>2. ChildState' = "asking"
      BY <1>1, <1>2, <1>3, <2>1, <2>2, <2>4 DEF ChildState, Told
    <3>. QED
      BY <3>1, <3>2 DEF Conversed, Child!Next, Child!Embed
  <2>. QED
    BY <2>3, <2>4
<1>4. CASE line = "REQUEST QUIT"
  <2>1. ChildState' = "exited"
    BY <1>1, <1>2, <1>4 DEF ChildState
  <2>2. ChildState \in {"exited", "quit"}
    <3>1. Answer = pipe
      BY <1>2, <1>4 DEF Answer
    <3>2. Head(Answer) \notin {"OK", "CANCEL"} /\ Answer # <<>>
      BY <1>2, <1>4, <3>1
    <3>. QED
      BY <1>2, <3>2, ChildIs
  <2>. QED
    BY <2>1, <2>2 DEF Conversed, Child!Next, Child!Terminate
<1>. QED
  BY <1>3, <1>4

LEMMA ChildAnswers ==
  ASSUME DialogInv, PipeInv, ReadResponse
  PROVE  Conversed
<1>1. PICK line \in {"OK", "CANCEL"} : Reads(line) /\ dialog_response' = line
  BY DEF ReadResponse
<1>2. /\ pipe \in Seq(Line) /\ pipe # <<>> /\ Head(pipe) = line
      /\ watch = "watching" /\ ConversationTypes
  BY <1>1 DEF Reads, PipeInv, ConversationTypes
<1>3. CASE line = "OK"
  <2>1. ChildState' = "answered"
    BY <1>1, <1>3 DEF ReadResponse, Finished, ChildState
  <2>2. HasOk(answers)
    BY <1>2, <1>3, LinesRead DEF PipeInv, PipeTells
  <2>3. ~Asked
    BY <2>2, AskedOrGranted DEF DialogInv
  <2>4. ~Told
    BY <2>3 DEF Told, Asked, PipeInv, PipeTells
  <2>5. Answer = pipe
    BY <1>2, <1>3 DEF Answer
  <2>6. ChildState = "ok"
    BY <1>2, <1>3, <2>4, <2>5, ChildIs
  <2>. QED
    BY <2>1, <2>6 DEF Conversed, Child!Next, Child!Accept
<1>4. CASE line = "CANCEL"
  <2>1. watch' = "finished"
    BY <1>1, <1>4 DEF ReadResponse, Finished
  <2>. QED
    BY <1>2, <2>1, ChildFinishes
<1>. QED
  BY <1>3, <1>4

LEMMA ChildStep ==
  DialogInv /\ PipeInv /\ [ConversationNext]_conversation => Conversed
<1>. SUFFICES ASSUME DialogInv, PipeInv, [ConversationNext]_conversation PROVE Conversed
  OBVIOUS
<1>0. ConversationTypes
  BY DEF PipeInv
<1>1. CASE DialogStep
  <2>1. watch' = watch
    BY <1>1 DEF DialogStep, window
  <2>. QED
    BY <1>1, <2>1, ChildSpeaks, ChildUnseen
<1>2. CASE ReadOn
  BY <1>2, ChildReadsOn
<1>3. CASE ReadResponse
  BY <1>3, ChildAnswers
<1>4. CASE ReadEnd
  <2>1. watch = "watching" /\ dialog_response' # "OK"
    BY <1>4 DEF ReadEnd, PipeInv, WatchTells
  <2>2. watch' = "finished"
    BY <1>4, <2>1 DEF ReadEnd, Finished
  <2>. QED
    BY <1>0, <2>1, <2>2, ChildFinishes
<1>5. CASE Destroy
  <2>1. watch \in {"watching", "answered"} /\ watch' = "destroyed"
    BY <1>5 DEF Destroy
  <2>. QED
    BY <1>0, <2>1, ChildFinishes
<1>6. CASE UNCHANGED conversation
  BY <1>6 DEF conversation, window, vars, Conversed, ChildState, Answer
<1>. QED
  BY <1>1, <1>2, <1>3, <1>4, <1>5, <1>6 DEF ConversationNext, WindowStep

\* What the window makes of its dialog is a conversation as DialogChild has it,
\* and as the manager's model lets every window have them: whatever is written,
\* read late, or cut short by the end of either side, it comes to one end, an OK
\* that was heard is not taken back, and none comes after a request to terminate.
THEOREM ChildImplemented == ConversationSpec => ImplementsChild
<1>1. ConversationInit => Child!Init
  <2>. SUFFICES ASSUME ConversationInit PROVE Child!Init
    OBVIOUS
  <2>1. pipe = <<>> /\ heard = {} /\ watch = "watching" /\ loop = "boot"
    BY DEF ConversationInit, Init
  <2>2. ChildState = "starting"
    BY <2>1 DEF ChildState, Answer
  <2>. QED
    BY <2>2 DEF Child!Init
<1>2. DialogInv /\ PipeInv /\ [ConversationNext]_conversation => [Child!Next]_ChildState
  BY ChildStep DEF Conversed
<1>. QED
  BY <1>1, <1>2, PipeInvariant, PTL DEF ConversationSpec, ImplementsChild, Child!Spec
=============================================================================
