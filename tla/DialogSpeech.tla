---------------------------- MODULE DialogSpeech ----------------------------
(***************************************************************************)
(* What the window may rely on in the lines it reads from the dialog: how  *)
(* many failures it hears of, when it is asked to terminate the dialog,    *)
(* and that an OK comes once, from a dialog that has an attempt left and   *)
(* that nobody has withdrawn from before the password was decided upon.    *)
(***************************************************************************)
EXTENDS Naturals

CONSTANT MaxFailures

VARIABLES
  notices,    \* NOTICE=AUTH FAILED lines
  asked,      \* REQUEST QUIT has been written
  ok,         \* RESPONSE=OK has been written
  withdrawn,  \* RESPONSE=CANCEL was written before there was a result
  over        \* the process has ended

vars == <<notices, asked, ok, withdrawn, over>>

Init == notices = 0 /\ ~asked /\ ~ok /\ ~withdrawn /\ ~over

Notice ==
  /\ ~over /\ ~ok /\ ~asked /\ notices < MaxFailures
  /\ notices' = notices + 1
  /\ UNCHANGED <<asked, ok, withdrawn, over>>

Ask ==
  /\ ~over /\ ~ok /\ ~asked /\ notices = MaxFailures
  /\ asked' = TRUE
  /\ UNCHANGED <<notices, ok, withdrawn, over>>

Grant ==
  /\ ~over /\ ~ok /\ ~withdrawn /\ notices < MaxFailures
  /\ ok' = TRUE
  /\ UNCHANGED <<notices, asked, withdrawn, over>>

\* A dialog that cannot lock at all grants and ends at once.
GrantAndEnd ==
  /\ ~over /\ ~ok /\ ~withdrawn /\ notices = 0
  /\ ok' = TRUE /\ over' = TRUE
  /\ UNCHANGED <<notices, asked, withdrawn>>

Withdraw ==
  /\ ~over /\ ~withdrawn
  /\ withdrawn' = TRUE
  /\ UNCHANGED <<notices, asked, ok, over>>

End == ~over /\ over' = TRUE /\ UNCHANGED <<notices, asked, ok, withdrawn>>

Next == Notice \/ Ask \/ Grant \/ GrantAndEnd \/ Withdraw \/ End

Spec == Init /\ [][Next]_vars
=============================================================================
