----------------------------- MODULE PictureShow -----------------------------
(***************************************************************************)
(* The slideshow as one sequential program: wait, read the next picture,   *)
(* fade it in, wait again.  Who looks at the screen may rely on it whatever *)
(* the threads behind it do: the pictures come one at a time, each one     *)
(* read was there to be read, and in a pass through the directory each     *)
(* comes at most once, in order if an order was asked for.                 *)
(***************************************************************************)
EXTENDS Integers

CONSTANTS
  Files,    \* the paths the directory may hold, in their order
  Usable    \* those that a picture can be made of

Nothing == -1   \* no picture

VARIABLES
  directory,  \* the files there are
  sorted,     \* are the pictures to come in order?
  pass,       \* the files whose turn is still to come
  stage,      \* waiting, reading, read, fading, or stopped for good
  picture,    \* the picture that has been read, or fades in
  current     \* the one on the screen

show == <<directory, sorted, pass, stage, picture, current>>

Init ==
  /\ directory \subseteq Files /\ sorted \in BOOLEAN
  /\ pass = {}
  /\ stage = "waiting" /\ picture = Nothing /\ current = Nothing

Begin ==
  /\ stage = "waiting" /\ stage' = "reading"
  /\ UNCHANGED <<directory, sorted, pass, picture, current>>

\* A pass that has come to its end begins anew.
Remaining == IF pass = {} THEN directory ELSE pass

\* The turn of a file, which may be gone or of no use.
Read ==
  /\ stage = "reading" /\ stage' = "read"
  /\ \/ \E f \in Remaining :
          /\ sorted => \A g \in Remaining : f <= g
          /\ pass' = Remaining \ {f}
          /\ picture' = IF f \in directory \cap Usable THEN f ELSE Nothing
     \/ Remaining = {} /\ UNCHANGED <<pass, picture>>
  /\ UNCHANGED <<directory, sorted, current>>

Skip ==
  /\ stage = "read" /\ picture = Nothing /\ stage' = "waiting"
  /\ UNCHANGED <<directory, sorted, pass, picture, current>>

Fade ==
  /\ stage = "read" /\ picture # Nothing /\ stage' = "fading"
  /\ UNCHANGED <<directory, sorted, pass, picture, current>>

Show ==
  /\ stage = "fading" /\ stage' = "waiting"
  /\ current' = picture /\ picture' = Nothing
  /\ UNCHANGED <<directory, sorted, pass>>

\* A window without a size has nothing read for it.
Stop ==
  /\ stage = "reading" /\ stage' = "stopped"
  /\ UNCHANGED <<directory, sorted, pass, picture, current>>

FilesChange ==
  /\ directory' \subseteq Files
  /\ UNCHANGED <<sorted, pass, stage, picture, current>>

Next == Begin \/ Read \/ Skip \/ Fade \/ Show \/ Stop \/ FilesChange

Spec == Init /\ [][Next]_show
=============================================================================
