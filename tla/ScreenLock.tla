----------------------------- MODULE ScreenLock -----------------------------
(***************************************************************************)
(* What the saver promises the person who left the session: a screen that  *)
(* is off duty, blanked, or blanked and locked.  A locked screen is left   *)
(* only on a decision, and a decision to leave is taken only while the     *)
(* screen is not locked or once the dialog granted access.  The decision   *)
(* and its execution are two steps, and nothing that happens in between    *)
(* revokes the decision unless the windows are rebuilt.                    *)
(***************************************************************************)
CONSTANT Dismissal  \* may the session's owner end the saver by a call? (a BOOLEAN)

VARIABLES
  screen,   \* off, on (blanked) or locked
  granted,  \* has the dialog answered OK?
  leaving   \* was it decided to leave the screen?

state == <<screen, granted, leaving>>

TypeOK ==
  /\ screen \in {"off", "on", "locked"}
  /\ granted \in BOOLEAN
  /\ leaving \in BOOLEAN

Init == screen = "off" /\ ~granted /\ ~leaving

Engage ==
  /\ screen = "off"
  /\ screen' \in {"on", "locked"}
  /\ UNCHANGED <<granted, leaving>>

Lock ==
  /\ screen = "on"
  /\ screen' = "locked"
  /\ UNCHANGED <<granted, leaving>>

Grant ==
  /\ screen = "locked"
  /\ granted' = TRUE
  /\ UNCHANGED <<screen, leaving>>

Decide ==
  /\ screen = "on" \/ (screen = "locked" /\ granted)
  /\ leaving' = TRUE
  /\ UNCHANGED <<screen, granted>>

\* Another decision may still wait when one is carried out.
Leave ==
  /\ screen # "off"
  /\ leaving
  /\ screen' = "off"
  /\ granted' = FALSE
  /\ leaving' \in BOOLEAN

\* The screen was left already.
Settle ==
  /\ screen = "off"
  /\ leaving
  /\ leaving' = FALSE
  /\ UNCHANGED <<screen, granted>>

\* The windows are rebuilt: what they knew is forgotten, and the screen may
\* be locked on the occasion, never unlocked.
Rebuild ==
  /\ screen # "off"
  /\ screen' \in {screen, "locked"}
  /\ granted' = FALSE
  /\ leaving' \in {leaving, FALSE}

Dismiss ==
  /\ Dismissal
  /\ screen # "off"
  /\ screen' = "off"
  /\ granted' = FALSE
  /\ leaving' \in {leaving, FALSE}

Next ==
  Engage \/ Lock \/ Grant \/ Decide \/ Leave \/ Settle \/ Rebuild \/ Dismiss

Spec == Init /\ [][Next]_state

-----------------------------------------------------------------------------
\* A screen that is locked when it is left was left with access granted, or
\* on a decision taken before it was locked, or on a call.
LeftForAReason ==
  [][screen = "locked" /\ screen' = "off" => granted \/ leaving \/ Dismissal]_state

\* Nothing short of leaving the screen unlocks it.
StaysLocked == [][screen = "locked" => screen' \in {"locked", "off"}]_state
=============================================================================
