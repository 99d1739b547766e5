---------------------------- MODULE MCX11Session ----------------------------
(***************************************************************************)
(* Instances of X11Session, and so of GSGrab, for TLC.                     *)
(***************************************************************************)
EXTENDS X11Session

Setting(enabled, lock, at_once) ==
  [enabled |-> enabled, lock_enabled |-> lock, lock_with_saver |-> TRUE,
   lock_at_once |-> at_once]

\* Lock at once, do not lock (but the lock timeout runs), and no saver at all.
MCPrefs == {Setting(TRUE, TRUE, TRUE), Setting(TRUE, FALSE, FALSE),
            Setting(FALSE, TRUE, FALSE)}
=============================================================================
