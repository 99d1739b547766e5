-------------------------- MODULE MCWaylandSession --------------------------
(***************************************************************************)
(* Instances of WaylandSession for TLC.                                    *)
(***************************************************************************)
EXTENDS WaylandSession

Setting(enabled, lock, with_saver, at_once) ==
  [enabled |-> enabled, lock_enabled |-> lock, lock_with_saver |-> with_saver,
   lock_at_once |-> at_once]

\* Lock at once or later, with the lock screen disabled or not; do not lock with
\* the saver; and no saver at all, which leaves the lock timeout as it was.
MCPrefs == {Setting(TRUE, TRUE, TRUE, TRUE), Setting(TRUE, TRUE, TRUE, FALSE),
            Setting(TRUE, FALSE, TRUE, TRUE), Setting(TRUE, FALSE, TRUE, FALSE),
            Setting(TRUE, TRUE, FALSE, TRUE), Setting(FALSE, TRUE, TRUE, FALSE)}
=============================================================================
