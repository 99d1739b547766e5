---------------------------- MODULE MCGSManager ----------------------------
(***************************************************************************)
(* GSManager on one or two monitors, with settings that lock at once, lock *)
(* after a while (and cycle themes), or never lock.                        *)
(***************************************************************************)
EXTENDS GSManager, TLC

Setting(enabled, now, random) ==
  [lock_enabled |-> enabled, lock_with_saver |-> TRUE, lock_now |-> now,
   random |-> random]

LocksAtOnce == Setting(TRUE, TRUE, FALSE)
LocksLater  == Setting(TRUE, FALSE, TRUE)
NeverLocks  == Setting(FALSE, TRUE, FALSE)

MCPrefs   == {LocksAtOnce, LocksLater, NeverLocks}
MCLater   == {LocksLater, NeverLocks}

Symmetry == Permutations(Monitors)
=============================================================================
