-------------------------- MODULE MCGSListenerDBus --------------------------
(***************************************************************************)
(* GSListenerDBus with two clients.                                        *)
(***************************************************************************)
EXTENDS GSListenerDBus, TLC

Symmetry == Permutations(Cookies)
=============================================================================
