------------------------------- MODULE MCWatcher -------------------------------
(***************************************************************************)
(* Small instances of Watcher: two roots.                                  *)
(***************************************************************************)
EXTENDS Watcher, TLC

CONSTANTS r1, r2

MCRoots == {r1, r2}
===============================================================================
