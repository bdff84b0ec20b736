------------------------------ MODULE MCWatcher ------------------------------
(* TLC instances of Watcher. *)
EXTENDS Watcher, TLC

CONSTANTS s1, s2
==============================================================================
