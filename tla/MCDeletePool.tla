---------------------------- MODULE MCDeletePool ----------------------------
(* Small instances of DeletePool for TLC.                                  *)
EXTENDS DeletePool
=============================================================================
