---------------------------- MODULE MCCopyImages ----------------------------
EXTENDS CopyImages

(* Thread-safe and serial calls share the semaphore. *)
MCThreadSafe == [c \in Copies |-> c # "serial"]
=============================================================================
