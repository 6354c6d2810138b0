--------------------------- MODULE MCClientScheduler ---------------------------
(***************************************************************************)
(* The scheduler against the abstract server grab.                         *)
(***************************************************************************)
EXTENDS ClientScheduler

Grab == INSTANCE ServerGrab WITH
    Nobody <- 0,
    holders <- holds, served <- IF pc = "execute" THEN cur ELSE 0

(* With no client impervious to grabs, the scheduler (UngrabServer, which  *)
(* does not ask who calls it, the descriptor sets, the round GrabKickout   *)
(* cuts short, the set-up of new connections) implements the server grab.  *)
ImplementsServerGrab == Grab!Spec
================================================================================
