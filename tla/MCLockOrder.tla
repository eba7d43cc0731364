---------------------------- MODULE MCLockOrder -------------------------------
(* One user, whose week has two entries, and two requests. *)
EXTENDS LockOrder

CONSTANTS u1, e1, e2
Entries == u1 :> {e1, e2}
===============================================================================
