----------------------------- MODULE MCSession ------------------------------
(* Session with two threads in one process and one in another. *)
EXTENDS Session, TLC

CONSTANTS t1, t2, t3, p1, p2

Placement == (t1 :> p1) @@ (t2 :> p1) @@ (t3 :> p2)
=============================================================================
