----------------------------- MODULE MCSession -----------------------------
(***************************************************************************)
(* A session of a few levels over pipes that hold one or two messages.     *)
(***************************************************************************)
EXTENDS Session
=============================================================================
