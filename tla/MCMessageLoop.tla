---------------------------- MODULE MCMessageLoop ----------------------------
(* MessageLoop for TLC.  The clock and the registrations stop at their      *)
(* bounds with every queue, so no constraint is needed.                     *)
EXTENDS MessageLoop
=============================================================================
