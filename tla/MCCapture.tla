----------------------------- MODULE MCCapture -----------------------------
(***************************************************************************)
(* The instance of CaptureSession that the runs check.                     *)
(***************************************************************************)
EXTENDS CaptureSession

MCTimes == Tokens \ {Nobody}

\* One place, or two captures that may be too large together.
MCLimits == {[count |-> 1, bytes |-> 2], [count |-> 2, bytes |-> 3]}
=============================================================================
