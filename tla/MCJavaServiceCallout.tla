------------------------ MODULE MCJavaServiceCallout ------------------------
(* ServiceCallout for TLC: only the bounds are set.                          *)
EXTENDS JavaServiceCallout
=============================================================================
