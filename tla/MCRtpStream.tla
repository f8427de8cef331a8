---------------------------- MODULE MCRtpStream ----------------------------
(* RtpStream for TLC: the callers are alike. *)
EXTENDS RtpStream, TLC

Callers == Permutations(Caller)
=============================================================================
