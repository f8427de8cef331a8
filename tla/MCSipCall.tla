------------------------------ MODULE MCSipCall ------------------------------
(* SipCall for TLC: the callers of each run, by what their INVITEs offer.  *)
EXTENDS SipCall, TLC

CONSTANTS c1, c2, c3, c4

OneCall == {c1}
ThreeCalls == {c1, c2, c3}
FourCalls == {c1, c2, c3, c4}

(* Nothing tells these two apart: they offer the same. *)
Alike == Permutations({c1, c2})

NoCalls == {}

(* Every INVITE offers media. *)
MediaOffer == [x \in CallId \X CSeq |-> "media"]

(* A caller who opens with media and goes on hold, one that leaves the     *)
(* offer to the phone, and one whose SDP the phone rejects.                *)
MixedOffer ==
    [x \in CallId \X CSeq |-> CASE x[1] = c1 -> IF x[2] = 1 THEN "media" ELSE "hold"
                                [] x[1] = c2 -> "none"
                                [] OTHER -> "bad"]
=============================================================================
