--------------------------------- MODULE Sdp ---------------------------------
(***************************************************************************)
(* Session descriptions: a body is a sequence of lines, and a line is what *)
(* the parser tells apart.  A line it cannot accept (with no "=", with too *)
(* few fields, a medium that is not audio, an rtpmap without a codec) is   *)
(* Malformed whatever its kind; one that it skips is Other.                *)
(***************************************************************************)
EXTENDS Integers, Sequences, SequencesExt

None == -1

Malformed == [is |-> "malformed"]

Other == [is |-> "other"]

Origin == [is |-> "o"]

Connection(address) == [is |-> "c", address |-> address]

(* port is None when it is not a number of 16 bits. *)
Media(port) == [is |-> "m", port |-> port]

(* pt is None when it is not a number of 8 bits. *)
Rtpmap(pt, codec) == [is |-> "rtpmap", pt |-> pt, codec |-> codec]

NothingRead == [origin |-> FALSE, address |-> None, port |-> None, payload_type |-> None]

(* Mutant: the first connection line counts. *)
ReadFirstAddress(sdp, line) ==
    CASE line.is = "o" -> [sdp EXCEPT !.origin = TRUE]
      [] line.is = "c" -> IF sdp.address = None THEN [sdp EXCEPT !.address = line.address] ELSE sdp
      [] line.is = "m" -> [sdp EXCEPT !.port = line.port]
      [] line.is = "rtpmap" /\ line.codec = "PCMU" -> [sdp EXCEPT !.payload_type = line.pt]
      [] OTHER -> sdp

(* Whatever a line says outweighs what an earlier line said. *)
Read(sdp, line) ==
    CASE line.is = "o" -> [sdp EXCEPT !.origin = TRUE]
      [] line.is = "c" -> [sdp EXCEPT !.address = line.address]
      [] line.is = "m" -> [sdp EXCEPT !.port = line.port]
      [] line.is = "rtpmap" /\ line.codec = "PCMU" -> [sdp EXCEPT !.payload_type = line.pt]
      [] OTHER -> sdp

Refused == [address |-> None, port |-> None, payload_type |-> None]

(* What is left missing refuses the body, as does a malformed line. *)
Parse(lines) ==
    LET sdp == FoldLeft(Read, NothingRead, lines)
    IN  IF \/ Malformed \in ToSet(lines)
           \/ ~ sdp.origin \/ sdp.address = None \/ sdp.port = None \/ sdp.payload_type = None
        THEN Refused
        ELSE [address |-> sdp.address, port |-> sdp.port, payload_type |-> sdp.payload_type]

Render(sdp) ==
    <<Other, Origin, Other, Connection(sdp.address), Other,
      Media(sdp.port), Rtpmap(sdp.payload_type, "PCMU")>>
=============================================================================
