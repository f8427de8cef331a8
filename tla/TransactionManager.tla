------------------------- MODULE TransactionManager -------------------------
(***************************************************************************)
(* The InviteServerTransactionManager of sip_core as a state machine: the  *)
(* stack calls it for every INVITE and ACK that arrives and every INVITE   *)
(* response that leaves, in whatever order the network and the dialog      *)
(* produce, and polls it about every 10 ms.  The code's 500 ms (T1) is the *)
(* unit of Tick; the poll is much more frequent than that, so a Tick never *)
(* passes over a timer that is due.                                        *)
(***************************************************************************)
EXTENDS InviteServerTx

CONSTANTS
    CSeq,     \* the CSeq numbers of the INVITEs
    Status    \* the status codes the phone responds with

ASSUME CSeqAssumption == CSeq \subseteq Nat

ASSUME StatusAssumption == Status \subseteq 100 .. 699

VARIABLE transactions

vars == transactions

Init == transactions = {}

Invite(call, cseq) == transactions' = OnInvite(transactions, call, cseq)

Respond(call, cseq, status) ==
    transactions' = OnOutgoingResponse(transactions, call, cseq, status)

Ack(call, cseq) == transactions' = OnAck(transactions, call, cseq)

Poll == transactions' = PollTx(transactions)

Tick ==
    /\ \A t \in transactions : ~ Due(t)
    /\ transactions' = { Elapse(t) : t \in transactions }

Use(call, cseq) ==
    \/ Invite(call, cseq)
    \/ \E status \in Status : Respond(call, cseq, status)
    \/ Ack(call, cseq)

Next ==
    \/ \E call \in CallId, cseq \in CSeq : Use(call, cseq)
    \/ Poll
    \/ Tick

Fairness == WF_vars(Poll) /\ WF_vars(Tick)

Spec == Init /\ [][Next]_vars /\ Fairness

----------------------------------------------------------------------------
(* The shape of the list of transactions: what every record may hold. *)
TypeOK == transactions \subseteq Transaction

(* "find" is never ambiguous: the list that on_invite and                  *)
(* on_outgoing_response push to has one transaction per (Call-ID, CSeq).   *)
UniqueKeys ==
    \A t, u \in transactions : Matches(t, u.call_id, u.cseq) => t = u

(* A transaction that has a final response always has a deadline that      *)
(* removes it, whatever order INVITEs, responses and ACKs come in; one     *)
(* that has none is never resent and never removed by a timer.             *)
TimersArmed ==
    \A t \in transactions :
        /\ t.state = "Completed" =>
             t.deadline_h # None /\ t.next_timer_g # None /\ t.last_response # None
        /\ t.state = "Confirmed" => t.deadline_i # None /\ t.next_timer_g = None
        /\ t.state = "Proceeding" =>
             /\ t.next_timer_g = None /\ t.deadline_h = None /\ t.deadline_i = None
             /\ ~ IsFinal(t.last_response)

(* The times RFC 3261 gives to timer G after a final response: the nth     *)
(* interval is the double of the one before it, up to T2.                  *)
Interval[n \in 0 .. TimerH] ==
    IF n = 0 THEN T1 ELSE Backoff(Interval[n - 1])

Firing[n \in 0 .. TimerH] ==
    IF n = 0 THEN Interval[0] ELSE Firing[n - 1] + Interval[n]

(* A response that waits for its ACK is always on the RFC 3261 schedule:   *)
(* its next retransmission is at one of the firing times, counted from the *)
(* moment it was recorded, with the interval of that firing.               *)
OnSchedule ==
    \A t \in transactions :
        t.state = "Completed" =>
            \E n \in DOMAIN Firing :
                /\ TimerH - t.deadline_h + t.next_timer_g = Firing[n]
                /\ t.timer_g_interval = Interval[n]

(* No leak: a transaction that has a final response is removed, unless the *)
(* network and the phone go on using it for ever.                          *)
Answered(call, cseq) ==
    \E t \in transactions : Matches(t, call, cseq) /\ t.state # "Proceeding"

AnsweredExpires ==
    \A call \in CallId, cseq \in CSeq :
        \/ []<><<Use(call, cseq)>>_vars
        \/ Answered(call, cseq) ~> ~ Answered(call, cseq)
=============================================================================
