--------------------------- MODULE InviteServerTx ---------------------------
(***************************************************************************)
(* One INVITE server transaction of sip_core, and the operations the       *)
(* InviteServerTransactionManager applies to its list of transactions.     *)
(*                                                                         *)
(* The Vec of transactions is a set of records: "find" takes the first     *)
(* record that matches (Call-ID, CSeq), and every operation below applies  *)
(* to the matching records, which is the same thing as long as no two      *)
(* records have the same key (UniqueKeys of TransactionManager).           *)
(*                                                                         *)
(* An Option<Instant> is the number of ticks left before it is due, 0 when *)
(* it is due and None when it is not set.  A response is its status code.  *)
(* The remote address is left out: the SIP socket is connected to the      *)
(* registrar, so that all the calls come from the same address.            *)
(***************************************************************************)
EXTENDS Integers

CONSTANTS
    CallId,   \* the Call-IDs of the INVITEs
    T1,       \* first retransmission interval, in ticks
    T2,       \* longest retransmission interval
    TimerH,   \* how long a final response waits for its ACK
    TimerI    \* how long a transaction is kept after the ACK

ASSUME TimerAssumption ==
    /\ T1 \in Nat \ {0}
    /\ T2 \in Nat /\ T1 <= T2
    /\ TimerH \in Nat /\ T2 < TimerH
    /\ TimerI \in Nat \ {0}

None == -1

IsFinal(status) == status >= 200

TxState == {"Proceeding", "Completed", "Confirmed"}

Timer(limit) == (0 .. limit) \cup {None}

LastResponse == (100 .. 699) \cup {None}

Transaction ==
    [call_id          : CallId,
     cseq             : Nat,
     state            : TxState,
     last_response    : LastResponse,
     timer_g_interval : 1 .. T2,
     next_timer_g     : Timer(T2),
     deadline_h       : Timer(TimerH),
     deadline_i       : Timer(TimerI)]

NewTransaction(call, cseq) ==
    [call_id |-> call, cseq |-> cseq, state |-> "Proceeding",
     last_response |-> None, timer_g_interval |-> T1,
     next_timer_g |-> None, deadline_h |-> None, deadline_i |-> None]

Matches(t, call, cseq) == t.call_id = call /\ t.cseq = cseq

Known(txs, call, cseq) == \E t \in txs : Matches(t, call, cseq)

----------------------------------------------------------------------------
(* The transaction *)

(* Mutant: timer G starts again with the interval it had backed off to. *)
UpdateKeepingInterval(t, status) ==
    IF IsFinal(status)
    THEN [t EXCEPT !.last_response = status, !.state = "Completed", !.next_timer_g = T1,
                   !.deadline_h = TimerH, !.deadline_i = None]
    ELSE [t EXCEPT !.last_response = status]

UpdateWithResponse(t, status) ==
    IF IsFinal(status)
    THEN [t EXCEPT !.last_response = status, !.state = "Completed",
                   !.timer_g_interval = T1, !.next_timer_g = T1,
                   !.deadline_h = TimerH, !.deadline_i = None]
    ELSE [t EXCEPT !.last_response = status]

(* Mutant: the ACK does not arm timer I. *)
ConfirmUnarmed(t) == [t EXCEPT !.state = "Confirmed", !.next_timer_g = None]

Confirm(t) ==
    [t EXCEPT !.state = "Confirmed", !.next_timer_g = None, !.deadline_i = TimerI]

GivesUp(t) == t.state = "Completed" /\ t.deadline_h = 0

Retransmits(t) ==
    /\ t.state = "Completed"
    /\ t.deadline_h > 0
    /\ t.next_timer_g = 0
    /\ t.last_response # None

(* Mutant: the interval is doubled without its cap. *)
BackoffUncapped(interval) == 2 * interval

Backoff(interval) == IF 2 * interval < T2 THEN 2 * interval ELSE T2

MaybeRetransmit(t) ==
    IF Retransmits(t)
    THEN [t EXCEPT !.timer_g_interval = Backoff(@),
                   !.next_timer_g = Backoff(t.timer_g_interval)]
    ELSE IF GivesUp(t) THEN [t EXCEPT !.next_timer_g = None] ELSE t

(* Mutant: a confirmed transaction is not removed. *)
ExpiredWithoutAck(t) == t.state = "Completed" /\ t.deadline_h = 0

Expired(t) ==
    \/ t.state = "Completed" /\ t.deadline_h = 0
    \/ t.state = "Confirmed" /\ t.deadline_i = 0

----------------------------------------------------------------------------
(* The manager *)

(* Mutant: a transaction is pushed without looking for an existing one. *)
OnInviteUnchecked(txs, call, cseq) == txs \cup {NewTransaction(call, cseq)}

OnInvite(txs, call, cseq) ==
    IF Known(txs, call, cseq) THEN txs ELSE txs \cup {NewTransaction(call, cseq)}

OnOutgoingResponse(txs, call, cseq, status) ==
    { IF Matches(t, call, cseq) THEN UpdateWithResponse(t, status) ELSE t :
        t \in OnInvite(txs, call, cseq) }

OnAck(txs, call, cseq) ==
    { IF Matches(t, call, cseq) THEN Confirm(t) ELSE t : t \in txs }

PollTx(txs) == { u \in { MaybeRetransmit(t) : t \in txs } : ~ Expired(u) }

----------------------------------------------------------------------------
(* Time: one tick less on every timer, and what the next poll has to do. *)

CountDown(timer) == IF timer > 0 THEN timer - 1 ELSE timer

Elapse(t) ==
    [t EXCEPT !.next_timer_g = CountDown(@), !.deadline_h = CountDown(@),
              !.deadline_i = CountDown(@)]

Due(t) == Expired(t) \/ Retransmits(t)
=============================================================================
