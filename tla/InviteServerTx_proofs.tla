------------------------ MODULE InviteServerTx_proofs ------------------------
(***************************************************************************)
(* What the operations of InviteServerTx preserve: each one keeps a        *)
(* transaction well formed, its timers armed as its state demands and its  *)
(* key unchanged, and so keeps a list of transactions well kept.           *)
(***************************************************************************)
EXTENDS InviteServerTx, TLAPS

(* The timers of one record. *)
Armed(t) ==
    /\ t.state = "Completed" =>
         t.deadline_h # None /\ t.next_timer_g # None /\ t.last_response # None
    /\ t.state = "Confirmed" => t.deadline_i # None /\ t.next_timer_g = None
    /\ t.state = "Proceeding" =>
         /\ t.next_timer_g = None /\ t.deadline_h = None /\ t.deadline_i = None
         /\ ~ IsFinal(t.last_response)

SameKey(t, u) == t.call_id = u.call_id /\ t.cseq = u.cseq

Good(t) == t \in Transaction /\ Armed(t)

UniqueIn(txs) == \A t, u \in txs : Matches(t, u.call_id, u.cseq) => t = u

WellKept(txs) == (\A t \in txs : Good(t)) /\ UniqueIn(txs)

(* A pushed transaction is well formed: no timer, no response. *)
LEMMA NewGood ==
    ASSUME NEW call \in CallId, NEW cseq \in Nat
    PROVE  Good(NewTransaction(call, cseq))
BY TimerAssumption DEF Good, Armed, Transaction, NewTransaction, LastResponse, TxState, Timer, None, IsFinal

(* update_with_response keeps the key and arms timers G and H exactly when *)
(* the response is final.                                                  *)
LEMMA UpdateGood ==
    ASSUME NEW t, Good(t), NEW status \in 100 .. 699
    PROVE  Good(UpdateWithResponse(t, status)) /\ SameKey(UpdateWithResponse(t, status), t)
<1> DEFINE r == UpdateWithResponse(t, status)
<1>1. CASE IsFinal(status)
  <2>1. r = [t EXCEPT !.last_response = status, !.state = "Completed",
                      !.timer_g_interval = T1, !.next_timer_g = T1,
                      !.deadline_h = TimerH, !.deadline_i = None]
    BY <1>1 DEF UpdateWithResponse
  <2>a. /\ status \in LastResponse /\ "Completed" \in TxState
        /\ T1 \in 1 .. T2 /\ T1 \in Timer(T2)
        /\ TimerH \in Timer(TimerH) /\ None \in Timer(TimerI)
    BY TimerAssumption DEF TxState, Timer, LastResponse
  <2>b. t \in Transaction
    BY DEF Good
  <2> DEFINE armed == [t EXCEPT !.next_timer_g = T1, !.deadline_h = TimerH, !.deadline_i = None]
  <2>c. armed \in Transaction
    BY <2>a, <2>b DEF Transaction
  <2>d. r = [armed EXCEPT !.last_response = status, !.state = "Completed",
                          !.timer_g_interval = T1]
    BY <2>1, <2>b DEF Transaction
  <2>2. r \in Transaction
    <3> HIDE DEF armed, r
    <3>1. ASSUME NEW u \in Transaction,
                 NEW x \in LastResponse, NEW s \in TxState, NEW d \in 1 .. T2
          PROVE  [u EXCEPT !.last_response = x, !.state = s, !.timer_g_interval = d] \in Transaction
      BY DEF Transaction
    <3> QED
      BY <3>1, <2>a, <2>c, <2>d
  <2>3. Armed(r) /\ SameKey(r, t)
    BY <2>1, TimerAssumption DEF Good, Armed, SameKey, Transaction, None
  <2> QED
    BY <2>2, <2>3 DEF Good
<1>2. CASE ~ IsFinal(status)
  <2>1. r = [t EXCEPT !.last_response = status]
    BY <1>2 DEF UpdateWithResponse
  <2>2. r \in Transaction
    BY <2>1 DEF Good, Transaction, LastResponse
  <2>3. Armed(r) /\ SameKey(r, t)
    BY <1>2, <2>1 DEF Good, Armed, SameKey, Transaction, None, IsFinal
  <2> QED
    BY <2>2, <2>3 DEF Good
<1> QED
  BY <1>1, <1>2

(* The ACK keeps the key, stops timer G and arms timer I. *)
LEMMA ConfirmGood ==
    ASSUME NEW t, Good(t)
    PROVE  Good(Confirm(t)) /\ SameKey(Confirm(t), t)
<1>a. "Confirmed" \in TxState /\ None \in Timer(T2) /\ TimerI \in Timer(TimerI)
  BY TimerAssumption DEF TxState, Timer
<1>b. t \in Transaction
  BY DEF Good
<1>1. Confirm(t) \in Transaction
  BY <1>a, <1>b DEF Transaction, Confirm
<1>2. Armed(Confirm(t)) /\ SameKey(Confirm(t), t)
  BY TimerAssumption DEF Good, Armed, SameKey, Transaction, Confirm, None
<1> QED
  BY <1>1, <1>2 DEF Good

(* maybe_retransmit keeps the key; what it leaves unarmed, retain removes. *)
LEMMA RetransmitGood ==
    ASSUME NEW t, Good(t), ~ Expired(MaybeRetransmit(t))
    PROVE  Good(MaybeRetransmit(t))
<1>1. CASE Retransmits(t)
  <2> DEFINE b == Backoff(t.timer_g_interval)
             r == [t EXCEPT !.timer_g_interval = b, !.next_timer_g = b]
  <2>1. MaybeRetransmit(t) = r
    BY <1>1 DEF MaybeRetransmit
  <2>2. b \in 1 .. T2
    BY TimerAssumption DEF Good, Transaction, Backoff
  <2>a. b \in Timer(T2)
    BY <2>2, TimerAssumption DEF Timer
  <2>b. t \in Transaction
    BY DEF Good
  <2> HIDE DEF b
  <2>3. r \in Transaction
    BY <2>2, <2>a, <2>b DEF Transaction
  <2>4. Armed(r)
    BY <1>1, <2>2 DEF Good, Armed, Transaction, Retransmits, None
  <2> QED
    BY <2>1, <2>3, <2>4 DEF Good
<1>2. CASE ~ Retransmits(t) /\ ~ GivesUp(t)
  BY <1>2 DEF MaybeRetransmit
<1>3. CASE ~ Retransmits(t) /\ GivesUp(t)
  <2>1. MaybeRetransmit(t) = [t EXCEPT !.next_timer_g = None]
    BY <1>3 DEF MaybeRetransmit
  <2>2. Expired(MaybeRetransmit(t))
    BY <1>3, <2>1 DEF Good, Transaction, GivesUp, Expired
  <2> QED
    BY <2>2
<1> QED
  BY <1>1, <1>2, <1>3

LEMMA RetransmitKey ==
    ASSUME NEW t, Good(t)
    PROVE  SameKey(MaybeRetransmit(t), t)
BY DEF Good, SameKey, Transaction, MaybeRetransmit

(* The passing of time keeps the key and unsets no timer. *)
LEMMA ElapseGood ==
    ASSUME NEW t, Good(t)
    PROVE  Good(Elapse(t)) /\ SameKey(Elapse(t), t)
<1>1. ASSUME NEW limit \in Nat, NEW timer \in Timer(limit)
      PROVE  CountDown(timer) \in Timer(limit) /\ (CountDown(timer) = None <=> timer = None)
  BY DEF Timer, CountDown, None
<1>2. /\ t.next_timer_g \in Timer(T2)
      /\ t.deadline_h \in Timer(TimerH)
      /\ t.deadline_i \in Timer(TimerI)
  BY DEF Good, Transaction
<1> DEFINE g == CountDown(t.next_timer_g)
           h == CountDown(t.deadline_h)
           i == CountDown(t.deadline_i)
<1>3. /\ g \in Timer(T2) /\ (g = None <=> t.next_timer_g = None)
      /\ h \in Timer(TimerH) /\ (h = None <=> t.deadline_h = None)
      /\ i \in Timer(TimerI) /\ (i = None <=> t.deadline_i = None)
  BY <1>1, <1>2, TimerAssumption
<1>4. Elapse(t) = [t EXCEPT !.next_timer_g = g, !.deadline_h = h, !.deadline_i = i]
  BY DEF Elapse
<1> HIDE DEF g, h, i
<1>b. t \in Transaction
  BY DEF Good
<1>5. Elapse(t) \in Transaction
  <2>1. g \in Timer(T2) /\ h \in Timer(TimerH) /\ i \in Timer(TimerI)
    BY <1>3
  <2> HIDE DEF g, h, i
  <2>2. [t EXCEPT !.next_timer_g = g, !.deadline_h = h, !.deadline_i = i] \in Transaction
    BY <2>1, <1>b DEF Transaction
  <2> QED
    BY <2>2, <1>4
<1>6. Armed(Elapse(t)) /\ SameKey(Elapse(t), t)
  BY <1>3, <1>4 DEF Good, Armed, SameKey, Transaction
<1> QED
  BY <1>5, <1>6 DEF Good

----------------------------------------------------------------------------
(* The operations of the manager, on any well kept list. *)

(* on_invite pushes a new transaction only under a key nobody has. *)
LEMMA OnInviteKept ==
    ASSUME NEW txs, WellKept(txs), NEW call \in CallId, NEW cseq \in Nat
    PROVE  WellKept(OnInvite(txs, call, cseq))
<1> DEFINE new == NewTransaction(call, cseq)
<1>1. Good(new)
  BY NewGood
<1>2. CASE Known(txs, call, cseq)
  BY <1>2 DEF OnInvite
<1>3. CASE ~ Known(txs, call, cseq)
  <2>1. OnInvite(txs, call, cseq) = txs \cup {new}
    BY <1>3 DEF OnInvite
  <2>2. new.call_id = call /\ new.cseq = cseq
    BY DEF NewTransaction
  <2>3. \A t \in txs : ~ Matches(t, new.call_id, new.cseq) /\ ~ Matches(new, t.call_id, t.cseq)
    BY <1>3, <2>2 DEF Known, Matches
  <2> QED
    BY <1>1, <2>1, <2>3 DEF WellKept, UniqueIn
<1> QED
  BY <1>2, <1>3

(* on_outgoing_response, with the INVITE's transaction or without it. *)
LEMMA OnOutgoingResponseKept ==
    ASSUME NEW txs, WellKept(txs), NEW call \in CallId, NEW cseq \in Nat,
           NEW status \in 100 .. 699
    PROVE  WellKept(OnOutgoingResponse(txs, call, cseq, status))
<1> DEFINE all == OnInvite(txs, call, cseq)
           f(t) == IF Matches(t, call, cseq) THEN UpdateWithResponse(t, status) ELSE t
<1>1. WellKept(all)
  BY OnInviteKept
<1>2. \A t \in all : Good(f(t)) /\ SameKey(f(t), t)
  <2> HIDE DEF all
  <2>1. SUFFICES ASSUME NEW t \in all PROVE Good(f(t)) /\ SameKey(f(t), t)
    OBVIOUS
  <2>2. Good(t)
    BY <1>1, <2>1 DEF WellKept
  <2>3. CASE Matches(t, call, cseq)
    <3>1. f(t) = UpdateWithResponse(t, status)
      BY <2>3
    <3>2. Good(UpdateWithResponse(t, status)) /\ SameKey(UpdateWithResponse(t, status), t)
      BY <2>2, UpdateGood
    <3> QED
      BY <3>1, <3>2
  <2>4. CASE ~ Matches(t, call, cseq)
    <3>1. f(t) = t
      BY <2>4
    <3> QED
      BY <2>2, <3>1 DEF SameKey
  <2> QED
    BY <2>3, <2>4
<1>3. OnOutgoingResponse(txs, call, cseq, status) = { f(t) : t \in all }
  BY DEF OnOutgoingResponse
<1> HIDE DEF f, all
<1> QED
  BY <1>1, <1>2, <1>3 DEF WellKept, UniqueIn, SameKey, Matches

(* on_ack. *)
LEMMA OnAckKept ==
    ASSUME NEW txs, WellKept(txs), NEW call, NEW cseq
    PROVE  WellKept(OnAck(txs, call, cseq))
<1> DEFINE f(t) == IF Matches(t, call, cseq) THEN Confirm(t) ELSE t
<1>1. \A t \in txs : Good(f(t)) /\ SameKey(f(t), t)
  BY ConfirmGood DEF SameKey, WellKept
<1>2. OnAck(txs, call, cseq) = { f(t) : t \in txs }
  BY DEF OnAck
<1> HIDE DEF f
<1> QED
  BY <1>1, <1>2 DEF WellKept, UniqueIn, SameKey, Matches

(* poll: what a give-up leaves unarmed is removed by the same call. *)
LEMMA PollTxKept ==
    ASSUME NEW txs, WellKept(txs)
    PROVE  WellKept(PollTx(txs))
<1>1. \A u \in PollTx(txs) : \E t \in txs : u = MaybeRetransmit(t) /\ ~ Expired(u)
  BY DEF PollTx
<1>2. \A u \in PollTx(txs) : Good(u)
  BY <1>1, RetransmitGood DEF WellKept
<1>3. \A u, v \in PollTx(txs) : Matches(u, v.call_id, v.cseq) => u = v
  BY <1>1, RetransmitKey DEF WellKept, UniqueIn, SameKey, Matches
<1> QED
  BY <1>2, <1>3 DEF WellKept, UniqueIn

(* Time passes for every transaction at once. *)
LEMMA ElapseKept ==
    ASSUME NEW txs, WellKept(txs)
    PROVE  WellKept({ Elapse(t) : t \in txs })
<1>1. \A t \in txs : Good(Elapse(t)) /\ SameKey(Elapse(t), t)
  BY ElapseGood DEF WellKept
<1> QED
  BY <1>1 DEF WellKept, UniqueIn, SameKey, Matches
=============================================================================
