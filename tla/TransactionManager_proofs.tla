---------------------- MODULE TransactionManager_proofs ----------------------
(***************************************************************************)
(* Type correctness, unique keys, the timer discipline, the schedule of    *)
(* retransmissions and the removal of the INVITE server transactions, for  *)
(* any set of Call-IDs and CSeq numbers and any timer values that satisfy  *)
(* TimerAssumption.                                                        *)
(***************************************************************************)
EXTENDS TransactionManager, InviteServerTx_proofs, WellFoundedInduction

IInv == WellKept(transactions)

(* The strengthened invariant is inductive: one lemma per operation. *)
THEOREM Inductive == IInv /\ [Next]_vars => IInv'
<1> SUFFICES ASSUME IInv, [Next]_vars PROVE IInv'
  OBVIOUS
<1> USE DEF IInv
<1>0. CSeq \subseteq Nat /\ Status \subseteq 100 .. 699
  BY CSeqAssumption, StatusAssumption
<1>1. ASSUME NEW call \in CallId, NEW cseq \in CSeq, Invite(call, cseq) PROVE IInv'
  BY <1>0, <1>1, OnInviteKept DEF Invite
<1>2. ASSUME NEW call \in CallId, NEW cseq \in CSeq, NEW status \in Status,
             Respond(call, cseq, status)
      PROVE  IInv'
  BY <1>0, <1>2, OnOutgoingResponseKept DEF Respond
<1>3. ASSUME NEW call \in CallId, NEW cseq \in CSeq, Ack(call, cseq) PROVE IInv'
  BY <1>3, OnAckKept DEF Ack
<1>4. CASE Poll
  BY <1>4, PollTxKept DEF Poll
<1>5. CASE Tick
  BY <1>5, ElapseKept DEF Tick
<1>6. CASE UNCHANGED vars
  BY <1>6 DEF vars
<1> QED
  BY <1>1, <1>2, <1>3, <1>4, <1>5, <1>6 DEF Next, Use

LEMMA Invariant == Spec => []IInv
<1>1. Init => IInv
  BY DEF Init, IInv, WellKept, UniqueIn
<1> QED
  BY <1>1, Inductive, PTL DEF Spec

(* Every transaction the manager holds is well formed. *)
THEOREM TypeCorrect == Spec => []TypeOK
<1>1. IInv => TypeOK
  BY DEF IInv, WellKept, Good, TypeOK
<1> QED
  BY <1>1, Invariant, PTL

(* The list never holds two transactions of the same (Call-ID, CSeq), so   *)
(* the record that "find" returns is the only one there is.                *)
THEOREM KeysAreUnique == Spec => []UniqueKeys
<1>1. IInv => UniqueKeys
  BY DEF IInv, WellKept, UniqueIn, UniqueKeys
<1> QED
  BY <1>1, Invariant, PTL

(* Whatever the order of INVITEs, responses, ACKs and polls, a transaction *)
(* with a final response has its deadline, and one without has no timer.   *)
THEOREM TimersAreArmed == Spec => []TimersArmed
<1>1. IInv => TimersArmed
  BY DEF IInv, WellKept, Good, Armed, TimersArmed
<1> QED
  BY <1>1, Invariant, PTL

----------------------------------------------------------------------------
(* The schedule. *)

(* A set of naturals that has 0, and with a number the next, has all. *)
LEMMA SetInduction ==
    ASSUME NEW S, 0 \in S, \A n \in Nat : n \in S => n + 1 \in S
    PROVE  \A n \in Nat : n \in S
<1> DEFINE R == { ss \in Nat \X Nat : ss[1] < ss[2] }
           T == { n \in Nat : n \notin S }
<1>1. IsWellFoundedOn(R, Nat)
  BY NatLessThanWellFounded DEF OpToRel
<1>2. \A x, y \in Nat : <<y, x>> \in R <=> y < x
  OBVIOUS
<1> HIDE DEF R
<1>3. SUFFICES ASSUME T # {} PROVE FALSE
  OBVIOUS
<1>4. PICK x \in T : \A y \in T : ~ (<<y, x>> \in R)
  <2>1. T \subseteq Nat
    OBVIOUS
  <2> HIDE DEF T
  <2> QED BY <1>1, <1>3, <2>1, WFMin
<1>5. x # 0 /\ x - 1 \in Nat /\ x - 1 < x /\ (x - 1) + 1 = x
  BY <1>4
<1>6. x - 1 \in S
  <2>1. x - 1 \notin T
    BY <1>2, <1>4, <1>5
  <2> QED BY <1>5, <2>1
<1> QED BY <1>4, <1>5, <1>6

(* The definitions of Interval and Firing define functions: those that     *)
(* start like them, up to any firing, exist.                               *)
IntervalUpTo(f, m) == f = [n \in 0 .. m |-> IF n = 0 THEN T1 ELSE Backoff(f[n - 1])]

FiringUpTo(f, m) == f = [n \in 0 .. m |-> IF n = 0 THEN Interval[0] ELSE f[n - 1] + Interval[n]]

LEMMA IntervalExists == \A m \in Nat : \E f : IntervalUpTo(f, m)
<1> DEFINE S == { m \in Nat : \E f : IntervalUpTo(f, m) }
<1>1. 0 \in S
  <2> DEFINE f == [n \in 0 .. 0 |-> T1]
  <2>1. IntervalUpTo(f, 0)
    BY DEF IntervalUpTo
  <2> QED BY <2>1
<1>2. ASSUME NEW m \in Nat, m \in S PROVE m + 1 \in S
  <2>1. PICK f : IntervalUpTo(f, m)
    BY <1>2
  <2>2. \A n \in 0 .. m : f[n] = IF n = 0 THEN T1 ELSE Backoff(f[n - 1])
    BY <2>1 DEF IntervalUpTo
  <2> DEFINE g == [n \in 0 .. m + 1 |-> IF n = m + 1 THEN Backoff(f[m]) ELSE f[n]]
  <2>3. ASSUME NEW n \in 0 .. m + 1
        PROVE  g[n] = IF n = 0 THEN T1 ELSE Backoff(g[n - 1])
    <3>1. CASE n = m + 1
      <4>1. n # 0 /\ n - 1 = m /\ m \in 0 .. m + 1 /\ m # m + 1
        BY <3>1
      <4>2. g[n] = Backoff(f[m]) /\ g[m] = f[m]
        BY <3>1, <4>1
      <4> HIDE DEF g
      <4> QED BY <4>1, <4>2
    <3>2. CASE n # m + 1
      <4>1. n \in 0 .. m /\ g[n] = f[n]
        BY <3>2
      <4>2. n # 0 => g[n - 1] = f[n - 1]
        BY <3>2
      <4> HIDE DEF g
      <4> QED BY <2>2, <4>1, <4>2
    <3> QED BY <3>1, <3>2
  <2>4. g = [n \in 0 .. m + 1 |-> g[n]]
    OBVIOUS
  <2> HIDE DEF g
  <2>5. IntervalUpTo(g, m + 1)
    BY <2>3, <2>4 DEF IntervalUpTo
  <2> QED BY <2>5
<1> HIDE DEF S
<1>3. \A m \in Nat : m \in S
  BY <1>1, <1>2, SetInduction
<1> QED BY <1>3 DEF S

LEMMA FiringExists == \A m \in Nat : \E f : FiringUpTo(f, m)
<1> DEFINE S == { m \in Nat : \E f : FiringUpTo(f, m) }
<1>1. 0 \in S
  <2> DEFINE f == [n \in 0 .. 0 |-> Interval[0]]
  <2>1. FiringUpTo(f, 0)
    BY DEF FiringUpTo
  <2> QED BY <2>1
<1>2. ASSUME NEW m \in Nat, m \in S PROVE m + 1 \in S
  <2>1. PICK f : FiringUpTo(f, m)
    BY <1>2
  <2>2. \A n \in 0 .. m : f[n] = IF n = 0 THEN Interval[0] ELSE f[n - 1] + Interval[n]
    BY <2>1 DEF FiringUpTo
  <2> DEFINE g == [n \in 0 .. m + 1 |-> IF n = m + 1 THEN f[m] + Interval[m + 1] ELSE f[n]]
  <2>3. ASSUME NEW n \in 0 .. m + 1
        PROVE  g[n] = IF n = 0 THEN Interval[0] ELSE g[n - 1] + Interval[n]
    <3>1. CASE n = m + 1
      <4>1. n # 0 /\ n - 1 = m /\ m \in 0 .. m + 1 /\ m # m + 1
        BY <3>1
      <4>2. g[n] = f[m] + Interval[n] /\ g[m] = f[m]
        BY <3>1, <4>1
      <4> HIDE DEF g
      <4> QED BY <4>1, <4>2
    <3>2. CASE n # m + 1
      <4>1. n \in 0 .. m /\ g[n] = f[n]
        BY <3>2
      <4>2. n # 0 => g[n - 1] = f[n - 1]
        BY <3>2
      <4> HIDE DEF g
      <4> QED BY <2>2, <4>1, <4>2
    <3> QED BY <3>1, <3>2
  <2>4. g = [n \in 0 .. m + 1 |-> g[n]]
    OBVIOUS
  <2> HIDE DEF g
  <2>5. FiringUpTo(g, m + 1)
    BY <2>3, <2>4 DEF FiringUpTo
  <2> QED BY <2>5
<1> HIDE DEF S
<1>3. \A m \in Nat : m \in S
  BY <1>1, <1>2, SetInduction
<1> QED BY <1>3 DEF S

LEMMA IntervalIs ==
    /\ Interval[0] = T1
    /\ \A n \in 1 .. TimerH : Interval[n] = Backoff(Interval[n - 1])
<1>1. \E f : IntervalUpTo(f, TimerH)
  BY TimerAssumption, IntervalExists
<1>2. IntervalUpTo(Interval, TimerH)
  BY <1>1, Zenon DEF Interval, IntervalUpTo
<1> QED BY <1>2, TimerAssumption DEF IntervalUpTo

LEMMA FiringIs ==
    /\ DOMAIN Firing = 0 .. TimerH
    /\ Firing[0] = T1
    /\ \A n \in 1 .. TimerH : Firing[n] = Firing[n - 1] + Interval[n]
<1>1. \E f : FiringUpTo(f, TimerH)
  BY TimerAssumption, FiringExists
<1>2. FiringUpTo(Firing, TimerH)
  BY <1>1, Zenon DEF Firing, FiringUpTo
<1> QED BY <1>2, TimerAssumption, IntervalIs DEF FiringUpTo

(* Every interval counts: the firing times grow, so that only those up to  *)
(* timer H matter.                                                         *)
LEMMA FiringsGrow ==
    \A n \in 0 .. TimerH : Interval[n] \in 1 .. T2 /\ Firing[n] \in Nat /\ n + 1 <= Firing[n]
<1> DEFINE S == { n \in Nat : n <= TimerH =>
                     Interval[n] \in 1 .. T2 /\ Firing[n] \in Nat /\ n + 1 <= Firing[n] }
<1>1. 0 \in S
  BY TimerAssumption, IntervalIs, FiringIs
<1>2. ASSUME NEW n \in Nat, n \in S PROVE n + 1 \in S
  <2>1. SUFFICES ASSUME n + 1 <= TimerH
                 PROVE  /\ Interval[n + 1] \in 1 .. T2
                        /\ Firing[n + 1] \in Nat /\ (n + 1) + 1 <= Firing[n + 1]
    OBVIOUS
  <2>2. n + 1 \in 1 .. TimerH /\ (n + 1) - 1 = n /\ n <= TimerH
    BY <2>1, TimerAssumption
  <2>3. Interval[n] \in 1 .. T2 /\ Firing[n] \in Nat /\ n + 1 <= Firing[n]
    BY <1>2, <2>2
  <2>4. Interval[n + 1] = Backoff(Interval[n]) /\ Firing[n + 1] = Firing[n] + Interval[n + 1]
    BY <2>2, IntervalIs, FiringIs
  <2>5. \A i \in 1 .. T2 : Backoff(i) \in 1 .. T2
    BY TimerAssumption DEF Backoff
  <2>6. Interval[n + 1] \in 1 .. T2
    BY <2>3, <2>4, <2>5
  <2>7. \A a, b, c \in Nat : a + 1 <= b /\ 1 <= c => b + c \in Nat /\ (a + 1) + 1 <= b + c
    OBVIOUS
  <2>8. Interval[n + 1] \in Nat /\ 1 <= Interval[n + 1]
    BY <2>6, TimerAssumption
  <2> HIDE DEF S
  <2> QED BY <2>3, <2>4, <2>6, <2>7, <2>8
<1> HIDE DEF S
<1>3. \A n \in Nat : n \in S
  BY <1>1, <1>2, SetInduction
<1> QED BY <1>3, TimerAssumption DEF S

(* One record keeps to the schedule. *)
OnTime(t) ==
    t.state = "Completed" =>
        \E n \in 0 .. TimerH :
            /\ TimerH - t.deadline_h + t.next_timer_g = Firing[n]
            /\ t.timer_g_interval = Interval[n]

LEMMA OnScheduleIs == OnSchedule <=> \A t \in transactions : OnTime(t)
BY FiringIs DEF OnSchedule, OnTime

(* A new transaction has no response yet. *)
LEMMA NewOnTime == ASSUME NEW call, NEW cseq PROVE OnTime(NewTransaction(call, cseq))
BY DEF OnTime, NewTransaction

(* A final response, the first or a later one, starts the schedule; any    *)
(* other leaves it.                                                        *)
LEMMA UpdateOnTime ==
    ASSUME NEW t, Good(t), OnTime(t), NEW status \in 100 .. 699
    PROVE  OnTime(UpdateWithResponse(t, status))
<1> DEFINE r == UpdateWithResponse(t, status)
<1>1. CASE IsFinal(status)
  <2>1. r.deadline_h = TimerH /\ r.next_timer_g = T1 /\ r.timer_g_interval = T1
    BY <1>1 DEF UpdateWithResponse, Good, Transaction
  <2>2. 0 \in 0 .. TimerH /\ TimerH - TimerH + T1 = T1
    BY TimerAssumption
  <2> HIDE DEF r
  <2>3. OnTime(r)
    BY <2>1, <2>2, IntervalIs, FiringIs DEF OnTime
  <2> QED BY <2>3 DEF r
<1>2. CASE ~ IsFinal(status)
  <2>1. /\ r.state = t.state /\ r.deadline_h = t.deadline_h
        /\ r.next_timer_g = t.next_timer_g /\ r.timer_g_interval = t.timer_g_interval
    BY <1>2 DEF UpdateWithResponse, Good, Transaction
  <2> HIDE DEF r
  <2>2. OnTime(r)
    BY <2>1 DEF OnTime
  <2> QED BY <2>2 DEF r
<1> QED BY <1>1, <1>2

(* After the ACK there is nothing to retransmit. *)
LEMMA ConfirmOnTime == ASSUME NEW t, Good(t) PROVE OnTime(Confirm(t))
<1>1. Confirm(t).state = "Confirmed"
  BY DEF Confirm, Good, Transaction
<1> QED BY <1>1 DEF OnTime

(* A retransmission is a firing, and the next one is an interval later.    *)
LEMMA RetransmitOnTime ==
    ASSUME NEW t, Good(t), OnTime(t), ~ Expired(MaybeRetransmit(t))
    PROVE  OnTime(MaybeRetransmit(t))
<1>1. CASE Retransmits(t)
  <2> DEFINE r == MaybeRetransmit(t)
             b == Backoff(t.timer_g_interval)
  <2>1. r.deadline_h = t.deadline_h /\ r.next_timer_g = b /\ r.timer_g_interval = b
    BY <1>1 DEF MaybeRetransmit, Good, Transaction
  <2>2. t.state = "Completed" /\ t.next_timer_g = 0 /\ t.deadline_h \in 1 .. TimerH
    BY <1>1, TimerAssumption DEF Retransmits, Good, Transaction, Timer, None
  <2>3. PICK n \in 0 .. TimerH : /\ TimerH - t.deadline_h + t.next_timer_g = Firing[n]
                                 /\ t.timer_g_interval = Interval[n]
    BY <2>2 DEF OnTime
  <2>4. \A h, d, f \in Int : h - d + 0 = f => (\A c \in Int : h - d + c = f + c) /\ (d >= 1 => f <= h - 1)
    OBVIOUS
  <2>5. Firing[n] \in Nat /\ n + 1 <= Firing[n] /\ TimerH - t.deadline_h + 0 = Firing[n]
    BY <2>2, <2>3, FiringsGrow
  <2>6. Firing[n] <= TimerH - 1
    BY <2>2, <2>4, <2>5, TimerAssumption
  <2>7. n + 1 \in 1 .. TimerH /\ n + 1 \in 0 .. TimerH /\ (n + 1) - 1 = n
    BY <2>5, <2>6, TimerAssumption
  <2>8. b = Interval[n + 1] /\ Firing[n + 1] = Firing[n] + Interval[n + 1]
    BY <2>3, <2>7, IntervalIs, FiringIs
  <2>9. Interval[n + 1] \in Int
    BY <2>7, FiringsGrow
  <2>10. TimerH - t.deadline_h + Interval[n + 1] = Firing[n + 1]
    BY <2>2, <2>4, <2>5, <2>8, <2>9, TimerAssumption
  <2> HIDE DEF r, b
  <2>11. OnTime(r)
    BY <2>1, <2>7, <2>8, <2>10 DEF OnTime
  <2> QED BY <2>11 DEF r
<1>2. CASE ~ Retransmits(t) /\ ~ GivesUp(t)
  BY <1>2 DEF MaybeRetransmit
<1>3. CASE ~ Retransmits(t) /\ GivesUp(t)
  <2>1. MaybeRetransmit(t) = [t EXCEPT !.next_timer_g = None]
    BY <1>3 DEF MaybeRetransmit
  <2>2. Expired(MaybeRetransmit(t))
    BY <1>3, <2>1 DEF Good, Transaction, GivesUp, Expired
  <2> QED BY <2>2
<1> QED BY <1>1, <1>2, <1>3

(* Time passes for both timers, unless one of them is due. *)
LEMMA ElapseOnTime == ASSUME NEW t, Good(t), OnTime(t), ~ Due(t) PROVE OnTime(Elapse(t))
<1> DEFINE r == Elapse(t)
<1>1. r.state = t.state /\ r.timer_g_interval = t.timer_g_interval
  BY DEF Elapse, Good, Transaction
<1>2. SUFFICES ASSUME t.state = "Completed" PROVE OnTime(r)
  BY <1>1, Zenon DEF OnTime
<1>3. /\ t.deadline_h \in 1 .. TimerH /\ t.next_timer_g \in 1 .. T2
  <2>1. /\ t.deadline_h \in Timer(TimerH) /\ t.next_timer_g \in Timer(T2)
        /\ t.deadline_h # None /\ t.next_timer_g # None /\ t.last_response # None
    BY <1>2 DEF Good, Armed, Transaction
  <2>2. t.deadline_h # 0
    BY <1>2 DEF Due, Expired
  <2>3. t.deadline_h \in 1 .. TimerH
    BY <2>1, <2>2, TimerAssumption DEF Timer, None
  <2>4. t.deadline_h > 0
    BY <2>3, TimerAssumption
  <2>5. t.next_timer_g # 0
    BY <1>2, <2>1, <2>4 DEF Due, Retransmits
  <2> QED BY <2>1, <2>3, <2>5, TimerAssumption DEF Timer, None
<1>4. r.deadline_h = t.deadline_h - 1 /\ r.next_timer_g = t.next_timer_g - 1
  <2>1. r.deadline_h = CountDown(t.deadline_h) /\ r.next_timer_g = CountDown(t.next_timer_g)
    BY DEF Elapse, Good, Transaction
  <2>2. \A m \in Nat : \A i \in 1 .. m : CountDown(i) = i - 1
    BY DEF CountDown
  <2> HIDE DEF r
  <2> QED BY <1>3, <2>1, <2>2, TimerAssumption
<1>5. PICK n \in 0 .. TimerH : /\ TimerH - t.deadline_h + t.next_timer_g = Firing[n]
                               /\ t.timer_g_interval = Interval[n]
  BY <1>2 DEF OnTime
<1>6. \A h, d, g \in Int : h - (d - 1) + (g - 1) = h - d + g
  OBVIOUS
<1>7. TimerH - r.deadline_h + r.next_timer_g = Firing[n]
  <2>1. t.deadline_h \in Int /\ t.next_timer_g \in Int /\ TimerH \in Int
    BY <1>3, TimerAssumption
  <2> HIDE DEF r
  <2> QED BY <1>4, <1>5, <1>6, <2>1
<1> HIDE DEF r
<1> QED BY <1>1, <1>5, <1>7 DEF OnTime

----------------------------------------------------------------------------
ScheduleInv == IInv /\ OnSchedule

(* The schedule is kept by every operation and by time. *)
THEOREM ScheduleInductive == ScheduleInv /\ [Next]_vars => ScheduleInv'
<1> SUFFICES ASSUME ScheduleInv, [Next]_vars PROVE ScheduleInv'
  OBVIOUS
<1>1. IInv'
  BY Inductive DEF ScheduleInv
<1>2. SUFFICES \A t \in transactions' : OnTime(t)
  <2>1. OnSchedule' <=> \A t \in transactions' : OnTime(t)
    BY FiringIs DEF OnSchedule, OnTime
  <2> QED BY <1>1, <2>1 DEF ScheduleInv
<1>3. \A t \in transactions : Good(t) /\ OnTime(t)
  BY OnScheduleIs DEF ScheduleInv, IInv, WellKept
<1>4. ASSUME NEW call, NEW cseq
      PROVE  \A t \in OnInvite(transactions, call, cseq) : OnTime(t)
  BY <1>3, NewOnTime DEF OnInvite
<1>5. ASSUME NEW call \in CallId, NEW cseq \in CSeq, Invite(call, cseq)
      PROVE  \A t \in transactions' : OnTime(t)
  BY <1>4, <1>5 DEF Invite
<1>6. ASSUME NEW call \in CallId, NEW cseq \in CSeq, NEW status \in Status,
             Respond(call, cseq, status)
      PROVE  \A t \in transactions' : OnTime(t)
  <2>1. cseq \in Nat /\ status \in 100 .. 699
    BY CSeqAssumption, StatusAssumption
  <2>2. WellKept(OnInvite(transactions, call, cseq))
    BY <2>1, OnInviteKept DEF ScheduleInv, IInv
  <2>3. ASSUME NEW t \in OnInvite(transactions, call, cseq)
        PROVE  OnTime(IF Matches(t, call, cseq) THEN UpdateWithResponse(t, status) ELSE t)
    <3>1. Good(t) /\ OnTime(t)
      BY <1>4, <2>2, <2>3 DEF WellKept
    <3> QED BY <2>1, <3>1, UpdateOnTime
  <2> QED BY <1>6, <2>3 DEF Respond, OnOutgoingResponse
<1>7. ASSUME NEW call \in CallId, NEW cseq \in CSeq, Ack(call, cseq)
      PROVE  \A t \in transactions' : OnTime(t)
  <2>1. ASSUME NEW t \in transactions
        PROVE  OnTime(IF Matches(t, call, cseq) THEN Confirm(t) ELSE t)
    BY <1>3, ConfirmOnTime
  <2> QED BY <1>7, <2>1 DEF Ack, OnAck
<1>8. CASE Poll
  <2>1. \A u \in transactions' : \E t \in transactions : u = MaybeRetransmit(t) /\ ~ Expired(u)
    BY <1>8 DEF Poll, PollTx
  <2> QED BY <1>3, <2>1, RetransmitOnTime
<1>9. CASE Tick
  <2>1. \A t \in transactions : OnTime(Elapse(t))
    BY <1>3, <1>9, ElapseOnTime DEF Tick
  <2> QED BY <1>9, <2>1 DEF Tick
<1>10. CASE UNCHANGED vars
  BY <1>3, <1>10 DEF vars
<1> QED BY <1>5, <1>6, <1>7, <1>8, <1>9, <1>10 DEF Next, Use

(* A response that waits for its ACK is retransmitted at the times of RFC  *)
(* 3261 and at no other: maybe_retransmit doubles the interval up to T2,   *)
(* and every final response starts again from T1.                          *)
THEOREM KeepsSchedule == Spec => []OnSchedule
<1>1. Init => ScheduleInv
  BY DEF Init, ScheduleInv, IInv, WellKept, UniqueIn, OnSchedule
<1>2. ScheduleInv => OnSchedule
  BY DEF ScheduleInv
<1> QED BY <1>1, <1>2, ScheduleInductive, PTL DEF Spec

----------------------------------------------------------------------------
(* The removal of a transaction: how long it is kept without being used. *)
Left(t) == IF t.state = "Completed" THEN t.deadline_h ELSE t.deadline_i

UsedNow(t) == \E call \in CallId, cseq \in CSeq : Matches(t, call, cseq) /\ Use(call, cseq)

(* A transaction that is not used goes on as it is, and each tick brings   *)
(* the removal of an answered one closer; none is removed before its time. *)
GoesOn(t, u) ==
    /\ SameKey(u, t) /\ u.state = t.state
    /\ Answered(t.call_id, t.cseq) =>
          /\ Left(u) <= Left(t)
          /\ Tick => Left(u) = Left(t) - 1

RemovalRunsDown ==
    \A t \in transactions :
        \/ UsedNow(t)
        \/ \E u \in transactions' : GoesOn(t, u)
        \/ Answered(t.call_id, t.cseq) /\ Left(t) = 0

LEMMA LeftArmed ==
    ASSUME NEW t, Good(t), t.state # "Proceeding"
    PROVE  Left(t) \in Nat /\ (Expired(t) <=> Left(t) = 0)
BY TimerAssumption DEF Good, Armed, Transaction, TxState, Timer, Left, Expired, None

(* In a list without double keys, a transaction is answered if its state   *)
(* says so.                                                                *)
LEMMA AnsweredState ==
    ASSUME IInv, NEW t \in transactions
    PROVE  Answered(t.call_id, t.cseq) <=> t.state # "Proceeding"
BY DEF IInv, WellKept, UniqueIn, Answered, Matches

(* An operation on one key leaves the others. *)
LEMMA OtherKeysStay ==
    ASSUME NEW t \in transactions, NEW call, NEW cseq, ~ Matches(t, call, cseq)
    PROVE  /\ t \in OnInvite(transactions, call, cseq) /\ t \in OnAck(transactions, call, cseq)
           /\ \A status : t \in OnOutgoingResponse(transactions, call, cseq, status)
BY DEF OnInvite, OnAck, OnOutgoingResponse

LEMMA StepRunsDown ==
    ASSUME IInv, [Next]_vars
    PROVE  RemovalRunsDown
<1> SUFFICES ASSUME NEW t \in transactions, ~ UsedNow(t)
             PROVE  \/ \E u \in transactions' : GoesOn(t, u)
                    \/ Answered(t.call_id, t.cseq) /\ Left(t) = 0
  BY DEF RemovalRunsDown
<1>1. Good(t) /\ t \in Transaction /\ (Answered(t.call_id, t.cseq) <=> t.state # "Proceeding")
  BY AnsweredState DEF IInv, WellKept, Good
<1>2. t.state # "Proceeding" => Left(t) \in Nat /\ (Expired(t) <=> Left(t) = 0)
  BY <1>1, LeftArmed
<1>3. CASE Tick
  <2>1. Elapse(t) \in transactions' /\ ~ Expired(t)
    BY <1>3 DEF Tick, Due
  <2>2. /\ SameKey(Elapse(t), t) /\ Elapse(t).state = t.state
        /\ Elapse(t).deadline_h = CountDown(t.deadline_h)
        /\ Elapse(t).deadline_i = CountDown(t.deadline_i)
    <3>1. SameKey(Elapse(t), t)
      BY <1>1, ElapseGood
    <3>2. /\ Elapse(t).state = t.state
          /\ Elapse(t).deadline_h = CountDown(t.deadline_h)
          /\ Elapse(t).deadline_i = CountDown(t.deadline_i)
      BY <1>1 DEF Elapse, Transaction
    <3> QED BY <3>1, <3>2
  <2>3. t.state # "Proceeding" => Left(Elapse(t)) = CountDown(Left(t))
    BY <2>2 DEF Left
  <2>4. t.state # "Proceeding" => Left(Elapse(t)) = Left(t) - 1
    BY <1>2, <2>1, <2>3 DEF CountDown
  <2>5. GoesOn(t, Elapse(t))
    BY <1>1, <1>2, <2>2, <2>4 DEF GoesOn
  <2> QED BY <2>1, <2>5
<1>4. ASSUME ~ Tick, t \in transactions'
      PROVE  \E u \in transactions' : GoesOn(t, u)
  <2>1. GoesOn(t, t)
    BY <1>1, <1>2, <1>4 DEF GoesOn, SameKey
  <2> QED BY <1>4, <2>1
<1>5. ASSUME NEW call \in CallId, NEW cseq \in CSeq, Use(call, cseq)
      PROVE  t \in transactions'
  <2>1. ~ Matches(t, call, cseq)
    BY <1>5 DEF UsedNow
  <2> QED BY <1>5, <2>1, OtherKeysStay DEF Use, Invite, Respond, Ack
<1>6. ASSUME Poll, ~ Tick
      PROVE  \/ \E u \in transactions' : GoesOn(t, u)
             \/ Answered(t.call_id, t.cseq) /\ Left(t) = 0
  <2> DEFINE u == MaybeRetransmit(t)
  <2>1. /\ SameKey(u, t) /\ u.state = t.state
        /\ u.deadline_h = t.deadline_h /\ u.deadline_i = t.deadline_i
    <3>1. SameKey(u, t)
      BY <1>1, RetransmitKey
    <3>2. /\ u.state = t.state
          /\ u.deadline_h = t.deadline_h /\ u.deadline_i = t.deadline_i
      BY <1>1 DEF MaybeRetransmit, Transaction
    <3> QED BY <3>1, <3>2
  <2>2. Left(u) = Left(t) /\ (Expired(u) <=> Expired(t))
    BY <2>1 DEF Left, Expired
  <2> HIDE DEF u
  <2>3. CASE Expired(t)
    <3>1. t.state # "Proceeding"
      BY <2>3 DEF Expired
    <3> QED BY <1>1, <1>2, <2>3, <3>1
  <2>4. CASE ~ Expired(t)
    <3>1. u \in transactions'
      BY <1>6, <2>2, <2>4 DEF Poll, PollTx, u
    <3>2. GoesOn(t, u)
      BY <1>1, <1>2, <1>6, <2>1, <2>2 DEF GoesOn
    <3> QED BY <3>1, <3>2
  <2> QED BY <2>3, <2>4
<1>7. ASSUME UNCHANGED vars
      PROVE  t \in transactions'
  BY <1>7 DEF vars
<1> QED
  BY <1>3, <1>4, <1>5, <1>6, <1>7 DEF Next

(* What AnsweredExpires needs of the steps, for any timer values: only a   *)
(* response or an ACK of its own puts off the removal of an answered       *)
(* transaction, time brings it closer, and no transaction is removed while *)
(* it is unanswered or its time has not come.                              *)
THEOREM RemovalIsNotPutOff == Spec => [][RemovalRunsDown]_vars
<1> QED
  BY Invariant, StepRunsDown, PTL DEF Spec
=============================================================================
