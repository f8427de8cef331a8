------------------------- MODULE Registration_proofs -------------------------
(***************************************************************************)
(* Theorems about Registration: types, what the UI shows, and that a phone *)
(* once settled stays registered.  They hold for any registrar, any timers *)
(* and, but for the last, any lifetimes it grants.                         *)
(*                                                                         *)
(* And about Negotiation, what else the SIP task does with one peer: what  *)
(* the parser reads in an offer, and the stream that follows from what was *)
(* agreed, for any addresses, ports and payload types and any number of    *)
(* times that the stream of the caller begins anew.                        *)
(***************************************************************************)
EXTENDS Registration, Negotiation, SequenceTheorems, WellFoundedInduction, TLAPS

(* The mirror by which SipTask filters the events: it is the core's state, *)
(* except that it does not see a REGISTER leave.                           *)
MirrorInv ==
    /\ shown <=> last_reg_state = "Registered"
    /\ state = last_reg_state \/ state = "Registering"

IInv == TypeOK /\ MirrorInv

(* A refresh is never in the past, whatever lifetime was granted. *)
LEMMA RefreshType == ASSUME NEW e \in Nat PROVE RefreshInterval(e) \in Nat
BY DEF RefreshInterval, AtLeast

(* Time passes: a counter of seconds stays one. *)
LEMMA CountDownType == ASSUME NEW x \in Nat PROVE CountDown(x) \in Nat
BY DEF CountDown

LEMMA InitHolds == ASSUME Init PROVE IInv
BY RegistrationAssumption DEF Init, IInv, TypeOK, MirrorInv, RegistrationState

(* What the UI is told keeps the mirror true, whatever the new state. *)
LEMMA AnnounceMirrors ==
    ASSUME IInv, NEW s \in RegistrationState, Announce(s)
    PROVE  /\ last_reg_state' = s
           /\ shown' \in BOOLEAN
           /\ shown' <=> s = "Registered"
BY DEF IInv, TypeOK, MirrorInv, Announce

LEMMA SendKeeps == ASSUME IInv, MaybeSendRegister PROVE IInv'
<1> USE DEF MaybeSendRegister
<1>1. /\ last_reg_state' \in RegistrationState
      /\ shown' \in BOOLEAN
      /\ shown' <=> last_reg_state' = "Registered"
  <2>1. CASE state = "Registering"
    <3>1. Announce("Unregistered") BY <2>1
    <3>2. "Unregistered" \in RegistrationState BY DEF RegistrationState
    <3> QED BY <3>1, <3>2, AnnounceMirrors
  <2>2. CASE state # "Registering" BY <2>2 DEF IInv, TypeOK, MirrorInv
  <2> QED BY <2>1, <2>2
<1>2. requests' \subseteq Message
  BY RegistrationAssumption DEF IInv, TypeOK, Message
<1>3. next_register' \in Nat /\ state' = "Registering"
  BY RegistrationAssumption
<1>4. UNCHANGED <<last_expires, challenged, replies, binding, prompt>> OBVIOUS
<1>5. TypeOK' BY <1>1, <1>2, <1>3, <1>4 DEF IInv, TypeOK, RegistrationState
<1>6. MirrorInv' BY <1>1, <1>3 DEF MirrorInv
<1> QED BY <1>5, <1>6 DEF IInv

LEMMA ResponseKeeps ==
    ASSUME IInv, NEW m \in replies, RecvResponse(m) PROVE IInv'
<1>1. m \in Reply /\ replies \subseteq Reply BY DEF IInv, TypeOK
<1>2. /\ state' \in RegistrationState /\ state' # "Registering"
      /\ last_expires' \in Nat /\ next_register' \in Nat /\ challenged' \in BOOLEAN
  <2>1. CASE OnRegistered(m)
    <3>1. last_expires' \in Nat
      BY <1>1, <2>1 DEF OnRegistered, IInv, TypeOK, Reply
    <3>2. next_register' \in Nat BY <2>1, <3>1, RefreshType DEF OnRegistered
    <3> QED BY <2>1, <3>1, <3>2 DEF OnRegistered, IInv, TypeOK, RegistrationState
  <2>2. CASE OnAuthRequired(m)
    BY <2>2 DEF OnAuthRequired, IInv, TypeOK, RegistrationState
  <2>3. CASE OnFailed(m)
    BY <2>3, RegistrationAssumption DEF OnFailed, IInv, TypeOK, RegistrationState
  <2> QED BY <2>1, <2>2, <2>3 DEF RecvResponse
<1>3. Announce(state') BY DEF RecvResponse
<1>4. /\ last_reg_state' = state'
      /\ shown' \in BOOLEAN /\ (shown' <=> state' = "Registered")
  BY <1>2, <1>3, AnnounceMirrors
<1>5. replies' \subseteq Reply /\ UNCHANGED <<requests, binding, prompt>>
  BY <1>1 DEF RecvResponse
<1>6. TypeOK' BY <1>2, <1>4, <1>5 DEF IInv, TypeOK
<1>7. MirrorInv' BY <1>4 DEF MirrorInv
<1> QED BY <1>6, <1>7 DEF IInv

LEMMA RegistrarKeeps ==
    ASSUME IInv, NEW r \in requests, RegistrarAnswers(r) PROVE IInv'
<1>1. replies' \subseteq Reply /\ binding' \in Nat
  <2>1. CASE Accept(r)
    <3>1. PICK e \in Granted, header \in {TRUE, prompt \notin Headerless} :
             /\ e <= r.expires
             /\ binding' = e
             /\ replies' = replies \cup
                  {[status |-> 200, challenge |-> FALSE,
                    expires |-> IF header THEN e ELSE NoExpires]}
      BY <2>1 DEF Accept
    <3>2. e \in Nat
      BY RegistrationAssumption
    <3>3. [status |-> 200, challenge |-> FALSE, expires |-> IF header THEN e ELSE NoExpires] \in Reply
      BY <3>2 DEF Reply
    <3> QED BY <3>1, <3>2, <3>3 DEF IInv, TypeOK
  <2>2. CASE Reject(r)
    BY <2>2, RegistrationAssumption DEF Reject, IInv, TypeOK, Reply, NoExpires
  <2> QED BY <2>1, <2>2 DEF RegistrarAnswers
<1>2. requests' \subseteq Message BY DEF RegistrarAnswers, IInv, TypeOK
<1>3. UNCHANGED <<phoneVars, prompt>> BY DEF RegistrarAnswers
<1> QED BY <1>1, <1>2, <1>3 DEF IInv, TypeOK, MirrorInv, phoneVars

(* Every step keeps the invariant: one case per action. *)
LEMMA NextHolds == ASSUME IInv, [Next]_vars PROVE IInv'
<1>1. CASE MaybeSendRegister BY <1>1, SendKeeps
<1>2. CASE \E m \in replies : RecvResponse(m) BY <1>2, ResponseKeeps
<1>3. CASE \E r \in requests : RegistrarAnswers(r) BY <1>3, RegistrarKeeps
<1>4. CASE Lose
  <2>1. requests' \subseteq requests /\ replies' \subseteq replies BY <1>4 DEF Lose
  <2> QED BY <1>4, <2>1 DEF Lose, IInv, TypeOK, MirrorInv, phoneVars
<1>5. CASE Recover BY <1>5 DEF Recover, IInv, TypeOK, MirrorInv, phoneVars
<1>6. CASE Tick
  <2>1. next_register' \in Nat /\ binding' \in Nat
    BY <1>6, CountDownType DEF Tick, IInv, TypeOK
  <2> QED BY <1>6, <2>1 DEF Tick, IInv, TypeOK, MirrorInv
<1>7. CASE UNCHANGED vars BY <1>7 DEF vars, phoneVars, IInv, TypeOK, MirrorInv
<1> QED BY <1>1, <1>2, <1>3, <1>4, <1>5, <1>6, <1>7 DEF Next

(* Registration keeps its types, whatever the registrar answers. *)
THEOREM TypeCorrect == Spec => []TypeOK
<1>1. IInv => TypeOK BY DEF IInv
<1> QED BY <1>1, InitHolds, NextHolds, PTL DEF Spec

(* The UI shows what the core believes, through late, duplicated,          *)
(* reordered and missing responses and the timeouts of REGISTER.           *)
THEOREM UiIsTold == Spec => []UiShowsRegistration
<1>1. IInv => UiShowsRegistration BY DEF IInv, MirrorInv, UiShowsRegistration
<1> QED BY <1>1, InitHolds, NextHolds, PTL DEF Spec

(* The refresh comes before the binding lapses exactly for lifetimes of    *)
(* more than 5 s: refresh_interval waits for 5 s at least, whatever was    *)
(* granted.                                                                *)
THEOREM RefreshesInTime == \A e \in Nat : RefreshInterval(e) < e <=> e > 5
<1> SUFFICES ASSUME NEW e \in Nat PROVE RefreshInterval(e) < e <=> e > 5
  OBVIOUS
<1>1. CASE e <= 5
  BY <1>1 DEF RefreshInterval, AtLeast
<1>2. CASE e > 5
  BY <1>2 DEF RefreshInterval, AtLeast
<1> QED BY <1>1, <1>2

(* A phone that keeps its registration: it is registered, and its refresh  *)
(* will come before the binding lapses; it has asked for the lifetime that *)
(* it was granted, with the answer to the challenge if there is one; or    *)
(* the answer is on its way.                                               *)
Rests ==
    /\ state = "Registered" /\ requests = {} /\ replies = {}
    /\ next_register < binding

Asks ==
    /\ state = "Registering" /\ next_register > 0
    /\ requests = {[expires |-> last_expires, auth |-> challenged]} /\ replies = {}

IsAnswered ==
    /\ state = "Registering" /\ next_register > 0
    /\ requests = {} /\ replies = {[status |-> 200, challenge |-> FALSE, expires |-> binding]} /\ binding \in Granted

Settled ==
    /\ prompt /\ shown /\ binding > 0
    /\ challenged \/ 401 \notin Status
    /\ Rests \/ Asks \/ IsAnswered

(* What registrar and network have to be for that: lifetimes long enough   *)
(* to be refreshed in time, and said in the answer once all works.         *)
Refreshable == TRUE \notin Headerless /\ \A e \in Granted : e > 5

LEMMA CountsDown == ASSUME NEW x \in Nat, x > 0 PROVE CountDown(x) = x - 1
BY DEF CountDown

(* At rest the clock runs until the refresh is due, and it is sent. *)
LEMMA RestSettles == ASSUME IInv, Settled, Rests, Next PROVE Settled'
<1>1. /\ next_register \in Nat /\ binding \in Nat /\ prompt /\ shown
      /\ state = "Registered" /\ requests = {} /\ replies = {} /\ next_register < binding
      /\ challenged \/ 401 \notin Status
  BY DEF IInv, TypeOK, Settled, Rests
<1>2. CASE MaybeSendRegister
  <2>1. /\ state' = "Registering" /\ next_register' = RegisterTimeout
        /\ requests' = {[expires |-> last_expires, auth |-> challenged]}
        /\ UNCHANGED <<last_expires, challenged, shown, replies, binding, prompt>>
    BY <1>1, <1>2 DEF MaybeSendRegister
  <2>2. Asks'
    BY <1>1, <2>1, RegistrationAssumption DEF Asks
  <2> QED BY <1>1, <2>1, <2>2 DEF Settled
<1>3. CASE Tick
  <2>1. /\ next_register' = next_register - 1 /\ binding' = binding - 1
        /\ UNCHANGED <<state, challenged, shown, requests, replies, prompt>>
    <3>1. next_register > 0 /\ binding > 0
      BY <1>1, <1>3 DEF Tick
    <3> QED BY <1>1, <1>3, <3>1, CountsDown DEF Tick
  <2>2. next_register > 0
    BY <1>3 DEF Tick
  <2>3. next_register - 1 < binding - 1 /\ binding - 1 > 0
    BY <1>1, <2>2
  <2>4. Rests'
    BY <1>1, <2>1, <2>3 DEF Rests
  <2> QED BY <1>1, <2>1, <2>3, <2>4 DEF Settled
<1>4. ~ (\E m \in replies : RecvResponse(m)) /\ ~ (\E r \in requests : RegistrarAnswers(r))
  BY <1>1
<1>5. ~ Lose /\ ~ Recover
  BY <1>1 DEF Lose, Recover
<1> QED BY <1>2, <1>3, <1>4, <1>5 DEF Next

(* Time stands still until the answer is there; it is a 200. *)
LEMMA AskSettles == ASSUME IInv, Refreshable, Settled, Asks, Next PROVE Settled'
<1> DEFINE r == [expires |-> last_expires, auth |-> challenged]
<1>1. /\ prompt /\ shown /\ state = "Registering" /\ next_register > 0
      /\ requests = {r} /\ replies = {}
      /\ challenged \/ 401 \notin Status
  BY DEF Settled, Asks
<1>2. ~ MaybeSendRegister /\ ~ Tick /\ ~ Lose /\ ~ Recover /\ ~ (\E m \in replies : RecvResponse(m))
  <2>1. ~ (next_register = 0)
    BY <1>1
  <2> QED BY <1>1, <2>1 DEF MaybeSendRegister, Tick, Lose, Recover
<1>3. RegistrarAnswers(r)
  BY <1>1, <1>2 DEF Next
<1>4. ~ Reject(r)
  BY <1>1 DEF Reject
<1>5. Accept(r) /\ requests' = {} /\ UNCHANGED <<phoneVars, prompt>>
  BY <1>1, <1>3, <1>4 DEF RegistrarAnswers
<1>6. prompt \notin Headerless
  <2>1. prompt = TRUE
    BY <1>1 DEF IInv, TypeOK
  <2> QED BY <2>1 DEF Refreshable
<1>7. PICK e \in Granted, header \in {TRUE, prompt \notin Headerless} :
         /\ e <= r.expires
         /\ binding' = e
         /\ replies' = replies \cup
              {[status |-> 200, challenge |-> FALSE,
                expires |-> IF header THEN e ELSE NoExpires]}
  BY <1>5 DEF Accept
<1>8. binding' = e /\ replies' = {[status |-> 200, challenge |-> FALSE, expires |-> e]}
  BY <1>1, <1>6, <1>7
<1>9. binding' > 0
  BY <1>7, <1>8, RegistrationAssumption DEF Refreshable
<1>10. IsAnswered'
  BY <1>1, <1>5, <1>7, <1>8 DEF IsAnswered, phoneVars
<1> QED BY <1>1, <1>5, <1>9, <1>10 DEF Settled, phoneVars

(* The lifetime granted sets the time of the next refresh. *)
LEMMA AnswerSettles == ASSUME IInv, Refreshable, Settled, IsAnswered, Next PROVE Settled'
<1> DEFINE m == [status |-> 200, challenge |-> FALSE, expires |-> binding]
<1>1. /\ prompt /\ shown /\ state = "Registering" /\ next_register > 0
      /\ requests = {} /\ replies = {m} /\ binding \in Nat /\ binding > 5
      /\ challenged \/ 401 \notin Status
  BY DEF Settled, IsAnswered, IInv, TypeOK, Refreshable
<1>2. ~ MaybeSendRegister /\ ~ Tick /\ ~ Lose /\ ~ Recover
      /\ ~ (\E r \in requests : RegistrarAnswers(r))
  <2>1. ~ (next_register = 0)
    BY <1>1
  <2> QED BY <1>1, <2>1 DEF MaybeSendRegister, Tick, Lose, Recover
<1>3. RecvResponse(m)
  BY <1>1, <1>2 DEF Next
<1>4. /\ OnRegistered(m) /\ Announce(state')
      /\ replies' = {} /\ UNCHANGED <<requests, binding, prompt>>
  <2>1. ~ OnAuthRequired(m) /\ ~ OnFailed(m)
    BY DEF OnAuthRequired, OnFailed
  <2> QED BY <1>1, <1>3, <2>1 DEF RecvResponse
<1>5. /\ state' = "Registered" /\ challenged' = challenged
      /\ next_register' = RefreshInterval(binding)
  BY <1>1, <1>4 DEF OnRegistered, NoExpires
<1>6. shown'
  BY <1>1, <1>4, <1>5 DEF Announce
<1>7. next_register' < binding
  BY <1>1, <1>5, RefreshesInTime
<1>8. Rests'
  BY <1>1, <1>4, <1>5, <1>7 DEF Rests
<1> QED BY <1>1, <1>4, <1>5, <1>6, <1>8 DEF Settled

(* With a registrar that grants what can be refreshed in time, a phone     *)
(* that has settled stays registered for ever, and shows it: every refresh *)
(* arrives before the binding lapses, for any timers of SipTask.           *)
THEOREM StaysRegistered ==
    ASSUME Refreshable
    PROVE  Spec => [](Settled => [](shown /\ binding > 0))
<1>1. IInv /\ Settled /\ [Next]_vars => Settled'
  <2>1. CASE Next
    BY <2>1, RestSettles, AskSettles, AnswerSettles DEF Settled
  <2>2. CASE UNCHANGED vars
    BY <2>2 DEF vars, phoneVars, Settled, Rests, Asks, IsAnswered
  <2> QED BY <2>1, <2>2
<1>2. Settled => shown /\ binding > 0
  BY DEF Settled
<1> QED BY <1>1, <1>2, InitHolds, NextHolds, PTL DEF Spec

----------------------------------------------------------------------------
(* Induction, and what a fold over lines reads. *)

(* A set of naturals that has 0, and with a number the next, has all. *)
LEMMA SetInduction ==
    ASSUME NEW S, 0 \in S, \A n \in Nat : n \in S => n + 1 \in S
    PROVE  \A n \in Nat : n \in S
<1> DEFINE R == { ss \in Nat \X Nat : ss[1] < ss[2] }
           T == { n \in Nat : n \notin S }
<1>1. IsWellFoundedOn(R, Nat)
  BY NatLessThanWellFounded DEF OpToRel
<1>2. \A x, y \in Nat : <<y, x>> \in R <=> y < x
  OBVIOUS
<1> HIDE DEF R
<1>3. SUFFICES ASSUME T # {} PROVE FALSE
  OBVIOUS
<1>4. PICK x \in T : \A y \in T : ~ (<<y, x>> \in R)
  <2>1. T \subseteq Nat
    OBVIOUS
  <2> HIDE DEF T
  <2> QED BY <1>1, <1>3, <2>1, WFMin
<1>5. x # 0 /\ x - 1 \in Nat /\ x - 1 < x /\ (x - 1) + 1 = x
  BY <1>4
<1>6. x - 1 \in S
  <2>1. x - 1 \notin T
    BY <1>2, <1>4, <1>5
  <2> QED BY <1>5, <2>1
<1> QED BY <1>4, <1>5, <1>6

(* The fold of the community modules goes by the greatest index that is    *)
(* left: a set of indices that is not empty has one.                       *)
LEMMA GreatestExists ==
    ASSUME NEW m \in Nat, NEW s \in SUBSET (1 .. m), s # {}
    PROVE  Max(s) \in s /\ \A y \in s : y <= Max(s)
<1> DEFINE P == { n \in Nat :
                    \A t \in SUBSET (1 .. n) : t # {} => \E x \in t : \A y \in t : x >= y }
<1>1. 0 \in P
  <2>1. 1 .. 0 = {}
    OBVIOUS
  <2> QED BY <2>1
<1>2. ASSUME NEW n \in Nat, n \in P PROVE n + 1 \in P
  <2>1. SUFFICES ASSUME NEW t \in SUBSET (1 .. n + 1), t # {} PROVE \E x \in t : \A y \in t : x >= y
    OBVIOUS
  <2>2. CASE n + 1 \in t
    BY <2>2
  <2>3. CASE n + 1 \notin t
    <3>1. t \in SUBSET (1 .. n)
      BY <2>3
    <3> QED BY <1>2, <2>1, <3>1
  <2> QED BY <2>2, <2>3
<1> HIDE DEF P
<1>3. m \in P
  BY <1>1, <1>2, SetInduction
<1>4. \E x \in s : \A y \in s : x >= y
  BY <1>3 DEF P
<1>5. Max(s) \in s /\ \A y \in s : Max(s) >= y
  BY <1>4 DEF Max
<1>6. \A y \in s : y \in Int
  OBVIOUS
<1> QED BY <1>5, <1>6

(* What has been read of the lines with the indices in a set, for every    *)
(* set: the function by which FoldLeft is defined.                         *)
ReadsTo(g, m, seq) ==
    g = [s \in SUBSET (1 .. m) |-> IF s = {} THEN NothingRead
                                   ELSE Read(g[s \ {Max(s)}], seq[Max(s)])]

LEMMA ReadsToExists == \A seq : \A m \in Nat : \E g : ReadsTo(g, m, seq)
<1> SUFFICES ASSUME NEW seq PROVE \A m \in Nat : \E g : ReadsTo(g, m, seq)
  OBVIOUS
<1> DEFINE P == { m \in Nat : \E g : ReadsTo(g, m, seq) }
<1>1. 0 \in P
  <2> DEFINE g == [s \in SUBSET (1 .. 0) |-> NothingRead]
  <2>1. \A s \in SUBSET (1 .. 0) : s = {}
    OBVIOUS
  <2>2. ReadsTo(g, 0, seq)
    BY <2>1 DEF ReadsTo
  <2> QED BY <2>2
<1>2. ASSUME NEW m \in Nat, m \in P PROVE m + 1 \in P
  <2>1. PICK g : ReadsTo(g, m, seq)
    BY <1>2
  <2> DEFINE h == [s \in SUBSET (1 .. m + 1) |->
                     IF m + 1 \in s THEN Read(g[s \ {m + 1}], seq[m + 1]) ELSE g[s]]
             step(s) == IF s = {} THEN NothingRead ELSE Read(h[s \ {Max(s)}], seq[Max(s)])
  <2>2. ASSUME NEW s \in SUBSET (1 .. m + 1) PROVE h[s] = step(s)
    <3>1. CASE m + 1 \in s
      <4>1. Max(s) \in s /\ \A y \in s : y <= Max(s)
        <5>1. m + 1 \in Nat /\ s # {}
          BY <3>1
        <5> QED BY <5>1, GreatestExists
      <4>2. Max(s) = m + 1
        <5>1. Max(s) \in 1 .. m + 1 /\ m + 1 <= Max(s)
          BY <3>1, <4>1
        <5> QED BY <5>1
      <4>3. /\ s \ {m + 1} \in SUBSET (1 .. m) /\ s \ {m + 1} \in SUBSET (1 .. m + 1)
            /\ m + 1 \notin s \ {m + 1}
        OBVIOUS
      <4>4. h[s \ {m + 1}] = g[s \ {m + 1}]
        BY <4>3
      <4>5. h[s] = Read(g[s \ {m + 1}], seq[m + 1])
        BY <3>1
      <4> HIDE DEF h
      <4> QED BY <3>1, <4>2, <4>4, <4>5
    <3>2. CASE m + 1 \notin s
      <4>1. s \in SUBSET (1 .. m)
        BY <3>2
      <4>2. h[s] = g[s]
        BY <3>2
      <4>3. g[s] = IF s = {} THEN NothingRead ELSE Read(g[s \ {Max(s)}], seq[Max(s)])
        BY <2>1, <4>1 DEF ReadsTo
      <4>4. h[s \ {Max(s)}] = g[s \ {Max(s)}]
        BY <3>2
      <4> HIDE DEF h
      <4> QED BY <4>2, <4>3, <4>4
    <3> QED BY <3>1, <3>2
  <2>3. h = [s \in SUBSET (1 .. m + 1) |-> step(s)]
    <3>1. h = [s \in SUBSET (1 .. m + 1) |-> h[s]]
      OBVIOUS
    <3> HIDE DEF h, step
    <3> QED BY <2>2, <3>1
  <2>4. ReadsTo(h, m + 1, seq)
    <3> HIDE DEF h
    <3> QED BY <2>3 DEF ReadsTo
  <2> QED BY <2>4
<1> HIDE DEF P
<1>3. \A m \in Nat : m \in P
  BY <1>1, <1>2, SetInduction
<1> QED BY <1>3 DEF P

(* What is read of the first p lines does not depend on those that follow. *)
LEMMA ReadsToPrefix ==
    ASSUME NEW m \in Nat, NEW n \in Nat, NEW p \in Nat, NEW g, NEW h, NEW s, NEW t,
           ReadsTo(g, m, s), ReadsTo(h, n, t), p <= m, p <= n,
           \A i \in 1 .. p : s[i] = t[i]
    PROVE  g[1 .. p] = h[1 .. p]
<1> DEFINE P == { k \in Nat : k <= p => \A r \in SUBSET (1 .. k) : g[r] = h[r] }
<1>1. ASSUME NEW r \in SUBSET (1 .. p)
      PROVE  /\ g[r] = IF r = {} THEN NothingRead ELSE Read(g[r \ {Max(r)}], s[Max(r)])
             /\ h[r] = IF r = {} THEN NothingRead ELSE Read(h[r \ {Max(r)}], t[Max(r)])
  <2>1. r \in SUBSET (1 .. m) /\ r \in SUBSET (1 .. n)
    OBVIOUS
  <2> QED BY <2>1 DEF ReadsTo
<1>2. 0 \in P
  <2>1. ASSUME NEW r \in SUBSET (1 .. 0) PROVE r = {} /\ r \in SUBSET (1 .. p)
    OBVIOUS
  <2>2. \A r \in SUBSET (1 .. 0) : g[r] = h[r]
    BY <1>1, <2>1
  <2> QED BY <2>2
<1>3. ASSUME NEW k \in Nat, k \in P PROVE k + 1 \in P
  <2>1. SUFFICES ASSUME k + 1 <= p, NEW r \in SUBSET (1 .. k + 1) PROVE g[r] = h[r]
    OBVIOUS
  <2>2. r \in SUBSET (1 .. p)
    BY <2>1
  <2>3. CASE r = {}
    BY <1>1, <2>2, <2>3
  <2>4. CASE r # {}
    <3>1. Max(r) \in r /\ \A y \in r : y <= Max(r)
      BY <2>2, <2>4, GreatestExists
    <3>2. ASSUME NEW y \in r \ {Max(r)} PROVE y \in 1 .. k
      <4>1. y \in 1 .. k + 1 /\ Max(r) \in 1 .. k + 1 /\ y <= Max(r) /\ y # Max(r)
        BY <2>1, <3>1
      <4> QED BY <4>1
    <3>3. r \ {Max(r)} \in SUBSET (1 .. k)
      BY <3>2, Zenon
    <3>4. k <= p
      BY <2>1
    <3>5. g[r \ {Max(r)}] = h[r \ {Max(r)}]
      BY <1>3, <3>3, <3>4
    <3>6. s[Max(r)] = t[Max(r)]
      BY <2>2, <3>1
    <3> QED BY <1>1, <2>2, <2>4, <3>5, <3>6
  <2> QED BY <2>3, <2>4
<1> HIDE DEF P
<1>4. p \in P
  BY <1>2, <1>3, SetInduction
<1>5. 1 .. p \in SUBSET (1 .. p) /\ p <= p
  OBVIOUS
<1> QED BY <1>4, <1>5 DEF P

LEMMA FoldReads ==
    ASSUME NEW F, NEW s \in Seq(F)
    PROVE  \E g : ReadsTo(g, Len(s), s) /\ FoldLeft(Read, NothingRead, s) = g[1 .. Len(s)]
<1> DEFINE iter == CHOOSE g : g = [r \in SUBSET (DOMAIN s) |-> IF r = {} THEN NothingRead
                                   ELSE Read(g[r \ {Max(r)}], s[Max(r)])]
<1>1. DOMAIN s = 1 .. Len(s) /\ Len(s) \in Nat
  OBVIOUS
<1>2. \E g : ReadsTo(g, Len(s), s)
  BY <1>1, ReadsToExists
<1>3. ReadsTo(iter, Len(s), s)
  BY <1>1, <1>2, Zenon DEF ReadsTo
<1>4. FoldLeft(Read, NothingRead, s) = iter[DOMAIN s]
  BY DEF FoldLeft, MapThenFoldSet
<1> HIDE DEF iter
<1> QED BY <1>1, <1>3, <1>4

LEMMA FoldEmpty == FoldLeft(Read, NothingRead, <<>>) = NothingRead
<1>1. <<>> \in Seq({}) /\ Len(<<>>) = 0 /\ 1 .. 0 = {} /\ {} \in SUBSET (1 .. 0)
  OBVIOUS
<1>2. PICK g : ReadsTo(g, 0, <<>>) /\ FoldLeft(Read, NothingRead, <<>>) = g[1 .. 0]
  BY <1>1, FoldReads
<1> QED BY <1>1, <1>2 DEF ReadsTo

(* A body is read line by line. *)
LEMMA FoldAppend ==
    ASSUME NEW F, NEW s \in Seq(F), NEW line \in F
    PROVE  FoldLeft(Read, NothingRead, Append(s, line)) = Read(FoldLeft(Read, NothingRead, s), line)
<1> DEFINE t == Append(s, line)
           n == Len(s)
<1>1. /\ n \in Nat /\ t \in Seq(F) /\ Len(t) = n + 1 /\ t[n + 1] = line
      /\ \A i \in 1 .. n : s[i] = t[i]
  OBVIOUS
<1> HIDE DEF t
<1>2. PICK g : ReadsTo(g, n, s) /\ FoldLeft(Read, NothingRead, s) = g[1 .. n]
  BY FoldReads
<1>3. PICK h : ReadsTo(h, n + 1, t) /\ FoldLeft(Read, NothingRead, t) = h[1 .. n + 1]
  BY <1>1, FoldReads
<1> HIDE DEF n
<1>4. g[1 .. n] = h[1 .. n]
  BY <1>1, <1>2, <1>3, ReadsToPrefix
<1>5. /\ n + 1 \in Nat /\ n + 1 \in 1 .. n + 1 /\ (1 .. n + 1) \ {n + 1} = 1 .. n
      /\ \A y \in 1 .. n + 1 : n + 1 <= y => y = n + 1
  BY <1>1
<1>6. 1 .. n + 1 \in SUBSET (1 .. n + 1) /\ 1 .. n + 1 # {}
  BY <1>5, Zenon
<1>7. Max(1 .. n + 1) = n + 1
  BY <1>5, <1>6, GreatestExists
<1>8. h[1 .. n + 1] = Read(h[1 .. n], t[n + 1])
  BY <1>3, <1>5, <1>6, <1>7 DEF ReadsTo
<1> QED BY <1>1, <1>2, <1>3, <1>4, <1>8 DEF t

----------------------------------------------------------------------------
(* What the parser reads in an offer. *)

Reading(lines) == FoldLeft(Read, NothingRead, lines)

(* One line more is read, and is in the body. *)
LEMMA ReadingGrows ==
    ASSUME NEW F, NEW s \in Seq(F), NEW line \in F
    PROVE  /\ Append(s, line) \in Seq(F)
           /\ Reading(Append(s, line)) = Read(Reading(s), line)
           /\ ToSet(Append(s, line)) = ToSet(s) \cup {line}
<1>1. Append(s, line) \in Seq(F)
  OBVIOUS
<1>2. Reading(Append(s, line)) = Read(Reading(s), line)
  BY FoldAppend DEF Reading
<1>3. ToSet(Append(s, line)) = ToSet(s) \cup {line}
  <2>1. DOMAIN s = 1 .. Len(s) /\ DOMAIN Append(s, line) = 1 .. Len(s) + 1 /\ Len(s) \in Nat
    OBVIOUS
  <2>2. \A i \in 1 .. Len(s) : Append(s, line)[i] = s[i]
    OBVIOUS
  <2>3. Append(s, line)[Len(s) + 1] = line
    OBVIOUS
  <2>4. \A i \in 1 .. Len(s) + 1 : i \in 1 .. Len(s) \/ i = Len(s) + 1
    BY <2>1
  <2>5. \A i \in 1 .. Len(s) : i \in 1 .. Len(s) + 1
    BY <2>1
  <2>6. Len(s) + 1 \in 1 .. Len(s) + 1
    BY <2>1
  <2> QED BY <2>1, <2>2, <2>3, <2>4, <2>5, <2>6, Zenon DEF ToSet
<1> QED BY <1>1, <1>2, <1>3

(* What has been read of well-formed lines. *)
HaveRead(F, s, reading) == s \in Seq(F) /\ Reading(s) = reading /\ Malformed \notin ToSet(s)

LEMMA ReadOne ==
    ASSUME NEW F, NEW s, NEW reading, HaveRead(F, s, reading), NEW line \in F, line # Malformed,
           NEW after, Read(reading, line) = after
    PROVE  HaveRead(F, Append(s, line), after)
<1>1. s \in Seq(F) /\ Reading(s) = reading /\ Malformed \notin ToSet(s)
  BY DEF HaveRead
<1>2. /\ Append(s, line) \in Seq(F)
      /\ Reading(Append(s, line)) = Read(Reading(s), line)
      /\ ToSet(Append(s, line)) = ToSet(s) \cup {line}
  BY <1>1, ReadingGrows
<1> QED BY <1>1, <1>2, Zenon DEF HaveRead

LEMMA WhenAppends ==
    ASSUME NEW F, NEW s \in Seq(F), NEW line \in F, NEW c
    PROVE  s \o When(c, line) = IF c THEN Append(s, line) ELSE s
<1>1. s \o <<>> = s /\ s \o <<line>> = Append(s, line)
  OBVIOUS
<1>2. CASE c
  <2>1. When(c, line) = <<line>>
    BY <1>2, Zenon DEF When
  <2> QED BY <1>1, <1>2, <2>1, Zenon
<1>3. CASE ~ c
  <2>1. When(c, line) = <<>>
    BY <1>3, Zenon DEF When
  <2> QED BY <1>1, <1>3, <2>1, Zenon
<1> QED BY <1>2, <1>3, Zenon

(* A line that is there or not, and that says no more than is known when   *)
(* it is not.                                                              *)
LEMMA ReadWhen ==
    ASSUME NEW F, NEW s, NEW reading, HaveRead(F, s, reading), NEW line \in F, line # Malformed,
           NEW c, NEW after, c => Read(reading, line) = after, ~ c => reading = after
    PROVE  HaveRead(F, s \o When(c, line), after)
<1>1. s \o When(c, line) = IF c THEN Append(s, line) ELSE s
  BY WhenAppends DEF HaveRead
<1>2. HaveRead(F, Append(s, line), Read(reading, line))
  BY ReadOne
<1>3. CASE c
  BY <1>1, <1>2, <1>3, Zenon
<1>4. CASE ~ c
  BY <1>1, <1>4, Zenon
<1> QED BY <1>3, <1>4, Zenon

Known(a, p, t) == [origin |-> TRUE, address |-> a, port |-> p, payload_type |-> t]

(* What each kind of line does. *)
LEMMA ReadLine ==
    ASSUME NEW a, NEW p, NEW t, NEW x
    PROVE  /\ Read(NothingRead, Other) = NothingRead
           /\ Read(NothingRead, Origin) = Known(None, None, None)
           /\ Read(Known(a, p, t), Other) = Known(a, p, t)
           /\ Read(Known(a, p, t), TelephoneEvent) = Known(a, p, t)
           /\ Read(Known(a, p, t), Connection(x)) = Known(x, p, t)
           /\ Read(Known(a, p, t), Media(x)) = Known(a, x, t)
           /\ Read(Known(a, p, t), Rtpmap(x, "PCMU")) = Known(a, p, x)
<1> USE DEF Known, Read
<1>1. Read(Known(a, p, t), Other) = Known(a, p, t)
  BY DEF Other
<1>2. Read(Known(a, p, t), TelephoneEvent) = Known(a, p, t)
  BY DEF TelephoneEvent, Rtpmap
<1>3. /\ Read(NothingRead, Other) = NothingRead
      /\ Read(NothingRead, Origin) = Known(None, None, None)
  BY DEF NothingRead, Other, Origin
<1>4. Read(Known(a, p, t), Connection(x)) = Known(x, p, t)
  BY DEF Connection
<1>5. Read(Known(a, p, t), Media(x)) = Known(a, x, t)
  BY DEF Media
<1>6. Read(Known(a, p, t), Rtpmap(x, "PCMU")) = Known(a, p, x)
  BY DEF Rtpmap
<1> QED BY <1>1, <1>2, <1>3, <1>4, <1>5, <1>6, Zenon

(* No other line is malformed. *)
LEMMA WellFormed ==
    ASSUME NEW x
    PROVE  Malformed \notin {Other, Origin, TelephoneEvent, Connection(x), Media(x),
                          Rtpmap(x, "PCMU")}
BY DEF Malformed, Other, Origin, TelephoneEvent, Connection, Media, Rtpmap

(* The parser reads in an offer what the caller means, and refuses just    *)
(* the offers that the phone has no use for.                               *)
LEMMA ReadsWell ==
    ASSUME NEW offer \in Offer
    PROVE  Parse(Body(offer)) = IF Acceptable(offer) THEN Meaning(offer) ELSE Refused
<1> DEFINE session == Connection(offer.session)
           media == Media(offer.port)
           audio == Connection(offer.audio)
           pcmu == Rtpmap(offer.pcmu, "PCMU")
           F == {Other, Origin, session, media, audio, TelephoneEvent, pcmu, Malformed}
           video == offer.extra = "video"
           meant == IF offer.audio = None THEN offer.session ELSE offer.audio
           s0 == <<Other, Origin, Other>>
           s1 == s0 \o When(offer.session # None, session)
           s2 == s1 \o <<Other, media>>
           s3 == s2 \o When(offer.audio # None, audio)
           s4 == s3 \o When(offer.extra = "before", TelephoneEvent)
           s5 == s4 \o When(offer.pcmu # None, pcmu)
           s6 == s5 \o When(offer.extra = "after", TelephoneEvent)
<1>1. offer.port \in Nat
  BY NumberAssumption DEF Offer
<1>2. Body(offer) = s6 \o When(video, Malformed)
  BY DEF Body
<1>3. /\ Malformed # Other /\ Malformed # Origin /\ Malformed # TelephoneEvent
      /\ Malformed # session /\ Malformed # media /\ Malformed # audio /\ Malformed # pcmu
  BY WellFormed
<1>4. /\ Other \in F /\ Origin \in F /\ session \in F /\ media \in F /\ audio \in F
      /\ TelephoneEvent \in F /\ pcmu \in F /\ Malformed \in F
  OBVIOUS
<1> HIDE DEF F
<1>5. HaveRead(F, <<>>, NothingRead)
  BY FoldEmpty DEF HaveRead, Reading, ToSet
<1>6. HaveRead(F, s0, Known(None, None, None))
  <2> DEFINE a == Append(<<>>, Other)
             b == Append(a, Origin)
  <2>1. HaveRead(F, a, NothingRead)
    BY <1>3, <1>4, <1>5, ReadOne, ReadLine
  <2>2. s0 = Append(b, Other)
    OBVIOUS
  <2> HIDE DEF a
  <2>3. HaveRead(F, b, Known(None, None, None))
    BY <1>3, <1>4, <2>1, ReadOne, ReadLine
  <2> HIDE DEF b
  <2>4. HaveRead(F, Append(b, Other), Known(None, None, None))
    BY <1>3, <1>4, <2>3, ReadOne, ReadLine
  <2> QED BY <2>2, <2>4, Zenon
<1> HIDE DEF s0
<1>7. HaveRead(F, s1, Known(offer.session, None, None))
  <2>1. Read(Known(None, None, None), session) = Known(offer.session, None, None)
    BY ReadLine
  <2>2. offer.session = None => Known(None, None, None) = Known(offer.session, None, None)
    OBVIOUS
  <2> HIDE DEF session
  <2> QED BY <1>3, <1>4, <1>6, <2>1, <2>2, ReadWhen, Zenon
<1> HIDE DEF s1
<1>8. HaveRead(F, s2, Known(offer.session, offer.port, None))
  <2> DEFINE a == Append(s1, Other)
  <2>1. s1 \in Seq(F)
    BY <1>7 DEF HaveRead
  <2>2. s2 = Append(a, media)
    BY <2>1
  <2>3. HaveRead(F, a, Known(offer.session, None, None))
    BY <1>3, <1>4, <1>7, ReadOne, ReadLine
  <2> HIDE DEF a
  <2>4. Read(Known(offer.session, None, None), media) = Known(offer.session, offer.port, None)
    BY ReadLine
  <2> HIDE DEF media
  <2>5. HaveRead(F, Append(a, media), Known(offer.session, offer.port, None))
    BY <1>3, <1>4, <2>3, <2>4, ReadOne
  <2> QED BY <2>2, <2>5, Zenon
<1> HIDE DEF s2
<1>9. HaveRead(F, s3, Known(meant, offer.port, None))
  <2>1. Read(Known(offer.session, offer.port, None), audio) = Known(offer.audio, offer.port, None)
    BY ReadLine
  <2>2. /\ offer.audio # None => meant = offer.audio
        /\ ~ (offer.audio # None) => meant = offer.session
    OBVIOUS
  <2> HIDE DEF audio, meant
  <2>3. /\ offer.audio # None =>
             Read(Known(offer.session, offer.port, None), audio) = Known(meant, offer.port, None)
        /\ ~ (offer.audio # None) =>
             Known(offer.session, offer.port, None) = Known(meant, offer.port, None)
    BY <2>1, <2>2
  <2> QED BY <1>3, <1>4, <1>8, <2>3, ReadWhen, Zenon
<1> HIDE DEF s3, meant
<1>10. HaveRead(F, s4, Known(meant, offer.port, None))
  <2>1. Read(Known(meant, offer.port, None), TelephoneEvent) = Known(meant, offer.port, None)
    BY ReadLine
  <2> QED BY <1>3, <1>4, <1>9, <2>1, ReadWhen, Zenon
<1> HIDE DEF s4
<1>11. HaveRead(F, s5, Known(meant, offer.port, offer.pcmu))
  <2>1. Read(Known(meant, offer.port, None), pcmu) = Known(meant, offer.port, offer.pcmu)
    BY ReadLine
  <2>2. ~ (offer.pcmu # None) =>
          Known(meant, offer.port, None) = Known(meant, offer.port, offer.pcmu)
    BY Zenon
  <2> HIDE DEF pcmu
  <2> QED BY <1>3, <1>4, <1>10, <2>1, <2>2, ReadWhen, Zenon
<1> HIDE DEF s5
<1>12. HaveRead(F, s6, Known(meant, offer.port, offer.pcmu))
  <2>1. Read(Known(meant, offer.port, offer.pcmu), TelephoneEvent)
          = Known(meant, offer.port, offer.pcmu)
    BY ReadLine
  <2> QED BY <1>3, <1>4, <1>11, <2>1, ReadWhen, Zenon
<1> HIDE DEF s6, video
<1>13. Body(offer) = IF video THEN Append(s6, Malformed) ELSE s6
  BY <1>2, <1>4, <1>12, WhenAppends DEF HaveRead
<1>14. Malformed \in ToSet(Body(offer)) <=> video
  <2>1. Malformed \in ToSet(Append(s6, Malformed))
    BY <1>4, <1>12, ReadingGrows DEF HaveRead
  <2>2. Malformed \notin ToSet(s6)
    BY <1>12 DEF HaveRead
  <2> QED BY <1>13, <2>1, <2>2, Zenon
<1>15. ~ video => Reading(Body(offer)) = Known(meant, offer.port, offer.pcmu)
  BY <1>12, <1>13, Zenon DEF HaveRead
<1>16. Meaning(offer) = [address |-> meant, port |-> offer.port, payload_type |-> offer.pcmu]
  BY DEF Meaning, meant
<1>17. offer.port # None
  BY <1>1 DEF None
<1>18. Acceptable(offer) <=> ~ video /\ offer.pcmu # None /\ meant # None
  BY <1>16 DEF Acceptable, video
<1>19. CASE video
  <2>1. Parse(Body(offer)) = Refused
    BY <1>14, <1>19 DEF Parse
  <2> QED BY <1>18, <1>19, <2>1
<1>20. CASE ~ video
  <2>1. Malformed \notin ToSet(Body(offer))
    BY <1>14, <1>20
  <2>2. FoldLeft(Read, NothingRead, Body(offer)) = Known(meant, offer.port, offer.pcmu)
    BY <1>15, <1>20 DEF Reading
  <2>3. Parse(Body(offer)) = IF meant = None \/ offer.port = None \/ offer.pcmu = None THEN Refused
                             ELSE [address |-> meant, port |-> offer.port, payload_type |-> offer.pcmu]
    BY <2>1, <2>2 DEF Parse, Known
  <2> QED BY <1>16, <1>17, <1>18, <1>20, <2>3
<1> QED BY <1>19, <1>20

(* What the renderer writes the parser reads back: every description that  *)
(* lacks nothing, and with it the one that the phone answers with.         *)
THEOREM ReadsBackWhatIsWritten ==
    \A a, p, t : a # None /\ p # None /\ t # None =>
        LET sdp == [address |-> a, port |-> p, payload_type |-> t]
        IN  Parse(Render(sdp)) = sdp
<1> SUFFICES ASSUME NEW a, NEW p, NEW t, a # None, p # None, t # None
             PROVE  Parse(Render([address |-> a, port |-> p, payload_type |-> t]))
                    = [address |-> a, port |-> p, payload_type |-> t]
  BY Zenon
<1> DEFINE sdp == [address |-> a, port |-> p, payload_type |-> t]
           c == Connection(a)
           m == Media(p)
           r == Rtpmap(t, "PCMU")
           F == {Other, Origin, c, m, r}
           s1 == Append(<<>>, Other)
           s2 == Append(s1, Origin)
           s3 == Append(s2, Other)
           s4 == Append(s3, c)
           s5 == Append(s4, Other)
           s6 == Append(s5, m)
           s7 == Append(s6, r)
<1>1. Malformed # Other /\ Malformed # Origin /\ Malformed # c /\ Malformed # m /\ Malformed # r
  BY WellFormed
<1>2. Other \in F /\ Origin \in F /\ c \in F /\ m \in F /\ r \in F
  OBVIOUS
<1>3. Render(sdp) = s7
  BY DEF Render
<1> HIDE DEF F
<1>4. HaveRead(F, <<>>, NothingRead)
  BY FoldEmpty DEF HaveRead, Reading, ToSet
<1>5. HaveRead(F, s1, NothingRead)
  BY <1>1, <1>2, <1>4, ReadOne, ReadLine
<1> HIDE DEF s1
<1>6. HaveRead(F, s2, Known(None, None, None))
  BY <1>1, <1>2, <1>5, ReadOne, ReadLine
<1> HIDE DEF s2
<1>7. HaveRead(F, s3, Known(None, None, None))
  BY <1>1, <1>2, <1>6, ReadOne, ReadLine
<1> HIDE DEF s3
<1>8. HaveRead(F, s4, Known(a, None, None))
  BY <1>1, <1>2, <1>7, ReadOne, ReadLine
<1> HIDE DEF s4
<1>9. HaveRead(F, s5, Known(a, None, None))
  BY <1>1, <1>2, <1>8, ReadOne, ReadLine
<1> HIDE DEF s5
<1>10. HaveRead(F, s6, Known(a, p, None))
  BY <1>1, <1>2, <1>9, ReadOne, ReadLine
<1> HIDE DEF s6
<1>11. HaveRead(F, s7, Known(a, p, t))
  BY <1>1, <1>2, <1>10, ReadOne, ReadLine
<1> HIDE DEF s7
<1>12. FoldLeft(Read, NothingRead, s7) = Known(a, p, t) /\ Malformed \notin ToSet(s7)
  BY <1>11 DEF HaveRead, Reading
<1>13. Parse(s7) = sdp
  BY <1>12 DEF Parse, Known
<1> QED BY <1>3, <1>13

----------------------------------------------------------------------------
(* Offer and answer. *)

(* What the phone and the caller agree on when an offer is acceptable. *)
Session == [address : Address, port : Port, payload_type : PayloadType]

Agreement == [offer : Session, told : {LocalSdp.payload_type}]

Stream == [active : BOOLEAN, address : Address \cup {None}, port : Port \cup {None},
           payload_type : PayloadType \cup {None}, ssrc : None .. MaxSource]

(* Who waits for what; an unacceptable offer is never accepted. *)
TalksInOrder ==
    /\ invite \in Offer \cup {NoOffer}
    /\ answers \subseteq {"200", "4xx"}
    /\ ack \in BOOLEAN
    /\ agreed \in Agreement \cup {NoSession}
    /\ source \in 0 .. MaxSource
    /\ copies \subseteq Described
    /\ dialog \in {"Idle", "Ringing", "Established", "Other"}
    /\ answered \in BOOLEAN /\ outdated \in BOOLEAN
    /\ invite = NoOffer => answers = {}
    /\ Opening \/ "200" \in answers => Acceptable(invite)
    /\ Own /\ "4xx" \in answers /\ ~ Opening => ~ Acceptable(invite)

(* The description that the phone has to go by is that of the offer it has *)
(* accepted, before the caller knows, or the one that is agreed; unless a  *)
(* copy of an older one came, or the caller takes the call to be over.     *)
DescriptionIsCurrent ==
    /\ remote_sdp \in Session \cup {Refused}
    /\ Own => remote_sdp \in Session
    /\ Own /\ ~ outdated /\ (Opening \/ agreed # NoSession) => remote_sdp = Current

CommandFor(sdp) == IF sdp.port = 0 THEN StopStream ELSE sdp

(* What the RTP task does when it has handled that command, and has        *)
(* learned a source, or not.                                               *)
CarriesOut(sdp) ==
    IF sdp.port = 0 THEN rtp = Silent
    ELSE /\ rtp.active /\ rtp.address = sdp.address
         /\ rtp.port = sdp.port /\ rtp.payload_type = sdp.payload_type

(* Without a call there is no stream, and in the call it is the one of the *)
(* description, or will be with the command that is on its way; an ACK     *)
(* that is on its way will start it again.                                 *)
StreamFollows ==
    /\ rtp \in Stream
    /\ late \in BOOLEAN
    /\ command \in Session \cup {NoCommand, StopStream}
    /\ dialog = "Idle" => command = StopStream \/ (command = NoCommand /\ rtp = Silent)
    /\ dialog = "Established" =>
         IF command = NoCommand THEN CarriesOut(remote_sdp) ELSE command = CommandFor(remote_sdp)
    /\ dialog = "Established" /\ command = NoCommand /\ ~ ack /\ ~ late =>
         rtp.ssrc \in {None, source}

NegotiationInv == TalksInOrder /\ DescriptionIsCurrent /\ StreamFollows

(* An acceptable offer is a description. *)
LEMMA MeaningTyped ==
    ASSUME NEW offer \in Offer, Acceptable(offer)
    PROVE  Meaning(offer) \in Session /\ Meaning(offer) \in Described
<1>1. /\ offer.session \in Address \cup {None} /\ offer.audio \in Address \cup {None}
      /\ offer.port \in Port /\ offer.pcmu \in PayloadType \cup {None}
  BY DEF Offer
<1>2. Meaning(offer) \in Session
  BY <1>1 DEF Acceptable, Meaning, Session
<1>3. Meaning(offer) \in Described
  BY DEF Described
<1> QED BY <1>2, <1>3

LEMMA DescribedTyped == Described \subseteq Session
<1> SUFFICES ASSUME NEW sdp \in Described PROVE sdp \in Session
  OBVIOUS
<1>1. PICK offer \in {o \in Offer : Acceptable(o)} : sdp = Meaning(offer)
  BY Zenon DEF Described
<1> QED BY <1>1, MeaningTyped

(* A session is never taken for "no description" or for one of the         *)
(* commands that are none.                                                 *)
LEMMA SessionIsSome ==
    ASSUME NEW sdp \in Session
    PROVE  /\ sdp # Refused
           /\ CommandFor(sdp) # NoCommand
           /\ CommandFor(sdp) = StopStream <=> sdp.port = 0
           /\ sdp.port \in Nat
<1>1. sdp.port \in Nat
  BY NumberAssumption DEF Session
<1>2. Refused.port = None /\ None \notin Nat
  BY DEF Refused, None
<1>3. StopStream.port = 0 /\ StopStream # NoCommand
  <2>1. StopStream.port = 0
    BY DEF StopStream, Refused
  <2> QED BY <1>2, <2>1 DEF NoCommand
<1>4. CASE sdp.port = 0
  BY <1>1, <1>2, <1>3, <1>4 DEF CommandFor, NoCommand
<1>5. CASE sdp.port # 0
  BY <1>1, <1>2, <1>3, <1>5 DEF CommandFor, NoCommand
<1> QED BY <1>4, <1>5

LEMMA StopIsSome == StopStream # NoCommand
<1>1. StopStream.port = 0 /\ NoCommand.port = None /\ None # 0
  BY DEF StopStream, NoCommand, Refused, None
<1> QED BY <1>1

LEMMA AgreementIsSome ==
    ASSUME NEW a \in Agreement
    PROVE  a # NoSession /\ a.offer \in Session /\ a.told = LocalSdp.payload_type
<1>1. a.offer \in Session /\ a.told = 0
  BY DEF Agreement, LocalSdp
<1>2. NoSession.told = None /\ None # 0
  BY DEF NoSession, None
<1>3. LocalSdp.payload_type = 0
  BY DEF LocalSdp
<1> QED BY <1>1, <1>2, <1>3

LEMMA StartsStreams ==
    ASSUME NEW sdp \in Session, StartStreams(sdp)
    PROVE  /\ command' = CommandFor(sdp) /\ command' # NoCommand
           /\ command' \in Session \cup {NoCommand, StopStream}
BY SessionIsSome DEF StartStreams, CommandFor

LEMMA TalkBegins == ASSUME NegotiationInit PROVE NegotiationInv
<1> USE DEF NegotiationInit
<1>1. TalksInOrder
  <2>1. ~ ack /\ ack \in BOOLEAN /\ answered \in BOOLEAN /\ outdated \in BOOLEAN
    BY Zenon
  <2>2. 0 \in 0 .. MaxSource
    BY NumberAssumption
  <2> QED BY <2>1, <2>2 DEF TalksInOrder, Opening
<1>2. DescriptionIsCurrent
  BY DEF DescriptionIsCurrent, Own
<1>3. StreamFollows
  <2>1. rtp \in Stream /\ rtp.ssrc = None
    BY NumberAssumption DEF Silent, Stream, None
  <2> QED BY <2>1 DEF StreamFollows
<1> QED BY <1>1, <1>2, <1>3 DEF NegotiationInv

(* A new call begins; what the phone had is another's from then on. *)
LEMMA InviteKeeps ==
    ASSUME NegotiationInv, NEW offer \in Offer, Invite(offer) PROVE NegotiationInv'
<1>1. /\ invite' = offer /\ agreed = NoSession /\ Acceptable(offer)
      /\ answers' = {} /\ ack' = FALSE /\ copies' = {}
      /\ dialog' = (IF dialog = "Idle" THEN "Idle" ELSE "Other")
      /\ answered' = FALSE /\ remote_sdp' = Refused /\ outdated' = FALSE
      /\ UNCHANGED <<agreed, source, command, rtp, late>>
  BY DEF Invite
<1>2. TalksInOrder'
  <2>1. ack' \in BOOLEAN /\ answered' \in BOOLEAN /\ outdated' \in BOOLEAN
    BY <1>1, Zenon
  <2>2. ~ Own'
    BY <1>1 DEF Own
  <2> QED BY <1>1, <2>1, <2>2 DEF NegotiationInv, TalksInOrder
<1>3. DescriptionIsCurrent'
  BY <1>1 DEF DescriptionIsCurrent, Own
<1>4. StreamFollows'
  BY <1>1 DEF NegotiationInv, StreamFollows
<1> QED BY <1>2, <1>3, <1>4 DEF NegotiationInv

LEMMA InviteAgainKeeps ==
    ASSUME NegotiationInv, NEW offer \in Offer, InviteAgain(offer) PROVE NegotiationInv'
<1>1. /\ invite' = offer /\ invite = NoOffer /\ agreed # NoSession /\ answers = {}
      /\ UNCHANGED <<answers, ack, agreed, source, copies, dialog, answered, remote_sdp,
                     outdated, command, rtp, late>>
  BY DEF InviteAgain, phone, NegotiationInv, TalksInOrder
<1>2. TalksInOrder'
  BY <1>1 DEF NegotiationInv, TalksInOrder, Opening
<1>3. DescriptionIsCurrent'
  BY <1>1 DEF NegotiationInv, DescriptionIsCurrent, Own, Opening, Current
<1>4. StreamFollows'
  BY <1>1 DEF NegotiationInv, StreamFollows, CarriesOut
<1> QED BY <1>2, <1>3, <1>4 DEF NegotiationInv

LEMMA InitialInviteKeeps == ASSUME NegotiationInv, InitialInvite PROVE NegotiationInv'
<1>1. /\ Opening /\ answers = {} /\ dialog = "Idle" /\ dialog' = "Ringing"
      /\ remote_sdp' = Parse(Body(invite))
      /\ UNCHANGED <<invite, answers, ack, agreed, source, copies, answered, outdated,
                     command, rtp, late>>
  BY DEF InitialInvite, asked
<1>2. invite \in Offer /\ Acceptable(invite)
  BY <1>1 DEF NegotiationInv, TalksInOrder, Opening
<1>3. remote_sdp' = Meaning(invite) /\ Meaning(invite) \in Session
  BY <1>1, <1>2, ReadsWell, MeaningTyped
<1>4. TalksInOrder'
  BY <1>1, <1>2 DEF NegotiationInv, TalksInOrder, Opening
<1>5. DescriptionIsCurrent'
  BY <1>1, <1>3 DEF DescriptionIsCurrent, Opening, Current
<1>6. StreamFollows'
  BY <1>1 DEF NegotiationInv, StreamFollows
<1> QED BY <1>4, <1>5, <1>6 DEF NegotiationInv

(* A refusal, or an ACK that comes again. *)
LEMMA BusyKeeps == ASSUME NegotiationInv, InitialWhileBusy PROVE NegotiationInv'
<1>1. /\ answers' = IF Opening THEN answers \cup {"4xx"} ELSE answers
      /\ ack' = (ack \/ ~ Opening)
      /\ UNCHANGED <<invite, agreed, source, copies, dialog, answered, remote_sdp, outdated,
                     command, rtp, late>>
  BY DEF InitialWhileBusy, Refuse, phone
<1>2. ack' \in BOOLEAN /\ (ack => ack')
  BY <1>1, Zenon DEF NegotiationInv, TalksInOrder
<1>3. "200" \in answers' <=> "200" \in answers
  BY <1>1
<1>4. TalksInOrder'
  BY <1>1, <1>2, <1>3 DEF NegotiationInv, TalksInOrder, Opening, Own
<1>5. DescriptionIsCurrent'
  BY <1>1, <1>3 DEF NegotiationInv, DescriptionIsCurrent, Own, Opening, Current
<1>6. StreamFollows'
  BY <1>1, <1>2 DEF NegotiationInv, StreamFollows, CarriesOut
<1> QED BY <1>4, <1>5, <1>6 DEF NegotiationInv

LEMMA AnswerKeeps == ASSUME NegotiationInv, HandleAnswer PROVE NegotiationInv'
<1>1. /\ dialog = "Ringing" /\ answered' = TRUE
      /\ answers' = IF Opening THEN answers \cup {"200"} ELSE answers
      /\ UNCHANGED <<invite, ack, agreed, source, copies, dialog, remote_sdp, outdated,
                     command, rtp, late>>
  BY DEF HandleAnswer
<1>2. answered' \in BOOLEAN
  BY <1>1, Zenon
<1>3. TalksInOrder'
  BY <1>1, <1>2 DEF NegotiationInv, TalksInOrder, Opening, Own
<1>4. DescriptionIsCurrent'
  BY <1>1 DEF NegotiationInv, DescriptionIsCurrent, Own, Opening, Current
<1>5. StreamFollows'
  BY <1>1 DEF NegotiationInv, StreamFollows
<1> QED BY <1>3, <1>4, <1>5 DEF NegotiationInv

(* A refused offer leaves what is agreed; an accepted one is what the      *)
(* phone goes by before the caller knows, and again when it comes twice.   *)
LEMMA ReinviteKeeps == ASSUME NegotiationInv, Reinvite PROVE NegotiationInv'
<1>1. /\ invite # NoOffer /\ ~ Opening /\ agreed # NoSession /\ Own /\ invite \in Offer
      /\ UNCHANGED <<invite, ack, agreed, source, dialog, answered, rtp, late>>
  BY DEF Reinvite, NegotiationInv, TalksInOrder, Opening
<1>2. CASE Acceptable(invite)
  <2>1. /\ Meaning(invite) \in Session /\ Meaning(invite) \in Described
        /\ Parse(Body(invite)) = Meaning(invite)
    BY <1>1, <1>2, MeaningTyped, ReadsWell
  <2>2. /\ answers' = answers \cup {"200"} /\ copies' \in {copies, copies \cup {Meaning(invite)}}
        /\ remote_sdp' = Meaning(invite) /\ outdated' = FALSE /\ StartStreams(Meaning(invite))
    BY <2>1, SessionIsSome DEF Reinvite
  <2>3. /\ command' = CommandFor(Meaning(invite)) /\ command' # NoCommand
        /\ command' \in Session \cup {NoCommand, StopStream}
    BY <2>1, <2>2, StartsStreams
  <2>4. TalksInOrder'
    <3>1. "4xx" \notin answers /\ "4xx" \notin answers'
      BY <1>1, <1>2, <2>2 DEF NegotiationInv, TalksInOrder
    <3>2. copies' \subseteq Described /\ outdated' \in BOOLEAN
      BY <2>1, <2>2, Zenon DEF NegotiationInv, TalksInOrder
    <3> QED BY <1>1, <1>2, <2>2, <3>1, <3>2 DEF NegotiationInv, TalksInOrder
  <2>5. DescriptionIsCurrent'
    BY <1>1, <2>1, <2>2 DEF DescriptionIsCurrent, Current
  <2>6. StreamFollows'
    BY <1>1, <2>2, <2>3 DEF NegotiationInv, StreamFollows, Own
  <2> QED BY <2>4, <2>5, <2>6 DEF NegotiationInv
<1>3. CASE ~ Acceptable(invite)
  <2>1. Parse(Body(invite)) = Refused
    BY <1>1, <1>3, ReadsWell
  <2>2. /\ answers' = answers \cup {"4xx"} /\ UNCHANGED <<copies, remote_sdp, outdated, command>>
        /\ "200" \notin answers /\ "200" \notin answers'
    BY <1>1, <1>3, <2>1 DEF Reinvite, NegotiationInv, TalksInOrder
  <2>3. TalksInOrder'
    BY <1>1, <1>3, <2>2 DEF NegotiationInv, TalksInOrder, Opening
  <2>4. DescriptionIsCurrent'
    BY <1>1, <2>2 DEF NegotiationInv, DescriptionIsCurrent, Own, Opening, Current
  <2>5. StreamFollows'
    BY <1>1, <2>2 DEF NegotiationInv, StreamFollows, CarriesOut
  <2> QED BY <2>3, <2>4, <2>5 DEF NegotiationInv
<1> QED BY <1>2, <1>3

(* A copy that does not say what is current is noted as outdated. *)
LEMMA LateReinviteKeeps ==
    ASSUME NegotiationInv, NEW sdp \in copies, LateReinvite(sdp) PROVE NegotiationInv'
<1>1. /\ Own /\ remote_sdp' = sdp /\ outdated' = (sdp # Current) /\ StartStreams(sdp)
      /\ ack' \in {ack, TRUE}
      /\ UNCHANGED <<invite, answers, agreed, source, copies, dialog, answered, rtp, late>>
  BY DEF LateReinvite
<1>2. sdp \in Session
  BY DescribedTyped DEF NegotiationInv, TalksInOrder
<1>3. /\ command' = CommandFor(sdp) /\ command' # NoCommand
      /\ command' \in Session \cup {NoCommand, StopStream}
  BY <1>1, <1>2, StartsStreams
<1>4. TalksInOrder'
  <2>1. ack' \in BOOLEAN /\ outdated' \in BOOLEAN
    BY <1>1, Zenon DEF NegotiationInv, TalksInOrder
  <2> QED BY <1>1, <2>1 DEF NegotiationInv, TalksInOrder, Opening, Own
<1>5. DescriptionIsCurrent'
  <2>1. Current' = Current
    BY <1>1 DEF Current, Opening
  <2>2. ~ outdated' => remote_sdp' = Current
    BY <1>1, Zenon
  <2> QED BY <1>1, <1>2, <2>1, <2>2 DEF DescriptionIsCurrent
<1>6. StreamFollows'
  BY <1>1, <1>3 DEF NegotiationInv, StreamFollows, Own
<1> QED BY <1>4, <1>5, <1>6 DEF NegotiationInv

LEMMA AckKeeps == ASSUME NegotiationInv, HandleAck PROVE NegotiationInv'
<1>1. /\ Own /\ ack' \in BOOLEAN /\ dialog' = "Established" /\ StartStreams(remote_sdp)
      /\ UNCHANGED <<invite, answers, agreed, source, copies, answered, remote_sdp, outdated,
                     rtp, late>>
  BY DEF HandleAck
<1>2. remote_sdp \in Session
  BY <1>1 DEF NegotiationInv, DescriptionIsCurrent
<1>3. /\ command' = CommandFor(remote_sdp) /\ command' # NoCommand
      /\ command' \in Session \cup {NoCommand, StopStream}
  BY <1>1, <1>2, StartsStreams
<1>4. Own'
  BY <1>1 DEF Own
<1>5. TalksInOrder'
  BY <1>1, <1>4 DEF NegotiationInv, TalksInOrder, Opening
<1>6. DescriptionIsCurrent'
  BY <1>1, <1>2, <1>4 DEF NegotiationInv, DescriptionIsCurrent, Opening, Current
<1>7. StreamFollows'
  BY <1>1, <1>3 DEF NegotiationInv, StreamFollows
<1> QED BY <1>5, <1>6, <1>7 DEF NegotiationInv

(* A call ends. *)
LEMMA EndKeeps ==
    ASSUME NegotiationInv, EndCall, invite' \in {invite, NoOffer}, agreed' \in {agreed, NoSession},
           invite' # invite \/ agreed' # agreed => invite' = NoOffer /\ agreed' = NoSession,
           answers' = {} \/ (invite' = invite /\ agreed' = agreed /\ answers' = answers)
             \/ (invite' = invite /\ agreed' = agreed /\ Opening /\ answers' = answers \cup {"4xx"}),
           UNCHANGED <<source, rtp, late>>
    PROVE  NegotiationInv'
<1>1. /\ dialog' = "Idle" /\ answered' = FALSE /\ remote_sdp' = Refused /\ outdated' = FALSE
      /\ command' = StopStream /\ ack' = FALSE /\ copies' = {}
  BY DEF EndCall
<1>2. ~ Own'
  BY <1>1 DEF Own
<1>3. TalksInOrder'
  <2>1. ack' \in BOOLEAN /\ answered' \in BOOLEAN /\ outdated' \in BOOLEAN
    BY <1>1, Zenon
  <2>2. answers' \subseteq {"200", "4xx"} /\ (invite' = NoOffer => answers' = {})
    BY DEF NegotiationInv, TalksInOrder, Opening
  <2>3. (Opening \/ "200" \in answers => Acceptable(invite))'
    BY DEF NegotiationInv, TalksInOrder, Opening
  <2> QED BY <1>1, <1>2, <2>1, <2>2, <2>3 DEF NegotiationInv, TalksInOrder
<1>4. DescriptionIsCurrent'
  BY <1>1, <1>2 DEF DescriptionIsCurrent
<1>5. StreamFollows'
  BY <1>1 DEF NegotiationInv, StreamFollows
<1> QED BY <1>3, <1>4, <1>5 DEF NegotiationInv

LEMMA ByeKeeps == ASSUME NegotiationInv, HandleBye PROVE NegotiationInv'
<1>1. agreed' = NoSession /\ invite' = NoOffer /\ answers' = {} /\ UNCHANGED <<source, rtp, late>>
  BY DEF HandleBye
<1>2. CASE dialog = "Established"
  BY <1>1, <1>2, EndKeeps DEF HandleBye
<1>3. CASE dialog # "Established"
  <2>1. UNCHANGED <<ack, copies, dialog, answered, remote_sdp, outdated, command>>
    BY <1>3 DEF HandleBye, phone
  <2>2. TalksInOrder'
    BY <1>1, <2>1 DEF NegotiationInv, TalksInOrder, Opening
  <2>3. DescriptionIsCurrent'
    BY <1>1, <2>1 DEF NegotiationInv, DescriptionIsCurrent, Own, Opening
  <2>4. StreamFollows'
    BY <1>1, <1>3, <2>1 DEF NegotiationInv, StreamFollows
  <2> QED BY <2>2, <2>3, <2>4 DEF NegotiationInv
<1> QED BY <1>2, <1>3

LEMMA CallEndKeeps ==
    ASSUME NegotiationInv, HandleCancel \/ CheckCallTimeouts \/ HandleHangup \/ OtherEnds
    PROVE  NegotiationInv'
<1>1. EndCall /\ UNCHANGED <<invite, agreed, source, rtp, late>>
  BY DEF HandleCancel, CheckCallTimeouts, HandleHangup, OtherEnds
<1>2. answers' = answers \/ (Opening /\ answers' = answers \cup {"4xx"})
  BY DEF HandleCancel, CheckCallTimeouts, HandleHangup, OtherEnds, Refuse
<1> QED BY <1>1, <1>2, EndKeeps

(* Another dialog has no say in this one. *)
LEMMA OtherKeeps ==
    ASSUME NegotiationInv,
           \/ OtherBegins
           \/ \E sdp \in Described : OtherStreams(sdp)
           \/ \E reply \in {"200", "4xx"} : OtherAnswers(reply)
    PROVE  NegotiationInv'
<1>1. /\ dialog' = "Other" /\ ~ Own'
      /\ UNCHANGED <<invite, ack, agreed, source, copies, answered, remote_sdp, outdated, rtp, late>>
  BY DEF OtherBegins, OtherStreams, OtherAnswers, asked, phone, Own
<1>2. command' \in Session \cup {NoCommand, StopStream}
  <2>1. CASE OtherBegins \/ \E reply \in {"200", "4xx"} : OtherAnswers(reply)
    BY <2>1 DEF OtherBegins, OtherAnswers, phone, NegotiationInv, StreamFollows
  <2>2. ASSUME NEW sdp \in Described, OtherStreams(sdp)
        PROVE  command' \in Session \cup {NoCommand, StopStream}
    BY <2>2, DescribedTyped, StartsStreams DEF OtherStreams
  <2> QED BY <2>1, <2>2
<1>3. /\ answers' \subseteq {"200", "4xx"} /\ (invite' = NoOffer => answers' = {})
      /\ "200" \in answers' => Acceptable(invite)
  <2>1. CASE answers' = answers
    BY <1>1, <2>1 DEF NegotiationInv, TalksInOrder
  <2>2. ASSUME NEW reply \in {"200", "4xx"}, OtherAnswers(reply)
        PROVE  /\ answers' \subseteq {"200", "4xx"} /\ (invite' = NoOffer => answers' = {})
               /\ "200" \in answers' => Acceptable(invite)
    BY <1>1, <2>2 DEF OtherAnswers, NegotiationInv, TalksInOrder
  <2> QED BY <2>1, <2>2 DEF OtherBegins, OtherStreams, asked
<1>4. TalksInOrder'
  BY <1>1, <1>3 DEF NegotiationInv, TalksInOrder, Opening
<1>5. DescriptionIsCurrent'
  BY <1>1 DEF NegotiationInv, DescriptionIsCurrent
<1>6. StreamFollows'
  BY <1>1, <1>2 DEF NegotiationInv, StreamFollows
<1> QED BY <1>4, <1>5, <1>6 DEF NegotiationInv

(* What the caller is told is the payload type of the phone's description. *)
LEMMA ToldIs == Last(Render(LocalSdp)).pt = LocalSdp.payload_type
<1> DEFINE lines == Render(LocalSdp)
<1>1. Len(lines) = 7
  BY DEF Render
<1>2. lines[7] = Rtpmap(LocalSdp.payload_type, "PCMU")
  BY DEF Render
<1>3. Rtpmap(LocalSdp.payload_type, "PCMU").pt = LocalSdp.payload_type
  BY DEF Rtpmap
<1> HIDE DEF lines
<1>4. Last(lines) = lines[7]
  BY <1>1 DEF Last
<1> QED BY <1>2, <1>3, <1>4 DEF lines

(* A 200 makes agreed what was current; a refusal leaves it, and is only   *)
(* had when nothing newer was accepted.                                    *)
LEMMA ReplyKeeps ==
    ASSUME NegotiationInv, NEW reply \in answers, TakeReply(reply) PROVE NegotiationInv'
<1>1. /\ ack' = Own /\ invite' = NoOffer /\ answers' = {}
      /\ UNCHANGED <<copies, dialog, answered, remote_sdp, outdated, command, rtp, late>>
  BY DEF TakeReply, phone
<1>2. invite # NoOffer /\ invite \in Offer /\ reply \in {"200", "4xx"}
  BY DEF NegotiationInv, TalksInOrder
<1>3. /\ agreed' \in Agreement \cup {NoSession} /\ source' \in 0 .. MaxSource
      /\ Own /\ ~ outdated /\ agreed' # NoSession => remote_sdp = agreed'.offer
  <2>1. CASE reply = "4xx"
    <3>1. UNCHANGED <<agreed, source>>
      BY <2>1 DEF TakeReply
    <3>2. ASSUME Own, ~ outdated, agreed # NoSession PROVE remote_sdp = agreed.offer
      <4>1. ~ Opening
        BY <3>2 DEF Opening
      <4>2. "200" \notin answers
        BY <2>1, <3>2, <4>1 DEF NegotiationInv, TalksInOrder
      <4> QED BY <3>2, <4>1, <4>2 DEF NegotiationInv, DescriptionIsCurrent, Current
    <3> QED BY <3>1, <3>2 DEF NegotiationInv, TalksInOrder
  <2>2. CASE reply = "200"
    <3>1. agreed' = [offer |-> Meaning(invite), told |-> LocalSdp.payload_type]
      BY <2>2, ToldIs DEF TakeReply
    <3>2. source' \in 0 .. MaxSource
      BY <2>2 DEF TakeReply
    <3>3. Meaning(invite) \in Session
      BY <1>2, <2>2, MeaningTyped DEF NegotiationInv, TalksInOrder
    <3>4. Own /\ ~ outdated => remote_sdp = Meaning(invite)
      BY <1>2, <2>2 DEF NegotiationInv, DescriptionIsCurrent, Current, Opening
    <3> QED BY <3>1, <3>2, <3>3, <3>4 DEF Agreement
  <2> QED BY <1>2, <2>1, <2>2
<1>4. ack' \in BOOLEAN /\ (Own => ack')
  <2>1. Own \in BOOLEAN
    BY DEF Own
  <2>2. ack' \in BOOLEAN
    BY <1>1, <2>1, Zenon
  <2>3. Own => ack'
    BY <1>1, Zenon
  <2> QED BY <2>2, <2>3
<1>5. TalksInOrder'
  BY <1>1, <1>3, <1>4 DEF NegotiationInv, TalksInOrder, Opening
<1>6. DescriptionIsCurrent'
  BY <1>1, <1>3 DEF NegotiationInv, DescriptionIsCurrent, Own, Opening, Current
<1>7. StreamFollows'
  BY <1>1, <1>4 DEF NegotiationInv, StreamFollows, CarriesOut, Own
<1> QED BY <1>5, <1>6, <1>7 DEF NegotiationInv

(* The RTP task takes the stream from the command. *)
LEMMA CommandKeeps == ASSUME NegotiationInv, HandleCommand PROVE NegotiationInv'
<1>1. /\ command # NoCommand /\ command' = NoCommand /\ late' = FALSE
      /\ rtp' = IF command = StopStream THEN Silent ELSE Started(command)
      /\ UNCHANGED <<invite, answers, ack, agreed, source, copies, dialog, answered, remote_sdp,
                     outdated>>
  BY DEF HandleCommand, asked
<1>2. TalksInOrder' /\ DescriptionIsCurrent'
  BY <1>1 DEF NegotiationInv, TalksInOrder, DescriptionIsCurrent, Current, Opening, Own
<1>3. Silent \in Stream /\ Silent.ssrc = None
  BY NumberAssumption DEF Silent, Stream, None
<1>4. CASE command = StopStream
  <2>1. rtp' = Silent
    BY <1>1, <1>4
  <2>2. dialog = "Established" => CarriesOut(remote_sdp)'
    <3> SUFFICES ASSUME dialog = "Established" PROVE CarriesOut(remote_sdp)'
      OBVIOUS
    <3>1. remote_sdp \in Session /\ CommandFor(remote_sdp) = StopStream
      BY <1>1, <1>4 DEF NegotiationInv, StreamFollows, DescriptionIsCurrent, Own
    <3>2. remote_sdp.port = 0
      BY <3>1, SessionIsSome
    <3> QED BY <1>1, <2>1, <3>2 DEF CarriesOut
  <2>3. StreamFollows'
    BY <1>1, <1>3, <2>1, <2>2 DEF StreamFollows
  <2> QED BY <1>2, <2>3 DEF NegotiationInv
<1>5. CASE command # StopStream
  <2>1. command \in Session /\ dialog # "Idle"
    BY <1>1, <1>5 DEF NegotiationInv, StreamFollows
  <2>2. rtp' = Started(command)
    BY <1>1, <1>5
  <2>3. rtp' \in Stream /\ rtp'.ssrc = None
    BY <2>1, <2>2, NumberAssumption DEF Started, Session, Stream, None
  <2>4. dialog = "Established" => CarriesOut(remote_sdp)'
    <3> SUFFICES ASSUME dialog = "Established" PROVE CarriesOut(remote_sdp)'
      OBVIOUS
    <3>1. command = remote_sdp /\ remote_sdp.port # 0
      BY <1>1, <1>5 DEF NegotiationInv, StreamFollows, CommandFor
    <3> QED BY <1>1, <2>2, <3>1 DEF CarriesOut, Started
  <2>5. StreamFollows'
    BY <1>1, <2>1, <2>3, <2>4 DEF StreamFollows
  <2> QED BY <1>2, <2>5 DEF NegotiationInv
<1> QED BY <1>4, <1>5

LEMMA PacketKeeps == ASSUME NegotiationInv, NEW p \in Packet, Receive(p) PROVE NegotiationInv'
<1>1. /\ rtp.active /\ rtp' = [rtp EXCEPT !.ssrc = p.ssrc]
      /\ late' = (late \/ p.ssrc # source)
      /\ UNCHANGED <<invite, answers, ack, agreed, source, copies, dialog, answered, remote_sdp,
                     outdated, command>>
  BY DEF Receive, Accepts, asked, phone
<1>2. TalksInOrder' /\ DescriptionIsCurrent'
  BY <1>1 DEF NegotiationInv, TalksInOrder, DescriptionIsCurrent, Current, Opening, Own
<1>3. p.ssrc \in None .. MaxSource
  BY NumberAssumption DEF Packet, None
<1>4. /\ rtp' \in Stream /\ rtp'.ssrc = p.ssrc /\ rtp'.active = rtp.active
      /\ rtp'.address = rtp.address /\ rtp'.port = rtp.port /\ rtp'.payload_type = rtp.payload_type
  BY <1>1, <1>3 DEF NegotiationInv, StreamFollows, Stream
<1>5. rtp # Silent
  BY <1>1 DEF Silent
<1>6. late' \in BOOLEAN /\ (~ late' => p.ssrc = source)
  BY <1>1 DEF NegotiationInv, StreamFollows
<1>7. dialog = "Established" /\ command = NoCommand => CarriesOut(remote_sdp)'
  BY <1>1, <1>4, <1>5 DEF NegotiationInv, StreamFollows, CarriesOut
<1>8. StreamFollows'
  BY <1>1, <1>4, <1>5, <1>6, <1>7 DEF NegotiationInv, StreamFollows
<1> QED BY <1>2, <1>8 DEF NegotiationInv

(* The invariant is inductive: one lemma per action, or per kind of them. *)
THEOREM NegotiationInductive ==
    NegotiationInv /\ [NegotiationNext]_negotiationVars => NegotiationInv'
<1> SUFFICES ASSUME NegotiationInv, [NegotiationNext]_negotiationVars PROVE NegotiationInv'
  OBVIOUS
<1>1. ASSUME NEW offer \in Offer, Invite(offer) PROVE NegotiationInv'
  BY <1>1, InviteKeeps
<1>2. ASSUME NEW offer \in Offer, InviteAgain(offer) PROVE NegotiationInv'
  BY <1>2, InviteAgainKeeps
<1>3. ASSUME NEW reply \in answers, TakeReply(reply) PROVE NegotiationInv'
  BY <1>3, ReplyKeeps
<1>4. CASE InitialInvite
  BY <1>4, InitialInviteKeeps
<1>5. CASE InitialWhileBusy
  BY <1>5, BusyKeeps
<1>6. CASE HandleAnswer
  BY <1>6, AnswerKeeps
<1>7. CASE Reinvite
  BY <1>7, ReinviteKeeps
<1>8. ASSUME NEW sdp \in copies, LateReinvite(sdp) PROVE NegotiationInv'
  BY <1>8, LateReinviteKeeps
<1>9. CASE HandleAck
  BY <1>9, AckKeeps
<1>10. CASE HandleBye
  BY <1>10, ByeKeeps
<1>11. CASE HandleCancel \/ CheckCallTimeouts \/ HandleHangup \/ OtherEnds
  BY <1>11, CallEndKeeps
<1>12. CASE \/ OtherBegins
            \/ \E sdp \in Described : OtherStreams(sdp)
            \/ \E reply \in {"200", "4xx"} : OtherAnswers(reply)
  BY <1>12, OtherKeeps
<1>13. CASE HandleCommand
  BY <1>13, CommandKeeps
<1>14. ASSUME NEW p \in Packet, Receive(p) PROVE NegotiationInv'
  BY <1>14, PacketKeeps
<1>15. CASE UNCHANGED negotiationVars
  BY <1>15 DEF negotiationVars, asked, phone, NegotiationInv, TalksInOrder, DescriptionIsCurrent,
               Current, Opening, Own, StreamFollows, CarriesOut
<1> QED
  BY <1>1, <1>2, <1>3, <1>4, <1>5, <1>6, <1>7, <1>8, <1>9, <1>10, <1>11, <1>12, <1>13, <1>14,
     <1>15, Zenon DEF NegotiationNext

LEMMA NegotiationInvariant == NegotiationSpec => []NegotiationInv
<1> QED BY TalkBegins, NegotiationInductive, PTL DEF NegotiationSpec

(* Types: what the caller is told is always the payload type of the        *)
(* phone's own description, and no port is one that nobody named.          *)
THEOREM NegotiationTyped == NegotiationSpec => []NegotiationTypeOK
<1>1. NegotiationInv => NegotiationTypeOK
  <2> SUFFICES ASSUME NegotiationInv PROVE NegotiationTypeOK
    OBVIOUS
  <2>1. agreed.told \in {LocalSdp.payload_type, None}
    <3>1. CASE agreed \in Agreement
      BY <3>1, AgreementIsSome
    <3>2. CASE agreed = NoSession
      BY <3>2 DEF NoSession
    <3> QED BY <3>1, <3>2 DEF NegotiationInv, TalksInOrder
  <2>2. Refused.port = None /\ NoCommand.port = None /\ StopStream.port = 0
    BY DEF StopStream, NoCommand, Refused
  <2>3. remote_sdp.port \in Port \cup {None}
    BY <2>2 DEF NegotiationInv, DescriptionIsCurrent, Session
  <2>4. command.port \in Port \cup {0, None}
    BY <2>2 DEF NegotiationInv, StreamFollows, Session
  <2>5. rtp.ssrc \in None .. MaxSource
    BY DEF NegotiationInv, StreamFollows, Stream
  <2> QED BY <2>1, <2>3, <2>4, <2>5
         DEF NegotiationInv, TalksInOrder, StreamFollows, NegotiationTypeOK
<1> QED BY <1>1, NegotiationInvariant, PTL

(* Whatever the caller offers of the shapes in Offer, SdpParser's reading  *)
(* line by line gives what the offer means, the address of the medium      *)
(* outranking that of the session, or refuses the offer.                   *)
THEOREM OffersAreRead == NegotiationSpec => []ReadsWhatIsMeant
<1>1. NegotiationInv => ReadsWhatIsMeant
  BY ReadsWell DEF NegotiationInv, TalksInOrder, ReadsWhatIsMeant
<1> QED BY <1>1, NegotiationInvariant, PTL

(* Nothing is under way, in a call: the stream is the one that was agreed. *)
LEMMA QuietFollows ==
    ASSUME NegotiationInv, Quiet, Connected, ~ outdated
    PROVE  agreed.offer \in Session /\ CarriesOut(agreed.offer)
<1>1. /\ invite = NoOffer /\ command = NoCommand /\ dialog = "Established" /\ agreed # NoSession
  BY DEF Quiet, Connected
<1>2. remote_sdp = agreed.offer /\ remote_sdp \in Session
  BY <1>1 DEF NegotiationInv, DescriptionIsCurrent, Own, Opening, Current
<1>3. CarriesOut(remote_sdp)
  BY <1>1 DEF NegotiationInv, StreamFollows
<1> QED BY <1>2, <1>3

(* When nothing is under way the RTP task of a phone without a call sends  *)
(* nothing, and in a call it sends where and what the caller takes to be   *)
(* agreed: on_incoming_reinvite, the ACKs and the retransmissions that     *)
(* start the streams again, BYE, CANCEL, hang-up and the calls of others   *)
(* may come in any order.  That a late copy of an older re-INVITE sets the *)
(* stream back, until the next is accepted, is excepted.                   *)
THEOREM SentAsAgreed == NegotiationSpec => []SendsAsAgreed
<1>1. NegotiationInv => SendsAsAgreed
  <2> SUFFICES ASSUME NegotiationInv, Quiet
               PROVE  /\ dialog = "Idle" => ~ rtp.active
                      /\ Connected /\ ~ outdated =>
                           /\ rtp.active <=> agreed.offer.port # 0
                           /\ rtp.active =>
                                agreed.offer = [address |-> rtp.address, port |-> rtp.port,
                                                payload_type |-> rtp.payload_type]
    BY DEF SendsAsAgreed
  <2>1. ~ Silent.active
    BY DEF Silent
  <2>2. dialog = "Idle" => ~ rtp.active
    BY <2>1, StopIsSome DEF NegotiationInv, StreamFollows, Quiet
  <2>3. ASSUME Connected, ~ outdated
        PROVE  /\ rtp.active <=> agreed.offer.port # 0
               /\ rtp.active => agreed.offer = [address |-> rtp.address, port |-> rtp.port,
                                                payload_type |-> rtp.payload_type]
    <3>1. agreed.offer \in Session /\ CarriesOut(agreed.offer)
      BY <2>3, QuietFollows
    <3>2. CASE agreed.offer.port = 0
      BY <2>1, <3>1, <3>2 DEF CarriesOut
    <3>3. CASE agreed.offer.port # 0
      <4>1. /\ rtp.active
            /\ rtp.address = agreed.offer.address /\ rtp.port = agreed.offer.port
            /\ rtp.payload_type = agreed.offer.payload_type
        BY <3>1, <3>3 DEF CarriesOut
      <4>2. agreed.offer = [address |-> agreed.offer.address, port |-> agreed.offer.port,
                            payload_type |-> agreed.offer.payload_type]
        BY <3>1 DEF Session
      <4> QED BY <3>3, <4>1, <4>2
    <3> QED BY <3>2, <3>3
  <2> QED BY <2>2, <2>3
<1> QED BY <1>1, NegotiationInvariant, PTL

(* ... and in such a call handle_rx_packet's filters let the caller's own  *)
(* stream through, however often it began anew, unless a packet of an      *)
(* older one came since the last command or PCMU has two payload types.    *)
THEOREM HeardAsAgreed == NegotiationSpec => []HearsAsAgreed
<1>1. NegotiationInv => HearsAsAgreed
  <2> SUFFICES ASSUME NegotiationInv, Quiet, Connected, ~ outdated, ~ late,
                      agreed.offer.port # 0, agreed.told = agreed.offer.payload_type
               PROVE  Accepts(Voice)
    BY DEF HearsAsAgreed
  <2>1. /\ rtp.active /\ rtp.address = agreed.offer.address
        /\ rtp.payload_type = agreed.offer.payload_type
    BY QuietFollows DEF CarriesOut
  <2>2. rtp.ssrc \in {None, source}
    BY DEF NegotiationInv, StreamFollows, Quiet, Connected
  <2> QED BY <2>1, <2>2 DEF Accepts, Voice
<1> QED BY <1>1, NegotiationInvariant, PTL
=============================================================================
