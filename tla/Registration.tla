---------------------------- MODULE Registration ----------------------------
(***************************************************************************)
(* The registration of the phone: RegistrationTransaction of sip_core and  *)
(* the part of SipTask that schedules REGISTER, with the registrar and the *)
(* network between them, which may delay, reorder, duplicate and lose,     *)
(* until they may recover, for good, and answer at once.                   *)
(*                                                                         *)
(* A tick is one second.  next_register counts down to the Instant of the  *)
(* same name.  The CSeq number is left out: the code increments it and     *)
(* never compares it with a response's.                                    *)
(***************************************************************************)
EXTENDS Integers, FiniteSets

CONSTANTS
    Status,           \* the status codes the registrar answers with
    Granted,          \* the binding lifetimes it grants, in seconds
    Outage,           \* whether registrar and network may fail, at first
    Headerless,       \* whether a 200 may leave out the Expires header:
                      \* the values of prompt for which it may
    DefaultExpires,   \* last_expires before any 200
    InitialExpires,   \* what an unregistered phone asks for
    RegisterTimeout,  \* how long a REGISTER waits for its response
    FailureRetry,     \* the pause after a failure
    MaxPending        \* bound: messages in the network, in each direction

ASSUME RegistrationAssumption ==
    /\ Status \subseteq 100 .. 699
    /\ Granted \subseteq Nat
    /\ Outage \in BOOLEAN /\ Headerless \subseteq BOOLEAN
    /\ DefaultExpires \in Nat /\ InitialExpires \in Nat
    /\ RegisterTimeout \in Nat \ {0} /\ FailureRetry \in Nat
    /\ MaxPending \in Nat

NoExpires == -1

RegistrationState == {"Unregistered", "Registering", "Registered", "Error"}

VARIABLES
    state,           \* RegistrationTransaction.state
    last_expires,    \* RegistrationTransaction.last_expires
    challenged,      \* RegistrationTransaction.last_challenge is Some
    next_register,   \* SipTask.next_register
    last_reg_state,  \* SipTask.last_reg_state, the mirror of state
    shown,           \* last RegistrationStateChanged sent to the UI
    requests,        \* REGISTERs on their way to the registrar
    replies,         \* its responses on their way back
    binding,         \* seconds left of the binding at the registrar
    prompt           \* registrar and network work: each REGISTER is answered
                     \* once, within the second, with its challenge or a 200

phoneVars == <<state, last_expires, challenged, next_register, last_reg_state, shown>>

vars == <<phoneVars, requests, replies, binding, prompt>>

Init ==
    /\ state = "Unregistered"
    /\ last_expires = DefaultExpires
    /\ challenged = FALSE
    /\ next_register = 0
    /\ last_reg_state = "Unregistered"
    /\ shown = FALSE
    /\ requests = {}
    /\ replies = {}
    /\ binding = 0
    /\ prompt = ~ Outage

----------------------------------------------------------------------------
(* SipTask *)

(* Mutant of Announce: only good news reaches the UI. *)
AnnounceRegistered(s) ==
    /\ last_reg_state' = s
    /\ shown' = (shown \/ s = "Registered")

(* handle_reg_event of StateChanged: the UI hears of it when it is news. *)
Announce(s) ==
    /\ last_reg_state' = s
    /\ shown' = IF s # last_reg_state THEN s = "Registered" ELSE shown

(* Mutant of MaybeSendRegister: no timeout of a REGISTER in flight. *)
MaybeSendWithoutTimeout ==
    /\ next_register = 0
    /\ state # "Registering"
    /\ Cardinality(requests) < MaxPending
    /\ requests' = requests \cup
         {[expires |-> IF state = "Registered" THEN last_expires ELSE InitialExpires,
           auth    |-> challenged]}
    /\ state' = "Registering"
    /\ next_register' = RegisterTimeout
    /\ UNCHANGED <<last_expires, challenged, last_reg_state, shown, replies, binding,
                   prompt>>

(* A due REGISTER that is still in flight has timed out; its state is      *)
(* reset and announced, and the next one leaves in the same call.  (The    *)
(* code pauses when a REGISTER cannot be built; with its growing strings   *)
(* and outside Registering that cannot happen.)                            *)
MaybeSendRegister ==
    /\ next_register = 0
    /\ Cardinality(requests) < MaxPending
    /\ IF state = "Registering"
       THEN Announce("Unregistered")
       ELSE UNCHANGED <<last_reg_state, shown>>
    /\ requests' = requests \cup
         {[expires |-> IF state = "Registered" THEN last_expires ELSE InitialExpires,
           auth    |-> challenged]}
    /\ state' = "Registering"
    /\ next_register' = RegisterTimeout
    /\ UNCHANGED <<last_expires, challenged, replies, binding, prompt>>

AtLeast(n, x) == IF x < n THEN n ELSE x

(* Mutant: the refresh waits for the whole lifetime. *)
RefreshAtExpiry(expires) == AtLeast(5, expires)

RefreshInterval(expires) == AtLeast(5, (AtLeast(5, expires) * 8) \div 10)

(* Mutant of OnRegistered: a 200 without Expires is stored as it is. *)
OnRegisteredUnchecked(m) ==
    /\ m.status = 200
    /\ state' = "Registered"
    /\ last_expires' = m.expires
    /\ next_register' = RefreshInterval(last_expires')
    /\ UNCHANGED challenged

OnRegistered(m) ==
    /\ m.status = 200
    /\ state' = "Registered"
    /\ last_expires' = IF m.expires = NoExpires THEN last_expires ELSE m.expires
    /\ next_register' = RefreshInterval(last_expires')
    /\ UNCHANGED challenged

(* Mutant of OnAuthRequired: the challenge is not kept. *)
OnAuthRequiredForgetting(m) ==
    /\ m.status \in {401, 407}
    /\ state' = "Unregistered"
    /\ next_register' = 0
    /\ UNCHANGED <<challenged, last_expires>>

(* Only WWW-Authenticate is read, the header of a 401: a 407, which has    *)
(* Proxy-Authenticate, leaves the challenge as it was, and so does a 401   *)
(* with none that can be read.                                             *)
OnAuthRequired(m) ==
    /\ m.status \in {401, 407}
    /\ state' = "Unregistered"
    /\ challenged' = (challenged \/ m.challenge)
    /\ next_register' = 0
    /\ UNCHANGED last_expires

(* Every other status, a provisional one too. *)
OnFailed(m) ==
    /\ m.status \notin {200, 401, 407}
    /\ state' = "Error"
    /\ next_register' = FailureRetry
    /\ UNCHANGED <<last_expires, challenged>>

(* The network delivers a response, and may deliver it again. *)
RecvResponse(m) ==
    /\ OnRegistered(m) \/ OnAuthRequired(m) \/ OnFailed(m)
    /\ Announce(state')
    /\ \/ replies' = replies \ {m}
       \/ ~ prompt /\ UNCHANGED replies
    /\ UNCHANGED <<requests, binding, prompt>>

----------------------------------------------------------------------------
(* The registrar and the network (external) *)

(* It grants what it likes of a lifetime, at most what it was asked for.   *)
Accept(r) ==
    /\ r.auth \/ 401 \notin Status
    /\ 200 \in Status
    /\ \E e \in Granted, header \in {TRUE, prompt \notin Headerless} :
         /\ e <= r.expires
         /\ binding' = e
         /\ replies' = replies \cup
              {[status |-> 200, challenge |-> FALSE,
                expires |-> IF header THEN e ELSE NoExpires]}

Reject(r) ==
    /\ \E status \in Status \ {200}, challenge \in BOOLEAN :
         /\ challenge => status = 401
         /\ prompt => challenge /\ ~ r.auth
         /\ replies' = replies \cup
              {[status |-> status, challenge |-> challenge, expires |-> NoExpires]}
    /\ UNCHANGED <<binding>>

RegistrarAnswers(r) ==
    /\ Cardinality(replies) < MaxPending
    /\ Accept(r) \/ Reject(r)
    /\ requests' = requests \ {r}
    /\ UNCHANGED <<phoneVars, prompt>>

Lose ==
    /\ ~ prompt
    /\ \/ \E r \in requests : requests' = requests \ {r} /\ UNCHANGED replies
       \/ \E m \in replies : replies' = replies \ {m} /\ UNCHANGED requests
    /\ UNCHANGED <<phoneVars, binding, prompt>>

Recover ==
    /\ ~ prompt
    /\ prompt' = TRUE
    /\ UNCHANGED <<phoneVars, requests, replies, binding>>

CountDown(x) == IF x > 0 THEN x - 1 ELSE x

Tick ==
    /\ next_register > 0
    /\ prompt => requests = {} /\ replies = {}
    /\ next_register' = CountDown(next_register)
    /\ binding' = CountDown(binding)
    /\ UNCHANGED <<state, last_expires, challenged, last_reg_state, shown,
                   requests, replies, prompt>>

Next ==
    \/ MaybeSendRegister
    \/ \E m \in replies : RecvResponse(m)
    \/ \E r \in requests : RegistrarAnswers(r)
    \/ Lose
    \/ Recover
    \/ Tick

(* The task's loop runs for ever, and so do the clock and, when it is      *)
(* prompt, the registrar; a delivered response is handled.                 *)
Fairness ==
    /\ WF_vars(MaybeSendRegister)
    /\ WF_vars(Tick)
    /\ WF_vars(Lose)
    /\ WF_vars(\E r \in requests : RegistrarAnswers(r))
    /\ WF_vars(\E m \in replies : RecvResponse(m) /\ replies' # replies)

Spec == Init /\ [][Next]_vars /\ Fairness

----------------------------------------------------------------------------
Message == [expires : Nat, auth : BOOLEAN]

Reply == [status : 100 .. 699, challenge : BOOLEAN, expires : Nat \cup {NoExpires}]

TypeOK ==
    /\ state \in RegistrationState /\ last_reg_state \in RegistrationState
    /\ last_expires \in Nat /\ next_register \in Nat
    /\ challenged \in BOOLEAN /\ shown \in BOOLEAN
    /\ requests \subseteq Message /\ replies \subseteq Reply
    /\ binding \in Nat /\ prompt \in BOOLEAN

(* The UI never shows a registration the core has given up, nor misses one *)
(* it has: the mirror that filters the events does not see Registering,    *)
(* and late, duplicated or reordered responses do not make it drift.       *)
UiShowsRegistration ==
    /\ shown => state \in {"Registered", "Registering"}
    /\ state = "Registered" => shown

(* The phone never gives up: whatever the responses, and if there are none,*)
(* it sends REGISTER again and again.                                      *)
NeverGivesUp == []<><<MaybeSendRegister>>_vars

(* Whatever went wrong before, once registrar and network work the phone   *)
(* gets registered in the end, through the authentication challenge, and   *)
(* stays so: each refresh reaches the registrar before the binding lapses. *)
Recovers == <>prompt => <>[](shown /\ binding > 0)
=============================================================================
