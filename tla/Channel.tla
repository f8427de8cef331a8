------------------------------ MODULE Channel ------------------------------
(***************************************************************************)
(* A channel between two tasks that carries news of several kinds.  The    *)
(* receiver knows what it took last, the sender knows what it told last;   *)
(* what is still in the channel leads from the one to the other.           *)
(***************************************************************************)
EXTENDS SequenceTheorems, TLAPS

(* The commands of one kind in queue lead from what is known to what was   *)
(* told: the last of them is what was told; without any, it is known.      *)
Tells(queue, kind, known, told) ==
    /\ \A i \in 1 .. Len(queue) :
          queue[i] \in kind /\ (\A j \in (i + 1) .. Len(queue) : queue[j] \notin kind)
            => queue[i] = told
    /\ (\A i \in 1 .. Len(queue) : queue[i] \notin kind) => known = told

----------------------------------------------------------------------------
(* What a channel tells when a message is appended to it or taken from it. *)

LEMMA AppendOfKind ==
    ASSUME NEW Message, NEW queue \in Seq(Message), NEW kind, NEW known, NEW cmd \in kind
    PROVE  Tells(Append(queue, cmd), kind, known, cmd)
<1> DEFINE q == Append(queue, cmd)
<1>1. Len(q) = Len(queue) + 1 /\ q[Len(q)] = cmd /\ Len(q) \in Nat
  OBVIOUS
<1>2. \A i \in 1 .. Len(q) : i # Len(q) => Len(q) \in (i + 1) .. Len(q)
  BY <1>1
<1> HIDE DEF q
<1>3. Tells(q, kind, known, cmd)
  BY <1>1, <1>2 DEF Tells
<1> QED BY <1>3 DEF q

LEMMA AppendOther ==
    ASSUME NEW Message, NEW queue \in Seq(Message), NEW kind, NEW known, NEW told, NEW cmd,
           cmd \notin kind, Tells(queue, kind, known, told)
    PROVE  Tells(Append(queue, cmd), kind, known, told)
<1> DEFINE q == Append(queue, cmd)
<1>1. /\ Len(q) = Len(queue) + 1 /\ Len(queue) \in Nat /\ q[Len(q)] = cmd
      /\ \A i \in 1 .. Len(queue) : q[i] = queue[i]
  OBVIOUS
<1> HIDE DEF q
<1>2. \A i \in 1 .. Len(q) : q[i] \in kind => i \in 1 .. Len(queue)
  BY <1>1
<1>3. \A i \in 1 .. Len(queue) : \A j \in (i + 1) .. Len(queue) : j \in (i + 1) .. Len(q) /\ q[j] = queue[j]
  BY <1>1
<1>4. \A i \in 1 .. Len(queue) : i \in 1 .. Len(q)
  BY <1>1
<1>5. Tells(q, kind, known, told)
  BY <1>1, <1>2, <1>3, <1>4 DEF Tells
<1> QED BY <1>5 DEF q

LEMMA TailIndices ==
    ASSUME NEW Message, NEW queue \in Seq(Message), queue # <<>>
    PROVE  /\ Len(Tail(queue)) = Len(queue) - 1 /\ Len(queue) \in Nat \ {0}
           /\ \A i \in 1 .. Len(Tail(queue)) : Tail(queue)[i] = queue[i + 1]
           /\ Head(queue) = queue[1]
OBVIOUS

LEMMA TakeOfKind ==
    ASSUME NEW Message, NEW queue \in Seq(Message), NEW kind, NEW known, NEW told,
           queue # <<>>, Head(queue) \in kind, Tells(queue, kind, known, told)
    PROVE  Tells(Tail(queue), kind, Head(queue), told)
<1> DEFINE t == Tail(queue)
<1>1. /\ Len(t) = Len(queue) - 1 /\ Len(queue) \in Nat \ {0}
      /\ \A i \in 1 .. Len(t) : t[i] = queue[i + 1]
      /\ Head(queue) = queue[1]
  BY TailIndices
<1> HIDE DEF t
<1>2. \A i \in 1 .. Len(t) : i + 1 \in 1 .. Len(queue)
  BY <1>1
<1>3. \A i \in 1 .. Len(t) : \A j \in ((i + 1) + 1) .. Len(queue) :
         j - 1 \in (i + 1) .. Len(t) /\ queue[j] = t[j - 1]
  BY <1>1
<1>4. ASSUME NEW i \in 1 .. Len(t), t[i] \in kind, \A j \in (i + 1) .. Len(t) : t[j] \notin kind
      PROVE  t[i] = told
  <2>1. \A j \in ((i + 1) + 1) .. Len(queue) : queue[j] \notin kind
    BY <1>3, <1>4
  <2> QED BY <1>1, <1>2, <1>4, <2>1 DEF Tells
<1>5. ASSUME \A i \in 1 .. Len(t) : t[i] \notin kind
      PROVE  Head(queue) = told
  <2>3. \A j \in (1 + 1) .. Len(queue) : j - 1 \in 1 .. Len(t) /\ queue[j] = t[j - 1]
    BY <1>1
  <2>1. \A j \in (1 + 1) .. Len(queue) : queue[j] \notin kind
    BY <2>3, <1>5
  <2>2. 1 \in 1 .. Len(queue)
    BY <1>1
  <2> QED BY <1>1, <2>1, <2>2 DEF Tells
<1>6. Tells(t, kind, Head(queue), told)
  BY <1>4, <1>5 DEF Tells
<1> QED BY <1>6 DEF t

LEMMA TakeOther ==
    ASSUME NEW Message, NEW queue \in Seq(Message), NEW kind, NEW known, NEW told,
           queue # <<>>, Head(queue) \notin kind, Tells(queue, kind, known, told)
    PROVE  Tells(Tail(queue), kind, known, told)
<1> DEFINE t == Tail(queue)
<1>1. /\ Len(t) = Len(queue) - 1 /\ Len(queue) \in Nat \ {0}
      /\ \A i \in 1 .. Len(t) : t[i] = queue[i + 1]
      /\ Head(queue) = queue[1]
  BY TailIndices
<1> HIDE DEF t
<1>2. \A i \in 1 .. Len(t) : i + 1 \in 1 .. Len(queue)
  BY <1>1
<1>3. \A i \in 1 .. Len(t) : \A j \in ((i + 1) + 1) .. Len(queue) :
         j - 1 \in (i + 1) .. Len(t) /\ queue[j] = t[j - 1]
  BY <1>1
<1>4. ASSUME NEW i \in 1 .. Len(t), t[i] \in kind, \A j \in (i + 1) .. Len(t) : t[j] \notin kind
      PROVE  t[i] = told
  <2>1. \A j \in ((i + 1) + 1) .. Len(queue) : queue[j] \notin kind
    BY <1>3, <1>4
  <2> QED BY <1>1, <1>2, <1>4, <2>1 DEF Tells
<1>5. ASSUME \A i \in 1 .. Len(t) : t[i] \notin kind
      PROVE  known = told
  <2>1. ASSUME NEW j \in 1 .. Len(queue) PROVE queue[j] \notin kind
    <3>1. CASE j = 1
      BY <1>1, <3>1
    <3>2. CASE j # 1
      <4>1. j - 1 \in 1 .. Len(t) /\ queue[j] = t[j - 1]
        BY <1>1, <3>2
      <4> QED BY <4>1, <1>5
    <3> QED BY <3>1, <3>2
  <2> QED BY <2>1 DEF Tells
<1>6. Tells(t, kind, known, told)
  BY <1>4, <1>5 DEF Tells
<1> QED BY <1>6 DEF t

LEMMA EmptyTells ==
    ASSUME NEW kind, NEW known, NEW told, Tells(<<>>, kind, known, told)
    PROVE  known = told
BY DEF Tells
=============================================================================
