-------------------------- MODULE RetryQueueProofs --------------------------
(***************************************************************************)
(* Proofs about the retry queue with its clock, for any delays, numbers of *)
(* jobs, workers, retries and crashes.                                     *)
(***************************************************************************)
EXTENDS RetryQueue, FiniteSetTheorems, FunctionTheorems, SequenceTheorems, TLAPS

(* How often a copy waits in a queue: what RetryBag counts. *)
Places(s, m) == {i \in DOMAIN s : s[i].copy = m}
Count(s, m) == Cardinality(Places(s, m))

(* Every copy was published with the delay of its header; who came first   *)
(* has waited longer, or as long.                                          *)
DelayOfHeader ==
    \A i \in DOMAIN line : /\ line[i].copy.retries \in 1..MaxRetries
                           /\ line[i].ttl = Ttl[line[i].copy.retries - 1]
OldestFirst == \A i, k \in DOMAIN line : i <= k => line[k].age <= line[i].age

LineOK == line \in Seq(Entry)
UnackedOK == unacked \in [Workers -> SUBSET Message]

WaitInv == LineOK /\ UnackedOK /\ DelayOfHeader /\ OldestFirst /\ WaitBounded

-----------------------------------------------------------------------------
(* Lemmas about messages and sequences of entries *)

(* The copy of a message that may be retried, and its delay. *)
LEMMA CopyDelay ==
    ASSUME NEW m \in Message, MayRetry(m)
    PROVE  /\ RetryCopy(m) \in Message
           /\ RetryCopy(m).retries \in 1..MaxRetries
           /\ RetryCopy(m).retries - 1 \in DOMAIN Ttl
           /\ TtlOf(m) = Ttl[RetryCopy(m).retries - 1]
           /\ TtlOf(m) \in Nat \ {0}
    BY ContractAssumption, RetryQueueAssumption
    DEF Message, MayRetry, RetryCopy, RetryCount, Corrupt, TtlOf

(* What the three operations on the queue do to its entries. *)
LEMMA LineTail ==
    ASSUME NEW s \in Seq(Entry), s # <<>>
    PROVE  /\ Tail(s) \in Seq(Entry)
           /\ DOMAIN s = 1..Len(s) /\ Len(s) \in Nat \ {0}
           /\ DOMAIN Tail(s) = 1..(Len(s) - 1)
           /\ \A i \in DOMAIN Tail(s) : i + 1 \in DOMAIN s /\ Tail(s)[i] = s[i + 1]
           /\ Head(s) = s[1] /\ 1 \in DOMAIN s /\ s[1] \in Entry
<1>1. Len(s) \in Nat \ {0} /\ DOMAIN s = 1..Len(s)
    BY EmptySeq, LenProperties
<1>2. /\ Tail(s) \in Seq(Entry)
      /\ Len(Tail(s)) = Len(s) - 1
      /\ \A i \in 1..Len(Tail(s)) : Tail(s)[i] = s[i + 1]
    BY HeadTailProperties
<1>3. DOMAIN Tail(s) = 1..(Len(s) - 1)
    BY <1>2, LenProperties
<1>4. Head(s) = s[1] /\ s[1] \in Entry
    BY <1>1, ElementOfSeq
<1> QED
    BY <1>1, <1>2, <1>3, <1>4

(* A line with one more copy at its end.                                   *)
LEMMA LineAppend ==
    ASSUME NEW s \in Seq(Entry), NEW e \in Entry
    PROVE  /\ Append(s, e) \in Seq(Entry)
           /\ Len(s) \in Nat /\ DOMAIN s = 1..Len(s)
           /\ DOMAIN Append(s, e) = 1..(Len(s) + 1)
           /\ \A i \in DOMAIN s : Append(s, e)[i] = s[i]
           /\ Append(s, e)[Len(s) + 1] = e
    BY LenProperties

(* A line that waited has the same copies, each older by one.              *)
LEMMA LineTick ==
    ASSUME NEW s \in Seq(Entry)
    PROVE  LET t == [i \in DOMAIN s |-> [s[i] EXCEPT !.age = @ + 1]]
           IN  /\ t \in Seq(Entry)
               /\ DOMAIN t = DOMAIN s
               /\ \A i \in DOMAIN s : /\ s[i] \in Entry
                                      /\ t[i].copy = s[i].copy
                                      /\ t[i].ttl = s[i].ttl
                                      /\ t[i].age = s[i].age + 1
<1> DEFINE t == [i \in DOMAIN s |-> [s[i] EXCEPT !.age = @ + 1]]
<1>1. Len(s) \in Nat /\ DOMAIN s = 1..Len(s)
    BY LenProperties
<1>2. \A i \in DOMAIN s : s[i] \in Entry
    BY <1>1, ElementOfSeq
<1>3. \A i \in DOMAIN s : [s[i] EXCEPT !.age = @ + 1] \in Entry
    BY <1>2 DEF Entry
<1>4. t \in [1..Len(s) -> Entry]
    BY <1>1, <1>3
<1>5. t \in Seq(Entry)
    BY <1>1, <1>4, SeqDef
<1> QED
    BY <1>2, <1>5 DEF Entry

-----------------------------------------------------------------------------
(* The bound on the wait *)

(* A step leaves the queue as it was, or appends, drops its head or ages.  *)
LEMMA LineStep ==
    ASSUME UnackedOK, [Next]_retryVars
    PROVE  \/ line' = line
           \/ \E m \in Message :
                 /\ MayRetry(m)
                 /\ line' = Append(line, [copy |-> RetryCopy(m), ttl |-> TtlOf(m), age |-> 0])
           \/ line # <<>> /\ Overdue /\ line' = Tail(line)
           \/ /\ line # <<>> /\ ~Overdue
              /\ line' = [i \in DOMAIN line |-> [line[i] EXCEPT !.age = @ + 1]]
<1>1. CASE \E w \in Workers : PublishRetry(w)
    BY <1>1 DEF PublishRetry, UnackedOK
<1>2. CASE \E w \in Workers : Deliver(w) \/ Finish(w) \/ PublishDead(w) \/ Settle(w) \/ Crash(w)
    BY <1>2 DEF Deliver, Finish, PublishDead, Settle, Crash
<1>3. CASE Expire
    BY <1>3 DEF Expire, Overdue
<1>4. CASE Tick
    BY <1>4 DEF Tick
<1>5. CASE UNCHANGED retryVars
    BY <1>5 DEF retryVars
<1> QED
    BY <1>1, <1>2, <1>3, <1>4, <1>5 DEF Next

(* What workers hold are messages. *)
LEMMA UnackedStep ==
    ASSUME UnackedOK, [Next]_retryVars
    PROVE  UnackedOK'
<1> USE DEF UnackedOK
<1>1. ASSUME NEW w \in Workers, Deliver(w) PROVE UnackedOK'
    BY <1>1 DEF Deliver, Bags!Deliver, Bags!Message, Message, Corrupt, Bags!Corrupt
<1>2. ASSUME NEW w \in Workers, Finish(w) \/ Settle(w) PROVE UnackedOK'
    BY <1>2 DEF Finish, Settle, Bags!Ack
<1>3. ASSUME NEW w \in Workers, Crash(w) PROVE UnackedOK'
    BY <1>3 DEF Crash, Bags!Requeue
<1>4. ASSUME NEW w \in Workers, PublishRetry(w) \/ PublishDead(w) PROVE UnackedOK'
    BY <1>4 DEF PublishRetry, PublishDead, Bags!PublishDead
<1>5. CASE Expire \/ Tick \/ UNCHANGED retryVars
    BY <1>5 DEF Expire, Tick, retryVars
<1> QED
    BY <1>1, <1>2, <1>3, <1>4, <1>5 DEF Next

(* Nobody waits at first.                                                  *)
LEMMA WaitInit == Init => WaitInv
<1> SUFFICES ASSUME Init PROVE WaitInv
    OBVIOUS
<1>1. LineOK /\ DOMAIN line = {}
    BY EmptySeq DEF Init, LineOK
<1>2. UnackedOK
    BY DEF Init, UnackedOK
<1> QED
    BY <1>1, <1>2 DEF WaitInv, DelayOfHeader, OldestFirst, WaitBounded

(* The oldest copy bounds all others, and time stands still when its own   *)
(* delay is over.                                                          *)
LEMMA WaitStep == WaitInv /\ [Next]_retryVars => WaitInv'
<1> SUFFICES ASSUME WaitInv, [Next]_retryVars PROVE WaitInv'
    OBVIOUS
<1>0. UnackedOK'
    BY UnackedStep DEF WaitInv
<1> USE DEF LineOK, DelayOfHeader, OldestFirst, WaitBounded
<1>1. CASE line' = line
    BY <1>0, <1>1 DEF WaitInv
<1>2. ASSUME NEW m \in Message, MayRetry(m),
             line' = Append(line, [copy |-> RetryCopy(m), ttl |-> TtlOf(m), age |-> 0])
      PROVE  WaitInv'
    <2> DEFINE e == [copy |-> RetryCopy(m), ttl |-> TtlOf(m), age |-> 0]
    <2>1. e \in Entry
        BY <1>2, CopyDelay DEF Entry
    <2>2. /\ line' \in Seq(Entry)
          /\ Len(line) \in Nat /\ DOMAIN line = 1..Len(line)
          /\ DOMAIN line' = 1..(Len(line) + 1)
          /\ \A i \in DOMAIN line : line'[i] = line[i] /\ line[i] \in Entry
          /\ line'[Len(line) + 1] = e
        BY <1>2, <2>1, LineAppend, ElementOfSeq DEF WaitInv
    <2>3. DelayOfHeader'
        BY <1>2, <2>2, CopyDelay DEF WaitInv
    <2>4. OldestFirst'
        <3>1. \A i \in DOMAIN line : line[i].age >= e.age
            BY <2>2 DEF Entry
        <3>2. ASSUME NEW i \in DOMAIN line', NEW k \in DOMAIN line', i <= k
              PROVE  line'[k].age <= line'[i].age
            <4>1. CASE k = Len(line) + 1 /\ i = k
                BY <2>2, <4>1
            <4>2. CASE k = Len(line) + 1 /\ i # k
                BY <2>2, <3>1, <3>2, <4>2
            <4>3. CASE k # Len(line) + 1
                BY <2>2, <3>2, <4>3 DEF WaitInv
            <4> QED
                BY <4>1, <4>2, <4>3
        <3> QED
            BY <3>2
    <2>5. WaitBounded'
        BY <1>2, <2>2, CopyDelay, RetryQueueAssumption DEF WaitInv
    <2> QED
        BY <1>0, <2>2, <2>3, <2>4, <2>5 DEF WaitInv
<1>3. CASE line # <<>> /\ line' = Tail(line)
    <2>1. /\ line' \in Seq(Entry)
          /\ DOMAIN line' \subseteq Nat
          /\ \A i \in DOMAIN line' : i + 1 \in DOMAIN line /\ line'[i] = line[i + 1]
        BY <1>3, LineTail DEF WaitInv
    <2>2. OldestFirst'
        <3>1. ASSUME NEW i \in DOMAIN line', NEW k \in DOMAIN line', i <= k
              PROVE  line'[k].age <= line'[i].age
            <4>1. /\ i + 1 \in DOMAIN line /\ k + 1 \in DOMAIN line
                  /\ i + 1 <= k + 1
                BY <2>1, <3>1
            <4>2. line[k + 1].age <= line[i + 1].age
                BY <4>1 DEF WaitInv
            <4> QED
                BY <2>1, <4>2
        <3> QED
            BY <3>1
    <2> QED
        BY <1>0, <2>1, <2>2 DEF WaitInv
<1>4. CASE /\ line # <<>> /\ ~Overdue
           /\ line' = [i \in DOMAIN line |-> [line[i] EXCEPT !.age = @ + 1]]
    <2>1. /\ line' \in Seq(Entry)
          /\ DOMAIN line' = DOMAIN line
          /\ \A i \in DOMAIN line : /\ line[i] \in Entry
                                    /\ line'[i].copy = line[i].copy
                                    /\ line'[i].ttl = line[i].ttl
                                    /\ line'[i].age = line[i].age + 1
        <3> DEFINE t == [i \in DOMAIN line |-> [line[i] EXCEPT !.age = @ + 1]]
        <3>1. line \in Seq(Entry)
            BY DEF WaitInv, LineOK
        <3>2. /\ t \in Seq(Entry)
              /\ DOMAIN t = DOMAIN line
              /\ \A i \in DOMAIN line : /\ line[i] \in Entry
                                        /\ t[i].copy = line[i].copy
                                        /\ t[i].ttl = line[i].ttl
                                        /\ t[i].age = line[i].age + 1
            BY <3>1, LineTick
        <3>3. line' = t
            BY <1>4
        <3> HIDE DEF t
        <3> QED
            BY <3>2, <3>3
    <2>2. DelayOfHeader'
        BY <2>1 DEF WaitInv
    <2>3. OldestFirst'
        <3>1. \A i \in DOMAIN line : line[i].age \in Nat
            BY <2>1 DEF Entry
        <3>2. ASSUME NEW i \in DOMAIN line, NEW k \in DOMAIN line, i <= k
              PROVE  line'[k].age <= line'[i].age
            <4>1. line[k].age <= line[i].age
                BY <3>2 DEF WaitInv
            <4> QED
                BY <2>1, <3>1, <4>1
        <3> QED
            BY <2>1, <3>2
    <2>4. WaitBounded'
        <3>1. /\ Head(line) = line[1] /\ 1 \in DOMAIN line
              /\ \A i \in DOMAIN line : 1 <= i
            <4>1. line \in Seq(Entry)
                BY DEF WaitInv
            <4> QED
                BY <1>4, <4>1, LineTail
        <3>2. line[1].age < line[1].ttl
            <4>1. line[1].age \in Nat /\ line[1].ttl \in Nat
                BY <2>1, <3>1 DEF Entry
            <4>2. ~(Head(line).age >= Head(line).ttl)
                BY <1>4 DEF Overdue
            <4> QED
                BY <3>1, <4>1, <4>2
        <3>3. PICK r \in DOMAIN Ttl : line[1].ttl = Ttl[r]
            BY <3>1, RetryQueueAssumption, ContractAssumption DEF WaitInv
        <3>4. \A i \in DOMAIN line : line[i].age + 1 <= Ttl[r]
            BY <2>1, <3>1, <3>2, <3>3 DEF WaitInv, Entry
        <3> QED
            BY <2>1, <3>4
    <2> QED
        BY <1>0, <2>1, <2>2, <2>3, <2>4 DEF WaitInv
<1> QED
    BY <1>1, <1>2, <1>3, <1>4, LineStep DEF WaitInv

(***************************************************************************)
(* No copy waits longer than the longest delay, whatever is in front of it *)
(* and however many copies there are.                                      *)
(***************************************************************************)
THEOREM WaitIsBounded == Spec => []WaitBounded
<1>1. WaitInv => WaitBounded
    BY DEF WaitInv
<1> QED
    BY <1>1, WaitInit, WaitStep, PTL DEF Spec

-----------------------------------------------------------------------------
(* What comes back, and when *)

(* The places of a copy are finitely many. *)
LEMMA PlacesFinite ==
    ASSUME NEW s \in Seq(Entry), NEW m
    PROVE  IsFiniteSet(Places(s, m)) /\ Count(s, m) \in Nat
<1>1. DOMAIN s = 1..Len(s) /\ Len(s) \in Nat
    BY LenProperties
<1>2. IsFiniteSet(DOMAIN s)
    BY <1>1, FS_Interval
<1>3. Places(s, m) \in SUBSET DOMAIN s
    BY DEF Places
<1>4. IsFiniteSet(Places(s, m))
    BY <1>2, <1>3, FS_Subset
<1> QED
    BY <1>4, FS_CardinalityType DEF Count

(* Appending a copy adds one of it, and none of any other. *)
LEMMA CountAppend ==
    ASSUME NEW s \in Seq(Entry), NEW e \in Entry, NEW m
    PROVE  Count(Append(s, e), m) = IF e.copy = m THEN Count(s, m) + 1 ELSE Count(s, m)
<1>1. /\ Len(s) \in Nat /\ DOMAIN s = 1..Len(s)
      /\ DOMAIN Append(s, e) = 1..(Len(s) + 1)
      /\ \A i \in DOMAIN s : Append(s, e)[i] = s[i]
      /\ Append(s, e)[Len(s) + 1] = e
    BY LineAppend
<1>2. CASE e.copy = m
    <2>1. Places(Append(s, e), m) = Places(s, m) \cup {Len(s) + 1}
        BY <1>1, <1>2 DEF Places
    <2>2. Len(s) + 1 \notin Places(s, m)
        BY <1>1 DEF Places
    <2> QED
        <3>1. IsFiniteSet(Places(s, m)) /\ Count(s, m) \in Nat
            BY PlacesFinite
        <3>2. Cardinality(Places(s, m) \cup {Len(s) + 1}) = Cardinality(Places(s, m)) + 1
            BY <2>2, <3>1, FS_AddElement, Zenon
        <3> QED
            BY <1>2, <2>1, <3>2 DEF Count
<1>3. CASE e.copy # m
    <2>1. Places(Append(s, e), m) = Places(s, m)
        BY <1>1, <1>3 DEF Places
    <2> QED
        BY <1>3, <2>1 DEF Count
<1> QED
    BY <1>2, <1>3

(* The tail has one copy less of the head's, and as many of any other.     *)
LEMMA CountTail ==
    ASSUME NEW s \in Seq(Entry), s # <<>>, NEW m
    PROVE  /\ Count(Tail(s), m) = IF Head(s).copy = m THEN Count(s, m) - 1 ELSE Count(s, m)
           /\ Head(s).copy = m => Count(s, m) > 0
<1> DEFINE A == Places(Tail(s), m)
           B == Places(s, m) \ {1}
           f == [i \in A |-> i + 1]
<1>1. /\ Tail(s) \in Seq(Entry)
      /\ DOMAIN s = 1..Len(s) /\ Len(s) \in Nat \ {0}
      /\ DOMAIN Tail(s) = 1..(Len(s) - 1)
      /\ \A i \in DOMAIN Tail(s) : Tail(s)[i] = s[i + 1]
      /\ Head(s) = s[1]
    BY LineTail
<1>2. f \in Bijection(A, B)
    <2>1. \A i \in A : i \in Int /\ i + 1 \in B
        BY <1>1 DEF Places
    <2>2. \A k \in B : k - 1 \in A /\ k \in Int
        BY <1>1 DEF Places
    <2>3. f \in [A -> B]
        BY <2>1
    <2>4. \A i, k \in A : f[i] = f[k] => i = k
        BY <2>1
    <2>5. \A k \in B : \E i \in A : f[i] = k
        BY <2>2
    <2> QED
        BY <2>3, <2>4, <2>5, Fun_IsBij
<1>3. Count(Tail(s), m) = Cardinality(B)
    <2>1. IsFiniteSet(A)
        BY <1>1, PlacesFinite
    <2>2. ExistsBijection(A, B)
        BY <1>2 DEF ExistsBijection
    <2> QED
        BY <2>1, <2>2, FS_Bijection DEF Count
<1>4. Cardinality(B) = IF 1 \in Places(s, m) THEN Count(s, m) - 1 ELSE Count(s, m)
    <2>1. IsFiniteSet(Places(s, m))
        BY PlacesFinite
    <2> QED
        BY <2>1, FS_RemoveElement, Zenon DEF Count
<1>5. 1 \in Places(s, m) <=> Head(s).copy = m
    BY <1>1 DEF Places
<1>6. Head(s).copy = m => Count(s, m) > 0
    <2>1. IsFiniteSet(Places(s, m)) /\ Count(s, m) \in Nat
        BY PlacesFinite
    <2>2. Count(s, m) = 0 => Places(s, m) = {}
        BY <2>1, FS_EmptySet DEF Count
    <2> QED
        BY <1>5, <2>1, <2>2
<1> QED
    BY <1>3, <1>4, <1>5, <1>6

(* Waiting changes no copy. *)
LEMMA CountTick ==
    ASSUME NEW s \in Seq(Entry), NEW m
    PROVE  Count([i \in DOMAIN s |-> [s[i] EXCEPT !.age = @ + 1]], m) = Count(s, m)
<1> DEFINE t == [i \in DOMAIN s |-> [s[i] EXCEPT !.age = @ + 1]]
<1>1. DOMAIN t = DOMAIN s /\ \A i \in DOMAIN s : t[i].copy = s[i].copy
    BY LineTick
<1> HIDE DEF t
<1>2. Places(t, m) = Places(s, m)
    BY <1>1 DEF Places
<1> QED
    BY <1>2 DEF Count, t

(* The bag of a line counts the copies of each message.                    *)
LEMMA BagCounts ==
    /\ RetryBag = [m \in Message |-> Count(line, m)]
    /\ RetryBag' = [m \in Message |-> Count(line', m)]
    BY DEF RetryBag, Count, Places

(* What a step does to the bag of the copies that wait. *)
LEMMA BagAppend ==
    ASSUME LineOK, NEW m \in Message, MayRetry(m),
           line' = Append(line, [copy |-> RetryCopy(m), ttl |-> TtlOf(m), age |-> 0])
    PROVE  RetryBag' = [RetryBag EXCEPT ![RetryCopy(m)] = @ + 1]
<1> DEFINE e == [copy |-> RetryCopy(m), ttl |-> TtlOf(m), age |-> 0]
<1>1. e \in Entry /\ e.copy = RetryCopy(m) /\ RetryCopy(m) \in Message
    BY CopyDelay DEF Entry
<1> HIDE DEF e
<1>2. \A n : Count(line', n) = IF RetryCopy(m) = n THEN Count(line, n) + 1 ELSE Count(line, n)
    BY <1>1, CountAppend DEF LineOK, e
<1> QED
    BY <1>1, <1>2, BagCounts

(* When the head leaves the line, one copy leaves the bag.                 *)
LEMMA BagTail ==
    ASSUME LineOK, line # <<>>, line' = Tail(line)
    PROVE  /\ Head(line).copy \in Message
           /\ RetryBag[Head(line).copy] > 0
           /\ RetryBag' = [RetryBag EXCEPT ![Head(line).copy] = @ - 1]
<1>1. Head(line).copy \in Message
    BY LineTail DEF LineOK, Entry
<1>2. \A n : /\ Count(line', n) = IF Head(line).copy = n THEN Count(line, n) - 1
                                                         ELSE Count(line, n)
             /\ Head(line).copy = n => Count(line, n) > 0
    BY CountTail DEF LineOK
<1> QED
    BY <1>1, <1>2, BagCounts

(* Waiting changes no bag.                                                 *)
LEMMA BagTick ==
    ASSUME LineOK, line' = [i \in DOMAIN line |-> [line[i] EXCEPT !.age = @ + 1]]
    PROVE  RetryBag' = RetryBag
<1>1. \A n : Count(line', n) = Count(line, n)
    BY CountTick DEF LineOK
<1> QED
    BY <1>1, BagCounts

(* The bag depends on the line alone.                                      *)
LEMMA BagSame == line' = line => RetryBag' = RetryBag
    BY BagCounts

(* Only an overdue head leaves the queue. *)
LEMMA BackedOffStep ==
    ASSUME WaitInv, [Next]_retryVars,
           NEW m \in Message, RetryBag'[m] < RetryBag[m]
    PROVE  \E i \in DOMAIN line : line[i].copy = m /\ line[i].age >= Ttl[m.retries - 1]
<1>0. LineOK /\ UnackedOK /\ RetryBag[m] \in Nat
    BY BagCounts, PlacesFinite DEF WaitInv, LineOK
<1>1. CASE line # <<>> /\ Overdue /\ line' = Tail(line)
    <2>1. RetryBag' = [RetryBag EXCEPT ![Head(line).copy] = @ - 1]
        BY <1>0, <1>1, BagTail
    <2>2. Head(line).copy = m
        BY <1>0, <2>1
    <2>3. 1 \in DOMAIN line /\ Head(line) = line[1]
        BY <1>0, <1>1, LineTail DEF LineOK
    <2>4. line[1].age >= line[1].ttl
        BY <1>1, <2>3 DEF Overdue
    <2>5. line[1].ttl = Ttl[m.retries - 1]
        BY <2>2, <2>3 DEF WaitInv, DelayOfHeader
    <2> QED
        BY <2>2, <2>3, <2>4, <2>5
<1>2. ASSUME NEW n \in Message, MayRetry(n),
             line' = Append(line, [copy |-> RetryCopy(n), ttl |-> TtlOf(n), age |-> 0])
      PROVE  FALSE
    <2>1. RetryBag' = [RetryBag EXCEPT ![RetryCopy(n)] = @ + 1]
        BY <1>0, <1>2, BagAppend
    <2>2. RetryBag'[m] >= RetryBag[m]
        BY <1>0, <2>1, BagCounts
    <2>3. RetryBag'[m] \in Nat
        BY <1>0, <2>1, BagCounts
    <2> QED
        BY <1>0, <2>2, <2>3
<1>3. CASE line' = [i \in DOMAIN line |-> [line[i] EXCEPT !.age = @ + 1]]
    BY <1>0, <1>3, BagTick
<1>4. CASE line' = line
    BY <1>0, <1>4, BagSame
<1> QED
    BY <1>0, <1>1, <1>2, <1>3, <1>4, LineStep

(***************************************************************************)
(* No copy comes back before the delay of its header is over: neither the  *)
(* clock of another copy nor a crashed worker shortens it.                 *)
(***************************************************************************)
THEOREM NoEarlyReturn == Spec => BackedOff
<1>1. WaitInv /\ [Next]_retryVars =>
          [\A m \in Message :
              RetryBag'[m] < RetryBag[m] =>
                  \E i \in DOMAIN line : /\ line[i].copy = m
                                         /\ line[i].age >= Ttl[m.retries - 1]]_retryVars
    BY BackedOffStep
<1> QED
    BY <1>1, WaitInit, WaitStep, PTL DEF Spec, BackedOff

-----------------------------------------------------------------------------
(* The bag of Broker *)

(* Every step on the line is a step on the bag, or none.                   *)
LEMMA BagsStep ==
    ASSUME WaitInv, [Next]_retryVars
    PROVE  [Bags!BrokerStep]_(Bags!brokerVars)
<1> USE DEF Bags!BrokerStep, Bags!brokerVars
<1>0. LineOK /\ UnackedOK /\ Bags!Message = Message
    BY DEF WaitInv, Bags!Message, Message, Bags!Corrupt, Corrupt
<1>1. ASSUME NEW w \in Workers, Deliver(w) \/ Finish(w) \/ Settle(w) \/ Crash(w)
      PROVE  Bags!Deliver(w) \/ Bags!Ack(w) \/ Bags!Requeue(w)
    BY <1>1 DEF Deliver, Finish, Settle, Crash
<1>2. ASSUME NEW w \in Workers, PublishRetry(w)
      PROVE  \E m \in Bags!Message : Bags!PublishRetry(m)
    <2>1. PICK m \in Message :
              /\ MayRetry(m)
              /\ line' = Append(line, [copy |-> RetryCopy(m), ttl |-> TtlOf(m), age |-> 0])
        BY <1>0, <1>2 DEF PublishRetry, UnackedOK
    <2>2. RetryBag' = [RetryBag EXCEPT ![RetryCopy(m)] = @ + 1]
        BY <1>0, <2>1, BagAppend
    <2>3. RetryCopy(m) \in Bags!Message
        BY <1>0, <2>1, CopyDelay
    <2> QED
        BY <1>2, <2>2, <2>3 DEF PublishRetry, Bags!PublishRetry, Bags!Add
<1>3. ASSUME NEW w \in Workers, PublishDead(w)
      PROVE  \E m \in Bags!Message : Bags!PublishDead(m)
    BY <1>0, <1>3 DEF PublishDead, UnackedOK
<1>4. CASE Expire
    <2>1. line # <<>> /\ line' = Tail(line)
        BY <1>4 DEF Expire, Overdue
    <2>2. /\ Head(line).copy \in Bags!Message
          /\ RetryBag[Head(line).copy] > 0
          /\ RetryBag' = [RetryBag EXCEPT ![Head(line).copy] = @ - 1]
        BY <1>0, <2>1, BagTail
    <2> QED
        BY <1>4, <2>2 DEF Expire, Bags!ExpireMessage, Bags!Remove
<1>5. CASE Tick
    BY <1>0, <1>5, BagTick DEF Tick
<1>6. CASE UNCHANGED retryVars
    BY <1>6, BagSame DEF retryVars
<1> QED
    BY <1>1, <1>2, <1>3, <1>4, <1>5, <1>6 DEF Next

(***************************************************************************)
(* The queue with its clock implements the bag that the other modules take *)
(* it for.                                                                 *)
(***************************************************************************)
THEOREM QueueImplementsBag == Spec => ImplementsBags
    BY BagsStep, WaitInit, WaitStep, PTL DEF Spec, ImplementsBags
=============================================================================
