-------------------------- MODULE EventBusProofs ---------------------------
(***************************************************************************)
(* Proofs about EventBus, for every set of names, patterns, publishers and *)
(* closers and every bound.                                                *)
(***************************************************************************)
EXTENDS EventBus, TLAPS, FiniteSetTheorems, SequenceTheorems, WellFoundedInduction

\* A nonempty set of naturals has a least element.
LEMMA LeastElement ==
    ASSUME NEW T, T \subseteq Nat, T # {}
    PROVE  \E x \in T : \A y \in T : x <= y
<1> DEFINE R == {ss \in Nat \X Nat : ss[1] < ss[2]}
<1>1. OpToRel(<, Nat) = R
  BY Zenon DEF OpToRel
<1>2. IsWellFoundedOn(R, Nat)
  BY ONLY <1>1, NatLessThanWellFounded, Zenon
<1>3. PICK x \in T : \A y \in T : ~(<<y, x>> \in R)
  <2> HIDE DEF R
  <2> QED  BY <1>2, WFMin
<1>4. ASSUME NEW y \in T PROVE x <= y
  <2>1. <<y, x>> \notin R
    BY <1>3
  <2>2. <<y, x>> \in Nat \X Nat
    OBVIOUS
  <2>3. ~(y < x)
    BY <2>1, <2>2
  <2> QED  BY <2>3
<1> QED  BY <1>4

\* The sorted insertion puts s at some index k: everything before it has at
\* least its priority, and the first element after it has less.
LEMMA StableInsertShape ==
    ASSUME NEW S, NEW list \in Seq(S), NEW s \in S, NEW h
    PROVE  LET new == StableInsert(list, s, h) IN
           /\ new \in Seq(S)
           /\ Len(new) = Len(list) + 1
           /\ \E k \in 1 .. Len(list) + 1 :
                 /\ \A i \in 1 .. Len(list) + 1 :
                       new[i] = IF i < k THEN list[i] ELSE IF i = k THEN s ELSE list[i - 1]
                 /\ \A i \in 1 .. k - 1 : ~(h[list[i]].priority < h[s].priority)
                 /\ k <= Len(list) => h[list[k]].priority < h[s].priority
<1> DEFINE lower == {i \in DOMAIN list : h[list[i]].priority < h[s].priority}
           k == IF lower = {} THEN Len(list) + 1
                ELSE CHOOSE i \in lower : \A j \in lower : i <= j
           left == SubSeq(list, 1, k - 1)
           right == SubSeq(list, k, Len(list))
<1>1. /\ k \in 1 .. Len(list) + 1
      /\ \A i \in 1 .. k - 1 : ~(h[list[i]].priority < h[s].priority)
      /\ k <= Len(list) => h[list[k]].priority < h[s].priority
  <2>0. Len(list) \in Nat /\ DOMAIN list = 1 .. Len(list)
    BY LenProperties
  <2>1. lower \subseteq Nat
    BY <2>0
  <2>2. CASE lower = {}
    <3>1. k = Len(list) + 1
      BY <2>2
    <3>2. \A i \in 1 .. Len(list) : ~(h[list[i]].priority < h[s].priority)
      BY <2>0, <2>2
    <3> HIDE DEF k, lower
    <3> QED  BY <2>0, <3>1, <3>2
  <2>3. CASE lower # {}
    <3>1. \E x \in lower : \A y \in lower : x <= y
      BY <2>1, <2>3, LeastElement
    <3>2. k \in lower /\ \A j \in lower : k <= j
      BY <2>3, <3>1
    <3>3. k \in 1 .. Len(list) /\ h[list[k]].priority < h[s].priority
      BY <2>0, <3>2
    <3>4. ASSUME NEW i \in 1 .. k - 1 PROVE ~(h[list[i]].priority < h[s].priority)
      <4>1. i \in DOMAIN list /\ ~(k <= i)
        <5> HIDE DEF k
        <5> QED  BY <2>0, <3>3
      <4> QED  BY <3>2, <4>1
    <3> HIDE DEF k
    <3> QED  BY <2>0, <3>3, <3>4
  <2> QED  BY <2>2, <2>3
<1> HIDE DEF k
<1>2. /\ left \in Seq(S) /\ Len(left) = k - 1
      /\ \A i \in 1 .. k - 1 : left[i] = list[i]
  <2>1. \A i \in 1 .. k - 1 : list[i] \in S
    BY <1>1, LenProperties
  <2> QED  BY <1>1, <2>1, SubSeqProperties, LenProperties
<1>3. /\ right \in Seq(S) /\ Len(right) = Len(list) - k + 1
      /\ \A i \in 1 .. Len(list) - k + 1 : right[i] = list[k + i - 1]
  <2>1. \A i \in k .. Len(list) : list[i] \in S
    BY <1>1, LenProperties
  <2>2. Len(list) \in Nat /\ k \in Int
    BY <1>1, LenProperties
  <2> QED  BY <1>1, <2>1, <2>2, SubSeqProperties
<1> HIDE DEF left, right
<1>4. StableInsert(list, s, h) = left \o <<s>> \o right
  BY DEF StableInsert, k, lower, left, right
<1> DEFINE front == left \o <<s>>
<1>5. /\ front \in Seq(S)
      /\ Len(front) = k
      /\ \A i \in 1 .. k : front[i] = IF i < k THEN list[i] ELSE s
  BY <1>1, <1>2
<1> HIDE DEF front
<1>6. /\ front \o right \in Seq(S)
      /\ Len(front \o right) = Len(list) + 1
      /\ \A i \in 1 .. Len(list) + 1 : (front \o right)[i] =
            IF i < k THEN list[i] ELSE IF i = k THEN s ELSE list[i - 1]
  <2>1. Len(list) \in Nat
    BY LenProperties
  <2>2. /\ front \o right \in Seq(S)
        /\ Len(front \o right) = Len(list) + 1
        /\ \A i \in 1 .. Len(list) + 1 : (front \o right)[i] =
              IF i <= k THEN front[i] ELSE right[i - k]
    <3>1. /\ front \o right \in Seq(S)
          /\ Len(front \o right) = Len(front) + Len(right)
          /\ \A i \in 1 .. Len(front) + Len(right) : (front \o right)[i] =
                IF i <= Len(front) THEN front[i] ELSE right[i - Len(front)]
      BY <1>3, <1>5, ConcatProperties, Zenon
    <3>2. Len(front) + Len(right) = Len(list) + 1
      BY <1>1, <1>3, <1>5, <2>1
    <3> QED  BY <1>5, <3>1, <3>2
  <2>3. ASSUME NEW i \in 1 .. Len(list) + 1
        PROVE  (front \o right)[i] =
                  IF i < k THEN list[i] ELSE IF i = k THEN s ELSE list[i - 1]
    <3>1. CASE i <= k
      BY <1>1, <1>5, <2>1, <2>2, <3>1
    <3>2. CASE i > k
      <4>1. i - k \in 1 .. Len(list) - k + 1 /\ k + (i - k) - 1 = i - 1
        BY <1>1, <2>1, <3>2
      <4>2. right[i - k] = list[i - 1]
        BY <1>3, <4>1
      <4>3. ~(i <= k) /\ ~(i < k) /\ i # k
        BY <1>1, <3>2
      <4>4. (front \o right)[i] = right[i - k]
        BY <2>2, <4>3
      <4> QED  BY <4>2, <4>3, <4>4
    <3>3. i <= k \/ i > k
      BY <1>1, <2>1
    <3> QED  BY <3>1, <3>2, <3>3, Zenon
  <2> QED  BY <2>2, <2>3
<1>7. StableInsert(list, s, h) = front \o right
  BY <1>4 DEF front
<1> QED  BY <1>1, <1>6, <1>7

\* The removal drops one occurrence of s and shifts the rest, or does nothing.
LEMMA WithoutShape ==
    ASSUME NEW S, NEW list \in Seq(S), NEW s
    PROVE  LET new == Without(list, s) IN
           /\ new \in Seq(S)
           /\ \/ new = list /\ \A i \in DOMAIN list : list[i] # s
              \/ \E k \in 1 .. Len(list) :
                    /\ list[k] = s
                    /\ Len(new) = Len(list) - 1
                    /\ \A i \in 1 .. Len(list) - 1 :
                          new[i] = IF i < k THEN list[i] ELSE list[i + 1]
<1>1. Len(list) \in Nat /\ DOMAIN list = 1 .. Len(list)
  BY LenProperties
<1>2. CASE ~\E i \in DOMAIN list : list[i] = s
  BY <1>2 DEF Without
<1>3. CASE \E i \in DOMAIN list : list[i] = s
  <2> DEFINE k == CHOOSE i \in DOMAIN list : list[i] = s
             left == SubSeq(list, 1, k - 1)
             right == SubSeq(list, k + 1, Len(list))
  <2>1. k \in 1 .. Len(list) /\ list[k] = s
    BY <1>1, <1>3
  <2> HIDE DEF k
  <2>2. \A i \in 1 .. Len(list) : list[i] \in S
    BY <1>1, ElementOfSeq
  <2>3. /\ left \in Seq(S) /\ Len(left) = k - 1
        /\ \A i \in 1 .. k - 1 : left[i] = list[i]
    BY <1>1, <2>1, <2>2, SubSeqProperties
  <2>4. /\ right \in Seq(S) /\ Len(right) = Len(list) - k
        /\ \A i \in 1 .. Len(list) - k : right[i] = list[i + k]
    <3> DEFINE m == k + 1
    <3>1. m \in 1 .. Len(list) + 1 /\ m = k + 1
      BY <1>1, <2>1
    <3>2. right = SubSeq(list, m, Len(list))
      OBVIOUS
    <3> HIDE DEF m, right
    <3>3. \A i \in m .. Len(list) : list[i] \in S
      BY <1>1, <2>2, <3>1
    <3>4. /\ right \in Seq(S) /\ Len(right) = Len(list) - m + 1
          /\ \A i \in 1 .. Len(list) - m + 1 : right[i] = list[m + i - 1]
      BY <1>1, <3>1, <3>2, <3>3, SubSeqProperties
    <3>5. ASSUME NEW i \in 1 .. Len(list) - k PROVE right[i] = list[i + k]
      <4>1. i \in 1 .. Len(list) - m + 1 /\ m + i - 1 = i + k
        BY <1>1, <2>1, <3>1
      <4> QED  BY <3>4, <4>1
    <3> QED  BY <1>1, <2>1, <3>1, <3>4, <3>5
  <2>5. Without(list, s) = left \o right
    BY <1>3 DEF Without, RemoveAt, k
  <2> HIDE DEF left, right
  <2>6. /\ left \o right \in Seq(S)
        /\ Len(left \o right) = Len(left) + Len(right)
        /\ \A i \in 1 .. Len(left) + Len(right) : (left \o right)[i] =
              IF i <= Len(left) THEN left[i] ELSE right[i - Len(left)]
    BY <2>3, <2>4, ConcatProperties, Zenon
  <2>7. Len(left) + Len(right) = Len(list) - 1
    BY <1>1, <2>1, <2>3, <2>4
  <2>8. ASSUME NEW i \in 1 .. Len(list) - 1
        PROVE  (left \o right)[i] = IF i < k THEN list[i] ELSE list[i + 1]
    <3>1. CASE i < k
      BY <1>1, <2>1, <2>3, <2>6, <2>7, <3>1
    <3>2. CASE ~(i < k)
      <4>1. i - (k - 1) \in 1 .. Len(list) - k /\ i - (k - 1) + k = i + 1
        BY <1>1, <2>1, <3>2
      <4>2. right[i - (k - 1)] = list[i + 1]
        BY <2>4, <4>1
      <4>3. ~(i <= k - 1)
        BY <2>1, <3>2
      <4>4. (left \o right)[i] = right[i - (k - 1)]
        BY <2>3, <2>6, <2>7, <4>3
      <4> QED  BY <3>2, <4>2, <4>4
    <3> QED  BY <3>1, <3>2, Zenon
  <2> QED  BY <2>1, <2>5, <2>6, <2>7, <2>8
<1> QED  BY <1>2, <1>3

----------------------------------------------------------------------------
(* Type correctness.                                                       *)

\* Whatever a subscriber passes, the options it ends with are well formed.
LEMMA ResolveOptionsType ==
    ASSUME NEW opts \in OptionLists
    PROVE  resolveOptions(opts) \in Options
<1>1. CASE opts = <<>>
  BY <1>1 DEF resolveOptions, Options, Priorities, PriorityLow
<1>2. CASE \E opt \in Options : opts = <<opt>>
  BY <1>2 DEF resolveOptions
<1> QED  BY <1>1, <1>2, BusAssumption

\* A new subscriber gets the next free id; the others keep their structs.
LEMMA AllocateType ==
    ASSUME TypeOK, NEW wildcard \in BOOLEAN, NEW key \in Names \cup Patterns,
           NEW opts \in OptionLists, Allocate(wildcard, key, opts)
    PROVE  /\ allocated + 1 \in SubIds
           /\ allocated' = allocated + 1 /\ allocated' \in 0 .. MaxSubs
           /\ heap' \in [SubIds -> Subscribers]
           /\ \A s \in SubIds : s <= allocated => heap'[s] = heap[s]
<1> DEFINE opt == resolveOptions(opts)
           rec == [async |-> opt.async, priority |-> opt.priority, opts |-> opts,
                   wildcard |-> wildcard, key |-> key, live |-> TRUE]
<1>1. opt \in Options
  BY ResolveOptionsType
<1>2. rec \in Subscribers
  BY <1>1 DEF Subscribers, Options
<1>3. allocated + 1 \in SubIds /\ allocated + 1 \in 0 .. MaxSubs
  BY BusAssumption DEF TypeOK, Allocate, SubIds
<1>4. allocated' = allocated + 1 /\ heap' = [heap EXCEPT ![allocated + 1] = rec]
  BY DEF Allocate
<1> HIDE DEF rec, opt
<1>5. heap' \in [SubIds -> Subscribers]
  BY <1>2, <1>3, <1>4 DEF TypeOK
<1>6. ASSUME NEW s \in SubIds, s <= allocated PROVE heap'[s] = heap[s]
  <2>1. s # allocated + 1
    BY <1>6, BusAssumption DEF TypeOK, SubIds
  <2> QED  BY <1>4, <2>1 DEF TypeOK
<1> QED  BY <1>3, <1>4, <1>5, <1>6

\* Cancelling a subscriber leaves a struct that differs in its live mark only.
LEMMA CancelType ==
    ASSUME NEW s \in SubIds, heap \in [SubIds -> Subscribers],
           heap' = [heap EXCEPT ![s].live = FALSE]
    PROVE  /\ heap' \in [SubIds -> Subscribers]
           /\ \A r \in SubIds : /\ heap'[r].async = heap[r].async
                                /\ heap'[r].priority = heap[r].priority
                                /\ heap'[r].key = heap[r].key
                                /\ heap'[r].wildcard = heap[r].wildcard
                                /\ heap'[r].live = IF r = s THEN FALSE ELSE heap[r].live
<1> DEFINE rec == [heap[s] EXCEPT !.live = FALSE]
<1>1. heap[s] \in Subscribers
  OBVIOUS
<1>2. /\ rec \in Subscribers
      /\ rec.async = heap[s].async /\ rec.priority = heap[s].priority
      /\ rec.key = heap[s].key /\ rec.wildcard = heap[s].wildcard /\ rec.live = FALSE
  BY <1>1 DEF Subscribers
<1>3. heap' = [heap EXCEPT ![s] = rec]
  OBVIOUS
<1> HIDE DEF rec
<1> QED  BY <1>2, <1>3

\* The bus NewEventBus returns is well typed.
LEMMA TypeOKInit == Init => TypeOK
<1> SUFFICES ASSUME Init PROVE TypeOK
  OBVIOUS
<1>1. Unallocated \in Subscribers
  BY DEF Unallocated, Subscribers, Priorities, PriorityLow
<1>2. <<>> \in Seq(SubIds)
  BY EmptySeq
<1>3. subscribers \in [Names -> Seq(SubIds)] /\ patterns \in [Patterns -> Seq(SubIds)]
      /\ targets \in [Publishers -> Seq(SubIds)] /\ heap \in [SubIds -> Subscribers]
  BY <1>1, <1>2 DEF Init
<1>4. event \in [Publishers -> Names]
  BY DEF Init
<1>5. calls \in [Publishers -> 0 .. MaxPublish] /\ allocated \in 0 .. MaxSubs
  BY BusAssumption DEF Init
<1>6. /\ running \subseteq Publishers \X Nat \X Nat
      /\ expected \in [Publishers -> SUBSET SubIds]
      /\ todo \in [Publishers -> SUBSET Patterns]
  BY DEF Init
<1>7. /\ pc \in [Publishers -> {"idle", "collect", "dispatch", "handler"}]
      /\ pos \in [Publishers -> Nat \ {0}]
      /\ closer \in [Closers -> {"idle", "lock", "wait", "done"}]
  BY DEF Init
<1>8. closed \in BOOLEAN /\ wg \in Nat /\ readers \subseteq Publishers
  BY DEF Init
<1> QED  BY <1>3, <1>4, <1>5, <1>6, <1>7, <1>8, Zenon DEF TypeOK

\* Every step keeps the types.  That the WaitGroup does not go negative is a
\* fact about the outstanding tasks, and is proved with them below.
LEMMA TypeOKStep == TypeOK /\ wg' \in Nat /\ [Next]_vars => TypeOK'
<1> SUFFICES ASSUME TypeOK, wg' \in Nat, [Next]_vars PROVE TypeOK'
  OBVIOUS
<1> USE DEF registry, publishing
<1>1. ASSUME NEW name \in Names, NEW opts \in OptionLists, Subscribe(name, opts)
      PROVE  TypeOK'
  <2>1. allocated + 1 \in SubIds /\ allocated' \in 0 .. MaxSubs
        /\ heap' \in [SubIds -> Subscribers]
    BY <1>1, AllocateType DEF Subscribe
  <2>2. StableInsert(subscribers[name], allocated + 1, heap') \in Seq(SubIds)
    BY <2>1, StableInsertShape DEF TypeOK
  <2> QED  BY <1>1, <2>1, <2>2 DEF TypeOK, Subscribe
<1>2. ASSUME NEW q \in Patterns, NEW opts \in OptionLists, SubscribeWildcard(q, opts)
      PROVE  TypeOK'
  <2>1. allocated + 1 \in SubIds /\ allocated' \in 0 .. MaxSubs
        /\ heap' \in [SubIds -> Subscribers]
    BY <1>2, AllocateType DEF SubscribeWildcard
  <2>2. StableInsert(patterns[q], allocated + 1, heap') \in Seq(SubIds)
    BY <2>1, StableInsertShape DEF TypeOK
  <2> QED  BY <1>2, <2>1, <2>2 DEF TypeOK, SubscribeWildcard
<1>3. ASSUME NEW s \in SubIds, unsubscribeFunc(s) PROVE TypeOK'
  <2>1. \A n \in Names : Without(subscribers[n], s) \in Seq(SubIds)
    BY WithoutShape DEF TypeOK
  <2>2. subscribers' \in [Names -> Seq(SubIds)]
    BY <1>3, <2>1 DEF TypeOK, unsubscribeFunc
  <2>3. heap' \in [SubIds -> Subscribers]
    BY <1>3, CancelType DEF TypeOK, unsubscribeFunc
  <2> QED  BY <1>3, <2>2, <2>3 DEF TypeOK, unsubscribeFunc
<1>4. ASSUME NEW s \in SubIds, unsubscribeWildcardFunc(s) PROVE TypeOK'
  <2>1. \A q \in Patterns : Without(patterns[q], s) \in Seq(SubIds)
    BY WithoutShape DEF TypeOK
  <2>2. patterns' \in [Patterns -> Seq(SubIds)]
    BY <1>4, <2>1 DEF TypeOK, unsubscribeWildcardFunc
  <2>3. heap' \in [SubIds -> Subscribers]
    BY <1>4, CancelType DEF TypeOK, unsubscribeWildcardFunc
  <2> QED  BY <1>4, <2>2, <2>3 DEF TypeOK, unsubscribeWildcardFunc
<1>5. ASSUME NEW p \in Publishers, PublishRefused(p) PROVE TypeOK'
  <2>1. calls[p] + 1 \in 0 .. MaxPublish
    BY <1>5, BusAssumption DEF TypeOK, PublishRefused
  <2> QED  BY <1>5, <2>1 DEF TypeOK, PublishRefused
<1>6. ASSUME NEW p \in Publishers, NEW name \in Names, PublishBegin(p, name)
      PROVE  TypeOK'
  <2>1. calls[p] + 1 \in 0 .. MaxPublish
    BY <1>6, BusAssumption DEF TypeOK, PublishBegin
  <2>2. calls' \in [Publishers -> 0 .. MaxPublish]
    BY <1>6, <2>1 DEF TypeOK, PublishBegin
  <2>3. expected' \in [Publishers -> SUBSET SubIds]
    BY <1>6 DEF TypeOK, PublishBegin
  <2>4. todo' \in [Publishers -> SUBSET Patterns]
    BY <1>6 DEF TypeOK, PublishBegin
  <2>5. targets' \in [Publishers -> Seq(SubIds)]
    BY <1>6 DEF TypeOK, PublishBegin
  <2>6. /\ pc' \in [Publishers -> {"idle", "collect", "dispatch", "handler"}]
        /\ pos' \in [Publishers -> Nat \ {0}] /\ event' \in [Publishers -> Names]
        /\ readers' \subseteq Publishers
    BY <1>6 DEF TypeOK, PublishBegin
  <2>7. UNCHANGED <<registry, closed, wg, running, closer>>
    BY <1>6 DEF PublishBegin
  <2> QED  BY <2>2, <2>3, <2>4, <2>5, <2>6, <2>7 DEF TypeOK
<1>7. ASSUME NEW p \in Publishers, NEW q \in Patterns, CollectPattern(p, q)
      PROVE  TypeOK'
  <2>1. targets[p] \o patterns[q] \in Seq(SubIds)
    BY ConcatProperties DEF TypeOK
  <2> QED  BY <1>7, <2>1 DEF TypeOK, CollectPattern
<1>8. ASSUME NEW p \in Publishers, RegisterAsync(p) PROVE TypeOK'
  BY <1>8 DEF TypeOK, RegisterAsync
<1>9. ASSUME NEW p \in Publishers, DispatchAsync(p) PROVE TypeOK'
  <2>1. <<p, calls[p], pos[p]>> \in Publishers \X Nat \X Nat
    BY BusAssumption DEF TypeOK
  <2> QED  BY <1>9, <2>1 DEF TypeOK, DispatchAsync
<1>10. ASSUME NEW p \in Publishers, DispatchSync(p) PROVE TypeOK'
  BY <1>10 DEF TypeOK, DispatchSync
<1>11. ASSUME NEW p \in Publishers, HandlerReturn(p) PROVE TypeOK'
  BY <1>11 DEF TypeOK, HandlerReturn
<1>12. ASSUME NEW p \in Publishers, PublishReturn(p) PROVE TypeOK'
  BY <1>12 DEF TypeOK, PublishReturn
<1>13. ASSUME NEW t \in running, AsyncDone(t) PROVE TypeOK'
  BY <1>13 DEF TypeOK, AsyncDone
<1>14. ASSUME NEW c \in Closers, CloseCall(c) \/ CloseStep(c) PROVE TypeOK'
  BY <1>14 DEF TypeOK, CloseCall, CloseStep, CloseSet, CloseReturn
<1>15. CASE UNCHANGED vars
  BY <1>15 DEF TypeOK, vars
<1> QED
  BY <1>1, <1>2, <1>3, <1>4, <1>5, <1>6, <1>7, <1>8, <1>9, <1>10, <1>11, <1>12, <1>13,
     <1>14, <1>15, Zenon
  DEF Next, PublishStep, SubscribeRefused, SubscribeWildcardRefused

----------------------------------------------------------------------------
(* The inductive invariant.                                                *)

\* Who may hold the read lock, and that closed separates readers from waiters.
LockInv ==
    /\ \A p \in Publishers : p \in readers <=> pc[p] = "collect"
    /\ readers # {} => ~closed
    /\ \A c \in Closers : closer[c] \in {"wait", "done"} => closed

\* Only allocated subscribers are listed or targeted, so a new subscription
\* cannot change what a Publish in progress has to do.
AllocInv ==
    /\ \A n \in Names : subscribers[n] \in Seq(1 .. allocated)
    /\ \A q \in Patterns : patterns[q] \in Seq(1 .. allocated)
    /\ \A p \in Publishers : targets[p] \in Seq(1 .. allocated)

\* Started tasks are behind the publisher's position in its current call.
TokenInv ==
    \A t \in running :
        /\ t[2] <= calls[t[1]]
        /\ t[2] = calls[t[1]] => pc[t[1]] # "collect" /\ t[3] < pos[t[1]]

\* A publisher inside a handler is at a sync target, and collects from index 1.
HandlerInv ==
    \A p \in Publishers :
        /\ pc[p] = "collect" => pos[p] = 1
        /\ pc[p] = "handler" => pos[p] \in DOMAIN targets[p] /\ ~CurrentIsAsync(p)

DrainInv == IsFiniteSet(Outstanding) /\ WgCountsOutstanding /\ CloseQuiesces

IInv == TypeOK /\ LockInv /\ AllocInv /\ TokenInv /\ HandlerInv /\ DrainInv

\* Every step keeps the readers the publishers that collect, and a caller of
\* Close past its lock with the bus closed.
LEMMA LockInvStep == TypeOK /\ LockInv /\ [Next]_vars => LockInv'
<1> SUFFICES ASSUME TypeOK, LockInv, [Next]_vars PROVE LockInv'
  OBVIOUS
<1> USE DEF LockInv, registry, publishing
<1>1. ASSUME NEW p \in Publishers, NEW name \in Names, PublishBegin(p, name)
      PROVE  LockInv'
  BY <1>1 DEF TypeOK, PublishBegin
<1>2. ASSUME NEW p \in Publishers, RegisterAsync(p) PROVE LockInv'
  BY <1>2 DEF TypeOK, RegisterAsync
<1>3. ASSUME NEW p \in Publishers,
             DispatchAsync(p) \/ DispatchSync(p) \/ HandlerReturn(p) \/ PublishReturn(p)
      PROVE  LockInv'
  BY <1>3 DEF TypeOK, DispatchAsync, DispatchSync, HandlerReturn, PublishReturn
<1>4. ASSUME NEW c \in Closers, CloseCall(c) \/ CloseStep(c) PROVE LockInv'
  BY <1>4 DEF TypeOK, CloseCall, CloseStep, CloseSet, CloseReturn, WriteLocked
<1>5. CASE UNCHANGED <<readers, pc, closed, closer>>
  BY <1>5
<1> QED
  BY <1>1, <1>2, <1>3, <1>4, <1>5
  DEF Next, PublishStep, vars, Subscribe, SubscribeRefused, SubscribeWildcard,
      SubscribeWildcardRefused, unsubscribeFunc, unsubscribeWildcardFunc,
      PublishRefused, CollectPattern, AsyncDone

\* Every step keeps the lists and the snapshots to subscribers that exist.
LEMMA AllocInvStep == TypeOK /\ AllocInv /\ [Next]_vars => AllocInv'
<1> SUFFICES ASSUME TypeOK, AllocInv, [Next]_vars PROVE AllocInv'
  OBVIOUS
<1> USE DEF registry, publishing
\* After an allocation the lists range over a larger set, which has the newcomer.
<1>1. ASSUME allocated' = allocated + 1
      PROVE  /\ allocated + 1 \in 1 .. allocated'
             /\ \A list \in Seq(1 .. allocated) :
                   /\ list \in Seq(1 .. allocated')
                   /\ \A h : StableInsert(list, allocated + 1, h) \in Seq(1 .. allocated')
  <2>1. allocated + 1 \in 1 .. allocated' /\ 1 .. allocated \subseteq 1 .. allocated'
    BY <1>1 DEF TypeOK
  <2>2. \A list \in Seq(1 .. allocated) : list \in Seq(1 .. allocated')
    BY <2>1, SeqMonotonic
  <2> QED  BY <2>1, <2>2, StableInsertShape
<1>2. ASSUME NEW name \in Names, NEW opts \in OptionLists, Subscribe(name, opts)
      PROVE  AllocInv'
  <2>1. allocated' = allocated + 1
    BY <1>2 DEF Subscribe, Allocate
  <2>2. \A n \in Names : subscribers'[n] =
           IF n = name THEN StableInsert(subscribers[n], allocated + 1, heap') ELSE subscribers[n]
    BY <1>2 DEF Subscribe, TypeOK
  <2>3. UNCHANGED <<patterns, targets>>
    BY <1>2 DEF Subscribe
  <2> QED  BY <1>1, <2>1, <2>2, <2>3 DEF AllocInv
<1>3. ASSUME NEW q \in Patterns, NEW opts \in OptionLists, SubscribeWildcard(q, opts)
      PROVE  AllocInv'
  <2>1. allocated' = allocated + 1
    BY <1>3 DEF SubscribeWildcard, Allocate
  <2>2. \A r \in Patterns : patterns'[r] =
           IF r = q THEN StableInsert(patterns[r], allocated + 1, heap') ELSE patterns[r]
    BY <1>3 DEF SubscribeWildcard, TypeOK
  <2>3. UNCHANGED <<subscribers, targets>>
    BY <1>3 DEF SubscribeWildcard
  <2> QED  BY <1>1, <2>1, <2>2, <2>3 DEF AllocInv
<1>4. ASSUME NEW s \in SubIds, unsubscribeFunc(s) PROVE AllocInv'
  <2>1. \A n \in Names : subscribers'[n] \in {subscribers[n], Without(subscribers[n], s)}
    BY <1>4 DEF unsubscribeFunc, TypeOK
  <2>2. UNCHANGED <<allocated, patterns, targets>>
    BY <1>4 DEF unsubscribeFunc
  <2> QED  BY <2>1, <2>2, WithoutShape DEF AllocInv
<1>5. ASSUME NEW s \in SubIds, unsubscribeWildcardFunc(s) PROVE AllocInv'
  <2>1. \A q \in Patterns : patterns'[q] \in {patterns[q], Without(patterns[q], s)}
    BY <1>5 DEF unsubscribeWildcardFunc, TypeOK
  <2>2. UNCHANGED <<allocated, subscribers, targets>>
    BY <1>5 DEF unsubscribeWildcardFunc
  <2> QED  BY <2>1, <2>2, WithoutShape DEF AllocInv
<1>6. ASSUME NEW p \in Publishers, NEW name \in Names, PublishBegin(p, name)
      PROVE  AllocInv'
  <2>1. \A r \in Publishers : targets'[r] = IF r = p THEN subscribers[name] ELSE targets[r]
    BY <1>6 DEF PublishBegin, TypeOK
  <2>2. UNCHANGED <<allocated, subscribers, patterns>>
    BY <1>6 DEF PublishBegin
  <2> QED  BY <2>1, <2>2 DEF AllocInv
<1>7. ASSUME NEW p \in Publishers, NEW q \in Patterns, CollectPattern(p, q)
      PROVE  AllocInv'
  <2>1. \A r \in Publishers : targets'[r] = IF r = p THEN targets[p] \o patterns[q] ELSE targets[r]
    BY <1>7 DEF CollectPattern, TypeOK
  <2>2. targets[p] \o patterns[q] \in Seq(1 .. allocated)
    BY ConcatProperties DEF AllocInv
  <2>3. UNCHANGED <<allocated, subscribers, patterns>>
    BY <1>7 DEF CollectPattern
  <2> QED  BY <2>1, <2>2, <2>3 DEF AllocInv
<1>8. CASE UNCHANGED <<allocated, subscribers, patterns, targets>>
  BY <1>8 DEF AllocInv
<1> QED
  BY <1>2, <1>3, <1>4, <1>5, <1>6, <1>7, <1>8
  DEF Next, PublishStep, vars, SubscribeRefused, SubscribeWildcardRefused, PublishRefused,
      RegisterAsync, DispatchAsync, DispatchSync, HandlerReturn, PublishReturn, AsyncDone,
      CloseCall, CloseStep, CloseSet, CloseReturn

\* Every step keeps the tasks that run apart from the ones still queued.
LEMMA TokenInvStep == TypeOK /\ TokenInv /\ [Next]_vars => TokenInv'
<1> SUFFICES ASSUME TypeOK, TokenInv, [Next]_vars PROVE TokenInv'
  OBVIOUS
<1> USE DEF registry, publishing
<1>0. /\ \A t \in running : t[1] \in Publishers /\ t[2] \in Nat /\ t[3] \in Nat
      /\ \A p \in Publishers : calls[p] \in Nat /\ pos[p] \in Nat
  BY BusAssumption DEF TypeOK
<1>1. ASSUME NEW p \in Publishers, PublishRefused(p) PROVE TokenInv'
  <2>1. /\ \A r \in Publishers : calls'[r] = IF r = p THEN calls[r] + 1 ELSE calls[r]
        /\ UNCHANGED <<running, pc, pos>>
    BY <1>1 DEF PublishRefused, TypeOK
  <2> QED  BY <1>0, <2>1 DEF TokenInv
<1>2. ASSUME NEW p \in Publishers, NEW name \in Names, PublishBegin(p, name)
      PROVE  TokenInv'
  <2>1. /\ \A r \in Publishers : calls'[r] = IF r = p THEN calls[r] + 1 ELSE calls[r]
        /\ \A r \in Publishers \ {p} : pc'[r] = pc[r] /\ pos'[r] = pos[r]
        /\ UNCHANGED running
    BY <1>2 DEF PublishBegin, TypeOK
  <2> QED  BY <1>0, <2>1 DEF TokenInv
<1>3. ASSUME NEW p \in Publishers, RegisterAsync(p) \/ DispatchSync(p) \/ PublishReturn(p)
      PROVE  TokenInv'
  <2>1. /\ pc[p] # "idle" /\ pc'[p] # "collect"
        /\ \A r \in Publishers \ {p} : pc'[r] = pc[r]
        /\ UNCHANGED <<running, calls, pos>>
    BY <1>3 DEF RegisterAsync, DispatchSync, PublishReturn, TypeOK
  <2> QED  BY <1>0, <2>1 DEF TokenInv
<1>4. ASSUME NEW p \in Publishers, DispatchAsync(p) PROVE TokenInv'
  <2>1. /\ \A r \in Publishers : pos'[r] = IF r = p THEN pos[r] + 1 ELSE pos[r]
        /\ running' = running \cup {<<p, calls[p], pos[p]>>}
        /\ UNCHANGED <<pc, calls>> /\ pc[p] = "dispatch"
    BY <1>4 DEF DispatchAsync, TypeOK
  <2> QED  BY <1>0, <2>1 DEF TokenInv
<1>5. ASSUME NEW p \in Publishers, HandlerReturn(p) PROVE TokenInv'
  <2>1. /\ \A r \in Publishers : pos'[r] = IF r = p THEN pos[r] + 1 ELSE pos[r]
        /\ \A r \in Publishers : pc'[r] = IF r = p THEN "dispatch" ELSE pc[r]
        /\ UNCHANGED <<running, calls>>
    BY <1>5 DEF HandlerReturn, TypeOK
  <2> QED  BY <1>0, <2>1 DEF TokenInv
<1>6. ASSUME NEW t \in running, AsyncDone(t) PROVE TokenInv'
  BY <1>6 DEF TokenInv, AsyncDone
<1>7. CASE UNCHANGED <<running, pc, calls, pos>>
  BY <1>7 DEF TokenInv
<1> QED
  BY <1>1, <1>2, <1>3, <1>4, <1>5, <1>6, <1>7
  DEF Next, PublishStep, vars, Subscribe, SubscribeRefused, SubscribeWildcard,
      SubscribeWildcardRefused, unsubscribeFunc, unsubscribeWildcardFunc,
      CollectPattern, CloseCall, CloseStep, CloseSet, CloseReturn

\* A subscriber stays sync or async for life.
LEMMA AsyncStable ==
    ASSUME TypeOK, [Next]_vars
    PROVE  \A s \in 1 .. allocated : heap'[s].async = heap[s].async
<1> USE DEF registry, publishing
<1>0. 1 .. allocated \subseteq SubIds
  BY BusAssumption DEF TypeOK, SubIds
<1>1. ASSUME NEW name \in Names, NEW opts \in OptionLists, Subscribe(name, opts)
      PROVE  \A s \in 1 .. allocated : heap'[s].async = heap[s].async
  <2>1. \A s \in SubIds : s <= allocated => heap'[s] = heap[s]
    BY <1>1, AllocateType DEF Subscribe
  <2> QED  BY <1>0, <2>1
<1>2. ASSUME NEW q \in Patterns, NEW opts \in OptionLists, SubscribeWildcard(q, opts)
      PROVE  \A s \in 1 .. allocated : heap'[s].async = heap[s].async
  <2>1. \A s \in SubIds : s <= allocated => heap'[s] = heap[s]
    BY <1>2, AllocateType DEF SubscribeWildcard
  <2> QED  BY <1>0, <2>1
<1>3. ASSUME NEW r \in SubIds, unsubscribeFunc(r) \/ unsubscribeWildcardFunc(r)
      PROVE  \A s \in 1 .. allocated : heap'[s].async = heap[s].async
  <2>1. \A s \in SubIds : heap'[s].async = heap[s].async
    BY <1>3, CancelType DEF unsubscribeFunc, unsubscribeWildcardFunc, TypeOK
  <2> QED  BY <1>0, <2>1
<1>4. CASE UNCHANGED heap
  BY <1>4
<1> QED
  BY <1>1, <1>2, <1>3, <1>4
  DEF Next, PublishStep, vars, SubscribeRefused, SubscribeWildcardRefused, PublishRefused,
      PublishBegin, CollectPattern, RegisterAsync, DispatchAsync, DispatchSync, HandlerReturn,
      PublishReturn, AsyncDone, CloseCall, CloseStep, CloseSet, CloseReturn

\* What a publisher has in front of it changes only by its own steps.
LEMMA QueuedStable ==
    ASSUME TypeOK, AllocInv, [Next]_vars, NEW p \in Publishers,
           targets'[p] = targets[p], pos'[p] = pos[p], calls'[p] = calls[p]
    PROVE  /\ Queued(p)' = Queued(p)
           /\ pos[p] \in DOMAIN targets[p] => CurrentIsAsync(p)' = CurrentIsAsync(p)
<1>1. \A i \in DOMAIN targets[p] : targets[p][i] \in 1 .. allocated
  BY LenProperties, ElementOfSeq DEF AllocInv
<1>2. \A i \in DOMAIN targets[p] : heap'[targets[p][i]].async = heap[targets[p][i]].async
  BY <1>1, AsyncStable
<1> QED  BY <1>2 DEF Queued, CurrentIsAsync

\* Every step keeps a publisher that runs a handler at a sync target.
LEMMA HandlerInvStep == TypeOK /\ AllocInv /\ HandlerInv /\ [Next]_vars => HandlerInv'
<1> SUFFICES ASSUME TypeOK, AllocInv, HandlerInv, [Next]_vars, NEW p \in Publishers
             PROVE  /\ pc'[p] = "collect" => pos'[p] = 1
                    /\ pc'[p] = "handler" =>
                          pos'[p] \in DOMAIN targets'[p] /\ ~CurrentIsAsync(p)'
  BY DEF HandlerInv
<1> USE DEF registry, publishing
<1>0. /\ pc[p] = "collect" => pos[p] = 1
      /\ pc[p] = "handler" => pos[p] \in DOMAIN targets[p] /\ ~CurrentIsAsync(p)
      /\ Len(targets[p]) \in Nat /\ DOMAIN targets[p] = 1 .. Len(targets[p])
      /\ pos[p] \in Nat \ {0}
  BY LenProperties DEF HandlerInv, TypeOK
<1>1. CASE pc'[p] = pc[p] /\ pos'[p] = pos[p] /\ targets'[p] = targets[p] /\ calls'[p] = calls[p]
  BY <1>0, <1>1, QueuedStable
<1>2. CASE pc'[p] \in {"idle", "dispatch"}
  BY <1>2
<1>3. CASE PublishRefused(p) \/ \E q \in Patterns : CollectPattern(p, q)
  BY <1>0, <1>3 DEF PublishRefused, CollectPattern, TypeOK
<1>4. CASE \E name \in Names : PublishBegin(p, name)
  BY <1>4 DEF PublishBegin, TypeOK
<1>5. CASE DispatchSync(p)
  BY <1>0, <1>5 DEF DispatchSync, TypeOK, CurrentIsAsync
<1>6. ASSUME NEW r \in Publishers, r # p,
             PublishRefused(r) \/ PublishStep(r) \/ \E name \in Names : PublishBegin(r, name)
      PROVE  pc'[p] = pc[p] /\ pos'[p] = pos[p] /\ targets'[p] = targets[p] /\ calls'[p] = calls[p]
  BY <1>6 DEF TypeOK, PublishRefused, PublishStep, PublishBegin, CollectPattern, RegisterAsync,
              DispatchAsync, DispatchSync, HandlerReturn, PublishReturn
<1>7. ASSUME PublishStep(p)
      PROVE  \/ pc'[p] \in {"idle", "dispatch"}
             \/ \E q \in Patterns : CollectPattern(p, q)
             \/ DispatchSync(p)
  BY <1>7 DEF TypeOK, PublishStep, RegisterAsync, DispatchAsync, HandlerReturn, PublishReturn
<1>8. CASE UNCHANGED publishing
  BY <1>1, <1>8
<1> QED
  BY <1>1, <1>2, <1>3, <1>4, <1>5, <1>6, <1>7, <1>8
  DEF Next, vars, Subscribe, SubscribeRefused, SubscribeWildcard, SubscribeWildcardRefused,
      unsubscribeFunc, unsubscribeWildcardFunc, AsyncDone, CloseCall, CloseStep, CloseSet,
      CloseReturn

\* The tasks in front of a publisher are finitely many.
LEMMA QueuedFinite ==
    ASSUME TypeOK, NEW p \in Publishers
    PROVE  IsFiniteSet(Queued(p))
<1> DEFINE D == {j \in DOMAIN targets[p] : j >= pos[p] /\ heap[targets[p][j]].async}
           f == [i \in D |-> <<p, calls[p], i>>]
<1>1. Len(targets[p]) \in Nat /\ DOMAIN targets[p] = 1 .. Len(targets[p])
  BY LenProperties DEF TypeOK
<1>2. IsFiniteSet(1 .. Len(targets[p]))
  BY <1>1, FS_Interval
<1>3. D \in SUBSET (1 .. Len(targets[p]))
  BY <1>1
<1>4. IsFiniteSet(D)
  BY <1>2, <1>3, FS_Subset
<1>5. Queued(p) = {<<p, calls[p], i>> : i \in D}
  BY DEF Queued
<1> HIDE DEF D
<1>6. f \in Surjection(D, Queued(p))
  BY <1>5 DEF Surjection
<1> QED  BY <1>4, <1>6, FS_Surjection

\* The tasks a publisher has queued carry its name, its call and an index it
\* has not reached.
LEMMA QueuedShape ==
    ASSUME TypeOK, NEW p \in Publishers, NEW t \in Queued(p)
    PROVE  /\ t[1] = p /\ t[2] = calls[p] /\ t[3] \in Nat /\ pos[p] <= t[3]
           /\ t \in Publishers \X (0 .. MaxPublish) \X Nat
<1>1. PICK j \in DOMAIN targets[p] : j >= pos[p] /\ t = <<p, calls[p], j>>
  BY DEF Queued
<1>2. j \in Nat /\ pos[p] \in Nat /\ calls[p] \in 0 .. MaxPublish
  BY LenProperties DEF TypeOK
<1> QED  BY <1>1, <1>2

\* What a step does to the outstanding tasks and to the WaitGroup: nothing,
\* or a Publish registers its async targets while the bus is open, or one
\* started task ends.
LEMMA OutstandingStep ==
    ASSUME TypeOK, LockInv, AllocInv, TokenInv, HandlerInv, [Next]_vars
    PROVE  \/ Outstanding' = Outstanding /\ wg' = wg
           \/ \E p \in Publishers :
                 /\ ~closed /\ UNCHANGED <<closed, closer>>
                 /\ Outstanding' = Outstanding \cup Queued(p)
                 /\ Outstanding \cap Queued(p) = {}
                 /\ wg' = wg + Cardinality(Queued(p))
           \/ \E t \in running :
                 /\ UNCHANGED <<closed, closer>>
                 /\ Outstanding' = Outstanding \ {t}
                 /\ wg' = wg - 1
<1> USE DEF registry, publishing
<1>1. ASSUME UNCHANGED <<targets, pos, calls, pc, running, wg>>
      PROVE  Outstanding' = Outstanding /\ wg' = wg
  <2>1. \A p \in Publishers : Queued(p)' = Queued(p)
    BY <1>1, QueuedStable
  <2>2. Dispatching' = Dispatching /\ Dispatching \subseteq Publishers
    BY <1>1 DEF Dispatching
  <2> QED  BY <1>1, <2>1, <2>2 DEF Outstanding
\* Steps of a Publish that is not dispatching before or after.
<1>2. ASSUME NEW p \in Publishers,
             \/ PublishRefused(p)
             \/ \E name \in Names : PublishBegin(p, name)
             \/ \E q \in Patterns : CollectPattern(p, q)
      PROVE  Outstanding' = Outstanding /\ wg' = wg
  <2>1. /\ \A r \in Publishers \ {p} :
              targets'[r] = targets[r] /\ pos'[r] = pos[r] /\ calls'[r] = calls[r] /\ pc'[r] = pc[r]
        /\ pc[p] \in {"idle", "collect"} /\ pc'[p] \in {"idle", "collect"}
        /\ UNCHANGED <<running, wg>>
    BY <1>2 DEF PublishRefused, PublishBegin, CollectPattern, TypeOK
  <2>2. \A r \in Publishers \ {p} : Queued(r)' = Queued(r)
    BY <2>1, QueuedStable
  <2>3. Dispatching' = Dispatching /\ Dispatching \subseteq Publishers \ {p}
    BY <2>1 DEF Dispatching
  <2> QED  BY <2>1, <2>2, <2>3 DEF Outstanding
<1>3. ASSUME NEW p \in Publishers, RegisterAsync(p)
      PROVE  /\ ~closed /\ UNCHANGED <<closed, closer>>
             /\ Outstanding' = Outstanding \cup Queued(p)
             /\ Outstanding \cap Queued(p) = {}
             /\ wg' = wg + Cardinality(Queued(p))
  <2>1. ~closed /\ UNCHANGED <<closed, closer, running>> /\ wg' = wg + Cardinality(Queued(p))
    BY <1>3 DEF RegisterAsync, LockInv
  <2>2. \A r \in Publishers : Queued(r)' = Queued(r)
    BY <1>3, QueuedStable DEF RegisterAsync
  <2>3. Dispatching' = Dispatching \cup {p} /\ p \notin Dispatching /\ Dispatching \subseteq Publishers
    BY <1>3 DEF Dispatching, RegisterAsync, TypeOK
  <2>4. Outstanding' = Outstanding \cup Queued(p)
    BY <2>1, <2>2, <2>3 DEF Outstanding
  <2>5. ASSUME NEW t \in Queued(p), t \in Outstanding PROVE FALSE
    <3>1. t[1] = p /\ t[2] = calls[p]
      BY QueuedShape
    <3>2. CASE t \in running
      BY <1>3, <3>1, <3>2 DEF TokenInv, RegisterAsync
    <3>3. ASSUME NEW r \in Dispatching, t \in Queued(r) PROVE FALSE
      BY <2>3, <3>1, <3>3, QueuedShape
    <3> QED  BY <2>5, <3>2, <3>3 DEF Outstanding
  <2> QED  BY <2>1, <2>4, <2>5
<1>4. ASSUME NEW p \in Publishers, DispatchAsync(p)
      PROVE  Outstanding' = Outstanding /\ wg' = wg
  <2> DEFINE tok == <<p, calls[p], pos[p]>>
  <2>0. Len(targets[p]) \in Nat /\ DOMAIN targets[p] = 1 .. Len(targets[p]) /\ pos[p] \in Nat \ {0}
    BY LenProperties DEF TypeOK
  <2>1. /\ \A r \in Publishers \ {p} :
              targets'[r] = targets[r] /\ pos'[r] = pos[r] /\ calls'[r] = calls[r]
        /\ targets'[p] = targets[p] /\ pos'[p] = pos[p] + 1 /\ calls'[p] = calls[p]
        /\ UNCHANGED <<pc, heap, wg>> /\ running' = running \cup {tok}
    BY <1>4 DEF DispatchAsync, TypeOK
  <2>2. \A r \in Publishers \ {p} : Queued(r)' = Queued(r)
    BY <2>1, QueuedStable
  <2>3. tok \in Queued(p)
    BY <1>4, <2>0 DEF Queued, DispatchAsync, CurrentIsAsync
  <2>4. Queued(p)' = Queued(p) \ {tok}
    BY <2>0, <2>1 DEF Queued
  <2>5. Dispatching' = Dispatching /\ p \in Dispatching /\ Dispatching \subseteq Publishers
    BY <1>4, <2>1 DEF Dispatching, DispatchAsync
  <2> HIDE DEF tok
  <2> QED  BY <2>1, <2>2, <2>3, <2>4, <2>5 DEF Outstanding
<1>5. ASSUME NEW p \in Publishers, DispatchSync(p)
      PROVE  Outstanding' = Outstanding /\ wg' = wg
  <2>1. \A r \in Publishers : Queued(r)' = Queued(r)
    BY <1>5, QueuedStable DEF DispatchSync
  <2>2. Dispatching' = Dispatching /\ Dispatching \subseteq Publishers
    BY <1>5 DEF Dispatching, DispatchSync, TypeOK
  <2>3. UNCHANGED <<running, wg>>
    BY <1>5 DEF DispatchSync
  <2> QED  BY <2>1, <2>2, <2>3 DEF Outstanding
<1>6. ASSUME NEW p \in Publishers, HandlerReturn(p)
      PROVE  Outstanding' = Outstanding /\ wg' = wg
  <2>0. Len(targets[p]) \in Nat /\ DOMAIN targets[p] = 1 .. Len(targets[p]) /\ pos[p] \in Nat \ {0}
    BY LenProperties DEF TypeOK
  <2>1. /\ \A r \in Publishers \ {p} :
              targets'[r] = targets[r] /\ pos'[r] = pos[r] /\ calls'[r] = calls[r]
        /\ targets'[p] = targets[p] /\ pos'[p] = pos[p] + 1 /\ calls'[p] = calls[p]
        /\ UNCHANGED <<heap, wg, running>>
    BY <1>6 DEF HandlerReturn, TypeOK
  <2>2. \A r \in Publishers \ {p} : Queued(r)' = Queued(r)
    BY <2>1, QueuedStable
  <2>3. ~heap[targets[p][pos[p]]].async
    BY <1>6 DEF HandlerInv, HandlerReturn, CurrentIsAsync
  <2>4. \A j \in DOMAIN targets[p] : j >= pos[p] /\ heap[targets[p][j]].async => j >= pos[p] + 1
    BY <2>0, <2>3
  <2>5. \A j \in DOMAIN targets[p] : j >= pos[p] + 1 => j >= pos[p]
    BY <2>0
  <2>6. Queued(p)' = Queued(p)
    BY <2>1, <2>4, <2>5 DEF Queued
  <2>7. Dispatching' = Dispatching /\ Dispatching \subseteq Publishers
    BY <1>6 DEF Dispatching, HandlerReturn, TypeOK
  <2> QED  BY <2>1, <2>2, <2>6, <2>7 DEF Outstanding
<1>7. ASSUME NEW p \in Publishers, PublishReturn(p)
      PROVE  Outstanding' = Outstanding /\ wg' = wg
  <2>0. Len(targets[p]) \in Nat /\ DOMAIN targets[p] = 1 .. Len(targets[p]) /\ pos[p] \in Nat \ {0}
    BY LenProperties DEF TypeOK
  <2>1. \A r \in Publishers : Queued(r)' = Queued(r)
    BY <1>7, QueuedStable DEF PublishReturn
  <2>2. Queued(p) = {}
    BY <1>7, <2>0 DEF Queued, PublishReturn
  <2>3. Dispatching' = Dispatching \ {p} /\ Dispatching \subseteq Publishers
    BY <1>7 DEF Dispatching, PublishReturn, TypeOK
  <2>4. UNCHANGED <<running, wg>>
    BY <1>7 DEF PublishReturn
  <2> QED  BY <2>1, <2>2, <2>3, <2>4 DEF Outstanding
<1>8. ASSUME NEW t \in running, AsyncDone(t)
      PROVE  /\ UNCHANGED <<closed, closer>>
             /\ Outstanding' = Outstanding \ {t}
             /\ wg' = wg - 1
  <2>1. UNCHANGED <<closed, closer, targets, pos, calls, pc>> /\ wg' = wg - 1
        /\ running' = running \ {t}
    BY <1>8 DEF AsyncDone
  <2>2. \A r \in Publishers : Queued(r)' = Queued(r)
    BY <2>1, QueuedStable
  <2>3. Dispatching' = Dispatching /\ Dispatching \subseteq Publishers
    BY <2>1 DEF Dispatching
  <2>4. ASSUME NEW r \in Dispatching, t \in Queued(r) PROVE FALSE
    <3>1. t[1] = r /\ t[2] = calls[r] /\ t[3] \in Nat /\ pos[r] <= t[3]
      BY <2>3, <2>4, QueuedShape
    <3>2. t[3] < pos[r]
      BY <3>1 DEF TokenInv
    <3> QED  BY <2>3, <3>1, <3>2 DEF TypeOK
  <2> QED  BY <2>1, <2>2, <2>3, <2>4 DEF Outstanding
<1>9. \/ UNCHANGED <<targets, pos, calls, pc, running, wg>>
      \/ \E p \in Publishers :
            \/ PublishRefused(p)
            \/ \E name \in Names : PublishBegin(p, name)
            \/ \E q \in Patterns : CollectPattern(p, q)
      \/ \E p \in Publishers : RegisterAsync(p)
      \/ \E p \in Publishers : DispatchAsync(p) \/ DispatchSync(p) \/ HandlerReturn(p) \/ PublishReturn(p)
      \/ \E t \in running : AsyncDone(t)
  BY DEF Next, PublishStep, vars, Subscribe, SubscribeRefused, SubscribeWildcard,
         SubscribeWildcardRefused, unsubscribeFunc, unsubscribeWildcardFunc,
         CloseCall, CloseStep, CloseSet, CloseReturn
<1> QED  BY <1>1, <1>2, <1>3, <1>4, <1>5, <1>6, <1>7, <1>8, <1>9, Zenon

\* Every step keeps the WaitGroup exact and Close's promise: this is where
\* registering under the read lock is needed.
LEMMA DrainInvStep ==
    ASSUME IInv, [Next]_vars
    PROVE  DrainInv' /\ wg' \in Nat
<1> USE DEF registry, publishing
<1>0. /\ TypeOK /\ LockInv /\ AllocInv /\ TokenInv /\ HandlerInv
      /\ IsFiniteSet(Outstanding) /\ wg = Cardinality(Outstanding)
      /\ SomeCloseReturned => Outstanding = {}
  BY DEF IInv, DrainInv, WgCountsOutstanding, CloseQuiesces
<1>1. IsFiniteSet(Outstanding') /\ wg' = Cardinality(Outstanding')
  <2>1. CASE Outstanding' = Outstanding /\ wg' = wg
    BY <1>0, <2>1
  <2>2. ASSUME NEW p \in Publishers, Outstanding' = Outstanding \cup Queued(p),
               Outstanding \cap Queued(p) = {}, wg' = wg + Cardinality(Queued(p))
        PROVE  IsFiniteSet(Outstanding') /\ wg' = Cardinality(Outstanding')
    <3>1. IsFiniteSet(Queued(p))
      BY <1>0, QueuedFinite
    <3>2. /\ IsFiniteSet(Outstanding \cup Queued(p))
          /\ Cardinality(Outstanding \cup Queued(p)) =
               Cardinality(Outstanding) + Cardinality(Queued(p)) - Cardinality({})
      BY <1>0, <2>2, <3>1, FS_Union
    <3>3. Cardinality({}) = 0 /\ Cardinality(Outstanding) \in Nat /\ Cardinality(Queued(p)) \in Nat
      BY <1>0, <3>1, FS_EmptySet, FS_CardinalityType
    <3> QED  BY <1>0, <2>2, <3>2, <3>3
  <2>3. ASSUME NEW t \in running, Outstanding' = Outstanding \ {t}, wg' = wg - 1
        PROVE  IsFiniteSet(Outstanding') /\ wg' = Cardinality(Outstanding')
    <3>1. t \in Outstanding
      BY DEF Outstanding
    <3> QED  BY <1>0, <2>3, <3>1, FS_RemoveElement
  <2> QED  BY <1>0, <2>1, <2>2, <2>3, OutstandingStep
<1>2. SomeCloseReturned' => Outstanding' = {}
  <2>1. CASE SomeCloseReturned' /\ ~SomeCloseReturned
    <3>1. PICK c \in Closers : closer[c] # "done" /\ closer'[c] = "done"
      BY <2>1 DEF SomeCloseReturned
    <3>2. UNCHANGED closer \/ \E d \in Closers : CloseCall(d) \/ CloseStep(d)
      BY DEF Next, PublishStep, vars, Subscribe, SubscribeRefused, SubscribeWildcard,
         SubscribeWildcardRefused, unsubscribeFunc, unsubscribeWildcardFunc, PublishRefused,
         PublishBegin, CollectPattern, RegisterAsync, DispatchAsync, DispatchSync,
         HandlerReturn, PublishReturn, AsyncDone
    <3>3. CloseReturn(c)
      BY <1>0, <3>1, <3>2 DEF CloseCall, CloseStep, CloseSet, CloseReturn, TypeOK
    <3>4. wg = 0 /\ wg' = wg
      BY <3>3 DEF CloseReturn
    <3>5. Cardinality(Outstanding') = 0
      BY <1>1, <3>4
    <3> QED  BY <1>1, <3>5, FS_EmptySet
  <2>2. CASE SomeCloseReturned
    <3>1. closed /\ Outstanding = {}
      BY <1>0, <2>2 DEF SomeCloseReturned, LockInv
    <3> QED  BY <1>0, <3>1, OutstandingStep
  <2> QED  BY <2>1, <2>2
<1>3. wg' \in Nat
  BY <1>1, FS_CardinalityType
<1> QED  BY <1>1, <1>2, <1>3 DEF DrainInv, WgCountsOutstanding, CloseQuiesces

\* The inductive invariant holds initially.
LEMMA IInvInit == Init => IInv
<1> SUFFICES ASSUME Init PROVE IInv
  OBVIOUS
<1>1. TypeOK
  BY TypeOKInit
<1>2. LockInv /\ TokenInv /\ HandlerInv
  BY DEF Init, LockInv, TokenInv, HandlerInv
<1>3. AllocInv
  BY EmptySeq DEF Init, AllocInv
<1>4. Outstanding = {}
  BY DEF Init, Outstanding, Dispatching
<1>5. DrainInv
  BY <1>4, FS_EmptySet DEF Init, DrainInv, WgCountsOutstanding, CloseQuiesces
<1> QED  BY <1>1, <1>2, <1>3, <1>5 DEF IInv

\* The inductive invariant holds in every reachable state.
THEOREM Invariant == Spec => []IInv
<1>1. Init => IInv
  BY IInvInit
<1>2. IInv /\ [Next]_vars => IInv'
  <2> SUFFICES ASSUME IInv, [Next]_vars PROVE IInv'
    OBVIOUS
  <2>1. DrainInv' /\ wg' \in Nat
    BY DrainInvStep
  <2>2. TypeOK'
    BY <2>1, TypeOKStep DEF IInv
  <2>3. LockInv' /\ AllocInv' /\ TokenInv' /\ HandlerInv'
    BY LockInvStep, AllocInvStep, TokenInvStep, HandlerInvStep DEF IInv
  <2> QED  BY <2>1, <2>2, <2>3 DEF IInv
<1> QED  BY <1>1, <1>2, PTL DEF Spec

\* Every variable keeps its type, the WaitGroup counter in particular: it
\* never goes below zero, which would panic (bus.go 75-99).
THEOREM TypeCorrect == Spec => []TypeOK
<1>1. IInv => TypeOK
  BY DEF IInv
<1> QED  BY <1>1, Invariant, PTL

\* The WaitGroup counts the registered and unfinished async tasks, exactly.
THEOREM WgExact == Spec => []WgCountsOutstanding
<1>1. IInv => WgCountsOutstanding
  BY DEF IInv, DrainInv
<1> QED  BY <1>1, Invariant, PTL

\* A Close that has returned left no async handler running or still to start
\* (bus.go 225-232), whatever the number of publishers and closers.
THEOREM CloseLeavesNothing == Spec => []CloseQuiesces
<1>1. IInv => CloseQuiesces
  BY DEF IInv, DrainInv
<1> QED  BY <1>1, Invariant, PTL

\* No step adds to the WaitGroup once the bus is closed, so a Wait in Close is
\* never overtaken by an Add (bus.go 75-81 and 225-232).
THEOREM AddsBeforeClose == Spec => NoAddAfterClose
<1>1. ASSUME IInv, [Next]_vars
      PROVE  [wg' > wg => ~closed /\ \A c \in Closers : closer[c] # "wait"]_vars
  <2>1. IInv => TypeOK /\ LockInv /\ AllocInv /\ TokenInv /\ HandlerInv
    BY DEF IInv
  <2>2. wg' > wg => ~closed
    BY <1>1, <2>1, OutstandingStep DEF TypeOK
  <2> QED  BY <1>1, <2>1, <2>2 DEF LockInv
<1> QED  BY <1>1, Invariant, PTL DEF Spec, NoAddAfterClose

\* Outstanding tasks are work items of GracefulDrain.
LEMMA OutstandingType ==
    ASSUME IInv
    PROVE  Outstanding \in SUBSET (Publishers \X (0 .. MaxPublish) \X Nat)
<1>0. TypeOK /\ TokenInv
  BY DEF IInv
<1>1. ASSUME NEW t \in running PROVE t \in Publishers \X (0 .. MaxPublish) \X Nat
  <2>1. PICK p \in Publishers, n \in Nat, i \in Nat : t = <<p, n, i>>
    BY <1>0 DEF TypeOK
  <2>2. n <= calls[p]
    BY <1>0, <2>1 DEF TokenInv
  <2>3. n \in 0 .. MaxPublish
    BY <1>0, <2>2, BusAssumption DEF TypeOK
  <2> QED  BY <2>1, <2>3
<1>2. \A p \in Dispatching : \A t \in Queued(p) : t \in Publishers \X (0 .. MaxPublish) \X Nat
  BY <1>0, QueuedShape DEF Dispatching
<1> QED  BY <1>1, <1>2 DEF Outstanding

\* The bus implements GracefulDrain: every step of it is a step of the
\* abstract drain or changes neither its phase nor its work.
THEOREM BusDrains == Spec => ImplementsDrain
<1>1. Init => Drain!Init
  BY DEF Init, Drain!Init, DrainPhase, SomeCloseReturned, Outstanding, Dispatching
<1>2. ASSUME IInv, IInv', [Next]_vars
      PROVE  [Drain!Next]_<<DrainPhase, Outstanding>>
  <2>0. /\ TypeOK /\ LockInv /\ AllocInv /\ TokenInv /\ HandlerInv /\ TypeOK' /\ LockInv'
        /\ SomeCloseReturned' => Outstanding' = {}
    BY <1>2 DEF IInv, DrainInv, CloseQuiesces
  <2>1. \A p \in Publishers :
           Outstanding \cup Queued(p) \in SUBSET (Publishers \X (0 .. MaxPublish) \X Nat)
    BY <1>2, <2>0, OutstandingType, QueuedShape
  <2>2. CASE /\ Outstanding' = Outstanding /\ UNCHANGED <<closed, closer>>
    BY <2>2 DEF DrainPhase, SomeCloseReturned
  <2>3. ASSUME NEW p \in Publishers, ~closed, UNCHANGED <<closed, closer>>,
               Outstanding' = Outstanding \cup Queued(p)
        PROVE  Drain!Next
    <3>1. ~SomeCloseReturned
      BY <2>0, <2>3 DEF SomeCloseReturned, LockInv
    <3>2. DrainPhase = "open" /\ DrainPhase' = DrainPhase
      BY <2>3, <3>1 DEF DrainPhase, SomeCloseReturned
    <3> QED  BY <2>1, <2>3, <3>2 DEF Drain!Next, Drain!Accept
  <2>4. ASSUME NEW t \in running, UNCHANGED <<closed, closer>>, Outstanding' = Outstanding \ {t}
        PROVE  Drain!Next
    <3>1. t \in Outstanding /\ DrainPhase' = DrainPhase
      BY <2>4 DEF Outstanding, DrainPhase, SomeCloseReturned
    <3> QED  BY <2>4, <3>1 DEF Drain!Next, Drain!Finish
  <2>5. ASSUME NEW c \in Closers, CloseCall(c) \/ CloseStep(c)
        PROVE  [Drain!Next]_<<DrainPhase, Outstanding>>
    <3>1. Outstanding' = Outstanding
      <4>1. UNCHANGED <<running, pc, targets, pos, calls, heap>>
        BY <2>5 DEF CloseCall, CloseStep, CloseSet, CloseReturn, registry, publishing
      <4> QED  BY <4>1 DEF Outstanding, Dispatching, Queued
    <3>2. CASE CloseCall(c)
      <4>1. DrainPhase' = DrainPhase
        BY <2>0, <3>2 DEF CloseCall, DrainPhase, SomeCloseReturned, TypeOK
      <4> QED  BY <3>1, <4>1
    <3>3. CASE CloseSet(c)
      <4>1. closed' = TRUE /\ SomeCloseReturned' = SomeCloseReturned
        BY <2>0, <3>3 DEF CloseSet, SomeCloseReturned, TypeOK
      <4>2. CASE closed
        BY <3>1, <4>1, <4>2 DEF DrainPhase
      <4>3. CASE ~closed
        <5>1. ~SomeCloseReturned
          BY <2>0, <4>3 DEF SomeCloseReturned, LockInv
        <5>2. DrainPhase = "open" /\ DrainPhase' = "draining"
          BY <4>1, <4>3, <5>1 DEF DrainPhase
        <5> QED  BY <3>1, <5>2 DEF Drain!Next, Drain!BeginDrain
      <4> QED  BY <4>2, <4>3
    <3>4. CASE CloseReturn(c)
      <4>1. closed /\ closed' = closed /\ SomeCloseReturned'
        BY <2>0, <3>4 DEF CloseReturn, SomeCloseReturned, TypeOK, LockInv
      <4>2. Outstanding = {} /\ DrainPhase' = "drained"
        BY <2>0, <3>1, <4>1 DEF DrainPhase
      <4>3. DrainPhase \in {"draining", "drained"}
        BY <4>1 DEF DrainPhase
      <4> QED  BY <3>1, <4>2, <4>3 DEF Drain!Next, Drain!EndDrain
    <3> QED  BY <2>5, <3>2, <3>3, <3>4 DEF CloseStep
  <2>6. UNCHANGED <<closed, closer>> \/ \E c \in Closers : CloseCall(c) \/ CloseStep(c)
    BY <1>2 DEF Next, PublishStep, vars, registry, Subscribe, SubscribeRefused,
       SubscribeWildcard, SubscribeWildcardRefused, unsubscribeFunc, unsubscribeWildcardFunc,
       PublishRefused, PublishBegin, CollectPattern, RegisterAsync, DispatchAsync,
       DispatchSync, HandlerReturn, PublishReturn, AsyncDone
  <2> QED  BY <1>2, <2>0, <2>2, <2>3, <2>4, <2>5, <2>6, OutstandingStep
<1> QED  BY <1>1, <1>2, Invariant, PTL DEF Spec, ImplementsDrain, Drain!Spec

----------------------------------------------------------------------------
(* The lists, and what a Publish makes of them.                            *)

Elements(list) == {list[i] : i \in DOMAIN list}

\* The order of a list, by the priorities in h.
OrderedIn(list, h) ==
    \A i, j \in DOMAIN list : i < j =>
        \/ h[list[i]].priority > h[list[j]].priority
        \/ h[list[i]].priority = h[list[j]].priority /\ list[i] < list[j]

\* Who is subscribed under key k, by the structs in h.
Live(wildcard, k, h) ==
    {s \in SubIds : h[s].live = TRUE /\ h[s].wildcard = wildcard /\ h[s].key = k}

\* A list is in order and holds the subscribers of its key.
Sound(list, wildcard, k, h) == OrderedIn(list, h) /\ Elements(list) = Live(wildcard, k, h)

\* ListsOrdered, list by list.
AllSound ==
    /\ \A n \in Names : Sound(subscribers[n], FALSE, n, heap)
    /\ \A q \in Patterns : Sound(patterns[q], TRUE, q, heap)

Distinct(list) == \A i, j \in DOMAIN list : list[i] = list[j] => i = j

\* Under the read lock a Publish has what the patterns it is done with, and the exact
\* name, contribute to what it has to reach; nobody changes that meanwhile.
Collected(p) ==
    /\ \A s \in SubIds : s \in expected[p] <=> Reaches(s, event[p])
    /\ \A q \in todo[p] : matchPatternLocked(q, event[p])
    /\ Distinct(targets[p])
    /\ \A s \in SubIds : s \in Elements(targets[p]) <=>
          s \in expected[p] /\ (heap[s].wildcard = FALSE \/ heap[s].key \notin todo[p])

CollectInv == \A p \in Publishers : pc[p] = "collect" => Collected(p)

ListInv == ListsOrdered /\ CollectInv /\ SnapshotExact

\* An ordered list holds nobody twice.
LEMMA OrderedDistinct ==
    ASSUME NEW h, NEW list \in Seq(SubIds), OrderedIn(list, h),
           \A s \in SubIds : h[s].priority \in Nat
    PROVE  Distinct(list)
<1> SUFFICES ASSUME NEW i \in DOMAIN list, NEW j \in DOMAIN list, list[i] = list[j], i < j
             PROVE  FALSE
  <2>1. DOMAIN list \subseteq Nat
    BY LenProperties
  <2> QED  BY <2>1 DEF Distinct
<1>1. i \in 1 .. Len(list)
  BY LenProperties
<1>2. list[i] \in SubIds
  BY <1>1, ElementOfSeq
<1>3. list[i] \in Nat
  BY <1>2, BusAssumption DEF SubIds
<1>4. h[list[i]].priority \in Nat
  BY <1>2
<1> QED  BY <1>3, <1>4 DEF OrderedIn

\* The sorted insertion of a newcomer, whose id is larger than all in the list.
LEMMA InsertKeeps ==
    ASSUME NEW h, NEW s \in SubIds, NEW list \in Seq(SubIds), OrderedIn(list, h),
           \A i \in DOMAIN list : list[i] < s, \A r \in SubIds : h[r].priority \in Nat
    PROVE  /\ OrderedIn(StableInsert(list, s, h), h)
           /\ Elements(StableInsert(list, s, h)) = Elements(list) \cup {s}
<1> DEFINE new == StableInsert(list, s, h)
           P(i) == h[list[i]].priority
<1>1. Len(list) \in Nat /\ DOMAIN list = 1 .. Len(list)
  BY LenProperties
<1>2. \A i \in 1 .. Len(list) : list[i] \in SubIds /\ P(i) \in Nat
  BY <1>1, ElementOfSeq
<1>3. PICK k \in 1 .. Len(list) + 1 :
        /\ \A i \in 1 .. Len(list) + 1 :
              new[i] = IF i < k THEN list[i] ELSE IF i = k THEN s ELSE list[i - 1]
        /\ \A i \in 1 .. k - 1 : ~(P(i) < h[s].priority)
        /\ k <= Len(list) => P(k) < h[s].priority
  BY StableInsertShape
<1>4. new \in Seq(SubIds) /\ Len(new) = Len(list) + 1
  BY StableInsertShape
<1>5. DOMAIN new = 1 .. Len(list) + 1
  BY <1>4, LenProperties
<1> HIDE DEF new, P
<1>6. \A i, j \in 1 .. Len(list) : i < j =>
        P(i) > P(j) \/ (P(i) = P(j) /\ list[i] < list[j])
  BY <1>1 DEF OrderedIn, P
<1>7. ASSUME NEW i \in 1 .. Len(list) + 1, NEW j \in 1 .. Len(list) + 1, i < j
      PROVE  \/ h[new[i]].priority > h[new[j]].priority
             \/ h[new[i]].priority = h[new[j]].priority /\ new[i] < new[j]
  <2>0. h[s].priority \in Nat
    OBVIOUS
  <2>1. CASE j < k
    <3>1. new[i] = list[i] /\ new[j] = list[j] /\ i \in 1 .. Len(list) /\ j \in 1 .. Len(list)
      BY <1>1, <1>3, <1>7, <2>1
    <3> QED  BY <1>6, <1>7, <3>1 DEF P
  <2>2. CASE j = k
    <3>1. new[i] = list[i] /\ new[j] = s /\ i \in 1 .. Len(list) /\ i \in 1 .. k - 1
      BY <1>1, <1>3, <1>7, <2>2
    <3>2. ~(P(i) < h[s].priority) /\ P(i) \in Nat /\ list[i] < s
      BY <1>1, <1>2, <1>3, <3>1
    <3>3. P(i) > h[s].priority \/ P(i) = h[s].priority
      BY <2>0, <3>2
    <3> QED  BY <3>1, <3>2, <3>3 DEF P
  <2>3. CASE i < k /\ k < j
    <3>1. /\ new[i] = list[i] /\ new[j] = list[j - 1] /\ i \in 1 .. Len(list)
          /\ j - 1 \in 1 .. Len(list) /\ i < j - 1
      BY <1>1, <1>3, <1>7, <2>3
    <3> QED  BY <1>6, <3>1 DEF P
  <2>4. CASE i = k
    <3>1. /\ new[i] = s /\ new[j] = list[j - 1] /\ j - 1 \in 1 .. Len(list)
          /\ k \in 1 .. Len(list) /\ k <= j - 1
      BY <1>1, <1>3, <1>7, <2>4
    <3>2. P(k) < h[s].priority /\ P(k) \in Nat /\ P(j - 1) \in Nat
      BY <1>1, <1>2, <1>3, <3>1
    <3>3. P(k) >= P(j - 1)
      <4>1. k = j - 1 \/ k < j - 1
        BY <1>1, <3>1
      <4> QED  BY <1>6, <3>1, <3>2, <4>1
    <3>4. h[s].priority > P(j - 1)
      BY <2>0, <3>2, <3>3
    <3> QED  BY <3>1, <3>4 DEF P
  <2>5. CASE k < i
    <3>1. /\ i - 1 \in 1 .. Len(list) /\ j - 1 \in 1 .. Len(list) /\ i - 1 < j - 1
          /\ ~(i < k) /\ i # k /\ ~(j < k) /\ j # k
      BY <1>1, <1>7, <2>5
    <3>2. new[i] = list[i - 1] /\ new[j] = list[j - 1]
      BY <1>3, <3>1
    <3> QED  BY <1>6, <3>1, <3>2 DEF P
  <2>6. j < k \/ j = k \/ (i < k /\ k < j) \/ i = k \/ k < i
    BY <1>1, <1>3
  <2> QED  BY <2>1, <2>2, <2>3, <2>4, <2>5, <2>6
<1>8. OrderedIn(new, h)
  BY <1>5, <1>7 DEF OrderedIn
<1>9. Elements(new) = Elements(list) \cup {s}
  <2>1. ASSUME NEW i \in 1 .. Len(list) + 1 PROVE new[i] \in Elements(list) \cup {s}
    <3>1. CASE i < k
      <4>1. new[i] = list[i] /\ i \in DOMAIN list
        BY <1>1, <1>3, <3>1
      <4> QED  BY <4>1 DEF Elements
    <3>2. CASE i = k
      BY <1>3, <3>2
    <3>3. CASE i > k
      <4>1. new[i] = list[i - 1] /\ i - 1 \in DOMAIN list
        BY <1>1, <1>3, <3>3
      <4> QED  BY <4>1 DEF Elements
    <3> QED  BY <1>1, <3>1, <3>2, <3>3
  <2>2. ASSUME NEW i \in 1 .. Len(list) PROVE \E j \in 1 .. Len(list) + 1 : new[j] = list[i]
    <3>1. CASE i < k
      <4>1. new[i] = list[i] /\ i \in 1 .. Len(list) + 1
        BY <1>1, <1>3, <3>1
      <4> QED  BY <4>1
    <3>2. CASE ~(i < k)
      <4>1. i + 1 \in 1 .. Len(list) + 1 /\ ~(i + 1 < k) /\ i + 1 # k /\ i + 1 - 1 = i
        BY <1>1, <3>2
      <4>2. new[i + 1] = list[i]
        BY <1>3, <4>1
      <4> QED  BY <4>1, <4>2
    <3> QED  BY <3>1, <3>2
  <2>3. new[k] = s
    BY <1>1, <1>3
  <2> QED  BY <1>1, <1>5, <2>1, <2>2, <2>3 DEF Elements
<1> QED  BY <1>8, <1>9 DEF new

\* The removal keeps the order, and takes out s and nobody else.
LEMMA RemovalKeeps ==
    ASSUME NEW h, NEW s \in SubIds, NEW list \in Seq(SubIds), OrderedIn(list, h),
           \A r \in SubIds : h[r].priority \in Nat
    PROVE  /\ OrderedIn(Without(list, s), h)
           /\ Elements(Without(list, s)) = Elements(list) \ {s}
<1> DEFINE new == Without(list, s)
<1>1. Len(list) \in Nat /\ DOMAIN list = 1 .. Len(list)
  BY LenProperties
<1>2. new \in Seq(SubIds)
  BY WithoutShape
<1>3. \/ new = list /\ \A i \in DOMAIN list : list[i] # s
      \/ \E k \in 1 .. Len(list) :
            /\ list[k] = s
            /\ Len(new) = Len(list) - 1
            /\ \A i \in 1 .. Len(list) - 1 :
                  new[i] = IF i < k THEN list[i] ELSE list[i + 1]
  BY WithoutShape
<1> HIDE DEF new
<1>4. ASSUME new = list, \A i \in DOMAIN list : list[i] # s
      PROVE  OrderedIn(new, h) /\ Elements(new) = Elements(list) \ {s}
  BY <1>4 DEF Elements
<1>5. ASSUME NEW k \in 1 .. Len(list), list[k] = s, Len(new) = Len(list) - 1,
             \A i \in 1 .. Len(list) - 1 : new[i] = IF i < k THEN list[i] ELSE list[i + 1]
      PROVE  OrderedIn(new, h) /\ Elements(new) = Elements(list) \ {s}
  <2>1. DOMAIN new = 1 .. Len(list) - 1
    BY <1>2, <1>5, LenProperties
  \* The position in the old list of what is at i in the new one.
  <2> DEFINE old(i) == IF i < k THEN i ELSE i + 1
  <2>2. \A i \in 1 .. Len(list) - 1 :
          /\ old(i) \in 1 .. Len(list) /\ new[i] = list[old(i)] /\ old(i) # k
    BY <1>1, <1>5
  <2>3. \A i, j \in 1 .. Len(list) - 1 : i < j => old(i) < old(j)
    BY <1>1, <1>5
  <2>4. \A n \in 1 .. Len(list) : n # k => \E i \in 1 .. Len(list) - 1 : old(i) = n
    <3> SUFFICES ASSUME NEW n \in 1 .. Len(list), n # k
                 PROVE  \E i \in 1 .. Len(list) - 1 : old(i) = n
      OBVIOUS
    <3>1. CASE n < k
      <4>1. n \in 1 .. Len(list) - 1 /\ old(n) = n
        BY <1>1, <1>5, <3>1
      <4> QED  BY <4>1
    <3>2. CASE n > k
      <4>1. n - 1 \in 1 .. Len(list) - 1 /\ old(n - 1) = n
        BY <1>1, <1>5, <3>2
      <4> QED  BY <4>1
    <3> QED  BY <1>1, <3>1, <3>2
  <2>5. \A i, j \in DOMAIN list : list[i] = list[j] => i = j
    BY OrderedDistinct DEF Distinct
  <2> HIDE DEF old
  <2>6. OrderedIn(new, h)
    <3>1. ASSUME NEW i \in 1 .. Len(list) - 1, NEW j \in 1 .. Len(list) - 1, i < j
          PROVE  \/ h[new[i]].priority > h[new[j]].priority
                 \/ h[new[i]].priority = h[new[j]].priority /\ new[i] < new[j]
      BY <1>1, <2>2, <2>3, <3>1 DEF OrderedIn
    <3> QED  BY <2>1, <3>1 DEF OrderedIn
  <2>7. ASSUME NEW i \in 1 .. Len(list) - 1 PROVE new[i] \in Elements(list) /\ new[i] # s
    BY <1>1, <1>5, <2>2, <2>5 DEF Elements
  <2>8. ASSUME NEW n \in 1 .. Len(list), list[n] # s
        PROVE  \E i \in 1 .. Len(list) - 1 : new[i] = list[n]
    BY <1>5, <2>2, <2>4, <2>8
  <2>9. \A e : e \in Elements(new) <=> e \in Elements(list) \ {s}
    BY <1>1, <2>1, <2>7, <2>8 DEF Elements
  <2> QED  BY <2>6, <2>9
<1>6. OrderedIn(new, h) /\ Elements(new) = Elements(list) \ {s}
  BY <1>3, <1>4, <1>5
<1> QED  BY <1>6 DEF new

\* The two ways to say that the lists are right are the same.
LEMMA ListsAreSound == TypeOK => (ListsOrdered <=> AllSound)
<1> SUFFICES ASSUME TypeOK PROVE ListsOrdered <=> AllSound
  OBVIOUS
<1>1. \A s \in SubIds : heap[s].live \in BOOLEAN /\ heap[s].wildcard \in BOOLEAN
  BY DEF TypeOK, Subscribers
<1>2. \A k : /\ Live(FALSE, k, heap) =
                  {s \in SubIds : heap[s].live /\ ~heap[s].wildcard /\ heap[s].key = k}
             /\ Live(TRUE, k, heap) =
                  {s \in SubIds : heap[s].live /\ heap[s].wildcard /\ heap[s].key = k}
  BY <1>1 DEF Live
<1>3. \A list : Ordered(list) <=> OrderedIn(list, heap)
  BY DEF Ordered, OrderedIn
<1> QED  BY <1>2, <1>3, Zenon DEF ListsOrdered, AllSound, Sound, Elements

\* The priorities that lists are ordered by are numbers.
LEMMA PrioritiesNat ==
    ASSUME NEW h \in [SubIds -> Subscribers]
    PROVE  \A s \in SubIds : h[s].priority \in Nat
BY DEF Subscribers, Priorities, PriorityLow, PriorityNormal, PriorityHigh

\* A new subscription goes into the list of its key and changes no other.
LEMMA AllocateSound ==
    ASSUME TypeOK, NEW w \in BOOLEAN, NEW key \in Names \cup Patterns, NEW opts \in OptionLists,
           Allocate(w, key, opts), NEW list \in Seq(1 .. allocated),
           NEW wildcard \in BOOLEAN, NEW k, Sound(list, wildcard, k, heap)
    PROVE  /\ wildcard = w /\ k = key =>
                Sound(StableInsert(list, allocated + 1, heap'), wildcard, k, heap')
           /\ ~(wildcard = w /\ k = key) => Sound(list, wildcard, k, heap')
<1> DEFINE a == allocated + 1
<1>1. /\ a \in SubIds /\ heap' \in [SubIds -> Subscribers]
      /\ \A s \in SubIds : s <= allocated => heap'[s] = heap[s]
  BY AllocateType
<1>2. heap'[a].live = TRUE /\ heap'[a].wildcard = w /\ heap'[a].key = key
  <2> DEFINE opt == resolveOptions(opts)
             rec == [async |-> opt.async, priority |-> opt.priority, opts |-> opts,
                     wildcard |-> w, key |-> key, live |-> TRUE]
  <2>1. heap' = [heap EXCEPT ![a] = rec]
    BY DEF Allocate
  <2>2. rec.live = TRUE /\ rec.wildcard = w /\ rec.key = key
    OBVIOUS
  <2> HIDE DEF rec
  <2>3. heap'[a] = rec
    BY <1>1, <2>1 DEF TypeOK
  <2> QED  BY <2>2, <2>3
<1>3. \A s \in SubIds : s # a => heap'[s] = heap[s]
  BY DEF Allocate, TypeOK
<1>4. allocated \in Nat /\ 1 .. allocated \subseteq SubIds
  BY BusAssumption DEF TypeOK, SubIds
<1>5. list \in Seq(SubIds)
  BY <1>4, SeqMonotonic
<1>6. \A i \in DOMAIN list : list[i] \in 1 .. allocated
  BY LenProperties, ElementOfSeq
<1> HIDE DEF a
<1>7. \A i \in DOMAIN list : list[i] \in SubIds /\ list[i] # a /\ list[i] < a
  BY <1>4, <1>6 DEF a
<1>8. OrderedIn(list, heap')
  BY <1>3, <1>7 DEF OrderedIn, Sound
<1>9. a \notin Live(wildcard, k, heap)
  BY <1>7 DEF Sound, Elements
<1>10. CASE wildcard = w /\ k = key
  <2>1. /\ OrderedIn(StableInsert(list, a, heap'), heap')
        /\ Elements(StableInsert(list, a, heap')) = Elements(list) \cup {a}
    BY <1>1, <1>5, <1>7, <1>8, InsertKeeps, PrioritiesNat
  <2>2. Live(wildcard, k, heap') = Live(wildcard, k, heap) \cup {a}
    BY <1>1, <1>2, <1>3, <1>10 DEF Live
  <2> QED  BY <1>10, <2>1, <2>2 DEF Sound, a
<1>11. CASE ~(wildcard = w /\ k = key)
  <2>1. \A s : s \in Live(wildcard, k, heap') <=> s \in Live(wildcard, k, heap)
    <3>1. a \notin Live(wildcard, k, heap')
      BY <1>2, <1>11 DEF Live
    <3> QED  BY <1>3, <1>9, <3>1 DEF Live
  <2>2. Live(wildcard, k, heap') = Live(wildcard, k, heap)
    BY <2>1
  <2> QED  BY <1>8, <1>11, <2>2 DEF Sound
<1> QED  BY <1>10, <1>11

\* A cancel closure takes its subscriber out of the list of its key.
LEMMA CancelSound ==
    ASSUME TypeOK, NEW s \in SubIds, heap' = [heap EXCEPT ![s].live = FALSE],
           NEW list \in Seq(SubIds), NEW wildcard \in BOOLEAN, NEW k,
           Sound(list, wildcard, k, heap)
    PROVE  /\ Sound(Without(list, s), wildcard, k, heap')
           /\ ~(wildcard = heap[s].wildcard /\ k = heap[s].key) => Sound(list, wildcard, k, heap')
<1>1. /\ heap' \in [SubIds -> Subscribers]
      /\ \A r \in SubIds : /\ heap'[r].priority = heap[r].priority
                           /\ heap'[r].key = heap[r].key
                           /\ heap'[r].wildcard = heap[r].wildcard
                           /\ heap'[r].live = IF r = s THEN FALSE ELSE heap[r].live
  BY CancelType DEF TypeOK
<1>2. \A i \in DOMAIN list : list[i] \in SubIds
  BY LenProperties, ElementOfSeq
<1>3. OrderedIn(list, heap')
  BY <1>1, <1>2 DEF OrderedIn, Sound
<1>4. OrderedIn(Without(list, s), heap') /\ Elements(Without(list, s)) = Elements(list) \ {s}
  <2>1. \A r \in SubIds : heap'[r].priority \in Nat
    BY <1>1, PrioritiesNat
  <2> QED  BY <1>3, <2>1, RemovalKeeps
<1>5. \A r : r \in Live(wildcard, k, heap') <=> r \in Live(wildcard, k, heap) /\ r # s
  BY <1>1 DEF Live
<1>6. Live(wildcard, k, heap') = Live(wildcard, k, heap) \ {s}
  BY <1>5
<1>7. ~(wildcard = heap[s].wildcard /\ k = heap[s].key) => s \notin Live(wildcard, k, heap)
  BY DEF Live
<1> QED  BY <1>3, <1>4, <1>6, <1>7 DEF Sound

\* Every step keeps the lists in order, and what they hold exact.
LEMMA ListsOrderedStep ==
    TypeOK /\ TypeOK' /\ AllocInv /\ ListsOrdered /\ [Next]_vars => ListsOrdered'
<1> SUFFICES ASSUME TypeOK, TypeOK', AllocInv, ListsOrdered, [Next]_vars PROVE ListsOrdered'
  OBVIOUS
<1> USE DEF registry, publishing
<1>1. /\ \A n \in Names : Sound(subscribers[n], FALSE, n, heap)
      /\ \A q \in Patterns : Sound(patterns[q], TRUE, q, heap)
  BY ListsAreSound DEF AllSound
<1>2. /\ \A n \in Names : subscribers[n] \in Seq(1 .. allocated) /\ subscribers[n] \in Seq(SubIds)
      /\ \A q \in Patterns : patterns[q] \in Seq(1 .. allocated) /\ patterns[q] \in Seq(SubIds)
  BY DEF AllocInv, TypeOK
<1>3. ASSUME NEW name \in Names, NEW opts \in OptionLists, Subscribe(name, opts)
      PROVE  AllSound'
  <2>1. /\ \A n \in Names : subscribers'[n] =
             IF n = name THEN StableInsert(subscribers[n], allocated + 1, heap') ELSE subscribers[n]
        /\ patterns' = patterns /\ Allocate(FALSE, name, opts)
    BY <1>3 DEF Subscribe, TypeOK
  <2>2. ASSUME NEW n \in Names PROVE Sound(subscribers'[n], FALSE, n, heap')
    <3>1. CASE n = name
      <4>1. Sound(StableInsert(subscribers[n], allocated + 1, heap'), FALSE, n, heap')
        BY <1>1, <1>2, <2>1, <3>1, AllocateSound
      <4> QED  BY <2>1, <3>1, <4>1
    <3>2. CASE n # name
      <4>1. Sound(subscribers[n], FALSE, n, heap')
        BY <1>1, <1>2, <2>1, <3>2, AllocateSound
      <4> QED  BY <2>1, <3>2, <4>1
    <3> QED  BY <3>1, <3>2
  <2>3. ASSUME NEW q \in Patterns PROVE Sound(patterns'[q], TRUE, q, heap')
    <3>1. Sound(patterns[q], TRUE, q, heap')
      BY <1>1, <1>2, <2>1, AllocateSound
    <3> QED  BY <2>1, <3>1
  <2> QED  BY <2>2, <2>3 DEF AllSound
<1>4. ASSUME NEW q \in Patterns, NEW opts \in OptionLists, SubscribeWildcard(q, opts)
      PROVE  AllSound'
  <2>1. /\ \A r \in Patterns : patterns'[r] =
             IF r = q THEN StableInsert(patterns[r], allocated + 1, heap') ELSE patterns[r]
        /\ subscribers' = subscribers /\ Allocate(TRUE, q, opts)
    BY <1>4 DEF SubscribeWildcard, TypeOK
  <2>2. ASSUME NEW n \in Names PROVE Sound(subscribers'[n], FALSE, n, heap')
    <3>1. Sound(subscribers[n], FALSE, n, heap')
      BY <1>1, <1>2, <2>1, AllocateSound
    <3> QED  BY <2>1, <3>1
  <2>3. ASSUME NEW r \in Patterns PROVE Sound(patterns'[r], TRUE, r, heap')
    BY <1>1, <1>2, <2>1, AllocateSound
  <2> QED  BY <2>2, <2>3 DEF AllSound
<1>5. ASSUME NEW s \in SubIds, unsubscribeFunc(s) PROVE AllSound'
  <2>1. /\ \A n \in Names : subscribers'[n] =
             IF n = heap[s].key THEN Without(subscribers[n], s) ELSE subscribers[n]
        /\ patterns' = patterns /\ heap' = [heap EXCEPT ![s].live = FALSE]
    BY <1>5 DEF unsubscribeFunc, TypeOK
  <2>2. heap[s].wildcard = FALSE
    BY <1>5 DEF unsubscribeFunc, TypeOK, Subscribers
  <2>3. ASSUME NEW n \in Names PROVE Sound(subscribers'[n], FALSE, n, heap')
    BY <1>1, <1>2, <2>1, <2>2, CancelSound
  <2>4. ASSUME NEW q \in Patterns PROVE Sound(patterns'[q], TRUE, q, heap')
    <3>1. Sound(patterns[q], TRUE, q, heap')
      BY <1>1, <1>2, <2>1, <2>2, CancelSound
    <3> QED  BY <2>1, <3>1
  <2> QED  BY <2>3, <2>4 DEF AllSound
<1>6. ASSUME NEW s \in SubIds, unsubscribeWildcardFunc(s) PROVE AllSound'
  <2>1. /\ \A q \in Patterns : patterns'[q] =
             IF q = heap[s].key THEN Without(patterns[q], s) ELSE patterns[q]
        /\ subscribers' = subscribers /\ heap' = [heap EXCEPT ![s].live = FALSE]
    BY <1>6 DEF unsubscribeWildcardFunc, TypeOK
  <2>2. heap[s].wildcard = TRUE
    BY <1>6 DEF unsubscribeWildcardFunc, TypeOK, Subscribers
  <2>3. ASSUME NEW n \in Names PROVE Sound(subscribers'[n], FALSE, n, heap')
    <3>1. Sound(subscribers[n], FALSE, n, heap')
      BY <1>1, <1>2, <2>1, <2>2, CancelSound
    <3> QED  BY <2>1, <3>1
  <2>4. ASSUME NEW q \in Patterns PROVE Sound(patterns'[q], TRUE, q, heap')
    BY <1>1, <1>2, <2>1, <2>2, CancelSound
  <2> QED  BY <2>3, <2>4 DEF AllSound
<1>7. ASSUME UNCHANGED <<subscribers, patterns, heap>> PROVE AllSound'
  BY <1>1, <1>7 DEF AllSound
<1>8. AllSound'
  BY <1>3, <1>4, <1>5, <1>6, <1>7
  DEF Next, PublishStep, vars, SubscribeRefused, SubscribeWildcardRefused, PublishRefused,
      PublishBegin, CollectPattern, RegisterAsync, DispatchAsync, DispatchSync, HandlerReturn,
      PublishReturn, AsyncDone, CloseCall, CloseStep, CloseSet, CloseReturn
<1>9. TypeOK' => (ListsOrdered' <=> AllSound')
  BY ListsAreSound, PTL
<1> QED  BY <1>8, <1>9

\* Two lists that share nobody, one after the other.
LEMMA Joined ==
    ASSUME NEW a \in Seq(SubIds), NEW b \in Seq(SubIds), Distinct(a), Distinct(b),
           Elements(a) \cap Elements(b) = {}
    PROVE  /\ a \o b \in Seq(SubIds) /\ Distinct(a \o b)
           /\ Elements(a \o b) = Elements(a) \cup Elements(b)
<1> DEFINE c == a \o b
<1>1. /\ Len(a) \in Nat /\ DOMAIN a = 1 .. Len(a)
      /\ Len(b) \in Nat /\ DOMAIN b = 1 .. Len(b)
  BY LenProperties
<1>2. /\ c \in Seq(SubIds) /\ Len(c) = Len(a) + Len(b)
      /\ \A i \in 1 .. Len(a) + Len(b) : c[i] = IF i <= Len(a) THEN a[i] ELSE b[i - Len(a)]
  BY ConcatProperties
<1>3. DOMAIN c = 1 .. Len(a) + Len(b)
  BY <1>2, LenProperties
<1> HIDE DEF c
<1>4. ASSUME NEW i \in 1 .. Len(a) + Len(b)
      PROVE  \/ i \in 1 .. Len(a) /\ c[i] = a[i] /\ c[i] \in Elements(a)
             \/ i - Len(a) \in 1 .. Len(b) /\ c[i] = b[i - Len(a)] /\ c[i] \in Elements(b)
  <2>1. CASE i <= Len(a)
    <3>1. i \in 1 .. Len(a) /\ c[i] = a[i]
      BY <1>1, <1>2, <2>1
    <3> QED  BY <1>1, <3>1 DEF Elements
  <2>2. CASE ~(i <= Len(a))
    <3>1. i - Len(a) \in 1 .. Len(b) /\ c[i] = b[i - Len(a)]
      BY <1>1, <1>2, <2>2
    <3> QED  BY <1>1, <3>1 DEF Elements
  <2> QED  BY <2>1, <2>2
<1>5. ASSUME NEW i \in 1 .. Len(a) + Len(b), NEW j \in 1 .. Len(a) + Len(b), c[i] = c[j]
      PROVE  i = j
  <2>1. CASE i \in 1 .. Len(a) /\ c[i] = a[i] /\ c[i] \in Elements(a)
    <3>1. c[j] \notin Elements(b)
      BY <1>5, <2>1
    <3>2. j \in 1 .. Len(a) /\ c[j] = a[j]
      BY <1>4, <3>1
    <3> QED  BY <1>1, <1>5, <2>1, <3>2 DEF Distinct
  <2>2. CASE i - Len(a) \in 1 .. Len(b) /\ c[i] = b[i - Len(a)] /\ c[i] \in Elements(b)
    <3>1. c[j] \notin Elements(a)
      BY <1>5, <2>2
    <3>2. j - Len(a) \in 1 .. Len(b) /\ c[j] = b[j - Len(a)]
      BY <1>4, <3>1
    <3>3. i - Len(a) = j - Len(a)
      BY <1>1, <1>5, <2>2, <3>2 DEF Distinct
    <3> QED  BY <1>1, <3>3
  <2> QED  BY <1>4, <2>1, <2>2
<1>6. Distinct(c)
  BY <1>3, <1>5 DEF Distinct
<1>7. ASSUME NEW i \in 1 .. Len(a) PROVE a[i] \in Elements(c)
  <2>1. i \in DOMAIN c /\ c[i] = a[i]
    BY <1>1, <1>2, <1>3
  <2> QED  BY <2>1 DEF Elements
<1>8. ASSUME NEW i \in 1 .. Len(b) PROVE b[i] \in Elements(c)
  <2>1. i + Len(a) \in DOMAIN c /\ ~(i + Len(a) <= Len(a)) /\ i + Len(a) - Len(a) = i
    BY <1>1, <1>3
  <2>2. c[i + Len(a)] = b[i]
    BY <1>2, <1>3, <2>1
  <2> QED  BY <2>1, <2>2 DEF Elements
<1>9. \A e : e \in Elements(c) <=> e \in Elements(a) \cup Elements(b)
  <2>1. \A e \in Elements(c) : e \in Elements(a) \cup Elements(b)
    BY <1>3, <1>4 DEF Elements
  <2>2. \A e \in Elements(a) : e \in Elements(c)
    BY <1>1, <1>7 DEF Elements
  <2>3. \A e \in Elements(b) : e \in Elements(c)
    BY <1>1, <1>8 DEF Elements
  <2> QED  BY <2>1, <2>2, <2>3
<1> QED  BY <1>2, <1>6, <1>9 DEF c

\* Whom an event reaches, in terms of the lists.
LEMMA ReachesLive ==
    ASSUME TypeOK, NEW s \in SubIds, NEW name \in Names
    PROVE  Reaches(s, name) <=> \/ s \in Live(FALSE, name, heap)
                                \/ \E q \in Patterns : /\ matchPatternLocked(q, name)
                                                       /\ s \in Live(TRUE, q, heap)
<1>1. heap[s].live \in BOOLEAN /\ heap[s].wildcard \in BOOLEAN
  BY DEF TypeOK, Subscribers
<1>2. matchPatternLocked(heap[s].key, name) => heap[s].key \in Patterns
  BY BusAssumption DEF matchPatternLocked
<1>3. CASE heap[s].wildcard = TRUE
  BY <1>1, <1>2, <1>3 DEF Reaches, Live
<1>4. CASE heap[s].wildcard = FALSE
  BY <1>1, <1>4 DEF Reaches, Live
<1> QED  BY <1>1, <1>3, <1>4

\* The copy of the exact-name list is where a collection starts.
LEMMA BeginCollects ==
    ASSUME TypeOK, TypeOK', AllSound, NEW p \in Publishers, NEW name \in Names,
           PublishBegin(p, name)
    PROVE  Collected(p)'
<1>1. /\ heap' = heap /\ event'[p] = name /\ targets'[p] = subscribers[name]
      /\ todo'[p] = {q \in Patterns : matchPatternLocked(q, name)}
      /\ expected'[p] = {s \in SubIds : Reaches(s, name)}
  BY DEF PublishBegin, TypeOK, registry
<1>2. Sound(subscribers[name], FALSE, name, heap) /\ subscribers[name] \in Seq(SubIds)
  BY DEF AllSound, TypeOK
<1>3. Distinct(subscribers[name])
  <2>1. \A s \in SubIds : heap[s].priority \in Nat
    BY PrioritiesNat DEF TypeOK
  <2> QED  BY <1>2, <2>1, OrderedDistinct DEF Sound
<1>4. \A s \in SubIds : Reaches(s, name)' <=> Reaches(s, name)
  BY <1>1 DEF Reaches
<1>5. ASSUME NEW s \in SubIds
      PROVE  s \in Elements(subscribers[name]) <=>
               /\ Reaches(s, name)
               /\ heap[s].wildcard = FALSE \/ heap[s].key \notin todo'[p]
  <2>1. s \in Elements(subscribers[name]) <=> s \in Live(FALSE, name, heap)
    BY <1>2 DEF Sound
  <2>2. s \in Live(FALSE, name, heap) => heap[s].wildcard = FALSE
    BY DEF Live
  <2>3. ASSUME NEW q \in Patterns, matchPatternLocked(q, name), s \in Live(TRUE, q, heap)
        PROVE  heap[s].wildcard = TRUE /\ heap[s].key \in todo'[p]
    BY <1>1, <2>3 DEF Live
  <2> QED  BY <2>1, <2>2, <2>3, ReachesLive
<1>6. \A s \in SubIds : s \in expected'[p] <=> Reaches(s, event[p])'
  BY <1>1, <1>4 DEF Reaches
<1>7. \A q \in todo'[p] : matchPatternLocked(q, event'[p])
  BY <1>1
<1>8. \A s \in SubIds : s \in Elements(targets'[p]) <=>
          s \in expected'[p] /\ (heap'[s].wildcard = FALSE \/ heap'[s].key \notin todo'[p])
  BY <1>1, <1>5
<1> QED  BY <1>1, <1>3, <1>6, <1>7, <1>8 DEF Collected, Reaches

\* A turn of the loop adds the subscribers of its pattern, none of which it had.
LEMMA PatternCollects ==
    ASSUME TypeOK, AllSound, NEW p \in Publishers, NEW q \in Patterns, Collected(p),
           CollectPattern(p, q)
    PROVE  Collected(p)'
<1> DEFINE had == targets[p]
           more == patterns[q]
<1>1. /\ heap' = heap /\ event' = event /\ expected' = expected /\ q \in todo[p]
      /\ targets'[p] = had \o more /\ todo'[p] = todo[p] \ {q}
  BY DEF CollectPattern, TypeOK, registry
<1>2. Sound(more, TRUE, q, heap) /\ more \in Seq(SubIds) /\ had \in Seq(SubIds)
  BY DEF AllSound, TypeOK
<1>3. Distinct(more) /\ Distinct(had)
  <2>1. \A s \in SubIds : heap[s].priority \in Nat
    BY PrioritiesNat DEF TypeOK
  <2> QED  BY <1>2, <2>1, OrderedDistinct DEF Sound, Collected
<1> HIDE DEF had, more
<1>4. \A s \in SubIds : s \in Elements(had) <=>
          s \in expected[p] /\ (heap[s].wildcard = FALSE \/ heap[s].key \notin todo[p])
  BY DEF Collected, had
<1>5. \A s : s \in Elements(more) <=>
          s \in SubIds /\ heap[s].live = TRUE /\ heap[s].wildcard = TRUE /\ heap[s].key = q
  BY <1>2 DEF Sound, Live
<1>6. Elements(had) \cap Elements(more) = {}
  BY <1>1, <1>4, <1>5
<1>7. Distinct(had \o more) /\ Elements(had \o more) = Elements(had) \cup Elements(more)
  BY <1>2, <1>3, <1>6, Joined
<1>8. \A s \in SubIds : heap[s].live \in BOOLEAN /\ heap[s].wildcard \in BOOLEAN
  BY DEF TypeOK, Subscribers
<1>9. \A s \in SubIds : s \in expected[p] <=> Reaches(s, event[p])
  BY DEF Collected
<1>10. matchPatternLocked(q, event[p])
  BY <1>1 DEF Collected
<1>11. ASSUME NEW s \in SubIds
       PROVE  s \in Elements(had) \cup Elements(more) <=>
                s \in expected[p] /\ (heap[s].wildcard = FALSE \/ heap[s].key \notin todo[p] \ {q})
  <2>1. s \in Elements(more) => s \in expected[p]
    BY <1>5, <1>8, <1>9, <1>10 DEF Reaches
  <2>2. s \in expected[p] => heap[s].live = TRUE
    BY <1>8, <1>9 DEF Reaches
  <2> QED  BY <1>4, <1>5, <1>8, <2>1, <2>2
<1>12. \A s \in SubIds : s \in expected'[p] <=> Reaches(s, event[p])'
  BY <1>1, <1>9 DEF Reaches
<1>13. \A r \in todo'[p] : matchPatternLocked(r, event'[p])
  BY <1>1 DEF Collected
<1>14. \A s \in SubIds : s \in Elements(targets'[p]) <=>
          s \in expected'[p] /\ (heap'[s].wildcard = FALSE \/ heap'[s].key \notin todo'[p])
  BY <1>1, <1>7, <1>11
<1> QED  BY <1>1, <1>7, <1>12, <1>13, <1>14 DEF Collected, Reaches

\* Every step keeps what a Publish collects, and has collected, exact.
LEMMA CollectStep ==
    TypeOK /\ TypeOK' /\ LockInv /\ ListInv /\ [Next]_vars => CollectInv' /\ SnapshotExact'
<1> SUFFICES ASSUME TypeOK, TypeOK', LockInv, ListInv, [Next]_vars
             PROVE  CollectInv' /\ SnapshotExact'
  OBVIOUS
<1> USE DEF registry, publishing
<1>1. AllSound /\ CollectInv /\ SnapshotExact
  BY ListsAreSound DEF ListInv
\* A snapshot is exact as long as nobody but its publisher touches it.
<1>2. ASSUME NEW r \in Publishers, r \in Dispatching,
             targets'[r] = targets[r], expected'[r] = expected[r]
      PROVE  Distinct(targets'[r]) /\ Elements(targets'[r]) = expected'[r]
  BY <1>1, <1>2 DEF SnapshotExact, Distinct, Elements
<1>3. ASSUME \A r \in Dispatching' : Distinct(targets'[r]) /\ Elements(targets'[r]) = expected'[r]
      PROVE  SnapshotExact'
  BY <1>3 DEF SnapshotExact, Distinct, Elements
\* A collection under way keeps its meaning: writers wait for the lock.
<1>4. ASSUME NEW r \in Publishers, Collected(r), heap' = heap, event'[r] = event[r],
             targets'[r] = targets[r], expected'[r] = expected[r], todo'[r] = todo[r]
      PROVE  Collected(r)'
  BY <1>4 DEF Collected, Reaches
<1>5. ASSUME readers = {}, UNCHANGED <<pc, targets, expected>>
      PROVE  CollectInv' /\ SnapshotExact'
  <2>1. \A r \in Publishers : pc[r] # "collect"
    BY <1>5 DEF LockInv
  <2>2. Dispatching' = Dispatching
    BY <1>5 DEF Dispatching
  <2>3. SnapshotExact'
    BY <1>2, <1>3, <1>5, <2>2 DEF Dispatching
  <2> QED  BY <1>5, <2>1, <2>3 DEF CollectInv
<1>6. ASSUME NEW p \in Publishers, NEW name \in Names, PublishBegin(p, name)
      PROVE  CollectInv' /\ SnapshotExact'
  <2>1. /\ heap' = heap
        /\ \A r \in Publishers : r # p =>
             /\ pc'[r] = pc[r] /\ event'[r] = event[r] /\ targets'[r] = targets[r]
             /\ expected'[r] = expected[r] /\ todo'[r] = todo[r]
        /\ pc'[p] = "collect"
    BY <1>6 DEF PublishBegin, TypeOK
  <2>2. CollectInv'
    BY <1>1, <1>4, <1>6, <2>1, BeginCollects DEF CollectInv
  <2>3. SnapshotExact'
    BY <1>2, <1>3, <2>1 DEF Dispatching
  <2> QED  BY <2>2, <2>3
<1>7. ASSUME NEW p \in Publishers, NEW q \in Patterns, CollectPattern(p, q)
      PROVE  CollectInv' /\ SnapshotExact'
  <2>1. /\ heap' = heap /\ pc' = pc /\ event' = event /\ expected' = expected /\ pc[p] = "collect"
        /\ \A r \in Publishers : r # p => targets'[r] = targets[r] /\ todo'[r] = todo[r]
    BY <1>7 DEF CollectPattern, TypeOK
  <2>2. Collected(p)'
    BY <1>1, <1>7, <2>1, PatternCollects DEF CollectInv
  <2>3. CollectInv'
    BY <1>1, <1>4, <2>1, <2>2 DEF CollectInv
  <2>4. SnapshotExact'
    BY <1>2, <1>3, <2>1 DEF Dispatching
  <2> QED  BY <2>3, <2>4
<1>8. ASSUME NEW p \in Publishers, RegisterAsync(p)
      PROVE  CollectInv' /\ SnapshotExact'
  <2>1. /\ UNCHANGED <<heap, event, targets, todo, expected>>
        /\ pc[p] = "collect" /\ todo[p] = {} /\ pc'[p] = "dispatch"
        /\ \A r \in Publishers : r # p => pc'[r] = pc[r]
    BY <1>8 DEF RegisterAsync, TypeOK
  <2>2. CollectInv'
    BY <1>1, <1>4, <2>1 DEF CollectInv
  <2>3. Collected(p)
    BY <1>1, <2>1 DEF CollectInv
  <2>4. Elements(targets[p]) = expected[p]
    <3>1. Elements(targets[p]) \subseteq SubIds
      <4>1. \A i \in DOMAIN targets[p] : targets[p][i] \in SubIds
        BY LenProperties, ElementOfSeq DEF TypeOK
      <4> QED  BY <4>1 DEF Elements
    <3>2. expected[p] \subseteq SubIds
      BY DEF TypeOK
    <3>3. \A s \in SubIds : s \in Elements(targets[p]) <=> s \in expected[p]
      BY <2>1, <2>3 DEF Collected
    <3> QED  BY <3>1, <3>2, <3>3
  <2>5. Distinct(targets[p])
    BY <2>3 DEF Collected
  <2>6. SnapshotExact'
    BY <1>2, <1>3, <2>1, <2>4, <2>5 DEF Dispatching
  <2> QED  BY <2>2, <2>6
<1>9. ASSUME UNCHANGED <<heap, event, targets, todo, expected>>,
             \A r \in Publishers : \/ pc'[r] = pc[r]
                                   \/ pc'[r] = "idle"
                                   \/ pc'[r] \in {"dispatch", "handler"} /\ r \in Dispatching
      PROVE  CollectInv' /\ SnapshotExact'
  <2>1. CollectInv'
    BY <1>1, <1>4, <1>9 DEF CollectInv
  <2>2. SnapshotExact'
    BY <1>2, <1>3, <1>9 DEF Dispatching
  <2> QED  BY <2>1, <2>2
<1>10. ASSUME NEW p \in Publishers,
              DispatchAsync(p) \/ DispatchSync(p) \/ HandlerReturn(p) \/ PublishReturn(p)
       PROVE  CollectInv' /\ SnapshotExact'
  BY <1>9, <1>10
  DEF DispatchAsync, DispatchSync, HandlerReturn, PublishReturn, TypeOK, Dispatching
<1>11. ASSUME UNCHANGED <<heap, event, targets, todo, expected, pc>>
       PROVE  CollectInv' /\ SnapshotExact'
  BY <1>9, <1>11
<1> QED
  BY <1>5, <1>6, <1>7, <1>8, <1>10, <1>11
  DEF Next, PublishStep, vars, WriteLocked, Subscribe, SubscribeRefused, SubscribeWildcard,
      SubscribeWildcardRefused, unsubscribeFunc, unsubscribeWildcardFunc, PublishRefused,
      AsyncDone, CloseCall, CloseStep, CloseSet, CloseReturn

\* The lists and the collections are exact in every reachable state.
THEOREM ListInvariant == Spec => []ListInv
<1>1. Init => ListInv
  <2> SUFFICES ASSUME Init PROVE ListInv
    OBVIOUS
  <2>1. TypeOK
    BY TypeOKInit
  <2>2. \A s \in SubIds : heap[s].live = FALSE
    BY DEF Init, Unallocated
  <2>3. \A w, k : Live(w, k, heap) = {}
    BY <2>2 DEF Live
  <2>4. \A w, k : Sound(<<>>, w, k, heap)
    BY <2>3 DEF Sound, OrderedIn, Elements
  <2>5. AllSound
    BY <2>4 DEF AllSound, Init
  <2>6. CollectInv /\ SnapshotExact
    BY DEF Init, CollectInv, SnapshotExact, Dispatching
  <2> QED  BY <2>1, <2>5, <2>6, ListsAreSound DEF ListInv
<1>2. IInv /\ IInv' /\ ListInv /\ [Next]_vars => ListInv'
  <2> SUFFICES ASSUME IInv, IInv', ListInv, [Next]_vars PROVE ListInv'
    OBVIOUS
  <2>1. TypeOK /\ TypeOK' /\ AllocInv /\ LockInv
    BY DEF IInv
  <2>2. ListsOrdered'
    BY <2>1, ListsOrderedStep DEF ListInv
  <2>3. CollectInv' /\ SnapshotExact'
    BY <2>1, CollectStep
  <2> QED  BY <2>2, <2>3 DEF ListInv
<1> QED  BY <1>1, <1>2, Invariant, PTL DEF Spec

\* After any history of subscriptions and cancellations, for any number of names,
\* patterns and subscribers, every list is in priority order, stable among equals, and
\* holds exactly those who did not cancel (bus.go 145-149, 159-165, 190-194, 204-210).
THEOREM ListsInOrder == Spec => []ListsOrdered
<1>1. ListInv => ListsOrdered
  BY DEF ListInv
<1> QED  BY <1>1, ListInvariant, PTL

\* A Publish past the lock calls each subscriber that matched its event when it took the
\* lock once, and nobody else, whoever subscribes, cancels or closes (bus.go 60-86).
THEOREM SnapshotIsExact == Spec => []SnapshotExact
<1>1. ListInv => SnapshotExact
  BY DEF ListInv
<1> QED  BY <1>1, ListInvariant, PTL
==============================================================================
