------------------------- MODULE SharedQueueProofs -------------------------
(***************************************************************************)
(* Proofs about SharedQueue for any number of producers and objects: the   *)
(* queue never loses or damages a published object, and it implements the  *)
(* FIFO of FifoQueue.                                                      *)
(*                                                                         *)
(* The inductive invariant describes where every object is (the sequence   *)
(* fifo, a producer's hands, the consumer's hands or the pool), which of   *)
(* the links along fifo are in place, and what the consumer may hold at    *)
(* each point of dequeue().                                                *)
(***************************************************************************)
EXTENDS SharedQueue, TLAPS

\* Every object is in at most one place.
Ownership ==
    /\ \A i, j \in 1..Len(fifo) : fifo[i] = fifo[j] => i = j
    /\ \A i \in 1..Len(fifo) : fifo[i] \notin free /\ fifo[i] # ret
    /\ ret \notin free
    /\ \A p \in Producer : pc[p] = "swap" =>
          /\ obj[p] \in Obj
          /\ obj[p] \notin free
          /\ obj[p] # ret
          /\ next[obj[p]] = NULL
          /\ \A i \in 1..Len(fifo) : fifo[i] # obj[p]
          /\ \A q \in Producer : pc[q] = "swap" /\ obj[q] = obj[p] => q = p

\* tail is the youngest object, and next goes from an object to the one that
\* was swapped in after it, or is not set yet.
Links ==
    /\ tail = IF Len(fifo) = 0 THEN NULL ELSE fifo[Len(fifo)]
    /\ \A i \in 1..Len(fifo) :
          next[fifo[i]] # NULL => i < Len(fifo) /\ next[fifo[i]] = fifo[i + 1]

\* A producer between its two accesses: the object is in fifo, and the place
\* where the producer will publish it is empty.
Linking ==
    \A p \in Producer : pc[p] = "link" =>
        \E i \in 1..Len(fifo) :
            /\ fifo[i] = obj[p]
            /\ off_prev[p] = IF i = 1 THEN NULL ELSE fifo[i - 1]
            /\ i = 1 => head = NULL /\ shadow_head = NULL /\ cpc = "idle"
            /\ i > 1 => next[fifo[i - 1]] = NULL

\* A link is made once.
OneLinker ==
    \A p, q \in Producer :
        pc[p] = "link" /\ pc[q] = "link" /\ obj[p] = obj[q] => p = q

\* What the consumer holds at each point of dequeue().
Consumer ==
    /\ head # NULL => Len(fifo) > 0 /\ head = fifo[1]
    /\ shadow_head # NULL /\ cpc # "clearnext" =>
          Len(fifo) > 0 /\ shadow_head = fifo[1]
    /\ head # NULL /\ shadow_head # NULL => cpc = "clearhead"
    /\ cpc # "idle" => Len(fifo) > 0 /\ ret = NULL
    /\ cpc # "idle" /\ cpc # "clearhead" => cobj = fifo[1] /\ head = NULL
    /\ cpc = "clearhead" => shadow_head # NULL
    /\ cpc = "next" => shadow_head # NULL
    /\ cpc \in {"cas", "spin"} => shadow_head = NULL
    /\ cpc = "spin" => Len(fifo) > 1
    /\ cpc = "clearnext" =>
          Len(fifo) > 1 /\ shadow_head = fifo[2] /\ next[fifo[1]] = fifo[2]

IInv == TypeOK /\ Ownership /\ Links /\ Linking /\ OneLinker /\ Consumer

-----------------------------------------------------------------------------
\* Facts about Append and Tail, by index.
LEMMA AppendFacts ==
    ASSUME NEW S, NEW s \in Seq(S), NEW x \in S
    PROVE  /\ Append(s, x) \in Seq(S)
           /\ Len(Append(s, x)) = Len(s) + 1
           /\ \A i \in 1..Len(s) : Append(s, x)[i] = s[i]
           /\ Append(s, x)[Len(s) + 1] = x
  OBVIOUS

LEMMA TailFacts ==
    ASSUME NEW S, NEW s \in Seq(S), Len(s) > 0
    PROVE  /\ Tail(s) \in Seq(S)
           /\ Len(Tail(s)) = Len(s) - 1
           /\ \A i \in 1..(Len(s) - 1) : Tail(s)[i] = s[i + 1]
           /\ s # <<>>
           /\ Head(s) = s[1]
  OBVIOUS

LEMMA InitInv == Init => IInv
  BY NullAssumption DEF Init, queue_init, IInv, TypeOK, Ownership, Links,
     Linking, OneLinker, Consumer

LEMMA shmem_enqueueInv ==
    ASSUME IInv, NEW p \in Producer, NEW o \in Obj, shmem_enqueue(p, o)
    PROVE  IInv'
<1>1. TypeOK'
  BY NullAssumption DEF IInv, TypeOK, shmem_enqueue, consumerVars, producerVars
<1>2. Ownership'
  BY NullAssumption DEF IInv, TypeOK, Ownership, shmem_enqueue, consumerVars,
     producerVars
<1>3. Links'
  BY NullAssumption DEF IInv, TypeOK, Ownership, Links, shmem_enqueue,
     consumerVars, producerVars
<1>4. Linking'
  BY NullAssumption DEF IInv, TypeOK, Ownership, Linking, shmem_enqueue,
     consumerVars, producerVars
<1>5. OneLinker'
  BY NullAssumption DEF IInv, OneLinker, shmem_enqueue, consumerVars, producerVars
<1>6. Consumer'
  BY NullAssumption DEF IInv, TypeOK, Ownership, Links, Consumer, shmem_enqueue,
     consumerVars, producerVars
<1> QED  BY <1>1, <1>2, <1>3, <1>4, <1>5, <1>6 DEF IInv

LEMMA SwapTailInv ==
    ASSUME IInv, NEW p \in Producer, SwapTail(p)
    PROVE  IInv'
<1>a. fifo \in Seq(Obj) /\ obj[p] \in Obj
  BY DEF IInv, TypeOK, Ownership, SwapTail
<1>b. /\ fifo' \in Seq(Obj)
      /\ Len(fifo') = Len(fifo) + 1
      /\ \A i \in 1..Len(fifo) : fifo'[i] = fifo[i]
      /\ fifo'[Len(fifo) + 1] = obj[p]
  BY <1>a, AppendFacts DEF SwapTail
<1>1. TypeOK'
  BY NullAssumption, <1>a, <1>b DEF IInv, TypeOK, SwapTail, consumerVars,
     producerVars
<1>2. Ownership'
  BY NullAssumption, <1>a, <1>b DEF IInv, TypeOK, Ownership, SwapTail,
     consumerVars, producerVars
<1>3. Links'
  BY NullAssumption, <1>a, <1>b DEF IInv, TypeOK, Ownership, Links, SwapTail,
     consumerVars, producerVars
<1>4. Linking'
  <2> SUFFICES ASSUME NEW q \in Producer, pc'[q] = "link"
               PROVE  \E i \in 1..Len(fifo') :
                          /\ fifo'[i] = obj'[q]
                          /\ off_prev'[q] = IF i = 1 THEN NULL ELSE fifo'[i - 1]
                          /\ i = 1 => head' = NULL /\ shadow_head' = NULL /\ cpc' = "idle"
                          /\ i > 1 => next'[fifo'[i - 1]] = NULL
    BY DEF Linking
  \* The producer itself: its predecessor is the old tail, which has no link.
  <2>1. CASE q = p
    <3>1. /\ Len(fifo) + 1 \in 1..Len(fifo')
          /\ fifo'[Len(fifo) + 1] = obj'[q]
      BY <1>a, <1>b, <2>1 DEF SwapTail
    <3>2. off_prev'[q] = IF Len(fifo) + 1 = 1 THEN NULL ELSE fifo'[Len(fifo)]
      BY <1>a, <1>b, <2>1 DEF IInv, TypeOK, Links, SwapTail
    <3>3. Len(fifo) + 1 = 1 => head' = NULL /\ shadow_head' = NULL /\ cpc' = "idle"
      BY <1>a DEF IInv, Consumer, TypeOK, SwapTail, consumerVars
    <3>4. Len(fifo) + 1 > 1 => next'[fifo'[Len(fifo)]] = NULL
      BY <1>a, <1>b DEF IInv, Links, SwapTail
    <3> QED  BY <1>a, <3>1, <3>2, <3>3, <3>4
  <2>2. CASE q # p
    <3>1. /\ pc[q] = "link" /\ obj'[q] = obj[q] /\ off_prev'[q] = off_prev[q]
          /\ next' = next /\ head' = head /\ shadow_head' = shadow_head /\ cpc' = cpc
      BY <2>2 DEF IInv, TypeOK, SwapTail, consumerVars
    <3>2. PICK i \in 1..Len(fifo) :
              /\ fifo[i] = obj[q]
              /\ off_prev[q] = IF i = 1 THEN NULL ELSE fifo[i - 1]
              /\ i = 1 => head = NULL /\ shadow_head = NULL /\ cpc = "idle"
              /\ i > 1 => next[fifo[i - 1]] = NULL
      BY <3>1 DEF IInv, Linking
    <3>3. i \in 1..Len(fifo') /\ fifo'[i] = fifo[i] /\ (i > 1 => fifo'[i - 1] = fifo[i - 1])
      BY <1>a, <1>b
    <3> QED  BY <3>1, <3>2, <3>3
  <2> QED  BY <2>1, <2>2
<1>5. OneLinker'
  BY NullAssumption, <1>a, <1>b DEF IInv, TypeOK, Ownership, Linking, OneLinker,
     SwapTail, consumerVars, producerVars
<1>6. Consumer'
  BY NullAssumption, <1>a, <1>b DEF IInv, TypeOK, Ownership, Links, Consumer,
     SwapTail, consumerVars, producerVars
<1> QED  BY <1>1, <1>2, <1>3, <1>4, <1>5, <1>6 DEF IInv

LEMMA LinkInv ==
    ASSUME IInv, NEW p \in Producer, Link(p)
    PROVE  IInv'
<1>a. obj[p] \in Obj
  BY DEF IInv, TypeOK, Linking, Link
<1>1. TypeOK'
  BY NullAssumption, <1>a DEF IInv, TypeOK, Link, consumerVars, producerVars
<1>2. Ownership'
  BY NullAssumption DEF IInv, TypeOK, Ownership, Linking, Link, consumerVars,
     producerVars
<1>3. Links'
  BY NullAssumption DEF IInv, TypeOK, Ownership, Links, Linking, Link,
     consumerVars, producerVars
<1>4. Linking'
  <2> SUFFICES ASSUME NEW q \in Producer, pc'[q] = "link"
               PROVE  \E i \in 1..Len(fifo') :
                          /\ fifo'[i] = obj'[q]
                          /\ off_prev'[q] = IF i = 1 THEN NULL ELSE fifo'[i - 1]
                          /\ i = 1 => head' = NULL /\ shadow_head' = NULL /\ cpc' = "idle"
                          /\ i > 1 => next'[fifo'[i - 1]] = NULL
    BY DEF Linking
  <2>1. /\ q # p /\ pc[q] = "link" /\ obj'[q] = obj[q] /\ off_prev'[q] = off_prev[q]
        /\ fifo' = fifo /\ shadow_head' = shadow_head /\ cpc' = cpc /\ pc[p] = "link"
    BY DEF IInv, TypeOK, Link, consumerVars
  <2>2. PICK i \in 1..Len(fifo) :
            /\ fifo[i] = obj[q]
            /\ off_prev[q] = IF i = 1 THEN NULL ELSE fifo[i - 1]
            /\ i = 1 => head = NULL /\ shadow_head = NULL /\ cpc = "idle"
            /\ i > 1 => next[fifo[i - 1]] = NULL
    BY <2>1 DEF IInv, Linking
  <2>3. PICK j \in 1..Len(fifo) :
            /\ fifo[j] = obj[p]
            /\ off_prev[p] = IF j = 1 THEN NULL ELSE fifo[j - 1]
    BY <2>1 DEF IInv, Linking
  \* Two producers link different objects, hence at different places.
  <2>4. i # j
    BY <2>1, <2>2, <2>3 DEF IInv, OneLinker
  <2>5. i = 1 => head' = NULL
    BY NullAssumption, <2>2, <2>3, <2>4 DEF IInv, TypeOK, Link
  <2>6. i > 1 => next'[fifo[i - 1]] = NULL
    BY NullAssumption, <2>2, <2>3, <2>4 DEF IInv, TypeOK, Ownership, Link
  <2> QED  BY <2>1, <2>2, <2>5, <2>6
<1>5. OneLinker'
  BY NullAssumption DEF IInv, TypeOK, OneLinker, Link, consumerVars, producerVars
<1>6. Consumer'
  BY NullAssumption DEF IInv, TypeOK, Ownership, Links, Linking, Consumer, Link,
     consumerVars, producerVars
<1> QED  BY <1>1, <1>2, <1>3, <1>4, <1>5, <1>6 DEF IInv

LEMMA TakeHeadInv ==
    ASSUME IInv, TakeHead
    PROVE  IInv'
<1>1. TypeOK'
  BY NullAssumption DEF IInv, TypeOK, TakeHead, producerVars
<1>2. Ownership'
  BY NullAssumption DEF IInv, TypeOK, Ownership, TakeHead, producerVars
<1>3. Links'
  BY NullAssumption DEF IInv, TypeOK, Ownership, Links, TakeHead, producerVars
<1>4. Linking'
  BY NullAssumption DEF IInv, TypeOK, Linking, TakeHead, producerVars
<1>5. OneLinker'
  BY NullAssumption DEF IInv, OneLinker, TakeHead, producerVars
<1>6. Consumer'
  BY NullAssumption DEF IInv, TypeOK, Ownership, Links, Consumer, TakeHead,
     producerVars
<1> QED  BY <1>1, <1>2, <1>3, <1>4, <1>5, <1>6 DEF IInv

LEMMA ClearHeadInv ==
    ASSUME IInv, ClearHead
    PROVE  IInv'
<1>1. TypeOK'
  BY NullAssumption DEF IInv, TypeOK, Consumer, ClearHead, producerVars
<1>2. Ownership'
  BY NullAssumption DEF IInv, TypeOK, Ownership, ClearHead, producerVars
<1>3. Links'
  BY NullAssumption DEF IInv, TypeOK, Ownership, Links, ClearHead, producerVars
<1>4. Linking'
  BY NullAssumption DEF IInv, Linking, Consumer, ClearHead, producerVars
<1>5. OneLinker'
  BY NullAssumption DEF IInv, OneLinker, ClearHead, producerVars
<1>6. Consumer'
  BY NullAssumption DEF IInv, TypeOK, Ownership, Links, Consumer, ClearHead,
     producerVars
<1> QED  BY <1>1, <1>2, <1>3, <1>4, <1>5, <1>6 DEF IInv

LEMMA TakeShadowInv ==
    ASSUME IInv, TakeShadow
    PROVE  IInv'
<1>1. TypeOK'
  BY NullAssumption DEF IInv, TypeOK, TakeShadow, producerVars
<1>2. Ownership'
  BY NullAssumption DEF IInv, TypeOK, Ownership, TakeShadow, producerVars
<1>3. Links'
  BY NullAssumption DEF IInv, TypeOK, Ownership, Links, TakeShadow, producerVars
<1>4. Linking'
  BY NullAssumption DEF IInv, Linking, Consumer, TakeShadow, producerVars
<1>5. OneLinker'
  BY NullAssumption DEF IInv, OneLinker, TakeShadow, producerVars
<1>6. Consumer'
  BY NullAssumption DEF IInv, TypeOK, Ownership, Links, Consumer, TakeShadow,
     producerVars
<1> QED  BY <1>1, <1>2, <1>3, <1>4, <1>5, <1>6 DEF IInv

LEMMA ReadNextInv ==
    ASSUME IInv, ReadNext
    PROVE  IInv'
<1>1. TypeOK'
  BY NullAssumption DEF IInv, TypeOK, ReadNext, producerVars
<1>2. Ownership'
  BY NullAssumption DEF IInv, TypeOK, Ownership, ReadNext, producerVars
<1>3. Links'
  BY NullAssumption DEF IInv, TypeOK, Ownership, Links, ReadNext, producerVars
<1>4. Linking'
  BY NullAssumption DEF IInv, Linking, Consumer, ReadNext, producerVars
<1>5. OneLinker'
  BY NullAssumption DEF IInv, OneLinker, ReadNext, producerVars
<1>6. Consumer'
  BY NullAssumption DEF IInv, TypeOK, Ownership, Links, Consumer, ReadNext,
     producerVars
<1> QED  BY <1>1, <1>2, <1>3, <1>4, <1>5, <1>6 DEF IInv

LEMMA CasTailFailInv ==
    ASSUME IInv, CasTailFail
    PROVE  IInv'
<1>1. TypeOK'
  BY NullAssumption DEF IInv, TypeOK, CasTailFail, producerVars
<1>2. Ownership'
  BY NullAssumption DEF IInv, TypeOK, Ownership, CasTailFail, producerVars
<1>3. Links'
  BY NullAssumption DEF IInv, TypeOK, Ownership, Links, CasTailFail, producerVars
<1>4. Linking'
  BY NullAssumption DEF IInv, Linking, Consumer, CasTailFail, producerVars
<1>5. OneLinker'
  BY NullAssumption DEF IInv, OneLinker, CasTailFail, producerVars
<1>6. Consumer'
  BY NullAssumption DEF IInv, TypeOK, Ownership, Links, Consumer, CasTailFail,
     producerVars
<1> QED  BY <1>1, <1>2, <1>3, <1>4, <1>5, <1>6 DEF IInv

LEMMA SpinNextInv ==
    ASSUME IInv, SpinNext
    PROVE  IInv'
<1>1. TypeOK'
  BY NullAssumption DEF IInv, TypeOK, SpinNext, producerVars
<1>2. Ownership'
  BY NullAssumption DEF IInv, TypeOK, Ownership, SpinNext, producerVars
<1>3. Links'
  BY NullAssumption DEF IInv, TypeOK, Ownership, Links, SpinNext, producerVars
<1>4. Linking'
  BY NullAssumption DEF IInv, Linking, Consumer, SpinNext, producerVars
<1>5. OneLinker'
  BY NullAssumption DEF IInv, OneLinker, SpinNext, producerVars
<1>6. Consumer'
  BY NullAssumption DEF IInv, TypeOK, Ownership, Links, Consumer, SpinNext,
     producerVars
<1> QED  BY <1>1, <1>2, <1>3, <1>4, <1>5, <1>6 DEF IInv

LEMMA ClearNextInv ==
    ASSUME IInv, ClearNext
    PROVE  IInv'
<1>a. fifo \in Seq(Obj) /\ Len(fifo) > 0
  BY DEF IInv, TypeOK, Consumer, ClearNext
<1>b. /\ fifo' \in Seq(Obj)
      /\ Len(fifo') = Len(fifo) - 1
      /\ \A i \in 1..(Len(fifo) - 1) : fifo'[i] = fifo[i + 1]
  BY <1>a, TailFacts DEF ClearNext, Return
<1>1. TypeOK'
  BY NullAssumption, <1>a, <1>b DEF IInv, TypeOK, Consumer, ClearNext, Return,
     producerVars
<1>2. Ownership'
  BY NullAssumption, <1>a, <1>b DEF IInv, TypeOK, Ownership, Consumer,
     ClearNext, Return, producerVars
<1>3. Links'
  BY NullAssumption, <1>a, <1>b DEF IInv, TypeOK, Ownership, Links, Consumer,
     ClearNext, Return, producerVars
<1>4. Linking'
  <2> SUFFICES ASSUME NEW q \in Producer, pc'[q] = "link"
               PROVE  \E i \in 1..Len(fifo') :
                          /\ fifo'[i] = obj'[q]
                          /\ off_prev'[q] = IF i = 1 THEN NULL ELSE fifo'[i - 1]
                          /\ i = 1 => head' = NULL /\ shadow_head' = NULL /\ cpc' = "idle"
                          /\ i > 1 => next'[fifo'[i - 1]] = NULL
    BY DEF Linking
  <2>1. pc[q] = "link" /\ obj'[q] = obj[q] /\ off_prev'[q] = off_prev[q]
    BY DEF ClearNext, producerVars
  <2>2. PICK i \in 1..Len(fifo) :
            /\ fifo[i] = obj[q]
            /\ off_prev[q] = IF i = 1 THEN NULL ELSE fifo[i - 1]
            /\ i = 1 => cpc = "idle"
            /\ i > 1 => next[fifo[i - 1]] = NULL
    BY <2>1 DEF IInv, Linking
  \* The first two objects are linked already.
  <2>3. i > 2
    BY NullAssumption, <1>a, <2>2 DEF IInv, TypeOK, Consumer, ClearNext
  <2>4. /\ i - 1 \in 1..Len(fifo')
        /\ fifo'[i - 1] = fifo[i]
        /\ fifo'[i - 1 - 1] = fifo[i - 1]
    <3>1. /\ i \in Nat /\ Len(fifo) \in Nat
          /\ i - 1 \in 1..(Len(fifo) - 1) /\ i - 1 - 1 \in 1..(Len(fifo) - 1)
      BY <1>a, <2>3
    <3>2. (i - 1) + 1 = i /\ (i - 1 - 1) + 1 = i - 1
      BY <3>1
    <3>3. fifo'[i - 1] = fifo[(i - 1) + 1] /\ fifo'[i - 1 - 1] = fifo[(i - 1 - 1) + 1]
      BY <1>b, <3>1
    <3> QED  BY <1>b, <3>1, <3>2, <3>3
  <2>5. next'[fifo[i - 1]] = NULL
    BY <1>a, <2>2, <2>3 DEF IInv, TypeOK, ClearNext
  <2> QED  BY <2>1, <2>2, <2>3, <2>4, <2>5
<1>5. OneLinker'
  BY NullAssumption, <1>a, <1>b DEF IInv, OneLinker, ClearNext, Return, producerVars
<1>6. Consumer'
  BY NullAssumption, <1>a, <1>b DEF IInv, TypeOK, Ownership, Links, Consumer,
     ClearNext, Return, producerVars
<1> QED  BY <1>1, <1>2, <1>3, <1>4, <1>5, <1>6 DEF IInv

LEMMA CasTailOkInv ==
    ASSUME IInv, CasTailOk
    PROVE  IInv'
<1>a. fifo \in Seq(Obj) /\ Len(fifo) > 0
  BY DEF IInv, TypeOK, Consumer, CasTailOk
<1>b. /\ fifo' \in Seq(Obj)
      /\ Len(fifo') = Len(fifo) - 1
      /\ \A i \in 1..(Len(fifo) - 1) : fifo'[i] = fifo[i + 1]
  BY <1>a, TailFacts DEF CasTailOk, Return
\* tail is both the first object and the last one.
<1>c. Len(fifo) = 1
  <2>1. fifo[1] = fifo[Len(fifo)]
    BY <1>a DEF IInv, Links, Consumer, CasTailOk
  <2>2. 1 \in 1..Len(fifo) /\ Len(fifo) \in 1..Len(fifo)
    BY <1>a
  <2> QED  BY <2>1, <2>2 DEF IInv, Ownership
<1>1. TypeOK'
  BY NullAssumption, <1>a, <1>b DEF IInv, TypeOK, Consumer, CasTailOk, Return,
     producerVars
<1>2. Ownership'
  BY NullAssumption, <1>a, <1>b DEF IInv, TypeOK, Ownership, Consumer,
     CasTailOk, Return, producerVars
<1>3. Links'
  BY <1>b, <1>c DEF Links, CasTailOk
<1>4. Linking'
  <2>1. ASSUME NEW q \in Producer, pc[q] = "link" PROVE FALSE
    BY <1>c, <2>1 DEF IInv, Linking, CasTailOk
  <2> QED  BY <2>1 DEF Linking, CasTailOk, producerVars
<1>5. OneLinker'
  BY NullAssumption, <1>a, <1>b DEF IInv, OneLinker, CasTailOk, Return, producerVars
<1>6. Consumer'
  BY NullAssumption, <1>a, <1>b DEF IInv, TypeOK, Ownership, Links, Consumer,
     CasTailOk, Return, producerVars
<1> QED  BY <1>1, <1>2, <1>3, <1>4, <1>5, <1>6 DEF IInv

LEMMA buf_putInv ==
    ASSUME IInv, NEW v \in Obj \cup {NULL}, buf_put(v)
    PROVE  IInv'
<1>1. TypeOK'
  BY NullAssumption DEF IInv, TypeOK, buf_put, producerVars
<1>2. Ownership'
  BY NullAssumption DEF IInv, TypeOK, Ownership, buf_put, producerVars
<1>3. Links'
  BY NullAssumption DEF IInv, TypeOK, Ownership, Links, buf_put, producerVars
<1>4. Linking'
  BY NullAssumption DEF IInv, TypeOK, Ownership, Linking, buf_put, producerVars
<1>5. OneLinker'
  BY NullAssumption DEF IInv, OneLinker, buf_put, producerVars
<1>6. Consumer'
  BY NullAssumption DEF IInv, TypeOK, Ownership, Links, Consumer, buf_put,
     producerVars
<1> QED  BY <1>1, <1>2, <1>3, <1>4, <1>5, <1>6 DEF IInv

LEMMA NextInv == IInv /\ [Next]_vars => IInv'
<1> SUFFICES ASSUME IInv, [Next]_vars
             PROVE  IInv'
  OBVIOUS
<1>1. ASSUME NEW p \in Producer, NEW o \in Obj, shmem_enqueue(p, o)
      PROVE  IInv'
  BY <1>1, shmem_enqueueInv
<1>2. ASSUME NEW p \in Producer, enqueue(p)
      PROVE  IInv'
  BY <1>2, SwapTailInv, LinkInv DEF enqueue
<1>3. CASE UNCHANGED vars
  <2>1. TypeOK'     BY <1>3 DEF vars, IInv, TypeOK
  <2>2. Ownership'  BY <1>3 DEF vars, IInv, Ownership
  <2>3. Links'      BY <1>3 DEF vars, IInv, Links
  <2>4. Linking'    BY <1>3 DEF vars, IInv, Linking
  <2>5. OneLinker'  BY <1>3 DEF vars, IInv, OneLinker
  <2>6. Consumer'   BY <1>3 DEF vars, IInv, Consumer
  <2> QED  BY <2>1, <2>2, <2>3, <2>4, <2>5, <2>6 DEF IInv
<1>4. CASE dequeue
  BY <1>3, <1>4, TakeHeadInv, ClearHeadInv, TakeShadowInv, ReadNextInv,
     ClearNextInv,
     CasTailOkInv, CasTailFailInv, SpinNextInv DEF dequeue, DequeueEmpty
<1>5. ASSUME NEW v \in Obj \cup {NULL}, buf_put(v)
      PROVE  IInv'
  BY <1>5, buf_putInv
<1> QED  BY <1>1, <1>2, <1>3, <1>4, <1>5 DEF Next

LEMMA Invariance == Spec => []IInv
  BY InitInv, NextInv, PTL DEF Spec

\* Type correctness of the queue, and dequeue() never dereferences offset 0,
\* for every number of producers and objects.
THEOREM TypeCorrect == Spec => []TypeOK
<1>1. IInv => TypeOK
  BY DEF IInv
<1> QED  BY <1>1, Invariance, PTL

\* No producer writes the next field of an object that dequeue() has returned
\* (enqueue(), the store to off_prev->next).
THEOREM PredecessorSafe == Spec => []PredecessorStillQueued
<1>1. IInv => PredecessorStillQueued
  BY NullAssumption DEF IInv, TypeOK, Linking, PredecessorStillQueued, Queued
<1> QED  BY <1>1, Invariance, PTL

\* The publishing store of enqueue() never overwrites a published object.
THEOREM NothingLost == Spec => []LinkLosesNothing
<1>1. IInv => LinkLosesNothing
  BY NullAssumption DEF IInv, TypeOK, Linking, LinkLosesNothing
<1> QED  BY <1>1, Invariance, PTL

\* The lock-free queue implements the FIFO queue: every step of enqueue() and
\* dequeue() is a step of the FIFO, or changes nothing a user of the queue sees.
THEOREM Refinement == Spec => ImplementsFifo
<1>1. Init => Fifo!Init
  BY DEF Init, Fifo!Init
<1>2. IInv /\ [Next]_vars => [Fifo!Next]_(Fifo!fifoVars)
  <2> SUFFICES ASSUME IInv, [Next]_vars
               PROVE  Fifo!Next \/ UNCHANGED Fifo!fifoVars
    OBVIOUS
  <2>1. ASSUME NEW p \in Producer, SwapTail(p)
        PROVE  Fifo!Next
    <3>1. obj[p] \in Obj /\ Fifo!Enqueue(obj[p])
      BY <2>1 DEF IInv, Ownership, SwapTail, consumerVars, Fifo!Enqueue,
         Fifo!InQueue
    <3> QED  BY <3>1 DEF Fifo!Next
  <2>2. CASE ClearNext \/ CasTailOk
    <3>1. /\ fifo \in Seq(Obj) /\ Len(fifo) > 0 /\ ret = NULL
          /\ ret' = fifo[1] /\ fifo' = Tail(fifo)
      BY <2>2 DEF IInv, TypeOK, Consumer, ClearNext, CasTailOk, Return
    <3>2. Fifo!Dequeue
      BY <3>1, TailFacts DEF Fifo!Dequeue
    <3> QED  BY <3>2 DEF Fifo!Next
  <2>3. ASSUME NEW v \in Obj \cup {NULL}, buf_put(v)
        PROVE  Fifo!Next
    BY <2>3 DEF buf_put, Fifo!Next, Fifo!Finish
  <2>4. CASE \E p \in Producer : Link(p) \/ \E o \in Obj : shmem_enqueue(p, o)
    BY <2>4 DEF Link, shmem_enqueue, consumerVars, Fifo!fifoVars
  <2>5. CASE \/ DequeueEmpty \/ TakeHead \/ ClearHead \/ TakeShadow
             \/ ReadNext \/ CasTailFail \/ SpinNext \/ UNCHANGED vars
    BY <2>5 DEF vars, DequeueEmpty, TakeHead, ClearHead, TakeShadow, ReadNext,
       CasTailFail, SpinNext, Fifo!fifoVars
  <2> QED  BY <2>1, <2>2, <2>3, <2>4, <2>5 DEF Next, enqueue, dequeue
<1> QED  BY <1>1, <1>2, Invariance, PTL DEF Spec, ImplementsFifo, Fifo!Spec
=============================================================================
