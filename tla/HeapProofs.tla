----------------------------- MODULE HeapProofs -----------------------------
(***************************************************************************)
(* What is proved about the heap for every memory size, every set of       *)
(* request sizes without 0, and any number of allocations.                 *)
(***************************************************************************)
EXTENDS Heap, TLAPS

\* No request is for zero bytes: a block then has room for the data pointer.
\* (With zero-byte requests __dispose may free a neighbour: README, section 5.)
NonEmptyRequests == 0 \notin NewSizes

LEMMA UnitsOfRequest ==
  ASSUME NEW n \in Nat
  PROVE  /\ Units(n + 8) \in Nat
         /\ n > 0 => Units(n + 8) > 1
         /\ n > 8 => Units(n + 8) > 2
  BY DEF Units

\* The head of the chain is the newest block, or Nil with no block granted.
LEMMA NewestElim ==
  ASSUME NEW S, NEW x, Newest(S, x)
  PROVE  /\ S = {} <=> x \notin S
         /\ S = {} => x = Nil
         /\ S # {} => x \in S /\ \A b \in S : age[b] <= age[x]
  BY DEF Newest

LEMMA NewestIntro ==
  ASSUME NEW S, NEW x,
         S = {} => x = Nil,
         S # {} => x \in S /\ \A b \in S : age[b] <= age[x]
  PROVE  Newest(S, x)
  BY DEF Newest

-----------------------------------------------------------------------------
(* Every pointer names one block only, because a block has more than one   *)
(* unit: its data pointer never looks like its left neighbour's estring.   *)

LEMMA MatchIsOwn ==
  ASSUME HeapInv, pc = "walk", NEW n \in Live, Matches(n)
  PROVE  NamesBlock(arg, n)
<1>1. n \in Addr /\ n <= Memory /\ off[n] \in 1..2
  BY HeapAssumption DEF HeapInv, TypeOK, BlocksSound, Live, Addr
<1>2. n + 2 <= Memory + 2
  BY <1>1, HeapAssumption DEF Addr
<1>3. arg \notin Foreign
  BY <1>1, <1>2, HeapAssumption DEF Matches, Addr
<1>4. PICK t \in Live : NamesBlock(arg, t)
  BY <1>3 DEF HeapInv, WalkSound
<1>5. /\ t \in Addr /\ off[t] \in 1..2
      /\ granted[t] \in Nat /\ granted[n] \in Nat
      /\ granted[t] > off[t] /\ granted[n] > off[n]
      /\ t < n => t + granted[t] <= n
      /\ n < t => n + granted[n] <= t
  <2>1. /\ t \in Addr /\ off[t] \in 1..2
        /\ granted[t] \in Nat /\ granted[n] \in Nat /\ Addr \subseteq Int
    BY <1>1, <1>4 DEF HeapInv, TypeOK, BlocksSound, Live, Addr
  <2>2. granted[t] > off[t] /\ granted[n] > off[n]
    BY <1>4 DEF HeapInv, BlocksSound
  <2>3. /\ t < n => t + granted[t] <= n
        /\ n < t => n + granted[n] <= t
    BY <1>4 DEF HeapInv, BlocksSound
  <2> QED
    BY <2>1, <2>2, <2>3
<1>6. t = n
  BY <1>1, <1>4, <1>5, HeapAssumption DEF Matches, NamesBlock, Addr
<1> QED
  BY <1>4, <1>6

-----------------------------------------------------------------------------
(* Init and the steps.                                                     *)

LEMMA InitHeapInv == Init => HeapInv
<1> SUFFICES ASSUME Init PROVE HeapInv
  OBVIOUS
<1>1. TypeOK
  BY DEF Init, TypeOK, Clobbered, Nil, Addr
<1>2. Live = {}
  BY DEF Init, Live
<1>3. ChainComplete
  BY <1>2 DEF Init, ChainComplete, Newest
<1>4. BlocksSound /\ AgesSound /\ WalkSound /\ ExitReleasesAll
  BY <1>2 DEF Init, BlocksSound, AgesSound, WalkSound, ExitReleasesAll, Nil
<1> QED
  BY <1>1, <1>3, <1>4 DEF HeapInv

LEMMA AllocNodeInv ==
  ASSUME HeapInv, NEW n \in Nat, NEW o \in 1..2, n > 0, o = 2 => n > 8,
         AllocNode(n, o)
  PROVE  HeapInv'
<1> DEFINE k == Units(n + 8)
<1>1. PICK a \in Addr :
       /\ Room(a, k)
       /\ granted' = [granted EXCEPT ![a] = k]
       /\ next'    = [next EXCEPT ![a] = head]
       /\ total'   = [total EXCEPT ![a] = n + 8]
       /\ head'    = a
       /\ off'     = [off EXCEPT ![a] = o]
       /\ age'     = [age EXCEPT ![a] = clock + 1]
  BY DEF AllocNode, Header
<1>2. /\ k \in Nat /\ k > o
      /\ pc = "run" /\ clock' = clock + 1
      /\ pc' = pc /\ arg' = arg /\ slot' = slot
  BY UnitsOfRequest DEF AllocNode
<1> HIDE DEF k
<1>3. TypeOK'
  <2>1. TypeOK
    BY DEF HeapInv
  <2>2. /\ granted' \in [Addr -> Nat]
        /\ next' \in [Addr -> Int]
        /\ total' \in [Addr -> Int]
        /\ off' \in [Addr -> 0..2]
        /\ age' \in [Addr -> Nat]
    BY <1>1, <1>2, <2>1 DEF TypeOK, Addr, Nil
  <2>3. head' \in Addr \cup {Nil} /\ clock' \in Nat
    BY <1>1, <1>2, <2>1 DEF TypeOK
  <2> QED
    BY <1>2, <2>1, <2>2, <2>3 DEF TypeOK
<1>4. Live' = Live \cup {a} /\ a \in Addr /\ Addr \subseteq Int
  BY <1>1, <1>2 DEF HeapInv, TypeOK, Live, Addr
<1>5. a \notin Live
  <2>1. ASSUME a \in Live PROVE FALSE
    <3>1. a + k <= a \/ a + granted[a] <= a
      BY <1>1, <2>1 DEF Room
    <3>2. granted[a] \in Nat /\ granted[a] # 0 /\ k > 0 /\ a \in Int
      BY <1>2, <1>4, <2>1 DEF Live, HeapInv, TypeOK
    <3> QED
      BY <1>2, <3>1, <3>2
  <2> QED
    BY <2>1
<1>6. \A b \in Live :
        /\ age'[b] = age[b] /\ next'[b] = next[b]
        /\ total'[b] = total[b] /\ off'[b] = off[b]
        /\ granted'[b] = granted[b]
        /\ age[b] \in Nat /\ age[b] < age'[a]
        /\ b \in Addr
  BY <1>1, <1>5 DEF HeapInv, TypeOK, AgesSound, Live
<1>7. age'[a] = clock + 1 /\ next'[a] = head /\ granted'[a] = k /\ off'[a] = o
      /\ total'[a] = n + 8 /\ clock \in Nat
  BY <1>1 DEF HeapInv, TypeOK
<1>8. ChainComplete'
  <2>1. Newest(Live, head)'
    BY <1>1, <1>4, <1>6, <1>7 DEF Newest
  <2>2. ASSUME NEW b \in Live'
        PROVE  Newest({c \in Live : age[c] < age[b]}, next[b])'
    <3>1. CASE b = a
      <4>1. {c \in Live' : age'[c] < age'[b]} = Live
        <5>1. \A c \in Live' : age'[c] < age'[b] <=> c # a
          BY <1>4, <1>6, <1>7, <3>1
        <5> QED
          BY <5>1, <1>4, <1>5
      <4>2. Newest(Live, head)
        BY DEF HeapInv, ChainComplete
      <4> QED
        BY <3>1, <4>1, <4>2, <1>6, <1>7 DEF Newest
    <3>2. CASE b # a
      <4>1. b \in Live
        BY <3>2, <1>4
      <4>2. {c \in Live' : age'[c] < age'[b]} = {c \in Live : age[c] < age[b]}
        BY <1>4, <1>6, <1>7, <4>1
      <4>3. Newest({c \in Live : age[c] < age[b]}, next[b])
        BY <4>1 DEF HeapInv, ChainComplete
      <4> QED
        BY <4>1, <4>2, <4>3, <1>6 DEF Newest
    <3> QED
      BY <3>1, <3>2
  <2> QED
    BY <2>1, <2>2 DEF ChainComplete
<1>9. BlocksSound'
  <2>1. ASSUME NEW b \in Live'
        PROVE  /\ Units(total'[b]) = granted'[b]
               /\ b + granted'[b] <= Memory + 1
               /\ granted'[b] > off'[b]
    <3>1. CASE b = a
      <4>1. a + k - 1 <= Memory /\ a \in Int /\ Memory \in Int
        BY <1>1, <1>4, HeapAssumption DEF Room
      <4> QED
        BY <3>1, <4>1, <1>2, <1>7 DEF k
    <3>2. CASE b # a
      BY <3>2, <1>4, <1>6 DEF HeapInv, BlocksSound
    <3> QED
      BY <3>1, <3>2
  <2>2. ASSUME NEW b \in Live', NEW c \in Live', b < c
        PROVE  b + granted'[b] <= c
    <3>1. CASE b # a /\ c # a
      BY <2>2, <3>1, <1>4, <1>6 DEF HeapInv, BlocksSound
    <3>2. CASE b = a
      <4>1. c \in Live /\ c \in Int /\ a \in Int /\ granted[c] \in Nat /\ granted[c] # 0
        BY <2>2, <3>2, <1>4 DEF HeapInv, TypeOK, Live
      <4>2. a + k <= c \/ c + granted[c] <= a
        BY <1>1, <4>1 DEF Room
      <4> QED
        BY <2>2, <3>2, <4>1, <4>2, <1>2, <1>7
    <3>3. CASE c = a
      <4>1. b \in Live /\ b \in Int /\ a \in Int /\ granted[b] \in Nat
        BY <2>2, <3>3, <1>4 DEF HeapInv, TypeOK, Live
      <4>2. a + k <= b \/ b + granted[b] <= a
        BY <1>1, <4>1 DEF Room
      <4> QED
        BY <2>2, <3>3, <4>1, <4>2, <1>2, <1>6
    <3> QED
      BY <3>1, <3>2, <3>3
  <2>3. ASSUME NEW b \in Addr
        PROVE  off'[b] # 0 <=> granted'[b] # 0
    BY <1>1, <1>2, <1>7 DEF HeapInv, BlocksSound, TypeOK
  <2> QED
    BY <2>1, <2>2, <2>3, <1>4 DEF BlocksSound, Units
<1>10. AgesSound'
  BY <1>2, <1>4, <1>6, <1>7 DEF HeapInv, AgesSound
<1>11. WalkSound'
  <2>1. slot = Nil /\ arg = Nil
    BY <1>2 DEF HeapInv, WalkSound
  <2> QED
    BY <1>2, <2>1 DEF WalkSound
<1>12. ExitReleasesAll'
  BY <1>2 DEF ExitReleasesAll
<1> QED
  BY <1>3, <1>8, <1>9, <1>10, <1>11, <1>12 DEF HeapInv

-----------------------------------------------------------------------------
(* The node n leaves the chain through p, the slot it was found in, and its *)
(* memory goes back: what an Unlink and a step of __freeall have in common. *)

Removed(n, p) ==
  /\ n \in Live
  /\ p \in Live \cup {Nil}
  /\ n = (IF p = Nil THEN head ELSE next[p])
  /\ head' = IF p = Nil THEN next[n] ELSE head
  /\ next' = IF p = Nil THEN [next EXCEPT ![n] = Clobbered]
             ELSE [next EXCEPT ![p] = next[n], ![n] = Clobbered]
  /\ FreeMem(n, total[n])
  /\ total' = [total EXCEPT ![n] = Clobbered]
  /\ off'   = [off EXCEPT ![n] = 0]
  /\ age'   = [age EXCEPT ![n] = 0]
  /\ clock' = clock

LEMMA RemovedFrame ==
  ASSUME HeapInv, NEW n, NEW p, Removed(n, p)
  PROVE  /\ granted' = [granted EXCEPT ![n] = 0]
         /\ Live' = Live \ {n}
         /\ n \in Addr /\ Live \subseteq Addr
         /\ p # n
         /\ \A b \in Live \ {n} :
              /\ age'[b] = age[b] /\ total'[b] = total[b]
              /\ off'[b] = off[b] /\ granted'[b] = granted[b]
              /\ b # p => next'[b] = next[b]
         /\ p # Nil => next'[p] = next[n]
<1>1. n \in Addr /\ Live \subseteq Addr /\ Units(total[n]) = granted[n]
  BY DEF Removed, HeapInv, BlocksSound, Live
<1>2. granted' = [granted EXCEPT ![n] = 0]
  BY <1>1 DEF Removed, FreeMem, HeapInv, TypeOK
<1>3. Live' = Live \ {n}
  BY <1>1, <1>2 DEF Live, HeapInv, TypeOK
<1>4. p # n
  <2>1. CASE p = Nil
    BY <2>1, <1>1 DEF Nil, Addr
  <2>2. CASE p # Nil
    <3>1. Newest({b \in Live : age[b] < age[p]}, next[p]) /\ p \in Live
      BY <2>2 DEF Removed, HeapInv, ChainComplete
    <3>2. next[p] \in {b \in Live : age[b] < age[p]} \/ next[p] = Nil
      BY <3>1 DEF Newest
    <3>3. age[p] \in Nat
      BY <3>1, <1>1 DEF HeapInv, TypeOK
    <3> QED
      BY <2>2, <3>2, <3>3, <1>1 DEF Removed, Nil, Addr
  <2> QED
    BY <2>1, <2>2
<1>5. \A b \in Live \ {n} :
        /\ age'[b] = age[b] /\ total'[b] = total[b]
        /\ off'[b] = off[b] /\ granted'[b] = granted[b]
        /\ b # p => next'[b] = next[b]
  BY <1>1, <1>2 DEF Removed, HeapInv, TypeOK
<1>6. p # Nil => next'[p] = next[n]
  BY <1>1, <1>4 DEF Removed, HeapInv, TypeOK
<1> QED
  BY <1>1, <1>2, <1>3, <1>4, <1>5, <1>6

LEMMA RemovedChain ==
  ASSUME HeapInv, NEW n, NEW p, Removed(n, p)
  PROVE  ChainComplete'
<1> DEFINE Older(a) == {b \in Live : age[b] < age[a]}
<1>1. /\ Live' = Live \ {n} /\ n \in Live /\ n \in Addr /\ Live \subseteq Addr
      /\ p # n /\ p \in Live \cup {Nil}
      /\ \A b \in Live' : age'[b] = age[b] /\ (b # p => next'[b] = next[b])
      /\ p # Nil => next'[p] = next[n]
      /\ \A b \in Live : age[b] \in Nat
  <2>1. n \in Live /\ p \in Live \cup {Nil}
    BY DEF Removed
  <2>2. Live \subseteq Addr /\ age \in [Addr -> Nat]
    BY DEF HeapInv, TypeOK, Live
  <2>3. Live' = Live \ {n} /\ n \in Addr /\ p # n
    BY RemovedFrame
  <2>4. p # Nil => next'[p] = next[n]
    BY RemovedFrame
  <2>5. ASSUME NEW b \in Live \ {n}
        PROVE  age'[b] = age[b] /\ (b # p => next'[b] = next[b])
    BY RemovedFrame
  <2> QED
    BY <2>1, <2>2, <2>3, <2>4, <2>5
<1>2. /\ Newest(Live, head)
      /\ \A a \in Live : Newest(Older(a), next[a])
      /\ \A a, b \in Live : age[a] = age[b] => a = b
  BY DEF HeapInv, ChainComplete, AgesSound
<1>3. Newest(Live, head)'
  <2>1. CASE p = Nil
    <3>1. n = head /\ head' = next[n]
      BY <2>1 DEF Removed
    <3>2. Live' = Older(n)
      <4>1. \A b \in Live : age[b] <= age[n]
        BY <1>1, <1>2, <3>1 DEF Newest
      <4> QED
        BY <1>1, <1>2, <4>1
    <3>3. Newest(Older(n), next[n])
      BY <1>1, <1>2
    <3> QED
      BY <3>1, <3>2, <3>3, <1>1 DEF Newest
  <2>2. CASE p # Nil
    <3>1. n = next[p] /\ head' = head /\ p \in Live
      BY <2>2, <1>1 DEF Removed
    <3>2. n \in Older(p)
      BY <3>1, <1>1, <1>2 DEF Newest, Nil, Addr
    <3>3. head \in Live /\ \A b \in Live : age[b] <= age[head]
      BY <1>1, <1>2 DEF Newest
    <3>4. head # n
      BY <3>1, <3>2, <3>3, <1>1
    <3> QED
      BY <1>1, <3>1, <3>3, <3>4 DEF Newest
  <2> QED
    BY <2>1, <2>2
<1>4. ASSUME NEW a \in Live'
      PROVE  Newest({b \in Live : age[b] < age[a]}, next[a])'
  <2> DEFINE Rest == {b \in Live' : age'[b] < age'[a]}
  <2>1. Rest = Older(a) \ {n}
    BY <1>1
  <2>2. a \in Live /\ a # n
    BY <1>1
  <2>3. CASE a = p
    <3>1. n = next[a] /\ next'[a] = next[n]
      BY <2>2, <2>3, <1>1 DEF Removed, Nil, Addr
    <3>2. n \in Older(a) /\ \A b \in Older(a) : age[b] <= age[n]
      BY <3>1, <2>2, <1>1, <1>2 DEF Newest, Nil, Addr
    <3>3. Rest = Older(n)
      <4>1. \A b \in Live : (age[b] < age[a] /\ b # n) <=> age[b] < age[n]
        BY <3>2, <2>2, <1>1, <1>2
      <4> QED
        BY <4>1, <2>1
    <3>4. Newest(Older(n), next[n])
      BY <1>1, <1>2
    <3>5. \A b \in Rest : age'[b] = age[b]
      BY <1>1
    <3> QED
      BY <3>1, <3>3, <3>4, <3>5 DEF Newest
  <2>4. CASE a # p
    <3>1. next'[a] = next[a]
      BY <2>4, <1>1
    <3>2. next[a] # n
      <4> SUFFICES ASSUME next[a] = n PROVE FALSE
        OBVIOUS
      <4>1. n \in Older(a) /\ \A b \in Older(a) : age[b] <= age[n]
        BY <2>2, <1>1, <1>2 DEF Newest, Nil, Addr
      <4>2. CASE p = Nil
        <5>1. n = head
          BY <4>2 DEF Removed
        <5>2. \A b \in Live : age[b] <= age[n]
          BY <5>1, <1>1, <1>2 DEF Newest
        <5> QED
          BY <4>1, <5>2, <2>2, <1>1
      <4>3. CASE p # Nil
        <5>1. n = next[p] /\ p \in Live
          BY <4>3, <1>1 DEF Removed
        <5>2. n \in Older(p) /\ \A b \in Older(p) : age[b] <= age[n]
          BY <5>1, <1>1, <1>2 DEF Newest, Nil, Addr
        <5>3. ~(age[a] < age[p]) /\ ~(age[p] < age[a])
          BY <4>1, <5>1, <5>2, <2>2, <1>1
        <5>4. age[a] = age[p]
          BY <5>3, <5>1, <2>2, <1>1
        <5> QED
          BY <5>4, <5>1, <2>2, <2>4, <1>2
      <4> QED
        BY <4>2, <4>3
    <3>3. Newest(Older(a), next[a])
      BY <2>2, <1>2
    <3>4. Older(a) # {} => next[a] \in Rest
      BY <3>2, <3>3, <2>1 DEF Newest
    <3>5. \A b \in Rest : age'[b] = age[b] /\ b \in Older(a)
      BY <1>1, <2>1
    <3> QED
      BY <3>1, <3>3, <3>4, <3>5, <2>1 DEF Newest
  <2> QED
    BY <2>3, <2>4
<1> QED
  BY <1>3, <1>4 DEF ChainComplete

LEMMA RemovedInv ==
  ASSUME HeapInv, NEW n, NEW p, Removed(n, p)
  PROVE  /\ ChainComplete' /\ BlocksSound' /\ AgesSound'
         /\ granted' \in [Addr -> Nat] /\ next' \in [Addr -> Int]
         /\ total' \in [Addr -> Int] /\ head' \in Addr \cup {Nil}
         /\ off' \in [Addr -> 0..2] /\ age' \in [Addr -> Nat]
<1>1. TypeOK /\ BlocksSound /\ AgesSound
  BY DEF HeapInv
<1>2. /\ granted' = [granted EXCEPT ![n] = 0]
      /\ Live' = Live \ {n} /\ n \in Addr /\ Live \subseteq Addr
      /\ \A b \in Live \ {n} :
           /\ age'[b] = age[b] /\ total'[b] = total[b]
           /\ off'[b] = off[b] /\ granted'[b] = granted[b]
  <2>1. granted' = [granted EXCEPT ![n] = 0]
    BY RemovedFrame
  <2>2. Live' = Live \ {n} /\ n \in Addr /\ Live \subseteq Addr
    BY RemovedFrame
  <2>3. ASSUME NEW b \in Live \ {n}
        PROVE  /\ age'[b] = age[b] /\ total'[b] = total[b]
               /\ off'[b] = off[b] /\ granted'[b] = granted[b]
    BY RemovedFrame
  <2> QED
    BY <2>1, <2>2, <2>3
<1>3. granted' \in [Addr -> Nat] /\ off' \in [Addr -> 0..2] /\ age' \in [Addr -> Nat]
  BY <1>1, <1>2 DEF Removed, TypeOK
<1>4. next' \in [Addr -> Int] /\ total' \in [Addr -> Int]
  BY <1>1, <1>2 DEF Removed, TypeOK, Clobbered
<1>5. head' \in Addr \cup {Nil}
  <2>1. next[n] \in Addr \cup {Nil}
    BY <1>2 DEF HeapInv, ChainComplete, Newest, Removed
  <2> QED
    BY <1>1, <2>1 DEF Removed, TypeOK
<1>6. BlocksSound'
  <2>1. \A a \in Addr : off'[a] # 0 <=> granted'[a] # 0
    BY <1>1, <1>2 DEF Removed, BlocksSound, TypeOK
  <2> QED
    BY <1>1, <1>2, <2>1 DEF BlocksSound, Units
<1>7. AgesSound'
  BY <1>1, <1>2 DEF AgesSound, Removed
<1> QED
  BY <1>3, <1>4, <1>5, <1>6, <1>7, RemovedChain

-----------------------------------------------------------------------------
(* One lemma for each action that is neither an allocation nor a removal.  *)

LEMMA CallDisposeInv ==
  ASSUME HeapInv, NEW p \in Int, CallDispose(p),
         p \in Foreign \/ \E a \in Live : NamesBlock(p, a)
  PROVE  HeapInv'
<1>1. Live' = Live
  BY DEF CallDispose, Live
<1>2. TypeOK'
  BY DEF HeapInv, TypeOK, CallDispose, Nil
<1>3. ChainComplete' /\ BlocksSound' /\ AgesSound'
  BY <1>1 DEF HeapInv, CallDispose, ChainComplete, Newest, BlocksSound, AgesSound
<1>4. WalkSound'
  BY <1>1 DEF CallDispose, WalkSound, NamesBlock
<1>5. ExitReleasesAll'
  BY DEF CallDispose, ExitReleasesAll
<1> QED
  BY <1>2, <1>3, <1>4, <1>5 DEF HeapInv

LEMMA CallInv == HeapInv /\ Call => HeapInv'
<1> SUFFICES ASSUME HeapInv, Call PROVE HeapInv'
  OBVIOUS
<1>1. \A a \in Live : a \in Int /\ off[a] \in Int
  BY DEF HeapInv, TypeOK, Live, Addr
<1>2. CASE DisposeHeld
  <2>1. PICK a \in Live : CallDispose(a + off[a])
    BY <1>2 DEF DisposeHeld
  <2> QED
    BY <2>1, <1>1, CallDisposeInv DEF NamesBlock
<1>3. CASE DisposeLink
  <2>1. PICK a \in Live : off[a] = 2 /\ CallDispose(a + off[a] - 1)
    BY <1>3 DEF DisposeLink
  <2>2. a + off[a] - 1 = a + 1
    BY <1>1, <2>1
  <2> QED
    BY <2>1, <2>2, <1>1, CallDisposeInv DEF NamesBlock
<1>4. CASE DisposeForeign
  BY <1>4, CallDisposeInv, HeapAssumption DEF DisposeForeign
<1> QED
  BY <1>2, <1>3, <1>4 DEF Call

\* The walk goes from slot to the next newest block, which does not match: so
\* no block from the head down to it does.
LEMMA WalkOnInv == HeapInv /\ WalkOn => HeapInv'
<1> SUFFICES ASSUME HeapInv, WalkOn PROVE HeapInv'
  OBVIOUS
<1>1. Live' = Live /\ Live \subseteq Addr /\ \A b \in Live : age[b] \in Nat
  BY DEF WalkOn, Live, HeapInv, TypeOK
<1>2. Cursor \in Live /\ \A b \in Live : age[b] >= age[Cursor] => ~Matches(b)
  <2>1. CASE slot = Nil
    <3>1. Cursor = head /\ head \in Live /\ \A b \in Live : age[b] <= age[head]
      BY <2>1 DEF WalkOn, Cursor, HeapInv, ChainComplete, Newest
    <3>2. ASSUME NEW b \in Live, age[b] >= age[Cursor] PROVE b = Cursor
      BY <3>1, <3>2, <1>1 DEF HeapInv, AgesSound
    <3> QED
      BY <3>1, <3>2 DEF WalkOn
  <2>2. CASE slot # Nil
    <3>1. /\ slot \in Live /\ Cursor = next[slot]
          /\ \A b \in Live : age[b] >= age[slot] => ~Matches(b)
      BY <2>2 DEF HeapInv, WalkSound, Cursor
    <3>2. /\ Cursor \in {b \in Live : age[b] < age[slot]}
          /\ \A b \in Live : age[b] < age[slot] => age[b] <= age[Cursor]
      BY <3>1 DEF WalkOn, HeapInv, ChainComplete, Newest
    <3>3. ASSUME NEW b \in Live, age[b] >= age[Cursor], ~(age[b] >= age[slot])
          PROVE  b = Cursor
      BY <3>1, <3>2, <3>3, <1>1 DEF HeapInv, AgesSound
    <3> QED
      BY <3>1, <3>2, <3>3 DEF WalkOn
  <2> QED
    BY <2>1, <2>2
<1>3. slot' = Cursor /\ pc = "walk"
  BY DEF WalkOn
<1>4. TypeOK'
  BY <1>1, <1>2 DEF HeapInv, TypeOK, WalkOn
<1>5. ChainComplete' /\ BlocksSound' /\ AgesSound'
  BY <1>1 DEF HeapInv, WalkOn, ChainComplete, Newest, BlocksSound, AgesSound
<1>6. WalkSound'
  <2>1. arg \in Foreign \/ \E a \in Live : NamesBlock(arg, a)
    BY <1>3 DEF HeapInv, WalkSound
  <2> QED
    BY <2>1, <1>1, <1>2, <1>3 DEF WalkOn, WalkSound, NamesBlock, Matches
<1>7. ExitReleasesAll'
  BY DEF WalkOn, ExitReleasesAll
<1> QED
  BY <1>4, <1>5, <1>6, <1>7 DEF HeapInv

LEMMA NotFoundInv == HeapInv /\ NotFound => HeapInv'
<1> SUFFICES ASSUME HeapInv, NotFound PROVE HeapInv'
  OBVIOUS
<1>1. Live' = Live
  BY DEF NotFound, Live
<1>2. TypeOK'
  BY DEF HeapInv, TypeOK, NotFound, Nil
<1>3. ChainComplete' /\ BlocksSound' /\ AgesSound'
  BY <1>1 DEF HeapInv, NotFound, ChainComplete, Newest, BlocksSound, AgesSound
<1>4. WalkSound' /\ ExitReleasesAll'
  BY DEF NotFound, WalkSound, ExitReleasesAll
<1> QED
  BY <1>2, <1>3, <1>4 DEF HeapInv

LEMMA UnlinkIsRemoved ==
  ASSUME HeapInv, Unlink
  PROVE  Removed(Cursor, slot)
<1>1. slot \in Live \cup {Nil}
  BY DEF HeapInv, WalkSound
<1>2. Cursor \in Live
  BY <1>1 DEF Unlink, Cursor, HeapInv, ChainComplete, Newest
<1> QED
  BY <1>1, <1>2 DEF Unlink, LinkPast, Removed, Cursor

LEMMA UnlinkInv == HeapInv /\ Unlink => HeapInv'
<1> SUFFICES ASSUME HeapInv, Unlink PROVE HeapInv'
  OBVIOUS
<1>1. Removed(Cursor, slot)
  BY UnlinkIsRemoved
<1>2. TypeOK'
  BY <1>1, RemovedInv DEF Unlink, HeapInv, TypeOK, Nil
<1>3. WalkSound' /\ ExitReleasesAll'
  BY DEF Unlink, WalkSound, ExitReleasesAll
<1> QED
  BY <1>1, <1>2, <1>3, RemovedInv DEF HeapInv

LEMMA ExitInv == HeapInv /\ Exit => HeapInv'
<1> SUFFICES ASSUME HeapInv, Exit PROVE HeapInv'
  OBVIOUS
<1>1. Live' = Live
  BY DEF Exit, Live
<1>2. TypeOK'
  BY DEF HeapInv, TypeOK, Exit
<1>3. ChainComplete' /\ BlocksSound' /\ AgesSound'
  BY <1>1 DEF HeapInv, Exit, ChainComplete, Newest, BlocksSound, AgesSound
<1>4. WalkSound' /\ ExitReleasesAll'
  BY DEF HeapInv, Exit, WalkSound, ExitReleasesAll
<1> QED
  BY <1>2, <1>3, <1>4 DEF HeapInv

LEMMA FreeAllIsRemoved ==
  ASSUME HeapInv, FreeAllNode
  PROVE  Removed(head, Nil)
  BY DEF FreeAllNode, Removed, HeapInv, ChainComplete, Newest

LEMMA FreeAllStepInv == HeapInv /\ FreeAllStep => HeapInv'
<1>1. ASSUME HeapInv, FreeAllNode PROVE HeapInv'
  <2>1. Removed(head, Nil)
    BY <1>1, FreeAllIsRemoved
  <2>2. TypeOK'
    BY <1>1, <2>1, RemovedInv DEF FreeAllNode, HeapInv, TypeOK
  <2>3. slot = Nil /\ arg = Nil
    BY <1>1 DEF FreeAllNode, HeapInv, WalkSound
  <2>4. WalkSound' /\ ExitReleasesAll'
    BY <1>1, <2>3 DEF FreeAllNode, WalkSound, ExitReleasesAll
  <2> QED
    BY <1>1, <2>1, <2>2, <2>4, RemovedInv DEF HeapInv
<1>2. ASSUME HeapInv, FreeAllDone PROVE HeapInv'
  <2>1. Live' = Live /\ Live = {}
    <3>1. Live # {} => head \in Live
      BY <1>2 DEF HeapInv, ChainComplete, Newest
    <3> QED
      BY <1>2, <3>1 DEF FreeAllDone, Live, Nil, Addr
  <2>2. TypeOK'
    BY <1>2 DEF FreeAllDone, HeapInv, TypeOK
  <2>3. ChainComplete' /\ BlocksSound' /\ AgesSound'
    BY <1>2, <2>1 DEF HeapInv, FreeAllDone, ChainComplete, Newest, BlocksSound, AgesSound
  <2>4. WalkSound' /\ ExitReleasesAll'
    BY <1>2, <2>1 DEF HeapInv, FreeAllDone, WalkSound, ExitReleasesAll
  <2> QED
    BY <2>2, <2>3, <2>4 DEF HeapInv
<1> QED
  BY <1>1, <1>2 DEF FreeAllStep

LEMMA AllocInv == ASSUME NonEmptyRequests PROVE HeapInv /\ Alloc => HeapInv'
<1> SUFFICES ASSUME HeapInv, Alloc PROVE HeapInv'
  OBVIOUS
<1>1. CASE \E n \in NewSizes : New(n)
  <2>1. PICK n \in NewSizes : AllocNode(n, 1)
    BY <1>1 DEF New
  <2>2. n \in Nat /\ n > 0
    BY <2>1, HeapAssumption DEF NonEmptyRequests
  <2> QED
    BY <2>1, <2>2, AllocNodeInv
<1>2. CASE \E n \in StringSizes : NewString(n)
  <2>1. PICK n \in StringSizes : AllocNode(n + 9, 2)
    BY <1>2 DEF NewString
  <2>2. n + 9 \in Nat /\ n + 9 > 8
    BY <2>1, HeapAssumption
  <2> QED
    BY <2>1, <2>2, AllocNodeInv
<1> QED
  BY <1>1, <1>2 DEF Alloc

LEMMA StutterInv == HeapInv /\ UNCHANGED vars => HeapInv'
<1> SUFFICES ASSUME HeapInv, UNCHANGED vars PROVE HeapInv'
  OBVIOUS
<1>1. Live' = Live
  BY DEF vars, Live
<1>2. TypeOK'
  BY DEF HeapInv, TypeOK, vars
<1>3. ChainComplete' /\ BlocksSound' /\ AgesSound'
  BY <1>1 DEF HeapInv, vars, ChainComplete, Newest, BlocksSound, AgesSound
<1>4. WalkSound' /\ ExitReleasesAll'
  BY <1>1 DEF HeapInv, vars, WalkSound, ExitReleasesAll, NamesBlock, Matches
<1> QED
  BY <1>2, <1>3, <1>4 DEF HeapInv

-----------------------------------------------------------------------------
(* The theorems.                                                           *)

\* The chain, the headers and the walk stay sound in every program that makes
\* no empty request: the strengthening every other theorem rests on.
THEOREM HeapInvariant == ASSUME NonEmptyRequests PROVE Spec => []HeapInv
<1>1. Init => HeapInv
  BY InitHeapInv
<1>2. HeapInv /\ [Next]_vars => HeapInv'
  BY AllocInv, CallInv, WalkOnInv, NotFoundInv, UnlinkInv, ExitInv,
     FreeAllStepInv, StutterInv DEF Next, WalkStep
<1> QED
  BY <1>1, <1>2, PTL DEF Spec

\* Types of the heap's state.
THEOREM HeapTypes == ASSUME NonEmptyRequests PROVE Spec => []TypeOK
<1>1. HeapInv => TypeOK
  BY DEF HeapInv
<1> QED
  BY <1>1, HeapInvariant, PTL

\* The chain at 8(A4) is the granted blocks, newest first, each one once.
THEOREM HeapChain == ASSUME NonEmptyRequests PROVE Spec => []ChainComplete
<1>1. HeapInv => ChainComplete
  BY DEF HeapInv
<1> QED
  BY <1>1, HeapInvariant, PTL

\* A program that has ended holds no memory.
THEOREM HeapExit == ASSUME NonEmptyRequests PROVE Spec => []ExitReleasesAll
<1>1. HeapInv => ExitReleasesAll
  BY DEF HeapInv
<1> QED
  BY <1>1, HeapInvariant, PTL

\* __dispose frees the block its argument names and no other.
THEOREM HeapDispose == ASSUME NonEmptyRequests PROVE Spec => DisposeFreesItsOwn
<1> DEFINE Own == pc = "walk" => \A a \in Addr :
       granted[a] # 0 /\ granted'[a] # granted[a] => NamesBlock(arg, a)
<1>1. HeapInv /\ [Next]_vars => [Own]_vars
  <2> SUFFICES ASSUME HeapInv, Next, pc = "walk" PROVE Own
    OBVIOUS
  <2>1. CASE Unlink
    <3>1. Removed(Cursor, slot) /\ Matches(Cursor)
      BY <2>1, UnlinkIsRemoved DEF Unlink
    <3>2. NamesBlock(arg, Cursor)
      BY <3>1, MatchIsOwn DEF Removed
    <3>3. granted' = [granted EXCEPT ![Cursor] = 0]
      BY <3>1, RemovedFrame
    <3> QED
      BY <3>2, <3>3 DEF HeapInv, TypeOK
  <2>2. CASE ~Unlink
    <3>1. UNCHANGED granted
      BY <2>2 DEF Next, Alloc, New, NewString, AllocNode, Call, DisposeHeld,
         DisposeLink, DisposeForeign, CallDispose, WalkStep, WalkOn, NotFound,
         Exit, FreeAllStep, FreeAllNode, FreeAllDone
    <3> QED
      BY <3>1
  <2> QED
    BY <2>1, <2>2
<1> QED
  BY <1>1, HeapInvariant, PTL DEF Spec, DisposeFreesItsOwn

\* A walk gives up only on a pointer that names no block of the program.
THEOREM HeapNotFound == ASSUME NonEmptyRequests PROVE Spec => NotFoundOnlyForeign
<1> DEFINE Gone == pc = "walk" /\ pc' = "run" /\ granted' = granted =>
                     \A a \in Live : arg # a + off[a]
<1>1. HeapInv /\ [Next]_vars => [Gone]_vars
  <2> SUFFICES ASSUME HeapInv, Next, pc = "walk", pc' = "run", granted' = granted,
                      NEW a \in Live, arg = a + off[a]
               PROVE  FALSE
    OBVIOUS
  <2>1. a \in Addr /\ off[a] \in 1..2
    BY DEF Live, HeapInv, TypeOK, BlocksSound
  <2>2. Matches(a)
    BY <2>1 DEF Matches, Addr
  <2>3. ~Unlink
    <3> SUFFICES ASSUME Unlink PROVE FALSE
      OBVIOUS
    <3>1. Removed(Cursor, slot)
      BY UnlinkIsRemoved
    <3>2. granted' = [granted EXCEPT ![Cursor] = 0] /\ Cursor \in Addr
      BY <3>1, RemovedFrame
    <3> QED
      BY <3>1, <3>2 DEF Removed, Live, HeapInv, TypeOK
  <2>4. NotFound
    BY <2>3 DEF Next, Alloc, New, NewString, AllocNode, Call, DisposeHeld,
       DisposeLink, DisposeForeign, CallDispose, WalkStep, WalkOn, Exit,
       FreeAllStep, FreeAllNode, FreeAllDone
  <2>5. Cursor = Nil
    BY <2>4 DEF NotFound
  <2>6. CASE slot = Nil
    BY <2>5, <2>6 DEF Cursor, HeapInv, ChainComplete, Newest, Live, Nil, Addr
  <2>7. CASE slot # Nil
    <3>1. /\ slot \in Live /\ next[slot] = Nil
          /\ \A b \in Live : age[b] >= age[slot] => ~Matches(b)
      BY <2>5, <2>7 DEF Cursor, HeapInv, WalkSound
    <3>2. Newest({b \in Live : age[b] < age[slot]}, Nil)
      BY <3>1 DEF HeapInv, ChainComplete
    <3>3. ~(age[a] < age[slot])
      BY <3>1, <3>2 DEF Newest, Live, Nil, Addr
    <3>4. age[a] \in Nat /\ age[slot] \in Nat
      BY <2>1, <3>1 DEF HeapInv, TypeOK, Live
    <3> QED
      BY <2>2, <3>1, <3>3, <3>4
  <2> QED
    BY <2>6, <2>7
<1> QED
  BY <1>1, HeapInvariant, PTL DEF Spec, NotFoundOnlyForeign

-----------------------------------------------------------------------------
(* The heap implements HeapSpec: every step of the chain code is a step of *)
(* the set of blocks, or none.                                             *)

BlockAt(a) == [at |-> a, len |-> granted[a], off |-> off[a]]

LEMMA RemovedBlocks ==
  ASSUME HeapInv, NEW n, NEW p, Removed(n, p)
  PROVE  BlockAt(n) \in BlocksOf /\ BlocksOf' = BlocksOf \ {BlockAt(n)}
<1>1. Live' = Live \ {n} /\ n \in Live
  BY RemovedFrame DEF Removed
<1>2. \A b \in Live' : BlockAt(b)' = BlockAt(b)
  BY <1>1, RemovedFrame DEF BlockAt
<1>3. BlocksOf = {BlockAt(b) : b \in Live}
  BY DEF BlocksOf, BlockAt
<1>4. BlocksOf' = {BlockAt(b)' : b \in Live'}
  BY DEF BlocksOf, BlockAt
<1>5. \A b \in Live : BlockAt(b) = BlockAt(n) => b = n
  BY DEF BlockAt
<1> QED
  BY <1>1, <1>2, <1>3, <1>4, <1>5

LEMMA AllocRefines ==
  ASSUME HeapInv, NEW n \in Nat, NEW o \in 1..2, AllocNode(n, o)
  PROVE  Abstract!Acquire
<1> DEFINE k == Units(n + 8)
<1>1. PICK a \in Addr :
       /\ Room(a, k)
       /\ granted' = [granted EXCEPT ![a] = k]
       /\ off'     = [off EXCEPT ![a] = o]
  BY DEF AllocNode
<1>2. k \in Nat /\ k # 0 /\ pc = "run" /\ pc' = "run"
  BY UnitsOfRequest DEF AllocNode, Units
<1> HIDE DEF k
<1>3. a \in Int /\ 1 <= a /\ a + k - 1 <= Memory /\ Memory \in Int
  BY <1>1, HeapAssumption DEF Room, Addr
<1>4. a \notin Live /\ Live \subseteq Addr
  BY <1>1, <1>2, <1>3 DEF Room, Live, HeapInv, TypeOK
<1>5. Live' = Live \cup {a}
  BY <1>1, <1>2 DEF Live, HeapInv, TypeOK
<1>6. BlockAt(a)' = [at |-> a, len |-> k, off |-> o]
  BY <1>1 DEF BlockAt, HeapInv, TypeOK
<1>7. \A b \in Live : BlockAt(b)' = BlockAt(b)
  BY <1>1, <1>4 DEF BlockAt, HeapInv, TypeOK
<1>8. BlocksOf = {BlockAt(b) : b \in Live} /\ BlocksOf' = {BlockAt(b)' : b \in Live'}
  BY DEF BlocksOf, BlockAt
<1>9. BlocksOf' = BlocksOf \cup {BlockAt(a)'}
  BY <1>5, <1>7, <1>8
<1>10. BlockAt(a)' \in Abstract!Block
  BY <1>2, <1>3, <1>6 DEF Abstract!Block
<1>11. \A c \in BlocksOf : Abstract!Apart(BlockAt(a)', c)
  <2> SUFFICES ASSUME NEW b \in Live PROVE Abstract!Apart(BlockAt(a)', BlockAt(b))
    BY <1>8
  <2>1. a + k <= b \/ b + granted[b] <= a
    BY <1>1 DEF Room
  <2> QED
    BY <2>1, <1>6 DEF BlockAt, Abstract!Apart
<1> QED
  BY <1>2, <1>9, <1>10, <1>11 DEF Abstract!Acquire

LEMMA UnlinkRefines ==
  ASSUME HeapInv, Unlink
  PROVE  \E p \in 1..Memory + 2 : Abstract!Dispose(p)
<1>1. Removed(Cursor, slot) /\ Matches(Cursor) /\ pc = "walk" /\ pc' = "run"
  BY UnlinkIsRemoved DEF Unlink
<1>2. NamesBlock(arg, Cursor)
  BY <1>1, MatchIsOwn DEF Removed
<1>3. Cursor \in Live /\ Live \subseteq Addr
  BY <1>1 DEF Removed, Live
<1>4. arg \in 1..Memory + 2
  BY <1>1, <1>3, HeapAssumption DEF Matches, Addr
<1>5. BlockAt(Cursor) \in BlocksOf /\ BlocksOf' = BlocksOf \ {BlockAt(Cursor)}
  BY <1>1, RemovedBlocks
<1>6. Abstract!Names(arg, BlockAt(Cursor))
  BY <1>2 DEF NamesBlock, BlockAt, Abstract!Names
<1> QED
  BY <1>1, <1>4, <1>5, <1>6 DEF Abstract!Dispose

LEMMA FreeAllRefines ==
  ASSUME HeapInv, FreeAllStep
  PROVE  Abstract!Release \/ Abstract!Finish
<1>1. CASE FreeAllNode
  <2>1. Removed(head, Nil)
    BY <1>1, FreeAllIsRemoved
  <2>2. BlockAt(head) \in BlocksOf /\ BlocksOf' = BlocksOf \ {BlockAt(head)}
    BY <2>1, RemovedBlocks
  <2> QED
    BY <1>1, <2>2 DEF FreeAllNode, Abstract!Release
<1>2. CASE FreeAllDone
  <2>1. Live # {} => head \in Live
    BY DEF HeapInv, ChainComplete, Newest
  <2>2. Live = {}
    BY <1>2, <2>1 DEF FreeAllDone, Live, Nil, Addr
  <2>3. BlocksOf = {} /\ BlocksOf' = BlocksOf
    BY <1>2, <2>2 DEF FreeAllDone, BlocksOf, Live
  <2> QED
    BY <1>2, <2>3 DEF FreeAllDone, Abstract!Finish
<1> QED
  BY <1>1, <1>2 DEF FreeAllStep

LEMMA QuietRefines ==
  ASSUME UNCHANGED <<granted, off>>
  PROVE  UNCHANGED BlocksOf
  BY DEF BlocksOf, Live

\* The chain of headers implements the set of disjoint blocks of HeapSpec.
THEOREM HeapRefinement == ASSUME NonEmptyRequests PROVE Spec => ImplementsHeapSpec
<1>1. Init => Abstract!Init
  BY DEF Init, Abstract!Init, BlocksOf, Live
<1>2. HeapInv /\ [Next]_vars => [Abstract!Next]_(Abstract!specVars)
  <2> SUFFICES ASSUME HeapInv, [Next]_vars
               PROVE  Abstract!Next \/ UNCHANGED Abstract!specVars
    OBVIOUS
  <2>1. CASE Alloc
    <3>1. CASE \E n \in NewSizes : New(n)
      BY <3>1, HeapAssumption, AllocRefines DEF New, Abstract!Next
    <3>2. CASE \E n \in StringSizes : NewString(n)
      <4>1. PICK n \in StringSizes : AllocNode(n + 9, 2)
        BY <3>2 DEF NewString
      <4>2. n + 9 \in Nat
        BY <4>1, HeapAssumption
      <4> QED
        BY <4>1, <4>2, AllocRefines DEF Abstract!Next
    <3> QED
      BY <2>1, <3>1, <3>2 DEF Alloc
  <2>2. CASE Call
    BY <2>2, QuietRefines DEF Call, DisposeHeld, DisposeLink, DisposeForeign,
       CallDispose, Abstract!specVars
  <2>3. CASE WalkOn \/ NotFound
    BY <2>3, QuietRefines DEF WalkOn, NotFound, Abstract!specVars
  <2>4. CASE Unlink
    BY <2>4, UnlinkRefines DEF Abstract!Next
  <2>5. CASE Exit
    BY <2>5, QuietRefines DEF Exit, Abstract!Exit, Abstract!Next
  <2>6. CASE FreeAllStep
    BY <2>6, FreeAllRefines DEF Abstract!Next
  <2>7. CASE UNCHANGED vars
    BY <2>7, QuietRefines DEF vars, Abstract!specVars
  <2> QED
    BY <2>1, <2>2, <2>3, <2>4, <2>5, <2>6, <2>7 DEF Next, WalkStep
<1> QED
  BY <1>1, <1>2, HeapInvariant, PTL DEF Spec, ImplementsHeapSpec, Abstract!Spec
=============================================================================
