-------------------------------- MODULE Heap --------------------------------
(***************************************************************************)
(* The heap of a compiled E program: the assembly routines __new,          *)
(* __newstring, __dispose and __freeall that codegen.js emits, and the     *)
(* expressions that call them.  Every block carries an 8-byte header       *)
(* [next.l, total.l]; the newest block is at the head of the chain, whose  *)
(* address is the global at 8(A4).                                         *)
(*                                                                         *)
(* Addresses are counted in units of 8 bytes, the granularity of exec's    *)
(* AllocMem; sizes are in bytes, as the code passes them.  Address 0 is    *)
(* NIL.  The walk of __dispose is modelled step by step, with the pointer  *)
(* to the slot it came from (A0) and the argument (D0).                    *)
(***************************************************************************)
EXTENDS Integers

CONSTANTS
  Memory,       \* units of memory exec can hand out
  NewSizes,     \* byte sizes a program asks of New, NEW, Cons and Cell
  StringSizes,  \* lengths a program asks of String
  Foreign,      \* addresses of static data a program may pass to Dispose
  MaxAllocs     \* bound: allocations in one behaviour

ASSUME HeapAssumption ==
  /\ Memory \in Nat
  /\ NewSizes \subseteq Nat
  /\ StringSizes \subseteq Nat
  /\ Foreign \subseteq Int
  /\ \A p \in Foreign : p > Memory + 2
  /\ MaxAllocs \in Nat

Nil  == 0
Addr == 1..Memory

\* What exec writes over the first 8 bytes of a block it takes back.
Clobbered == -1

VARIABLES
  granted,  \* exec's view: the length in units of the block at an address, or 0
  next,     \* first header word of the block at an address
  total,    \* second header word: the size that was asked of AllocMem
  head,     \* the chain head, 8(A4)
  off,      \* distance of the program's pointer from its block, 0 if none
  age,      \* history: which allocation made the block, 0 if none
  clock,    \* history: allocations so far
  pc,       \* "run", "walk" inside __dispose, "freeall", "exited"
  arg,      \* D0 of __dispose
  slot      \* A0 of __dispose: the node whose next word is read, Nil for head

vars == <<granted, next, total, head, off, age, clock, pc, arg, slot>>

-----------------------------------------------------------------------------
(* exec's allocator, as the routines use it.                               *)

Units(bytes) == (bytes + 7) \div 8

Live == {a \in Addr : granted[a] # 0}

\* There is room for n units at a, clear of every granted block.
Room(a, n) ==
  /\ a + n - 1 <= Memory
  /\ \A b \in Live : a + n <= b \/ b + granted[b] <= a

\* FreeMem(a, bytes) gives back the block granted at a when the size is the one
\* it was granted with; with any other size exec's free list and the program
\* disagree for good about who owns the units, so the block stays granted here.
FreeMem(a, bytes) ==
  granted' = [granted EXCEPT ![a] = IF Units(bytes) = @ THEN 0 ELSE @]

-----------------------------------------------------------------------------
Init ==
  /\ granted = [a \in Addr |-> 0]
  /\ next    = [a \in Addr |-> Clobbered]
  /\ total   = [a \in Addr |-> Clobbered]
  /\ head    = Nil
  /\ off     = [a \in Addr |-> 0]
  /\ age     = [a \in Addr |-> 0]
  /\ clock   = 0
  /\ pc      = "run"
  /\ arg     = Nil
  /\ slot    = Nil

\* The two header words of a fresh node, which then goes to the head.
HeaderLosesChain(a, n) ==
  /\ next'  = [next EXCEPT ![a] = Nil]
  /\ total' = [total EXCEPT ![a] = n + 8]
  /\ head'  = a

HeaderOfData(a, n) ==
  /\ next'  = [next EXCEPT ![a] = head]
  /\ total' = [total EXCEPT ![a] = n]
  /\ head'  = a

Header(a, n) ==
  /\ next'  = [next EXCEPT ![a] = head]
  /\ total' = [total EXCEPT ![a] = n + 8]
  /\ head'  = a

\* __new for n bytes: AllocMem(n+8), then the node goes to the head of the
\* chain.  AllocMem may find no room anywhere (the routine then returns NIL and
\* changes nothing).  o is the offset of the pointer the caller hands on.
AllocNode(n, o) ==
  /\ pc = "run"
  /\ clock < MaxAllocs
  /\ \E a \in Addr :
       /\ Room(a, Units(n + 8))
       /\ granted' = [granted EXCEPT ![a] = Units(n + 8)]
       /\ Header(a, n)
       /\ off'     = [off EXCEPT ![a] = o]
       /\ age'     = [age EXCEPT ![a] = clock + 1]
  /\ clock' = clock + 1
  /\ UNCHANGED <<pc, arg, slot>>

\* New(n), FastNew(n), NEW p, Cons and Cell: the pointer is the data address.
New(n) == AllocNode(n, 1)

\* String(n): maxlen+9 bytes of data, the characters start 8 bytes into them
\* (after the link field, the maximum and the current length).
NewString(n) == AllocNode(n + 9, 2)

\* A call of __dispose: NIL returns at once (no step), any other pointer starts
\* the walk at the head slot.
CallDispose(p) ==
  /\ pc = "run"
  /\ p # Nil
  /\ pc'   = "walk"
  /\ arg'  = p
  /\ slot' = Nil
  /\ UNCHANGED <<granted, next, total, head, off, age, clock>>

\* The program disposes of what it holds: Dispose(p), FastDispose(p), END p.
DisposeHeld == \E a \in Live : off[a] # 0 /\ CallDispose(a + off[a])

\* DisposeLink(s) passes the address of the link field, 8 bytes below s.
DisposeLink == \E a \in Live : off[a] = 2 /\ CallDispose(a + off[a] - 1)

\* Dispose of a static string or list.
DisposeForeign == \E p \in Foreign : CallDispose(p)

\* The node the walk is about to look at: *A0.
Cursor == IF slot = Nil THEN head ELSE next[slot]

MatchesData(n) == arg = n + 1

MatchesFrom(n) == arg >= n + 1

Matches(n) == arg = n + 1 \/ arg = n + 2

WalkOnTheSpot ==
  /\ pc = "walk"
  /\ Cursor # Nil
  /\ ~Matches(Cursor)
  /\ UNCHANGED vars

WalkOn ==
  /\ pc = "walk"
  /\ Cursor # Nil
  /\ ~Matches(Cursor)
  /\ slot' = Cursor
  /\ UNCHANGED <<granted, next, total, head, off, age, clock, pc, arg>>

NotFound ==
  /\ pc = "walk"
  /\ Cursor = Nil
  /\ pc' = "run"
  /\ arg' = Nil
  /\ slot' = Nil
  /\ UNCHANGED <<granted, next, total, head, off, age, clock>>

\* The word at A0, the head global or a next word, is set to the next word of n
\* (whose own words exec then overwrites).
LinkPastNotHead(n) ==
  /\ head' = head
  /\ next' = IF slot = Nil THEN [next EXCEPT ![n] = Clobbered]
             ELSE [next EXCEPT ![slot] = next[n], ![n] = Clobbered]

LinkPast(n) ==
  /\ head' = IF slot = Nil THEN next[n] ELSE head
  /\ next' = IF slot = Nil THEN [next EXCEPT ![n] = Clobbered]
             ELSE [next EXCEPT ![slot] = next[n], ![n] = Clobbered]

\* The node leaves the chain through the slot it was found in, then FreeMem
\* takes it back with the size in its header.
Unlink ==
  /\ pc = "walk"
  /\ Cursor # Nil
  /\ Matches(Cursor)
  /\ LET n == Cursor IN
       /\ LinkPast(n)
       /\ FreeMem(n, total[n])
       /\ total' = [total EXCEPT ![n] = Clobbered]
       /\ off'   = [off EXCEPT ![n] = 0]
       /\ age'   = [age EXCEPT ![n] = 0]
  /\ pc' = "run"
  /\ arg' = Nil
  /\ slot' = Nil
  /\ UNCHANGED clock

\* The program reaches __exit, which calls __freeall.
Exit ==
  /\ pc = "run"
  /\ pc' = "freeall"
  /\ UNCHANGED <<granted, next, total, head, off, age, clock, arg, slot>>

FreeAllFirst ==
  /\ pc = "freeall"
  /\ head # Nil
  /\ head'  = Nil
  /\ FreeMem(head, total[head])
  /\ next'  = [next EXCEPT ![head] = Clobbered]
  /\ total' = [total EXCEPT ![head] = Clobbered]
  /\ off'   = [off EXCEPT ![head] = 0]
  /\ age'   = [age EXCEPT ![head] = 0]
  /\ UNCHANGED <<clock, pc, arg, slot>>

FreeAllNode ==
  /\ pc = "freeall"
  /\ head # Nil
  /\ head'  = next[head]
  /\ FreeMem(head, total[head])
  /\ next'  = [next EXCEPT ![head] = Clobbered]
  /\ total' = [total EXCEPT ![head] = Clobbered]
  /\ off'   = [off EXCEPT ![head] = 0]
  /\ age'   = [age EXCEPT ![head] = 0]
  /\ UNCHANGED <<clock, pc, arg, slot>>

FreeAllDone ==
  /\ pc = "freeall"
  /\ head = Nil
  /\ pc' = "exited"
  /\ UNCHANGED <<granted, next, total, head, off, age, clock, arg, slot>>
-----------------------------------------------------------------------------
Alloc == (\E n \in NewSizes : New(n)) \/ (\E n \in StringSizes : NewString(n))

Call == DisposeHeld \/ DisposeLink \/ DisposeForeign

WalkStep == WalkOn \/ NotFound \/ Unlink

FreeAllStep == FreeAllNode \/ FreeAllDone

Next == Alloc \/ Call \/ WalkStep \/ Exit \/ FreeAllStep

Spec == Init /\ [][Next]_vars

\* The routines are straight-line code with no wait in them: once entered, the
\* processor runs them.  Nothing makes the program allocate, dispose or end.
FairSpec == Spec /\ WF_vars(WalkStep) /\ WF_vars(FreeAllStep)

-----------------------------------------------------------------------------
(* Invariants.                                                             *)

TypeOK ==
  /\ granted \in [Addr -> Nat]
  /\ next \in [Addr -> Int]
  /\ total \in [Addr -> Int]
  /\ head \in Addr \cup {Nil}
  /\ off \in [Addr -> 0..2]
  /\ age \in [Addr -> Nat]
  /\ clock \in Nat
  /\ pc \in {"run", "walk", "freeall", "exited"}
  /\ arg \in Int
  /\ slot \in Addr \cup {Nil}

\* The chain is the granted blocks from the newest to the oldest, every one of
\* them once: the head is the newest and each next word leads to the newest
\* block older than its own (so nothing is lost when one is unlinked).
Newest(S, x) ==
  IF S = {} THEN x = Nil ELSE x \in S /\ \A b \in S : age[b] <= age[x]

ChainComplete ==
  /\ Newest(Live, head)
  /\ \A a \in Live : Newest({b \in Live : age[b] < age[a]}, next[a])

\* The granted blocks do not overlap, their headers hold the sizes they were
\* granted with, and the program holds one pointer into each and into no other.
BlocksSound ==
  /\ \A a \in Live : /\ Units(total[a]) = granted[a]
                     /\ a + granted[a] <= Memory + 1
                     /\ granted[a] > off[a]
  /\ \A a, b \in Live : a < b => a + granted[a] <= b
  /\ \A a \in Addr : off[a] # 0 <=> granted[a] # 0

AgesSound ==
  /\ \A a \in Live : age[a] \in 1..clock
  /\ \A a, b \in Live : age[a] = age[b] => a = b

\* p is a pointer by which the program may dispose of the block at a: the data
\* address, or for an estring the link field below it as well.
NamesBlock(p, a) == p = a + off[a] \/ p = a + 1

\* Half-way through a walk, the argument is static or names a block, and every
\* block the walk has passed is one that the argument does not match.
WalkSound ==
  /\ pc # "walk" => slot = Nil /\ arg = Nil
  /\ pc = "walk" => \/ arg \in Foreign
                    \/ \E a \in Live : NamesBlock(arg, a)
  /\ slot # Nil => /\ slot \in Live
                   /\ \A b \in Live : age[b] >= age[slot] => ~Matches(b)

\* When the program has ended nothing is left granted to it, whatever it
\* disposed of before ("auto-free at exit").
ExitReleasesAll == pc = "exited" => Live = {}

\* The inductive invariant.
HeapInv ==
  /\ TypeOK
  /\ ChainComplete
  /\ BlocksSound
  /\ AgesSound
  /\ WalkSound
  /\ ExitReleasesAll

-----------------------------------------------------------------------------
(* Action properties.                                                      *)

\* __dispose frees the block whose pointer it was given, and no other: the code
\* matches node+8 or node+16, one of which might be a neighbour's.
DisposeFreesItsOwn ==
  [][pc = "walk" => \A a \in Addr :
       granted[a] # 0 /\ granted'[a] # granted[a] => NamesBlock(arg, a)]_vars

\* __dispose gives up ("not found: ignore") only on a pointer that names none of
\* the program's blocks: nothing it was asked to free stays behind.
NotFoundOnlyForeign ==
  [][pc = "walk" /\ pc' = "run" /\ granted' = granted =>
       \A a \in Live : arg # a + off[a]]_vars

-----------------------------------------------------------------------------
(* Liveness: the loops over the chain end.                                 *)

\* Every __dispose returns and every program that exits ends: neither loop can
\* go round on a chain that bites its tail.
LoopsEnd == /\ pc = "walk" ~> pc = "run"
            /\ pc = "freeall" ~> pc = "exited"

-----------------------------------------------------------------------------
(* The heap implements its abstract specification.                         *)

BlocksOf == {[at |-> a, len |-> granted[a], off |-> off[a]] : a \in Live}

Abstract == INSTANCE HeapSpec WITH
  blocks <- BlocksOf,
  phase  <- IF pc = "walk" THEN "run" ELSE pc

\* Every step of the chain code is one step of the abstract heap or none.
ImplementsHeapSpec == Abstract!Spec
=============================================================================
