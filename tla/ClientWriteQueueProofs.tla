----------------------- MODULE ClientWriteQueueProofs -----------------------
(***************************************************************************)
(* Proofs about module ClientWriteQueue, for any number of packets of any  *)
(* number of blocks.                                                       *)
(***************************************************************************)
EXTENDS ClientWriteQueue, SequenceTheorems, TLAPS

-----------------------------------------------------------------------------
(* Types *)

\* What thread t has loaded has the type of what it is used for.
Loaded(t) ==
  /\ pc[t] \in {"push", "store"} => todo[t] # <<>>
  /\ pc[t] = "store" => at[t] <= Len(slots)
  /\ pc[t] \in {"front", "resize", "pop", "write"} => block[t] \in Block
  /\ pc[t] = "resize" => at[t] \in 0 .. MaxSends

TypeInv == TypeOK /\ \A t \in Thread : Loaded(t)

LEMMA TypeInit == Init => TypeInv
<1> SUFFICES ASSUME Init PROVE TypeInv
  OBVIOUS
<1>1. /\ <<>> \in Seq(Block) /\ <<>> \in Seq(1 .. MaxBlocks)
      /\ <<>> \in Seq([block : Block, for : 0 .. MaxSends])
      /\ <<>> \in Seq([block : Block, for : 0 .. MaxSends, dangling : BOOLEAN])
  OBVIOUS
<1>2. MaxSends \in Nat /\ 0 \in 0 .. MaxSends
  BY ClientWriteQueueAssumption
<1>3. None \in AnyBlock
  BY DEF AnyBlock
<1> HIDE DEF Block, None, AnyBlock
<1>4. TypeOK
  <2>1. slots \in Seq(Block) /\ start \in Nat /\ finish \in 0 .. Len(slots)
    BY <1>1 DEF Init
  <2>2. resized \in [Block -> 0 .. MaxSends]
    BY <1>2 DEF Init
  <2>3. /\ todo \in [Thread -> Seq(Block)] /\ at \in [Thread -> Nat]
        /\ block \in [Thread -> AnyBlock]
    BY <1>1, <1>3 DEF Init
  <2>4. /\ ops \in Seq([block : Block, for : 0 .. MaxSends])
        /\ wire \in Seq([block : Block, for : 0 .. MaxSends,
                         dangling : BOOLEAN])
        /\ packets \in Seq(1 .. MaxBlocks)
    BY <1>1 DEF Init
  <2>5. Len(packets) <= MaxSends /\ done \in Nat
    <3>1. Len(packets) = 0 /\ done = 0
      BY DEF Init
    <3> QED BY <1>2, <3>1
  <2>6. pc \in [Thread -> {"idle", "push", "store", "front", "resize", "size",
                           "take", "pop", "write", "ended"}]
    BY DEF Init
  <2>7. raced \in BOOLEAN
    BY DEF Init
  <2> QED BY <2>1, <2>2, <2>3, <2>4, <2>5, <2>6, <2>7 DEF TypeOK
<1> QED BY <1>4 DEF TypeInv, Loaded, Init

\* The blocks that send makes of a packet.
LEMMA BlocksType ==
  ASSUME NEW p \in 1 .. MaxSends, NEW n \in 1 .. MaxBlocks
  PROVE  Blocks(p, n) \in Seq(Block) /\ Blocks(p, n) # <<>>
<1>1. n \in Nat /\ n >= 1
  BY ClientWriteQueueAssumption
<1>2. \A i \in 1 .. n : [packet |-> p, index |-> i] \in Block
  BY ClientWriteQueueAssumption, <1>1 DEF Block
<1>3. Len(Blocks(p, n)) = n /\ Blocks(p, n) \in Seq(Block)
  BY <1>1, <1>2 DEF Blocks
<1> QED BY <1>1, <1>3

LEMMA TypeStep == TypeInv /\ [Next]_vars => TypeInv'
<1> USE DEF queue, threads, socket
<1> SUFFICES ASSUME TypeInv, [Next]_vars PROVE TypeInv'
  OBVIOUS
<1>0. MaxSends \in Nat /\ TypeOK /\ \A u \in Thread : Loaded(u)
  BY ClientWriteQueueAssumption DEF TypeInv
<1>a. ASSUME NEW t \in Thread, NEW n \in 1 .. MaxBlocks, Send(t, n)
      PROVE  TypeInv'
  <2>1. Len(packets') \in 1 .. MaxSends /\ packets' \in Seq(1 .. MaxBlocks)
        /\ Len(packets') <= MaxSends
    BY <1>0, <1>a DEF Send, TypeOK
  <2>2. Blocks(Len(packets'), n) \in Seq(Block)
        /\ Blocks(Len(packets'), n) # <<>>
    BY <2>1, BlocksType
  <2> HIDE DEF Block
  <2>3. TypeOK'
    BY <1>0, <1>a, <2>1, <2>2 DEF Send, Goto, TypeOK
  <2>4. \A u \in Thread : Loaded(u)'
    BY <1>0, <1>a, <2>1, <2>2 DEF Send, Goto, TypeOK, Loaded
  <2> QED BY <2>3, <2>4 DEF TypeInv
<1>b. ASSUME NEW t \in Thread, Push(t) PROVE TypeInv'
  <2> HIDE DEF Block
  <2>1. TypeOK'
    BY <1>0, <1>b DEF Push, Goto, TypeOK
  <2>2. \A u \in Thread : Loaded(u)'
    BY <1>0, <1>b DEF Push, Goto, TypeOK, Loaded
  <2> QED BY <2>1, <2>2 DEF TypeInv
<1>c. ASSUME NEW t \in Thread, Store(t) PROVE TypeInv'
  <2>1. /\ slots \in Seq(Block) /\ at[t] \in Nat /\ at[t] <= Len(slots)
        /\ todo[t] \in Seq(Block) /\ todo[t] # <<>>
    BY <1>0, <1>c DEF Store, TypeOK, Loaded
  <2> HIDE DEF Block
  <2>2. Head(todo[t]) \in Block /\ Tail(todo[t]) \in Seq(Block)
    BY <2>1, HeadTailProperties
  <2>3. Len(todo[t]) > 1 => Tail(todo[t]) # <<>>
    <3>1. PICK tail \in Seq(Block) :
            tail = Tail(todo[t]) /\ Len(tail) = Len(todo[t]) - 1
      BY <2>1, HeadTailProperties
    <3>2. Len(<<>>) = 0 /\ Len(todo[t]) \in Nat
      BY <2>1, LenProperties
    <3>3. Len(todo[t]) > 1 => tail # <<>>
      BY <3>1, <3>2
    <3> QED BY <3>1, <3>3
  <2>4. PICK k \in Nat : k = IF at[t] < Len(slots) THEN Len(slots) ELSE at[t] + 1
    BY <2>1
  <2>5. /\ slots' \in Seq(Block) /\ Len(slots') = k
        /\ at[t] + 1 <= k /\ Len(slots) <= k
    <3> DEFINE slot(i) == IF i = at[t] + 1 THEN Head(todo[t]) ELSE slots[i]
    <3>1. slots' = [i \in 1 .. k |-> slot(i)]
      BY <1>c, <2>4 DEF Store
    <3>2. \A i \in 1 .. k : i # at[t] + 1 => i \in 1 .. Len(slots)
      BY <2>1, <2>4
    <3>3. \A i \in 1 .. k : slot(i) \in Block
      BY <2>1, <2>2, <3>2
    <3> HIDE DEF slot
    <3>4. slots' \in [1 .. k -> Block]
      BY <3>1, <3>3
    <3>5. slots' \in Seq(Block) /\ Len(slots') = k
      BY <2>4, <3>4, SeqDef, LenProperties
    <3> QED BY <2>1, <2>4, <3>5
  <2>6. TypeOK'
    <3>1. finish' \in 0 .. Len(slots') /\ finish' \in Nat
      BY <1>c, <2>1, <2>5 DEF Store
    <3>2. todo' \in [Thread -> Seq(Block)] /\ block' \in [Thread -> AnyBlock]
      BY <1>0, <1>c, <2>2 DEF Store, TypeOK, AnyBlock
    <3>3. pc' \in [Thread -> {"idle", "push", "store", "front", "resize",
                              "size", "take", "pop", "write", "ended"}]
          /\ raced' \in BOOLEAN
      BY <1>0, <1>c DEF Store, Goto, TypeOK
    <3> QED BY <1>0, <1>c, <2>5, <3>1, <3>2, <3>3 DEF Store, TypeOK
  <2>7. \A u \in Thread : Loaded(u)'
    <3> SUFFICES ASSUME NEW u \in Thread PROVE Loaded(u)'
      OBVIOUS
    <3>1. CASE u = t
      BY <1>0, <1>c, <2>2, <2>3, <3>1 DEF Store, Goto, TypeOK, Loaded
    <3>2. CASE u # t
      <4>1. /\ pc'[u] = pc[u] /\ todo'[u] = todo[u] /\ at'[u] = at[u]
            /\ block'[u] = block[u] /\ at[u] \in Nat
        BY <1>0, <1>c, <3>2 DEF Store, Goto, TypeOK
      <4>2. at[u] <= Len(slots) => at[u] <= Len(slots')
        BY <2>1, <2>5, <4>1
      <4> QED BY <1>0, <4>1, <4>2 DEF Loaded
    <3> QED BY <3>1, <3>2
  <2> QED BY <2>6, <2>7 DEF TypeInv
<1>d. ASSUME NEW t \in Thread, Front(t) PROVE TypeInv'
  <2>1. block[t] \in Block /\ block[t].packet \in 0 .. MaxSends
        /\ block[t].packet \in Nat
    BY <1>0, <1>d DEF Front, Loaded, Block
  <2> HIDE DEF Block
  <2>2. ~(start >= finish) => slots[start + 1] \in Block
    BY <1>0 DEF TypeOK
  <2>3. TypeOK'
    BY <1>0, <1>d, <2>1, <2>2 DEF Front, Goto, TypeOK, AnyBlock
  <2>4. \A u \in Thread : Loaded(u)'
    <3>1. Loaded(t)'
      BY <1>0, <1>d, <2>1, <2>2 DEF Front, Goto, TypeOK, Loaded
    <3>2. ASSUME NEW u \in Thread, u # t PROVE Loaded(u)'
      <4>1. /\ pc'[u] = pc[u] /\ block'[u] = block[u] /\ at'[u] = at[u]
            /\ todo' = todo
        BY <1>0, <1>d, <3>2 DEF Front, Goto, TypeOK
      <4>2. slots' = slots
        BY <1>d DEF Front
      <4> QED BY <1>0, <4>1, <4>2 DEF Loaded
    <3> QED BY <3>1, <3>2
  <2> QED BY <2>3, <2>4 DEF TypeInv
<1>e. ASSUME NEW t \in Thread, Resize(t) PROVE TypeInv'
  <2> HIDE DEF Block
  <2>1. TypeOK'
    BY <1>0, <1>e DEF Resize, Goto, TypeOK, Loaded
  <2>2. \A u \in Thread : Loaded(u)'
    BY <1>0, <1>e DEF Resize, Goto, TypeOK, Loaded
  <2> QED BY <2>1, <2>2 DEF TypeInv
<1>f. ASSUME NEW t \in Thread, Size(t) PROVE TypeInv'
  <2> HIDE DEF Block
  <2>1. TypeOK'
    BY <1>0, <1>f DEF Size, Goto, TypeOK
  <2>2. \A u \in Thread : Loaded(u)'
    BY <1>0, <1>f DEF Size, Goto, TypeOK, Loaded
  <2> QED BY <2>1, <2>2 DEF TypeInv
<1>g. ASSUME NEW t \in Thread, Take(t) PROVE TypeInv'
  <2> HIDE DEF Block
  <2>1. ~(start >= finish) => slots[start + 1] \in Block
    BY <1>0 DEF TypeOK
  <2>2. TypeOK'
    BY <1>0, <1>g, <2>1 DEF Take, Goto, TypeOK, AnyBlock
  <2>3. \A u \in Thread : Loaded(u)'
    BY <1>0, <1>g, <2>1 DEF Take, Goto, TypeOK, Loaded
  <2> QED BY <2>2, <2>3 DEF TypeInv
<1>h. ASSUME NEW t \in Thread, Pop(t) PROVE TypeInv'
  <2> HIDE DEF Block
  <2>1. TypeOK'
    BY <1>0, <1>h DEF Pop, Goto, TypeOK
  <2>2. \A u \in Thread : Loaded(u)'
    BY <1>0, <1>h DEF Pop, Goto, TypeOK, Loaded
  <2> QED BY <2>1, <2>2 DEF TypeInv
<1>i. ASSUME NEW t \in Thread, Write(t) PROVE TypeInv'
  <2> HIDE DEF Block
  <2>1. [block |-> block[t], for |-> resized[block[t]]]
          \in [block : Block, for : 0 .. MaxSends]
    BY <1>0, <1>i DEF Write, TypeOK, Loaded
  <2>2. TypeOK'
    BY <1>0, <1>i, <2>1 DEF Write, Goto, TypeOK
  <2>3. \A u \in Thread : Loaded(u)'
    BY <1>0, <1>i DEF Write, Goto, TypeOK, Loaded
  <2> QED BY <2>2, <2>3 DEF TypeInv
<1>j. ASSUME OnWrite PROVE TypeInv'
  <2> HIDE DEF Block
  <2>1. TypeOK'
    BY <1>0, <1>j DEF OnWrite, Goto, TypeOK, Thread
  <2>2. \A u \in Thread : Loaded(u)'
    BY <1>0, <1>j DEF OnWrite, Goto, TypeOK, Loaded, Thread
  <2> QED BY <2>1, <2>2 DEF TypeInv
<1>k. ASSUME Transmit PROVE TypeInv'
  <2> HIDE DEF Block
  <2> DEFINE w == [block |-> Head(ops).block, for |-> Head(ops).for,
                   dangling |-> resized[Head(ops).block] # Head(ops).for]
  <2>1. Head(ops) \in [block : Block, for : 0 .. MaxSends]
        /\ ops' \in Seq([block : Block, for : 0 .. MaxSends])
    BY <1>0, <1>k, HeadTailProperties DEF Transmit, TypeOK
  <2>2. w \in [block : Block, for : 0 .. MaxSends, dangling : BOOLEAN]
    BY <2>1
  <2>3. wire' = Append(wire, w)
    BY <1>k DEF Transmit
  <2> HIDE DEF w
  <2>4. wire' \in Seq([block : Block, for : 0 .. MaxSends, dangling : BOOLEAN])
    BY <1>0, <2>2, <2>3 DEF TypeOK
  <2>5. TypeOK'
    BY SMTT(30), <1>0, <1>k, <2>1, <2>4 DEF Transmit, TypeOK
  <2>6. \A u \in Thread : Loaded(u)'
    BY <1>0, <1>k DEF Transmit, Loaded
  <2> QED BY <2>5, <2>6 DEF TypeInv
<1>l. ASSUME UNCHANGED vars PROVE TypeInv'
  BY <1>0, <1>l DEF vars, TypeInv, TypeOK, Loaded
<1> QED
  BY <1>a, <1>b, <1>c, <1>d, <1>e, <1>f, <1>g, <1>h, <1>i, <1>j, <1>k, <1>l
     DEF Next, Step

\* Whatever the threads do to each other, what is in the queue and what is
\* written are blocks of packets, and a cursor never points past the slots.
THEOREM QueueTypes == Spec => []TypeOK
<1>1. TypeInv => TypeOK
  BY DEF TypeInv
<1> QED BY TypeInit, TypeStep, <1>1, PTL DEF Spec

-----------------------------------------------------------------------------
(* Threads that take turns *)

Alone(t) == \A u \in Thread : u # t => pc[u] = "idle"

\* What thread t has loaded is not out of date.
Fresh(t) ==
  /\ pc[t] = "store" => at[t] = finish
  /\ pc[t] \in {"front", "resize", "take"} => start < finish
  /\ pc[t] = "pop" => start < finish /\ at[t] = start
  /\ pc[t] # "ended"

\* As long as the threads have taken turns, one at most is in the queue, and
\* what it has loaded is not out of date.
Turns ==
  ~raced => /\ start <= finish
            /\ \E t \in Thread : Alone(t)
            /\ \A t \in Thread : Fresh(t)

LEMMA TurnsInit == Init => Turns
<1> SUFFICES ASSUME Init PROVE Turns
  OBVIOUS
<1>1. start <= finish
  BY DEF Init
<1>2. \A t \in Thread : pc[t] = "idle"
  BY DEF Init
<1>3. "gui" \in Thread
  BY DEF Thread
<1> QED BY <1>1, <1>2, <1>3 DEF Turns, Alone, Fresh

\* If a step that leaves thread t in the queue makes no race, or one of a thread
\* that was there, the other threads are out of it before and after.
LEMMA StepAlone ==
  ASSUME TypeOK, Turns, NEW t \in Thread, NEW step, Goto(t, step), ~raced',
         pc[t] # "idle" \/ step # "idle"
  PROVE  /\ ~raced /\ Alone(t) /\ Alone(t)' /\ pc'[t] = step
         /\ \A u \in Thread : u # t => Fresh(u)'
<1>1. /\ ~raced /\ pc' = [pc EXCEPT ![t] = step]
      /\ \E u \in Thread : pc'[u] = "idle"
  BY DEF Goto
<1>2. pc'[t] = step /\ \A u \in Thread : u # t => pc'[u] = pc[u]
  BY <1>1 DEF TypeOK
<1>3. Alone(t)
  <2>1. CASE pc[t] # "idle"
    BY <1>1, <2>1 DEF Turns, Alone
  <2>2. CASE step # "idle"
    <3>1. PICK u \in Thread : pc'[u] = "idle"
      BY <1>1
    <3>2. u # t /\ pc[u] = "idle"
      BY <1>2, <2>2, <3>1
    <3>3. \A v \in Thread : v = u \/ v = t
      BY <3>2 DEF Thread
    <3> QED BY <3>2, <3>3 DEF Alone
  <2> QED BY <2>1, <2>2
<1>4. Alone(t)' /\ \A u \in Thread : u # t => Fresh(u)'
  BY <1>2, <1>3 DEF Alone, Fresh
<1> QED BY <1>1, <1>2, <1>3, <1>4

LEMMA TurnsStep == TypeInv /\ Turns /\ [Next]_vars => Turns'
<1> USE DEF queue, threads, socket
<1> SUFFICES ASSUME TypeInv, Turns, [Next]_vars, ~raced'
             PROVE  /\ (start <= finish)'
                    /\ \E t \in Thread : Alone(t)'
                    /\ \A t \in Thread : Fresh(t)'
  BY DEF Turns
<1>0. TypeOK /\ start \in Nat /\ finish \in Nat
  BY DEF TypeInv, TypeOK
<1>1. ASSUME ~raced PROVE /\ start <= finish
                          /\ \A t \in Thread : Fresh(t)
  BY <1>1 DEF Turns
<1>a. ASSUME NEW t \in Thread, NEW n \in 1 .. MaxBlocks, Send(t, n)
      PROVE  (start <= finish)' /\ Alone(t)' /\ \A u \in Thread : Fresh(u)'
  BY <1>0, <1>1, <1>a, StepAlone DEF Send, Fresh
<1>b. ASSUME NEW t \in Thread, Push(t)
      PROVE  (start <= finish)' /\ Alone(t)' /\ \A u \in Thread : Fresh(u)'
  <2>1. ~raced /\ Alone(t)' /\ pc'[t] = "store" /\ pc[t] = "push"
        /\ \A u \in Thread : u # t => Fresh(u)'
    BY <1>0, <1>b, StepAlone DEF Push
  <2>2. at'[t] = finish'
    BY <1>0, <1>b DEF Push, TypeOK
  <2> QED BY <1>1, <1>b, <2>1, <2>2 DEF Push, Fresh
<1>c. ASSUME NEW t \in Thread, Store(t)
      PROVE  (start <= finish)' /\ Alone(t)' /\ \A u \in Thread : Fresh(u)'
  <2>1. ~raced /\ Alone(t)' /\ pc'[t] \in {"push", "front"} /\ pc[t] = "store"
        /\ \A u \in Thread : u # t => Fresh(u)'
    BY <1>0, <1>c, StepAlone DEF Store
  <2>2. start' = start /\ finish' = finish + 1 /\ start <= finish
    BY <1>1, <1>c, <2>1 DEF Store, Fresh
  <2> QED BY <1>0, <2>1, <2>2 DEF Fresh
<1>d. ASSUME NEW t \in Thread, Front(t)
      PROVE  (start <= finish)' /\ Alone(t)' /\ \A u \in Thread : Fresh(u)'
  <2>1. ~raced /\ pc[t] = "front"
    BY <1>d DEF Front, Goto
  <2>2. start < finish
    BY <1>1, <2>1 DEF Fresh
  <2>3. Goto(t, "resize") /\ start' = start /\ finish' = finish
    BY <1>0, <1>d, <2>2 DEF Front
  <2>4. Alone(t)' /\ pc'[t] = "resize" /\ \A u \in Thread : u # t => Fresh(u)'
    BY <1>0, <2>1, <2>3, StepAlone
  <2> QED BY <1>0, <2>2, <2>3, <2>4 DEF Fresh
<1>e. ASSUME NEW t \in Thread, Resize(t)
      PROVE  (start <= finish)' /\ Alone(t)' /\ \A u \in Thread : Fresh(u)'
  <2>1. ~raced /\ Alone(t)' /\ pc'[t] = "size"
        /\ \A u \in Thread : u # t => Fresh(u)'
    BY <1>0, <1>e, StepAlone DEF Resize
  <2> QED BY <1>1, <1>e, <2>1 DEF Resize, Fresh
<1>f. ASSUME NEW t \in Thread, Size(t)
      PROVE  (start <= finish)' /\ Alone(t)' /\ \A u \in Thread : Fresh(u)'
  <2>1. ~raced /\ Alone(t)' /\ pc'[t] = IF start = finish THEN "idle" ELSE "take"
    BY <1>0, <1>f, StepAlone DEF Size
  <2>2. \A u \in Thread : u # t => Fresh(u)'
    BY <1>0, <1>f, StepAlone DEF Size
  <2> QED BY <1>0, <1>1, <1>f, <2>1, <2>2 DEF Size, Fresh
<1>g. ASSUME NEW t \in Thread, Take(t)
      PROVE  (start <= finish)' /\ Alone(t)' /\ \A u \in Thread : Fresh(u)'
  <2>1. ~raced /\ pc[t] = "take"
    BY <1>g DEF Take, Goto
  <2>2. start < finish
    BY <1>1, <2>1 DEF Fresh
  <2>3. Goto(t, "pop") /\ at' = [at EXCEPT ![t] = start]
        /\ start' = start /\ finish' = finish
    BY <1>0, <1>g, <2>2 DEF Take
  <2>4. Alone(t)' /\ pc'[t] = "pop" /\ \A u \in Thread : u # t => Fresh(u)'
    BY <1>0, <2>1, <2>3, StepAlone
  <2>5. at'[t] = start
    BY <1>0, <2>3 DEF TypeOK
  <2> QED BY <1>0, <2>2, <2>3, <2>4, <2>5 DEF Fresh
<1>h. ASSUME NEW t \in Thread, Pop(t)
      PROVE  (start <= finish)' /\ Alone(t)' /\ \A u \in Thread : Fresh(u)'
  <2>1. ~raced /\ Alone(t)' /\ pc'[t] = "write" /\ pc[t] = "pop"
        /\ \A u \in Thread : u # t => Fresh(u)'
    BY <1>0, <1>h, StepAlone DEF Pop
  <2>2. start' = start + 1 /\ start < finish /\ finish' = finish
    BY <1>1, <1>h, <2>1 DEF Pop, Fresh
  <2> QED BY <1>0, <2>1, <2>2 DEF Fresh
<1>i. ASSUME NEW t \in Thread, Write(t)
      PROVE  (start <= finish)' /\ Alone(t)' /\ \A u \in Thread : Fresh(u)'
  <2>1. ~raced /\ Alone(t)' /\ pc'[t] = "idle"
        /\ \A u \in Thread : u # t => Fresh(u)'
    BY <1>0, <1>i, StepAlone DEF Write
  <2> QED BY <1>1, <1>i, <2>1 DEF Write, Fresh
<1>j. ASSUME OnWrite
      PROVE  (start <= finish)' /\ Alone("io")'
             /\ \A u \in Thread : Fresh(u)'
  <2>1. "io" \in Thread
    BY DEF Thread
  <2>2. ~raced /\ Alone("io")' /\ pc'["io"] = "size"
        /\ \A u \in Thread : u # "io" => Fresh(u)'
    BY <1>0, <1>j, <2>1, StepAlone DEF OnWrite
  <2> QED BY <1>1, <1>j, <2>2 DEF OnWrite, Fresh
<1>k. ASSUME Transmit \/ UNCHANGED vars
      PROVE  (start <= finish)' /\ (\E t \in Thread : Alone(t)')
             /\ \A u \in Thread : Fresh(u)'
  <2>1. UNCHANGED <<start, finish, pc, at, raced>>
    BY <1>k DEF Transmit, vars
  <2> QED BY <2>1 DEF Turns, Alone, Fresh
<1>l. "io" \in Thread
  BY DEF Thread
<1> QED
  BY <1>a, <1>b, <1>c, <1>d, <1>e, <1>f, <1>g, <1>h, <1>i, <1>j, <1>k, <1>l
     DEF Next, Step

\* While the threads take turns, do_write and send use the front of no empty
\* queue, for any number of packets and blocks.
THEOREM FrontNeedsRace == Spec => []EndNeedsRace
<1>1. Turns => EndNeedsRace
  BY DEF Turns, Fresh, EndNeedsRace, Running
<1> QED BY TypeInit, TypeStep, TurnsInit, TurnsStep, <1>1, PTL DEF Spec

-----------------------------------------------------------------------------
(* What is written *)

\* As long as the threads have taken turns, what has been and is being written
\* is what has been popped, but for the block of a thread that is about to
\* write it.
InOrder ==
  ~raced =>
    /\ \A i \in 1 .. Len(wire) : wire[i].block = slots[i]
    /\ \A i \in 1 .. Len(ops) : ops[i].block = slots[Len(wire) + i]
    /\ \A t \in Thread :
         /\ pc[t] = "pop" => block[t] = slots[start + 1]
         /\ pc[t] = "write" => /\ block[t] = slots[start]
                               /\ Len(wire) + Len(ops) = start - 1
    /\ (\A t \in Thread : pc[t] # "write") => Len(wire) + Len(ops) = start

LEMMA InOrderInit == Init => InOrder
<1> SUFFICES ASSUME Init PROVE InOrder
  OBVIOUS
<1>1. Len(wire) = 0 /\ Len(ops) = 0 /\ start = 0
  BY DEF Init
<1>2. \A t \in Thread : pc[t] = "idle"
  BY DEF Init
<1> QED BY <1>1, <1>2 DEF InOrder

\* A step of a thread that neither pops nor writes.
LEMMA QuietStep ==
  ASSUME TypeOK, InOrder, ~raced, NEW t \in Thread, Alone(t), Alone(t)',
         pc[t] # "write", pc'[t] \notin {"pop", "write"},
         UNCHANGED <<wire, ops, start>>,
         \A i \in 1 .. start : slots'[i] = slots[i]
  PROVE  InOrder'
<1>1. (\A u \in Thread : pc[u] # "write")
      /\ (\A u \in Thread : pc'[u] \notin {"pop", "write"})
  BY DEF Alone
<1>2. Len(wire) \in Nat /\ Len(ops) \in Nat /\ start \in Nat
  BY DEF TypeOK
<1>3. Len(wire) + Len(ops) = start
  BY <1>1 DEF InOrder
<1>4. /\ \A i \in 1 .. Len(wire) : i \in 1 .. start
      /\ \A i \in 1 .. Len(ops) : Len(wire) + i \in 1 .. start
  BY <1>2, <1>3
<1> QED BY <1>1, <1>3, <1>4 DEF InOrder

LEMMA InOrderStep == TypeInv /\ Turns /\ InOrder /\ [Next]_vars => InOrder'
<1> USE DEF queue, threads, socket
<1> SUFFICES ASSUME TypeInv, Turns, InOrder, [Next]_vars, ~raced'
             PROVE  InOrder'
  BY DEF InOrder
<1>0. TypeOK /\ start \in Nat /\ finish \in Nat /\ finish <= Len(slots)
      /\ Len(slots) \in Nat /\ Len(wire) \in Nat /\ Len(ops) \in Nat
  BY DEF TypeInv, TypeOK
<1>1. ASSUME ~raced
      PROVE  start <= finish /\ \A t \in Thread : Fresh(t)
  BY <1>1 DEF Turns
<1>a. ASSUME NEW t \in Thread, NEW n \in 1 .. MaxBlocks, Send(t, n)
      PROVE  InOrder'
  <2>1. ~raced /\ Alone(t) /\ Alone(t)' /\ pc'[t] = "push" /\ pc[t] = "idle"
    BY <1>0, <1>a, StepAlone DEF Send
  <2> QED BY <1>0, <1>a, <2>1, QuietStep DEF Send
<1>b. ASSUME NEW t \in Thread, Push(t) PROVE InOrder'
  <2>1. ~raced /\ Alone(t) /\ Alone(t)' /\ pc'[t] = "store" /\ pc[t] = "push"
    BY <1>0, <1>b, StepAlone DEF Push
  <2> QED BY <1>0, <1>b, <2>1, QuietStep DEF Push
<1>c. ASSUME NEW t \in Thread, Store(t) PROVE InOrder'
  <2>1. ~raced /\ Alone(t) /\ Alone(t)' /\ pc'[t] \in {"push", "front"}
        /\ pc[t] = "store"
    BY <1>0, <1>c, StepAlone DEF Store
  <2>2. at[t] = finish /\ start <= finish
    BY <1>1, <2>1 DEF Fresh
  <2>3. ASSUME NEW i \in 1 .. start PROVE slots'[i] = slots[i]
    <3>1. /\ i \in 1 .. IF at[t] < Len(slots) THEN Len(slots) ELSE at[t] + 1
          /\ i # at[t] + 1
      BY <1>0, <2>2, <2>3
    <3> QED BY <1>c, <3>1 DEF Store
  <2> QED BY <1>0, <1>c, <2>1, <2>3, QuietStep DEF Store
<1>d. ASSUME NEW t \in Thread, Front(t) PROVE InOrder'
  <2>1. ~raced /\ pc[t] = "front"
    BY <1>d DEF Front, Goto
  <2>2. start < finish
    BY <1>1, <2>1 DEF Fresh
  <2>3. Goto(t, "resize") /\ UNCHANGED <<slots, start, wire, ops>>
    BY <1>0, <1>d, <2>2 DEF Front
  <2>4. Alone(t) /\ Alone(t)' /\ pc'[t] = "resize"
    BY <1>0, <2>1, <2>3, StepAlone
  <2> QED BY <1>0, <2>1, <2>3, <2>4, QuietStep
<1>e. ASSUME NEW t \in Thread, Resize(t) PROVE InOrder'
  <2>1. ~raced /\ Alone(t) /\ Alone(t)' /\ pc'[t] = "size" /\ pc[t] = "resize"
    BY <1>0, <1>e, StepAlone DEF Resize
  <2> QED BY <1>0, <1>e, <2>1, QuietStep DEF Resize
<1>f. ASSUME NEW t \in Thread, Size(t) PROVE InOrder'
  <2>1. ~raced /\ Alone(t) /\ Alone(t)' /\ pc'[t] \in {"idle", "take"}
        /\ pc[t] = "size"
    BY <1>0, <1>f, StepAlone DEF Size
  <2> QED BY <1>0, <1>f, <2>1, QuietStep DEF Size
<1>g. ASSUME NEW t \in Thread, Take(t) PROVE InOrder'
  <2>1. ~raced /\ pc[t] = "take"
    BY <1>g DEF Take, Goto
  <2>2. start < finish
    BY <1>1, <2>1 DEF Fresh
  <2>3. Goto(t, "pop") /\ UNCHANGED <<slots, start, wire, ops>>
        /\ block' = [block EXCEPT ![t] = slots[start + 1]]
    BY <1>0, <1>g, <2>2 DEF Take
  <2>4. Alone(t) /\ Alone(t)' /\ pc'[t] = "pop"
    BY <1>0, <2>1, <2>3, StepAlone
  <2>5. block'[t] = slots[start + 1]
    BY <1>0, <2>3 DEF TypeOK
  <2>6. Len(wire) + Len(ops) = start
    BY <2>1, <2>4 DEF InOrder, Alone
  <2>7. \A u \in Thread : pc'[u] # "write" /\ (pc'[u] = "pop" => u = t)
    BY <2>4 DEF Alone
  <2> QED BY <2>1, <2>3, <2>5, <2>6, <2>7 DEF InOrder
<1>h. ASSUME NEW t \in Thread, Pop(t) PROVE InOrder'
  <2>1. ~raced /\ Alone(t) /\ Alone(t)' /\ pc'[t] = "write" /\ pc[t] = "pop"
    BY <1>0, <1>h, StepAlone DEF Pop
  <2>2. start' = start + 1 /\ UNCHANGED <<slots, block, wire, ops>>
    BY <1>1, <1>h, <2>1 DEF Pop, Fresh
  <2>3. Len(wire) + Len(ops) = start /\ block[t] = slots[start + 1]
    BY <2>1 DEF InOrder, Alone
  <2>4. \A u \in Thread : pc'[u] # "pop" /\ (pc'[u] = "write" => u = t)
    BY <2>1 DEF Alone
  <2> QED BY <1>0, <2>1, <2>2, <2>3, <2>4 DEF InOrder
<1>i. ASSUME NEW t \in Thread, Write(t) PROVE InOrder'
  <2>1. ~raced /\ Alone(t) /\ Alone(t)' /\ pc'[t] = "idle" /\ pc[t] = "write"
    BY <1>0, <1>i, StepAlone DEF Write
  <2> DEFINE op == [block |-> block[t], for |-> resized[block[t]]]
  <2>2. ops' = Append(ops, op) /\ UNCHANGED <<slots, start, block, wire>>
    BY <1>i DEF Write
  <2>3. Len(wire) + Len(ops) = start - 1 /\ op.block = slots[start]
    BY <2>1 DEF InOrder
  <2> HIDE DEF op
  <2>4. /\ Len(ops') = Len(ops) + 1 /\ ops'[Len(ops) + 1] = op
        /\ \A i \in 1 .. Len(ops) : ops'[i] = ops[i]
    BY <1>0, <2>2 DEF TypeOK
  <2>5. ASSUME NEW i \in 1 .. Len(ops')
        PROVE  ops'[i].block = slots'[Len(wire') + i]
    <3>1. CASE i = Len(ops) + 1
      BY <1>0, <2>2, <2>3, <2>4, <3>1
    <3>2. CASE i # Len(ops) + 1
      <4>1. i \in 1 .. Len(ops)
        BY <1>0, <2>4, <3>2
      <4> QED BY <2>1, <2>2, <2>4, <4>1 DEF InOrder
    <3> QED BY <3>1, <3>2
  <2>6. \A u \in Thread : pc'[u] \notin {"pop", "write"}
    BY <2>1 DEF Alone
  <2>7. Len(wire') + Len(ops') = start'
    BY <1>0, <2>2, <2>3, <2>4
  <2> QED BY <2>1, <2>2, <2>5, <2>6, <2>7 DEF InOrder
<1>j. ASSUME OnWrite PROVE InOrder'
  <2>1. "io" \in Thread
    BY DEF Thread
  <2>2. /\ ~raced /\ Alone("io") /\ Alone("io")' /\ pc'["io"] = "size"
        /\ pc["io"] = "idle"
    BY <1>0, <1>j, <2>1, StepAlone DEF OnWrite
  <2> QED BY <1>0, <1>j, <2>1, <2>2, QuietStep DEF OnWrite
<1>k. ASSUME Transmit PROVE InOrder'
  <2> DEFINE w == [block |-> Head(ops).block, for |-> Head(ops).for,
                   dangling |-> resized[Head(ops).block] # Head(ops).for]
  <2>1. /\ wire' = Append(wire, w) /\ ops' = Tail(ops) /\ ops # <<>>
        /\ UNCHANGED <<slots, start, pc, block, raced>>
    BY <1>k DEF Transmit
  <2>2. w.block = ops[1].block
    OBVIOUS
  <2> HIDE DEF w
  <2>3. /\ Len(ops') = Len(ops) - 1 /\ Len(ops) >= 1
        /\ \A i \in 1 .. Len(ops') : ops'[i] = ops[i + 1]
    BY <1>0, <2>1, HeadTailProperties, EmptySeq DEF TypeOK
  <2>4. /\ Len(wire') = Len(wire) + 1 /\ wire'[Len(wire) + 1] = w
        /\ \A i \in 1 .. Len(wire) : wire'[i] = wire[i]
    BY <1>0, <2>1 DEF TypeOK
  <2>5. /\ \A i \in 1 .. Len(wire) : wire[i].block = slots[i]
        /\ \A i \in 1 .. Len(ops) : ops[i].block = slots[Len(wire) + i]
    BY <2>1 DEF InOrder
  <2>6. ASSUME NEW i \in 1 .. Len(wire') PROVE wire'[i].block = slots[i]
    <3>1. CASE i = Len(wire) + 1
      BY <1>0, <2>2, <2>3, <2>4, <2>5, <3>1
    <3>2. CASE i # Len(wire) + 1
      BY <1>0, <2>4, <2>5, <3>2
    <3> QED BY <3>1, <3>2
  <2>7. ASSUME NEW i \in 1 .. Len(ops')
        PROVE  ops'[i].block = slots[Len(wire') + i]
    <3>1. i + 1 \in 1 .. Len(ops) /\ Len(wire) + (i + 1) = Len(wire') + i
      BY <1>0, <2>3, <2>4
    <3>2. ops'[i] = ops[i + 1]
      BY <2>3
    <3>3. ops[i + 1].block = slots[Len(wire) + (i + 1)]
      BY <2>5, <3>1
    <3> QED BY <3>1, <3>2, <3>3
  <2>8. Len(wire') + Len(ops') = Len(wire) + Len(ops)
    BY <1>0, <2>3, <2>4
  <2> QED BY <2>1, <2>6, <2>7, <2>8 DEF InOrder
<1>l. ASSUME UNCHANGED vars PROVE InOrder'
  BY <1>l DEF vars, InOrder
<1> QED
  BY <1>a, <1>b, <1>c, <1>d, <1>e, <1>f, <1>g, <1>h, <1>i, <1>j, <1>k, <1>l
     DEF Next, Step

\* While the threads take turns, blocks go out once each and in the order in
\* which they were queued, however many writes are under way.
THEOREM BlocksInOrder == Spec => []InOrderUnlessRaced
<1>1. TypeInv /\ InOrder => InOrderUnlessRaced
  <2> SUFFICES ASSUME TypeInv, InOrder, ~raced, Idle
               PROVE  /\ Len(wire) + Len(ops) = start
                      /\ \A i \in DOMAIN wire : wire[i].block = slots[i]
                      /\ \A i \in DOMAIN ops :
                           ops[i].block = slots[Len(wire) + i]
    BY DEF InOrderUnlessRaced
  <2>1. \A t \in Thread : pc[t] # "write"
    BY DEF Idle
  <2>2. DOMAIN wire = 1 .. Len(wire) /\ DOMAIN ops = 1 .. Len(ops)
    BY LenProperties DEF TypeInv, TypeOK
  <2> QED BY <2>1, <2>2 DEF InOrder
<1> QED BY TypeInit, TypeStep, TurnsInit, TurnsStep, InOrderInit, InOrderStep,
           <1>1, PTL DEF Spec

-----------------------------------------------------------------------------
(* What is left in the queue *)

LEMMA StrandedStep == TypeInv /\ NothingStranded /\ [Next]_vars => NothingStranded'
<1> USE DEF queue, threads, socket
<1> SUFFICES ASSUME TypeInv, NothingStranded, [Next]_vars, Idle', start' # finish'
             PROVE  ops' # <<>> \/ done' > 0
  BY DEF NothingStranded
<1>0. TypeOK
  BY DEF TypeInv
<1>1. ASSUME NEW t \in Thread, NEW step, Goto(t, step) PROVE step = "idle"
  BY <1>0, <1>1 DEF Goto, Idle, TypeOK
<1>a. ASSUME NEW t \in Thread, Step(t), ~Write(t) PROVE FALSE
  <2>1. \A step : Goto(t, step) => step = "idle"
    BY <1>1
  <2>2. CASE Size(t)
    BY <2>1, <2>2 DEF Size
  <2>3. CASE Push(t) \/ Store(t) \/ Front(t) \/ Resize(t) \/ Take(t) \/ Pop(t)
    <3>1. \E step : Goto(t, step) /\ step # "idle"
      BY <2>3 DEF Push, Store, Front, Resize, Take, Pop
    <3> QED BY <2>1, <3>1
  <2> QED BY <1>a, <2>2, <2>3 DEF Step
<1>b. ASSUME NEW t \in Thread, Write(t) PROVE ops' # <<>>
  <2>1. PICK op : ops' = Append(ops, op)
    BY <1>b DEF Write
  <2>2. DOMAIN ops' = 1 .. Len(ops) + 1 /\ Len(ops) \in Nat
    BY <1>0, <2>1 DEF TypeOK
  <2> QED BY <2>2
<1>c. ASSUME NEW t \in Thread, NEW n \in 1 .. MaxBlocks, Send(t, n)
      PROVE  FALSE
  BY <1>1, <1>c DEF Send
<1>d. ~OnWrite
  <2>1. "io" \in Thread
    BY DEF Thread
  <2> QED BY <1>1, <2>1 DEF OnWrite
<1>e. ASSUME Transmit PROVE done' > 0
  BY <1>0, <1>e DEF Transmit, TypeOK
<1>f. ASSUME UNCHANGED vars PROVE ops' # <<>> \/ done' > 0
  BY <1>f DEF vars, NothingStranded, Idle
<1> QED BY <1>a, <1>b, <1>c, <1>d, <1>e, <1>f DEF Next

\* Whatever the threads do to each other, nothing is left in the queue without
\* a completion to come that looks for it.
THEOREM NoneStranded == Spec => []NothingStranded
<1>1. Init => NothingStranded
  BY DEF Init, NothingStranded
<1> QED BY TypeInit, TypeStep, StrandedStep, <1>1, PTL DEF Spec

-----------------------------------------------------------------------------
(* A block is queued once *)

Queueing(t) == pc[t] \in {"push", "store"}

\* The blocks of packet p that a send has still to push.
Remaining(blocks, p) ==
  \A k \in 1 .. Len(blocks) :
    /\ blocks[k].packet = p
    /\ \A l \in 1 .. Len(blocks) : blocks[l] = blocks[k] => l = k

\* As long as the threads have taken turns, the slots are all filled, with
\* different blocks of the packets sent, and what is still to be pushed is of
\* the latest packet and in no slot.
Once ==
  ~raced =>
    /\ Len(slots) = finish
    /\ \A i \in 1 .. finish : slots[i].packet \in 1 .. Len(packets)
    /\ \A i, j \in 1 .. finish : slots[i] = slots[j] => i = j
    /\ \A t \in Thread : Queueing(t) =>
         /\ Remaining(todo[t], Len(packets))
         /\ \A i \in 1 .. finish, k \in 1 .. Len(todo[t]) :
              slots[i] # todo[t][k]

LEMMA OnceInit == Init => Once
<1> SUFFICES ASSUME Init PROVE Once
  OBVIOUS
<1>1. Len(slots) = 0 /\ finish = 0 /\ \A t \in Thread : pc[t] = "idle"
  BY DEF Init
<1> QED BY <1>1 DEF Once, Queueing

\* A step that pushes nothing, and leaves no thread pushing that was not.
LEMMA NothingPushed ==
  ASSUME Once, ~raced, UNCHANGED <<slots, finish, todo, packets>>,
         \A t \in Thread : Queueing(t)' => Queueing(t)
  PROVE  Once'
BY DEF Once, Remaining

LEMMA OnceStep == TypeInv /\ Turns /\ Once /\ [Next]_vars => Once'
<1> USE DEF queue, threads, socket
<1> SUFFICES ASSUME TypeInv, Turns, Once, [Next]_vars, ~raced' PROVE Once'
  BY DEF Once
<1>0. /\ TypeOK /\ start \in Nat /\ finish \in Nat /\ Len(slots) \in Nat
      /\ packets \in Seq(1 .. MaxBlocks) /\ Len(packets) \in Nat
      /\ \A t \in Thread : Loaded(t)
  BY DEF TypeInv, TypeOK
<1>a. ASSUME NEW t \in Thread, NEW n \in 1 .. MaxBlocks, Send(t, n)
      PROVE  Once'
  <2>1. ~raced /\ Alone(t)' /\ pc'[t] = "push"
    BY <1>0, <1>a, StepAlone DEF Send
  <2>2. /\ slots' = slots /\ finish' = finish
        /\ packets' = Append(packets, n)
        /\ todo' = [todo EXCEPT ![t] = Blocks(Len(packets'), n)]
    BY <1>a DEF Send
  <2>3. Len(packets') = Len(packets) + 1
    BY <1>0, <2>2
  <2>4. todo'[t] = Blocks(Len(packets'), n)
    BY <1>0, <2>2 DEF TypeOK
  <2>5. /\ Len(todo'[t]) = n
        /\ \A k \in 1 .. n : /\ todo'[t][k].packet = Len(packets')
                             /\ todo'[t][k].index = k
    <3>1. n \in Nat
      OBVIOUS
    <3> QED BY <2>4, <3>1 DEF Blocks
  <2>6. Remaining(todo'[t], Len(packets'))
    <3> SUFFICES ASSUME NEW k \in 1 .. n
                 PROVE  /\ todo'[t][k].packet = Len(packets')
                        /\ \A l \in 1 .. n : todo'[t][l] = todo'[t][k] => l = k
      BY <2>5 DEF Remaining
    <3>1. ASSUME NEW l \in 1 .. n, todo'[t][l] = todo'[t][k] PROVE l = k
      <4>1. todo'[t][l].index = l /\ todo'[t][k].index = k
        BY <2>5
      <4> QED BY <3>1, <4>1
    <3> QED BY <2>5, <3>1
  <2>7. /\ Len(slots) = finish
        /\ \A i \in 1 .. finish : slots[i].packet \in 1 .. Len(packets)
        /\ \A i, j \in 1 .. finish : slots[i] = slots[j] => i = j
    BY <2>1 DEF Once
  <2>8. ASSUME NEW i \in 1 .. finish, NEW k \in 1 .. Len(todo'[t])
        PROVE  slots[i] # todo'[t][k]
    <3>1. slots[i].packet # Len(packets')
      BY <1>0, <2>3, <2>7
    <3>2. todo'[t][k].packet = Len(packets')
      <4>1. k \in 1 .. n
        BY <2>5
      <4> QED BY <2>5, <4>1
    <3> QED BY <3>1, <3>2
  <2>9. \A u \in Thread : Queueing(u)' => u = t
    BY <2>1 DEF Alone, Queueing
  <2>10. \A i \in 1 .. finish : slots[i].packet \in 1 .. Len(packets')
    BY <1>0, <2>3, <2>7
  <2> QED BY <2>2, <2>6, <2>7, <2>8, <2>9, <2>10 DEF Once
<1>b. ASSUME NEW t \in Thread, Push(t) PROVE Once'
  <2>1. ~raced /\ Alone(t)' /\ pc[t] = "push"
    BY <1>0, <1>b, StepAlone DEF Push
  <2>2. UNCHANGED <<slots, finish, todo, packets>>
    BY <1>b DEF Push
  <2>3. \A u \in Thread : Queueing(u)' => Queueing(u)
    BY <2>1 DEF Alone, Queueing
  <2> QED BY <2>1, <2>2, <2>3, NothingPushed
<1>c. ASSUME NEW t \in Thread, Store(t) PROVE Once'
  <2> DEFINE b == Head(todo[t])
  <2>1. ~raced /\ Alone(t)' /\ pc[t] = "store"
    BY <1>0, <1>c, StepAlone DEF Store
  <2>2. at[t] = finish
    BY <2>1 DEF Turns, Fresh
  <2>3. /\ Len(slots) = finish
        /\ \A i \in 1 .. finish : slots[i].packet \in 1 .. Len(packets)
        /\ \A i, j \in 1 .. finish : slots[i] = slots[j] => i = j
        /\ Remaining(todo[t], Len(packets))
        /\ \A i \in 1 .. finish, k \in 1 .. Len(todo[t]) :
             slots[i] # todo[t][k]
    BY <2>1 DEF Once, Queueing
  <2>4. /\ todo[t] \in Seq(Block) /\ todo[t] # <<>> /\ Len(todo[t]) \in Nat \ {0}
        /\ b = todo[t][1]
    BY <1>0, <2>1, EmptySeq DEF TypeOK, Loaded
  <2>5. /\ finish' = finish + 1 /\ packets' = packets
        /\ slots' = [i \in 1 .. finish + 1 |->
                       IF i = finish + 1 THEN b ELSE slots[i]]
    BY <1>0, <1>c, <2>2, <2>3 DEF Store
  <2>6. todo'[t] = Tail(todo[t])
    BY <1>0, <1>c DEF Store, TypeOK
  <2>7. /\ Len(todo'[t]) = Len(todo[t]) - 1
        /\ \A k \in 1 .. Len(todo'[t]) : todo'[t][k] = todo[t][k + 1]
    BY <2>4, <2>6, HeadTailProperties
  <2> HIDE DEF b
  <2>8. /\ Len(slots') = finish + 1 /\ slots'[finish + 1] = b
        /\ \A i \in 1 .. finish : slots'[i] = slots[i]
    BY <1>0, <2>5
  <2>9. /\ b.packet = Len(packets)
        /\ \A k \in 1 .. Len(todo'[t]) :
             /\ todo'[t][k] # b /\ todo'[t][k].packet = Len(packets)
             /\ \A l \in 1 .. Len(todo'[t]) : todo'[t][l] = todo'[t][k] => l = k
             /\ \A i \in 1 .. finish : slots[i] # todo'[t][k]
    <3>1. b.packet = Len(packets)
      BY <2>3, <2>4 DEF Remaining
    <3>2. ASSUME NEW k \in 1 .. Len(todo'[t])
          PROVE  /\ todo'[t][k] # b /\ todo'[t][k].packet = Len(packets)
                 /\ \A l \in 1 .. Len(todo'[t]) :
                      todo'[t][l] = todo'[t][k] => l = k
                 /\ \A i \in 1 .. finish : slots[i] # todo'[t][k]
      <4>1. k + 1 \in 1 .. Len(todo[t]) /\ k + 1 # 1 /\ 1 \in 1 .. Len(todo[t])
            /\ todo'[t][k] = todo[t][k + 1]
        BY <2>4, <2>7
      <4>2. ASSUME NEW l \in 1 .. Len(todo'[t]), todo'[t][l] = todo'[t][k]
            PROVE  l = k
        <5>1. l + 1 \in 1 .. Len(todo[t]) /\ todo'[t][l] = todo[t][l + 1]
          BY <2>4, <2>7
        <5>2. l + 1 = k + 1
          BY <2>3, <4>1, <4>2, <5>1 DEF Remaining
        <5> QED BY <2>4, <2>7, <5>2
      <4>3. todo'[t][k] # b /\ todo'[t][k].packet = Len(packets)
        BY <2>3, <2>4, <4>1 DEF Remaining
      <4> QED BY <2>3, <4>1, <4>2, <4>3
    <3> QED BY <3>1, <3>2
  <2>10. \A i \in 1 .. finish : slots[i] # b
    BY <2>3, <2>4
  <2>11. Len(packets) \in 1 .. Len(packets)
    <3>1. b \in Block
      BY <2>4
    <3>2. b.packet >= 1
      BY <3>1 DEF Block
    <3> QED BY <1>0, <2>9, <3>2
  <2>12. \A i \in 1 .. finish + 1 : i \in 1 .. finish \/ i = finish + 1
    BY <1>0
  <2>13. /\ \A i \in 1 .. finish + 1 : slots'[i].packet \in 1 .. Len(packets)
         /\ \A i, j \in 1 .. finish + 1 : slots'[i] = slots'[j] => i = j
         /\ \A i \in 1 .. finish + 1, k \in 1 .. Len(todo'[t]) :
              slots'[i] # todo'[t][k]
    <3>1. \A i \in 1 .. finish + 1 : slots'[i].packet \in 1 .. Len(packets)
      BY <2>3, <2>8, <2>9, <2>11, <2>12
    <3>2. ASSUME NEW i \in 1 .. finish + 1, NEW j \in 1 .. finish + 1,
                 slots'[i] = slots'[j]
          PROVE  i = j
      <4>1. CASE i \in 1 .. finish /\ j \in 1 .. finish
        BY <2>3, <2>8, <3>2, <4>1
      <4>2. CASE i \in 1 .. finish /\ j = finish + 1
        BY <2>8, <2>10, <3>2, <4>2
      <4>3. CASE i = finish + 1 /\ j \in 1 .. finish
        BY <2>8, <2>10, <3>2, <4>3
      <4> QED BY <2>12, <4>1, <4>2, <4>3
    <3>3. ASSUME NEW i \in 1 .. finish + 1, NEW k \in 1 .. Len(todo'[t])
          PROVE  slots'[i] # todo'[t][k]
      <4>1. CASE i \in 1 .. finish
        BY <2>8, <2>9, <4>1
      <4>2. CASE i = finish + 1
        BY <2>8, <2>9, <4>2
      <4> QED BY <2>12, <4>1, <4>2
    <3> QED BY <3>1, <3>2, <3>3
  <2>14. \A u \in Thread : Queueing(u)' => u = t
    BY <2>1 DEF Alone, Queueing
  <2>15. Remaining(todo'[t], Len(packets))
    <3>1. PICK rest : rest = todo'[t]
      OBVIOUS
    <3>2. \A k \in 1 .. Len(rest) :
            /\ rest[k].packet = Len(packets)
            /\ \A l \in 1 .. Len(rest) : rest[l] = rest[k] => l = k
      BY <2>9, <3>1
    <3> QED BY <3>1, <3>2 DEF Remaining
  <2>16. finish' = finish + 1 /\ packets' = packets
    BY <2>5
  <2>17. ASSUME NEW u \in Thread, Queueing(u)'
         PROVE  /\ Remaining(todo'[u], Len(packets'))
                /\ \A i \in 1 .. finish', k \in 1 .. Len(todo'[u]) :
                     slots'[i] # todo'[u][k]
    <3>1. u = t
      BY <2>14, <2>17
    <3> QED BY <2>13, <2>15, <2>16, <3>1
  <2>18. Len(slots') = finish'
    BY <2>8, <2>16
  <2>19. /\ \A i \in 1 .. finish' : slots'[i].packet \in 1 .. Len(packets')
         /\ \A i, j \in 1 .. finish' : slots'[i] = slots'[j] => i = j
    BY <2>13, <2>16
  <2> QED BY <2>17, <2>18, <2>19 DEF Once
<1>d. ASSUME NEW t \in Thread,
             Front(t) \/ Resize(t) \/ Size(t) \/ Take(t) \/ Pop(t) \/ Write(t)
      PROVE  Once'
  <2>1. /\ ~raced /\ UNCHANGED <<slots, finish, todo, packets>>
        /\ \E step : Goto(t, step) /\ step \notin {"push", "store"}
    BY <1>d DEF Front, Resize, Size, Take, Pop, Write, Goto
  <2>2. \A u \in Thread : Queueing(u)' => Queueing(u)
    BY <1>0, <2>1 DEF Goto, Queueing, TypeOK
  <2> QED BY <2>1, <2>2, NothingPushed
<1>e. ASSUME OnWrite PROVE Once'
  <2>1. /\ ~raced /\ UNCHANGED <<slots, finish, todo, packets>>
        /\ Goto("io", "size")
    BY <1>e DEF OnWrite, Goto
  <2>2. \A u \in Thread : Queueing(u)' => Queueing(u)
    BY <1>0, <2>1 DEF Goto, Queueing, TypeOK
  <2> QED BY <2>1, <2>2, NothingPushed
<1>f. ASSUME Transmit \/ UNCHANGED vars PROVE Once'
  <2>1. ~raced /\ UNCHANGED <<slots, finish, todo, packets, pc>>
    BY <1>f DEF Transmit, vars
  <2> QED BY <2>1, NothingPushed DEF Queueing
<1> QED BY <1>a, <1>b, <1>c, <1>d, <1>e, <1>f DEF Next, Step

-----------------------------------------------------------------------------
(* No block is resized under a write *)

\* As long as the threads have taken turns, a thread that is about to resize has
\* the block in front, a write under way has the size its block has, and so had
\* those that are done.
Steady ==
  ~raced =>
    /\ \A t \in Thread : pc[t] = "resize" => /\ start < finish
                                             /\ block[t] = slots[start + 1]
    /\ \A i \in 1 .. Len(ops) : resized[ops[i].block] = ops[i].for
    /\ \A i \in 1 .. Len(wire) : ~wire[i].dangling

LEMMA SteadyInit == Init => Steady
<1> SUFFICES ASSUME Init PROVE Steady
  OBVIOUS
<1>1. Len(wire) = 0 /\ Len(ops) = 0 /\ \A t \in Thread : pc[t] = "idle"
  BY DEF Init
<1> QED BY <1>1 DEF Steady

\* A step that neither resizes nor writes, nor leaves a thread about to resize.
LEMMA SteadyStays ==
  ASSUME Steady, ~raced, UNCHANGED <<resized, ops, wire>>,
         \A t \in Thread : pc'[t] # "resize"
  PROVE  Steady'
BY DEF Steady

LEMMA SteadyStep ==
  TypeInv /\ Turns /\ InOrder /\ Once /\ Steady /\ [Next]_vars => Steady'
<1> USE DEF queue, threads, socket
<1> SUFFICES ASSUME TypeInv, Turns, InOrder, Once, Steady, [Next]_vars, ~raced'
             PROVE  Steady'
  BY DEF Steady
<1>0. /\ TypeOK /\ start \in Nat /\ finish \in Nat
      /\ Len(wire) \in Nat /\ Len(ops) \in Nat
      /\ resized \in [Block -> 0 .. MaxSends]
      /\ \A t \in Thread : Loaded(t)
  BY DEF TypeInv, TypeOK
<1>a. ASSUME NEW t \in Thread, Step(t), ~Front(t), ~Resize(t), ~Write(t)
      PROVE  Steady'
  <2>1. PICK step : Goto(t, step) /\ step # "resize" /\ pc[t] # "idle"
    BY <1>a DEF Step, Push, Store, Size, Take, Pop
  <2>2. ~raced /\ Alone(t)' /\ pc'[t] = step
    BY <1>0, <2>1, StepAlone
  <2>3. UNCHANGED <<resized, ops, wire>>
    BY <1>a DEF Step, Push, Store, Size, Take, Pop
  <2>4. \A u \in Thread : pc'[u] # "resize"
    BY <2>1, <2>2 DEF Alone
  <2> QED BY <2>2, <2>3, <2>4, SteadyStays
<1>b. ASSUME NEW t \in Thread, NEW n \in 1 .. MaxBlocks, Send(t, n)
      PROVE  Steady'
  <2>1. ~raced /\ Alone(t)' /\ pc'[t] = "push"
    BY <1>0, <1>b, StepAlone DEF Send
  <2>2. \A u \in Thread : pc'[u] # "resize"
    BY <2>1 DEF Alone
  <2> QED BY <1>b, <2>1, <2>2, SteadyStays DEF Send
<1>c. ASSUME NEW t \in Thread, Front(t) PROVE Steady'
  <2>1. ~raced /\ pc[t] = "front"
    BY <1>c DEF Front, Goto
  <2>2. start < finish
    BY <2>1 DEF Turns, Fresh
  <2>3. /\ Goto(t, "resize") /\ UNCHANGED <<queue, socket>>
        /\ block' = [block EXCEPT ![t] = slots[start + 1]]
    BY <1>0, <1>c, <2>2 DEF Front
  <2>4. Alone(t)' /\ pc'[t] = "resize"
    BY <1>0, <2>1, <2>3, StepAlone
  <2>5. block'[t] = slots[start + 1]
    BY <1>0, <2>3 DEF TypeOK
  <2>6. \A u \in Thread : pc'[u] = "resize" => u = t
    BY <2>4 DEF Alone
  <2> QED BY <2>1, <2>2, <2>3, <2>5, <2>6 DEF Steady
<1>d. ASSUME NEW t \in Thread, Resize(t) PROVE Steady'
  <2>1. ~raced /\ Alone(t) /\ Alone(t)' /\ pc'[t] = "size" /\ pc[t] = "resize"
    BY <1>0, <1>d, StepAlone DEF Resize
  <2>2. /\ ops' = ops /\ wire' = wire
        /\ resized' = [resized EXCEPT ![block[t]] = at[t]]
    BY <1>d DEF Resize
  <2>3. start < finish /\ block[t] = slots[start + 1]
    BY <2>1 DEF Steady
  <2>4. \A u \in Thread : pc[u] # "write"
    BY <2>1 DEF Alone
  <2>5. ASSUME NEW i \in 1 .. Len(ops)
        PROVE  resized'[ops[i].block] = ops[i].for
    <3>1. Len(wire) + Len(ops) = start
          /\ ops[i].block = slots[Len(wire) + i]
      BY <2>1, <2>4 DEF InOrder
    <3>2. /\ Len(wire) + i \in 1 .. finish /\ start + 1 \in 1 .. finish
          /\ Len(wire) + i # start + 1
      BY <1>0, <2>3, <3>1
    <3>3. ops[i].block # block[t]
      <4>1. \A j, k \in 1 .. finish : slots[j] = slots[k] => j = k
        BY <2>1 DEF Once
      <4> QED BY <2>3, <3>1, <3>2, <4>1
    <3>4. ops[i].block \in Block
      <4>1. ops \in Seq([block : Block, for : 0 .. MaxSends])
        BY <1>0 DEF TypeOK
      <4>2. ops[i] \in [block : Block, for : 0 .. MaxSends]
        BY <4>1, ElementOfSeq
      <4> QED BY <4>2
    <3>5. resized'[ops[i].block] = resized[ops[i].block]
      BY <1>0, <2>2, <3>3, <3>4
    <3> QED BY <2>1, <3>5 DEF Steady
  <2>6. \A u \in Thread : pc'[u] # "resize"
    BY <2>1 DEF Alone
  <2>7. \A i \in 1 .. Len(wire) : ~wire[i].dangling
    BY <2>1 DEF Steady
  <2> QED BY <2>2, <2>5, <2>6, <2>7 DEF Steady
<1>e. ASSUME NEW t \in Thread, Write(t) PROVE Steady'
  <2> DEFINE op == [block |-> block[t], for |-> resized[block[t]]]
  <2>1. ~raced /\ Alone(t)' /\ pc'[t] = "idle"
    BY <1>0, <1>e, StepAlone DEF Write
  <2>2. ops' = Append(ops, op) /\ wire' = wire /\ resized' = resized
    BY <1>e DEF Write
  <2>3. resized[op.block] = op.for
    OBVIOUS
  <2> HIDE DEF op
  <2>4. /\ Len(ops') = Len(ops) + 1 /\ ops'[Len(ops) + 1] = op
        /\ \A i \in 1 .. Len(ops) : ops'[i] = ops[i]
    BY <1>0, <2>2 DEF TypeOK
  <2>5. ASSUME NEW i \in 1 .. Len(ops')
        PROVE  resized[ops'[i].block] = ops'[i].for
    <3>1. CASE i = Len(ops) + 1
      BY <2>3, <2>4, <3>1
    <3>2. CASE i # Len(ops) + 1
      <4>1. i \in 1 .. Len(ops)
        BY <1>0, <2>4, <3>2
      <4> QED BY <2>1, <2>4, <4>1 DEF Steady
    <3> QED BY <3>1, <3>2
  <2>6. \A u \in Thread : pc'[u] # "resize"
    BY <2>1 DEF Alone
  <2>7. \A i \in 1 .. Len(wire) : ~wire[i].dangling
    BY <2>1 DEF Steady
  <2> QED BY <2>2, <2>5, <2>6, <2>7 DEF Steady
<1>f. ASSUME OnWrite PROVE Steady'
  <2>1. "io" \in Thread
    BY DEF Thread
  <2>2. ~raced /\ Alone("io")' /\ pc'["io"] = "size"
    BY <1>0, <1>f, <2>1, StepAlone DEF OnWrite
  <2>3. \A u \in Thread : pc'[u] # "resize"
    BY <2>2 DEF Alone
  <2> QED BY <1>f, <2>2, <2>3, SteadyStays DEF OnWrite
<1>g. ASSUME Transmit PROVE Steady'
  <2> DEFINE w == [block |-> Head(ops).block, for |-> Head(ops).for,
                   dangling |-> resized[Head(ops).block] # Head(ops).for]
  <2>1. /\ wire' = Append(wire, w) /\ ops' = Tail(ops) /\ ops # <<>> /\ ~raced
        /\ UNCHANGED <<queue, pc, block>>
    BY <1>g DEF Transmit
  <2>2. /\ Len(ops') = Len(ops) - 1 /\ Len(ops) >= 1
        /\ \A i \in 1 .. Len(ops') : ops'[i] = ops[i + 1]
    BY <1>0, <2>1, HeadTailProperties, EmptySeq DEF TypeOK
  <2>3. /\ \A i \in 1 .. Len(ops) : resized[ops[i].block] = ops[i].for
        /\ \A i \in 1 .. Len(wire) : ~wire[i].dangling
    BY <2>1 DEF Steady
  <2>4. ~w.dangling
    <3>1. Head(ops) = ops[1] /\ 1 \in 1 .. Len(ops)
      BY <1>0, <2>2
    <3> QED BY <2>3, <3>1
  <2> HIDE DEF w
  <2>5. /\ Len(wire') = Len(wire) + 1 /\ wire'[Len(wire) + 1] = w
        /\ \A i \in 1 .. Len(wire) : wire'[i] = wire[i]
    BY <1>0, <2>1 DEF TypeOK
  <2>6. ASSUME NEW i \in 1 .. Len(wire') PROVE ~wire'[i].dangling
    <3>1. CASE i = Len(wire) + 1
      BY <2>4, <2>5, <3>1
    <3>2. CASE i # Len(wire) + 1
      <4>1. i \in 1 .. Len(wire)
        BY <1>0, <2>5, <3>2
      <4> QED BY <2>3, <2>5, <4>1
    <3> QED BY <3>1, <3>2
  <2>7. ASSUME NEW i \in 1 .. Len(ops')
        PROVE  resized[ops'[i].block] = ops'[i].for
    <3>1. i + 1 \in 1 .. Len(ops)
      BY <1>0, <2>2
    <3> QED BY <2>2, <2>3, <3>1
  <2> QED BY <2>1, <2>6, <2>7 DEF Steady
<1>h. ASSUME UNCHANGED vars PROVE Steady'
  BY <1>h DEF vars, Steady
<1> QED BY <1>a, <1>b, <1>c, <1>d, <1>e, <1>f, <1>g, <1>h DEF Next, Step

-----------------------------------------------------------------------------
(* Sizes *)

Sized(b) == resized[b] = b.packet

Singles == \A p \in DOMAIN packets : packets[p] = 1

\* Thread t has the only block of the queue between its push and its pop, and
\* before it looks for it once more the block has been resized for its packet.
OneBlock(t) ==
  /\ pc[t] \in {"push", "store"} => start = finish /\ Len(todo[t]) = 1
  /\ pc[t] \in {"front", "resize"} =>
       finish = start + 1 /\ block[t] = slots[finish]
  /\ pc[t] = "resize" => at[t] = block[t].packet
  /\ pc[t] = "size" =>
       start = finish \/ (finish = start + 1 /\ Sized(slots[finish]))
  /\ pc[t] = "take" => finish = start + 1 /\ Sized(slots[finish])
  /\ pc[t] = "pop" => finish = start + 1 /\ Sized(block[t])
  /\ pc[t] = "write" => start = finish /\ Sized(block[t])

\* As long as the threads have taken turns and no packet has had two blocks, a
\* block leaves the queue in the send that pushed it, so that no resize finds
\* the block of another packet in front.
Singly ==
  ~raced /\ Singles => /\ \A t \in Thread : OneBlock(t)
                       /\ Idle => start = finish

LEMMA SinglyInit == Init => Singly
<1> SUFFICES ASSUME Init PROVE Singly
  OBVIOUS
<1>1. start = finish
  BY DEF Init
<1>2. \A t \in Thread : pc[t] = "idle"
  BY DEF Init
<1> QED BY <1>1, <1>2 DEF Singly, OneBlock

\* A step of thread t, after which the others are out of the queue.
LEMMA SinglyStays ==
  ASSUME NEW t \in Thread, Alone(t)', OneBlock(t)',
         pc'[t] = "idle" => start' = finish'
  PROVE  Singly'
<1>1. \A u \in Thread : OneBlock(u)'
  <2>1. ASSUME NEW u \in Thread, pc'[u] = "idle" PROVE OneBlock(u)'
    BY <2>1 DEF OneBlock
  <2> QED BY <2>1 DEF Alone
<1>2. Idle' => start' = finish'
  BY DEF Idle
<1> QED BY <1>1, <1>2 DEF Singly

LEMMA SinglyStep ==
  TypeInv /\ Turns /\ Singly /\ [Next]_vars => Singly'
<1> USE DEF queue, threads, socket
<1> SUFFICES ASSUME TypeInv, Turns, Singly, [Next]_vars, ~raced', Singles'
             PROVE  Singly'
  BY DEF Singly
<1>0. /\ TypeOK /\ start \in Nat /\ finish \in Nat /\ finish <= Len(slots)
      /\ Len(slots) \in Nat
      /\ slots \in Seq(Block)
      /\ \A t \in Thread : Loaded(t)
  BY DEF TypeInv, TypeOK
<1>1. ASSUME ~raced
      PROVE  start <= finish /\ \A t \in Thread : Fresh(t)
  BY <1>1 DEF Turns
<1>2. ASSUME ~raced, Singles, NEW t \in Thread PROVE OneBlock(t)
  BY <1>2 DEF Singly
<1>a. ASSUME NEW t \in Thread, NEW n \in 1 .. MaxBlocks, Send(t, n)
      PROVE  Singly'
  <2>1. ~raced /\ Alone(t) /\ Alone(t)' /\ pc'[t] = "push" /\ pc[t] = "idle"
    BY <1>0, <1>a, StepAlone DEF Send
  <2>2. /\ packets \in Seq(1 .. MaxBlocks) /\ packets' = Append(packets, n)
        /\ start' = start /\ finish' = finish
        /\ resized' = resized
        /\ todo' = [todo EXCEPT ![t] = Blocks(Len(packets'), n)]
    BY <1>0, <1>a DEF Send, TypeOK
  <2>3. Singles /\ n = 1
    <3>1. /\ DOMAIN packets = 1 .. Len(packets) /\ Len(packets) \in Nat
          /\ DOMAIN packets' = 1 .. Len(packets) + 1
          /\ \A p \in 1 .. Len(packets) : packets'[p] = packets[p]
          /\ packets'[Len(packets) + 1] = n
      BY <2>2
    <3> QED BY <3>1 DEF Singles
  <2>4. Len(todo'[t]) = 1
    <3>1. todo'[t] = Blocks(Len(packets'), n)
      BY <1>0, <2>2 DEF TypeOK
    <3> QED BY <2>3, <3>1 DEF Blocks
  <2>5. start = finish
    <3>1. Idle
      BY <2>1 DEF Alone, Idle
    <3> QED BY <2>1, <2>3, <3>1 DEF Singly
  <2>6. OneBlock(t)'
    BY <2>1, <2>2, <2>4, <2>5 DEF OneBlock
  <2> QED BY <2>1, <2>2, <2>3, <2>6, SinglyStays
<1>b. ASSUME NEW t \in Thread, Push(t) PROVE Singly'
  <2>1. ~raced /\ Alone(t) /\ Alone(t)' /\ pc'[t] = "store" /\ pc[t] = "push"
    BY <1>0, <1>b, StepAlone DEF Push
  <2>2. /\ resized' = resized
        /\ start' = start /\ finish' = finish /\ todo' = todo
    BY <1>b DEF Push
  <2>3. Singles
    BY <1>b DEF Push, Singles
  <2>4. OneBlock(t)'
    BY <1>2, <2>1, <2>2, <2>3 DEF OneBlock
  <2> QED BY <2>1, <2>2, <2>3, <2>4, SinglyStays
<1>c. ASSUME NEW t \in Thread, Store(t) PROVE Singly'
  <2>1. Singles /\ resized' = resized
    BY <1>c DEF Store, Singles
  <2>2. ~raced /\ pc[t] = "store"
    BY <1>c DEF Store, Goto
  <2>3. start = finish /\ Len(todo[t]) = 1 /\ at[t] = finish
    BY <1>1, <1>2, <2>1, <2>2 DEF OneBlock, Fresh
  <2>4. Goto(t, "front")
    BY <1>c, <2>3 DEF Store
  <2>5. Alone(t)' /\ pc'[t] = "front"
    BY <1>0, <2>2, <2>4, StepAlone
  <2>6. /\ start' = start /\ finish' = finish + 1
        /\ block' = [block EXCEPT ![t] = Head(todo[t])]
    BY <1>c, <2>3 DEF Store
  <2>7. block'[t] = Head(todo[t])
    BY <1>0, <2>6 DEF TypeOK
  <2>8. slots'[finish + 1] = Head(todo[t])
    <3>1. /\ finish + 1 \in 1 .. IF finish < Len(slots) THEN Len(slots)
                                 ELSE finish + 1
          /\ at[t] + 1 = finish + 1
      BY <1>0, <2>3
    <3> QED BY <1>c, <2>3, <3>1 DEF Store
  <2>9. OneBlock(t)'
    BY <1>0, <2>3, <2>5, <2>6, <2>7, <2>8 DEF OneBlock
  <2> QED BY <2>1, <2>2, <2>5, <2>9, SinglyStays
<1>d. ASSUME NEW t \in Thread, Front(t) PROVE Singly'
  <2>1. ~raced /\ pc[t] = "front"
    BY <1>d DEF Front, Goto
  <2>2. start < finish
    BY <1>1, <2>1 DEF Fresh
  <2>3. /\ Goto(t, "resize") /\ UNCHANGED <<queue, socket, packets>>
        /\ at' = [at EXCEPT ![t] = block[t].packet]
        /\ block' = [block EXCEPT ![t] = slots[start + 1]]
    BY <1>0, <1>d, <2>2 DEF Front
  <2>4. Singles /\ resized' = resized
        /\ slots' = slots /\ start' = start /\ finish' = finish
    BY <2>3 DEF Singles
  <2>5. Alone(t)' /\ pc'[t] = "resize"
    BY <1>0, <2>1, <2>3, StepAlone
  <2>6. finish = start + 1 /\ block[t] = slots[finish]
    BY <1>2, <2>1, <2>4 DEF OneBlock
  <2>7. at'[t] = block[t].packet /\ block'[t] = slots[start + 1]
    BY <1>0, <2>3 DEF TypeOK
  <2>8. OneBlock(t)'
    BY <2>4, <2>5, <2>6, <2>7 DEF OneBlock
  <2> QED BY <2>1, <2>4, <2>5, <2>8, SinglyStays
<1>e. ASSUME NEW t \in Thread, Resize(t) PROVE Singly'
  <2>1. ~raced /\ Alone(t) /\ Alone(t)' /\ pc'[t] = "size" /\ pc[t] = "resize"
    BY <1>0, <1>e, StepAlone DEF Resize
  <2>2. /\ Singles /\ slots' = slots /\ start' = start /\ finish' = finish
        /\ resized' = [resized EXCEPT ![block[t]] = at[t]]
    BY <1>e DEF Resize, Singles
  <2>3. /\ finish = start + 1 /\ block[t] = slots[finish]
        /\ at[t] = block[t].packet
    BY <1>2, <2>1, <2>2 DEF OneBlock
  <2>5. Sized(block[t])'
    <3>1. block[t] \in Block /\ resized \in [Block -> 0 .. MaxSends]
          /\ block' = block
      BY <1>0, <1>e, <2>1 DEF TypeOK, Loaded, Resize
    <3> HIDE DEF Block
    <3> QED BY <2>2, <2>3, <3>1 DEF Sized
  <2>6. OneBlock(t)'
    <3>1. Sized(slots[finish])'
      <4>1. block'[t] = block[t]
        BY <1>e DEF Resize
      <4> QED BY <2>2, <2>3, <2>5, <4>1 DEF Sized
    <3> QED BY <2>1, <2>2, <2>3, <3>1 DEF OneBlock
  <2> QED BY <2>1, <2>6, SinglyStays
<1>f. ASSUME NEW t \in Thread, Size(t) PROVE Singly'
  <2>1. ~raced /\ Alone(t)' /\ pc[t] = "size"
        /\ pc'[t] = IF start = finish THEN "idle" ELSE "take"
    BY <1>0, <1>f, StepAlone DEF Size
  <2>2. /\ Singles /\ resized' = resized
        /\ slots' = slots /\ start' = start /\ finish' = finish
    BY <1>f DEF Size, Singles
  <2>3. start = finish \/ (finish = start + 1 /\ Sized(slots[finish]))
    BY <1>2, <2>1, <2>2 DEF OneBlock
  <2>4. OneBlock(t)' /\ (pc'[t] = "idle" => start' = finish')
    BY <2>1, <2>2, <2>3 DEF OneBlock, Sized
  <2> QED BY <2>1, <2>2, <2>4, SinglyStays
<1>g. ASSUME NEW t \in Thread, Take(t) PROVE Singly'
  <2>1. ~raced /\ pc[t] = "take"
    BY <1>g DEF Take, Goto
  <2>2. start < finish
    BY <1>1, <2>1 DEF Fresh
  <2>3. /\ Goto(t, "pop") /\ UNCHANGED <<queue, socket, packets>>
        /\ block' = [block EXCEPT ![t] = slots[start + 1]]
    BY <1>0, <1>g, <2>2 DEF Take
  <2>4. Singles /\ resized' = resized
        /\ slots' = slots /\ start' = start /\ finish' = finish
    BY <2>3 DEF Singles
  <2>5. Alone(t)' /\ pc'[t] = "pop"
    BY <1>0, <2>1, <2>3, StepAlone
  <2>6. finish = start + 1 /\ Sized(slots[finish])
    BY <1>2, <2>1, <2>4 DEF OneBlock
  <2>7. block'[t] = slots[start + 1]
    BY <1>0, <2>3 DEF TypeOK
  <2>8. OneBlock(t)'
    BY <2>4, <2>5, <2>6, <2>7 DEF OneBlock, Sized
  <2> QED BY <2>1, <2>4, <2>5, <2>8, SinglyStays
<1>h. ASSUME NEW t \in Thread, Pop(t) PROVE Singly'
  <2>1. ~raced /\ Alone(t)' /\ pc'[t] = "write" /\ pc[t] = "pop"
    BY <1>0, <1>h, StepAlone DEF Pop
  <2>2. /\ Singles /\ resized' = resized
        /\ finish' = finish /\ block' = block
    BY <1>h DEF Pop, Singles
  <2>3. finish = start + 1 /\ Sized(block[t])
    BY <1>2, <2>1, <2>2 DEF OneBlock
  <2>4. start' = start + 1
    BY <1>1, <1>h, <2>1 DEF Pop, Fresh
  <2>5. OneBlock(t)'
    BY <2>1, <2>2, <2>3, <2>4 DEF OneBlock, Sized
  <2> QED BY <2>1, <2>2, <2>5, SinglyStays
<1>i. ASSUME NEW t \in Thread, Write(t) PROVE Singly'
  <2>1. ~raced /\ Alone(t)' /\ pc'[t] = "idle" /\ pc[t] = "write"
    BY <1>0, <1>i, StepAlone DEF Write
  <2>2. Singles /\ start' = start /\ finish' = finish
    BY <1>i DEF Write, Singles
  <2>3. start = finish
    BY <1>2, <2>1, <2>2 DEF OneBlock
  <2>4. OneBlock(t)'
    BY <2>1 DEF OneBlock
  <2> QED BY <2>1, <2>2, <2>3, <2>4, SinglyStays
<1>j. ASSUME OnWrite PROVE Singly'
  <2>1. "io" \in Thread
    BY DEF Thread
  <2>2. /\ ~raced /\ Alone("io") /\ Alone("io")' /\ pc'["io"] = "size"
        /\ pc["io"] = "idle"
    BY <1>0, <1>j, <2>1, StepAlone DEF OnWrite
  <2>3. /\ Singles /\ resized' = resized
        /\ start' = start /\ finish' = finish
    BY <1>j DEF OnWrite, Singles
  <2>4. start = finish
    <3>1. Idle
      BY <2>2 DEF Alone, Idle
    <3> QED BY <2>2, <2>3, <3>1 DEF Singly
  <2>5. OneBlock("io")'
    BY <2>2, <2>3, <2>4 DEF OneBlock
  <2> QED BY <2>1, <2>2, <2>3, <2>5, SinglyStays
<1>k. ASSUME Transmit PROVE Singly'
  <2>1. /\ Singles /\ ~raced /\ UNCHANGED <<queue, threads>>
    BY <1>k DEF Transmit, Singles
  <2>2. \A t \in Thread : OneBlock(t)'
    BY <1>2, <2>1 DEF OneBlock, Sized
  <2>3. Idle' => start' = finish'
    BY <2>1 DEF Singly, Idle
  <2> QED BY <2>2, <2>3 DEF Singly
<1>l. ASSUME UNCHANGED vars PROVE Singly'
  BY <1>l DEF vars, Singly, OneBlock, Sized, Singles, Idle
<1> QED
  BY <1>a, <1>b, <1>c, <1>d, <1>e, <1>f, <1>g, <1>h, <1>i, <1>j, <1>k, <1>l
     DEF Next, Step

\* The block at the front, or about to be written, is not one of the packets
\* before the first of several blocks, once such a packet has been sent.
Behind ==
  ~raced /\ ~Singles =>
    /\ \A i \in start + 1 .. finish : ~SinglesUpTo(slots[i].packet)
    /\ \A t \in Thread :
         pc[t] \in {"pop", "write"} => ~SinglesUpTo(block[t].packet)

LEMMA BehindInit == Init => Behind
<1> SUFFICES ASSUME Init PROVE Singles
  BY DEF Behind
<1> QED BY DEF Init, Singles

\* A step that pushes nothing and takes nothing.
LEMMA BehindStays ==
  ASSUME Behind, ~raced, UNCHANGED <<slots, start, finish, packets>>,
         \A t \in Thread : pc'[t] \in {"pop", "write"} =>
                             pc'[t] = pc[t] /\ block'[t] = block[t]
  PROVE  Behind'
BY DEF Behind, Singles, SinglesUpTo

LEMMA BehindStep ==
  TypeInv /\ Turns /\ Once /\ Singly /\ Behind /\ [Next]_vars => Behind'
<1> USE DEF queue, threads, socket
<1> SUFFICES ASSUME TypeInv, Turns, Once, Singly, Behind, [Next]_vars,
                    ~raced', ~Singles'
             PROVE  Behind'
  BY DEF Behind
<1>0. /\ TypeOK /\ start \in Nat /\ finish \in Nat
      /\ packets \in Seq(1 .. MaxBlocks) /\ Len(packets) \in Nat
      /\ \A t \in Thread : Loaded(t)
  BY DEF TypeInv, TypeOK
<1>a. ASSUME NEW t \in Thread, NEW n \in 1 .. MaxBlocks, Send(t, n)
      PROVE  Behind'
  <2>1. ~raced /\ Alone(t) /\ Alone(t)' /\ pc'[t] = "push" /\ pc[t] = "idle"
    BY <1>0, <1>a, StepAlone DEF Send
  <2>2. packets' = Append(packets, n) /\ UNCHANGED queue
    BY <1>a DEF Send
  <2>3. \A p \in 1 .. Len(packets) : packets'[p] = packets[p]
    BY <1>0, <2>2
  <2>4. \A u \in Thread : pc'[u] \notin {"pop", "write"}
    BY <2>1 DEF Alone
  <2>5. ASSUME NEW i \in start + 1 .. finish
        PROVE  ~SinglesUpTo(slots[i].packet)'
    <3>1. ~Singles
      <4>1. start # finish
        BY <1>0
      <4>2. Idle
        BY <2>1 DEF Alone, Idle
      <4> QED BY <2>1, <4>1, <4>2 DEF Singly
    <3>2. slots[i].packet \in 1 .. Len(packets)
      <4>1. i \in 1 .. finish
        BY <1>0
      <4> QED BY <2>1, <4>1 DEF Once
    <3>3. ~SinglesUpTo(slots[i].packet)
      BY <2>1, <3>1 DEF Behind
    <3>4. PICK q \in 1 .. slots[i].packet : packets[q] # 1
      BY <3>3 DEF SinglesUpTo
    <3>5. q \in 1 .. Len(packets)
      BY <1>0, <3>2
    <3>6. packets'[q] # 1
      BY <2>3, <3>4, <3>5
    <3> QED BY <2>2, <3>4, <3>6 DEF SinglesUpTo
  <2> QED BY <2>2, <2>4, <2>5 DEF Behind
<1>b. ASSUME NEW t \in Thread, Store(t) PROVE Behind'
  <2>1. ~raced /\ Alone(t)' /\ pc'[t] \in {"push", "front"} /\ pc[t] = "store"
    BY <1>0, <1>b, StepAlone DEF Store
  <2>2. start' = start /\ finish' = at[t] + 1 /\ packets' = packets
    BY <1>b DEF Store
  <2>3. at[t] = finish /\ start <= finish
    BY <2>1 DEF Turns, Fresh
  <2>4. /\ Len(slots) = finish
        /\ Remaining(todo[t], Len(packets))
    BY <2>1 DEF Once, Queueing
  <2>5. slots' = [i \in 1 .. finish + 1 |->
                    IF i = finish + 1 THEN Head(todo[t]) ELSE slots[i]]
    BY <1>0, <1>b, <2>3, <2>4 DEF Store
  <2>6. Head(todo[t]).packet = Len(packets)
    <3>1. Head(todo[t]) = todo[t][1] /\ 1 \in 1 .. Len(todo[t])
      BY <1>0, <2>1, EmptySeq DEF TypeOK, Loaded
    <3> QED BY <2>4, <3>1 DEF Remaining
  <2>7. ~SinglesUpTo(Len(packets)) /\ ~Singles
    <3>1. DOMAIN packets = 1 .. Len(packets)
      BY <1>0, LenProperties
    <3> QED BY <2>2, <3>1 DEF Singles, SinglesUpTo
  <2>8. ASSUME NEW i \in start + 1 .. finish + 1
        PROVE  ~SinglesUpTo(slots'[i].packet)
    <3>1. CASE i = finish + 1
      <4>1. slots'[i] = Head(todo[t])
        BY <1>0, <2>5, <3>1
      <4> QED BY <2>6, <2>7, <4>1
    <3>2. CASE i # finish + 1
      <4>1. i \in start + 1 .. finish /\ i \in 1 .. finish + 1
        BY <1>0, <3>2
      <4>2. slots'[i] = slots[i]
        BY <2>5, <3>2, <4>1
      <4> QED BY <2>1, <2>7, <4>1, <4>2 DEF Behind
    <3> QED BY <3>1, <3>2
  <2>9. \A u \in Thread : pc'[u] \notin {"pop", "write"}
    BY <2>1 DEF Alone
  <2>10. \A i \in start' + 1 .. finish' : ~SinglesUpTo(slots[i].packet)'
    BY <2>2, <2>3, <2>8 DEF SinglesUpTo
  <2> QED BY <2>9, <2>10 DEF Behind
<1>c. ASSUME NEW t \in Thread, Take(t) PROVE Behind'
  <2>1. ~raced /\ pc[t] = "take"
    BY <1>c DEF Take, Goto
  <2>2. start < finish
    BY <2>1 DEF Turns, Fresh
  <2>3. /\ Goto(t, "pop") /\ UNCHANGED <<queue, packets>>
        /\ block' = [block EXCEPT ![t] = slots[start + 1]]
    BY <1>0, <1>c, <2>2 DEF Take
  <2>4. Alone(t)' /\ pc'[t] = "pop"
    BY <1>0, <2>1, <2>3, StepAlone
  <2>5. block'[t] = slots[start + 1] /\ start + 1 \in start + 1 .. finish
    BY <1>0, <2>2, <2>3 DEF TypeOK
  <2>6. /\ ~Singles
        /\ \A i \in start + 1 .. finish : ~SinglesUpTo(slots[i].packet)
    BY <2>1, <2>3 DEF Behind, Singles
  <2>7. \A u \in Thread : pc'[u] \in {"pop", "write"} => u = t
    BY <2>4 DEF Alone
  <2>8. \A p : SinglesUpTo(p)' <=> SinglesUpTo(p)
    BY <2>3 DEF SinglesUpTo
  <2> QED BY <2>3, <2>5, <2>6, <2>7 DEF Behind, SinglesUpTo
<1>d. ASSUME NEW t \in Thread, Pop(t) PROVE Behind'
  <2>1. ~raced /\ Alone(t)' /\ pc'[t] = "write" /\ pc[t] = "pop"
    BY <1>0, <1>d, StepAlone DEF Pop
  <2>2. start' = start + 1 /\ UNCHANGED <<slots, finish, block, packets>>
    BY <1>d, <2>1 DEF Pop, Turns, Fresh
  <2>3. /\ \A i \in start + 1 .. finish : ~SinglesUpTo(slots[i].packet)
        /\ ~SinglesUpTo(block[t].packet)
    BY <2>1, <2>2 DEF Behind, Singles
  <2>4. \A i \in start' + 1 .. finish : i \in start + 1 .. finish
    BY <1>0, <2>2
  <2>5. \A u \in Thread : pc'[u] \in {"pop", "write"} => u = t
    BY <2>1 DEF Alone
  <2> QED BY <2>2, <2>3, <2>4, <2>5 DEF Behind, SinglesUpTo
<1>e. ASSUME NEW t \in Thread,
             Push(t) \/ Front(t) \/ Resize(t) \/ Size(t) \/ Write(t)
      PROVE  Behind'
  <2>1. /\ ~raced /\ UNCHANGED <<slots, start, finish, packets>>
        /\ \E step : /\ Goto(t, step) /\ step \notin {"pop", "write"}
                     /\ pc[t] # "idle"
    BY <1>e DEF Push, Front, Resize, Size, Write, Goto
  <2>2. \A u \in Thread : pc'[u] \notin {"pop", "write"}
    <3>1. PICK step : /\ Goto(t, step) /\ step \notin {"pop", "write"}
                      /\ pc[t] # "idle"
      BY <2>1
    <3>2. Alone(t)' /\ pc'[t] = step
      BY <1>0, <3>1, StepAlone
    <3> QED BY <3>1, <3>2 DEF Alone
  <2> QED BY <2>1, <2>2, BehindStays
<1>f. ASSUME OnWrite PROVE Behind'
  <2>1. "io" \in Thread
    BY DEF Thread
  <2>2. /\ ~raced /\ Alone("io")' /\ pc'["io"] = "size"
        /\ UNCHANGED <<slots, start, finish, packets>>
    BY <1>0, <1>f, <2>1, StepAlone DEF OnWrite
  <2>3. \A u \in Thread : pc'[u] \notin {"pop", "write"}
    BY <2>2 DEF Alone
  <2> QED BY <2>2, <2>3, BehindStays
<1>g. ASSUME Transmit \/ UNCHANGED vars PROVE Behind'
  <2>1. ~raced /\ UNCHANGED <<slots, start, finish, packets, pc, block>>
    BY <1>g DEF Transmit, vars
  <2> QED BY <2>1, BehindStays
<1> QED BY <1>a, <1>b, <1>c, <1>d, <1>e, <1>f, <1>g DEF Next, Step

\* What is written of a packet of one block, up to the first packet of several,
\* has been given the size of its own packet.
OwnSize(w) == SinglesUpTo(w.block.packet) => w.for = w.block.packet

OwnSizes ==
  ~raced => /\ \A i \in 1 .. Len(ops) : OwnSize(ops[i])
            /\ \A i \in 1 .. Len(wire) : OwnSize(wire[i])

LEMMA OwnSizesInit == Init => OwnSizes
<1> SUFFICES ASSUME Init PROVE OwnSizes
  OBVIOUS
<1>1. Len(wire) = 0 /\ Len(ops) = 0
  BY DEF Init
<1> QED BY <1>1 DEF OwnSizes

LEMMA OwnSizesStep ==
  TypeInv /\ Turns /\ InOrder /\ Once /\ Singly /\ Behind /\ OwnSizes
    /\ [Next]_vars => OwnSizes'
<1> USE DEF queue, threads, socket
<1> SUFFICES ASSUME TypeInv, Turns, InOrder, Once, Singly, Behind, OwnSizes,
                    [Next]_vars, ~raced'
             PROVE  OwnSizes'
  BY DEF OwnSizes
<1>0. /\ TypeOK /\ start \in Nat /\ finish \in Nat
      /\ Len(wire) \in Nat /\ Len(ops) \in Nat
      /\ packets \in Seq(1 .. MaxBlocks) /\ Len(packets) \in Nat
  BY DEF TypeInv, TypeOK
<1>a. ASSUME NEW t \in Thread, NEW n \in 1 .. MaxBlocks, Send(t, n)
      PROVE  OwnSizes'
  <2>1. ~raced /\ Alone(t) /\ pc[t] = "idle"
    BY <1>0, <1>a, StepAlone DEF Send
  <2>2. packets' = Append(packets, n) /\ ops' = ops /\ wire' = wire
    BY <1>a DEF Send
  <2>3. /\ Len(wire) + Len(ops) = start /\ start <= finish
        /\ \A i \in 1 .. Len(wire) : wire[i].block = slots[i]
        /\ \A i \in 1 .. Len(ops) : ops[i].block = slots[Len(wire) + i]
        /\ \A i \in 1 .. finish : slots[i].packet \in 1 .. Len(packets)
    <3>1. \A u \in Thread : pc[u] # "write"
      BY <2>1 DEF Alone
    <3>2. Len(wire) + Len(ops) = start
      BY <2>1, <3>1 DEF InOrder
    <3> QED BY <2>1, <3>2 DEF InOrder, Once, Turns
  <2>4. /\ \A i \in 1 .. Len(wire) : wire[i].block.packet \in 1 .. Len(packets)
        /\ \A i \in 1 .. Len(ops) : ops[i].block.packet \in 1 .. Len(packets)
    <3>1. ASSUME NEW i \in 1 .. Len(wire)
          PROVE  wire[i].block.packet \in 1 .. Len(packets)
      <4>1. i \in 1 .. finish
        BY <1>0, <2>3
      <4> QED BY <2>3, <4>1
    <3>2. ASSUME NEW i \in 1 .. Len(ops)
          PROVE  ops[i].block.packet \in 1 .. Len(packets)
      <4>1. Len(wire) + i \in 1 .. finish
        BY <1>0, <2>3
      <4> QED BY <2>3, <4>1
    <3> QED BY <3>1, <3>2
  <2>5. ASSUME NEW p \in 1 .. Len(packets), SinglesUpTo(p)'
        PROVE  SinglesUpTo(p)
    <3>1. ASSUME NEW q \in 1 .. p PROVE packets[q] = 1
      <4>1. q \in 1 .. Len(packets)
        BY <1>0
      <4>2. packets'[q] = packets[q]
        BY <1>0, <2>2, <4>1
      <4> QED BY <2>5, <4>2 DEF SinglesUpTo
    <3> QED BY <3>1 DEF SinglesUpTo
  <2>6. ASSUME NEW i \in 1 .. Len(wire), SinglesUpTo(wire[i].block.packet)'
        PROVE  wire[i].for = wire[i].block.packet
    <3>1. PICK p \in 1 .. Len(packets) : p = wire[i].block.packet
      BY <2>4
    <3>2. SinglesUpTo(p)'
      BY <2>2, <2>6, <3>1 DEF SinglesUpTo
    <3>3. SinglesUpTo(p)
      BY <2>5, <3>2
    <3> QED BY <2>1, <3>1, <3>3 DEF OwnSizes, OwnSize
  <2>7. ASSUME NEW i \in 1 .. Len(ops), SinglesUpTo(ops[i].block.packet)'
        PROVE  ops[i].for = ops[i].block.packet
    <3>1. PICK p \in 1 .. Len(packets) : p = ops[i].block.packet
      BY <2>4
    <3>2. SinglesUpTo(p)'
      BY <2>2, <2>7, <3>1 DEF SinglesUpTo
    <3>3. SinglesUpTo(p)
      BY <2>5, <3>2
    <3> QED BY <2>1, <3>1, <3>3 DEF OwnSizes, OwnSize
  <2> QED BY <2>2, <2>6, <2>7 DEF OwnSizes, OwnSize, SinglesUpTo
<1>b. ASSUME NEW t \in Thread, Write(t) PROVE OwnSizes'
  <2> DEFINE op == [block |-> block[t], for |-> resized[block[t]]]
  <2>1. ~raced /\ pc[t] = "write"
    BY <1>b DEF Write, Goto
  <2>2. ops' = Append(ops, op) /\ wire' = wire /\ packets' = packets
    BY <1>b DEF Write
  <2>3. OwnSize(op)
    <3> SUFFICES ASSUME SinglesUpTo(block[t].packet)
                 PROVE  resized[block[t]] = block[t].packet
      BY DEF OwnSize
    <3>1. Singles
      BY <2>1 DEF Behind
    <3> QED BY <2>1, <3>1 DEF Singly, OneBlock, Sized
  <2> HIDE DEF op
  <2>4. /\ Len(ops') = Len(ops) + 1 /\ ops'[Len(ops) + 1] = op
        /\ \A i \in 1 .. Len(ops) : ops'[i] = ops[i]
    BY <1>0, <2>2 DEF TypeOK
  <2>5. ASSUME NEW i \in 1 .. Len(ops') PROVE OwnSize(ops'[i])
    <3>1. CASE i = Len(ops) + 1
      BY <2>3, <2>4, <3>1
    <3>2. CASE i # Len(ops) + 1
      <4>1. i \in 1 .. Len(ops)
        BY <1>0, <2>4, <3>2
      <4> QED BY <2>1, <2>4, <4>1 DEF OwnSizes
    <3> QED BY <3>1, <3>2
  <2>6. \A i \in 1 .. Len(wire) : OwnSize(wire[i])
    BY <2>1 DEF OwnSizes
  <2> QED BY <2>2, <2>5, <2>6 DEF OwnSizes, OwnSize, SinglesUpTo
<1>c. ASSUME Transmit PROVE OwnSizes'
  <2> DEFINE w == [block |-> Head(ops).block, for |-> Head(ops).for,
                   dangling |-> resized[Head(ops).block] # Head(ops).for]
  <2>1. /\ wire' = Append(wire, w) /\ ops' = Tail(ops) /\ ops # <<>> /\ ~raced
        /\ packets' = packets
    BY <1>c DEF Transmit
  <2>2. /\ Len(ops') = Len(ops) - 1 /\ Len(ops) >= 1
        /\ \A i \in 1 .. Len(ops') : ops'[i] = ops[i + 1]
    BY <1>0, <2>1, HeadTailProperties, EmptySeq DEF TypeOK
  <2>3. /\ \A i \in 1 .. Len(ops) : OwnSize(ops[i])
        /\ \A i \in 1 .. Len(wire) : OwnSize(wire[i])
    BY <2>1 DEF OwnSizes
  <2>4. OwnSize(w)
    <3>1. OwnSize(Head(ops))
      BY <1>0, <2>2, <2>3
    <3> QED BY <3>1 DEF OwnSize
  <2> HIDE DEF w
  <2>5. /\ Len(wire') = Len(wire) + 1 /\ wire'[Len(wire) + 1] = w
        /\ \A i \in 1 .. Len(wire) : wire'[i] = wire[i]
    BY <1>0, <2>1 DEF TypeOK
  <2>6. ASSUME NEW i \in 1 .. Len(wire') PROVE OwnSize(wire'[i])
    <3>1. CASE i = Len(wire) + 1
      BY <2>4, <2>5, <3>1
    <3>2. CASE i # Len(wire) + 1
      <4>1. i \in 1 .. Len(wire)
        BY <1>0, <2>5, <3>2
      <4> QED BY <2>3, <2>5, <4>1
    <3> QED BY <3>1, <3>2
  <2>7. ASSUME NEW i \in 1 .. Len(ops') PROVE OwnSize(ops'[i])
    <3>1. i + 1 \in 1 .. Len(ops)
      BY <1>0, <2>2
    <3> QED BY <2>2, <2>3, <3>1
  <2> QED BY <2>1, <2>6, <2>7 DEF OwnSizes, OwnSize, SinglesUpTo
<1>d. ASSUME NEW t \in Thread, Step(t), ~Write(t) PROVE OwnSizes'
  <2>1. UNCHANGED <<ops, wire, packets>>
    BY <1>d DEF Step, Push, Store, Front, Resize, Size, Take, Pop
  <2>2. ~raced
    <3>1. \E step : Goto(t, step)
      BY <1>d DEF Step, Push, Store, Front, Resize, Size, Take, Pop
    <3> QED BY <3>1 DEF Goto
  <2> QED BY <2>1, <2>2 DEF OwnSizes, OwnSize, SinglesUpTo
<1>e. ASSUME OnWrite \/ UNCHANGED vars PROVE OwnSizes'
  <2>1. ~raced /\ UNCHANGED <<ops, wire, packets>>
    <3>1. CASE OnWrite
      <4>1. Goto("io", "size") /\ UNCHANGED <<ops, wire, packets>>
        BY <3>1 DEF OnWrite
      <4> QED BY <4>1 DEF Goto
    <3>2. CASE UNCHANGED vars
      BY <3>2 DEF vars
    <3> QED BY <1>e, <3>1, <3>2
  <2> QED BY <2>1 DEF OwnSizes, OwnSize, SinglesUpTo
<1> QED BY <1>a, <1>b, <1>c, <1>d, <1>e DEF Next

\* While the threads take turns, no block is resized while it is being written,
\* however many writes are under way and of however many blocks the packets
\* are; and packets of one block go out with their own size up to the first
\* packet of several, although the resize of send picks the block in front and
\* not the one that was pushed.
THEOREM SinglesKeepTheirSize == Spec => []SinglesIntactUnlessRaced
<1>1. TypeInv /\ Steady /\ OwnSizes => SinglesIntactUnlessRaced
  <2> SUFFICES ASSUME TypeInv, Steady, OwnSizes, ~raced, NEW i \in DOMAIN wire
               PROVE  /\ ~wire[i].dangling
                      /\ SinglesUpTo(wire[i].block.packet) =>
                           wire[i].for = wire[i].block.packet
    BY DEF SinglesIntactUnlessRaced
  <2>1. i \in 1 .. Len(wire)
    BY LenProperties DEF TypeInv, TypeOK
  <2> QED BY <2>1 DEF Steady, OwnSizes, OwnSize
<1> QED BY TypeInit, TypeStep, TurnsInit, TurnsStep, InOrderInit, InOrderStep,
           OnceInit, OnceStep, SteadyInit, SteadyStep, SinglyInit, SinglyStep,
           BehindInit, BehindStep, OwnSizesInit, OwnSizesStep, <1>1, PTL
           DEF Spec
=============================================================================
