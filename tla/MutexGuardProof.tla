--------------------------- MODULE MutexGuardProof ---------------------------
(***************************************************************************)
(* Nothing is lost, and the guards are users of a lock, for every set of   *)
(* threads, every number of blocks and every depth.  Fairness is left to   *)
(* TLC.                                                                    *)
(***************************************************************************)
EXTENDS MutexGuard, TLAPS

\* Nobody holds the mutex and nothing is counted yet.
LEMMA InitIInv == Init => IInv
  BY ThreadsAssumption DEF Init, IInv, TypeOK, Pcs, Inside, HeldByGuards, ReadIsCurrent, NothingLost

\* A step that leaves the mutex and the number of guards alone, and moves the
\* thread between places that need as many guards as it has.
LEMMA QuietStep ==
    ASSUME IInv, NEW t \in Threads, NEW from \in Pcs, NEW to \in Pcs,
           Goto(t, from, to),
           to \in Inside => depth[t] > 0,
           to = "outside" => depth[t] = 0,
           UNCHANGED <<owner, count, depth>>
    PROVE  HeldByGuards' /\ pc' \in [Threads -> Pcs]
  BY DEF IInv, TypeOK, HeldByGuards, Goto

\* A step that leaves the counting alone and does not lead to a write.
LEMMA NotCounting ==
    ASSUME IInv, NEW t \in Threads, NEW from \in Pcs, NEW to \in Pcs,
           Goto(t, from, to), to # "write",
           UNCHANGED <<counter, seen, done>>
    PROVE  /\ ReadIsCurrent' /\ NothingLost'
           /\ counter' \in Nat /\ seen' \in [Threads -> Nat] /\ done' \in Nat
  BY DEF IInv, TypeOK, ReadIsCurrent, NothingLost, Goto

\* The thread gets a guard: it had the mutex already, or nobody had.
LEMMA ConstructIInv ==
    ASSUME IInv, NEW t \in Threads, Construct(t)
    PROVE  IInv'
<1> USE DEF IInv, Construct, Acquire
<1>1. ReadIsCurrent' /\ NothingLost' /\ counter' \in Nat /\ seen' \in [Threads -> Nat] /\ done' \in Nat
  BY NotCounting DEF Pcs, Inside, data
<1>2. TypeOK'
  <2>1. pc' \in [Threads -> Pcs] /\ todo' \in [Threads -> Nat]
    BY DEF TypeOK, Goto, Pcs, Inside
  <2>2. depth' \in [Threads -> Nat]
    BY DEF TypeOK
  <2> QED
    BY <1>1, <2>1, <2>2 DEF TypeOK
<1>3. HeldByGuards'
  <2>1. /\ depth' = [depth EXCEPT ![t] = @ + 1] /\ owner' = t /\ t # NoThread
        /\ pc' = [pc EXCEPT ![t] = "next"]
    BY ThreadsAssumption DEF Goto
  <2>2. \A u \in Threads \ {t} : depth[u] = 0
    BY ThreadsAssumption DEF HeldByGuards, TypeOK
  <2>3. count = depth[t]
    BY ThreadsAssumption DEF HeldByGuards, TypeOK
  <2>4. \A u \in Threads : depth'[u] > 0 <=> owner' = u
    BY <2>1, <2>2 DEF TypeOK
  <2>5. count' = depth'[t]
    BY <2>1, <2>3 DEF TypeOK
  <2>6. \A u \in Threads : (pc'[u] \in Inside => depth'[u] > 0) /\ (pc'[u] = "outside" => depth'[u] = 0)
    BY <2>1 DEF HeldByGuards, TypeOK, Inside
  <2> QED
    BY <2>1, <2>4, <2>5, <2>6 DEF HeldByGuards
<1> QED
  BY <1>1, <1>2, <1>3

\* The thread ends its innermost guard: the mutex is free after the outermost.
LEMMA DestructIInv ==
    ASSUME IInv, NEW t \in Threads, Destruct(t)
    PROVE  IInv'
<1> USE DEF IInv, Destruct, Relinquish
<1>1. PICK to \in {"outside", "bodyEnd", "unwind"} :
          /\ Goto(t, "leave", to) \/ Goto(t, "unwind", to)
          /\ to = "outside" <=> depth[t] = 1
  OBVIOUS
<1>2. ReadIsCurrent' /\ NothingLost' /\ counter' \in Nat /\ seen' \in [Threads -> Nat] /\ done' \in Nat
  BY <1>1, NotCounting DEF Pcs, Inside, data
<1>3. depth[t] > 0 /\ owner = t /\ count = depth[t] /\ t # NoThread
  BY ThreadsAssumption DEF TypeOK, HeldByGuards
<1>4. depth' = [depth EXCEPT ![t] = @ - 1] /\ count' = count - 1
  OBVIOUS
<1>5. TypeOK'
  <2>1. pc' \in [Threads -> Pcs] /\ todo' \in [Threads -> Nat]
    BY <1>1 DEF TypeOK, Goto, Pcs, Inside
  <2>2. depth[t] - 1 \in Nat /\ count - 1 \in Nat
    BY <1>3 DEF TypeOK
  <2>3. depth' \in [Threads -> Nat] /\ count' \in Nat
    BY <1>4, <2>2 DEF TypeOK
  <2> QED
    BY <1>2, <2>1, <2>3 DEF TypeOK
<1>6. \A u \in Threads : depth'[u] > 0 <=> owner' = u
  BY <1>3, <1>4, ThreadsAssumption DEF TypeOK, HeldByGuards
<1>7. \A u \in Threads : (pc'[u] \in Inside => depth'[u] > 0) /\ (pc'[u] = "outside" => depth'[u] = 0)
  BY <1>1, <1>3, <1>4 DEF TypeOK, HeldByGuards, Inside, Goto
<1>8. count' = IF owner' = NoThread THEN 0 ELSE depth'[owner']
  BY <1>3, <1>4 DEF TypeOK
<1> QED
  BY <1>2, <1>5, <1>6, <1>7, <1>8 DEF HeldByGuards

\* counter++: between the read and the write only the owner is in a body.
LEMMA CountIInv ==
    ASSUME IInv, NEW t \in Threads, Read(t) \/ Write(t)
    PROVE  IInv'
<1> USE DEF IInv, mutex, guards
<1>1. owner = t /\ depth[t] > 0
  BY DEF Read, Write, Goto, HeldByGuards, Inside
<1>2. HeldByGuards' /\ pc' \in [Threads -> Pcs]
  BY <1>1, QuietStep DEF Read, Write, Pcs, Inside
<1>3. \A u \in Threads \ {t} : pc[u] # "write" /\ pc'[u] = pc[u]
  BY <1>1 DEF HeldByGuards, Inside, Read, Write, Goto, TypeOK
<1>4. CASE Read(t)
  BY <1>2, <1>3, <1>4 DEF Read, TypeOK, ReadIsCurrent, NothingLost
<1>5. CASE Write(t)
  <2>1. counter' = counter + 1 /\ done' = done + 1
    BY <1>5 DEF Write, Goto, ReadIsCurrent
  <2>2. pc'[t] # "write"
    BY <1>5 DEF Write, Goto, TypeOK
  <2> QED
    BY <1>2, <1>3, <1>5, <2>1, <2>2 DEF Write, TypeOK, ReadIsCurrent, NothingLost
<1> QED
  BY <1>4, <1>5

\* The other steps move the thread only.
LEMMA MoveIInv ==
    ASSUME IInv, NEW t \in Threads,
           \/ Begin(t) \/ Nest(t) \/ NextTrue(t) \/ NextFalse(t)
           \/ EndBody(t) \/ Break(t) \/ Unwind(t)
    PROVE  IInv'
<1> USE DEF IInv, mutex, guards, data, Begin, Nest, NextTrue, NextFalse, EndBody, Break, Unwind
<1>1. PICK from \in Pcs, to \in Pcs \ {"outside", "write"} :
          /\ Goto(t, from, to)
          /\ to \in Inside => from \in Inside
  BY DEF Pcs, Inside
<1>2. UNCHANGED <<owner, count, depth, counter, seen, done>>
  OBVIOUS
<1>3. to \in Inside => depth[t] > 0
  BY <1>1 DEF HeldByGuards, Goto
<1>4. HeldByGuards' /\ pc' \in [Threads -> Pcs]
  BY <1>1, <1>2, <1>3, QuietStep
<1>5. ReadIsCurrent' /\ NothingLost'
  BY <1>1, <1>2, NotCounting
<1>6. todo' \in [Threads -> Nat]
  BY DEF TypeOK
<1> QED
  BY <1>2, <1>4, <1>5, <1>6 DEF TypeOK

\* Every step keeps the inductive invariant.
LEMMA NextIInv == IInv /\ [Next]_vars => IInv'
<1> SUFFICES ASSUME IInv, [Next]_vars
             PROVE  IInv'
  OBVIOUS
<1>1. ASSUME NEW t \in Threads, Step(t)
      PROVE  IInv'
  BY <1>1, ConstructIInv, DestructIInv, CountIInv, MoveIInv DEF Step
<1>2. CASE UNCHANGED vars
  BY <1>2 DEF vars, mutex, guards, data, IInv, TypeOK, HeldByGuards, ReadIsCurrent, NothingLost
<1> QED
  BY <1>1, <1>2 DEF Next

\* The inductive invariant holds in every reachable state.
THEOREM MutexGuardInvariant == Spec => []IInv
  BY InitIInv, NextIInv, PTL DEF Spec

\* No counting inside synchronized(o) is lost (nc_stdlib_unittest.cpp,
\* TEST(Stdlib, MutexGuard)), whatever the number of threads and blocks.
THEOREM MutexGuardNothingLost == Spec => []NothingLost
<1>1. IInv => NothingLost
  BY DEF IInv
<1> QED
  BY <1>1, MutexGuardInvariant, PTL

-----------------------------------------------------------------------------
\* The first guard is the grant of the lock and the end of the last its return;
\* inner guards are not seen by the lock.
LEMMA StepSimulation == IInv /\ [Next]_vars => [M!Next]_(M!vars)
<1> SUFFICES ASSUME IInv, [Next]_vars
             PROVE  [M!Next]_(M!vars)
  OBVIOUS
<1> DEFINE W == {t \in Threads : pc[t] = "enter" /\ depth[t] = 0}
           H == {t \in Threads : depth[t] > 0}
<1> USE DEF IInv
<1>1. ASSUME NEW t \in Threads, Begin(t)
      PROVE  M!Request(t)
  <2>1. depth[t] = 0 /\ UNCHANGED depth /\ pc' = [pc EXCEPT ![t] = "enter"] /\ pc[t] = "outside"
    BY <1>1 DEF Begin, Goto, HeldByGuards, guards
  <2>2. W' = W \cup {t} /\ t \notin W \cup H
    BY <2>1 DEF TypeOK
  <2> QED
    BY <2>1, <2>2 DEF M!Request
<1>2. ASSUME NEW t \in Threads, Construct(t)
      PROVE  M!Grant(t) \/ UNCHANGED M!vars
  <2>1. /\ depth' = [depth EXCEPT ![t] = @ + 1] /\ pc' = [pc EXCEPT ![t] = "next"]
        /\ pc[t] = "enter" /\ owner \in {NoThread, t}
    BY <1>2 DEF Construct, Goto, Acquire
  <2>2. CASE depth[t] = 0
    <3>1. H = {} /\ t \in W
      BY <2>1, <2>2, ThreadsAssumption DEF HeldByGuards, TypeOK
    <3>2. H' = {t} /\ W' = W \ {t}
      BY <2>1, <3>1 DEF TypeOK
    <3> QED
      BY <3>1, <3>2 DEF M!Grant
  <2>3. CASE depth[t] > 0
    <3>1. H' = H /\ W' = W
      BY <2>1, <2>3 DEF TypeOK
    <3> QED
      BY <3>1 DEF M!vars
  <2> QED
    BY <2>2, <2>3 DEF TypeOK
<1>3. ASSUME NEW t \in Threads, Destruct(t)
      PROVE  M!Return(t) \/ UNCHANGED M!vars
  <2>1. /\ depth' = [depth EXCEPT ![t] = @ - 1] /\ depth[t] > 0
        /\ pc[t] # "enter" /\ pc'[t] # "enter"
        /\ \A u \in Threads \ {t} : pc'[u] = pc[u]
    BY <1>3 DEF Destruct, Goto, TypeOK
  <2>2. W' = W
    BY <2>1 DEF TypeOK
  <2>3. CASE depth[t] = 1
    <3>1. t \in H /\ H' = H \ {t}
      BY <2>1, <2>3 DEF TypeOK
    <3> QED
      BY <2>2, <3>1 DEF M!Return
  <2>4. CASE depth[t] > 1
    <3>1. H' = H
      BY <2>1, <2>4 DEF TypeOK
    <3> QED
      BY <2>2, <3>1 DEF M!vars
  <2> QED
    BY <2>1, <2>3, <2>4 DEF TypeOK
<1>4. ASSUME NEW t \in Threads,
             \/ Nest(t) \/ NextTrue(t) \/ NextFalse(t) \/ Read(t) \/ Write(t)
             \/ EndBody(t) \/ Break(t) \/ Unwind(t)
      PROVE  UNCHANGED M!vars
  <2>1. depth[t] > 0 /\ UNCHANGED depth /\ \A u \in Threads \ {t} : pc'[u] = pc[u]
    BY <1>4 DEF Nest, NextTrue, NextFalse, Read, Write, EndBody, Break, Unwind, Goto, guards,
       HeldByGuards, Inside, TypeOK
  <2> QED
    BY <2>1 DEF M!vars, TypeOK
<1>5. CASE UNCHANGED vars
  BY <1>5 DEF vars, guards, M!vars
<1> QED
  BY <1>1, <1>2, <1>3, <1>4, <1>5 DEF Next, Step, M!Next

\* Blocks under synchronized(o) are critical sections of the lock Mutex.
THEOREM MutexGuardImplementsMutex == Spec => M!Spec
<1>1. Init => M!Init
  BY DEF Init, M!Init
<1>2. IInv /\ [Next]_vars => [M!Next]_(M!vars)
  BY StepSimulation
<1> QED
  BY <1>1, <1>2, MutexGuardInvariant, PTL DEF Spec, M!Spec

-----------------------------------------------------------------------------
\* The bodies: what a step of a thread does to its own guards is enough to know.
LEMMA GuardsRunOf ==
    ASSUME GuardsRun, NEW t \in Threads,
           m_firstTime' \in [Threads -> [1..MaxDepth -> BOOLEAN]],
           ran' \in [Threads -> [1..MaxDepth -> Nat]],
           \A u \in Threads \ {t} : /\ m_firstTime'[u] = m_firstTime[u] /\ ran'[u] = ran[u]
                                    /\ depth'[u] = depth[u] /\ pc'[u] = pc[u],
           depth'[t] <= MaxDepth /\ (pc'[t] = "enter" => depth'[t] < MaxDepth),
           \A d \in 1..depth'[t] : GuardRan(t, d)'
    PROVE  GuardsRun'
<1>1. ASSUME NEW u \in Threads \ {t}
      PROVE  /\ depth'[u] <= MaxDepth /\ (pc'[u] = "enter" => depth'[u] < MaxDepth)
             /\ \A d \in 1..depth'[u] : GuardRan(u, d)'
  BY DEF GuardsRun, GuardRan
<1> QED
  BY <1>1 DEF GuardsRun

\* A guard is made with its flag set, next() takes the flag back and begins the
\* body, and nothing else is done to the flags of a thread.
LEMMA GuardsRunStep == IInv /\ GuardsRun /\ [Next]_vars => GuardsRun'
<1> SUFFICES ASSUME IInv, GuardsRun, [Next]_vars
             PROVE  GuardsRun'
  OBVIOUS
<1>0. /\ MaxDepth \in Nat \ {0} /\ depth \in [Threads -> Nat] /\ pc \in [Threads -> Pcs]
      /\ m_firstTime \in [Threads -> [1..MaxDepth -> BOOLEAN]]
      /\ ran \in [Threads -> [1..MaxDepth -> Nat]]
      /\ \A t \in Threads : /\ pc[t] \in Inside => depth[t] > 0
                            /\ depth[t] <= MaxDepth /\ (pc[t] = "enter" => depth[t] < MaxDepth)
                            /\ \A d \in 1..depth[t] : GuardRan(t, d)
  BY ThreadsAssumption DEF IInv, TypeOK, HeldByGuards, GuardsRun
<1>1. ASSUME NEW t \in Threads, Construct(t)
      PROVE  GuardsRun'
  <2>1. /\ depth' = [depth EXCEPT ![t] = @ + 1] /\ depth[t] + 1 \in 1..MaxDepth
        /\ pc[t] = "enter" /\ pc' = [pc EXCEPT ![t] = "next"]
        /\ m_firstTime' = [m_firstTime EXCEPT ![t][depth[t] + 1] = TRUE]
        /\ ran' = [ran EXCEPT ![t][depth[t] + 1] = 0]
    BY <1>0, <1>1 DEF Construct, Goto
  <2>2. ASSUME NEW d \in 1..depth'[t]
        PROVE  GuardRan(t, d)'
    <3>1. CASE d = depth[t] + 1
      BY <1>0, <2>1, <3>1 DEF GuardRan
    <3>2. CASE d # depth[t] + 1
      <4>1. d \in 1..depth[t] /\ d \in 1..MaxDepth
        BY <1>0, <2>1, <3>2
      <4>2. ran[t][d] = 1 /\ ~m_firstTime[t][d]
        BY <1>0, <2>1, <4>1 DEF GuardRan
      <4>3. m_firstTime'[t][d] = m_firstTime[t][d] /\ ran'[t][d] = ran[t][d]
        BY <1>0, <2>1, <3>2, <4>1
      <4> QED
        BY <4>2, <4>3 DEF GuardRan
    <3> QED
      BY <3>1, <3>2
  <2>3. /\ m_firstTime' \in [Threads -> [1..MaxDepth -> BOOLEAN]]
        /\ ran' \in [Threads -> [1..MaxDepth -> Nat]]
    BY <1>0, <2>1
  <2>4. \A u \in Threads \ {t} : /\ m_firstTime'[u] = m_firstTime[u] /\ ran'[u] = ran[u]
                                 /\ depth'[u] = depth[u] /\ pc'[u] = pc[u]
    BY <1>0, <2>1
  <2>5. depth'[t] <= MaxDepth /\ pc'[t] # "enter"
    BY <1>0, <2>1
  <2> QED
    BY <2>2, <2>3, <2>4, <2>5, GuardsRunOf
<1>2. ASSUME NEW t \in Threads, NextTrue(t)
      PROVE  GuardsRun'
  <2>1. /\ depth[t] \in 1..MaxDepth /\ UNCHANGED depth /\ pc[t] = "next" /\ pc' = [pc EXCEPT ![t] = "body"]
        /\ m_firstTime[t][depth[t]]
        /\ m_firstTime' = [m_firstTime EXCEPT ![t][depth[t]] = FALSE]
        /\ ran' = [ran EXCEPT ![t][depth[t]] = @ + 1]
    BY <1>0, <1>2 DEF NextTrue, Goto, Inside
  <2>2. ran[t][depth[t]] = 0
    BY <1>0, <2>1 DEF GuardRan
  <2>3. ASSUME NEW d \in 1..depth'[t]
        PROVE  GuardRan(t, d)'
    <3>1. CASE d = depth[t]
      BY <1>0, <2>1, <2>2, <3>1 DEF GuardRan
    <3>2. CASE d # depth[t]
      <4>1. ran[t][d] = 1 /\ ~m_firstTime[t][d] /\ d \in 1..MaxDepth
        BY <1>0, <2>1, <3>2 DEF GuardRan
      <4>2. m_firstTime'[t][d] = m_firstTime[t][d] /\ ran'[t][d] = ran[t][d]
        BY <1>0, <2>1, <3>2, <4>1
      <4> QED
        BY <4>1, <4>2 DEF GuardRan
    <3> QED
      BY <3>1, <3>2
  <2>4. /\ m_firstTime' \in [Threads -> [1..MaxDepth -> BOOLEAN]]
        /\ ran' \in [Threads -> [1..MaxDepth -> Nat]]
    BY <1>0, <2>1
  <2>5. \A u \in Threads \ {t} : /\ m_firstTime'[u] = m_firstTime[u] /\ ran'[u] = ran[u]
                                 /\ depth'[u] = depth[u] /\ pc'[u] = pc[u]
    BY <1>0, <2>1
  <2>6. depth'[t] <= MaxDepth /\ pc'[t] # "enter"
    BY <1>0, <2>1
  <2> QED
    BY <2>3, <2>4, <2>5, <2>6, GuardsRunOf
<1>3. ASSUME NEW t \in Threads, Destruct(t)
      PROVE  GuardsRun'
  <2>1. /\ depth' = [depth EXCEPT ![t] = @ - 1] /\ depth[t] \in 1..MaxDepth
        /\ pc[t] # "next" /\ pc'[t] # "enter" /\ \A u \in Threads \ {t} : pc'[u] = pc[u]
        /\ UNCHANGED <<m_firstTime, ran>>
    BY <1>0, <1>3 DEF Destruct, Goto, Inside
  <2>2. ASSUME NEW d \in 1..depth'[t]
        PROVE  GuardRan(t, d)'
    BY <1>0, <2>1 DEF GuardRan
  <2>3. depth'[t] <= MaxDepth /\ \A u \in Threads \ {t} : depth'[u] = depth[u]
    BY <1>0, <2>1
  <2> QED
    BY <1>0, <2>1, <2>2, <2>3, GuardsRunOf
<1>4. ASSUME NEW t \in Threads,
             \/ Begin(t) \/ Nest(t) \/ NextFalse(t) \/ Read(t) \/ Write(t)
             \/ EndBody(t) \/ Break(t) \/ Unwind(t)
      PROVE  GuardsRun'
  <2>1. UNCHANGED <<depth, m_firstTime, ran>> /\ \A u \in Threads \ {t} : pc'[u] = pc[u]
    BY <1>0, <1>4 DEF Begin, Nest, NextFalse, Read, Write, EndBody, Break, Unwind, Goto, guards
  <2>2. pc[t] = "next" => ~m_firstTime[t][depth[t]]
    BY <1>4 DEF Begin, Nest, NextFalse, Read, Write, EndBody, Break, Unwind, Goto
  <2>3. pc'[t] = "enter" => depth[t] < MaxDepth
    BY <1>0, <1>4 DEF Begin, Nest, NextFalse, Read, Write, EndBody, Break, Unwind, Goto, IInv, HeldByGuards
  <2>4. ASSUME NEW d \in 1..depth'[t]
        PROVE  GuardRan(t, d)'
    BY <1>0, <2>1, <2>2 DEF GuardRan
  <2> QED
    BY <1>0, <2>1, <2>3, <2>4, GuardsRunOf
<1>5. CASE UNCHANGED vars
  BY <1>5 DEF vars, guards, GuardsRun, GuardRan
<1> QED
  BY <1>1, <1>2, <1>3, <1>4, <1>5 DEF Next, Step

\* A block under synchronized(o) runs once: its for loop ends after one turn,
\* and it has run when it is left (nc_stdlib.h, __MutexGuard__::next()).
THEOREM MutexGuardRunsOnce == Spec => []BodyRunsOnce
<1>1. Init => GuardsRun
  BY ThreadsAssumption DEF Init, GuardsRun
<1>2. IInv /\ GuardsRun /\ [Next]_vars => GuardsRun'
  BY GuardsRunStep
<1>3. ASSUME IInv, GuardsRun, NEW t \in Threads, pc[t] \in Inside
      PROVE  /\ ran[t][depth[t]] <= 1
             /\ pc[t] \in {"leave", "unwind"} => ran[t][depth[t]] = 1
  <2>1. depth[t] \in 1..depth[t]
    BY <1>3 DEF IInv, TypeOK, HeldByGuards
  <2>2. GuardRan(t, depth[t])
    BY <1>3, <2>1 DEF GuardsRun
  <2> QED
    BY <1>3, <2>2 DEF GuardRan
<1>4. IInv /\ GuardsRun => BodyRunsOnce
  BY <1>3 DEF BodyRunsOnce
<1> QED
  BY <1>1, <1>2, <1>4, MutexGuardInvariant, PTL DEF Spec
=============================================================================
