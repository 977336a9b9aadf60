----------------------------- MODULE MutexGuard -----------------------------
(***************************************************************************)
(* synchronized(o) { ... } of nc_stdlib.h: a for loop over a __MutexGuard__ *)
(* that holds the recursive mutex and whose next() is true once.  Each     *)
(* thread runs such blocks in a loop, as TEST(Stdlib, MutexGuard) does: a  *)
(* block counts up a plain int, by a read and a write; it may hold another *)
(* such block instead, be left by break, or by return or an exception.     *)
(***************************************************************************)
EXTENDS Integers

CONSTANTS
    Threads,
    NoThread,       \* the owner of a mutex nobody holds
    Repeat,         \* REPEAT of the test: blocks run by each thread
    MaxDepth        \* bound: blocks inside one another

ASSUME ThreadsAssumption ==
    /\ NoThread \notin Threads
    /\ Repeat \in Nat /\ MaxDepth \in Nat \ {0}

VARIABLES
    owner, count,   \* the std::recursive_mutex
    pc, todo,       \* where a thread is, and the blocks it has still to begin
    depth,          \* the guards it has, the innermost last
    m_firstTime,    \* of each of its guards
    ran,            \* how often the body of each guard has begun
    counter, seen,  \* the int, and what a thread has read of it
    done            \* the number of times some thread has counted

mutex  == <<owner, count>>
guards == <<depth, m_firstTime, ran>>
data   == <<counter, seen, done>>
vars   == <<mutex, pc, todo, guards, data>>

Inside == {"next", "body", "write", "bodyEnd", "leave", "unwind"}
Pcs    == {"outside", "enter"} \cup Inside

Init ==
    /\ owner = NoThread /\ count = 0
    /\ pc = [t \in Threads |-> "outside"]
    /\ todo = [t \in Threads |-> Repeat]
    /\ depth = [t \in Threads |-> 0]
    /\ m_firstTime = [t \in Threads |-> [d \in 1..MaxDepth |-> FALSE]]
    /\ ran = [t \in Threads |-> [d \in 1..MaxDepth |-> 0]]
    /\ counter = 0 /\ done = 0
    /\ seen = [t \in Threads |-> 0]

Goto(t, from, to) == pc[t] = from /\ pc' = [pc EXCEPT ![t] = to]

(* Mutated forms, used to test the properties.                             *)

\* next() that stays true
NextForgets(t) ==
    /\ Goto(t, "next", "body")
    /\ ran' = [ran EXCEPT ![t][depth[t]] = @ + 1]
    /\ UNCHANGED <<mutex, todo, depth, m_firstTime, data>>

\* a guard that gives up the mutex altogether when it ends
RelinquishAll == count' = 0 /\ owner' = NoThread

\* a guard that does not unlock
RelinquishNothing == UNCHANGED mutex

\* a mutex that is not there
AcquireAlways(t) == owner' = t /\ count' = count + 1

\* lock() of a recursive mutex by t: it waits while another thread is the owner
Acquire(t) ==
    /\ owner \in {NoThread, t}
    /\ owner' = t
    /\ count' = count + 1

\* unlock()
Relinquish ==
    /\ count' = count - 1
    /\ owner' = IF count = 1 THEN NoThread ELSE owner

\* The thread comes to synchronized(o), in its loop or in the body of a block.
Begin(t) ==
    /\ todo[t] > 0
    /\ Goto(t, "outside", "enter")
    /\ todo' = [todo EXCEPT ![t] = @ - 1]
    /\ UNCHANGED <<mutex, guards, data>>

Nest(t) ==
    /\ depth[t] < MaxDepth
    /\ Goto(t, "body", "enter")
    /\ UNCHANGED <<mutex, todo, guards, data>>

\* __MutexGuard__ guard(oMutex): m_guard locks
Construct(t) ==
    /\ Goto(t, "enter", "next")
    /\ Acquire(t)
    /\ depth' = [depth EXCEPT ![t] = @ + 1]
    /\ m_firstTime' = [m_firstTime EXCEPT ![t][depth[t] + 1] = TRUE]
    /\ ran' = [ran EXCEPT ![t][depth[t] + 1] = 0]
    /\ UNCHANGED <<todo, data>>

\* guard.next()
NextTrue(t) ==
    /\ Goto(t, "next", "body")
    /\ m_firstTime[t][depth[t]]
    /\ m_firstTime' = [m_firstTime EXCEPT ![t][depth[t]] = FALSE]
    /\ ran' = [ran EXCEPT ![t][depth[t]] = @ + 1]
    /\ UNCHANGED <<mutex, todo, depth, data>>

NextFalse(t) ==
    /\ Goto(t, "next", "leave")
    /\ ~m_firstTime[t][depth[t]]
    /\ UNCHANGED <<mutex, todo, guards, data>>

\* counter++
Read(t) ==
    /\ Goto(t, "body", "write")
    /\ seen' = [seen EXCEPT ![t] = counter]
    /\ UNCHANGED <<mutex, todo, guards, counter, done>>

Write(t) ==
    /\ Goto(t, "write", "bodyEnd")
    /\ counter' = seen[t] + 1
    /\ done' = done + 1
    /\ UNCHANGED <<mutex, todo, guards, seen>>

EndBody(t) ==
    /\ Goto(t, "bodyEnd", "next")
    /\ UNCHANGED <<mutex, todo, guards, data>>

\* break: out of this block; return, throw: out of all of them
Break(t) ==
    /\ Goto(t, "body", "leave") \/ Goto(t, "bodyEnd", "leave")
    /\ UNCHANGED <<mutex, todo, guards, data>>

Unwind(t) ==
    /\ Goto(t, "body", "unwind") \/ Goto(t, "bodyEnd", "unwind")
    /\ UNCHANGED <<mutex, todo, guards, data>>

\* ~__MutexGuard__(): ~lock_guard unlocks
Destruct(t) ==
    /\ \/ depth[t] = 1 /\ (Goto(t, "leave", "outside") \/ Goto(t, "unwind", "outside"))
       \/ depth[t] > 1 /\ (Goto(t, "leave", "bodyEnd") \/ Goto(t, "unwind", "unwind"))
    /\ Relinquish
    /\ depth' = [depth EXCEPT ![t] = @ - 1]
    /\ UNCHANGED <<todo, m_firstTime, ran, data>>

Step(t) ==
    \/ Begin(t) \/ Nest(t) \/ Construct(t) \/ NextTrue(t) \/ NextFalse(t)
    \/ Read(t) \/ Write(t) \/ EndBody(t) \/ Break(t) \/ Unwind(t) \/ Destruct(t)

Next == \E t \in Threads : Step(t)

Spec == Init /\ [][Next]_vars

\* Every thread goes on when it can.  Which of the threads that wait for the
\* mutex gets it is left open.
FairSpec == Spec /\ \A t \in Threads : WF_vars(Step(t))

-----------------------------------------------------------------------------
TypeOK ==
    /\ owner \in Threads \cup {NoThread} /\ count \in Nat
    /\ pc \in [Threads -> Pcs] /\ todo \in [Threads -> Nat]
    /\ depth \in [Threads -> Nat]
    /\ counter \in Nat /\ seen \in [Threads -> Nat] /\ done \in Nat

\* The mutex is held by the thread that has guards, once for each of them.
HeldByGuards ==
    /\ \A t \in Threads : depth[t] > 0 <=> owner = t
    /\ \A t \in Threads : pc[t] \in Inside => depth[t] > 0
    /\ \A t \in Threads : pc[t] = "outside" => depth[t] = 0
    /\ count = IF owner = NoThread THEN 0 ELSE depth[owner]

\* What a thread has read is still so when it writes.
ReadIsCurrent == \A t \in Threads : pc[t] = "write" => seen[t] = counter

\* EXPECT_EQ(counter, REPEAT * 2) (nc_stdlib_unittest.cpp), and at every moment
\* before: no thread's counting is overwritten, however the blocks are nested
\* and left.
NothingLost == counter = done

\* The inductive invariant.
IInv == TypeOK /\ HeldByGuards /\ ReadIsCurrent /\ NothingLost

\* A block runs once, although it is written as a loop.
BodyRunsOnce ==
    \A t \in Threads : pc[t] \in Inside =>
        /\ ran[t][depth[t]] <= 1
        /\ pc[t] \in {"leave", "unwind"} => ran[t][depth[t]] = 1

\* Why: every guard but the one whose next() is to come has run its block.
GuardRan(t, d) ==
    IF m_firstTime[t][d] THEN pc[t] = "next" /\ d = depth[t] /\ ran[t][d] = 0
    ELSE ran[t][d] = 1

GuardsRun ==
    /\ m_firstTime \in [Threads -> [1..MaxDepth -> BOOLEAN]]
    /\ ran \in [Threads -> [1..MaxDepth -> Nat]]
    /\ \A t \in Threads :
           /\ depth[t] <= MaxDepth /\ (pc[t] = "enter" => depth[t] < MaxDepth)
           /\ \A d \in 1..depth[t] : GuardRan(t, d)

\* The guards are users of a lock: a thread waits with none and holds it from
\* its first guard to the end of its last one.
M == INSTANCE Mutex WITH
         waiting <- {t \in Threads : pc[t] = "enter" /\ depth[t] = 0},
         holders <- {t \in Threads : depth[t] > 0}

ImplementsMutex == M!FairSpec

\* The threads come to their end; none is left waiting for a guard.
AllFinish == <>(\A t \in Threads : pc[t] = "outside" /\ todo[t] = 0)
=============================================================================
