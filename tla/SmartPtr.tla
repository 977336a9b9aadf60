------------------------------ MODULE SmartPtr ------------------------------
(***************************************************************************)
(* sp<T> and wp<T> of nc_object.h as one thread uses them: pointer         *)
(* variables, objects that own other objects through an sp<T> field and    *)
(* refer to others through a wp<T> field, and the cascade of destructors   *)
(* that one release() can start.                                           *)
(*                                                                         *)
(* A C++ statement is an action that puts the calls it makes, in order, on *)
(* top of stack; the calls are then executed one at a time, each possibly  *)
(* putting further calls on top (a destructor destroys fields).  The next  *)
(* statement starts when the stack is empty.  An access to freed memory,   *)
(* to a destroyed pointer or through a null or uninitialised wp<T> sets    *)
(* fault, and nothing more is said of the program.                         *)
(***************************************************************************)
EXTENDS Counts, Sequences, FiniteSets

CONSTANTS
    Objs,       \* the objects the program may allocate
    SpVars,     \* its local variables of type sp<T>
    WpVars,     \* its local variables of type wp<T>
    Uses,       \* what the program does beyond the plain statements
    MaxWeak,    \* bound: no weak reference is lost on an object with as many
    MaxLen      \* bound: the length of its NcArray, 0 when it has none

Extras == {"alias",           \* assigns an sp<T> from itself or from a field
           "weakCopyAssign",  \* assigns a wp<T> to a wp<T>
           "weakField",       \* has wp<T> fields in its objects
           "nullWeak",        \* makes or resets a wp<T> of nothing
           "uninitWeak",      \* declares wp<T> w; with no initialiser
           "nullElement"}     \* searches an NcArray with null elements

\* No variable has the name of another, of a field, an element or an object.
ASSUME NamesAssumption ==
    LET Names == SpVars \cup WpVars IN
    /\ IsFiniteSet(Objs) /\ IsFiniteSet(SpVars) /\ IsFiniteSet(WpVars)
    /\ Objs \cap {"NULL", "Gone", "Junk"} = {} /\ SpVars \cap WpVars = {}
    /\ \A v \in Names : \A o \in Objs : v # <<"next", o>> /\ v # <<"back", o>>
    /\ \A v \in Names : \A i \in 1..MaxLen : v # <<"slot", i>>

ASSUME UsesAssumption == Uses \subseteq Extras /\ MaxWeak \in Nat /\ MaxLen \in Nat

VARIABLES
    mem,        \* mem[o]: "unused", "live", "destroyed" or "freed"
    rc, wc,     \* the counters of the control block of each object
    sp, wp,     \* m_ptr of every sp<T> and wp<T>
    stack,      \* the calls still to be made by the current statement
    fault       \* has the program run into undefined behaviour?

vars == <<mem, rc, wc, sp, wp, stack, fault>>
counters == <<rc, wc>>

NULL == "NULL"
Gone == "Gone"      \* not constructed yet, or destroyed
Junk == "Junk"      \* the bits an uninitialised wp<T> happens to hold

NextOf(o) == <<"next", o>>       \* the sp<T> field of o
BackOf(o) == <<"back", o>>       \* the wp<T> field of o
Fields(o) == {NextOf(o)} \cup IF "weakField" \in Uses THEN {BackOf(o)} ELSE {}

\* The elements of the array and the local variables
Slot(i)   == <<"slot", i>>
SpRoots   == SpVars \cup {Slot(i) : i \in 1..MaxLen}

SpPlaces == SpRoots \cup {NextOf(o) : o \in Objs}
WpPlaces == WpVars \cup {BackOf(o) : o \in Objs}

Init ==
    /\ mem = [o \in Objs |-> "unused"]
    /\ rc = [o \in Objs |-> 0]
    /\ wc = [o \in Objs |-> 0]
    /\ sp = [p \in SpPlaces |-> Gone]
    /\ wp = [p \in WpPlaces |-> Gone]
    /\ stack = <<>>
    /\ fault = FALSE

-----------------------------------------------------------------------------
(* The calls on the stack: <<method, argument, ...>>.                      *)

Allocated(o) == o \in Objs /\ mem[o] \in {"live", "destroyed"}

\* Is the outcome of the call defined by C++?
Defined(call) ==
    CASE call[1] = "release"     -> call[2] = NULL \/ Allocated(call[2])
      [] call[1] = "destroy"     -> mem[call[2]] = "live"
      [] call[1] = "store"       -> sp[call[2]] # Gone /\ sp[call[3]] # Gone
      [] call[1] = "retain"      -> sp[call[2]] = NULL \/ Allocated(sp[call[2]])
      [] call[1] = "storeWeak"   -> Allocated(call[3])
      [] call[1] = "lock"        -> call[3] = NULL \/ Allocated(call[3])
      [] call[1] = "set"         -> call[2] \in SpPlaces => sp[call[2]] # Gone
      [] call[1] = "equals"      -> call[2] # NULL
      [] OTHER                   -> Allocated(call[2])   \* "free", "releaseWeak"

Called(method) ==
    /\ ~fault /\ stack # <<>>
    /\ Head(stack)[1] = method
    /\ Defined(Head(stack))

Arg(i) == Head(stack)[i + 1]

Return      == stack' = Tail(stack) /\ UNCHANGED fault
Push(calls) == stack' = calls \o Tail(stack) /\ UNCHANGED fault

When(condition, call) == IF condition THEN <<call>> ELSE <<>>

(* Mutated forms of the calls, used to test the properties.                *)

\* the destructor of T destroys its fields without their destructors
DestroyShallow ==
    /\ Called("destroy")
    /\ LET o == Arg(1) IN
       /\ mem' = [mem EXCEPT ![o] = "destroyed"]
       /\ sp' = [sp EXCEPT ![NextOf(o)] = Gone]
       /\ wp' = [wp EXCEPT ![BackOf(o)] = Gone]
    /\ Return
    /\ UNCHANGED counters

\* _release() frees the memory of every object it destroys
ReleaseFreesAlways ==
    /\ Called("release")
    /\ LET o == Arg(1) IN
       IF o = NULL THEN Return /\ UNCHANGED rc
       ELSE /\ rc' = [rc EXCEPT ![o] = @ - 1]
            /\ Push(When(rc[o] = 1, <<"destroy", o, Fields(o)>>) \o When(rc[o] = 1, <<"free", o>>))
    /\ UNCHANGED <<mem, wc, sp, wp>>

\* _release() frees before it destroys
ReleaseFreesFirst ==
    /\ Called("release")
    /\ LET o == Arg(1) IN
       IF o = NULL THEN Return /\ UNCHANGED rc
       ELSE /\ rc' = [rc EXCEPT ![o] = @ - 1]
            /\ LET action == ReleaseAction(rc[o], wc[o]) IN
               Push(When(action.freeMemory, <<"free", o>>)
                    \o When(action.freeObject, <<"destroy", o, Fields(o)>>))
    /\ UNCHANGED <<mem, wc, sp, wp>>

\* release(o): nothing for NULL; else NcObject::_release() counts down under
\* the lock, then destroys and frees as it is told.
Release ==
    /\ Called("release")
    /\ LET o == Arg(1) IN
       \/ /\ o = NULL
          /\ Return
          /\ UNCHANGED rc
       \/ /\ o # NULL
          /\ rc' = [rc EXCEPT ![o] = @ - 1]
          /\ LET action == ReleaseAction(rc[o], wc[o]) IN
             Push(When(action.freeObject, <<"destroy", o, Fields(o)>>)
                  \o When(action.freeMemory, <<"free", o>>))
    /\ UNCHANGED <<mem, wc, sp, wp>>

\* _releaseWeak()
ReleaseWeak ==
    /\ Called("releaseWeak")
    /\ LET o == Arg(1) IN
       /\ wc' = [wc EXCEPT ![o] = @ - 1]
       /\ Push(When(ReleaseWeakFrees(rc[o], wc[o]), <<"free", o>>))
    /\ UNCHANGED <<mem, rc, sp, wp>>

\* ~T(): the fields are destroyed in the order the class gives them, each by
\* ~sp() or ~wp(); then the object is gone.
Destroy ==
    /\ Called("destroy")
    /\ LET o    == Arg(1)
           left == Arg(2) IN
       \/ /\ left = {}
          /\ mem' = [mem EXCEPT ![o] = "destroyed"]
          /\ Return
          /\ UNCHANGED <<sp, wp>>
       \/ /\ NextOf(o) \in left
          /\ sp' = [sp EXCEPT ![NextOf(o)] = Gone]
          /\ Push(<<<<"release", sp[NextOf(o)]>>, <<"destroy", o, left \ {NextOf(o)}>>>>)
          /\ UNCHANGED <<mem, wp>>
       \/ /\ BackOf(o) \in left
          /\ wp' = [wp EXCEPT ![BackOf(o)] = Gone]
          /\ Push(When(wp[BackOf(o)] # NULL, <<"releaseWeak", wp[BackOf(o)]>>)
                  \o <<<<"destroy", o, left \ {BackOf(o)}>>>>)
          /\ UNCHANGED <<mem, sp>>
    /\ UNCHANGED counters

\* free(ctrl)
FreeMemory ==
    /\ Called("free")
    /\ mem' = [mem EXCEPT ![Arg(1)] = "freed"]
    /\ Return
    /\ UNCHANGED <<counters, sp, wp>>

\* m_ptr = p.get()
Store ==
    /\ Called("store")
    /\ sp' = [sp EXCEPT ![Arg(1)] = sp[Arg(2)]]
    /\ Return
    /\ UNCHANGED <<mem, counters, wp>>

\* if (m_ptr) m_ptr->_retain();
Retain ==
    /\ Called("retain")
    /\ LET o == sp[Arg(1)] IN
       rc' = IF o = NULL THEN rc ELSE [rc EXCEPT ![o] = @ + 1]
    /\ Return
    /\ UNCHANGED <<mem, wc, sp, wp>>

\* m_ptr = r; m_ptr->_retainWeak();
StoreWeak ==
    /\ Called("storeWeak")
    /\ wp' = [wp EXCEPT ![Arg(1)] = Arg(2)]
    /\ wc' = [wc EXCEPT ![Arg(2)] = @ + 1]
    /\ Return
    /\ UNCHANGED <<mem, rc, sp>>

\* wp<T>::lock() and the construction of an sp<T> from what it returns
Lock ==
    /\ Called("lock")
    /\ LET o == Arg(2) IN
       IF o # NULL /\ LockStrongSucceeds(rc[o])
       THEN rc' = [rc EXCEPT ![o] = @ + 1] /\ sp' = [sp EXCEPT ![Arg(1)] = o]
       ELSE sp' = [sp EXCEPT ![Arg(1)] = NULL] /\ UNCHANGED rc
    /\ Return
    /\ UNCHANGED <<mem, wc, wp>>

\* The last step of reset() and of the end of a variable's scope.
Set ==
    /\ Called("set")
    /\ \/ Arg(1) \in SpPlaces /\ sp' = [sp EXCEPT ![Arg(1)] = Arg(2)] /\ UNCHANGED wp
       \/ Arg(1) \in WpPlaces /\ wp' = [wp EXCEPT ![Arg(1)] = Arg(2)] /\ UNCHANGED sp
    /\ Return
    /\ UNCHANGED <<mem, counters>>

\* The next call has no defined outcome.
Crash ==
    /\ ~fault /\ stack # <<>> /\ ~Defined(Head(stack))
    /\ fault' = TRUE
    /\ UNCHANGED <<mem, counters, sp, wp, stack>>

Calls ==
    \/ Release \/ ReleaseWeak \/ Destroy \/ FreeMemory
    \/ Store \/ Retain \/ StoreWeak \/ Lock \/ Set \/ Crash

-----------------------------------------------------------------------------
(* The statements.                                                         *)

\* The variables in scope, the elements, and the fields of the objects they hold.
Held    == {o \in Objs : mem[o] = "live" /\ \E x \in SpRoots : sp[x] = o}
SpReach == {x \in SpRoots : sp[x] # Gone} \cup {NextOf(o) : o \in Held}
WpReach == {w \in WpVars : wp[w] # Gone} \cup
           IF "weakField" \in Uses THEN {BackOf(o) : o \in Held} ELSE {}

Idle == stack = <<>> /\ ~fault

Do(calls) ==
    /\ Idle
    /\ stack' = calls
    /\ UNCHANGED <<mem, counters, fault>>

\* sp<T> x = T::alloc(): operator new, the constructors, takeRaw()
SpAlloc(x, o) ==
    /\ Idle /\ sp[x] = Gone /\ mem[o] = "unused"
    /\ mem' = [mem EXCEPT ![o] = "live"]
    /\ rc' = [rc EXCEPT ![o] = NewCounts.rc]
    /\ wc' = [wc EXCEPT ![o] = NewCounts.wc]
    /\ sp' = [sp EXCEPT ![x] = o, ![NextOf(o)] = NULL]
    /\ wp' = [wp EXCEPT ![BackOf(o)] = NULL]
    /\ UNCHANGED <<stack, fault>>

\* sp<T> x;
SpDeclare(x) ==
    /\ sp[x] = Gone
    /\ sp' = [sp EXCEPT ![x] = NULL]
    /\ Do(<<>>) /\ UNCHANGED wp

\* sp<T> x(p);   and   sp<T> x = retainToSp(p.get());
SpCopy(x, p) ==
    /\ sp[x] = Gone
    /\ sp' = [sp EXCEPT ![x] = sp[p]]
    /\ Do(<<<<"retain", x>>>>) /\ UNCHANGED wp

\* sp<T> x(std::move(p)); that leaves p as it is
SpMoveCopies(x, p) ==
    /\ sp[x] = Gone
    /\ sp' = [sp EXCEPT ![x] = sp[p]]
    /\ Do(<<>>) /\ UNCHANGED wp

\* sp<T> x(std::move(p));
SpMove(x, p) ==
    /\ sp[x] = Gone
    /\ sp' = [sp EXCEPT ![x] = sp[p], ![p] = NULL]
    /\ Do(<<>>) /\ UNCHANGED wp

\* d = p;  There is no move assignment, std::move(p) makes no difference.
SpAssign(d, p) ==
    /\ "alias" \in Uses \/ (p \in SpRoots /\ p # d)
    /\ Do(<<<<"release", sp[d]>>, <<"store", d, p>>, <<"retain", d>>>>)
    /\ UNCHANGED <<sp, wp>>

\* d.reset();
SpReset(d) ==
    /\ Do(<<<<"release", sp[d]>>, <<"set", d, NULL>>>>)
    /\ UNCHANGED <<sp, wp>>

\* the end of the scope of x: ~sp()
SpEnd(x) ==
    /\ sp[x] # Gone
    /\ Do(<<<<"release", sp[x]>>, <<"set", x, Gone>>>>)
    /\ UNCHANGED <<sp, wp>>

\* wp<T> w;  leaves m_ptr as the stack happens to be
WpDeclare(w) ==
    /\ "uninitWeak" \in Uses /\ wp[w] = Gone
    /\ \E v \in {NULL, Junk} : wp' = [wp EXCEPT ![w] = v]
    /\ Do(<<>>) /\ UNCHANGED sp

\* wp<T> w(r);  from the pointer r of an sp<T>, of a wp<T> or plain
WpFrom(w, r) ==
    /\ wp[w] = Gone
    /\ r = NULL => "nullWeak" \in Uses
    /\ Do(<<<<"storeWeak", w, r>>>>) /\ UNCHANGED <<sp, wp>>

\* wp<T> w(std::move(p));
WpMove(w, p) ==
    /\ wp[w] = Gone
    /\ wp' = [wp EXCEPT ![w] = wp[p], ![p] = NULL]
    /\ Do(<<>>) /\ UNCHANGED sp

\* d = r;  from an sp<T> or a plain pointer
WpAssign(d, r) ==
    /\ r = NULL => "nullWeak" \in Uses
    /\ Do(When(wp[d] # NULL, <<"releaseWeak", wp[d]>>) \o <<<<"storeWeak", d, r>>>>)
    /\ UNCHANGED <<sp, wp>>

\* d = r;  from a wp<T>: what d referred to is not released
WpCopyAssign(d, r) ==
    /\ "weakCopyAssign" \in Uses
    /\ wp[d] \in Objs => wc[wp[d]] < MaxWeak
    /\ r = NULL => "nullWeak" \in Uses
    /\ Do(<<<<"storeWeak", d, r>>>>) /\ UNCHANGED <<sp, wp>>

\* d.reset();
WpReset(d) ==
    /\ wp[d] = NULL => "nullWeak" \in Uses
    /\ Do(<<<<"releaseWeak", wp[d]>>, <<"set", d, NULL>>>>)
    /\ UNCHANGED <<sp, wp>>

\* the end of the scope of w: ~wp()
WpEnd(w) ==
    /\ wp[w] # Gone
    /\ Do(When(wp[w] # NULL, <<"releaseWeak", wp[w]>>) \o <<<<"set", w, Gone>>>>)
    /\ UNCHANGED <<sp, wp>>

\* sp<T> x = w.lock();
WpLock(x, p) ==
    /\ sp[x] = Gone
    /\ Do(<<<<"lock", x, wp[p]>>>>) /\ UNCHANGED <<sp, wp>>

Statements ==
    \/ \E x \in SpVars :
           \/ \E o \in Objs : SpAlloc(x, o)
           \/ SpDeclare(x) \/ SpEnd(x)
           \/ \E p \in SpReach : SpCopy(x, p) \/ SpMove(x, p)
           \/ \E p \in WpReach : WpLock(x, p)
    \/ \E d \in SpReach : SpReset(d) \/ \E p \in SpReach : SpAssign(d, p)
    \/ \E w \in WpVars :
           \/ WpDeclare(w) \/ WpEnd(w)
           \/ \E p \in SpReach : WpFrom(w, sp[p])
           \/ \E p \in WpReach : WpFrom(w, wp[p]) \/ WpMove(w, p)
    \/ \E d \in WpReach :
           \/ WpReset(d)
           \/ \E p \in SpReach : WpAssign(d, sp[p])
           \/ \E p \in WpReach : WpCopyAssign(d, wp[p])

Next == Statements \/ Calls

Spec == Init /\ [][Next]_vars

\* The thread goes on with the statement it is in; it need not start another.
FairSpec == Spec /\ WF_vars(Calls)

-----------------------------------------------------------------------------
SpTo(o) == {p \in SpPlaces : sp[p] = o}
WpTo(o) == {p \in WpPlaces : wp[p] = o}

\* No statement touches freed memory, a destroyed pointer, or an object through
\* a null pointer, whatever the destructors it starts do.
NoFault == ~fault

\* Between statements the counters are the numbers of pointers, and an object
\* exists exactly as long as an sp<T> refers to it, its memory exactly as long
\* as an sp<T> or a wp<T> does: nothing dies early and nothing is left behind.
Settled ==
    stack = <<>> =>
        \A o \in Objs : mem[o] # "unused" =>
            /\ rc[o] = Cardinality(SpTo(o)) /\ wc[o] = Cardinality(WpTo(o))
            /\ mem[o] = "live" <=> SpTo(o) # {}
            /\ mem[o] = "freed" <=> SpTo(o) \cup WpTo(o) = {}

\* Even when weak references are lost and pointers assigned to themselves: a
\* program that has not crashed holds no pointer to memory given back.
NoDangling ==
    Idle => \A o \in Objs : SpTo(o) \cup WpTo(o) # {} => mem[o] # "freed"

\* The memory of an object is not given back while its destructor runs.
DestructorOnLiveMemory ==
    \A i \in DOMAIN stack : stack[i][1] = "destroy" => mem[stack[i][2]] = "live"

\* While an object destroys the objects that it owns, its memory is not given
\* back, whatever weak pointers these hold to it.  This does not hold.
OwnerOutlivesOwned ==
    \A i, j \in DOMAIN stack :
        i < j /\ stack[i][1] = "destroy" /\ stack[j][1] = "destroy"
        => mem[stack[j][2]] = "live"

-----------------------------------------------------------------------------
(* The inductive invariant, for a program that makes the plain statements  *)
(* only.  The place that a statement writes last is not counted meanwhile, *)
(* the reference that it is about to drop is.                              *)

Plain == Uses \subseteq {"nullElement"}

Bottom == stack[Len(stack)]
Stale  == IF stack # <<>> /\ Bottom[1] \in {"retain", "set", "storeWeak"} THEN {Bottom[2]} ELSE {}
Due(method, o) ==
    IF stack # <<>> /\ Head(stack)[1] = method /\ Head(stack)[2] = o THEN 1 ELSE 0

Counted ==
    \A o \in Objs :
        /\ rc[o] = Cardinality(SpTo(o) \ Stale) + Due("release", o)
        /\ wc[o] = Cardinality(WpTo(o) \ Stale) + Due("releaseWeak", o)

\* Is there such a call, is o to be destroyed and freed only once, in this order?
Pending(method, o) == \E i \in 1 .. Len(stack) : stack[i][1] = method /\ stack[i][2] = o
FieldLeft(o) == \E i \in 1 .. Len(stack) : stack[i] = <<"destroy", o, {NextOf(o)}>>
InOrder(o) ==
    \A i, j \in 1 .. Len(stack) :
        /\ i < j /\ stack[i][2] = o /\ stack[j][2] = o
        /\ stack[i][1] \in {"destroy", "free"} /\ stack[j][1] \in {"destroy", "free"}
        => stack[i][1] = "destroy" /\ stack[j][1] = "free"

\* What becomes of an object is decided by its counters, once.
Decided(o) ==
    /\ InOrder(o)
    /\ Pending("destroy", o) => rc[o] = 0
    /\ Pending("free", o) => rc[o] = 0 /\ wc[o] = 0 /\ mem[o] # "unused"
    /\ mem[o] = "live" <=> rc[o] > 0 \/ Pending("destroy", o)
    /\ mem[o] = "unused" => rc[o] = 0 /\ wc[o] = 0 /\ sp[NextOf(o)] = Gone
    /\ mem[o] # "unused" =>
           (mem[o] = "freed" <=> rc[o] = 0 /\ wc[o] = 0 /\ ~Pending("free", o))
    /\ rc[o] > 0 \/ FieldLeft(o) => sp[NextOf(o)] # Gone
    /\ wp[BackOf(o)] \in {NULL, Gone}

\* A place that the program can name, and that no cascade ends.
Kept(d) == /\ sp[d] # Gone
           /\ d \in SpRoots \/ \E h \in Objs, x \in SpRoots : d = NextOf(h) /\ sp[x] = h

\* The calls a cascade is made of.  A reference is dropped before the next call,
\* a weak one by the statement itself.
Cascade(i) ==
    \/ i = 1 /\ \E o \in Objs \cup {NULL} : stack[i] = <<"release", o>>
    \/ i = 1 /\ Len(stack) = 2 /\ \E o \in Objs : stack[i] = <<"releaseWeak", o>>
    \/ \E o \in Objs :
           stack[i] \in {<<"destroy", o, {NextOf(o)}>>, <<"destroy", o, {}>>, <<"free", o>>}

Above(n) == Len(stack) >= n /\ \A i \in 1 .. Len(stack) - n : Cascade(i)

\* What a statement has still to do, below the cascade it has started.
SetLeft(d) ==
    /\ Above(1) /\ Kept(d)
    /\ Bottom = <<"set", d, NULL>> \/ (d \in SpRoots /\ Bottom = <<"set", d, Gone>>)
StoreLeft(d, p) ==
    /\ Above(2) /\ Kept(d) /\ p # d /\ sp[p] # Gone
    /\ stack[Len(stack) - 1] = <<"store", d, p>> /\ Bottom = <<"retain", d>>
RetainLeft(d) ==
    /\ Len(stack) = 1 /\ Bottom = <<"retain", d>>
    /\ sp[d] # Gone /\ (sp[d] # NULL => rc[sp[d]] > 0)
SetWeakLeft(w) ==
    /\ Above(1) /\ Bottom \in {<<"set", w, NULL>>, <<"set", w, Gone>>}
StoreWeakLeft(w, r) ==
    /\ Above(1) /\ Bottom = <<"storeWeak", w, r>>
    /\ \/ Len(stack) = 1 /\ Allocated(r)
       \/ \E p \in SpPlaces : Kept(p) /\ sp[p] = r
LockLeft(x, o) ==
    /\ Len(stack) = 1 /\ Bottom = <<"lock", x, o>>
    /\ sp[x] = Gone /\ (o # NULL => Allocated(o))

StackShape ==
    \/ stack = <<>>
    \/ \E d \in SpPlaces : \/ SetLeft(d) \/ RetainLeft(d)
                          \/ \E p \in SpRoots : StoreLeft(d, p)
    \/ \E w \in WpVars : SetWeakLeft(w) \/ \E r \in Objs : StoreWeakLeft(w, r)
    \/ \E x \in SpVars, o \in Objs \cup {NULL} : LockLeft(x, o)

Types ==
    /\ mem \in [Objs -> {"unused", "live", "destroyed", "freed"}]
    /\ rc \in [Objs -> Nat] /\ wc \in [Objs -> Nat]
    /\ sp \in [SpPlaces -> Objs \cup {NULL, Gone}]
    /\ wp \in [WpPlaces -> Objs \cup {NULL, Gone}]
    /\ stack \in Seq({stack[i] : i \in 1 .. Len(stack)})

IInv == Types /\ Counted /\ (\A o \in Objs : Decided(o)) /\ StackShape /\ NoFault

\* However the objects own each other, in chains or in cycles, the cascade of
\* destructors that a statement starts comes to its end.
CascadeEnds == stack # <<>> ~> stack = <<>>
=============================================================================
