# A TLA+ development for nc-runtime

nc-runtime is a small C++ run-time library: reference-counted objects with
strong and weak pointers, strings and slices of strings that share memory,
an event to wait on, a lock, an allocator that prefers the stack, and a few
wrappers (log, file, data, array). This directory models the parts that keep
state or can go wrong in an order nobody tries, checks them with TLC on small
instances and proves the central ones with TLAPS for every value of the
constants.

`PROJECT.json` lists the components, the runs with their properties, one mutated
definition per property that makes the run fail, the source lines behind each
definition, the hazards and the theorems.

## The system

| component | source | state | operations | talks to |
|---|---|---|---|---|
| Spinlock | `include/nc_runtime/nc_types.h:241` | one `atomic<bool>` | `lock`, `unlock` | used by every control block |
| Control block | `nc_object.h:8`, `:267-317` | `m_rc`, `m_wc`, `m_lock`, in front of each object | `retain`, `release`, `retainWeak`, `releaseWeak`, `lockStrong`; `NcObject::_release`, `_releaseWeak` destroy and free outside the lock | all threads that hold a pointer to the object |
| `sp<T>`, `wp<T>` | `nc_object.h:85-232` | a raw pointer each | construct, copy, move, assign, reset, destroy, `wp::lock` | the control block; destructors of objects call them again |
| NcArray | `nc_array.h` | a vector of `sp<T>` | add, remove, find, index, destroy | `sp<T>`: removing an element shifts the ones behind it by assignments |
| StackOrHeapAllocator | `nc_stdlib.h:46`, `nc_stdlib.cpp:46` | used size, eight heap pointers, then a vector | `alloc`, destructor | `malloc`, `free`; used by NcLog and by joining strings |
| NcLog | `nc_log.cpp` | global callback and userdata | set, write | StackOrHeapAllocator, `vsnprintf`, callers in any thread |
| ManualResetEvent | `nc_stdlib.cpp:78` | flag, mutex, condition variable | `set`, `unset`, `wait`, `waitWithTimeout`, destructor | threads that wait for each other; the system clock |
| `synchronized` | `nc_stdlib.h:94`, `:110` | a recursive mutex, a flag per guard | guard scope, nested, left early | any object |
| StringSlice | `string_slice.h`, `string_slice.cpp` | `m_str`, `m_length`, a counted `m_ncstring` | search, compare, cut, replace, join | NcString; the bytes behind the slice |
| Iterators | `string_slice.h:40-104`, `string_slice.cpp:56`, `:290` | position, end, `m_foundSep`, a counted string | `next`, under `split`, `splitWithLimit`, `tokenize` | StringSlice |
| UTF-8 iteration | `string_slice.cpp:9`, `3rd-party/src/jansson/utf.cpp` | position, length left | `StringCharIter::next`, `find(wchar32)`, encode, decode, check | StringSlice, the decoder of jansson |
| NcString | `nc_string.h`, `nc_string.cpp` | `m_str`, `m_length`, bytes behind it or in a block | make, take over, join, format | StringSlice, the control block |
| NcFile, NcData | `nc_file.cpp`, `nc_data.cpp` | `FILE*`; bytes | open, read, write, close; make, take over, load | the C library |
| hashes, ticks, value types | `nc_stdlib.cpp`, `nc_types.h` | none | pure functions | |
| annotations, `Mutex`, `UniqueLock`, `LockGuard` | `mutex.h` | a `std::recursive_mutex`; a guard of one | forwarded | unused in the library |

What is hard to test in it: the last strong and the last weak reference dropped
by two threads at once; what `_release` does after the lock is given back; a
destructor that drops further pointers, or makes new ones, to the object it
belongs to; an array whose elements are destroyed while a removal is half done;
a wake-up between a test and falling asleep; a time-out that meets a late
`set`; an event deleted while a `set()` is not over; a block left by `break`,
`return` or an exception with guards around it; a text that is exactly as long as the buffer; a
callback exchanged while a message is on its way; windows on memory that goes on behind them;
separators that overlap, stand at an end or are empty; bytes that are no
character; statements that assign something to itself. `PROJECT.json` has each
at its line.

## The modules

| module | models | state and steps |
|---|---|---|
| `Mutex` | what a lock promises | `waiting`, `holders`; Request, Grant, Return |
| `Spinlock` | `class Spinlock` | one step per atomic access of `m_lock`; `pc` says where in `lock()` a thread is |
| `Counts` | the decisions of ControlBlock from its counters | operators shared by the modules that count |
| `SharedObject` | what `sp` and `wp` promise of one object, without counters | sets of handles; Share, Observe, Promote, Drop, Forget, Reclaim |
| `ControlBlock` | one object in many threads | a method under the lock is a step; destructor and `free()` are later steps of the thread that was told to do them (`todo`); `late` has the weak handles that begin in the destructor |
| `ControlBlockLocked` | the same, methods taken apart: lock, read the counters, write, unlock | extends `ControlBlock`, which it implements, and instantiates `Spinlock` for the lock |
| `SmartPtr` | many objects in one thread | a C++ statement pushes the calls it makes on `stack`; calls run one at a time and may push more; undefined behaviour sets `fault` |
| `NcArray` | the array, in the program of `SmartPtr` | extends `SmartPtr`; its elements are variables of that program (`Slot(i)`), its operations push the assignments and destructions `std::vector` makes |
| `ManualResetEvent` | the event | sections under `m_mutex` are steps, `notify_all()` and a sleeper's return to the mutex are steps of their own; the time of a waiter is what is left of it |
| `MutexGuard` | `synchronized` in the use `TEST(Stdlib, MutexGuard)` makes of it | constructor, `next()` and destructor of a guard are steps, so are the read and the write of the counter |
| `StackOrHeapAllocator` | the allocator | one step per `alloc` and one for the destructor; sums modulo `Modulus` |
| `TwoPassFormat` | `NcLog_write`, `NcLog_setCallback`, `NcString::format`, `formatVa` | extends `StackOrHeapAllocator`; one step per call of `vsnprintf` or of the allocator, and per access of the two globals |
| `StringSlices` | the functions of StringSlice | operators on a window `[mem, at, len]` of memory that goes on behind it |
| `StringQueries` | what the answers of those functions have to do with each other | a text and a needle |
| `StringIter` | the iterators and the loops over them | one step per `next()`; extends `StringQueries`, whose needle is the separator |
| `Utf8` | the functions of jansson's `utf.cpp` | operators on bytes |
| `StringCharIter` | `StringCharIter`, `find(wchar32)` | extends `StringSlices` and `Utf8`; one step per `next()` |
| `StringOwnership` | who keeps which bytes alive | statements on slices, `sp<NcString>` and iterators; `rc` of each string |
| `NcFile` | NcFile objects on a file that others change; loading an NcData from one, and its end | one step per call; a load is three: open, length with malloc, read with the end of the file object |
| `ControlBlockProof` (with `Spinlock` and `ControlBlockLocked`), `SmartPtrProof`, `MutexGuardProof`, `ManualResetEventProof`, `TwoPassFormatProof` (with `StackOrHeapAllocator`), `StringOwnershipProof`, `StringIterProof` (with `StringQueries`, `StringSlices`, `StringCharIter` and `Utf8`), `NcFileProof` | theorems and proofs | |
| `MC...` | instances for TLC, where a constant is a definition or a run uses symmetry; the other runs use the module itself | |

The operators headed "Mutated forms" in a module are no part of the model: each
is a plausible slip in the code, and replacing the definition it imitates makes
a property of a run fail.

Choices that shape the models:

* A handle (`sp` or `wp` variable) is used by one thread at a time, as C++
  demands of a program without data races. Different handles interleave freely.
* `m_lock` is the only atomic variable and all other data of an object is
  reached under it, so the accesses are taken as sequentially consistent.
* `std::condition_variable` is external: a sleep ends by notification, at its
  time, or for no reason; `wait_until` answers timeout when the system clock
  has reached the time.
* `std::recursive_mutex` is external: an owner and a count. `std::vector<sp<T>>`
  is external: `push_back` is a copy (a reallocation moves and counts nothing),
  `erase` assigns each element from the one behind it and destroys the last.
* `vsnprintf` is external: it answers the length of the text, prints as much as
  fits, and uses up the `va_list`. With `PrintfFails` it may answer -1.
* The callback and the userdata of NcLog are two variables without a lock. Each
  access is a step; that each of them is written and read whole is assumed.
* Statements that are undefined behaviour by their own hand (an uninitialised
  `wp`, a reset of an empty one, a search in an array with a NULL element) are
  under `Uses` of `SmartPtr`, so that a run can have them or leave them out.
* In `StringSlices` bytes are numbers, two of them (`1`, `2`) a letter in both
  cases, `0` is the terminator. In `Utf8` they are bytes.

## The runs

A run is `tlc -config <cfg> <module>`.

| run | instance | shows |
|---|---|---|
| `control_block` | five free handles and a weak field, so that two threads can race for each kind of last reference while a third holds one and a destructor makes another | the inductive invariant of the proof; freed once, by one and last, unless the destructor has made a `wp<T>(this)`; nothing left behind; `SharedObject` implemented |
| `control_block_locked` | four handles, one a weak field, each method five steps or more | no update is lost, no decision rests on a stale counter; nobody is still in `lock()`/`unlock()` of a freed block; the lock implements `Mutex`, progress included |
| `array` | two objects (a chain, a cycle, an object that is its own), one `sp`, one `wp`, an array of up to three elements, so that an object can be in it twice and a removal shift two | no undefined access; counters and lifetimes right after every statement; destructors on live memory; the array is the list its operations say; cascades end |
| `smart_ptr_full` | two objects and all statements of `Uses` that concern pointers | whatever leaks or crashes, a program still running holds no dangling pointer |
| `event` | three threads (setter, resetter, waiter; or two waiters), timeouts 1 and 2, clock jumps of 1, the event deleted by an owner who joins the others | no lost wake-up; no timed wait gives up early while the clock is not set; waits return |
| `format` | buffer 4, array 2, five requests of 0 to 5, `Modulus` 16: all three places are used and the buffer is met below, at and above its end; `STR_MAX_LEN` 2 and texts of 0 to 4 bytes, so that format and message are each below, at and above it; two callbacks, exchanged between any two accesses | pieces apart and inside, stack first, each block freed once; what is delivered is the whole message |
| `strings` | every slice of every string of up to 4 bytes, every needle that is a slice of up to 3, limits 2 and 9 | search by definition, agreement of the searches with and without case, `replaceInRange` undone by itself, `join` undoes `split`, clean pieces, maximal tokens, the loop ends |
| `utf8` | 19 bytes, one from each side of every bound of UTF-8: all texts of up to three of them, those of four that begin with a four-byte lead (or look so), and pairs of 11 characters whole and cut | the code points answered are the text; the iterator gets lost only at bytes that are no character and never leaves the slice; a search for a code point is a search for its bytes |
| `string_ownership` | two strings, two slices, ephemeral ones among them, two pointers, two iterators, so that each can be moved, one forgotten slice per string; no `malloc` fails (in `MCStringOwnershipLimits.cfg` it may) | every reference counted, alive exactly while held, nothing that holds a reference dangles |
| `guard` | three threads, two blocks each, up to two guards nested | the mutex held once for each guard, no count lost, a block runs once; the abstract lock used as a lock, progress included; all threads come to their end |
| `file` | two file objects, sizes and positions up to 5, an int of 3 bits, so that places behind what an int holds occur | each stream closed once, whether by `close()`, the destructor or a load that fails half way; `length()` comes back to its place; no NcData with bytes that were not read, though the file shrinks or grows during the load |
| `smart_ptr_back` | two objects | a counterexample, see "Disagreements" |

`MCSmartPtr.cfg` is a larger instance of the pointers alone: three objects (the
least for a chain in which the middle one dies by cascade) and two `sp`; it
checks the inductive invariant of `SmartPtrProof`, `NoFault`, `Settled`,
`DestructorOnLiveMemory` and `CascadeEnds`.

`CHECK_DEADLOCK FALSE` stands where a program may come to its end: all handles
gone, all blocks run, the allocator destroyed, the iterator through, or no
further object to allocate (`Objs` and `Strings` are used once each, the bound
on allocations). The runs `event` and `file` leave the check on, where it finds
nothing: time passes and others change the file whatever the threads do (`Tick`,
`Resize`). That no thread of them is stuck is for `WaitersReturn` and
`TimedWaitReturns` to show, of the event.

Bounds in guards: `MaxAllocs` (calls of `alloc`; the log makes
four at most, which is less), `MaxWeak` (weak references an
object may have when `wp` copy assignment leaks another one), `MaxLen` (elements
of the array), `Repeat` and `MaxDepth` (blocks of a thread, and guards inside
one another), `MaxOrphans` (slices that `join` of an array leaves behind),
`MaxSize` (the file and positions in it). An NcData is only loaded from a file
whose length fits an int, as `NC_ASSERT` demands. `Limits` of `strings` has 9
because no text there has more than 5 pieces: reaching 9 would mean a
loop that does not end.

Fairness:

* `ControlBlockLocked`: a thread inside a method is run on. Entering a method is
  not fair; nobody has to use the object. Weak fairness of `Acquire` is enough
  for "a free lock that is waited for is granted to somebody", which is all
  `Mutex` promises: a spinlock starves, and no more is claimed.
* `SmartPtr`, `NcArray`: the one thread goes on with the statement it is in.
* `ManualResetEvent`: threads run, time passes, a sleep whose time is up ends, a
  thread that asks for the mutex gets it (no section under it waits).
  `set` and `unset` are not fair, spurious wake-ups neither.
  `WaitersReturn` assumes an event that stays set, `TimedWaitReturns` that the
  disturbances end, because each starts the time-out anew (`nc_stdlib.cpp:108`).
* `MutexGuard`: every thread goes on when it can, weakly: which of the threads
  that wait gets the mutex is left open. `AllFinish` holds all the same, because
  the others run out of blocks.

## What is proved

TLAPS checks these for every value of the constants, from the named assumptions
in the modules: names that are not confused, finite sets of handles, objects and
variables, sizes that are numbers. A hypothesis beyond those is in the statement
of the theorem and named below. TLC was asked first whether each
inductive invariant holds, on the instance of its run (an `INVARIANT` line with its
name in the configuration repeats that).

**Spinlock** (in `ControlBlockProof`). `IInv` is mutual exclusion together with "the
flag is set exactly while somebody holds the lock": without the second part a
successful exchange could not be known to come after the last unlock.
`SpinlockInvariant`, `SpinlockMutualExclusion`, and `SpinlockImplementsMutex`,
where the successful exchange is Grant and the spinning stutters.

**Control block** (`ControlBlockProof`). Two layers.

1. `HeldInv`: the counters are the numbers of handles, and while a strong handle
   exists nobody has destroyed or freed or is about to. It gives `CountsMatch`,
   `AliveWhileHeld` and `NeverRevived`. The cardinality lemmas at the
   start of the module turn "m_rc = 1" into "this is the only handle".
2. `WorkerHoldsNothing`, `DestroyedByOne`, `FreedAfterPromised`, `FreedBySome`,
   `FreedByOne`: after the last strong handle one thread has or had the
   destructor to run, after the last handle some thread has or had the memory to
   free. It gives `FreedOnceAndLast`, `NothingLeaks` and the refinement of
   `SharedObject`.

A destructor may make any number of `wp<T>(this)`; that it makes no `sp<T>` of the
object it belongs to is assumed (`retainToSp(this)`, `nc_object.h:341`, would take
`m_rc` from 0 to 1 and, dropped, destroy the object a second time). What a
`wp<T>(this)` breaks is in the statements: that one thread frees, and only after
all handles, holds as long as no destructor has made one (`late = {}`), and
`SharedObject` is implemented with those handles left out. The condition cannot
be dropped: without it TLC finds the memory freed twice (`FreedOnce` of
`ControlBlockLimits.cfg`). That the object is destroyed once, is protected while
held, is never revived and is freed at all needs no condition on them. Of the constants only what `HandlesAssumption` says is used.

**The control block with its lock** (the last part of `ControlBlockProof`). The
methods taken apart into lock, read, write and unlock are single steps of
`ControlBlock` (`ControlBlockLockedImplements`), so all of the above holds of
them. `LockedIInv` has the invariants of the two modules it is built from,
and on top of them four facts, each needed by the next:

* `CallsAreLocked`: who has read the counters and not yet unlocked has the lock;
* `ReadIsCurrent`: what such a thread has read is what the counters are, for by
  the first fact and mutual exclusion nobody else can have written;
* `CallsApart`, `StillUsable`: the handles of a call are still those it was
  entered for when it comes to its write;
* `FreerIsAlone`: who was told to free the block is the only one with a call
  (every call needs a handle that the counters count). It gives
  `ControlBlockLockOutlives`: nobody is inside `lock()` or `unlock()` of a
  block that is freed.

The destructor makes no `wp<T>(this)` in this module.

**sp and wp** (`SmartPtrProof`). For any objects and variables, with any fields
pointing anywhere, in the middle of any cascade of destructors.
`SmartPtrNoFault`: no access to freed memory or through a destroyed pointer.
`SmartPtrSettled`: after each statement the counters are the numbers of pointers
and objects live exactly as long as the first of them says.
`SmartPtrDestructorOnLiveMemory`: no memory is given back under a destructor.
None of these is inductive, because in the middle of a statement the counters
are wrong and what is wrong about them depends on what the statement has still to
do. `IInv` says how:

* `Counted`: the counters count the pointers, but for the place the
  statement writes last (`Stale`: assigned and not retained yet, or released and
  not set yet) and the reference it is about to drop (`Due`);
* `Decided`: for each object, the counters decide whether it is live, whether a
  destruction or a `free()` is on the stack, at most one of each and in this
  order, and whether its field is there;
* `StackShape`: the stack is a cascade (releases, destructions, frees) on
  top of what one statement has still to do, and that statement's places are
  `Kept`: variables, or fields of objects that a variable refers to, which no
  cascade ends.

These three theorems assume `Plain`: none of the statements in `Uses` but
searches in arrays, which this module does not have. It cannot be weakened: with
each of the other uses TLC finds one of the three properties violated (`alias`
and null or uninitialised weak pointers `NoFault`, `weakCopyAssign` `Settled`,
`weakField` `DestructorOnLiveMemory`), most of them listed under
"Disagreements".

`SmartPtrNoDangling` assumes nothing about `Uses`: whatever a program does, as
long as it has not crashed it holds no pointer to memory given back. The
invariant above is false there, counters are too high for ever once a weak
reference is lost, objects are referred to again after their destruction, and
the places of a statement may be ended by the cascade it starts. What is left is
`Loose`, which holds until the program crashes:

* `AtLeast`: no counter is lower than what `Counted` says it should be;
* `Doomed`: what is to be destroyed has no strong count, what is to be freed or
  has been has no count at all;
* `LooseShape`: below a cascade there is at most one `store` and the last call of
  a statement, whose place is `Safe`. If the place could be the field of an
  object that dies in the cascade, the same pointer would be dropped twice and a
  counter fall too low. An owner that a variable refers to does not die. What is
  read after the cascade may be gone (`x = x->next`); that is a crash.

All theorems are about `Spec` of `SmartPtr`; the statements on
arrays that `NcArray` adds are not covered.

**synchronized** (`MutexGuardProof`). For any threads, blocks and nesting.
`NothingLost` (the counter is the number of countings) is not inductive: it needs
that what a thread has read is still current when it writes (`ReadIsCurrent`),
which needs that a thread in a body is the owner, which needs that the count of
the mutex is the number of its guards (`HeldByGuards`), or an unlock would not be
known to be the last. `MutexGuardInvariant`, `MutexGuardNothingLost`,
`MutexGuardImplementsMutex`, where nested guards stutter, and
`MutexGuardRunsOnce`, for which the invariant follows the flag of each guard on
a thread's stack of them.

**ManualResetEvent** (`ManualResetEventProof`). For any threads, timeouts and clock
jumps. `NoMissedSignal` is inductive by itself. `NotEarly` rests on
`SleepsEnough`: as long as the clock has not been set, what is left of a sleep is
at least what is left of the time asked for; it holds over a disturbance because
the sleep is begun anew, and over a tick because both fall together, for
which `Unhurried` (a thread in no timed wait does not age) and `Types` are
needed. The theorems are `EventNoMissedSignal` and `EventNotEarly`.

**The allocator and what is printed with it** (`TwoPassFormatProof`). For any
size of the buffer, number of slots, requests and lengths of texts.

* The allocator's part is inductive once it is known that the used size is the
  end of the last piece on the stack (`UsedIsEnd`): a new piece then begins
  behind all others. With what the slots and the vector list it gives
  `StackPiecesStayApart`, `StackUsedIfPossible` and `BlocksFreedOnce`, with
  whichever client makes the requests. They assume `NoWrap`: no used size and
  request add up past `size_t`. For the log and `format` that is justified, their
  requests being an `int` and one more; without it the property fails
  (`MCTwoPassFormatWrap.cfg`).
* `MessageDeliveredWhole` follows the two texts through the two passes, the
  format that gets a newline and the message made of it: which piece holds which of
  them at each step, what `require` is the length of, and that the `va_list` is
  fresh where it is used. It assumes `PrintfFails = FALSE` as well; with a
  failing `vsnprintf` it does not hold (`MCTwoPassFormatLimits.cfg`).

**Ownership of strings** (`StringOwnershipProof`). For any strings, slices,
pointers and iterators. Every statement is one of three kinds, and each has its
lemma: a variable lets go of one string and takes another (`RecountKeeps`; the
two may be the same one, as in `v = v`), a string is made with one holder
(`NewKeeps`), or a reference goes from one variable to another and is counted by
nobody (`MoveKeeps`, `IterMoveKeeps`). That the string taken up is held by
somebody at that moment is why the order of retain and release does no harm.
`ReadsWhatItHolds` is what `NeverDangles` needs beyond the counts: the bytes
that can be read are those of the string that is held, or, of an ephemeral slice
and what is cut from it, nobody's reference at all, which `NeverDangles` leaves out.
`StringOwnershipInvariant`, `StringHoldersCounted`, `StringsNeverDangle`.

**Strings** (`StringIterProof`). For any text, needle or separator and limit of
any length. The theorems assume that no byte of them is `'\0'`
(`Nul \notin Alphabet`): the static `_strncmp` of `string_slice.cpp` stops at one
that both sides have, so that with `'\0'` inside a slice a search finds what is
not there. The byte behind a slice may be anything.

* The loops of the code are recursive functions in the model. No induction is
  used on them: a set of numbers below a bound has a least and a greatest member
  (`LeastUpTo`), and each fact about a loop follows from the least, or the
  greatest, argument at which it would fail. In the same way a function given by
  a recursion is shown to exist, so that what the definition chooses has its
  equation (`StrstrIs`, `JoinIs`, ...).
* `StringFindsFirst`, `StringSearchesAgree`, `StringReplaceUndone` speak of a
  text and a needle alone.
* `StringJoinUndoesSplit` rests on `Split`: at every moment the pieces joined,
  with the separator if one was found last, are the bytes read so far. Without the
  part that says where the iterator is when it has found none (`m_strEnd`), the
  end of the loop says nothing. `StringPiecesRunOut` needs a count (`SplitCount`):
  each piece followed by a separator has used up a byte of its own.
* `StringTokensAreRuns` rests on `Tokens`: the pieces are maximal runs, in order,
  and every maximal run that ends where the iterator is or before is among them; the
  iterator itself stands at an end or on a separator, so it never cuts a run.

**Characters** (`StringIterProof`, the second half). For any slices of bytes,
well-formed or not, and any place of them in memory (`Texts`).

* `Encode`, `FullValue` and `Iterate` are brought to quotients and remainders by
  64: a value read from two, three or four bytes is written out as those bytes
  again (`IterateIs`), and the bounds on values (no surrogate, no overlong form,
  nothing above 10FFFF) are the bounds on bytes of Unicode's table
  (`ScalarsThree`, `Accepted`), row by row.
* `CharInv` says that, as long as the iterator has a place,
  `utf8_check_string()` comes through from there if and only if it does from the
  beginning of the slice; that the code points answered, written out again, are
  the bytes in between; and that a lost iterator has answered a `Junk` and
  belongs to a slice that does not check. `CharCodePointsAreText` and
  `CharLostOnlyIfMalformed` follow from it.
* `CharFindsAgree` compares two loops that stop at different places: one goes
  from character to character, the other from byte to byte. Where a text checks,
  no byte inside a character is a place to begin (`NoneInside`), and any byte that
  is not a continuation is one (`Synchronised`), so a match of the byte search
  is never one that begins inside a character (`CodeIsFound`). It assumes, as the
  other searches do, that no `'\0'` is in the text nor looked for (`Sought`).

**NcFile** (`NcFileProof`). For any file objects, any sizes, any change of the
file by others, any width of int. A load holds the file object it has opened
until it ends, and once the length is known, the buffer (`LoadsHoldTheirFile`).
`NcFileClosedOnce`, `NcFileLoadedWhole`, and `NcFileLengthKeepsPlace`, an action
property whose proof needs that the cast to int is the identity up to `IntMax`.

## What is only model-checked

* Liveness (the progress part of `ImplementsMutex`, `CascadeEnds`, `WaitersReturn`,
  `TimedWaitReturns`, `AllFinish`), which needs ENABLED.
* `ListKept` of `NcArray` and, with the array's statements, the invariants of
  `SmartPtr`.

## Disagreements met while modelling

With a run in `PROJECT.json`:

* `smart_ptr_back`, `nc_object.h:312`: `o1` owns `o2` (`sp` field), `o2` refers
  back to `o1` (`wp` field). When the last `sp` to `o1` ends, `release()` reports
  `freeMemory = false` because a `wp` exists; `~T()` of `o1` destroys `o2`, whose
  `~wp()` is the last to let go of `o1` and frees it, while `o1` is still
  destroying its fields (`OwnerOutlivesOwned`). `CHANGELOG.md:18` calls `wp` the
  equivalent of `std::weak_ptr`, and `README.md:379` has it make the delegate
  pattern more robust, which is this shape; `std::shared_ptr` holds a weak
  reference of its own until the destructor is over.

With a definition in a module and a configuration that shows the counterexample
(TLC stops at the first property that fails; without its line in the
configuration it goes on to the next):

| configuration (module) | property that fails | code |
|---|---|---|
| `ControlBlockLimits` (`ControlBlock`) | `DestructorOnLiveMemory` | `nc_object.h:303`: two threads, the same window as `smart_ptr_back` |
| | `FreedOnce` | `nc_object.h:304`: `wp<T>(this)` in a destructor, made and dropped, frees a first time |
| `MCSmartPtrLimits` (`MCSmartPtr`) | `Settled` | `nc_object.h:201`: assigning a `wp` to a `wp` does not release the old one |
| | `NoFault` | `nc_object.h:114`: `x = x`, `x = x->next` release before they read |
| `NcArrayNull` (`NcArray`) | `NoFault` | `nc_array.h:55`: `indexOfObject` calls `equals()` of a NULL element |
| `ManualResetEventLimits` (`ManualResetEvent`) | `UsedWhileThere` | `nc_stdlib.cpp:90`: `notify_all()` comes after the unlock, when the waiter may have returned and deleted the event |
| | `NeverEarly` | `nc_stdlib.cpp:109`: the time-out is measured by `system_clock` |
| | `SetMeansTrue` | `nc_stdlib.cpp:110`: on timeout the flag is not looked at again |
| `MCTwoPassFormatLimits` (`MCTwoPassFormat`) | `DeliveredWithItsUserdata` | `nc_log.cpp:57`: callback and userdata are written and read one after the other, without a lock |
| | `DeliveredWhole` | `nc_log.cpp:33`, `nc_string.cpp:47`: a -1 from `vsnprintf` becomes a size |
| `MCTwoPassFormatWrap` (`MCTwoPassFormat`) | `StackPiecesApart` | `nc_stdlib.cpp:48`: the sum wraps for requests near the largest `size_t` |
| `StringLimits` (`StringIter`) | `EqualIgnoringCaseAnywhere` | `string_slice.cpp:173`: `strcasecmp` runs past the slice |
| | `FindStaysInside` | `string_slice.h:315`: `find(char)` stops at a `'\0'`, not at the end of the slice |
| | `NoSeparatorOnePiece` | `string_slice.cpp:68`: an empty text has no piece, not one |
| `MCStringCharIterLost` (`MCStringCharIter`) | `NeverLost` | `string_slice.cpp:12`: at malformed bytes `m_str` becomes NULL while `m_length` stays |
| `MCStringOwnershipLimits` (`MCStringOwnership`) | `BufferFreedWithString` | `nc_string.h:13`: the buffer a string takes over (`makeByTakingBytes`, and `join`) is never freed; `README.md:98` says it is |
| | `SeparatorOutlives` | `string_slice.cpp:60`: an iterator holds no reference to the string of its separator |
| | `TextIsThere` | `nc_string.cpp:97`: a join whose `malloc` fails makes a string with a length and no bytes |
| | `NoOrphans` | `nc_string.cpp:126`: the slices that joining an array makes are never destroyed and keep their strings |
| `MCNcFileLimits` (`MCNcFile`) | `BytesFreedWithData` | `nc_data.cpp:24`: the bytes a loaded NcData takes are freed by nobody |
| | `LengthKeepsPlaceAnywhere` | `nc_file.cpp:75`: the offset is cut to int, `length()` does not come back from behind 2 GB |

One more is in the models without a configuration: `split` with an empty
separator that is the start of a longer string does not end when the byte behind
it is found (`PiecesRunOut` says `sep.len > 0`).

## Not modelled

* Hash functions and ticks: pure arithmetic, no promise but spread.
* The value types (`Some<T>`, `Size`, `Rgba8`): no behaviour over time.
* `mutex.h`: macros for clang's analysis, and the classes `Mutex`, `UniqueLock` and
  `LockGuard` (`mutex.h:73`), which carry the macros and forward to
  `std::recursive_mutex` and its guards. Nothing in the library uses them.
* The filter by `g_ncLogLevel` in the macros of NcLog and `LogLevel_toString()`:
  they decide only whether and under which name `NcLog_write()` is called.
* In `TEST(Stdlib, MutexGuard)` the second counter, which is counted without the
  mutex and expected to come out too small: a data race, which may also lose nothing.
* `NcData::allocWithBytes` and `makeWithBytesNoCopy`: the code does not say who
  owns the bytes of the second.
* Third-party code: googletest, which is by far the longest part of the tree
  and no part of the library, and of jansson all but the UTF-8 functions.
* Failing `ftell()` and `fseek()` in `NcFile::length()`, whose -1 would be taken for a
  length and a place; `length()` is one step because only its seek to the end looks
  at the file others change.
* That a buffer given to `makeEphemeral(buffer)` lives as long as the slice: such
  memory is `Static` in `StringOwnership`, the caller's affair. An ephemeral slice of
  a string (`toEphemeralSlice()`) is modelled; the program is taken to read
  through it only while the string exists (`Kept`), but may keep it longer.
* An `sp<T>` made of an object by its own destructor.
* Memory exhaustion outside the allocator, `format` and `join`; the C library's
  buffers in front of a file; alignment; the destruction of a lock in use other
  than a control block's.

## Plan

1. Done: every component with state of its own.
2. Done: proofs of the lock, the control block with and without its lock taken
   apart, the pointers, `synchronized`, the event, the allocator and what is
   printed, strings, their UTF-8 and their ownership, and files.
3. Left: the statements on arrays added to the invariant of the pointers (a
   removal that is half done has several places that are not counted yet), with
   `ListKept`.
