------------------------------- MODULE NcArray -------------------------------
(***************************************************************************)
(* NcArray<T> (nc_array.h): a std::vector of sp<T>, used by the program of *)
(* SmartPtr beside its variables.  The vector has no move assignment of    *)
(* sp<T> to use: erase() shifts the elements by copy assignments, each of  *)
(* which releases, stores and retains, so that objects are destroyed while *)
(* the removal is half done.                                               *)
(***************************************************************************)
EXTENDS SmartPtr, SequencesExt

VARIABLE want       \* the elements after the array's last operation, if known

avars == <<vars, want>>

Unknown == <<"unknown">>    \* the program has written to elements through sp<T>&

Size       == Cardinality({i \in 1..MaxLen : sp[Slot(i)] # Gone})
elements == [i \in 1..Size |-> sp[Slot(i)]]

ArrayInit == Init /\ want = <<>>

\* sp<T>::operator= from one element to another
AssignElement(i, j) ==
    <<<<"release", sp[Slot(i)]>>, <<"store", Slot(i), Slot(j)>>, <<"retain", Slot(i)>>>>

\* ~sp() of an element
EndElement(i) == <<<<"release", sp[Slot(i)]>>, <<"set", Slot(i), Gone>>>>

(* Mutated forms of the operations, used to test the properties.           *)

\* push_back() of the bits of the sp<T>
AddObjectUncounted(p) ==
    /\ Size < MaxLen
    /\ want' = Append(elements, sp[p])
    /\ sp' = [sp EXCEPT ![Slot(Size + 1)] = sp[p]]
    /\ Do(<<>>) /\ UNCHANGED wp

\* erase() that destroys the element and moves the bits of the others down
RemoveObjectMovesBits(i) ==
    /\ i <= Size
    /\ want' = RemoveAt(elements, i)
    /\ Do(FlattenSeq([k \in 1..(Size - i) |->
                         <<<<"store", Slot(i + k - 1), Slot(i + k)>>>>]) \o EndElement(Size))
    /\ UNCHANGED <<sp, wp>>

\* addObject(p): push_back() of a copy.  When it reallocates, the elements are
\* moved by sp(sp&&) and no counter changes.
AddObject(p) ==
    /\ Size < MaxLen
    /\ want' = Append(elements, sp[p])
    /\ sp' = [sp EXCEPT ![Slot(Size + 1)] = sp[p]]
    /\ Do(<<<<"retain", Slot(Size + 1)>>>>) /\ UNCHANGED wp

\* removeObjectAtIndex(): erase() assigns to each element the one after it,
\* from i on, and destroys the last.
RemoveObjectAtIndex(i) ==
    /\ i <= Size
    /\ want' = RemoveAt(elements, i)
    /\ Do(FlattenSeq([k \in 1..(Size - i) |-> AssignElement(i + k - 1, i + k)])
          \o EndElement(Size))
    /\ UNCHANGED <<sp, wp>>

\* findWithCondition(): a copy of the first element the condition accepts, or NULL
FindWithCondition(x) ==
    /\ (\E i \in 1..Size : SpCopy(x, Slot(i))) \/ SpDeclare(x)
    /\ UNCHANGED want

\* indexOfObject(p): each element up to one that is p, or equals it, has its
\* equals() called; the copy of p that the lambda keeps is given back at the end.
IndexOfObject(p) ==
    /\ "nullElement" \in Uses \/ NULL \notin ToSet(elements)
    /\ \E last \in 0..Size :
           /\ \A i \in 1..last : elements[i] = sp[p] => i = last
           /\ Do(FlattenSeq([i \in 1..last |->
                     When(elements[i] # sp[p], <<"equals", elements[i]>>)]))
    /\ UNCHANGED <<sp, wp, want>>

\* obj->equals(): it has no effect here
Equals ==
    /\ Called("equals")
    /\ Return
    /\ UNCHANGED <<mem, counters, sp, wp>>

\* The array is destroyed, its elements from the first on; another begins.
ArrayEnd ==
    /\ want' = <<>>
    /\ Do(FlattenSeq([i \in 1..Size |-> EndElement(i)]))
    /\ UNCHANGED <<sp, wp>>

ArrayStatements ==
    \/ \E p \in SpReach : AddObject(p) \/ IndexOfObject(p)
    \/ \E i \in 1..MaxLen : RemoveObjectAtIndex(i)
    \/ \E x \in SpVars : FindWithCondition(x)
    \/ ArrayEnd

ArrayNext ==
    \/ ArrayStatements
    \/ Statements /\ want' = Unknown
    \/ (Calls \/ Equals) /\ UNCHANGED want

ArraySpec == ArrayInit /\ [][ArrayNext]_avars /\ WF_avars((Calls \/ Equals) /\ UNCHANGED want)

-----------------------------------------------------------------------------
\* An operation of the array leaves it as a list would be left, although the
\* elements are released and retained one after the other; and no element that
\* stays is destroyed while the operation is under way.
ListKept ==
    want # Unknown /\ ~fault =>
        /\ \A o \in ToSet(want) \ {NULL} : mem[o] = "live"
        /\ stack = <<>> => elements = want
=============================================================================
