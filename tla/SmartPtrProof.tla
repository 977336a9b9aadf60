---------------------------- MODULE SmartPtrProof ----------------------------
(***************************************************************************)
(* For any objects and variables: a program of plain statements on sp<T>   *)
(* and wp<T> meets no undefined access, its counters are right after every *)
(* statement, and no memory is given back under a destructor.  Any program *)
(* at all holds no pointer to freed memory as long as it has not crashed.  *)
(***************************************************************************)
EXTENDS SmartPtr, FiniteSetTheorems, SequenceTheorems, TLAPS

(* Names and numbers of places.                                            *)

\* Fields are no variables, and each object has its own.
LEMMA Names ==
    ASSUME NEW o \in Objs
    PROVE  /\ NextOf(o) \notin SpRoots /\ NextOf(o) \notin WpPlaces /\ NextOf(o) \in SpPlaces
           /\ BackOf(o) \notin WpVars /\ BackOf(o) \notin SpPlaces /\ BackOf(o) \in WpPlaces
           /\ \A h \in Objs : (NextOf(o) = NextOf(h) <=> o = h) /\ (BackOf(o) = BackOf(h) <=> o = h)
           /\ o \notin {NULL, Gone, Junk}
<1>1. o \notin {NULL, Gone, Junk}
  BY NamesAssumption DEF NULL, Gone, Junk
<1>2. \A h \in Objs : /\ NextOf(o) = NextOf(h) <=> o = h
                      /\ BackOf(o) = BackOf(h) <=> o = h
                      /\ NextOf(o) # BackOf(h)
                      /\ BackOf(o) # NextOf(h)
  BY DEF NextOf, BackOf
<1>3. \A v \in SpVars \cup WpVars : v # NextOf(o) /\ v # BackOf(o)
  BY NamesAssumption DEF NextOf, BackOf
<1>4. \A i \in 1 .. MaxLen : Slot(i) # NextOf(o) /\ Slot(i) # BackOf(o)
  BY DEF NextOf, BackOf, Slot
<1>5. NextOf(o) \notin SpRoots /\ BackOf(o) \notin SpRoots
  BY <1>3, <1>4 DEF SpRoots
<1>6. NextOf(o) \notin WpPlaces /\ BackOf(o) \notin SpPlaces
  BY <1>2, <1>3, <1>5 DEF WpPlaces, SpPlaces
<1> QED
  BY <1>1, <1>2, <1>3, <1>5, <1>6 DEF SpPlaces, WpPlaces

\* No place is an sp<T> and a wp<T>.
LEMMA PlacesApart == SpPlaces \cap WpPlaces = {} /\ NULL # Gone
<1>1. \A w \in WpVars, i \in 1 .. MaxLen : w # Slot(i)
  BY NamesAssumption DEF Slot
<1>2. SpRoots \cap WpVars = {}
  BY <1>1, NamesAssumption DEF SpRoots
<1>3. \A o \in Objs : BackOf(o) \notin SpPlaces /\ NextOf(o) \notin WpPlaces
  BY Names
<1> QED
  BY <1>2, <1>3 DEF SpPlaces, WpPlaces, NULL, Gone

\* There are finitely many places.
LEMMA PlacesFinite == IsFiniteSet(SpPlaces) /\ IsFiniteSet(WpPlaces)
<1>1. IsFiniteSet({Slot(i) : i \in 1 .. MaxLen})
  <2> DEFINE f == [i \in 1 .. MaxLen |-> Slot(i)]
             T == {Slot(i) : i \in 1 .. MaxLen}
  <2>1. f \in Surjection(1 .. MaxLen, T)
    BY DEF Surjection
  <2>2. IsFiniteSet(1 .. MaxLen)
    BY UsesAssumption, FS_Interval
  <2> QED
    BY <2>1, <2>2, FS_Surjection
<1>2. IsFiniteSet({NextOf(o) : o \in Objs})
  <2> DEFINE f == [o \in Objs |-> NextOf(o)]
             T == {NextOf(o) : o \in Objs}
  <2>1. f \in Surjection(Objs, T)
    BY DEF Surjection
  <2> QED
    BY <2>1, NamesAssumption, FS_Surjection
<1>3. IsFiniteSet({BackOf(o) : o \in Objs})
  <2> DEFINE f == [o \in Objs |-> BackOf(o)]
             T == {BackOf(o) : o \in Objs}
  <2>1. f \in Surjection(Objs, T)
    BY DEF Surjection
  <2> QED
    BY <2>1, NamesAssumption, FS_Surjection
<1>4. IsFiniteSet(SpRoots)
  BY <1>1, NamesAssumption, FS_Union DEF SpRoots
<1> QED
  BY <1>2, <1>3, <1>4, NamesAssumption, FS_Union DEF SpPlaces, WpPlaces

\* Sets of places, counted: one more, one less, and one for another.
LEMMA CountPlaces ==
    ASSUME NEW H, H \subseteq SpPlaces \/ H \subseteq WpPlaces, NEW x
    PROVE  /\ Cardinality(H) \in Nat /\ (Cardinality(H) = 0 <=> H = {})
           /\ x \notin H => Cardinality(H \cup {x}) = Cardinality(H) + 1
           /\ x \in H => Cardinality(H \ {x}) = Cardinality(H) - 1
<1>1. IsFiniteSet(H)
  BY PlacesFinite, FS_Subset
<1> QED
  BY <1>1, FS_CardinalityType, FS_EmptySet, FS_AddElement, FS_RemoveElement

LEMMA CountExchange ==
    ASSUME NEW H, H \subseteq SpPlaces \/ H \subseteq WpPlaces, NEW x \in H, NEW y, y \notin H
    PROVE  Cardinality((H \ {x}) \cup {y}) = Cardinality(H)
<1>1. Cardinality(H \ {x}) = Cardinality(H) - 1 /\ Cardinality(H) \in Nat
  BY CountPlaces
<1>2. Cardinality((H \ {x}) \cup {y}) = Cardinality(H \ {x}) + 1
  BY CountPlaces
<1> QED
  BY <1>1, <1>2

-----------------------------------------------------------------------------
(* The stack.                                                              *)

IsSeq(s) == s \in Seq({s[i] : i \in 1 .. Len(s)})

\* A call replaces the head of the stack by the calls P it makes.
LEMMA Replaced ==
    ASSUME NEW s, IsSeq(s), s # <<>>, NEW P, IsSeq(P), NEW t, t = P \o Tail(s)
    PROVE  /\ IsSeq(t) /\ Len(t) = Len(s) - 1 + Len(P) /\ Len(P) \in Nat /\ Len(s) \in Nat \ {0}
           /\ \A i \in 1 .. Len(P) : t[i] = P[i]
           /\ \A i \in 2 .. Len(s) : t[i - 1 + Len(P)] = s[i]
           /\ Head(s) = s[1] /\ (t # <<>> => Head(t) = t[1])
<1> DEFINE S == {s[i] : i \in 1 .. Len(s)} \cup {P[i] : i \in 1 .. Len(P)}
<1>1. s \in Seq(S) /\ P \in Seq(S)
  BY DEF IsSeq
<1> HIDE DEF S
<1>2. Len(s) \in Nat \ {0} /\ Len(P) \in Nat /\ Head(s) = s[1]
  BY <1>1
<1>3. Tail(s) \in Seq(S) /\ Len(Tail(s)) = Len(s) - 1 /\ \A i \in 1 .. Len(s) - 1 : Tail(s)[i] = s[i + 1]
  BY <1>1
<1>4. t \in Seq(S) /\ Len(t) = Len(P) + (Len(s) - 1)
  BY <1>1, <1>3
<1>5. \A i \in 1 .. Len(t) : t[i] = IF i <= Len(P) THEN P[i] ELSE Tail(s)[i - Len(P)]
  BY <1>1, <1>3, <1>4
<1>6. \A i \in 2 .. Len(s) : t[i - 1 + Len(P)] = s[i]
  BY <1>2, <1>3, <1>4, <1>5
<1>7. IsSeq(t)
  <2> DEFINE R == {t[i] : i \in 1 .. Len(t)}
  <2>1. t \in [1 .. Len(t) -> S] /\ Len(t) \in Nat
    BY <1>4, LenProperties
  <2>2. t \in [1 .. Len(t) -> R]
    BY <2>1
  <2> HIDE DEF R
  <2>3. \A n \in Nat : \A f \in [1 .. n -> R] : f \in Seq(R)
    OBVIOUS
  <2>4. t \in Seq(R)
    BY <2>1, <2>2, <2>3
  <2> QED
    BY <2>4 DEF IsSeq, R
<1> QED
  BY <1>2, <1>4, <1>5, <1>6, <1>7

\* Short lists of calls.
LEMMA Lists ==
    /\ IsSeq(<<>>) /\ Len(<<>>) = 0
    /\ \A a : LET s == <<a>> IN
              IsSeq(s) /\ s # <<>> /\ Len(s) = 1 /\ s[1] = a /\ Head(s) = a
    /\ \A a, b : LET s == <<a, b>> IN
                 IsSeq(s) /\ s # <<>> /\ Len(s) = 2 /\ s[1] = a /\ s[2] = b /\ Head(s) = a
    /\ \A a, b, c : LET s == <<a, b, c>> IN
                    IsSeq(s) /\ s # <<>> /\ Len(s) = 3 /\ s[1] = a /\ s[2] = b /\ s[3] = c /\ Head(s) = a
<1>1. IsSeq(<<>>) /\ Len(<<>>) = 0
  BY DEF IsSeq
<1>2. \A a : <<a>> \in Seq({<<a>>[i] : i \in 1 .. 1}) /\ Head(<<a>>) = a
  OBVIOUS
<1>3. \A a, b : <<a, b>> \in Seq({<<a, b>>[i] : i \in 1 .. 2}) /\ Head(<<a, b>>) = a
  OBVIOUS
<1>4. \A a, b, c : <<a, b, c>> \in Seq({<<a, b, c>>[i] : i \in 1 .. 3}) /\ Head(<<a, b, c>>) = a
  OBVIOUS
<1> QED
  BY <1>1, <1>2, <1>3, <1>4 DEF IsSeq

\* The calls below the head, and those among the calls P.
Rest(method, o) == \E i \in 2 .. Len(stack) : stack[i][1] = method /\ stack[i][2] = o
RestField(o)    == \E i \in 2 .. Len(stack) : stack[i] = <<"destroy", o, {NextOf(o)}>>
In(P, method, o) == \E i \in 1 .. Len(P) : P[i][1] = method /\ P[i][2] = o
InField(P, o)    == \E i \in 1 .. Len(P) : P[i] = <<"destroy", o, {NextOf(o)}>>

LEMMA StackAfter ==
    ASSUME IsSeq(stack), stack # <<>>, NEW P, IsSeq(P), stack' = P \o Tail(stack)
    PROVE  /\ IsSeq(stack') /\ Len(stack') = Len(stack) - 1 + Len(P)
           /\ Len(P) \in Nat /\ Len(stack) \in Nat \ {0}
           /\ \A i \in 1 .. Len(P) : stack'[i] = P[i]
           /\ \A i \in 2 .. Len(stack) : stack'[i - 1 + Len(P)] = stack[i]
           /\ Head(stack) = stack[1] /\ (stack' # <<>> => Head(stack') = stack'[1])
<1>1. Len(stack') = Len(stack) - 1 + Len(P) /\ Len(P) \in Nat /\ Len(stack) \in Nat \ {0}
  BY Replaced
<1>2. \A i \in 1 .. Len(P) : stack'[i] = P[i]
  BY Replaced
<1>3. \A i \in 2 .. Len(stack) : stack'[i - 1 + Len(P)] = stack[i]
  BY Replaced
<1>4. Head(stack) = stack[1] /\ (stack' # <<>> => Head(stack') = stack'[1])
  BY Replaced
<1>5. IsSeq(stack')
  BY Replaced
<1> QED
  BY <1>1, <1>2, <1>3, <1>4, <1>5

LEMMA HeadAndRest ==
    ASSUME IsSeq(stack), stack # <<>>, NEW o
    PROVE  /\ Len(stack) \in Nat \ {0} /\ Head(stack) = stack[1]
           /\ \A m : Pending(m, o) <=> (Head(stack)[1] = m /\ Head(stack)[2] = o) \/ Rest(m, o)
           /\ FieldLeft(o) <=> Head(stack) = <<"destroy", o, {NextOf(o)}>> \/ RestField(o)
           /\ InOrder(o) /\ Head(stack)[2] = o =>
                  /\ Head(stack)[1] \in {"destroy", "free"} => ~Rest("destroy", o) /\ ~RestField(o)
                  /\ Head(stack)[1] = "free" => ~Rest("free", o)
<1> DEFINE n == Len(stack)
<1>1. n \in Nat \ {0} /\ Head(stack) = stack[1]
  BY LenProperties, EmptySeq DEF IsSeq
<1> HIDE DEF n
<1>2. \A m : Pending(m, o) <=> (Head(stack)[1] = m /\ Head(stack)[2] = o) \/ Rest(m, o)
  BY <1>1 DEF Pending, Rest, n
<1>3. FieldLeft(o) <=> Head(stack) = <<"destroy", o, {NextOf(o)}>> \/ RestField(o)
  BY <1>1 DEF FieldLeft, RestField, n
<1>4. RestField(o) => Rest("destroy", o)
  BY DEF RestField, Rest
<1>5. ASSUME InOrder(o), Head(stack)[2] = o, Head(stack)[1] \in {"destroy", "free"},
             NEW j \in 2 .. Len(stack), stack[j][2] = o
      PROVE  stack[j][1] # "destroy" /\ (Head(stack)[1] = "free" => stack[j][1] # "free")
  <2>1. 1 \in 1 .. Len(stack) /\ j \in 1 .. Len(stack) /\ 1 < j
    BY <1>1 DEF n
  <2>2. stack[j][1] \in {"destroy", "free"} => stack[1][1] = "destroy" /\ stack[j][1] = "free"
    BY <1>1, <1>5, <2>1 DEF InOrder
  <2> QED
    BY <1>1, <2>2
<1> QED
  BY <1>1, <1>2, <1>3, <1>4, <1>5 DEF Rest, n

LEMMA RestStays ==
    ASSUME IsSeq(stack), stack # <<>>, NEW P, IsSeq(P), stack' = P \o Tail(stack), NEW o
    PROVE  /\ \A m : Pending(m, o)' <=> In(P, m, o) \/ Rest(m, o)
           /\ FieldLeft(o)' <=> InField(P, o) \/ RestField(o)
<1> DEFINE n == Len(P)
<1>1. /\ Len(stack') = Len(stack) - 1 + n /\ n \in Nat /\ Len(stack) \in Nat \ {0}
      /\ \A i \in 1 .. n : stack'[i] = P[i]
      /\ \A i \in 2 .. Len(stack) : stack'[i - 1 + n] = stack[i]
  BY Replaced
<1> HIDE DEF n
<1>2. \A i \in 1 .. Len(stack') : i \in 1 .. n \/ i - n + 1 \in 2 .. Len(stack)
  BY <1>1
<1>3. \A i \in 1 .. n : i \in 1 .. Len(stack')
  BY <1>1
<1>4. \A i \in 2 .. Len(stack) : i - 1 + n \in 1 .. Len(stack')
  BY <1>1
<1>5. \A i \in 1 .. Len(stack') : (i \in 1 .. n /\ stack'[i] = P[i])
                                  \/ \E j \in 2 .. Len(stack) : stack'[i] = stack[j]
  <2> TAKE i \in 1 .. Len(stack')
  <2>1. CASE i \in 1 .. n
    BY <1>1, <2>1
  <2>2. CASE i - n + 1 \in 2 .. Len(stack)
    <3>1. stack'[(i - n + 1) - 1 + n] = stack[i - n + 1]
      BY <1>1, <2>2
    <3>2. (i - n + 1) - 1 + n = i
      BY <1>1
    <3> QED
      BY <2>2, <3>1, <3>2
  <2> QED
    BY <1>2, <2>1, <2>2
<1>6. \A i \in 2 .. Len(stack) : \E j \in 1 .. Len(stack') : stack'[j] = stack[i]
  BY <1>1, <1>4
<1>7. \A i \in 1 .. n : \E j \in 1 .. Len(stack') : stack'[j] = P[i]
  BY <1>1, <1>3
<1>8. ASSUME NEW m
      PROVE  Pending(m, o)' <=> In(P, m, o) \/ Rest(m, o)
  <2>1. Pending(m, o)' <=> \E i \in 1 .. Len(stack') : stack'[i][1] = m /\ stack'[i][2] = o
    BY DEF Pending
  <2>2. In(P, m, o) <=> \E i \in 1 .. n : P[i][1] = m /\ P[i][2] = o
    BY DEF In, n
  <2>3. ASSUME NEW i \in 1 .. Len(stack'), stack'[i][1] = m, stack'[i][2] = o
        PROVE  (\E k \in 1 .. n : P[k][1] = m /\ P[k][2] = o) \/ Rest(m, o)
    BY <1>5, <2>3 DEF Rest
  <2>4. (\E k \in 1 .. n : P[k][1] = m /\ P[k][2] = o) => Pending(m, o)'
    BY <1>7, <2>1
  <2>5. Rest(m, o) => Pending(m, o)'
    BY <1>6, <2>1 DEF Rest
  <2> QED
    BY <2>1, <2>2, <2>3, <2>4, <2>5
<1>9. FieldLeft(o)' <=> InField(P, o) \/ RestField(o)
  <2>1. FieldLeft(o)' <=> \E i \in 1 .. Len(stack') : stack'[i] = <<"destroy", o, {NextOf(o)}>>
    BY DEF FieldLeft, NextOf
  <2>2. InField(P, o) <=> \E i \in 1 .. n : P[i] = <<"destroy", o, {NextOf(o)}>>
    BY DEF InField, n
  <2>3. ASSUME NEW i \in 1 .. Len(stack'), stack'[i] = <<"destroy", o, {NextOf(o)}>>
        PROVE  (\E k \in 1 .. n : P[k] = <<"destroy", o, {NextOf(o)}>>) \/ RestField(o)
    BY <1>5, <2>3 DEF RestField
  <2>4. (\E k \in 1 .. n : P[k] = <<"destroy", o, {NextOf(o)}>>) => FieldLeft(o)'
    BY <1>7, <2>1
  <2>5. RestField(o) => FieldLeft(o)'
    BY <1>6, <2>1 DEF RestField
  <2> QED
    BY <2>1, <2>2, <2>3, <2>4, <2>5
<1> QED
  BY <1>8, <1>9

LEMMA OrderStays ==
    ASSUME IsSeq(stack), stack # <<>>, NEW P, IsSeq(P), stack' = P \o Tail(stack), NEW o,
           InOrder(o),
           \A i, j \in 1 .. Len(P) :
               /\ i < j /\ P[i][2] = o /\ P[j][2] = o
               /\ P[i][1] \in {"destroy", "free"} /\ P[j][1] \in {"destroy", "free"}
               => P[i][1] = "destroy" /\ P[j][1] = "free",
           Rest("destroy", o) => ~In(P, "destroy", o) /\ ~In(P, "free", o),
           Rest("free", o) => ~In(P, "free", o)
    PROVE  InOrder(o)'
<1> DEFINE n == Len(P)
<1>1. /\ Len(stack') = Len(stack) - 1 + n /\ n \in Nat /\ Len(stack) \in Nat \ {0}
      /\ \A i \in 1 .. n : stack'[i] = P[i]
      /\ \A i \in 2 .. Len(stack) : stack'[i - 1 + n] = stack[i]
  BY Replaced
<1> HIDE DEF n
<1> SUFFICES ASSUME NEW i \in 1 .. Len(stack'), NEW j \in 1 .. Len(stack'),
                    i < j, stack'[i][2] = o, stack'[j][2] = o,
                    stack'[i][1] \in {"destroy", "free"}, stack'[j][1] \in {"destroy", "free"}
             PROVE  stack'[i][1] = "destroy" /\ stack'[j][1] = "free"
  BY DEF InOrder
<1>2. \A k \in 1 .. Len(stack') : k > n => k - n + 1 \in 2 .. Len(stack) /\ stack'[k] = stack[k - n + 1]
  <2> TAKE k \in 1 .. Len(stack')
  <2> HAVE k > n
  <2>1. k - n + 1 \in 2 .. Len(stack) /\ (k - n + 1) - 1 + n = k
    BY <1>1
  <2> QED
    BY <1>1, <2>1
<1>3. CASE j <= n
  <2>1. i \in 1 .. n /\ j \in 1 .. n /\ stack'[i] = P[i] /\ stack'[j] = P[j]
    BY <1>1, <1>3
  <2> QED
    BY <2>1 DEF n
<1>4. CASE i <= n /\ j > n
  <2>1. i \in 1 .. n /\ stack'[i] = P[i]
    BY <1>1, <1>4
  <2>2. In(P, stack'[i][1], o)
    BY <2>1 DEF In, n
  <2>3. Rest(stack'[j][1], o)
    BY <1>2, <1>4 DEF Rest
  <2> QED
    BY <2>2, <2>3
<1>5. CASE i > n
  <2> DEFINE k == i - n + 1
             l == j - n + 1
  <2>1. k \in 1 .. Len(stack) /\ l \in 1 .. Len(stack) /\ k < l
    BY <1>1, <1>2, <1>5
  <2>2. j > n
    BY <1>1, <1>5
  <2>3. stack'[i] = stack[k] /\ stack'[j] = stack[l]
    BY <1>2, <1>5, <2>2
  <2> HIDE DEF k, l
  <2> QED
    BY <2>1, <2>3, SMTT(40) DEF InOrder
<1> QED
  BY <1>1, <1>3, <1>4, <1>5

-----------------------------------------------------------------------------
(* What holds while a cascade runs.                                        *)

Strong(o) == SpTo(o) \ Stale
Weak(o)   == WpTo(o) \ Stale

LEMMA StrongAndWeak ==
    ASSUME NEW o
    PROVE  /\ Strong(o) \subseteq SpPlaces /\ Weak(o) \subseteq WpPlaces
           /\ Cardinality(Strong(o)) \in Nat /\ (Cardinality(Strong(o)) = 0 <=> Strong(o) = {})
           /\ Cardinality(Weak(o)) \in Nat /\ (Cardinality(Weak(o)) = 0 <=> Weak(o) = {})
           /\ Due("release", o) \in {0, 1} /\ Due("releaseWeak", o) \in {0, 1}
<1>1. Strong(o) \subseteq SpPlaces /\ Weak(o) \subseteq WpPlaces
  BY DEF Strong, Weak, SpTo, WpTo
<1> QED
  BY <1>1, CountPlaces DEF Due

\* The call at the head belongs to the cascade, or is the statement's own.
LEMMA CascadeRuns ==
    ASSUME IsSeq(stack), StackShape, stack # <<>>,
           Head(stack)[1] \in {"release", "releaseWeak", "destroy", "free"}
    PROVE  /\ Len(stack) \in Nat /\ Len(stack) >= 2 /\ Cascade(1)
           /\ stack[2][1] \notin {"release", "releaseWeak"}
           /\ \/ \E d \in SpPlaces : SetLeft(d) \/ \E p \in SpRoots : StoreLeft(d, p) /\ Len(stack) > 2
              \/ \E w \in WpVars : SetWeakLeft(w) \/ \E r \in Objs : StoreWeakLeft(w, r)
<1> DEFINE n == Len(stack)
<1>1. n \in Nat \ {0} /\ Head(stack) = stack[1]
  BY HeadAndRest
<1>2. Cascade(2) => stack[2][1] \notin {"release", "releaseWeak"}
  BY DEF Cascade
<1>3. ASSUME Above(1), Bottom[1] \in {"set", "storeWeak"}
      PROVE  n >= 2 /\ Cascade(1) /\ stack[2][1] \notin {"release", "releaseWeak"}
  <2>1. n # 1
    BY <1>1, <1>3 DEF Bottom
  <2>2. n >= 2 /\ 1 \in 1 .. n - 1
    BY <1>1, <2>1
  <2>3. \A k \in Nat : k >= 2 /\ k # 2 => 2 \in 1 .. k - 1
    OBVIOUS
  <2> QED
    BY <1>1, <1>2, <1>3, <2>2, <2>3 DEF Above, Bottom
<1>4. ASSUME NEW d, NEW p, StoreLeft(d, p)
      PROVE  n > 2 /\ Cascade(1) /\ stack[2][1] \notin {"release", "releaseWeak"}
  <2>1. n >= 2
    BY <1>4 DEF StoreLeft, Above
  <2>2. n # 2
    BY <1>1, <1>4 DEF StoreLeft
  <2>3. \A k \in Nat : k >= 2 /\ k # 2 =>
             k > 2 /\ 1 \in 1 .. k - 2 /\ (k # 3 => 2 \in 1 .. k - 2) /\ (k = 3 => k - 1 = 2)
    OBVIOUS
  <2>4. n > 2 /\ 1 \in 1 .. n - 2 /\ (n # 3 => 2 \in 1 .. n - 2) /\ (n = 3 => n - 1 = 2)
    BY <1>1, <2>1, <2>2, <2>3
  <2> QED
    BY <1>2, <1>4, <2>4 DEF StoreLeft, Above
<1>5. ASSUME NEW d, RetainLeft(d) PROVE FALSE
  BY <1>1, <1>5 DEF RetainLeft, Bottom
<1>6. ASSUME NEW x, NEW o, LockLeft(x, o) PROVE FALSE
  BY <1>1, <1>6 DEF LockLeft, Bottom
<1>7. CASE \E d \in SpPlaces : SetLeft(d)
  BY <1>1, <1>3, <1>7 DEF SetLeft
<1>8. CASE \E d \in SpPlaces : \E p \in SpRoots : StoreLeft(d, p)
  BY <1>1, <1>4, <1>8
<1>9. CASE \E w \in WpVars : SetWeakLeft(w)
  BY <1>1, <1>3, <1>9 DEF SetWeakLeft
<1>10. CASE \E w \in WpVars : \E r \in Objs : StoreWeakLeft(w, r)
  BY <1>1, <1>3, <1>10 DEF StoreWeakLeft
<1> QED
  BY <1>5, <1>6, <1>7, <1>8, <1>9, <1>10 DEF StackShape

\* What the cascade does to the fields of what it destroys.
FieldEnds(o) == o \in Objs /\ rc[o] = 0 /\ sp' = [sp EXCEPT ![NextOf(o)] = Gone]

LEMMA KeptStays ==
    ASSUME Types, Counted, sp' = sp \/ \E o \in Objs : FieldEnds(o),
           NEW d \in SpPlaces, Kept(d), d \in SpRoots \/ Stale \cap SpRoots \subseteq {d}
    PROVE  Kept(d)' /\ sp'[d] = sp[d]
<1>1. CASE sp' = sp
  BY <1>1 DEF Kept
<1>2. ASSUME NEW o \in Objs, FieldEnds(o)
      PROVE  Kept(d)' /\ sp'[d] = sp[d]
  <2>1. Strong(o) = {}
    <3>1. rc[o] = 0 /\ rc[o] = Cardinality(SpTo(o) \ Stale) + Due("release", o)
      BY <1>2 DEF Counted, FieldEnds
    <3> QED
      BY <3>1, StrongAndWeak DEF Strong
  <2>2. d # NextOf(o)
    <3>1. CASE d \in SpRoots
      BY <3>1, Names
    <3>2. CASE d \notin SpRoots
      <4>1. PICK h \in Objs, x \in SpRoots : d = NextOf(h) /\ sp[x] = h
        BY <3>2 DEF Kept
      <4>2. x \in SpPlaces /\ x \notin Stale
        BY <3>2 DEF SpPlaces
      <4>3. h # o
        BY <2>1, <4>1, <4>2 DEF Strong, SpTo
      <4> QED
        BY <4>1, <4>3, Names
    <3> QED
      BY <3>1, <3>2
  <2>3. \A e \in SpPlaces : e # NextOf(o) => sp'[e] = sp[e]
    BY <1>2 DEF FieldEnds, Types
  <2>4. \A x \in SpRoots : x \in SpPlaces /\ sp'[x] = sp[x]
    BY <2>3, Names DEF SpPlaces
  <2> QED
    BY <2>2, <2>3, <2>4 DEF Kept
<1> QED
  BY <1>1, <1>2

\* A call of the cascade leaves the statement's own calls to come.
LEMMA ShapeStays ==
    ASSUME Types, Counted, StackShape, stack # <<>>,
           Head(stack)[1] \in {"release", "releaseWeak", "destroy", "free"},
           NEW P, IsSeq(P), stack' = P \o Tail(stack), \A i \in 1 .. Len(P) : Cascade(i)',
           sp' = sp \/ \E o \in Objs : FieldEnds(o)
    PROVE  StackShape' /\ Stale' = Stale /\ stack' # <<>> /\ IsSeq(stack')
<1> DEFINE n == Len(P)
           L == Len(stack)
<1>1. IsSeq(stack)
  BY DEF Types, IsSeq
<1>2. /\ Len(stack') = L - 1 + n /\ n \in Nat /\ L \in Nat /\ IsSeq(stack')
      /\ \A i \in 2 .. L : stack'[i - 1 + n] = stack[i]
  <2>1. /\ Len(stack') = Len(stack) - 1 + Len(P) /\ IsSeq(stack')
        /\ Len(P) \in Nat /\ Len(stack) \in Nat \ {0}
        /\ \A i \in 2 .. Len(stack) : stack'[i - 1 + Len(P)] = stack[i]
    BY <1>1, StackAfter
  <2> QED
    BY <2>1
<1>3. /\ L >= 2 /\ Cascade(1)
      /\ \/ \E d \in SpPlaces : SetLeft(d) \/ \E p \in SpRoots : StoreLeft(d, p) /\ L > 2
         \/ \E w \in WpVars : SetWeakLeft(w) \/ \E r \in Objs : StoreWeakLeft(w, r)
  BY <1>1, CascadeRuns
<1>4. Bottom' = Bottom
  <2>1. L \in 2 .. L /\ L - 1 + n = Len(stack')
    BY <1>2, <1>3
  <2> QED
    BY <1>2, <2>1 DEF Bottom
<1>5. stack' # <<>>
  BY <1>2, <1>3, EmptySeq
<1>6. Stale' = Stale
  BY <1>4, <1>5 DEF Stale
<1>7. ASSUME NEW k \in {1, 2}, L > k, Above(k)
      PROVE  Above(k)'
  <2>1. ASSUME NEW i \in 1 .. L - 1 + n - k, i > n
        PROVE  Cascade(i)'
    <3>1. i - n + 1 \in 2 .. L /\ i - n + 1 \in 1 .. L - k /\ (i - n + 1) - 1 + n = i /\ i - n + 1 # 1
      BY <1>2, <2>1
    <3>2. stack'[i] = stack[i - n + 1]
      BY <1>2, <3>1
    <3>3. Cascade(i - n + 1)
      BY <1>7, <3>1 DEF Above
    <3> QED
      BY <3>1, <3>2, <3>3 DEF Cascade, NextOf
  <2>2. \A i \in 1 .. L - 1 + n - k : i <= n => i \in 1 .. n
    BY <1>2
  <2>3. L - 1 + n >= k /\ \A i \in 1 .. L - 1 + n - k : i <= n \/ i > n
    BY <1>2, <1>7
  <2>4. \A i \in 1 .. L - 1 + n - k : Cascade(i)'
    BY <2>1, <2>2, <2>3
  <2> QED
    BY <1>2, <2>3, <2>4 DEF Above
<1> HIDE DEF n, L
<1>8. CASE \E d \in SpPlaces : SetLeft(d)
  <2>1. PICK d \in SpPlaces : SetLeft(d)
    BY <1>8
  <2>2. Above(1)'
    BY <1>2, <1>3, <1>7, <2>1 DEF SetLeft
  <2>3. Stale = {d}
    BY <2>1 DEF SetLeft, Stale
  <2>4. Kept(d)'
    BY <2>1, <2>3, KeptStays DEF SetLeft
  <2>5. SetLeft(d)'
    BY <1>4, <2>1, <2>2, <2>4 DEF SetLeft
  <2> QED
    BY <1>2, <1>5, <1>6, <2>5 DEF StackShape
<1>9. CASE \E d \in SpPlaces : \E p \in SpRoots : StoreLeft(d, p) /\ L > 2
  <2>1. PICK d \in SpPlaces, p \in SpRoots : StoreLeft(d, p) /\ L > 2
    BY <1>9
  <2>2. Above(2)'
    BY <1>7, <2>1 DEF StoreLeft
  <2>3. Stale = {d} /\ p \in SpPlaces
    BY <2>1 DEF StoreLeft, Stale, SpPlaces
  <2>4. Kept(d)'
    BY <2>1, <2>3, KeptStays DEF StoreLeft
  <2>5. sp'[p] = sp[p]
    BY <2>1, <2>3, KeptStays DEF StoreLeft, Kept
  <2>6. stack'[Len(stack') - 1] = stack[L - 1]
    <3>1. L - 1 \in 2 .. L /\ (L - 1) - 1 + n = Len(stack') - 1
      BY <1>2, <2>1
    <3> QED
      BY <1>2, <3>1
  <2>7. StoreLeft(d, p)'
    BY <1>4, <2>1, <2>2, <2>4, <2>5, <2>6 DEF StoreLeft, L
  <2> QED
    BY <1>2, <1>5, <1>6, <2>7 DEF StackShape
<1>10. CASE \E w \in WpVars : SetWeakLeft(w)
  <2>1. PICK w \in WpVars : SetWeakLeft(w)
    BY <1>10
  <2>2. Above(1)'
    BY <1>2, <1>3, <1>7, <2>1 DEF SetWeakLeft
  <2>3. SetWeakLeft(w)'
    BY <1>4, <2>1, <2>2 DEF SetWeakLeft
  <2> QED
    BY <1>2, <1>5, <1>6, <2>3 DEF StackShape
<1>11. CASE \E w \in WpVars : \E r \in Objs : StoreWeakLeft(w, r)
  <2>1. PICK w \in WpVars, r \in Objs : StoreWeakLeft(w, r)
    BY <1>11
  <2>2. Above(1)'
    BY <1>2, <1>3, <1>7, <2>1 DEF StoreWeakLeft
  <2>3. PICK p \in SpPlaces : Kept(p) /\ sp[p] = r
    BY <1>3, <2>1 DEF StoreWeakLeft, L
  <2>4. Stale = {w} /\ w \notin SpRoots
    BY <2>1, PlacesApart DEF StoreWeakLeft, Stale, SpPlaces, WpPlaces
  <2>5. Kept(p)' /\ sp'[p] = r
    BY <2>3, <2>4, KeptStays
  <2>6. StoreWeakLeft(w, r)'
    BY <1>4, <2>1, <2>2, <2>5 DEF StoreWeakLeft
  <2> QED
    BY <1>2, <1>5, <1>6, <2>6 DEF StackShape
<1> QED
  BY <1>3, <1>8, <1>9, <1>10, <1>11

\* The call that comes after one of a cascade drops a reference only if the
\* latter says so.
LEMMA NextCall ==
    ASSUME IsSeq(stack), StackShape, stack # <<>>,
           Head(stack)[1] \in {"release", "releaseWeak", "destroy", "free"},
           NEW P, IsSeq(P), stack' = P \o Tail(stack)
    PROVE  /\ stack' # <<>>
           /\ P = <<>> => Head(stack')[1] \notin {"release", "releaseWeak"}
           /\ Len(P) > 0 => Head(stack') = P[1]
<1>1. /\ Len(stack) \in Nat /\ Len(stack) >= 2
      /\ stack[2][1] \notin {"release", "releaseWeak"}
  BY CascadeRuns
<1>2. IsSeq(stack') /\ Len(stack') = Len(stack) - 1 + Len(P) /\ Len(P) \in Nat
  BY StackAfter
<1>3. stack' # <<>> /\ Head(stack') = stack'[1]
  <2>1. Len(stack') # 0
    BY <1>1, <1>2
  <2>2. stack' # <<>>
    BY <2>1, Lists
  <2> QED
    BY <2>2, StackAfter
<1>4. ASSUME P = <<>> PROVE stack'[1] = stack[2]
  <2>1. Len(P) = 0 /\ 2 \in 2 .. Len(stack)
    BY <1>1, <1>4, Lists
  <2>2. stack'[2 - 1 + Len(P)] = stack[2]
    BY <2>1, StackAfter
  <2> QED
    BY <2>1, <2>2
<1>5. Len(P) > 0 => 1 \in 1 .. Len(P)
  BY <1>2
<1>6. Len(P) > 0 => stack'[1] = P[1]
  BY <1>5, StackAfter
<1> QED
  BY <1>1, <1>3, <1>4, <1>6

\* An object that a call of a cascade has nothing to do with.
LEMMA DecidedElsewhere ==
    ASSUME IsSeq(stack), stack # <<>>, NEW P, IsSeq(P), stack' = P \o Tail(stack),
           NEW o \in Objs, Decided(o),
           Head(stack)[1] \in {"destroy", "free"} => Head(stack)[2] # o,
           ~In(P, "destroy", o), ~In(P, "free", o), ~InField(P, o),
           mem'[o] = mem[o], rc'[o] = rc[o], wc'[o] = wc[o], wp'[BackOf(o)] = wp[BackOf(o)],
           sp'[NextOf(o)] = Gone <=> sp[NextOf(o)] = Gone
    PROVE  Decided(o)'
<1>1. /\ Pending("destroy", o)' <=> Pending("destroy", o)
      /\ Pending("free", o)' <=> Pending("free", o)
  BY HeadAndRest, RestStays
<1>2. FieldLeft(o)' <=> FieldLeft(o)
  <2>1. Head(stack) # <<"destroy", o, {NextOf(o)}>>
    OBVIOUS
  <2> QED
    BY <2>1, HeadAndRest, RestStays
<1>3. InOrder(o)'
  <2>1. InOrder(o)
    BY DEF Decided
  <2>2. ASSUME NEW i \in 1 .. Len(P), P[i][2] = o, P[i][1] \in {"destroy", "free"}
        PROVE  FALSE
    BY <2>2 DEF In
  <2> QED
    BY <2>1, <2>2, OrderStays
<1> QED
  BY <1>1, <1>2, <1>3 DEF Decided, BackOf, NextOf

\* A cascade counts as long as it neither adds nor ends a place unnoticed.
LEMMA CountedStays ==
    ASSUME Types, Counted, StackShape, stack # <<>>,
           Head(stack)[1] \in {"release", "releaseWeak", "destroy", "free"},
           NEW P, IsSeq(P), stack' = P \o Tail(stack),
           P = <<>> \/ (Len(P) > 0 /\ P[1][1] \notin {"release", "releaseWeak"}),
           Stale' = Stale, sp' = sp, wp' = wp,
           \A o \in Objs : /\ rc'[o] = rc[o] - Due("release", o)
                           /\ wc'[o] = wc[o] - Due("releaseWeak", o)
    PROVE  Counted'
<1>1. IsSeq(stack)
  BY DEF Types, IsSeq
<1>2. \A o : Due("release", o)' = 0 /\ Due("releaseWeak", o)' = 0
  BY <1>1, NextCall DEF Due
<1>3. ASSUME NEW o \in Objs
      PROVE  /\ rc'[o] = Cardinality((SpTo(o) \ Stale)') + Due("release", o)'
             /\ wc'[o] = Cardinality((WpTo(o) \ Stale)') + Due("releaseWeak", o)'
  <2>1. (SpTo(o) \ Stale)' = SpTo(o) \ Stale /\ (WpTo(o) \ Stale)' = WpTo(o) \ Stale
    BY DEF SpTo, WpTo
  <2>2. Cardinality(SpTo(o) \ Stale) \in Nat /\ Cardinality(WpTo(o) \ Stale) \in Nat
    BY StrongAndWeak DEF Strong, Weak
  <2>3. /\ rc[o] = Cardinality(SpTo(o) \ Stale) + Due("release", o)
        /\ wc[o] = Cardinality(WpTo(o) \ Stale) + Due("releaseWeak", o)
        /\ Due("release", o) \in {0, 1} /\ Due("releaseWeak", o) \in {0, 1}
    BY DEF Counted, Due
  <2>4. /\ rc'[o] = Cardinality(SpTo(o) \ Stale)
        /\ wc'[o] = Cardinality(WpTo(o) \ Stale)
    BY <2>2, <2>3
  <2>5. Due("release", o)' = 0 /\ Due("releaseWeak", o)' = 0
    BY <1>2
  <2>6. rc'[o] = rc'[o] + 0 /\ wc'[o] = wc'[o] + 0
    BY <2>2, <2>4
  <2> QED
    BY <2>1, <2>4, <2>5, <2>6
<1> QED
  BY <1>3 DEF Counted

-----------------------------------------------------------------------------
(* The calls of a cascade keep the invariant.                              *)

LEMMA FieldsPlain ==
    ASSUME Plain, NEW o
    PROVE  Fields(o) = {NextOf(o)}
  BY DEF Plain, Fields

\* What _release() does after it has counted down.
LEMMA ReleasePushes ==
    ASSUME NEW o, NEW F, NEW one \in BOOLEAN, NEW last \in BOOLEAN, last => one
    PROVE  LET P == IF last THEN <<<<"destroy", o, F>>, <<"free", o>>>>
                    ELSE IF one THEN <<<<"destroy", o, F>>>> ELSE <<>>
           IN  IsSeq(P) /\ When(one, <<"destroy", o, F>>) \o When(last, <<"free", o>>) = P
<1>1. ASSUME NEW a, NEW b PROVE <<a>> \o <<b>> = <<a, b>>
  <2>1. /\ <<a>> \in Seq({a, b}) /\ <<b>> \in Seq({a, b}) /\ <<a, b>> \in Seq({a, b})
        /\ Len(<<a>>) = 1 /\ Len(<<b>>) = 1 /\ Len(<<a, b>>) = 2
    OBVIOUS
  <2>2. /\ <<a>> \o <<b>> \in Seq({a, b}) /\ Len(<<a>> \o <<b>>) = 2
        /\ \A i \in 1 .. 2 : (<<a>> \o <<b>>)[i] = IF i <= 1 THEN <<a>>[i] ELSE <<b>>[i - 1]
    BY <2>1, ConcatProperties
  <2>3. \A i \in 1 .. 2 : (<<a>> \o <<b>>)[i] = <<a, b>>[i]
    BY <2>2
  <2> QED
    BY <2>1, <2>2, <2>3, SeqEqual
<1>2. \A a : <<a>> \o <<>> = <<a>>
  OBVIOUS
<1>3. CASE last
  BY <1>1, <1>3, Lists DEF When
<1>4. CASE ~last /\ one
  BY <1>2, <1>4, Lists DEF When
<1>5. CASE ~last /\ ~one
  BY <1>5, Lists DEF When
<1> QED
  BY <1>3, <1>4, <1>5

LEMMA ReleaseKeeps ==
    ASSUME Plain, IInv, Release
    PROVE  IInv'
<1>1. /\ Types /\ Counted /\ StackShape /\ IsSeq(stack) /\ ~fault
      /\ \A h \in Objs : Decided(h)
  BY DEF IInv, Types, IsSeq, NoFault
<1>2. stack # <<>> /\ Head(stack)[1] = "release"
  BY DEF Release, Called
<1>3. PICK o \in Objs \cup {NULL} : Head(stack) = <<"release", o>>
  <2>1. Cascade(1) /\ Head(stack) = stack[1]
    BY <1>1, <1>2, CascadeRuns, HeadAndRest
  <2> QED
    BY <1>2, <2>1 DEF Cascade
<1>4. \A h \in Objs : /\ Due("release", h) = IF h = o THEN 1 ELSE 0
                      /\ Due("releaseWeak", h) = 0
  BY <1>2, <1>3 DEF Due
<1>5. Arg(1) = o /\ NULL \notin Objs
  BY <1>3, Names DEF Arg
<1>6. UNCHANGED <<mem, wc, sp, wp, fault>>
  BY DEF Release, Return, Push
<1>7. CASE o = NULL
  <2>1. stack' = Tail(stack) /\ rc' = rc
    BY <1>5, <1>7 DEF Release, Return
  <2>2. stack' = <<>> \o Tail(stack) /\ IsSeq(<<>>)
    <3>1. Tail(stack) \in Seq({stack[i] : i \in 1 .. Len(stack)})
      BY <1>1, <1>2 DEF IsSeq
    <3> QED
      BY <2>1, <3>1, ConcatEmptySeq, Lists
  <2>3. StackShape' /\ Stale' = Stale /\ IsSeq(stack')
    <3>1. \A i \in 1 .. Len(<<>>) : Cascade(i)'
      OBVIOUS
    <3> QED
      BY <1>1, <1>2, <1>6, <2>2, <3>1, ShapeStays
  <2>4. \A h \in Objs : /\ rc'[h] = rc[h] - Due("release", h) /\ wc'[h] = wc[h] - Due("releaseWeak", h)
    <3>1. \A h \in Objs : rc[h] \in Nat /\ wc[h] \in Nat /\ h # o
      BY <1>1, <1>5, <1>7 DEF Types
    <3>2. \A h \in Objs : Due("release", h) = 0 /\ Due("releaseWeak", h) = 0
      BY <1>4, <3>1
    <3> QED
      BY <1>6, <2>1, <3>1, <3>2
  <2>5. Counted'
    BY <1>1, <1>2, <1>6, <2>2, <2>3, <2>4, CountedStays
  <2>6. ASSUME NEW h \in Objs PROVE Decided(h)'
    <3>1. ~In(<<>>, "destroy", h) /\ ~In(<<>>, "free", h) /\ ~InField(<<>>, h)
      BY DEF In, InField
    <3> QED
      BY <1>1, <1>2, <1>6, <2>1, <2>2, <3>1, DecidedElsewhere
  <2> QED
    BY <1>1, <1>6, <2>1, <2>3, <2>5, <2>6 DEF IInv, Types, IsSeq, NoFault
<1>8. CASE o \in Objs
  <2> DEFINE one  == rc[o] = 1
             last == rc[o] = 1 /\ wc[o] = 0
             P    == IF last THEN <<<<"destroy", o, {NextOf(o)}>>, <<"free", o>>>>
                     ELSE IF one THEN <<<<"destroy", o, {NextOf(o)}>>>> ELSE <<>>
  <2>1. stack' = P \o Tail(stack) /\ IsSeq(P) /\ rc' = [rc EXCEPT ![o] = @ - 1]
    <3>1. /\ rc' = [rc EXCEPT ![o] = @ - 1]
          /\ stack' = (When(one, <<"destroy", o, {NextOf(o)}>>) \o When(last, <<"free", o>>)) \o Tail(stack)
      BY <1>5, <1>8, FieldsPlain DEF Release, Push, ReleaseAction
    <3>2. one \in BOOLEAN /\ last \in BOOLEAN /\ (last => one)
      OBVIOUS
    <3> HIDE DEF one, last
    <3> QED
      BY <3>1, <3>2, ReleasePushes, ZenonT(60)
  <2>2. rc[o] \in Nat \ {0} /\ wc[o] \in Nat
    <3>1. rc[o] = Cardinality(SpTo(o) \ Stale) + 1
      BY <1>1, <1>4, <1>8 DEF Counted
    <3>2. Cardinality(SpTo(o) \ Stale) \in Nat
      BY StrongAndWeak DEF Strong
    <3> QED
      BY <1>1, <1>8, <3>1, <3>2 DEF Types
  <2>3. \A i \in 1 .. Len(P) : Cascade(i)'
    <3>1. \A i \in 1 .. Len(P) : stack'[i] = P[i]
      BY <1>1, <1>2, <2>1, StackAfter
    <3>2. \A i \in 1 .. Len(P) : P[i] \in {<<"destroy", o, {NextOf(o)}>>, <<"free", o>>}
      BY Lists
    <3> QED
      BY <1>8, <3>1, <3>2 DEF Cascade, NextOf
  <2>4. StackShape' /\ Stale' = Stale /\ IsSeq(stack')
    BY <1>1, <1>2, <1>6, <2>1, <2>3, ShapeStays
  <2>5. \A h \in Objs : /\ rc'[h] = rc[h] - Due("release", h) /\ wc'[h] = wc[h] - Due("releaseWeak", h)
    BY <1>1, <1>4, <1>6, <1>8, <2>1 DEF Types
  <2>6. Counted'
    <3>1. P = <<>> \/ (Len(P) > 0 /\ P[1][1] \notin {"release", "releaseWeak"})
      BY Lists
    <3> QED
      BY <1>1, <1>2, <1>6, <2>1, <2>4, <2>5, <3>1, CountedStays
  <2>7. \A h : /\ In(P, "destroy", h) <=> one /\ h = o
               /\ InField(P, h) <=> one /\ h = o
               /\ In(P, "free", h) <=> last /\ h = o
    <3>1. CASE last
      <4>1. Len(P) = 2 /\ P[1] = <<"destroy", o, {NextOf(o)}>> /\ P[2] = <<"free", o>>
        BY <3>1, Lists
      <4> QED
        BY <3>1, <4>1 DEF In, InField
    <3>2. CASE one /\ ~last
      <4>1. Len(P) = 1 /\ P[1] = <<"destroy", o, {NextOf(o)}>>
        BY <3>2, Lists
      <4> QED
        BY <3>2, <4>1 DEF In, InField
    <3>3. CASE ~one
      <4>1. Len(P) = 0
        BY <3>3, Lists
      <4> QED
        BY <3>3, <4>1 DEF In, InField
    <3> QED
      BY <3>1, <3>2, <3>3
  <2> HIDE DEF P
  <2>8. ASSUME NEW h \in Objs, h # o PROVE Decided(h)'
    <3>1. rc'[h] = rc[h]
      BY <1>1, <1>8, <2>1, <2>8 DEF Types
    <3> QED
      BY <1>1, <1>2, <1>6, <2>1, <2>7, <2>8, <3>1, DecidedElsewhere
  <2>9. Decided(o)'
    <3>1. ~Pending("destroy", o) /\ ~Pending("free", o) /\ mem[o] = "live" /\ sp[NextOf(o)] # Gone
      BY <1>1, <1>8, <2>2 DEF Decided
    <3>2. ~Rest("destroy", o) /\ ~Rest("free", o)
      BY <1>1, <1>2, <3>1, HeadAndRest
    <3>3. (Pending("destroy", o)' <=> one) /\ (Pending("free", o)' <=> last)
      BY <1>1, <1>2, <2>1, <2>7, <3>2, RestStays
    <3>4. InOrder(o)'
      <4>1. \A i, j \in 1 .. Len(P) : i < j => P[i][1] = "destroy" /\ P[j][1] = "free"
        BY Lists DEF P
      <4>2. InOrder(o)
        BY <1>1, <1>8 DEF Decided
      <4> QED
        BY <1>1, <1>2, <2>1, <3>2, <4>1, <4>2, OrderStays
    <3>5. rc'[o] = rc[o] - 1
      BY <1>1, <1>8, <2>1 DEF Types
    <3> QED
      BY <1>1, <1>6, <1>8, <2>2, <3>1, <3>3, <3>4, <3>5 DEF Decided, NextOf, BackOf
  <2>10. rc' \in [Objs -> Nat]
    BY <1>1, <1>8, <2>1, <2>2 DEF Types
  <2> QED
    BY <1>1, <1>6, <2>4, <2>6, <2>8, <2>9, <2>10 DEF IInv, Types, IsSeq, NoFault
<1> QED
  BY <1>7, <1>8

LEMMA ReleaseWeakKeeps ==
    ASSUME Plain, IInv, ReleaseWeak
    PROVE  IInv'
<1>1. /\ Types /\ Counted /\ StackShape /\ IsSeq(stack) /\ ~fault
      /\ \A h \in Objs : Decided(h)
  BY DEF IInv, Types, IsSeq, NoFault
<1>2. stack # <<>> /\ Head(stack)[1] = "releaseWeak"
  BY DEF ReleaseWeak, Called
<1>3. PICK o \in Objs : Head(stack) = <<"releaseWeak", o>> /\ Len(stack) = 2
  <2>1. Cascade(1) /\ Head(stack) = stack[1]
    BY <1>1, <1>2, CascadeRuns, HeadAndRest
  <2> QED
    BY <1>2, <2>1 DEF Cascade
<1>4. \A h \in Objs : /\ Due("releaseWeak", h) = IF h = o THEN 1 ELSE 0
                      /\ Due("release", h) = 0
  BY <1>2, <1>3 DEF Due
<1>5. Arg(1) = o
  BY <1>3 DEF Arg
<1>6. UNCHANGED <<mem, rc, sp, wp, fault>> /\ wc' = [wc EXCEPT ![o] = @ - 1]
  BY <1>5 DEF ReleaseWeak, Return, Push
<1> DEFINE last == rc[o] = 0 /\ wc[o] = 1
           P    == IF last THEN <<<<"free", o>>>> ELSE <<>>
<1>7. stack' = P \o Tail(stack) /\ IsSeq(P)
  <2>1. stack' = When(last, <<"free", o>>) \o Tail(stack)
    BY <1>5 DEF ReleaseWeak, Push, ReleaseWeakFrees
  <2> QED
    BY <2>1, Lists DEF When
<1>8. rc[o] \in Nat /\ wc[o] \in Nat \ {0}
  <2>1. wc[o] = Cardinality(WpTo(o) \ Stale) + 1
    BY <1>1, <1>4 DEF Counted
  <2>2. Cardinality(WpTo(o) \ Stale) \in Nat
    BY StrongAndWeak DEF Weak
  <2> QED
    BY <1>1, <2>1, <2>2 DEF Types
<1>9. \A i \in 1 .. Len(P) : Cascade(i)'
  <2>1. \A i \in 1 .. Len(P) : stack'[i] = P[i]
    BY <1>1, <1>2, <1>7, StackAfter
  <2>2. \A i \in 1 .. Len(P) : P[i] = <<"free", o>>
    BY Lists
  <2> QED
    BY <2>1, <2>2 DEF Cascade
<1>10. StackShape' /\ Stale' = Stale /\ IsSeq(stack')
  BY <1>1, <1>2, <1>6, <1>7, <1>9, ShapeStays
<1>11. \A h \in Objs : /\ rc'[h] = rc[h] - Due("release", h) /\ wc'[h] = wc[h] - Due("releaseWeak", h)
  BY <1>1, <1>4, <1>6 DEF Types
<1>12. Counted'
  <2>1. P = <<>> \/ (Len(P) > 0 /\ P[1][1] \notin {"release", "releaseWeak"})
    BY Lists
  <2> QED
    BY <1>1, <1>2, <1>6, <1>7, <1>10, <1>11, <2>1, CountedStays
<1>13. \A h : /\ ~In(P, "destroy", h) /\ ~InField(P, h)
              /\ In(P, "free", h) <=> last /\ h = o
  <2>1. CASE last
    <3>1. Len(P) = 1 /\ P[1] = <<"free", o>>
      BY <2>1, Lists
    <3> QED
      BY <2>1, <3>1 DEF In, InField
  <2>2. CASE ~last
    <3>1. Len(P) = 0
      BY <2>2, Lists
    <3> QED
      BY <2>2, <3>1 DEF In, InField
  <2> QED
    BY <2>1, <2>2
<1>14. \A i, j \in 1 .. Len(P) : ~(i < j)
  BY Lists
<1> HIDE DEF P
<1>15. ASSUME NEW h \in Objs, h # o PROVE Decided(h)'
  <2>1. wc'[h] = wc[h]
    BY <1>1, <1>6, <1>15 DEF Types
  <2> QED
    BY <1>1, <1>2, <1>6, <1>7, <1>13, <1>15, <2>1, DecidedElsewhere
<1>16. Decided(o)'
  <2>1. /\ ~Pending("free", o) /\ mem[o] \notin {"unused", "freed"}
        /\ mem \in [Objs -> {"unused", "live", "destroyed", "freed"}]
    BY <1>1, <1>8 DEF Decided, Types
  <2>2. ~Rest("destroy", o) /\ ~Rest("free", o) /\ ~RestField(o)
    <3>1. stack[2][1] \notin {"destroy", "free"}
      BY <1>1, <1>2, <1>3, CascadeRuns DEF SetLeft, SetWeakLeft, StoreWeakLeft, Bottom
    <3>2. \A i \in 2 .. Len(stack) : i = 2
      BY <1>3
    <3> QED
      BY <3>1, <3>2 DEF Rest, RestField
  <2>3. /\ ~Pending("destroy", o) /\ ~FieldLeft(o)
    BY <1>1, <1>2, <1>3, <2>2, HeadAndRest
  <2>4. /\ ~Pending("destroy", o)' /\ ~FieldLeft(o)' /\ (Pending("free", o)' <=> last)
    BY <1>1, <1>2, <1>7, <1>13, <2>2, RestStays
  <2>5. InOrder(o)'
    <3>1. InOrder(o)
      BY <1>1 DEF Decided
    <3> QED
      BY <1>1, <1>2, <1>7, <1>14, <2>2, <3>1, OrderStays
  <2>6. wc'[o] = wc[o] - 1
    BY <1>1, <1>6 DEF Types
  <2> QED
    BY <1>1, <1>6, <1>8, <2>1, <2>3, <2>4, <2>5, <2>6 DEF Decided, NextOf, BackOf
<1>17. wc' \in [Objs -> Nat]
  BY <1>1, <1>6, <1>8 DEF Types
<1> QED
  BY <1>1, <1>6, <1>10, <1>12, <1>15, <1>16, <1>17 DEF IInv, Types, IsSeq, NoFault

LEMMA FreeMemoryKeeps ==
    ASSUME Plain, IInv, FreeMemory
    PROVE  IInv'
<1>1. /\ Types /\ Counted /\ StackShape /\ IsSeq(stack) /\ ~fault
      /\ \A h \in Objs : Decided(h)
  BY DEF IInv, Types, IsSeq, NoFault
<1>2. stack # <<>> /\ Head(stack)[1] = "free"
  BY DEF FreeMemory, Called
<1>3. PICK o \in Objs : Head(stack) = <<"free", o>>
  <2>1. Cascade(1) /\ Head(stack) = stack[1]
    BY <1>1, <1>2, CascadeRuns, HeadAndRest
  <2> QED
    BY <1>2, <2>1 DEF Cascade
<1>4. \A h \in Objs : Due("releaseWeak", h) = 0 /\ Due("release", h) = 0
  BY <1>2, <1>3 DEF Due
<1>5. Arg(1) = o
  BY <1>3 DEF Arg
<1>6. /\ UNCHANGED <<rc, wc, sp, wp, fault>> /\ mem' = [mem EXCEPT ![o] = "freed"]
      /\ stack' = Tail(stack)
  BY <1>5 DEF FreeMemory, Return, counters
<1>7. stack' = <<>> \o Tail(stack) /\ IsSeq(<<>>)
  <2>1. Tail(stack) \in Seq({stack[i] : i \in 1 .. Len(stack)})
    BY <1>1, <1>2 DEF IsSeq
  <2> QED
    BY <1>6, <2>1, ConcatEmptySeq, Lists
<1>8. StackShape' /\ Stale' = Stale /\ IsSeq(stack')
  <2>1. \A i \in 1 .. Len(<<>>) : Cascade(i)'
    OBVIOUS
  <2> QED
    BY <1>1, <1>2, <1>6, <1>7, <2>1, ShapeStays
<1>9. Counted'
  <2>1. \A h \in Objs : rc[h] \in Nat /\ wc[h] \in Nat
    BY <1>1 DEF Types
  <2>2. \A h \in Objs : /\ rc'[h] = rc[h] - Due("release", h) /\ wc'[h] = wc[h] - Due("releaseWeak", h)
    BY <1>4, <1>6, <2>1
  <2> QED
    BY <1>1, <1>2, <1>6, <1>7, <1>8, <2>2, CountedStays
<1>10. \A h : ~In(<<>>, "destroy", h) /\ ~In(<<>>, "free", h) /\ ~InField(<<>>, h)
  BY DEF In, InField
<1>11. ASSUME NEW h \in Objs, h # o PROVE Decided(h)'
  <2>1. mem'[h] = mem[h] /\ Head(stack)[2] # h
    BY <1>1, <1>3, <1>6, <1>11 DEF Types
  <2> QED
    BY <1>1, <1>2, <1>6, <1>7, <1>10, <1>11, <2>1, DecidedElsewhere
<1>12. Decided(o)'
  <2>1. ~Rest("destroy", o) /\ ~Rest("free", o) /\ ~RestField(o)
    <3>1. InOrder(o) /\ Head(stack)[2] = o
      BY <1>1, <1>3 DEF Decided
    <3> QED
      BY <1>1, <1>2, <3>1, HeadAndRest
  <2>2. Pending("free", o)
    BY <1>1, <1>2, <1>3, HeadAndRest
  <2>3. rc[o] = 0 /\ wc[o] = 0 /\ wp[BackOf(o)] \in {NULL, Gone}
    BY <1>1, <2>2 DEF Decided
  <2>4. /\ ~Pending("destroy", o)' /\ ~FieldLeft(o)' /\ ~Pending("free", o)'
    BY <1>1, <1>2, <1>7, <1>10, <2>1, RestStays
  <2>5. InOrder(o)'
    <3>1. InOrder(o)
      BY <1>1 DEF Decided
    <3> QED
      BY <1>1, <1>2, <1>7, <2>1, <3>1, OrderStays
  <2>6. mem'[o] = "freed"
    BY <1>1, <1>6 DEF Types
  <2> QED
    BY <1>6, <2>3, <2>4, <2>5, <2>6 DEF Decided, NextOf, BackOf
<1>13. mem' \in [Objs -> {"unused", "live", "destroyed", "freed"}]
  BY <1>1, <1>6 DEF Types
<1> QED
  BY <1>1, <1>6, <1>8, <1>9, <1>11, <1>12, <1>13 DEF IInv, Types, IsSeq, NoFault

\* The destructor ends the field of its object, or it is through.
LEMMA DestroyKeeps ==
    ASSUME Plain, IInv, Destroy
    PROVE  IInv'
<1>1. /\ Types /\ Counted /\ StackShape /\ IsSeq(stack) /\ ~fault
      /\ \A h \in Objs : Decided(h)
  BY DEF IInv, Types, IsSeq, NoFault
<1>2. stack # <<>> /\ Head(stack)[1] = "destroy"
  BY DEF Destroy, Called
<1>3. PICK o \in Objs : Head(stack) \in {<<"destroy", o, {NextOf(o)}>>, <<"destroy", o, {}>>}
  <2>1. Cascade(1) /\ Head(stack) = stack[1]
    BY <1>1, <1>2, CascadeRuns, HeadAndRest
  <2> QED
    BY <1>2, <2>1 DEF Cascade
<1>4. \A h \in Objs : Due("releaseWeak", h) = 0 /\ Due("release", h) = 0
  BY <1>2, <1>3 DEF Due
<1>5. Arg(1) = o /\ UNCHANGED <<rc, wc, fault>>
  <2>1. Arg(1) = o
    BY <1>3 DEF Arg
  <2>2. UNCHANGED <<rc, wc>>
    BY DEF Destroy, counters
  <2>3. UNCHANGED fault
    BY DEF Destroy, Return, Push
  <2> QED
    BY <2>1, <2>2, <2>3
<1>6. /\ Pending("destroy", o) /\ rc[o] = 0 /\ mem[o] = "live" /\ InOrder(o)
      /\ ~Rest("destroy", o) /\ ~RestField(o)
  <2>1. Pending("destroy", o) /\ InOrder(o) /\ Head(stack)[2] = o
    BY <1>1, <1>2, <1>3, HeadAndRest DEF Decided
  <2> QED
    BY <1>1, <1>2, <2>1, HeadAndRest DEF Decided
<1>7. NextOf(o) # BackOf(o)
  BY DEF NextOf, BackOf
<1>8. CASE Head(stack) = <<"destroy", o, {}>>
  <2>1. Arg(2) = {}
    BY <1>8 DEF Arg
  <2>2. mem' = [mem EXCEPT ![o] = "destroyed"] /\ stack' = Tail(stack) /\ UNCHANGED <<sp, wp>>
    BY <1>5, <2>1 DEF Destroy, Return
  <2>3. stack' = <<>> \o Tail(stack) /\ IsSeq(<<>>)
    <3>1. Tail(stack) \in Seq({stack[i] : i \in 1 .. Len(stack)})
      BY <1>1, <1>2 DEF IsSeq
    <3> QED
      BY <2>2, <3>1, ConcatEmptySeq, Lists
  <2>4. StackShape' /\ Stale' = Stale /\ IsSeq(stack')
    <3>1. \A i \in 1 .. Len(<<>>) : Cascade(i)'
      OBVIOUS
    <3> QED
      BY <1>1, <1>2, <2>2, <2>3, <3>1, ShapeStays
  <2>5. Counted'
    <3>1. \A h \in Objs : rc[h] \in Nat /\ wc[h] \in Nat
      BY <1>1 DEF Types
    <3>2. \A h \in Objs : /\ rc'[h] = rc[h] - Due("release", h) /\ wc'[h] = wc[h] - Due("releaseWeak", h)
      BY <1>4, <1>5, <3>1
    <3> QED
      BY <1>1, <1>2, <2>2, <2>3, <2>4, <3>2, CountedStays
  <2>6. \A h : ~In(<<>>, "destroy", h) /\ ~In(<<>>, "free", h) /\ ~InField(<<>>, h)
    BY DEF In, InField
  <2>7. ASSUME NEW h \in Objs, h # o PROVE Decided(h)'
    <3>1. mem'[h] = mem[h] /\ Head(stack)[2] # h
      BY <1>1, <1>8, <2>2, <2>7 DEF Types
    <3> QED
      BY <1>1, <1>2, <1>5, <2>2, <2>3, <2>6, <2>7, <3>1, DecidedElsewhere
  <2>8. Decided(o)'
    <3>1. /\ ~Pending("destroy", o)' /\ ~FieldLeft(o)'
          /\ Pending("free", o)' <=> Pending("free", o)
      BY <1>1, <1>2, <1>6, <1>8, <2>3, <2>6, RestStays, HeadAndRest
    <3>2. InOrder(o)'
      BY <1>1, <1>2, <1>6, <2>3, <2>6, OrderStays, SMTT(40)
    <3>3. mem'[o] = "destroyed"
      BY <1>1, <2>2 DEF Types
    <3> QED
      BY <1>1, <1>5, <1>6, <2>2, <3>1, <3>2, <3>3 DEF Decided, NextOf, BackOf
  <2>9. mem' \in [Objs -> {"unused", "live", "destroyed", "freed"}]
    BY <1>1, <2>2 DEF Types
  <2> QED
    BY <1>1, <1>5, <2>2, <2>4, <2>5, <2>7, <2>8, <2>9 DEF IInv, Types, IsSeq, NoFault
<1>9. CASE Head(stack) = <<"destroy", o, {NextOf(o)}>>
  <2> DEFINE q == sp[NextOf(o)]
             P == <<<<"release", q>>, <<"destroy", o, {}>>>>
  <2>1. Arg(2) = {NextOf(o)} /\ {NextOf(o)} \ {NextOf(o)} = {}
    BY <1>9 DEF Arg
  <2>2. stack' = P \o Tail(stack) /\ sp' = [sp EXCEPT ![NextOf(o)] = Gone] /\ UNCHANGED <<mem, wp>>
    BY <1>5, <1>7, <2>1 DEF Destroy, Push
  <2>3. IsSeq(P) /\ Len(P) = 2 /\ P[1] = <<"release", q>> /\ P[2] = <<"destroy", o, {}>>
    BY Lists
  <2> HIDE DEF P
  <2>4. NextOf(o) \in SpPlaces /\ q \in Objs \cup {NULL}
    <3>1. FieldLeft(o)
      BY <1>1, <1>2, <1>9, HeadAndRest
    <3> QED
      BY <1>1, <3>1, Names DEF Decided, Types
  <2>5. FieldEnds(o)
    BY <1>6, <2>2 DEF FieldEnds
  <2> HIDE DEF q
  <2>6. StackShape' /\ Stale' = Stale /\ IsSeq(stack')
    <3>1. \A i \in 1 .. Len(P) : stack'[i] = P[i]
      BY <1>1, <1>2, <2>2, <2>3, StackAfter
    <3>2. \A i \in 1 .. Len(P) : i = 1 \/ i = 2
      BY <2>3
    <3>3. \A i \in 1 .. Len(P) : Cascade(i)'
      BY <2>3, <2>4, <3>1, <3>2 DEF Cascade
    <3> QED
      BY <1>1, <1>2, <2>2, <2>3, <2>5, <3>3, ShapeStays
  <2>7. NextOf(o) \notin Stale
    <3>1. \A d \in SpPlaces : d \in Stale /\ Stale = {d} /\ Kept(d) => d # NextOf(o)
      <4> TAKE d \in SpPlaces
      <4> HAVE d \in Stale /\ Stale = {d} /\ Kept(d)
      <4>1. Kept(d)'
        BY <1>1, <2>5, KeptStays
      <4>2. sp'[NextOf(o)] = Gone
        BY <1>1, <2>2, <2>4 DEF Types
      <4> QED
        BY <4>1, <4>2 DEF Kept
    <3>2. \/ \E d \in SpPlaces : Stale = {d} /\ Kept(d)
          \/ \E w \in WpVars : Stale = {w}
      <4>1. \/ \E d \in SpPlaces : SetLeft(d) \/ \E p \in SpRoots : StoreLeft(d, p)
            \/ \E w \in WpVars : SetWeakLeft(w) \/ \E r \in Objs : StoreWeakLeft(w, r)
        BY <1>1, <1>2, CascadeRuns
      <4> QED
        BY <1>2, <4>1 DEF Stale, SetLeft, StoreLeft, SetWeakLeft, StoreWeakLeft
    <3> QED
      BY <2>4, <3>1, <3>2, PlacesApart DEF WpPlaces
  <2>8. Counted'
    <3>1. \A h : /\ Due("release", h)' = IF h = q THEN 1 ELSE 0
                 /\ Due("releaseWeak", h)' = 0
      <4>1. stack' # <<>> /\ Head(stack') = <<"release", q>>
        <5>1. Len(P) > 0
          BY <2>3
        <5>2. stack' # <<>>
          BY <1>1, <1>2, <2>2, <2>3, NextCall
        <5>3. Head(stack') = P[1]
          BY <1>1, <1>2, <2>2, <2>3, <5>1, NextCall
        <5> QED
          BY <2>3, <5>2, <5>3
      <4> QED
        BY <4>1 DEF Due
    <3>2. ASSUME NEW h \in Objs
          PROVE  /\ rc'[h] = Cardinality((SpTo(h) \ Stale)') + Due("release", h)'
                 /\ wc'[h] = Cardinality((WpTo(h) \ Stale)') + Due("releaseWeak", h)'
      <4>1. (WpTo(h) \ Stale)' = WpTo(h) \ Stale
        BY <2>2, <2>6 DEF WpTo
      <4>2. (SpTo(h) \ Stale)' = (SpTo(h) \ Stale) \ {NextOf(o)}
        <5>1. \A p \in SpPlaces : sp'[p] = IF p = NextOf(o) THEN Gone ELSE sp[p]
          BY <1>1, <2>2 DEF Types
        <5>2. h # Gone
          BY Names
        <5> QED
          BY <2>6, <5>1, <5>2 DEF SpTo
      <4>3. NextOf(o) \in SpTo(h) \ Stale <=> h = q
        BY <2>4, <2>7 DEF SpTo, q
      <4>4. /\ Cardinality(SpTo(h) \ Stale) \in Nat /\ Cardinality(WpTo(h) \ Stale) \in Nat
            /\ NextOf(o) \in SpTo(h) \ Stale =>
                   Cardinality((SpTo(h) \ Stale) \ {NextOf(o)}) = Cardinality(SpTo(h) \ Stale) - 1
        <5>1. SpTo(h) \ Stale \subseteq SpPlaces /\ WpTo(h) \ Stale \subseteq WpPlaces
          BY DEF SpTo, WpTo
        <5> QED
          BY <5>1, CountPlaces
      <4>5. /\ rc[h] = Cardinality(SpTo(h) \ Stale) + Due("release", h)
            /\ wc[h] = Cardinality(WpTo(h) \ Stale) + Due("releaseWeak", h)
        BY <1>1 DEF Counted
      <4>6. rc[h] = Cardinality(SpTo(h) \ Stale) /\ wc[h] = Cardinality(WpTo(h) \ Stale)
        BY <1>4, <4>4, <4>5
      <4>7. h # q => (SpTo(h) \ Stale) \ {NextOf(o)} = SpTo(h) \ Stale
        BY <4>3
      <4>8. CASE h = q
        <5>1. Due("release", h)' = 1 /\ Due("releaseWeak", h)' = 0
          BY <3>1, <4>8
        <5>2. Cardinality((SpTo(h) \ Stale)') = Cardinality(SpTo(h) \ Stale) - 1
          BY <4>2, <4>3, <4>4, <4>8
        <5>3. rc'[h] = rc[h] /\ wc'[h] = wc[h]
          BY <1>5
        <5>4. rc'[h] = Cardinality((SpTo(h) \ Stale)') + 1
          BY <4>4, <4>6, <5>2, <5>3
        <5>5. wc'[h] = Cardinality((WpTo(h) \ Stale)') + 0
          <6>1. Cardinality((WpTo(h) \ Stale)') = Cardinality(WpTo(h) \ Stale)
            BY <4>1
          <6> QED
            BY <4>4, <4>6, <5>3, <6>1
        <5> QED
          BY <5>1, <5>4, <5>5
      <4>9. CASE h # q
        <5>1. Due("release", h)' = 0 /\ Due("releaseWeak", h)' = 0
          BY <3>1, <4>9
        <5>2. rc'[h] = rc[h] /\ wc'[h] = wc[h]
          BY <1>5
        <5>3. Cardinality((SpTo(h) \ Stale)') = Cardinality(SpTo(h) \ Stale)
          BY <4>2, <4>7, <4>9
        <5>4. rc'[h] = Cardinality((SpTo(h) \ Stale)') + 0
          BY <4>4, <4>6, <5>2, <5>3
        <5>5. wc'[h] = Cardinality((WpTo(h) \ Stale)') + 0
          <6>1. Cardinality((WpTo(h) \ Stale)') = Cardinality(WpTo(h) \ Stale)
            BY <4>1
          <6> QED
            BY <4>4, <4>6, <5>2, <6>1
        <5> QED
          BY <5>1, <5>4, <5>5
      <4> QED
        BY <4>8, <4>9
    <3> QED
      BY <3>2 DEF Counted
  <2>9. \A h : /\ In(P, "destroy", h) <=> h = o
               /\ ~In(P, "free", h) /\ ~InField(P, h)
    BY <2>3 DEF In, InField
  <2>10. ASSUME NEW h \in Objs, h # o PROVE Decided(h)'
    <3>1. sp'[NextOf(h)] = sp[NextOf(h)] /\ Head(stack)[2] # h
      BY <1>1, <1>9, <2>2, <2>10, Names DEF Types
    <3> QED
      BY <1>1, <1>2, <1>5, <2>2, <2>3, <2>9, <2>10, <3>1, DecidedElsewhere
  <2>11. Decided(o)'
    <3>1. /\ Pending("destroy", o)' /\ ~FieldLeft(o)'
          /\ Pending("free", o)' <=> Pending("free", o)
      BY <1>1, <1>2, <1>6, <1>9, <2>2, <2>3, <2>9, RestStays, HeadAndRest
    <3>2. InOrder(o)'
      <4>1. \A i, j \in 1 .. Len(P) : i < j => i = 1 /\ P[i][1] = "release"
        BY <2>3
      <4> QED
        BY <1>1, <1>2, <1>6, <2>2, <2>3, <2>9, <4>1, OrderStays
    <3> QED
      BY <1>1, <1>5, <1>6, <2>2, <3>1, <3>2 DEF Decided, NextOf, BackOf
  <2>12. sp' \in [SpPlaces -> Objs \cup {NULL, Gone}]
    BY <1>1, <2>2 DEF Types
  <2> QED
    BY <1>1, <1>5, <2>2, <2>6, <2>8, <2>10, <2>11, <2>12 DEF IInv, Types, IsSeq, NoFault
<1> QED
  BY <1>3, <1>8, <1>9

-----------------------------------------------------------------------------
(* The calls of the statement itself, once its cascade is over.            *)

Own == {"store", "retain", "set", "storeWeak", "lock"}

LEMMA OwnCalls ==
    ASSUME IsSeq(stack), StackShape, stack # <<>>, Head(stack)[1] \in Own
    PROVE  /\ Head(stack)[1] = "store" =>
                  /\ Len(stack) = 2
                  /\ \E d \in SpPlaces, p \in SpRoots :
                         StoreLeft(d, p) /\ Head(stack) = <<"store", d, p>> /\ stack[2] = <<"retain", d>>
           /\ Head(stack)[1] # "store" => Len(stack) = 1 /\ Head(stack) = Bottom
           /\ Head(stack)[1] = "retain" => \E d \in SpPlaces : RetainLeft(d)
           /\ Head(stack)[1] = "set" =>
                  (\E d \in SpPlaces : SetLeft(d)) \/ (\E w \in WpVars : SetWeakLeft(w))
           /\ Head(stack)[1] = "storeWeak" => \E w \in WpVars, r \in Objs : StoreWeakLeft(w, r)
           /\ Head(stack)[1] = "lock" => \E x \in SpVars, o \in Objs \cup {NULL} : LockLeft(x, o)
<1> DEFINE n == Len(stack)
<1>1. n \in Nat \ {0} /\ Head(stack) = stack[1] /\ Bottom = stack[n]
  BY HeadAndRest DEF Bottom
<1>2. ~Cascade(1)
  BY <1>1 DEF Cascade, Own
<1>3. ASSUME Above(1) PROVE n = 1
  <2>1. \A k \in Nat \ {0} : k # 1 => 1 \in 1 .. k - 1
    OBVIOUS
  <2> QED
    BY <1>1, <1>2, <1>3, <2>1 DEF Above
<1>4. ASSUME Above(2) PROVE n = 2
  <2>1. \A k \in Nat \ {0} : k >= 2 /\ k # 2 => 1 \in 1 .. k - 2
    OBVIOUS
  <2> QED
    BY <1>1, <1>2, <1>4, <2>1 DEF Above
<1>5. ASSUME NEW d \in SpPlaces, SetLeft(d)
      PROVE  n = 1 /\ Head(stack)[1] = "set"
  <2>1. n = 1
    BY <1>3, <1>5 DEF SetLeft
  <2> QED
    BY <1>1, <1>5, <2>1 DEF SetLeft
<1>6. ASSUME NEW d \in SpPlaces, RetainLeft(d)
      PROVE  n = 1 /\ Head(stack)[1] = "retain"
  BY <1>1, <1>6 DEF RetainLeft
<1>7. ASSUME NEW d \in SpPlaces, NEW p \in SpRoots, StoreLeft(d, p)
      PROVE  n = 2 /\ Head(stack) = <<"store", d, p>> /\ stack[2] = <<"retain", d>>
  <2>1. n = 2 /\ n - 1 = 1
    BY <1>4, <1>7 DEF StoreLeft
  <2> QED
    BY <1>1, <1>7, <2>1 DEF StoreLeft
<1>8. ASSUME NEW w \in WpVars, SetWeakLeft(w)
      PROVE  n = 1 /\ Head(stack)[1] = "set"
  <2>1. n = 1
    BY <1>3, <1>8 DEF SetWeakLeft
  <2> QED
    BY <1>1, <1>8, <2>1 DEF SetWeakLeft
<1>9. ASSUME NEW w \in WpVars, NEW r \in Objs, StoreWeakLeft(w, r)
      PROVE  n = 1 /\ Head(stack)[1] = "storeWeak"
  <2>1. n = 1
    BY <1>3, <1>9 DEF StoreWeakLeft
  <2>2. Bottom = <<"storeWeak", w, r>>
    BY <1>9 DEF StoreWeakLeft
  <2> QED
    BY <1>1, <2>1, <2>2
<1>10. ASSUME NEW x \in SpVars, NEW o \in Objs \cup {NULL}, LockLeft(x, o)
       PROVE  n = 1 /\ Head(stack)[1] = "lock"
  BY <1>1, <1>10 DEF LockLeft
<1>11. CASE \E d \in SpPlaces : SetLeft(d)
  BY <1>1, <1>5, <1>11
<1>12. CASE \E d \in SpPlaces : RetainLeft(d)
  BY <1>1, <1>6, <1>12
<1>13. CASE \E d \in SpPlaces : \E p \in SpRoots : StoreLeft(d, p)
  BY <1>1, <1>7, <1>13
<1>14. CASE \E w \in WpVars : SetWeakLeft(w)
  BY <1>1, <1>8, <1>14
<1>15. CASE \E w \in WpVars : \E r \in Objs : StoreWeakLeft(w, r)
  BY <1>1, <1>9, <1>15
<1>16. CASE \E x \in SpVars, o \in Objs \cup {NULL} : LockLeft(x, o)
  BY <1>1, <1>10, <1>16
<1> QED
  BY <1>11, <1>12, <1>13, <1>14, <1>15, <1>16 DEF StackShape

\* Nothing is being destroyed: the counters alone decide.
Quiet == \A i \in 1 .. Len(stack) : stack[i][1] \notin {"destroy", "free"}
ByCounters(o) ==
    /\ mem[o] = "live" <=> rc[o] > 0
    /\ mem[o] = "unused" => rc[o] = 0 /\ wc[o] = 0 /\ sp[NextOf(o)] = Gone
    /\ mem[o] # "unused" => (mem[o] = "freed" <=> rc[o] = 0 /\ wc[o] = 0)
    /\ rc[o] > 0 => sp[NextOf(o)] # Gone
    /\ wp[BackOf(o)] \in {NULL, Gone}

LEMMA QuietDecides ==
    ASSUME NEW o
    PROVE  /\ Quiet => (Decided(o) <=> ByCounters(o))
           /\ Quiet' => (Decided(o)' <=> ByCounters(o)')
<1>1. ASSUME Quiet
      PROVE  ~Pending("destroy", o) /\ ~Pending("free", o) /\ ~FieldLeft(o) /\ InOrder(o)
  BY <1>1 DEF Quiet, Pending, FieldLeft, InOrder
<1>2. ASSUME Quiet'
      PROVE  /\ ~Pending("destroy", o)' /\ ~Pending("free", o)' /\ ~FieldLeft(o)' /\ InOrder(o)'
  BY <1>2 DEF Quiet, Pending, FieldLeft, InOrder, NextOf
<1>3. Quiet => (Decided(o) <=> ByCounters(o))
  BY <1>1 DEF Decided, ByCounters
<1>4. Quiet' => (Decided(o)' <=> ByCounters(o)')
  BY <1>2 DEF Decided, ByCounters, NextOf, BackOf
<1> QED
  BY <1>3, <1>4

\* The last call of a statement ends it.
LEMMA Ends ==
    ASSUME IsSeq(stack), stack # <<>>, Head(stack)[1] \in Own, Len(stack) = 1, stack' = Tail(stack)
    PROVE  /\ Quiet /\ Quiet' /\ stack' = <<>> /\ IsSeq(stack') /\ StackShape' /\ Stale' = {}
           /\ \A o : Due("release", o) = 0 /\ Due("releaseWeak", o) = 0
           /\ \A o : Due("release", o)' = 0 /\ Due("releaseWeak", o)' = 0
<1>1. Head(stack) = stack[1]
  BY HeadAndRest
<1>2. Quiet
  <2>1. \A i \in 1 .. Len(stack) : i = 1
    OBVIOUS
  <2> QED
    BY <1>1, <2>1 DEF Quiet, Own
<1>3. stack' = <<>>
  <2>1. stack \in Seq({stack[i] : i \in 1 .. Len(stack)})
    BY DEF IsSeq
  <2>2. Len(stack') = 0 /\ stack' \in Seq({stack[i] : i \in 1 .. Len(stack)})
    BY <2>1
  <2> QED
    BY <2>2, EmptySeq
<1>4. IsSeq(stack') /\ Len(stack') = 0
  BY <1>3, Lists
<1>5. Quiet'
  <2>1. \A i \in 1 .. Len(stack') : FALSE
    <3> DEFINE k == Len(stack')
    <3>1. k = 0
      BY <1>4
    <3> HIDE DEF k
    <3>2. \A i \in 1 .. k : FALSE
      BY <3>1
    <3> QED
      BY <3>2 DEF k
  <2> QED
    BY <2>1 DEF Quiet
<1>6. StackShape' /\ Stale' = {}
  BY <1>3 DEF StackShape, Stale
<1>7. \A o : Due("release", o) = 0 /\ Due("releaseWeak", o) = 0
  BY DEF Due, Own
<1>8. \A o : Due("release", o)' = 0 /\ Due("releaseWeak", o)' = 0
  BY <1>3 DEF Due
<1> QED
  BY <1>2, <1>3, <1>4, <1>5, <1>6, <1>7, <1>8

\* The counters are the numbers of places when no reference is due.
LEMMA CountedNow ==
    ASSUME Counted, NEW o \in Objs, Due("release", o) = 0, Due("releaseWeak", o) = 0
    PROVE  rc[o] = Cardinality(Strong(o)) /\ wc[o] = Cardinality(Weak(o))
<1>1. /\ rc[o] = Cardinality(Strong(o)) + 0
      /\ wc[o] = Cardinality(Weak(o)) + 0
  BY DEF Counted, Strong, Weak
<1>2. Cardinality(Strong(o)) \in Nat /\ Cardinality(Weak(o)) \in Nat
  BY StrongAndWeak
<1> QED
  BY <1>1, <1>2

LEMMA CountedThen ==
    ASSUME \A o \in Objs : Due("release", o)' = 0 /\ Due("releaseWeak", o)' = 0,
           rc' \in [Objs -> Nat], wc' \in [Objs -> Nat],
           \A o \in Objs : rc'[o] = Cardinality(Strong(o)') /\ wc'[o] = Cardinality(Weak(o)')
    PROVE  Counted'
<1>1. ASSUME NEW o \in Objs
      PROVE  /\ rc'[o] = Cardinality((SpTo(o) \ Stale)') + Due("release", o)'
             /\ wc'[o] = Cardinality((WpTo(o) \ Stale)') + Due("releaseWeak", o)'
  <2>1. rc'[o] = Cardinality((SpTo(o) \ Stale)') /\ wc'[o] = Cardinality((WpTo(o) \ Stale)')
    BY DEF Strong, Weak
  <2>2. rc'[o] = rc'[o] + 0 /\ wc'[o] = wc'[o] + 0
    OBVIOUS
  <2>3. Due("release", o)' = 0 /\ Due("releaseWeak", o)' = 0
    OBVIOUS
  <2> QED
    BY <2>1, <2>2, <2>3
<1> QED
  BY <1>1 DEF Counted

LEMMA StoreKeeps ==
    ASSUME Plain, IInv, Store
    PROVE  IInv'
<1>1. /\ Types /\ Counted /\ StackShape /\ IsSeq(stack) /\ ~fault
      /\ \A h \in Objs : Decided(h)
  BY DEF IInv, Types, IsSeq, NoFault
<1>2. stack # <<>> /\ Head(stack)[1] = "store" /\ Head(stack)[1] \in Own
  BY DEF Store, Called, Own
<1>3. Len(stack) = 2
  BY <1>1, <1>2, OwnCalls
<1>4. PICK d \in SpPlaces, p \in SpRoots :
          StoreLeft(d, p) /\ Head(stack) = <<"store", d, p>> /\ stack[2] = <<"retain", d>>
  BY <1>1, <1>2, OwnCalls
<1>5. /\ sp' = [sp EXCEPT ![d] = sp[p]] /\ UNCHANGED <<mem, rc, wc, wp, fault>>
      /\ stack' = Tail(stack)
  <2>1. Arg(1) = d /\ Arg(2) = p
    BY <1>4 DEF Arg
  <2> QED
    BY <2>1 DEF Store, Return, counters
<1>6. stack' = <<<<"retain", d>>>>
  <2>1. stack \in Seq({stack[i] : i \in 1 .. Len(stack)})
    BY <1>1 DEF IsSeq
  <2>2. Len(stack') = 1 /\ stack'[1] = stack[2] /\ stack' \in Seq({stack[i] : i \in 1 .. Len(stack)})
    BY <1>2, <1>3, <1>5, <2>1, SMTT(40)
  <2>3. \A S : \A s \in Seq(S) : Len(s) = 1 => s = <<s[1]>>
    OBVIOUS
  <2> QED
    BY <1>4, <2>2, <2>3
<1>7. IsSeq(stack') /\ Len(stack') = 1 /\ stack' # <<>> /\ Bottom' = <<"retain", d>> /\ Head(stack') = <<"retain", d>>
  BY <1>6, Lists DEF Bottom
<1>8. Stale = {d} /\ Stale' = {d}
  BY <1>2, <1>4, <1>7 DEF StoreLeft, Stale
<1>9. p \in SpPlaces /\ p # d /\ sp[p] # Gone /\ sp[d] # Gone
  BY <1>4 DEF StoreLeft, Kept, SpPlaces
<1>10. \A e \in SpPlaces : sp'[e] = IF e = d THEN sp[p] ELSE sp[e]
  BY <1>1, <1>5 DEF Types
<1>11. Quiet /\ Quiet'
  <2>1. Head(stack) = stack[1]
    BY <1>1, <1>2, HeadAndRest
  <2>2. \A i \in 1 .. Len(stack) : i = 1 \/ i = 2
    BY <1>3
  <2>3. Quiet
    BY <1>4, <2>1, <2>2 DEF Quiet
  <2>4. \A i \in 1 .. Len(stack') : stack'[i] = <<"retain", d>>
    BY <1>6
  <2> QED
    BY <2>3, <2>4 DEF Quiet
<1>12. ASSUME NEW h \in Objs PROVE Decided(h)'
  <2>1. ByCounters(h)
    BY <1>1, <1>11, QuietDecides
  <2>2. sp'[NextOf(h)] = Gone <=> sp[NextOf(h)] = Gone
    BY <1>9, <1>10, Names
  <2>3. ByCounters(h)'
    BY <1>5, <2>1, <2>2 DEF ByCounters, NextOf, BackOf
  <2> QED
    BY <1>11, <2>3, QuietDecides
<1>13. \A h \in Objs : /\ Due("release", h) = 0 /\ Due("releaseWeak", h) = 0
                       /\ Due("release", h)' = 0 /\ Due("releaseWeak", h)' = 0
  BY <1>2, <1>7 DEF Due
<1>14. Counted'
  <2>1. ASSUME NEW h \in Objs
        PROVE  Strong(h)' = Strong(h) /\ Weak(h)' = Weak(h)
    BY <1>5, <1>8, <1>10 DEF Strong, Weak, SpTo, WpTo
  <2>2. ASSUME NEW h \in Objs
        PROVE  rc'[h] = Cardinality(Strong(h)') /\ wc'[h] = Cardinality(Weak(h)')
    <3>1. rc[h] = Cardinality(Strong(h)) /\ wc[h] = Cardinality(Weak(h))
      BY <1>1, <1>13, CountedNow
    <3> QED
      BY <1>5, <2>1, <3>1
  <2>3. rc' \in [Objs -> Nat] /\ wc' \in [Objs -> Nat]
    BY <1>1, <1>5 DEF Types
  <2> QED
    BY <1>13, <2>2, <2>3, CountedThen
<1>15. StackShape'
  <2>1. sp'[d] # Gone /\ (sp'[d] # NULL => rc'[sp'[d]] > 0)
    <3>1. sp'[d] = sp[p] /\ sp[p] \in Objs \cup {NULL}
      BY <1>1, <1>9, <1>10 DEF Types
    <3>2. ASSUME sp[p] \in Objs PROVE rc[sp[p]] > 0
      <4> DEFINE o == sp[p]
      <4>1. p \in Strong(o)
        BY <1>8, <1>9 DEF Strong, SpTo
      <4> HIDE DEF o
      <4>2. o \in Objs
        BY <3>2 DEF o
      <4>3. rc[o] = Cardinality(Strong(o))
        BY <1>1, <1>13, <4>2, CountedNow
      <4>4. Cardinality(Strong(o)) \in Nat /\ Cardinality(Strong(o)) # 0
        BY <4>1, StrongAndWeak
      <4> QED
        BY <4>3, <4>4 DEF o
    <3> QED
      BY <1>5, <1>9, <3>1, <3>2
  <2>2. RetainLeft(d)'
    BY <1>7, <2>1 DEF RetainLeft
  <2> QED
    BY <2>2 DEF StackShape
<1>16. sp' \in [SpPlaces -> Objs \cup {NULL, Gone}]
  BY <1>1, <1>5, <1>9 DEF Types
<1> QED
  BY <1>1, <1>5, <1>7, <1>12, <1>14, <1>15, <1>16 DEF IInv, Types, IsSeq, NoFault

LEMMA RetainKeeps ==
    ASSUME Plain, IInv, Retain
    PROVE  IInv'
<1>1. /\ Types /\ Counted /\ StackShape /\ IsSeq(stack) /\ ~fault
      /\ \A h \in Objs : Decided(h)
  BY DEF IInv, Types, IsSeq, NoFault
<1>2. stack # <<>> /\ Head(stack)[1] = "retain" /\ Head(stack)[1] \in Own
  BY DEF Retain, Called, Own
<1>3. Len(stack) = 1 /\ Head(stack) = Bottom
  BY <1>1, <1>2, OwnCalls
<1>4. PICK d \in SpPlaces : RetainLeft(d)
  BY <1>1, <1>2, OwnCalls
<1>5. /\ rc' = IF sp[d] = NULL THEN rc ELSE [rc EXCEPT ![sp[d]] = @ + 1]
      /\ UNCHANGED <<mem, wc, sp, wp, fault>> /\ stack' = Tail(stack)
  <2>1. Arg(1) = d
    BY <1>3, <1>4 DEF Arg, RetainLeft
  <2> QED
    BY <2>1 DEF Retain, Return
<1>6. /\ Quiet /\ Quiet' /\ IsSeq(stack') /\ StackShape' /\ Stale' = {}
      /\ \A h \in Objs : /\ Due("release", h) = 0 /\ Due("releaseWeak", h) = 0
                         /\ Due("release", h)' = 0 /\ Due("releaseWeak", h)' = 0
  BY <1>1, <1>2, <1>3, <1>5, Ends
<1>7. Stale = {d}
  BY <1>2, <1>4 DEF RetainLeft, Stale
<1>8. PICK o : o = sp[d]
  OBVIOUS
<1>9. /\ o \in Objs \cup {NULL} /\ (o # NULL => rc[o] > 0) /\ NULL \notin Objs
      /\ rc' = IF o = NULL THEN rc ELSE [rc EXCEPT ![o] = @ + 1]
  BY <1>1, <1>4, <1>5, <1>8, Names DEF Types, RetainLeft
<1>10. /\ rc' \in [Objs -> Nat] /\ wc' \in [Objs -> Nat]
       /\ \A h \in Objs : rc[h] \in Nat /\ rc'[h] = IF h = o THEN rc[h] + 1 ELSE rc[h]
  <2>1. rc \in [Objs -> Nat] /\ wc \in [Objs -> Nat]
    BY <1>1 DEF Types
  <2>2. CASE o = NULL
    BY <1>5, <1>9, <2>1, <2>2
  <2>3. CASE o # NULL
    BY <1>5, <1>9, <2>1, <2>3
  <2> QED
    BY <2>2, <2>3
<1>11. ASSUME NEW h \in Objs PROVE Decided(h)'
  <2>1. ByCounters(h)
    BY <1>1, <1>6, QuietDecides
  <2>2. rc[h] \in Nat /\ rc'[h] \in Nat /\ (rc'[h] > 0 <=> rc[h] > 0) /\ (rc'[h] = 0 <=> rc[h] = 0)
    BY <1>9, <1>10
  <2>3. ByCounters(h)'
    BY <1>5, <2>1, <2>2 DEF ByCounters, NextOf, BackOf
  <2> QED
    BY <1>6, <2>3, QuietDecides
<1>12. Counted'
  <2>1. ASSUME NEW h \in Objs
        PROVE  rc'[h] = Cardinality(Strong(h)') /\ wc'[h] = Cardinality(Weak(h)')
    <3>1. rc[h] = Cardinality(Strong(h)) /\ wc[h] = Cardinality(Weak(h))
      BY <1>1, <1>6, CountedNow
    <3>2. Weak(h)' = Weak(h)
      BY <1>5, <1>6, <1>7, PlacesApart DEF Weak, WpTo
    <3>3. CASE h = o
      <4>1. Strong(h)' = Strong(h) \cup {d} /\ d \notin Strong(h)
        BY <1>5, <1>6, <1>7, <1>8, <3>3 DEF Strong, SpTo
      <4>2. Cardinality(Strong(h) \cup {d}) = Cardinality(Strong(h)) + 1
        BY <4>1, StrongAndWeak, CountPlaces
      <4> QED
        BY <1>5, <1>10, <3>1, <3>2, <3>3, <4>1, <4>2
    <3>4. CASE h # o
      <4>1. Strong(h)' = Strong(h)
        BY <1>5, <1>6, <1>7, <1>8, <3>4 DEF Strong, SpTo
      <4> QED
        BY <1>5, <1>10, <3>1, <3>2, <3>4, <4>1
    <3> QED
      BY <3>3, <3>4
  <2> QED
    BY <1>6, <1>10, <2>1, CountedThen
<1> QED
  BY <1>1, <1>5, <1>6, <1>10, <1>11, <1>12 DEF IInv, Types, IsSeq, NoFault

LEMMA SetKeeps ==
    ASSUME Plain, IInv, Set
    PROVE  IInv'
<1>1. /\ Types /\ Counted /\ StackShape /\ IsSeq(stack) /\ ~fault
      /\ \A h \in Objs : Decided(h)
  BY DEF IInv, Types, IsSeq, NoFault
<1>2. stack # <<>> /\ Head(stack)[1] = "set" /\ Head(stack)[1] \in Own
  BY DEF Set, Called, Own
<1>3. Len(stack) = 1 /\ Head(stack) = Bottom
  BY <1>1, <1>2, OwnCalls
<1>4. stack' = Tail(stack) /\ UNCHANGED <<mem, rc, wc, fault>>
  BY DEF Set, Return, counters
<1>5. /\ Quiet /\ Quiet' /\ IsSeq(stack') /\ StackShape' /\ Stale' = {}
      /\ \A h \in Objs : /\ Due("release", h) = 0 /\ Due("releaseWeak", h) = 0
                         /\ Due("release", h)' = 0 /\ Due("releaseWeak", h)' = 0
  BY <1>1, <1>2, <1>3, <1>4, Ends
<1>6. rc \in [Objs -> Nat] /\ wc \in [Objs -> Nat] /\ rc' = rc /\ wc' = wc
  BY <1>1, <1>4 DEF Types
<1>7. (\E d \in SpPlaces : SetLeft(d)) \/ (\E w \in WpVars : SetWeakLeft(w))
  BY <1>1, <1>2, OwnCalls
<1>8. CASE \E d \in SpPlaces : SetLeft(d)
  <2>1. PICK d \in SpPlaces : SetLeft(d)
    BY <1>8
  <2>2. PICK v \in {NULL, Gone} : Bottom = <<"set", d, v>> /\ (v = Gone => d \in SpRoots)
    BY <2>1, PlacesApart DEF SetLeft
  <2>3. sp' = [sp EXCEPT ![d] = v] /\ wp' = wp
    <3>1. Arg(1) = d /\ Arg(2) = v
      BY <1>3, <2>2 DEF Arg
    <3> QED
      BY <3>1, PlacesApart DEF Set
  <2>4. Stale = {d} /\ sp[d] # Gone /\ v \in {NULL, Gone} /\ v \notin Objs
    BY <1>2, <2>1, <2>2, Names DEF Stale, SetLeft, Kept
  <2>5. \A e \in SpPlaces : sp'[e] = IF e = d THEN v ELSE sp[e]
    BY <1>1, <2>3 DEF Types
  <2>6. ASSUME NEW h \in Objs PROVE Decided(h)'
    <3>1. ByCounters(h)
      BY <1>1, <1>5, QuietDecides
    <3>2. sp'[NextOf(h)] = Gone <=> sp[NextOf(h)] = Gone
      BY <2>2, <2>4, <2>5, Names, PlacesApart
    <3>3. ByCounters(h)'
      BY <1>4, <2>3, <3>1, <3>2 DEF ByCounters, NextOf, BackOf
    <3> QED
      BY <1>5, <3>3, QuietDecides
  <2>7. Counted'
    <3>1. ASSUME NEW h \in Objs
          PROVE  Strong(h)' = Strong(h) /\ Weak(h)' = Weak(h)
      BY <1>5, <2>3, <2>4, <2>5, PlacesApart DEF Strong, Weak, SpTo, WpTo
    <3>2. ASSUME NEW h \in Objs
          PROVE  rc'[h] = Cardinality(Strong(h)') /\ wc'[h] = Cardinality(Weak(h)')
      <4>1. rc[h] = Cardinality(Strong(h)) /\ wc[h] = Cardinality(Weak(h))
        BY <1>1, <1>5, CountedNow
      <4> QED
        BY <1>6, <3>1, <4>1
    <3> QED
      BY <1>5, <1>6, <3>2, CountedThen
  <2>8. sp' \in [SpPlaces -> Objs \cup {NULL, Gone}]
    BY <1>1, <2>3 DEF Types
  <2> QED
    BY <1>1, <1>4, <1>5, <2>3, <2>6, <2>7, <2>8 DEF IInv, Types, IsSeq, NoFault
<1>9. CASE \E w \in WpVars : SetWeakLeft(w)
  <2>1. PICK w \in WpVars : SetWeakLeft(w)
    BY <1>9
  <2>2. PICK v \in {NULL, Gone} : Bottom = <<"set", w, v>>
    BY <2>1 DEF SetWeakLeft
  <2>3. wp' = [wp EXCEPT ![w] = v] /\ sp' = sp /\ w \in WpPlaces
    <3>1. Arg(1) = w /\ Arg(2) = v
      BY <1>3, <2>2 DEF Arg
    <3> QED
      BY <3>1, PlacesApart DEF Set, WpPlaces
  <2>4. Stale = {w} /\ v \notin Objs
    BY <1>2, <2>2, Names DEF Stale
  <2>5. \A e \in WpPlaces : wp'[e] = IF e = w THEN v ELSE wp[e]
    BY <1>1, <2>3 DEF Types
  <2>6. ASSUME NEW h \in Objs PROVE Decided(h)'
    <3>1. ByCounters(h)
      BY <1>1, <1>5, QuietDecides
    <3>2. wp'[BackOf(h)] = wp[BackOf(h)]
      BY <2>5, Names
    <3>3. ByCounters(h)'
      BY <1>4, <2>3, <3>1, <3>2 DEF ByCounters, NextOf, BackOf
    <3> QED
      BY <1>5, <3>3, QuietDecides
  <2>7. Counted'
    <3>1. ASSUME NEW h \in Objs
          PROVE  Strong(h)' = Strong(h) /\ Weak(h)' = Weak(h)
      BY <1>5, <2>3, <2>4, <2>5, PlacesApart DEF Strong, Weak, SpTo, WpTo
    <3>2. ASSUME NEW h \in Objs
          PROVE  rc'[h] = Cardinality(Strong(h)') /\ wc'[h] = Cardinality(Weak(h)')
      <4>1. rc[h] = Cardinality(Strong(h)) /\ wc[h] = Cardinality(Weak(h))
        BY <1>1, <1>5, CountedNow
      <4> QED
        BY <1>6, <3>1, <4>1
    <3> QED
      BY <1>5, <1>6, <3>2, CountedThen
  <2>8. wp' \in [WpPlaces -> Objs \cup {NULL, Gone}]
    BY <1>1, <2>3 DEF Types
  <2> QED
    BY <1>1, <1>4, <1>5, <2>3, <2>6, <2>7, <2>8 DEF IInv, Types, IsSeq, NoFault
<1> QED
  BY <1>7, <1>8, <1>9

\* An object that a place other than the stale one holds is alive.
LEMMA HeldLives ==
    ASSUME IInv, NEW p \in SpPlaces, p \notin Stale, sp[p] \in Objs
    PROVE  rc[sp[p]] > 0 /\ mem[sp[p]] = "live"
<1> DEFINE o == sp[p]
<1>1. o \in Objs /\ p \in Strong(o)
  BY DEF Strong, SpTo
<1> HIDE DEF o
<1>2. rc[o] = Cardinality(Strong(o)) + Due("release", o) /\ rc[o] \in Nat
  BY <1>1 DEF IInv, Counted, Types, Strong
<1>3. Cardinality(Strong(o)) \in Nat \ {0} /\ Due("release", o) \in {0, 1}
  BY <1>1, StrongAndWeak
<1>4. rc[o] > 0
  BY <1>2, <1>3
<1>5. mem[o] = "live"
  BY <1>1, <1>4 DEF IInv, Decided
<1> QED
  BY <1>4, <1>5 DEF o

LEMMA StoreWeakKeeps ==
    ASSUME Plain, IInv, StoreWeak
    PROVE  IInv'
<1>1. /\ Types /\ Counted /\ StackShape /\ IsSeq(stack) /\ ~fault
      /\ \A h \in Objs : Decided(h)
  BY DEF IInv, Types, IsSeq, NoFault
<1>2. stack # <<>> /\ Head(stack)[1] = "storeWeak" /\ Head(stack)[1] \in Own
  BY DEF StoreWeak, Called, Own
<1>3. Len(stack) = 1 /\ Head(stack) = Bottom
  BY <1>1, <1>2, OwnCalls
<1>4. PICK w \in WpVars, r \in Objs : StoreWeakLeft(w, r)
  BY <1>1, <1>2, OwnCalls
<1>5. Arg(1) = w /\ Arg(2) = r /\ w \in WpPlaces /\ Allocated(r)
  <2>1. Head(stack) = <<"storeWeak", w, r>>
    BY <1>3, <1>4 DEF StoreWeakLeft
  <2>2. Defined(<<"storeWeak", w, r>>)
    BY <2>1 DEF StoreWeak, Called
  <2> QED
    BY <2>1, <2>2 DEF Arg, WpPlaces, Defined
<1>6. /\ wp' = [wp EXCEPT ![w] = r] /\ wc' = [wc EXCEPT ![r] = @ + 1]
      /\ UNCHANGED <<mem, rc, sp, fault>> /\ stack' = Tail(stack)
  BY <1>5 DEF StoreWeak, Return
<1>7. /\ Quiet /\ Quiet' /\ IsSeq(stack') /\ StackShape' /\ Stale' = {}
      /\ \A h \in Objs : /\ Due("release", h) = 0 /\ Due("releaseWeak", h) = 0
                         /\ Due("release", h)' = 0 /\ Due("releaseWeak", h)' = 0
  BY <1>1, <1>2, <1>3, <1>6, Ends
<1>8. Stale = {w}
  BY <1>2, <1>4 DEF StoreWeakLeft, Stale
<1>9. \A e \in WpPlaces : wp'[e] = IF e = w THEN r ELSE wp[e]
  BY <1>1, <1>6 DEF Types
<1>10. /\ rc' \in [Objs -> Nat] /\ wc' \in [Objs -> Nat]
       /\ \A h \in Objs : wc[h] \in Nat /\ wc'[h] = IF h = r THEN wc[h] + 1 ELSE wc[h]
  <2>1. rc \in [Objs -> Nat] /\ wc \in [Objs -> Nat]
    BY <1>1 DEF Types
  <2> QED
    BY <1>6, <2>1
<1>11. ASSUME NEW h \in Objs PROVE Decided(h)'
  <2>1. ByCounters(h)
    BY <1>1, <1>7, QuietDecides
  <2>2. wp'[BackOf(h)] = wp[BackOf(h)]
    BY <1>9, Names, <1>4
  <2>3. CASE h = r
    <3>1. wc'[h] # 0 /\ mem[h] \in {"live", "destroyed"}
      BY <1>5, <1>10, <2>3 DEF Allocated
    <3>2. ByCounters(h)'
      BY <1>6, <2>1, <2>2, <3>1 DEF ByCounters, NextOf, BackOf
    <3> QED
      BY <1>7, <3>2, QuietDecides
  <2>4. CASE h # r
    <3>1. wc'[h] = wc[h]
      BY <1>10, <2>4
    <3>2. ByCounters(h)'
      BY <1>6, <2>1, <2>2, <3>1 DEF ByCounters, NextOf, BackOf
    <3> QED
      BY <1>7, <3>2, QuietDecides
  <2> QED
    BY <2>3, <2>4
<1>12. Counted'
  <2>1. ASSUME NEW h \in Objs
        PROVE  rc'[h] = Cardinality(Strong(h)') /\ wc'[h] = Cardinality(Weak(h)')
    <3>1. rc[h] = Cardinality(Strong(h)) /\ wc[h] = Cardinality(Weak(h))
      BY <1>1, <1>7, CountedNow
    <3>2. Strong(h)' = Strong(h)
      BY <1>5, <1>6, <1>7, <1>8, PlacesApart DEF Strong, SpTo
    <3>3. CASE h = r
      <4>1. Weak(h)' = Weak(h) \cup {w} /\ w \notin Weak(h)
        BY <1>5, <1>7, <1>8, <1>9, <3>3 DEF Weak, WpTo
      <4>2. Cardinality(Weak(h) \cup {w}) = Cardinality(Weak(h)) + 1
        BY <4>1, StrongAndWeak, CountPlaces
      <4> QED
        BY <1>6, <1>10, <3>1, <3>2, <3>3, <4>1, <4>2
    <3>4. CASE h # r
      <4>1. Weak(h)' = Weak(h)
        BY <1>5, <1>7, <1>8, <1>9, <3>4 DEF Weak, WpTo
      <4> QED
        BY <1>6, <1>10, <3>1, <3>2, <3>4, <4>1
    <3> QED
      BY <3>3, <3>4
  <2> QED
    BY <1>7, <1>10, <2>1, CountedThen
<1>13. wp' \in [WpPlaces -> Objs \cup {NULL, Gone}]
  BY <1>1, <1>5, <1>6 DEF Types
<1> QED
  BY <1>1, <1>6, <1>7, <1>10, <1>11, <1>12, <1>13 DEF IInv, Types, IsSeq, NoFault

LEMMA LockKeeps ==
    ASSUME Plain, IInv, Lock
    PROVE  IInv'
<1>1. /\ Types /\ Counted /\ StackShape /\ IsSeq(stack) /\ ~fault
      /\ \A h \in Objs : Decided(h)
  BY DEF IInv, Types, IsSeq, NoFault
<1>2. stack # <<>> /\ Head(stack)[1] = "lock" /\ Head(stack)[1] \in Own
  BY DEF Lock, Called, Own
<1>3. Len(stack) = 1 /\ Head(stack) = Bottom
  BY <1>1, <1>2, OwnCalls
<1>4. PICK x \in SpVars, o \in Objs \cup {NULL} : LockLeft(x, o)
  BY <1>1, <1>2, OwnCalls
<1>5. Arg(1) = x /\ Arg(2) = o /\ sp[x] = Gone /\ x \in SpRoots /\ x \in SpPlaces /\ NULL \notin Objs
  BY <1>3, <1>4, Names DEF Arg, LockLeft, SpRoots, SpPlaces
<1>6. UNCHANGED <<mem, wc, wp, fault>> /\ stack' = Tail(stack)
  BY DEF Lock, Return
<1>7. PICK v \in Objs \cup {NULL} :
          /\ sp' = [sp EXCEPT ![x] = v]
          /\ rc' = IF v = NULL THEN rc ELSE [rc EXCEPT ![v] = @ + 1]
          /\ v # NULL => rc[v] > 0
  <2>1. CASE o # NULL /\ LockStrongSucceeds(rc[o])
    <3>1. rc[o] \in Nat
      BY <1>1, <2>1 DEF Types
    <3> QED
      BY <1>4, <1>5, <2>1, <3>1 DEF Lock, LockStrongSucceeds
  <2>2. CASE ~(o # NULL /\ LockStrongSucceeds(rc[o]))
    BY <1>5, <2>2 DEF Lock
  <2> QED
    BY <2>1, <2>2
<1>8. /\ Quiet /\ Quiet' /\ IsSeq(stack') /\ StackShape' /\ Stale' = {}
      /\ \A h \in Objs : /\ Due("release", h) = 0 /\ Due("releaseWeak", h) = 0
                         /\ Due("release", h)' = 0 /\ Due("releaseWeak", h)' = 0
  BY <1>1, <1>2, <1>3, <1>6, Ends
<1>9. Stale = {}
  BY <1>2, <1>3 DEF Stale
<1>10. \A e \in SpPlaces : sp'[e] = IF e = x THEN v ELSE sp[e]
  BY <1>1, <1>7 DEF Types
<1>11. /\ rc' \in [Objs -> Nat] /\ wc' \in [Objs -> Nat]
       /\ \A h \in Objs : rc[h] \in Nat /\ rc'[h] = IF h = v THEN rc[h] + 1 ELSE rc[h]
  <2>1. rc \in [Objs -> Nat] /\ wc \in [Objs -> Nat]
    BY <1>1 DEF Types
  <2>2. CASE v = NULL
    BY <1>5, <1>6, <1>7, <2>1, <2>2
  <2>3. CASE v # NULL
    BY <1>6, <1>7, <2>1, <2>3
  <2> QED
    BY <2>2, <2>3
<1>12. ASSUME NEW h \in Objs PROVE Decided(h)'
  <2>1. ByCounters(h)
    BY <1>1, <1>8, QuietDecides
  <2>2. rc[h] \in Nat /\ rc'[h] \in Nat /\ (rc'[h] > 0 <=> rc[h] > 0) /\ (rc'[h] = 0 <=> rc[h] = 0)
    BY <1>5, <1>7, <1>11
  <2>3. sp'[NextOf(h)] = sp[NextOf(h)]
    BY <1>5, <1>10, Names
  <2>4. ByCounters(h)'
    BY <1>6, <2>1, <2>2, <2>3 DEF ByCounters, NextOf, BackOf
  <2> QED
    BY <1>8, <2>4, QuietDecides
<1>13. Counted'
  <2>1. ASSUME NEW h \in Objs
        PROVE  rc'[h] = Cardinality(Strong(h)') /\ wc'[h] = Cardinality(Weak(h)')
    <3>1. rc[h] = Cardinality(Strong(h)) /\ wc[h] = Cardinality(Weak(h)) /\ h # Gone
      BY <1>1, <1>8, CountedNow, Names
    <3>2. Weak(h)' = Weak(h)
      BY <1>6, <1>8, <1>9 DEF Weak, WpTo
    <3>3. CASE h = v
      <4>1. Strong(h)' = Strong(h) \cup {x} /\ x \notin Strong(h)
        BY <1>5, <1>8, <1>9, <1>10, <3>1, <3>3 DEF Strong, SpTo
      <4>2. Cardinality(Strong(h) \cup {x}) = Cardinality(Strong(h)) + 1
        BY <4>1, StrongAndWeak, CountPlaces
      <4> QED
        BY <1>6, <1>11, <3>1, <3>2, <3>3, <4>1, <4>2
    <3>4. CASE h # v
      <4>1. Strong(h)' = Strong(h)
        BY <1>5, <1>8, <1>9, <1>10, <3>1, <3>4 DEF Strong, SpTo
      <4> QED
        BY <1>6, <1>11, <3>1, <3>2, <3>4, <4>1
    <3> QED
      BY <3>3, <3>4
  <2> QED
    BY <1>8, <1>11, <2>1, CountedThen
<1>14. sp' \in [SpPlaces -> Objs \cup {NULL, Gone}]
  BY <1>1, <1>7 DEF Types
<1> QED
  BY <1>1, <1>6, <1>8, <1>11, <1>12, <1>13, <1>14 DEF IInv, Types, IsSeq, NoFault

\* Under the invariant every call has a defined outcome.
LEMMA CallsDefined ==
    ASSUME IInv, stack # <<>>
    PROVE  Defined(Head(stack))
<1>1. /\ Types /\ Counted /\ StackShape /\ IsSeq(stack)
      /\ \A h \in Objs : Decided(h)
  BY DEF IInv, Types, IsSeq
<1> DEFINE call == Head(stack)
<1>2. call[1] \in {"release", "releaseWeak", "destroy", "free"} => Cascade(1) /\ call = stack[1]
  BY <1>1, CascadeRuns, HeadAndRest
<1>3. CASE call[1] = "release"
  <2>1. PICK o \in Objs \cup {NULL} : call = <<"release", o>>
    BY <1>2, <1>3 DEF Cascade
  <2>2. CASE o \in Objs
    <3>1. Due("release", o) = 1
      BY <2>1 DEF Due
    <3>2. rc[o] = Cardinality(Strong(o)) + 1 /\ Cardinality(Strong(o)) \in Nat
      BY <1>1, <2>2, <3>1, StrongAndWeak DEF Counted, Strong
    <3>3. rc[o] > 0
      BY <3>2
    <3>4. mem[o] = "live"
      BY <1>1, <2>2, <3>3 DEF Decided
    <3> QED
      BY <2>1, <2>2, <3>4 DEF Defined, Allocated
  <2>3. CASE o = NULL
    BY <2>1, <2>3 DEF Defined
  <2> QED
    BY <2>2, <2>3
<1>4. CASE call[1] = "releaseWeak"
  <2>1. PICK o \in Objs : call = <<"releaseWeak", o>>
    BY <1>2, <1>4 DEF Cascade
  <2>2. Due("releaseWeak", o) = 1
    BY <2>1 DEF Due
  <2>3. wc[o] = Cardinality(Weak(o)) + 1 /\ Cardinality(Weak(o)) \in Nat
    BY <1>1, <2>2, StrongAndWeak DEF Counted, Weak
  <2>4. wc[o] # 0
    BY <2>3
  <2>5. Decided(o) /\ mem[o] \in {"unused", "live", "destroyed", "freed"}
    BY <1>1 DEF Types
  <2>6. mem[o] \notin {"unused", "freed"}
    BY <2>4, <2>5 DEF Decided
  <2> QED
    BY <2>1, <2>5, <2>6 DEF Defined, Allocated
<1>5. CASE call[1] = "destroy"
  <2>1. PICK o \in Objs : call[2] = o
    BY <1>2, <1>5 DEF Cascade
  <2>2. Pending("destroy", o)
    BY <1>1, <1>5, <2>1, HeadAndRest
  <2>3. mem[o] = "live"
    BY <1>1, <2>2 DEF Decided
  <2> QED
    BY <1>5, <2>1, <2>3 DEF Defined
<1>6. CASE call[1] = "free"
  <2>1. PICK o \in Objs : call = <<"free", o>>
    BY <1>2, <1>6 DEF Cascade
  <2>2. Pending("free", o)
    <3>1. Head(stack)[1] = "free" /\ Head(stack)[2] = o
      BY <2>1
    <3> QED
      BY <1>1, <3>1, HeadAndRest
  <2>3. Decided(o) /\ mem[o] \in {"unused", "live", "destroyed", "freed"}
    BY <1>1 DEF Types
  <2>4. mem[o] \notin {"unused", "freed"}
    BY <2>2, <2>3 DEF Decided
  <2> QED
    BY <2>1, <2>3, <2>4 DEF Defined, Allocated
<1>7. CASE call[1] = "store"
  <2>1. \E d \in SpPlaces, p \in SpRoots : StoreLeft(d, p) /\ call = <<"store", d, p>>
    BY <1>1, <1>7, OwnCalls DEF Own
  <2> QED
    BY <2>1 DEF StoreLeft, Kept, Defined
<1>8. CASE call[1] = "retain"
  <2>1. PICK d \in SpPlaces : RetainLeft(d) /\ call = Bottom
    BY <1>1, <1>8, OwnCalls DEF Own
  <2>2. call = <<"retain", d>> /\ sp[d] \in Objs \cup {NULL} /\ (sp[d] # NULL => rc[sp[d]] > 0)
    BY <1>1, <2>1 DEF RetainLeft, Types
  <2>3. sp[d] # NULL => mem[sp[d]] = "live"
    BY <1>1, <2>2 DEF Decided
  <2> QED
    BY <2>2, <2>3 DEF Defined, Allocated
<1>9. CASE call[1] = "set"
  <2>1. call = Bottom
    BY <1>1, <1>9, OwnCalls DEF Own
  <2>2. (\E d \in SpPlaces : SetLeft(d)) \/ (\E w \in WpVars : SetWeakLeft(w))
    BY <1>1, <1>9, OwnCalls DEF Own
  <2>3. CASE \E d \in SpPlaces : SetLeft(d)
    <3>1. PICK d \in SpPlaces : call[2] = d /\ sp[d] # Gone
      BY <2>1, <2>3 DEF SetLeft, Kept
    <3> QED
      BY <1>9, <3>1 DEF Defined
  <2>4. CASE \E w \in WpVars : SetWeakLeft(w)
    <3>1. PICK w \in WpVars : call[2] = w
      BY <2>1, <2>4 DEF SetWeakLeft
    <3>2. w \notin SpPlaces
      BY PlacesApart DEF WpPlaces
    <3> QED
      BY <1>9, <3>1, <3>2 DEF Defined
  <2> QED
    BY <2>2, <2>3, <2>4
<1>10. CASE call[1] = "storeWeak"
  <2>1. PICK w \in WpVars, r \in Objs : StoreWeakLeft(w, r)
    BY <1>1, <1>10, OwnCalls DEF Own
  <2>2. call = <<"storeWeak", w, r>> /\ call = Bottom
    BY <1>1, <1>10, <2>1, OwnCalls DEF Own, StoreWeakLeft
  <2>3. Allocated(r)
    <3>1. CASE \E p \in SpPlaces : Kept(p) /\ sp[p] = r
      <4>1. PICK p \in SpPlaces : sp[p] = r
        BY <3>1
      <4>2. p \notin Stale
        BY <2>2, PlacesApart DEF Stale, WpPlaces
      <4>3. mem[r] = "live"
        BY <4>1, <4>2, HeldLives
      <4> QED
        BY <4>3 DEF Allocated
    <3> QED
      BY <2>1, <3>1 DEF StoreWeakLeft
  <2> QED
    BY <2>2, <2>3 DEF Defined
<1>11. CASE call[1] = "lock"
  <2>1. PICK x \in SpVars, o \in Objs \cup {NULL} : LockLeft(x, o)
    BY <1>1, <1>11, OwnCalls DEF Own
  <2>2. call = <<"lock", x, o>>
    BY <1>1, <1>11, <2>1, OwnCalls DEF Own, LockLeft
  <2> QED
    BY <2>1, <2>2 DEF Defined, LockLeft
<1>12. call[1] \in {"release", "releaseWeak", "destroy", "free"} \cup Own
  <2>1. Len(stack) \in Nat \ {0} /\ call = stack[1] /\ Bottom = stack[Len(stack)]
    BY <1>1, HeadAndRest DEF Bottom
  <2>2. \A k \in Nat \ {0} : /\ k = 1 \/ 1 \in 1 .. k - 1
                             /\ k < 2 \/ k = 2 \/ 1 \in 1 .. k - 2
    OBVIOUS
  <2>3. Cascade(1) => call[1] \in {"release", "releaseWeak", "destroy", "free"}
    BY <2>1 DEF Cascade
  <2>4. Above(1) /\ Bottom[1] \in Own =>
             call[1] \in {"release", "releaseWeak", "destroy", "free"} \cup Own
    BY <2>1, <2>2, <2>3 DEF Above
  <2>5. \A d, p : StoreLeft(d, p) => call[1] \in {"release", "releaseWeak", "destroy", "free"} \cup Own
    <3> SUFFICES ASSUME NEW d, NEW p, StoreLeft(d, p)
                 PROVE  call[1] \in {"release", "releaseWeak", "destroy", "free"} \cup Own
      OBVIOUS
    <3>1. CASE Len(stack) = 2
      <4>1. Len(stack) - 1 = 1
        BY <3>1
      <4>2. stack[Len(stack) - 1] = <<"store", d, p>>
        BY DEF StoreLeft
      <4> QED
        BY <2>1, <4>1, <4>2 DEF Own
    <3>2. CASE Len(stack) # 2
      <4>1. 1 \in 1 .. Len(stack) - 2
        <5>1. Len(stack) >= 2
          BY DEF StoreLeft, Above
        <5> DEFINE k == Len(stack)
        <5>2. k \in Nat /\ k >= 2 /\ k # 2
          BY <2>1, <3>2, <5>1
        <5> HIDE DEF k
        <5>3. 1 \in 1 .. k - 2
          BY <5>2
        <5> QED
          BY <5>3 DEF k
      <4> QED
        BY <2>3, <4>1 DEF StoreLeft, Above
    <3> QED
      BY <3>1, <3>2
  <2>6. \A d : SetLeft(d) => Above(1) /\ Bottom[1] \in Own
    BY DEF SetLeft, Own
  <2>7. \A w : SetWeakLeft(w) => Above(1) /\ Bottom[1] \in Own
    BY DEF SetWeakLeft, Own
  <2>8. \A w, r : StoreWeakLeft(w, r) => Above(1) /\ Bottom[1] \in Own
    BY DEF StoreWeakLeft, Own
  <2>9. \A d : RetainLeft(d) => call[1] \in Own
    BY <2>1 DEF RetainLeft, Own
  <2>10. \A x, o : LockLeft(x, o) => call[1] \in Own
    BY <2>1 DEF LockLeft, Own
  <2> QED
    BY <1>1, <2>4, <2>5, <2>6, <2>7, <2>8, <2>9, <2>10 DEF StackShape
<1> QED
  BY <1>3, <1>4, <1>5, <1>6, <1>7, <1>8, <1>9, <1>10, <1>11, <1>12 DEF Own

LEMMA CallsKeep ==
    ASSUME Plain, IInv, Calls
    PROVE  IInv'
<1>1. CASE Crash
  BY <1>1, CallsDefined DEF Crash
<1> QED
  BY <1>1, ReleaseKeeps, ReleaseWeakKeeps, DestroyKeeps, FreeMemoryKeeps, StoreKeeps, RetainKeeps,
     StoreWeakKeeps, LockKeeps, SetKeeps DEF Calls

-----------------------------------------------------------------------------
(* The statements keep the invariant.                                      *)

\* What holds between statements.
LEMMA Between ==
    ASSUME IInv, stack = <<>>
    PROVE  /\ Quiet /\ Stale = {} /\ IsSeq(stack)
           /\ \A o \in Objs : /\ ByCounters(o)
                              /\ Strong(o) = SpTo(o) /\ Weak(o) = WpTo(o)
                              /\ rc[o] = Cardinality(SpTo(o)) /\ wc[o] = Cardinality(WpTo(o))
<1>1. Types /\ Counted /\ \A o \in Objs : Decided(o)
  BY DEF IInv
<1>2. IsSeq(stack) /\ Len(stack) = 0
  BY Lists
<1>3. Quiet
  BY <1>2 DEF Quiet
<1>4. Stale = {} /\ \A o : Due("release", o) = 0 /\ Due("releaseWeak", o) = 0
  BY DEF Stale, Due
<1>5. ASSUME NEW o \in Objs
      PROVE  /\ ByCounters(o)
             /\ Strong(o) = SpTo(o) /\ Weak(o) = WpTo(o)
             /\ rc[o] = Cardinality(SpTo(o)) /\ wc[o] = Cardinality(WpTo(o))
  <2>1. ByCounters(o)
    BY <1>1, <1>3, QuietDecides
  <2>2. Strong(o) = SpTo(o) /\ Weak(o) = WpTo(o)
    BY <1>4 DEF Strong, Weak
  <2>3. rc[o] = Cardinality(Strong(o)) /\ wc[o] = Cardinality(Weak(o))
    BY <1>1, <1>4, CountedNow
  <2> QED
    BY <2>1, <2>2, <2>3
<1> QED
  BY <1>2, <1>3, <1>4, <1>5

\* The places that a program can name.
LEMMA ReachKept ==
    ASSUME IInv, stack = <<>>, NEW d \in SpReach
    PROVE  d \in SpPlaces /\ Kept(d) /\ sp[d] \in Objs \cup {NULL} /\ sp[d] # Gone
<1>1. CASE d \in SpRoots /\ sp[d] # Gone
  BY <1>1 DEF Kept, SpPlaces, IInv, Types
<1>2. CASE \E o \in Held : d = NextOf(o)
  <2>1. PICK o \in Objs, x \in SpRoots : d = NextOf(o) /\ mem[o] = "live" /\ sp[x] = o
    BY <1>2 DEF Held
  <2>2. sp[d] # Gone
    BY <2>1, Between DEF ByCounters
  <2>3. d \in SpPlaces
    BY <2>1, Names
  <2> QED
    BY <2>1, <2>2, <2>3 DEF Kept, IInv, Types
<1> QED
  BY <1>1, <1>2 DEF SpReach

LEMMA WeakReach ==
    ASSUME Plain, IInv, stack = <<>>, NEW w \in WpReach
    PROVE  /\ w \in WpVars /\ w \in WpPlaces /\ wp[w] \in Objs \cup {NULL} /\ wp[w] # Gone
           /\ wp[w] # NULL => Allocated(wp[w])
<1>1. w \in WpVars /\ w \in WpPlaces /\ wp[w] # Gone /\ wp[w] \in Objs \cup {NULL}
  BY DEF Plain, WpReach, WpPlaces, IInv, Types
<1>2. ASSUME NEW o \in Objs, wp[w] = o PROVE Allocated(o)
  <2>1. w \in WpTo(o) /\ WpTo(o) \subseteq WpPlaces
    BY <1>1, <1>2 DEF WpTo
  <2>2. wc[o] # 0
    BY <2>1, Between, CountPlaces
  <2>3. mem[o] \in {"unused", "live", "destroyed", "freed"}
    BY DEF IInv, Types
  <2>4. mem[o] \notin {"unused", "freed"}
    BY <2>2, Between DEF ByCounters
  <2> QED
    BY <2>3, <2>4 DEF Allocated
<1> QED
  BY <1>1, <1>2

\* A statement that only makes calls.
LEMMA Starts ==
    ASSUME IInv, stack = <<>>, UNCHANGED <<mem, rc, wc, sp, wp, fault>>,
           IsSeq(stack'), Quiet', StackShape', Counted'
    PROVE  IInv'
<1>1. ASSUME NEW o \in Objs PROVE Decided(o)'
  <2>1. ByCounters(o)
    BY Between
  <2>2. ByCounters(o)'
    BY <2>1 DEF ByCounters, NextOf, BackOf
  <2> QED
    BY <2>2, QuietDecides
<1>2. Types'
  BY DEF IInv, Types, IsSeq
<1> QED
  BY <1>1, <1>2 DEF IInv, NoFault

\* The reference to be dropped is counted as long as its call is due.
LEMMA Dropped ==
    ASSUME IInv, stack = <<>>, UNCHANGED <<rc, wc, sp, wp>>,
           NEW d \in SpPlaces \cup WpPlaces, Stale' = {d},
           \A o \in Objs :
               /\ Due("release", o)' = IF d \in SpPlaces /\ sp[d] = o THEN 1 ELSE 0
               /\ Due("releaseWeak", o)' = IF d \in WpPlaces /\ wp[d] = o THEN 1 ELSE 0
    PROVE  Counted'
<1>1. ASSUME NEW H, NEW Q, H \subseteq Q, Q \in {SpPlaces, WpPlaces}
      PROVE  Cardinality(H) = Cardinality(H \ {d}) + IF d \in H THEN 1 ELSE 0
  <2>1. H \subseteq SpPlaces \/ H \subseteq WpPlaces
    BY <1>1
  <2>2. Cardinality(H) \in Nat /\ (d \in H => Cardinality(H \ {d}) = Cardinality(H) - 1)
    BY <2>1, CountPlaces
  <2>3. d \notin H => H \ {d} = H
    OBVIOUS
  <2>4. CASE d \in H
    BY <2>2, <2>4
  <2>5. CASE d \notin H
    <3>1. Cardinality(H) = Cardinality(H \ {d})
      BY <2>3, <2>5
    <3> QED
      BY <2>2, <2>5, <3>1
  <2> QED
    BY <2>4, <2>5
<1>2. ASSUME NEW o \in Objs
      PROVE  /\ rc'[o] = Cardinality((SpTo(o) \ Stale)') + Due("release", o)'
             /\ wc'[o] = Cardinality((WpTo(o) \ Stale)') + Due("releaseWeak", o)'
  <2>1. rc'[o] = Cardinality(SpTo(o)) /\ wc'[o] = Cardinality(WpTo(o))
    BY Between
  <2>2. (SpTo(o) \ Stale)' = SpTo(o) \ {d} /\ (WpTo(o) \ Stale)' = WpTo(o) \ {d}
    BY DEF SpTo, WpTo
  <2>3. /\ Due("release", o)' = IF d \in SpTo(o) THEN 1 ELSE 0
        /\ Due("releaseWeak", o)' = IF d \in WpTo(o) THEN 1 ELSE 0
    BY DEF SpTo, WpTo
  <2>4. SpTo(o) \subseteq SpPlaces /\ WpTo(o) \subseteq WpPlaces
    BY DEF SpTo, WpTo
  <2>5. /\ Cardinality(SpTo(o)) = Cardinality(SpTo(o) \ {d}) + IF d \in SpTo(o) THEN 1 ELSE 0
        /\ Cardinality(WpTo(o)) = Cardinality(WpTo(o) \ {d}) + IF d \in WpTo(o) THEN 1 ELSE 0
    BY <1>1, <2>4
  <2>6. /\ Cardinality((SpTo(o) \ Stale)') = Cardinality(SpTo(o) \ {d})
        /\ Cardinality((WpTo(o) \ Stale)') = Cardinality(WpTo(o) \ {d})
    BY <2>2
  <2> QED
    BY <2>1, <2>3, <2>5, <2>6
<1> QED
  BY <1>2 DEF Counted

\* A statement leaves as many calls on the stack as it has to make.
LEMMA StackMade ==
    /\ \A a : stack' = <<a>> =>
           /\ IsSeq(stack') /\ stack' # <<>> /\ Len(stack') = 1
           /\ stack'[1] = a /\ Head(stack') = a /\ Bottom' = a
           /\ a[1] \notin {"destroy", "free"} => Quiet'
    /\ \A a, b : stack' = <<a, b>> =>
           /\ IsSeq(stack') /\ stack' # <<>> /\ Len(stack') = 2
           /\ stack'[1] = a /\ stack'[2] = b /\ Head(stack') = a /\ Bottom' = b
           /\ a[1] \notin {"destroy", "free"} /\ b[1] \notin {"destroy", "free"} => Quiet'
    /\ \A a, b, c : stack' = <<a, b, c>> =>
           /\ IsSeq(stack') /\ stack' # <<>> /\ Len(stack') = 3
           /\ stack'[1] = a /\ stack'[2] = b /\ stack'[3] = c /\ Head(stack') = a /\ Bottom' = c
           /\ /\ a[1] \notin {"destroy", "free"} /\ b[1] \notin {"destroy", "free"}
              /\ c[1] \notin {"destroy", "free"}
              => Quiet'
<1>1. ASSUME NEW a, stack' = <<a>>
      PROVE  /\ IsSeq(stack') /\ stack' # <<>> /\ Len(stack') = 1
             /\ stack'[1] = a /\ Head(stack') = a /\ Bottom' = a
             /\ a[1] \notin {"destroy", "free"} => Quiet'
  <2>1. IsSeq(stack') /\ stack' # <<>> /\ Len(stack') = 1 /\ stack'[1] = a /\ Head(stack') = a
    BY <1>1, Lists
  <2>2. \A i \in 1 .. Len(stack') : i = 1
    BY <2>1
  <2> QED
    BY <2>1, <2>2 DEF Bottom, Quiet
<1>2. ASSUME NEW a, NEW b, stack' = <<a, b>>
      PROVE  /\ IsSeq(stack') /\ stack' # <<>> /\ Len(stack') = 2
             /\ stack'[1] = a /\ stack'[2] = b /\ Head(stack') = a /\ Bottom' = b
             /\ a[1] \notin {"destroy", "free"} /\ b[1] \notin {"destroy", "free"} => Quiet'
  <2>1. /\ IsSeq(stack') /\ stack' # <<>> /\ Len(stack') = 2
        /\ stack'[1] = a /\ stack'[2] = b /\ Head(stack') = a
    BY <1>2, Lists
  <2>2. \A i \in 1 .. Len(stack') : i = 1 \/ i = 2
    BY <2>1
  <2> QED
    BY <2>1, <2>2 DEF Bottom, Quiet
<1>3. ASSUME NEW a, NEW b, NEW c, stack' = <<a, b, c>>
      PROVE  /\ IsSeq(stack') /\ stack' # <<>> /\ Len(stack') = 3
             /\ stack'[1] = a /\ stack'[2] = b /\ stack'[3] = c /\ Head(stack') = a /\ Bottom' = c
             /\ /\ a[1] \notin {"destroy", "free"} /\ b[1] \notin {"destroy", "free"}
                /\ c[1] \notin {"destroy", "free"}
                => Quiet'
  <2>1. /\ IsSeq(stack') /\ stack' # <<>> /\ Len(stack') = 3
        /\ stack'[1] = a /\ stack'[2] = b /\ stack'[3] = c /\ Head(stack') = a
    BY <1>3, Lists
  <2>2. \A i \in 1 .. Len(stack') : i = 1 \/ i = 2 \/ i = 3
    BY <2>1
  <2> QED
    BY <2>1, <2>2 DEF Bottom, Quiet
<1> QED
  BY <1>1, <1>2, <1>3

\* Statements that drop what a strong place refers to, then write the place.
LEMMA SetStarts ==
    ASSUME Plain, IInv, Idle, NEW d \in SpPlaces, Kept(d), NEW v \in {NULL, Gone},
           v = Gone => d \in SpRoots,
           Do(<<<<"release", sp[d]>>, <<"set", d, v>>>>), UNCHANGED <<sp, wp>>
    PROVE  IInv'
<1>1. stack = <<>> /\ stack' = <<<<"release", sp[d]>>, <<"set", d, v>>>>
      /\ UNCHANGED <<mem, rc, wc, sp, wp, fault>>
  BY DEF Idle, Do, counters
<1> DEFINE a == <<"release", sp[d]>>
           b == <<"set", d, v>>
<1>2. a[1] = "release" /\ a[2] = sp[d] /\ b[1] = "set" /\ b[2] = d
  OBVIOUS
<1>3. stack' = <<a, b>>
  BY <1>1
<1> HIDE DEF a, b
<1>4. /\ IsSeq(stack') /\ stack' # <<>> /\ Len(stack') = 2 /\ Quiet'
      /\ stack'[1] = a /\ Head(stack') = a /\ Bottom' = b
  BY <1>2, <1>3, StackMade
<1>5. Stale' = {d} /\ d \notin WpPlaces
  BY <1>2, <1>4, PlacesApart DEF Stale
<1>6. \A o \in Objs : /\ Due("release", o)' = IF d \in SpPlaces /\ sp[d] = o THEN 1 ELSE 0
                      /\ Due("releaseWeak", o)' = IF d \in WpPlaces /\ wp[d] = o THEN 1 ELSE 0
  BY <1>2, <1>4, <1>5 DEF Due
<1>7. Counted'
  BY <1>1, <1>5, <1>6, Dropped
<1>8. sp[d] \in Objs \cup {NULL}
  BY DEF IInv, Types, Kept
<1>9. SetLeft(d)'
  <2>1. Kept(d)'
    BY <1>1 DEF Kept
  <2>2. \A i \in 1 .. Len(stack') - 1 : i = 1
    BY <1>4
  <2>3. Above(1)'
    BY <1>4, <1>8, <2>2 DEF Above, Cascade, a
  <2> QED
    BY <1>4, <2>1, <2>3 DEF SetLeft, b
<1>10. StackShape'
  BY <1>9 DEF StackShape
<1> QED
  BY <1>1, <1>4, <1>7, <1>10, Starts

LEMMA SpAssignKeeps ==
    ASSUME Plain, IInv, NEW d \in SpReach, NEW p \in SpReach, SpAssign(d, p)
    PROVE  IInv'
<1>1. stack = <<>> /\ stack' = <<<<"release", sp[d]>>, <<"store", d, p>>, <<"retain", d>>>>
      /\ UNCHANGED <<mem, rc, wc, sp, wp, fault>> /\ p \in SpRoots /\ p # d
  BY DEF SpAssign, Idle, Do, counters, Plain
<1>2. d \in SpPlaces /\ Kept(d) /\ sp[d] \in Objs \cup {NULL} /\ sp[p] # Gone
  BY <1>1, ReachKept
<1> DEFINE a == <<"release", sp[d]>>
           b == <<"store", d, p>>
           c == <<"retain", d>>
<1>3. a[1] = "release" /\ a[2] = sp[d] /\ b[1] = "store" /\ c[1] = "retain" /\ c[2] = d
  OBVIOUS
<1>4. stack' = <<a, b, c>>
  BY <1>1
<1> HIDE DEF a, b, c
<1>5. /\ IsSeq(stack') /\ stack' # <<>> /\ Len(stack') = 3 /\ Quiet'
      /\ stack'[1] = a /\ stack'[2] = b /\ Head(stack') = a /\ Bottom' = c
  BY <1>3, <1>4, StackMade
<1>6. Stale' = {d} /\ d \notin WpPlaces
  BY <1>2, <1>3, <1>5, PlacesApart DEF Stale
<1>7. \A o \in Objs : /\ Due("release", o)' = IF d \in SpPlaces /\ sp[d] = o THEN 1 ELSE 0
                      /\ Due("releaseWeak", o)' = IF d \in WpPlaces /\ wp[d] = o THEN 1 ELSE 0
  BY <1>2, <1>3, <1>5, <1>6 DEF Due
<1>8. Counted'
  BY <1>1, <1>2, <1>6, <1>7, Dropped
<1>9. StoreLeft(d, p)'
  <2>1. Kept(d)' /\ p # d /\ sp'[p] # Gone
    BY <1>1, <1>2 DEF Kept
  <2>2. \A i \in 1 .. Len(stack') - 2 : i = 1
    BY <1>5
  <2>3. Above(2)'
    BY <1>2, <1>5, <2>2 DEF Above, Cascade, a
  <2>4. stack'[Len(stack') - 1] = b
    <3>1. Len(stack') - 1 = 2
      BY <1>5
    <3> QED
      BY <1>5, <3>1
  <2> QED
    BY <1>5, <2>1, <2>3, <2>4 DEF StoreLeft, b, c
<1>10. StackShape'
  BY <1>1, <1>2, <1>9 DEF StackShape
<1> QED
  BY <1>1, <1>5, <1>8, <1>10, Starts

LEMMA SpResetKeeps ==
    ASSUME Plain, IInv, NEW d \in SpReach, SpReset(d)
    PROVE  IInv'
<1>1. Idle /\ stack = <<>> /\ Do(<<<<"release", sp[d]>>, <<"set", d, NULL>>>>) /\ UNCHANGED <<sp, wp>>
  BY DEF SpReset, Do, Idle
<1>2. d \in SpPlaces /\ Kept(d)
  BY <1>1, ReachKept
<1>3. NULL # Gone
  BY PlacesApart
<1> QED
  BY <1>1, <1>2, <1>3, SetStarts

LEMMA SpEndKeeps ==
    ASSUME Plain, IInv, NEW x \in SpVars, SpEnd(x)
    PROVE  IInv'
<1>1. Idle /\ Do(<<<<"release", sp[x]>>, <<"set", x, Gone>>>>) /\ UNCHANGED <<sp, wp>>
  BY DEF SpEnd, Do
<1>2. x \in SpPlaces /\ Kept(x) /\ x \in SpRoots
  BY DEF SpEnd, SpPlaces, SpRoots, Kept
<1> QED
  BY <1>1, <1>2, SetStarts

\* Statements that drop what a weak place refers to, then end it or write it.
LEMMA WeakStarts ==
    ASSUME Plain, IInv, stack = <<>>, UNCHANGED <<mem, rc, wc, sp, wp, fault>>,
           NEW w \in WpVars, NEW last, last[1] \in {"set", "storeWeak"}, last[2] = w,
           \/ wp[w] \notin Objs /\ stack' = <<last>>
           \/ wp[w] \in Objs /\ stack' = <<<<"releaseWeak", wp[w]>>, last>>
    PROVE  /\ IsSeq(stack') /\ Quiet' /\ Above(1)' /\ Bottom' = last /\ Counted'
           /\ wp[w] \notin Objs => Len(stack') = 1
<1>1. w \in WpPlaces /\ w \notin SpPlaces
  BY PlacesApart DEF WpPlaces
<1>2. CASE wp[w] \notin Objs /\ stack' = <<last>>
  <2>1. /\ IsSeq(stack') /\ stack' # <<>> /\ Len(stack') = 1 /\ Quiet'
        /\ Head(stack') = last /\ Bottom' = last
    BY <1>2, StackMade
  <2>2. Stale' = {w}
    BY <2>1 DEF Stale
  <2>3. \A o \in Objs : /\ Due("release", o)' = IF w \in SpPlaces /\ sp[w] = o THEN 1 ELSE 0
                        /\ Due("releaseWeak", o)' = IF w \in WpPlaces /\ wp[w] = o THEN 1 ELSE 0
    BY <1>1, <1>2, <2>1 DEF Due
  <2>4. Counted'
    BY <1>1, <2>2, <2>3, Dropped
  <2>5. \A i \in 1 .. Len(stack') - 1 : FALSE
    BY <2>1
  <2>6. Above(1)'
    BY <2>1, <2>5 DEF Above
  <2> QED
    BY <2>1, <2>4, <2>6
<1>3. CASE wp[w] \in Objs /\ stack' = <<<<"releaseWeak", wp[w]>>, last>>
  <2> DEFINE a == <<"releaseWeak", wp[w]>>
  <2>1. a[1] = "releaseWeak" /\ a[2] = wp[w] /\ stack' = <<a, last>>
    BY <1>3
  <2> HIDE DEF a
  <2>2. /\ IsSeq(stack') /\ stack' # <<>> /\ Len(stack') = 2 /\ Quiet'
        /\ stack'[1] = a /\ Head(stack') = a /\ Bottom' = last
    BY <2>1, StackMade
  <2>3. Stale' = {w}
    BY <2>2 DEF Stale
  <2>4. \A o \in Objs : /\ Due("release", o)' = IF w \in SpPlaces /\ sp[w] = o THEN 1 ELSE 0
                        /\ Due("releaseWeak", o)' = IF w \in WpPlaces /\ wp[w] = o THEN 1 ELSE 0
    BY <1>1, <2>1, <2>2 DEF Due
  <2>5. Counted'
    BY <1>1, <2>3, <2>4, Dropped
  <2>6. \A i \in 1 .. Len(stack') - 1 : i = 1
    BY <2>2
  <2>7. Above(1)'
    BY <1>3, <2>2, <2>6 DEF Above, Cascade, a
  <2> QED
    BY <1>3, <2>2, <2>5, <2>7
<1> QED
  BY <1>2, <1>3

\* How those statements put it.
LEMMA Puts ==
    ASSUME NEW v, NEW last
    PROVE  When(v # NULL, <<"releaseWeak", v>>) \o <<last>> =
               IF v = NULL THEN <<last>> ELSE <<<<"releaseWeak", v>>, last>>
<1>1. ASSUME NEW a, NEW b PROVE <<a>> \o <<b>> = <<a, b>> /\ <<>> \o <<b>> = <<b>>
  <2>1. /\ <<a>> \in Seq({a, b}) /\ <<b>> \in Seq({a, b}) /\ <<a, b>> \in Seq({a, b})
        /\ Len(<<a>>) = 1 /\ Len(<<b>>) = 1 /\ Len(<<a, b>>) = 2
    OBVIOUS
  <2>2. /\ <<a>> \o <<b>> \in Seq({a, b}) /\ Len(<<a>> \o <<b>>) = 2
        /\ \A i \in 1 .. 2 : (<<a>> \o <<b>>)[i] = IF i <= 1 THEN <<a>>[i] ELSE <<b>>[i - 1]
    BY <2>1, ConcatProperties
  <2>3. \A i \in 1 .. 2 : (<<a>> \o <<b>>)[i] = <<a, b>>[i]
    BY <2>2
  <2>4. <<>> \o <<b>> = <<b>>
    BY <2>1, ConcatEmptySeq
  <2> QED
    BY <2>1, <2>2, <2>3, <2>4, SeqEqual
<1> QED
  BY <1>1 DEF When

LEMMA WpEndKeeps ==
    ASSUME Plain, IInv, NEW w \in WpVars, WpEnd(w)
    PROVE  IInv'
<1> DEFINE last == <<"set", w, Gone>>
<1>1. stack = <<>> /\ UNCHANGED <<mem, rc, wc, sp, wp, fault>>
  BY DEF WpEnd, Do, Idle, counters
<1>8. stack' = When(wp[w] # NULL, <<"releaseWeak", wp[w]>>) \o <<last>>
  BY DEF WpEnd, Do
<1>2. wp[w] \in Objs \cup {NULL} /\ NULL \notin Objs
  BY Names DEF WpEnd, IInv, Types, WpPlaces
<1>3. last[1] = "set" /\ last[2] = w
  OBVIOUS
<1>4. last \in {<<"set", w, NULL>>, <<"set", w, Gone>>}
  OBVIOUS
<1> HIDE DEF last
<1>5. \/ wp[w] \notin Objs /\ stack' = <<last>>
      \/ wp[w] \in Objs /\ stack' = <<<<"releaseWeak", wp[w]>>, last>>
  BY <1>2, <1>8, Puts
<1>6. IsSeq(stack') /\ Quiet' /\ Above(1)' /\ Bottom' = last /\ Counted'
  <2>1. CASE wp[w] \notin Objs /\ stack' = <<last>>
    BY <1>1, <1>3, <2>1, WeakStarts
  <2>2. CASE wp[w] \in Objs /\ stack' = <<<<"releaseWeak", wp[w]>>, last>>
    BY <1>1, <1>3, <2>2, WeakStarts
  <2> QED
    BY <1>5, <2>1, <2>2
<1>7. StackShape'
  BY <1>4, <1>6 DEF StackShape, SetWeakLeft
<1> QED
  BY <1>1, <1>6, <1>7, Starts

LEMMA WpResetKeeps ==
    ASSUME Plain, IInv, NEW w \in WpReach, WpReset(w)
    PROVE  IInv'
<1> DEFINE last == <<"set", w, NULL>>
<1>1. /\ stack = <<>> /\ UNCHANGED <<mem, rc, wc, sp, wp, fault>>
      /\ stack' = <<<<"releaseWeak", wp[w]>>, last>> /\ wp[w] # NULL
  BY DEF WpReset, Do, Idle, counters, Plain
<1>2. wp[w] \in Objs /\ w \in WpVars
  BY <1>1, WeakReach
<1>3. last[1] = "set" /\ last[2] = w
  OBVIOUS
<1>4. last \in {<<"set", w, NULL>>, <<"set", w, Gone>>}
  OBVIOUS
<1> HIDE DEF last
<1>5. IsSeq(stack') /\ Quiet' /\ Above(1)' /\ Bottom' = last /\ Counted'
  BY <1>1, <1>2, <1>3, WeakStarts
<1>6. StackShape'
  BY <1>2, <1>4, <1>5 DEF StackShape, SetWeakLeft
<1> QED
  BY <1>1, <1>5, <1>6, Starts

LEMMA WpAssignKeeps ==
    ASSUME Plain, IInv, NEW w \in WpReach, NEW p \in SpReach, WpAssign(w, sp[p])
    PROVE  IInv'
<1> DEFINE last == <<"storeWeak", w, sp[p]>>
<1>1. stack = <<>> /\ UNCHANGED <<mem, rc, wc, sp, wp, fault>> /\ sp[p] # NULL
  BY DEF WpAssign, Do, Idle, counters, Plain
<1>11. stack' = When(wp[w] # NULL, <<"releaseWeak", wp[w]>>) \o <<last>>
  BY DEF WpAssign, Do
<1>2. w \in WpVars /\ wp[w] \in Objs \cup {NULL} /\ NULL \notin Objs
  BY <1>1, WeakReach, Names
<1>3. p \in SpPlaces /\ Kept(p) /\ sp[p] \in Objs
  BY <1>1, ReachKept
<1>4. last[1] = "storeWeak" /\ last[2] = w
  OBVIOUS
<1> HIDE DEF last
<1>5. \/ wp[w] \notin Objs /\ stack' = <<last>>
      \/ wp[w] \in Objs /\ stack' = <<<<"releaseWeak", wp[w]>>, last>>
  BY <1>2, <1>11, Puts
<1>6. IsSeq(stack') /\ Quiet' /\ Above(1)' /\ Bottom' = last /\ Counted'
  <2>1. CASE wp[w] \notin Objs /\ stack' = <<last>>
    BY <1>1, <1>2, <1>4, <2>1, WeakStarts
  <2>2. CASE wp[w] \in Objs /\ stack' = <<<<"releaseWeak", wp[w]>>, last>>
    BY <1>1, <1>2, <1>4, <2>2, WeakStarts
  <2> QED
    BY <1>5, <2>1, <2>2
<1>7. Kept(p)' /\ sp'[p] = sp[p]
  BY <1>1, <1>3 DEF Kept
<1>8. PICK r \in Objs : r = sp[p]
  BY <1>3
<1>9. StoreWeakLeft(w, r)'
  BY <1>3, <1>6, <1>7, <1>8 DEF StoreWeakLeft, last
<1>10. StackShape'
  BY <1>2, <1>9 DEF StackShape
<1> QED
  BY <1>1, <1>6, <1>10, Starts

LEMMA WpFromKeeps ==
    ASSUME Plain, IInv, NEW w \in WpVars, NEW r, WpFrom(w, r),
           (\E p \in SpReach : r = sp[p]) \/ (\E p \in WpReach : r = wp[p])
    PROVE  IInv'
<1> DEFINE last == <<"storeWeak", w, r>>
<1>1. /\ stack = <<>> /\ UNCHANGED <<mem, rc, wc, sp, wp, fault>> /\ r # NULL
      /\ stack' = <<last>> /\ wp[w] = Gone
  BY DEF WpFrom, Do, Idle, counters, Plain
<1>2. wp[w] \notin Objs
  BY <1>1, Names
<1>3. r \in Objs /\ Allocated(r)
  <2>1. CASE \E p \in SpReach : r = sp[p]
    <3>1. PICK p \in SpReach : r = sp[p]
      BY <2>1
    <3>2. p \in SpPlaces /\ r \in Objs
      BY <1>1, <3>1, ReachKept
    <3>3. p \notin Stale
      BY <1>1, Between
    <3>4. mem[r] = "live"
      BY <3>1, <3>2, <3>3, HeldLives
    <3> QED
      BY <3>2, <3>4 DEF Allocated
  <2>2. CASE \E p \in WpReach : r = wp[p]
    BY <1>1, <2>2, WeakReach
  <2> QED
    BY <2>1, <2>2
<1>4. last[1] = "storeWeak" /\ last[2] = w
  OBVIOUS
<1> HIDE DEF last
<1>5. IsSeq(stack') /\ Quiet' /\ Above(1)' /\ Bottom' = last /\ Counted' /\ Len(stack') = 1
  BY <1>1, <1>2, <1>4, WeakStarts
<1>6. StoreWeakLeft(w, r)'
  BY <1>1, <1>3, <1>5 DEF StoreWeakLeft, Allocated, last
<1>7. StackShape'
  BY <1>3, <1>6 DEF StackShape
<1> QED
  BY <1>1, <1>5, <1>7, Starts

LEMMA WpLockKeeps ==
    ASSUME Plain, IInv, NEW x \in SpVars, NEW p \in WpReach, WpLock(x, p)
    PROVE  IInv'
<1> DEFINE a == <<"lock", x, wp[p]>>
<1>1. /\ stack = <<>> /\ UNCHANGED <<mem, rc, wc, sp, wp, fault>> /\ sp[x] = Gone
      /\ stack' = <<a>>
  BY DEF WpLock, Do, Idle, counters
<1>2. wp[p] \in Objs \cup {NULL} /\ (wp[p] # NULL => Allocated(wp[p]))
  BY <1>1, WeakReach
<1>3. a[1] = "lock"
  OBVIOUS
<1> HIDE DEF a
<1>4. /\ IsSeq(stack') /\ stack' # <<>> /\ Len(stack') = 1 /\ Quiet' /\ Head(stack') = a /\ Bottom' = a
  BY <1>1, <1>3, StackMade
<1>5. Stale' = {} /\ \A o \in Objs : Due("release", o)' = 0 /\ Due("releaseWeak", o)' = 0
  BY <1>3, <1>4 DEF Stale, Due
<1>6. Counted'
  <2>1. ASSUME NEW o \in Objs
        PROVE  rc'[o] = Cardinality(Strong(o)') /\ wc'[o] = Cardinality(Weak(o)')
    <3>1. Strong(o)' = SpTo(o) /\ Weak(o)' = WpTo(o)
      BY <1>1, <1>5 DEF Strong, Weak, SpTo, WpTo
    <3>2. rc[o] = Cardinality(SpTo(o)) /\ wc[o] = Cardinality(WpTo(o))
      BY <1>1, Between
    <3> QED
      BY <1>1, <3>1, <3>2
  <2>2. rc' \in [Objs -> Nat] /\ wc' \in [Objs -> Nat]
    BY <1>1 DEF IInv, Types
  <2> QED
    BY <1>5, <2>1, <2>2, CountedThen
<1>7. PICK o \in Objs \cup {NULL} : o = wp[p]
  BY <1>2
<1>8. LockLeft(x, o)'
  BY <1>1, <1>2, <1>4, <1>7 DEF LockLeft, Allocated, a
<1>9. StackShape'
  BY <1>8 DEF StackShape
<1> QED
  BY <1>1, <1>4, <1>6, <1>9, Starts

\* A statement that writes places and makes no call.
LEMMA Writes ==
    ASSUME IInv, stack = <<>>, stack' = <<>>, UNCHANGED fault,
           mem' \in [Objs -> {"unused", "live", "destroyed", "freed"}],
           rc' \in [Objs -> Nat], wc' \in [Objs -> Nat],
           sp' \in [SpPlaces -> Objs \cup {NULL, Gone}], wp' \in [WpPlaces -> Objs \cup {NULL, Gone}],
           \A o \in Objs : /\ ByCounters(o)'
                           /\ rc'[o] = Cardinality(SpTo(o)') /\ wc'[o] = Cardinality(WpTo(o)')
    PROVE  IInv'
<1>1. IsSeq(stack') /\ Len(stack') = 0
  BY Lists
<1>2. Quiet'
  <2> DEFINE k == Len(stack')
  <2>1. k = 0
    BY <1>1
  <2> HIDE DEF k
  <2>2. \A i \in 1 .. k : FALSE
    BY <2>1
  <2> QED
    BY <2>2 DEF Quiet, k
<1>3. Stale' = {} /\ \A o \in Objs : Due("release", o)' = 0 /\ Due("releaseWeak", o)' = 0
  BY DEF Stale, Due
<1>4. \A o \in Objs : Decided(o)'
  BY <1>2, QuietDecides
<1>5. Counted'
  <2>1. ASSUME NEW o \in Objs
        PROVE  rc'[o] = Cardinality(Strong(o)') /\ wc'[o] = Cardinality(Weak(o)')
    <3>1. Strong(o)' = SpTo(o)' /\ Weak(o)' = WpTo(o)'
      BY <1>3 DEF Strong, Weak
    <3> QED
      BY <3>1
  <2> QED
    BY <1>3, <2>1, CountedThen
<1>6. StackShape'
  BY DEF StackShape
<1> QED
  BY <1>1, <1>4, <1>5, <1>6 DEF IInv, Types, IsSeq, NoFault

LEMMA SpAllocKeeps ==
    ASSUME Plain, IInv, NEW x \in SpVars, NEW o \in Objs, SpAlloc(x, o)
    PROVE  IInv'
<1>1. stack = <<>> /\ stack' = <<>> /\ UNCHANGED fault /\ sp[x] = Gone /\ mem[o] = "unused"
  BY DEF SpAlloc, Idle
<1>2. Types
  BY DEF IInv
<1>3. /\ x \in SpPlaces /\ x # NextOf(o) /\ NextOf(o) \in SpPlaces /\ BackOf(o) \in WpPlaces
      /\ NULL \notin Objs /\ Gone \notin Objs
  BY Names DEF SpPlaces, SpRoots
<1>4. /\ mem' = [mem EXCEPT ![o] = "live"] /\ rc' = [rc EXCEPT ![o] = 1] /\ wc' = [wc EXCEPT ![o] = 0]
      /\ sp' = [sp EXCEPT ![x] = o, ![NextOf(o)] = NULL] /\ wp' = [wp EXCEPT ![BackOf(o)] = NULL]
  BY DEF SpAlloc, NewCounts
<1>5. /\ mem' \in [Objs -> {"unused", "live", "destroyed", "freed"}]
      /\ rc' \in [Objs -> Nat] /\ wc' \in [Objs -> Nat]
  BY <1>2, <1>4 DEF Types
<1>6. /\ sp' \in [SpPlaces -> Objs \cup {NULL, Gone}]
      /\ \A e \in SpPlaces : sp'[e] = IF e = NextOf(o) THEN NULL ELSE IF e = x THEN o ELSE sp[e]
  BY <1>2, <1>3, <1>4 DEF Types
<1>7. /\ wp' \in [WpPlaces -> Objs \cup {NULL, Gone}]
      /\ \A e \in WpPlaces : wp'[e] = IF e = BackOf(o) THEN NULL ELSE wp[e]
  BY <1>2, <1>3, <1>4 DEF Types
<1>8. /\ rc[o] = 0 /\ wc[o] = 0 /\ sp[NextOf(o)] = Gone /\ wp[BackOf(o)] \in {NULL, Gone}
      /\ rc[o] = Cardinality(SpTo(o)) /\ wc[o] = Cardinality(WpTo(o))
  BY <1>1, Between DEF ByCounters
<1>9. SpTo(o) = {} /\ WpTo(o) = {}
  <2>1. SpTo(o) \subseteq SpPlaces /\ WpTo(o) \subseteq WpPlaces
    BY DEF SpTo, WpTo
  <2> QED
    BY <1>8, <2>1, CountPlaces
<1>10. ASSUME NEW h \in Objs
       PROVE  /\ ByCounters(h)'
              /\ rc'[h] = Cardinality(SpTo(h)') /\ wc'[h] = Cardinality(WpTo(h)')
  <2>1. ByCounters(h) /\ rc[h] = Cardinality(SpTo(h)) /\ wc[h] = Cardinality(WpTo(h))
    BY <1>1, Between
  <2>2. WpTo(h)' = WpTo(h)
    BY <1>3, <1>7, <1>8 DEF WpTo
  <2>3. CASE h = o
    <3>1. SpTo(h)' = {} \cup {x}
      BY <1>3, <1>6, <1>9, <2>3 DEF SpTo
    <3>2. Cardinality({} \cup {x}) = Cardinality({}) + 1 /\ Cardinality({}) = 0
      BY CountPlaces
    <3>3. mem'[h] = "live" /\ rc'[h] = 1 /\ wc'[h] = 0
      BY <1>2, <1>4, <2>3 DEF Types
    <3>4. sp'[NextOf(h)] = NULL /\ wp'[BackOf(h)] = NULL /\ NULL # Gone
      BY <1>3, <1>6, <1>7, <2>3, PlacesApart
    <3>5. ByCounters(h)'
      BY <3>3, <3>4 DEF ByCounters, NextOf, BackOf
    <3>6. Cardinality(WpTo(h)') = 0
      BY <1>8, <2>2, <2>3
    <3>7. Cardinality(SpTo(h)') = 1
      BY <3>1, <3>2
    <3> QED
      BY <3>3, <3>5, <3>6, <3>7
  <2>4. CASE h # o
    <3>1. SpTo(h)' = SpTo(h)
      BY <1>1, <1>3, <1>6, <1>8, <2>4 DEF SpTo
    <3>2. mem'[h] = mem[h] /\ rc'[h] = rc[h] /\ wc'[h] = wc[h]
      BY <1>2, <1>4, <2>4 DEF Types
    <3>3. sp'[NextOf(h)] = sp[NextOf(h)] /\ wp'[BackOf(h)] = wp[BackOf(h)]
      BY <1>6, <1>7, <2>4, Names DEF SpRoots
    <3>4. ByCounters(h)'
      BY <2>1, <3>2, <3>3 DEF ByCounters, NextOf, BackOf
    <3> QED
      BY <2>1, <2>2, <3>1, <3>2, <3>4
  <2> QED
    BY <2>3, <2>4
<1> QED
  BY <1>1, <1>5, <1>6, <1>7, <1>10, Writes

LEMMA SpDeclareKeeps ==
    ASSUME Plain, IInv, NEW x \in SpVars, SpDeclare(x)
    PROVE  IInv'
<1>1. /\ stack = <<>> /\ stack' = <<>> /\ UNCHANGED <<mem, rc, wc, wp, fault>>
      /\ sp[x] = Gone /\ sp' = [sp EXCEPT ![x] = NULL]
  BY DEF SpDeclare, Do, Idle, counters
<1>2. Types /\ x \in SpPlaces /\ x \in SpRoots
  BY DEF IInv, SpPlaces, SpRoots
<1>3. /\ sp' \in [SpPlaces -> Objs \cup {NULL, Gone}]
      /\ \A e \in SpPlaces : sp'[e] = IF e = x THEN NULL ELSE sp[e]
  BY <1>1, <1>2 DEF Types
<1>4. ASSUME NEW h \in Objs
      PROVE  /\ ByCounters(h)'
             /\ rc'[h] = Cardinality(SpTo(h)') /\ wc'[h] = Cardinality(WpTo(h)')
  <2>1. ByCounters(h) /\ rc[h] = Cardinality(SpTo(h)) /\ wc[h] = Cardinality(WpTo(h))
    BY <1>1, Between
  <2>2. SpTo(h)' = SpTo(h) /\ WpTo(h)' = WpTo(h)
    BY <1>1, <1>3, Names DEF SpTo, WpTo
  <2>3. sp'[NextOf(h)] = sp[NextOf(h)]
    BY <1>2, <1>3, Names
  <2>4. ByCounters(h)'
    BY <1>1, <2>1, <2>3 DEF ByCounters, NextOf, BackOf
  <2> QED
    BY <1>1, <2>1, <2>2, <2>4
<1> QED
  BY <1>1, <1>2, <1>3, <1>4, Writes DEF Types

LEMMA SpCopyKeeps ==
    ASSUME Plain, IInv, NEW x \in SpVars, NEW p \in SpReach, SpCopy(x, p)
    PROVE  IInv'
<1> DEFINE a == <<"retain", x>>
<1>1. /\ stack = <<>> /\ stack' = <<a>> /\ UNCHANGED <<mem, rc, wc, wp, fault>>
      /\ sp[x] = Gone /\ sp' = [sp EXCEPT ![x] = sp[p]]
  BY DEF SpCopy, Do, Idle, counters
<1>2. Types /\ x \in SpPlaces /\ x \in SpRoots
  BY DEF IInv, SpPlaces, SpRoots
<1>3. p \in SpPlaces /\ sp[p] \in Objs \cup {NULL} /\ sp[p] # Gone
  BY <1>1, ReachKept
<1>4. /\ sp' \in [SpPlaces -> Objs \cup {NULL, Gone}]
      /\ \A e \in SpPlaces : sp'[e] = IF e = x THEN sp[p] ELSE sp[e]
  BY <1>1, <1>2, <1>3 DEF Types
<1>5. a[1] = "retain" /\ a[2] = x
  OBVIOUS
<1> HIDE DEF a
<1>6. /\ IsSeq(stack') /\ stack' # <<>> /\ Len(stack') = 1 /\ Quiet' /\ Head(stack') = a /\ Bottom' = a
  BY <1>1, <1>5, StackMade
<1>7. Stale' = {x} /\ \A o \in Objs : Due("release", o)' = 0 /\ Due("releaseWeak", o)' = 0
  BY <1>5, <1>6 DEF Stale, Due
<1>8. ASSUME NEW h \in Objs PROVE Decided(h)'
  <2>1. sp'[NextOf(h)] = sp[NextOf(h)]
    BY <1>2, <1>4, Names
  <2>2. ByCounters(h)
    BY <1>1, Between
  <2>3. ByCounters(h)'
    BY <1>1, <2>1, <2>2 DEF ByCounters, NextOf, BackOf
  <2> QED
    BY <1>6, <2>3, QuietDecides
<1>9. Counted'
  <2>1. ASSUME NEW h \in Objs
        PROVE  rc'[h] = Cardinality(Strong(h)') /\ wc'[h] = Cardinality(Weak(h)')
    <3>1. rc[h] = Cardinality(SpTo(h)) /\ wc[h] = Cardinality(WpTo(h)) /\ h # Gone
      BY <1>1, Between, Names
    <3>2. Strong(h)' = SpTo(h)
      BY <1>1, <1>4, <1>7, <3>1 DEF Strong, SpTo
    <3>3. Weak(h)' = WpTo(h)
      BY <1>1, <1>2, <1>7, PlacesApart DEF Weak, WpTo
    <3> QED
      BY <1>1, <3>1, <3>2, <3>3
  <2>2. rc' \in [Objs -> Nat] /\ wc' \in [Objs -> Nat]
    BY <1>1, <1>2 DEF Types
  <2> QED
    BY <1>7, <2>1, <2>2, CountedThen
<1>10. StackShape'
  <2>1. sp'[x] = sp[p]
    BY <1>2, <1>4
  <2>2. sp[p] # NULL => rc[sp[p]] > 0
    BY <1>1, <1>3, Between, HeldLives
  <2>3. Bottom' = <<"retain", x>>
    BY <1>6 DEF a
  <2>4. RetainLeft(x)'
    BY <1>1, <1>3, <1>6, <2>1, <2>2, <2>3 DEF RetainLeft
  <2> QED
    BY <1>2, <2>4 DEF StackShape
<1> QED
  BY <1>1, <1>2, <1>4, <1>6, <1>8, <1>9, <1>10 DEF IInv, Types, IsSeq, NoFault

LEMMA SpMoveKeeps ==
    ASSUME Plain, IInv, NEW x \in SpVars, NEW p \in SpReach, SpMove(x, p)
    PROVE  IInv'
<1>1. /\ stack = <<>> /\ stack' = <<>> /\ UNCHANGED <<mem, rc, wc, wp, fault>>
      /\ sp[x] = Gone /\ sp' = [sp EXCEPT ![x] = sp[p], ![p] = NULL]
  BY DEF SpMove, Do, Idle, counters
<1>2. Types /\ x \in SpPlaces /\ x \in SpRoots
  BY DEF IInv, SpPlaces, SpRoots
<1>3. p \in SpPlaces /\ sp[p] \in Objs \cup {NULL} /\ sp[p] # Gone /\ p # x
  BY <1>1, ReachKept
<1>4. /\ sp' \in [SpPlaces -> Objs \cup {NULL, Gone}]
      /\ \A e \in SpPlaces : sp'[e] = IF e = p THEN NULL ELSE IF e = x THEN sp[p] ELSE sp[e]
  BY <1>1, <1>2, <1>3 DEF Types
<1>5. ASSUME NEW h \in Objs
      PROVE  /\ ByCounters(h)'
             /\ rc'[h] = Cardinality(SpTo(h)') /\ wc'[h] = Cardinality(WpTo(h)')
  <2>1. /\ ByCounters(h) /\ rc[h] = Cardinality(SpTo(h)) /\ wc[h] = Cardinality(WpTo(h))
        /\ h # Gone /\ h # NULL
    BY <1>1, Between, Names
  <2>2. WpTo(h)' = WpTo(h)
    BY <1>1 DEF WpTo
  <2>3. sp'[NextOf(h)] = Gone <=> sp[NextOf(h)] = Gone
    BY <1>2, <1>3, <1>4, Names, PlacesApart
  <2>4. ByCounters(h)'
    BY <1>1, <2>1, <2>3 DEF ByCounters, NextOf, BackOf
  <2>5. Cardinality(SpTo(h)') = Cardinality(SpTo(h))
    <3>1. CASE h = sp[p]
      <4>1. SpTo(h)' = (SpTo(h) \ {p}) \cup {x} /\ p \in SpTo(h) /\ x \notin SpTo(h)
        BY <1>1, <1>2, <1>3, <1>4, <2>1, <3>1 DEF SpTo
      <4>2. SpTo(h) \subseteq SpPlaces
        BY DEF SpTo
      <4> QED
        BY <4>1, <4>2, CountExchange
    <3>2. CASE h # sp[p]
      <4>1. SpTo(h)' = SpTo(h)
        BY <1>1, <1>2, <1>3, <1>4, <2>1, <3>2 DEF SpTo
      <4> QED
        BY <4>1
    <3> QED
      BY <3>1, <3>2
  <2> QED
    BY <1>1, <2>1, <2>2, <2>4, <2>5
<1> QED
  BY <1>1, <1>2, <1>4, <1>5, Writes DEF Types

LEMMA WpMoveKeeps ==
    ASSUME Plain, IInv, NEW w \in WpVars, NEW p \in WpReach, WpMove(w, p)
    PROVE  IInv'
<1>1. /\ stack = <<>> /\ stack' = <<>> /\ UNCHANGED <<mem, rc, wc, sp, fault>>
      /\ wp[w] = Gone /\ wp' = [wp EXCEPT ![w] = wp[p], ![p] = NULL]
  BY DEF WpMove, Do, Idle, counters
<1>2. Types /\ w \in WpPlaces
  BY DEF IInv, WpPlaces
<1>3. p \in WpVars /\ p \in WpPlaces /\ wp[p] \in Objs \cup {NULL} /\ wp[p] # Gone /\ p # w
  BY <1>1, WeakReach
<1>4. /\ wp' \in [WpPlaces -> Objs \cup {NULL, Gone}]
      /\ \A e \in WpPlaces : wp'[e] = IF e = p THEN NULL ELSE IF e = w THEN wp[p] ELSE wp[e]
  BY <1>1, <1>2, <1>3 DEF Types
<1>5. ASSUME NEW h \in Objs
      PROVE  /\ ByCounters(h)'
             /\ rc'[h] = Cardinality(SpTo(h)') /\ wc'[h] = Cardinality(WpTo(h)')
  <2>1. /\ ByCounters(h) /\ rc[h] = Cardinality(SpTo(h)) /\ wc[h] = Cardinality(WpTo(h))
        /\ h # Gone /\ h # NULL
    BY <1>1, Between, Names
  <2>2. SpTo(h)' = SpTo(h)
    BY <1>1 DEF SpTo
  <2>3. wp'[BackOf(h)] = wp[BackOf(h)]
    BY <1>3, <1>4, Names
  <2>4. ByCounters(h)'
    BY <1>1, <2>1, <2>3 DEF ByCounters, NextOf, BackOf
  <2>5. Cardinality(WpTo(h)') = Cardinality(WpTo(h))
    <3>1. CASE h = wp[p]
      <4>1. WpTo(h)' = (WpTo(h) \ {p}) \cup {w} /\ p \in WpTo(h) /\ w \notin WpTo(h)
        BY <1>1, <1>2, <1>3, <1>4, <2>1, <3>1 DEF WpTo
      <4>2. WpTo(h) \subseteq WpPlaces
        BY DEF WpTo
      <4> QED
        BY <4>1, <4>2, CountExchange
    <3>2. CASE h # wp[p]
      <4>1. WpTo(h)' = WpTo(h)
        BY <1>1, <1>2, <1>3, <1>4, <2>1, <3>2 DEF WpTo
      <4> QED
        BY <4>1
    <3> QED
      BY <3>1, <3>2
  <2> QED
    BY <1>1, <2>1, <2>2, <2>4, <2>5
<1> QED
  BY <1>1, <1>2, <1>4, <1>5, Writes DEF Types

LEMMA StatementsKeep ==
    ASSUME Plain, IInv, Statements
    PROVE  IInv'
<1>1. \A w \in WpVars : ~WpDeclare(w)
  BY DEF Plain, WpDeclare
<1>2. \A d, r : ~WpCopyAssign(d, r)
  BY DEF Plain, WpCopyAssign
<1>3. CASE \E x \in SpVars : \/ \E o \in Objs : SpAlloc(x, o)
                             \/ SpDeclare(x) \/ SpEnd(x)
  BY <1>3, SpAllocKeeps, SpDeclareKeeps, SpEndKeeps
<1>4. CASE \E x \in SpVars : \/ \E p \in SpReach : SpCopy(x, p) \/ SpMove(x, p)
                             \/ \E p \in WpReach : WpLock(x, p)
  BY <1>4, SpCopyKeeps, SpMoveKeeps, WpLockKeeps
<1>5. CASE \E d \in SpReach : SpReset(d) \/ \E p \in SpReach : SpAssign(d, p)
  BY <1>5, SpResetKeeps, SpAssignKeeps
<1>6. CASE \E w \in WpVars : WpEnd(w) \/ \E p \in WpReach : WpMove(w, p)
  BY <1>6, WpEndKeeps, WpMoveKeeps
<1>7. CASE \E w \in WpVars : \/ \E p \in SpReach : WpFrom(w, sp[p])
                             \/ \E p \in WpReach : WpFrom(w, wp[p])
  BY <1>7, WpFromKeeps
<1>8. CASE \E d \in WpReach : WpReset(d) \/ \E p \in SpReach : WpAssign(d, sp[p])
  BY <1>8, WpResetKeeps, WpAssignKeeps
<1> QED
  BY <1>1, <1>2, <1>3, <1>4, <1>5, <1>6, <1>7, <1>8 DEF Statements

LEMMA InitHolds == Init => IInv
<1> SUFFICES ASSUME Init PROVE IInv
  OBVIOUS
<1>1. stack = <<>> /\ IsSeq(stack) /\ Len(stack) = 0
  BY Lists DEF Init
<1>2. Types
  BY <1>1 DEF Init, Types, IsSeq
<1>3. Quiet /\ Stale = {} /\ \A o : Due("release", o) = 0 /\ Due("releaseWeak", o) = 0
  BY <1>1 DEF Quiet, Stale, Due
<1>4. ASSUME NEW o \in Objs
      PROVE  Decided(o) /\ rc[o] = 0 /\ wc[o] = 0 /\ SpTo(o) = {} /\ WpTo(o) = {}
  <2>1. /\ mem[o] = "unused" /\ rc[o] = 0 /\ wc[o] = 0
        /\ \A p \in SpPlaces : sp[p] = Gone
        /\ \A p \in WpPlaces : wp[p] = Gone
    BY DEF Init
  <2>2. ByCounters(o)
    BY <2>1, Names DEF ByCounters
  <2>3. SpTo(o) = {} /\ WpTo(o) = {}
    BY <2>1, Names DEF SpTo, WpTo
  <2> QED
    BY <1>3, <2>1, <2>2, <2>3, QuietDecides
<1>5. Counted
  <2>1. ASSUME NEW o \in Objs
        PROVE  /\ rc[o] = Cardinality(SpTo(o) \ Stale) + Due("release", o)
               /\ wc[o] = Cardinality(WpTo(o) \ Stale) + Due("releaseWeak", o)
    <3>1. SpTo(o) \ Stale = {} /\ WpTo(o) \ Stale = {}
      BY <1>4
    <3>2. Cardinality({}) = 0
      BY FS_EmptySet
    <3> QED
      BY <1>3, <1>4, <3>1, <3>2
  <2> QED
    BY <2>1 DEF Counted
<1>6. StackShape /\ NoFault
  BY <1>1 DEF StackShape, NoFault, Init
<1> QED
  BY <1>2, <1>4, <1>5, <1>6 DEF IInv

-----------------------------------------------------------------------------
(* The theorems.                                                           *)

\* The invariant: every counter is the number of pointers to the object, less
\* the place the statement has still to write, plus the reference about to be
\* dropped; what is to be destroyed or freed is known from the counters.
THEOREM SmartPtrInvariant ==
    ASSUME Plain
    PROVE  Spec => []IInv
<1>1. Init => IInv
  BY InitHolds
<1>2. IInv /\ [Next]_vars => IInv'
  <2> SUFFICES ASSUME IInv, [Next]_vars PROVE IInv'
    OBVIOUS
  <2>1. CASE Next
    BY <2>1, StatementsKeep, CallsKeep DEF Next
  <2>2. CASE UNCHANGED vars
    <3>1. UNCHANGED <<mem, rc, wc, sp, wp, stack, fault>>
      BY <2>2 DEF vars
    <3>2. Types'
      BY <3>1 DEF IInv, Types
    <3>3. Counted'
      BY <3>1 DEF IInv, Counted, SpTo, WpTo, Stale, Bottom, Due
    <3>4. ASSUME NEW o \in Objs PROVE Decided(o)'
      <4>1. Decided(o)
        BY DEF IInv
      <4> QED
        BY <3>1, <4>1 DEF Decided, InOrder, Pending, FieldLeft, NextOf, BackOf
    <3>5. StackShape'
      <4>2. ASSUME NEW d \in SpPlaces
            PROVE  /\ SetLeft(d) => SetLeft(d)'
                   /\ RetainLeft(d) => RetainLeft(d)'
                   /\ \A p \in SpRoots : StoreLeft(d, p) => StoreLeft(d, p)'
        BY <3>1 DEF SetLeft, RetainLeft, StoreLeft, Bottom, Kept, Above, Cascade, NextOf
      <4>3. ASSUME NEW w \in WpVars
            PROVE  /\ SetWeakLeft(w) => SetWeakLeft(w)'
                   /\ \A r \in Objs : StoreWeakLeft(w, r) => StoreWeakLeft(w, r)'
        BY <3>1 DEF SetWeakLeft, StoreWeakLeft, Bottom, Kept, Above, Cascade, NextOf, Allocated
      <4>4. ASSUME NEW x \in SpVars, NEW o \in Objs \cup {NULL}
            PROVE  LockLeft(x, o) => LockLeft(x, o)'
        BY <3>1 DEF LockLeft, Bottom, Allocated
      <4>5. StackShape
        BY DEF IInv
      <4> QED
        BY <3>1, <4>2, <4>3, <4>4, <4>5 DEF StackShape
    <3> QED
      BY <3>1, <3>2, <3>3, <3>4, <3>5 DEF IInv, NoFault
  <2> QED
    BY <2>1, <2>2
<1> QED
  BY <1>1, <1>2, PTL DEF Spec

\* No plain program reaches an access to freed memory, to a destroyed pointer
\* or through a null one, however its objects own each other.
THEOREM SmartPtrNoFault ==
    ASSUME Plain
    PROVE  Spec => []NoFault
<1>1. IInv => NoFault
  BY DEF IInv
<1> QED
  BY <1>1, SmartPtrInvariant, PTL

\* After each statement an object lives exactly as long as an sp<T> refers to
\* it, and its memory exactly as long as an sp<T> or a wp<T> does.
THEOREM SmartPtrSettled ==
    ASSUME Plain
    PROVE  Spec => []Settled
<1>1. IInv => Settled
  <2> SUFFICES ASSUME IInv, stack = <<>>, NEW o \in Objs, mem[o] # "unused"
               PROVE  /\ rc[o] = Cardinality(SpTo(o)) /\ wc[o] = Cardinality(WpTo(o))
                      /\ mem[o] = "live" <=> SpTo(o) # {}
                      /\ mem[o] = "freed" <=> SpTo(o) \cup WpTo(o) = {}
    BY DEF Settled
  <2>1. ByCounters(o) /\ rc[o] = Cardinality(SpTo(o)) /\ wc[o] = Cardinality(WpTo(o))
    BY Between
  <2>2. SpTo(o) \subseteq SpPlaces /\ WpTo(o) \subseteq WpPlaces
    BY DEF SpTo, WpTo
  <2>3. /\ rc[o] \in Nat /\ (rc[o] = 0 <=> SpTo(o) = {})
        /\ wc[o] \in Nat /\ (wc[o] = 0 <=> WpTo(o) = {})
    BY <2>1, <2>2, CountPlaces
  <2> QED
    BY <2>1, <2>3 DEF ByCounters
<1> QED
  BY <1>1, SmartPtrInvariant, PTL

\* While a destructor is still to run or running, its object keeps its memory.
THEOREM SmartPtrDestructorOnLiveMemory ==
    ASSUME Plain
    PROVE  Spec => []DestructorOnLiveMemory
<1>1. IInv => DestructorOnLiveMemory
  <2> SUFFICES ASSUME IInv, NEW i \in DOMAIN stack, stack[i][1] = "destroy"
               PROVE  mem[stack[i][2]] = "live"
    BY DEF DestructorOnLiveMemory
  <2>1. i \in 1 .. Len(stack)
    <3>1. stack \in Seq({stack[j] : j \in 1 .. Len(stack)})
      BY DEF IInv, Types
    <3> QED
      BY <3>1
  <2>2. PICK o \in Objs : stack[i][2] = o
    <3>1. Bottom = stack[Len(stack)] /\ Len(stack) \in Nat
      <4>1. stack \in Seq({stack[j] : j \in 1 .. Len(stack)})
        BY DEF IInv, Types
      <4> QED
        BY <4>1 DEF Bottom
    <3>2. StackShape /\ stack # <<>>
      BY <2>1, Lists DEF IInv
    <3>3. Bottom[1] = "destroy" \/ i # Len(stack)
      BY <3>1
    <3>4. Cascade(i)
      <4>1. ASSUME Above(1), Bottom[1] # "destroy" PROVE Cascade(i)
        <5>1. i \in 1 .. Len(stack) - 1
          BY <2>1, <3>1, <3>3, <4>1
        <5> QED
          BY <4>1, <5>1 DEF Above
      <4>2. ASSUME NEW d, NEW p, StoreLeft(d, p) PROVE Cascade(i)
        <5>1. i # Len(stack) /\ i # Len(stack) - 1
          BY <3>3, <4>2 DEF StoreLeft
        <5>2. i \in 1 .. Len(stack) - 2
          BY <2>1, <3>1, <5>1
        <5> QED
          BY <4>2, <5>2 DEF StoreLeft, Above
      <4>3. Bottom[1] \in Own => Len(stack) # 1
        BY <2>1, <3>1 DEF Own
      <4>4. \A d : /\ RetainLeft(d) => FALSE
                   /\ SetLeft(d) => Above(1) /\ Bottom[1] # "destroy"
        BY <4>3 DEF RetainLeft, SetLeft, Own
      <4>5. \A w : /\ SetWeakLeft(w) => Above(1) /\ Bottom[1] # "destroy"
                   /\ \A r : StoreWeakLeft(w, r) => Above(1) /\ Bottom[1] # "destroy"
        BY DEF SetWeakLeft, StoreWeakLeft
      <4>6. \A x, o : ~LockLeft(x, o)
        BY <4>3 DEF LockLeft, Own
      <4> QED
        BY <3>2, <4>1, <4>2, <4>4, <4>5, <4>6 DEF StackShape
    <3> QED
      BY <3>4 DEF Cascade
  <2>3. Pending("destroy", o)
    BY <2>1, <2>2 DEF Pending
  <2> QED
    BY <2>2, <2>3 DEF IInv, Decided
<1> QED
  BY <1>1, SmartPtrInvariant, PTL

-----------------------------------------------------------------------------
(* What remains true of any program, whatever is in Uses.  Counters may be *)
(* too high (a weak reference is lost), destroyed objects may be referred  *)
(* to again (x = x), and a program may end in a fault; but no counter is   *)
(* too low, and memory that is freed has counters that are zero.           *)

\* No counter is lower than the number of pointers, the place that the
\* statement writes last left out, the reference it is about to drop included.
AtLeast ==
    \A o \in Objs :
        /\ Cardinality(Strong(o)) + Due("release", o) <= rc[o]
        /\ Cardinality(Weak(o)) + Due("releaseWeak", o) <= wc[o]

\* What is to be destroyed is not referred to, what is to be freed not pointed to.
Doomed(o) ==
    /\ Pending("destroy", o) => rc[o] = 0
    /\ Pending("free", o) \/ mem[o] \in {"unused", "freed"} => rc[o] = 0 /\ wc[o] = 0

\* No cascade ends the place: it is a variable or the field of an object that a
\* variable refers to.
Safe(d) ==
    \/ d \in SpRoots \cup WpVars
    \/ \E h \in Objs, x \in SpRoots : d \in {NextOf(h), BackOf(h)} /\ sp[x] = h

\* The last call of a statement.
LastCall(call) ==
    \/ call[1] = "retain" /\ call[2] \in SpPlaces /\ Safe(call[2])
    \/ /\ call[1] = "set" /\ call[3] \in {NULL, Gone}
       /\ call[2] \in SpPlaces \cup WpPlaces /\ Safe(call[2])
    \/ call[1] = "storeWeak" /\ call[2] \in WpPlaces /\ Safe(call[2])
    \/ call[1] = "lock" /\ call[2] \in SpVars

\* The calls before it.
InCascade(call) == call[1] \in {"destroy", "free"} /\ call[2] \in Objs
Dropping(call)  == call[1] \in {"release", "releaseWeak"}
Before(i) ==
    \/ i = 1 /\ Dropping(stack[i])
    \/ InCascade(stack[i])
    \/ /\ i = Len(stack) - 1 /\ stack[i][1] = "store"
       /\ Bottom[1] = "retain" /\ stack[i][2] = Bottom[2] /\ stack[i][3] \in SpPlaces

LooseShape == stack # <<>> => LastCall(Bottom) /\ \A i \in 1 .. Len(stack) - 1 : Before(i)

LooseTypes ==
    /\ mem \in [Objs -> {"unused", "live", "destroyed", "freed"}]
    /\ rc \in [Objs -> Nat] /\ wc \in [Objs -> Nat]
    /\ sp \in [SpPlaces -> Objs \cup {NULL, Gone}]
    /\ wp \in [WpPlaces -> Objs \cup {NULL, Gone, Junk}]
    /\ IsSeq(stack)

Loose == LooseTypes /\ AtLeast /\ (\A o \in Objs : Doomed(o)) /\ LooseShape

\* A count that stays below a counter: neither grows in relation to it, or
\* a place is added to both or removed from both.
LEMMA StaysBelow ==
    ASSUME NEW G, NEW H, NEW x, G \subseteq SpPlaces \/ G \subseteq WpPlaces,
           NEW due \in {0, 1}, NEW later \in {0, 1}, NEW c \in Nat, NEW c2 \in Int,
           Cardinality(G) + due <= c,
           \/ H \subseteq G /\ c - due <= c2 - later
           \/ H \subseteq G \cup {x} /\ c - due + 1 <= c2 - later
           \/ x \in G /\ H \subseteq G \ {x} /\ c - due - 1 <= c2 - later
    PROVE  Cardinality(H) + later <= c2 /\ c2 \in Nat
<1>1. IsFiniteSet(G)
  BY PlacesFinite, FS_Subset
<1>2. Cardinality(G) \in Nat
  BY <1>1, FS_CardinalityType
<1>3. CASE H \subseteq G /\ c - due <= c2 - later
  <2>1. Cardinality(H) <= Cardinality(G) /\ Cardinality(H) \in Nat
    BY <1>1, <1>3, FS_Subset, FS_CardinalityType
  <2> QED
    BY <1>2, <1>3, <2>1
<1>4. CASE H \subseteq G \cup {x} /\ c - due + 1 <= c2 - later
  <2>1. IsFiniteSet(G \cup {x}) /\ Cardinality(G \cup {x}) \in Nat /\ Cardinality(G \cup {x}) <= Cardinality(G) + 1
    <3>1. IsFiniteSet(G \cup {x}) /\ (Cardinality(G \cup {x}) = Cardinality(G) \/ Cardinality(G \cup {x}) = Cardinality(G) + 1)
      BY <1>1, FS_AddElement
    <3> QED
      BY <1>2, <3>1
  <2>2. Cardinality(H) <= Cardinality(G \cup {x}) /\ Cardinality(H) \in Nat
    BY <1>4, <2>1, FS_Subset, FS_CardinalityType
  <2>3. Cardinality(H) <= Cardinality(G) + 1
    BY <1>2, <2>1, <2>2
  <2> QED
    BY <1>2, <1>4, <2>2, <2>3
<1>5. CASE x \in G /\ H \subseteq G \ {x} /\ c - due - 1 <= c2 - later
  <2>1. IsFiniteSet(G \ {x}) /\ Cardinality(G \ {x}) = Cardinality(G) - 1
    BY <1>1, <1>5, FS_RemoveElement
  <2>2. Cardinality(H) <= Cardinality(G \ {x}) /\ Cardinality(H) \in Nat
    BY <1>5, <2>1, FS_Subset, FS_CardinalityType
  <2>3. Cardinality(H) <= Cardinality(G) - 1
    BY <2>1, <2>2
  <2> QED
    BY <1>2, <1>5, <2>2, <2>3
<1> QED
  BY <1>3, <1>4, <1>5

\* Nothing refers to an object whose counter is zero.
LEMMA NothingRefers ==
    ASSUME LooseTypes, AtLeast, NEW o \in Objs
    PROVE  /\ rc[o] = 0 => Strong(o) = {} /\ Due("release", o) = 0
           /\ wc[o] = 0 => Weak(o) = {} /\ Due("releaseWeak", o) = 0
<1>1. /\ Cardinality(Strong(o)) \in Nat /\ (Cardinality(Strong(o)) = 0 <=> Strong(o) = {})
      /\ Cardinality(Weak(o)) \in Nat /\ (Cardinality(Weak(o)) = 0 <=> Weak(o) = {})
      /\ Due("release", o) \in {0, 1} /\ Due("releaseWeak", o) \in {0, 1}
  BY StrongAndWeak
<1>2. /\ Cardinality(Strong(o)) + Due("release", o) <= rc[o]
      /\ Cardinality(Weak(o)) + Due("releaseWeak", o) <= wc[o]
  BY DEF AtLeast
<1>3. rc[o] \in Nat /\ wc[o] \in Nat
  BY DEF LooseTypes
<1> QED
  BY <1>1, <1>2, <1>3

\* Its fields are not what the statement is about to write.
LEMMA FieldsNotStale ==
    ASSUME LooseTypes, AtLeast, LooseShape, NEW o \in Objs, rc[o] = 0
    PROVE  NextOf(o) \notin Stale /\ BackOf(o) \notin Stale
<1> SUFFICES ASSUME NEW d \in {NextOf(o), BackOf(o)}, d \in Stale PROVE FALSE
  OBVIOUS
<1>1. stack # <<>> /\ Bottom[1] \in {"retain", "set", "storeWeak"} /\ Stale = {d} /\ Bottom[2] = d
  BY DEF Stale
<1>2. Safe(d)
  BY <1>1 DEF LooseShape, LastCall
<1>3. d \notin SpRoots \cup WpVars /\ d \notin SpRoots
  BY Names, PlacesApart DEF SpPlaces, WpPlaces
<1>4. PICK h \in Objs, x \in SpRoots : d \in {NextOf(h), BackOf(h)} /\ sp[x] = h
  BY <1>2, <1>3 DEF Safe
<1>5. h = o
  BY <1>4, Names
<1>6. x \in Strong(o)
  BY <1>1, <1>3, <1>4, <1>5 DEF Strong, SpTo, SpPlaces
<1> QED
  BY <1>6, NothingRefers

\* A call before the last: what it pushes comes first, the rest stays.
LEMMA LooseGoesOn ==
    ASSUME LooseTypes, LooseShape, stack # <<>>, InCascade(stack[1]) \/ Dropping(stack[1]),
           NEW P, IsSeq(P), stack' = P \o Tail(stack),
           \A i \in 1 .. Len(P) : (i = 1 /\ Dropping(P[i])) \/ InCascade(P[i]),
           sp' = sp \/ \E o \in Objs : sp' = [sp EXCEPT ![NextOf(o)] = Gone]
    PROVE  /\ LooseShape' /\ IsSeq(stack') /\ stack' # <<>> /\ Stale' = Stale
           /\ \A o : \A m \in {"release", "releaseWeak"} :
                  Due(m, o)' = IF Len(P) > 0 /\ P[1][1] = m /\ P[1][2] = o THEN 1 ELSE 0
           /\ \A m, o : Pending(m, o)' => In(P, m, o) \/ Pending(m, o)
<1> DEFINE n == Len(stack)
           k == Len(P)
<1>1. IsSeq(stack) /\ n \in Nat \ {0} /\ Head(stack) = stack[1]
  BY HeadAndRest DEF LooseTypes
<1>2. /\ IsSeq(stack') /\ Len(stack') = n - 1 + k /\ k \in Nat
      /\ \A i \in 1 .. k : stack'[i] = P[i]
      /\ \A i \in 2 .. n : stack'[i - 1 + k] = stack[i]
      /\ stack' # <<>> => Head(stack') = stack'[1]
  BY <1>1, StackAfter
<1> HIDE DEF n, k
<1>3. n >= 2
  <2>1. n # 1
    <3>1. n = 1 => Bottom = stack[1]
      BY DEF Bottom, n
    <3> QED
      BY <3>1 DEF LooseShape, LastCall, InCascade, Dropping
  <2> QED
    BY <1>1, <2>1
<1>4. Len(stack') \in Nat /\ Len(stack') >= 1 /\ stack' # <<>> /\ Head(stack') = stack'[1]
  <2>1. Len(stack') \in Nat /\ Len(stack') >= 1
    BY <1>1, <1>2, <1>3
  <2>2. stack' # <<>>
    BY <2>1, Lists
  <2> QED
    BY <1>2, <2>1, <2>2
<1>5. Bottom' = Bottom
  <2>1. n \in 2 .. n /\ n - 1 + k = Len(stack')
    BY <1>1, <1>2, <1>3
  <2>2. stack'[n - 1 + k] = stack[n]
    BY <1>2, <2>1
  <2> QED
    BY <2>1, <2>2 DEF Bottom, n
<1>6. \A x \in SpRoots : sp'[x] = sp[x]
  <2>1. \A x \in SpRoots : x \in SpPlaces
    BY DEF SpPlaces
  <2> QED
    BY <2>1, Names DEF LooseTypes
<1>7. \A d : Safe(d) => Safe(d)'
  BY <1>6 DEF Safe, NextOf, BackOf
<1>8. LastCall(Bottom) /\ LastCall(Bottom)'
  BY <1>5, <1>7 DEF LooseShape, LastCall
<1>9. ASSUME NEW i \in 2 .. n - 1 PROVE Before(i - 1 + k)'
  <2>1. Before(i) /\ i # 1 /\ stack'[i - 1 + k] = stack[i]
    BY <1>1, <1>2, <1>9 DEF LooseShape, n
  <2>2. i = n - 1 => i - 1 + k = Len(stack') - 1
    BY <1>1, <1>2
  <2> QED
    BY <1>5, <2>1, <2>2 DEF Before, InCascade, n
<1>10. ASSUME NEW i \in 1 .. Len(stack') - 1 PROVE Before(i)'
  <2>1. CASE i <= k
    <3>1. i \in 1 .. k /\ stack'[i] = P[i]
      BY <1>2, <2>1
    <3> QED
      BY <3>1 DEF Before, InCascade, Dropping, k
  <2>2. CASE i > k
    <3> DEFINE j == i + 1 - k
    <3>1. j \in 2 .. n - 1 /\ j - 1 + k = i
      BY <1>1, <1>2, <2>2
    <3> HIDE DEF j
    <3>2. Before(j - 1 + k)'
      BY <1>9, <3>1
    <3> QED
      BY <3>1, <3>2
  <2> QED
    BY <1>2, <2>1, <2>2
<1>11. LooseShape'
  BY <1>4, <1>8, <1>10 DEF LooseShape
<1>12. Stale' = Stale
  BY <1>4, <1>5 DEF Stale
<1>13. ASSUME NEW m \in {"release", "releaseWeak"}, NEW o
       PROVE  Due(m, o)' = IF k > 0 /\ P[1][1] = m /\ P[1][2] = o THEN 1 ELSE 0
  <2>1. CASE k > 0
    <3>1. stack'[1] = P[1]
      <4>1. 1 \in 1 .. k
        BY <1>2, <2>1
      <4> QED
        BY <1>2, <4>1
    <3> QED
      BY <1>4, <2>1, <3>1 DEF Due
  <2>2. CASE k = 0
    <3>1. stack'[1] = stack[2]
      <4>1. 2 \in 2 .. n /\ 2 - 1 + k = 1
        BY <1>1, <1>3, <2>2
      <4> QED
        BY <1>2, <4>1
    <3>2. stack[2][1] # m
      <4>1. CASE n = 2
        BY <1>8, <4>1 DEF LastCall, Bottom, n
      <4>2. CASE n # 2
        <5>1. 2 \in 1 .. n - 1
          BY <1>1, <1>3, <4>2
        <5>2. Before(2)
          BY <5>1 DEF LooseShape, n
        <5> QED
          BY <5>2 DEF Before, InCascade
      <4> QED
        BY <4>1, <4>2
    <3> QED
      BY <1>4, <2>2, <3>1, <3>2 DEF Due
  <2> QED
    BY <1>2, <2>1, <2>2
<1>14. \A m, o : Pending(m, o)' => In(P, m, o) \/ Pending(m, o)
  <2> TAKE m, o
  <2>1. Pending(m, o)' <=> In(P, m, o) \/ Rest(m, o)
    BY <1>1, RestStays
  <2>2. Rest(m, o) => Pending(m, o)
    BY <1>1, HeadAndRest
  <2> QED
    BY <2>1, <2>2
<1> QED
  BY <1>2, <1>4, <1>11, <1>12, <1>13, <1>14 DEF k

\* A call of a cascade that writes no place but perhaps a field of the object
\* whose destructor runs.
LEMMA LooseCascade ==
    ASSUME Loose, stack # <<>>, InCascade(stack[1]) \/ Dropping(stack[1]),
           NEW P, IsSeq(P), stack' = P \o Tail(stack),
           \A i \in 1 .. Len(P) : (i = 1 /\ Dropping(P[i])) \/ InCascade(P[i]),
           sp' = sp \/ \E o \in Objs : sp' = [sp EXCEPT ![NextOf(o)] = Gone],
           wp' \in [WpPlaces -> Objs \cup {NULL, Gone, Junk}],
           mem' \in [Objs -> {"unused", "live", "destroyed", "freed"}],
           rc' \in [Objs -> Nat], wc' \in [Objs -> Nat],
           \A o \in Objs :
               /\ Cardinality(Strong(o)') + Due("release", o)' <= rc'[o]
               /\ Cardinality(Weak(o)') + Due("releaseWeak", o)' <= wc'[o]
               /\ rc'[o] <= rc[o] /\ wc'[o] <= wc[o]
               /\ In(P, "destroy", o) => Pending("destroy", o) \/ rc'[o] = 0
               /\ In(P, "free", o) => rc'[o] = 0 /\ wc'[o] = 0
               /\ mem'[o] \in {"unused", "freed"} => mem'[o] = mem[o] \/ Pending("free", o)
    PROVE  Loose'
<1>1. LooseTypes /\ AtLeast /\ LooseShape
  BY DEF Loose
<1>2. /\ LooseShape' /\ IsSeq(stack')
      /\ \A m, o : Pending(m, o)' => In(P, m, o) \/ Pending(m, o)
  BY <1>1, LooseGoesOn
<1>3. ASSUME NEW o \in Objs PROVE Doomed(o)'
  <2>1. Doomed(o)
    BY DEF Loose
  <2>2. rc[o] \in Nat /\ wc[o] \in Nat /\ rc'[o] \in Nat /\ wc'[o] \in Nat
    BY <1>1 DEF LooseTypes
  <2>3. (rc[o] = 0 => rc'[o] = 0) /\ (wc[o] = 0 => wc'[o] = 0)
    BY <2>2
  <2> QED
    BY <1>2, <2>1, <2>3 DEF Doomed
<1>4. sp' \in [SpPlaces -> Objs \cup {NULL, Gone}]
  BY <1>1 DEF LooseTypes
<1>5. LooseTypes'
  BY <1>2, <1>4 DEF LooseTypes, IsSeq
<1>6. AtLeast'
  BY DEF AtLeast
<1> QED
  BY <1>2, <1>3, <1>5, <1>6 DEF Loose

\* In the middle of a cascade counts and counters change in the same way.
LEMMA LooseCounts ==
    ASSUME LooseTypes, AtLeast, NEW o \in Objs
    PROVE  /\ Strong(o) \subseteq SpPlaces /\ Weak(o) \subseteq WpPlaces
           /\ Cardinality(Strong(o)) + Due("release", o) <= rc[o]
           /\ Cardinality(Weak(o)) + Due("releaseWeak", o) <= wc[o]
           /\ rc[o] \in Nat /\ wc[o] \in Nat
           /\ Cardinality(Strong(o)) \in Nat /\ Cardinality(Weak(o)) \in Nat
           /\ \A m : Due(m, o) \in {0, 1}
  BY StrongAndWeak DEF LooseTypes, AtLeast, Due

LEMMA LooseRelease ==
    ASSUME Loose, Release
    PROVE  Loose'
<1>1. LooseTypes /\ AtLeast /\ LooseShape
  BY DEF Loose
<1>2. /\ stack # <<>> /\ Head(stack) = stack[1] /\ stack[1][1] = "release" /\ Dropping(stack[1])
      /\ Defined(stack[1])
  BY <1>1, HeadAndRest DEF Release, Called, Dropping, LooseTypes
<1> DEFINE o == stack[1][2]
<1>3. Arg(1) = o /\ UNCHANGED <<mem, wc, sp, wp>>
  BY <1>2 DEF Arg, Release
<1>4. \A h \in Objs : Due("release", h) = (IF h = o THEN 1 ELSE 0) /\ Due("releaseWeak", h) = 0
  BY <1>2 DEF Due
<1>5. o = NULL \/ (o \in Objs /\ Allocated(o))
  BY <1>2 DEF Defined, Allocated
<1> HIDE DEF o
<1>6. PICK P : /\ IsSeq(P) /\ stack' = P \o Tail(stack)
               /\ \A i \in 1 .. Len(P) : InCascade(P[i]) /\ P[i][2] = o
               /\ rc' = IF o = NULL THEN rc ELSE [rc EXCEPT ![o] = @ - 1]
               /\ In(P, "destroy", o) => rc[o] = 1
               /\ In(P, "free", o) => rc[o] = 1 /\ wc[o] = 0
  <2>1. CASE o = NULL
    <3>1. stack' = Tail(stack) /\ rc' = rc
      BY <1>3, <2>1 DEF Release, Return
    <3>2. stack' = <<>> \o Tail(stack) /\ IsSeq(<<>>)
      <4>1. Tail(stack) \in Seq({stack[i] : i \in 1 .. Len(stack)})
        BY <1>1, <1>2 DEF LooseTypes, IsSeq
      <4> QED
        BY <3>1, <4>1, ConcatEmptySeq, Lists
    <3>3. \A i \in 1 .. Len(<<>>) : FALSE
      BY Lists
    <3>4. ~In(<<>>, "destroy", o) /\ ~In(<<>>, "free", o)
      BY <3>3 DEF In
    <3> QED
      BY <2>1, <3>1, <3>2, <3>3, <3>4
  <2>2. CASE o # NULL
    <3> DEFINE one  == rc[o] = 1
               last == rc[o] = 1 /\ wc[o] = 0
               a    == <<"destroy", o, Fields(o)>>
               b    == <<"free", o>>
               P    == IF last THEN <<a, b>> ELSE IF one THEN <<a>> ELSE <<>>
    <3>1. /\ rc' = [rc EXCEPT ![o] = @ - 1]
          /\ stack' = (When(one, a) \o When(last, b)) \o Tail(stack)
      BY <1>3, <2>2 DEF Release, Push, ReleaseAction
    <3>2. one \in BOOLEAN /\ last \in BOOLEAN /\ (last => one)
      OBVIOUS
    <3>3. stack' = P \o Tail(stack) /\ IsSeq(P)
      <4> HIDE DEF one, last
      <4> QED
        BY <3>1, <3>2, ReleasePushes
    <3>4. InCascade(a) /\ InCascade(b) /\ a[1] = "destroy" /\ b[1] = "free" /\ a[2] = o /\ b[2] = o
      BY <1>5, <2>2 DEF InCascade
    <3> HIDE DEF a, b
    <3>5. \A i \in 1 .. Len(P) : (P[i] = a /\ one) \/ (P[i] = b /\ last)
      <4>1. CASE last
        <5>1. Len(P) = 2 /\ P[1] = a /\ P[2] = b
          BY <4>1, Lists
        <5>2. \A i \in 1 .. 2 : i = 1 \/ i = 2
          OBVIOUS
        <5> QED
          BY <4>1, <5>1, <5>2
      <4>2. CASE ~last /\ one
        <5>1. Len(P) = 1 /\ P[1] = a
          BY <4>2, Lists
        <5>2. \A i \in 1 .. 1 : i = 1
          OBVIOUS
        <5> QED
          BY <4>2, <5>1, <5>2
      <4>3. CASE ~last /\ ~one
        <5>1. Len(P) = 0
          BY <4>3, Lists
        <5> QED
          BY <5>1
      <4> QED
        BY <4>1, <4>2, <4>3
    <3> HIDE DEF P
    <3>6. (In(P, "destroy", o) => one) /\ (In(P, "free", o) => last)
      BY <3>4, <3>5 DEF In
    <3>7. \A i \in 1 .. Len(P) : InCascade(P[i]) /\ P[i][2] = o
      BY <3>4, <3>5
    <3> QED
      BY <2>2, <3>1, <3>3, <3>6, <3>7
  <2> QED
    BY <2>1, <2>2
<1>7. \A h : h # o => ~In(P, "destroy", h) /\ ~In(P, "free", h)
  BY <1>6 DEF In
<1>8. /\ Stale' = Stale
      /\ \A h \in Objs : Due("release", h)' = 0 /\ Due("releaseWeak", h)' = 0
  <2>1. \A i \in 1 .. Len(P) : P[i][1] \notin {"release", "releaseWeak"}
    BY <1>6 DEF InCascade
  <2>2. Len(P) > 0 => 1 \in 1 .. Len(P)
    BY <1>1, <1>2, <1>6, StackAfter DEF LooseTypes
  <2> QED
    BY <1>1, <1>2, <1>3, <1>6, <2>1, <2>2, LooseGoesOn
<1>9. \A h : Strong(h)' = Strong(h) /\ Weak(h)' = Weak(h)
  BY <1>3, <1>8 DEF Strong, Weak, SpTo, WpTo
<1>10. ASSUME NEW h \in Objs
       PROVE  /\ Cardinality(Strong(h)') + Due("release", h)' <= rc'[h]
              /\ Cardinality(Weak(h)') + Due("releaseWeak", h)' <= wc'[h]
              /\ rc'[h] <= rc[h] /\ wc'[h] <= wc[h] /\ rc'[h] \in Nat
              /\ h = o => rc'[h] = rc[h] - 1
  <2>1. /\ Cardinality(Strong(h)) + Due("release", h) <= rc[h]
        /\ Cardinality(Weak(h)) + Due("releaseWeak", h) <= wc[h]
        /\ rc[h] \in Nat /\ wc[h] \in Nat
        /\ Cardinality(Strong(h)) \in Nat /\ Cardinality(Weak(h)) \in Nat
    BY <1>1, LooseCounts
  <2>2. rc'[h] = IF h = o THEN rc[h] - 1 ELSE rc[h]
    BY <1>1, <1>6, Names DEF LooseTypes
  <2>3. Due("release", h) = (IF h = o THEN 1 ELSE 0) /\ Due("releaseWeak", h) = 0
    BY <1>4
  <2>4. wc'[h] = wc[h] /\ Due("release", h)' = 0 /\ Due("releaseWeak", h)' = 0
    BY <1>3, <1>8
  <2>5. Strong(h)' = Strong(h) /\ Weak(h)' = Weak(h)
    BY <1>9
  <2>6. CASE h = o
    BY <2>1, <2>2, <2>3, <2>4, <2>5, <2>6
  <2>7. CASE h # o
    BY <2>1, <2>2, <2>3, <2>4, <2>5, <2>7
  <2> QED
    BY <2>6, <2>7
<1>11. rc' \in [Objs -> Nat] /\ wc' \in [Objs -> Nat]
  <2>1. DOMAIN rc' = Objs /\ rc' = [h \in Objs |-> rc'[h]]
    BY <1>1, <1>6 DEF LooseTypes
  <2> QED
    BY <1>1, <1>3, <1>10, <2>1 DEF LooseTypes
<1>12. \A h \in Objs : /\ In(P, "destroy", h) => rc'[h] = 0
                       /\ In(P, "free", h) => rc'[h] = 0 /\ wc'[h] = 0
  BY <1>3, <1>6, <1>7, <1>10
<1> QED
  BY <1>1, <1>2, <1>3, <1>6, <1>10, <1>11, <1>12, LooseCascade DEF LooseTypes

LEMMA LooseReleaseWeak ==
    ASSUME Loose, ReleaseWeak
    PROVE  Loose'
<1>1. LooseTypes /\ AtLeast /\ LooseShape
  BY DEF Loose
<1>2. /\ stack # <<>> /\ Head(stack) = stack[1] /\ stack[1][1] = "releaseWeak" /\ Dropping(stack[1])
      /\ Defined(stack[1])
  BY <1>1, HeadAndRest DEF ReleaseWeak, Called, Dropping, LooseTypes
<1> DEFINE o == stack[1][2]
           last == ReleaseWeakFrees(rc[o], wc[o])
           P == IF last THEN <<<<"free", o>>>> ELSE <<>>
<1>3. /\ UNCHANGED <<mem, rc, sp, wp>> /\ wc' = [wc EXCEPT ![o] = @ - 1]
      /\ stack' = When(last, <<"free", o>>) \o Tail(stack)
  <2>1. Arg(1) = o
    BY <1>2 DEF Arg
  <2> HIDE DEF o
  <2> QED
    BY <2>1 DEF ReleaseWeak, Push
<1>4. \A h \in Objs : Due("releaseWeak", h) = (IF h = o THEN 1 ELSE 0) /\ Due("release", h) = 0
  BY <1>2 DEF Due
<1>5. o \in Objs
  BY <1>2 DEF Defined, Allocated
<1>6. stack' = P \o Tail(stack) /\ IsSeq(P)
  <2> HIDE DEF last
  <2> QED
    BY <1>3, Lists DEF When
<1>7. /\ \A i \in 1 .. Len(P) : InCascade(P[i]) /\ P[i] = <<"free", o>>
      /\ \A h : ~In(P, "destroy", h) /\ (In(P, "free", h) => h = o /\ last)
  <2>1. CASE last
    <3>1. Len(P) = 1 /\ P[1] = <<"free", o>>
      BY <2>1, Lists
    <3>2. \A i \in 1 .. 1 : i = 1
      OBVIOUS
    <3> QED
      BY <1>5, <2>1, <3>1, <3>2 DEF In, InCascade
  <2>2. CASE ~last
    <3>1. Len(P) = 0
      BY <2>2, Lists
    <3> QED
      BY <3>1 DEF In
  <2> QED
    BY <2>1, <2>2
<1> HIDE DEF o, P, last
<1>8. /\ Stale' = Stale
      /\ \A h \in Objs : Due("release", h)' = 0 /\ Due("releaseWeak", h)' = 0
  <2>1. \A i \in 1 .. Len(P) : P[i][1] \notin {"release", "releaseWeak"}
    BY <1>7
  <2>2. Len(P) > 0 => 1 \in 1 .. Len(P)
    BY <1>1, <1>2, <1>6, StackAfter DEF LooseTypes
  <2> QED
    BY <1>1, <1>2, <1>3, <1>6, <1>7, <2>1, <2>2, LooseGoesOn
<1>9. \A h : Strong(h)' = Strong(h) /\ Weak(h)' = Weak(h)
  BY <1>3, <1>8 DEF Strong, Weak, SpTo, WpTo
<1>10. ASSUME NEW h \in Objs
       PROVE  /\ Cardinality(Strong(h)') + Due("release", h)' <= rc'[h]
              /\ Cardinality(Weak(h)') + Due("releaseWeak", h)' <= wc'[h]
              /\ rc'[h] <= rc[h] /\ wc'[h] <= wc[h] /\ wc'[h] \in Nat
              /\ h = o => wc'[h] = wc[h] - 1
  <2>1. /\ Cardinality(Strong(h)) + Due("release", h) <= rc[h]
        /\ Cardinality(Weak(h)) + Due("releaseWeak", h) <= wc[h]
        /\ rc[h] \in Nat /\ wc[h] \in Nat
        /\ Cardinality(Strong(h)) \in Nat /\ Cardinality(Weak(h)) \in Nat
    BY <1>1, LooseCounts
  <2>2. wc'[h] = IF h = o THEN wc[h] - 1 ELSE wc[h]
    BY <1>1, <1>3 DEF LooseTypes
  <2>3. Due("releaseWeak", h) = (IF h = o THEN 1 ELSE 0) /\ Due("release", h) = 0
    BY <1>4
  <2>4. rc'[h] = rc[h] /\ Due("release", h)' = 0 /\ Due("releaseWeak", h)' = 0
    BY <1>3, <1>8
  <2>5. Strong(h)' = Strong(h) /\ Weak(h)' = Weak(h)
    BY <1>9
  <2>6. CASE h = o
    BY <2>1, <2>2, <2>3, <2>4, <2>5, <2>6
  <2>7. CASE h # o
    BY <2>1, <2>2, <2>3, <2>4, <2>5, <2>7
  <2> QED
    BY <2>6, <2>7
<1>11. rc' \in [Objs -> Nat] /\ wc' \in [Objs -> Nat]
  <2>1. DOMAIN wc' = Objs /\ wc' = [h \in Objs |-> wc'[h]]
    BY <1>1, <1>3 DEF LooseTypes
  <2> QED
    BY <1>1, <1>3, <1>10, <2>1 DEF LooseTypes
<1>12. \A h \in Objs : In(P, "free", h) => rc'[h] = 0 /\ wc'[h] = 0
  <2>1. last => rc[o] = 0 /\ wc[o] = 1
    BY DEF last, ReleaseWeakFrees
  <2> QED
    BY <1>3, <1>5, <1>7, <1>10, <2>1
<1> QED
  BY <1>1, <1>2, <1>3, <1>6, <1>7, <1>10, <1>11, <1>12, LooseCascade DEF LooseTypes

LEMMA LooseFree ==
    ASSUME Loose, FreeMemory
    PROVE  Loose'
<1>1. LooseTypes /\ AtLeast /\ LooseShape
  BY DEF Loose
<1>2. stack # <<>> /\ Head(stack) = stack[1] /\ stack[1][1] = "free" /\ Defined(stack[1])
  BY <1>1, HeadAndRest DEF FreeMemory, Called, LooseTypes
<1> DEFINE o == stack[1][2]
<1>3. /\ UNCHANGED <<rc, wc, sp, wp>> /\ mem' = [mem EXCEPT ![o] = "freed"]
      /\ stack' = Tail(stack)
  <2>1. Arg(1) = o
    BY <1>2 DEF Arg
  <2> HIDE DEF o
  <2> QED
    BY <2>1 DEF FreeMemory, Return, counters
<1>4. o \in Objs /\ InCascade(stack[1]) /\ Pending("free", o)
  <2>1. o \in Objs
    BY <1>2 DEF Defined, Allocated
  <2>2. Pending("free", o)
    BY <1>1, <1>2, HeadAndRest DEF LooseTypes
  <2> QED
    BY <1>2, <2>1, <2>2 DEF InCascade
<1> HIDE DEF o
<1>5. stack' = <<>> \o Tail(stack) /\ IsSeq(<<>>) /\ Len(<<>>) = 0
  <2>1. Tail(stack) \in Seq({stack[i] : i \in 1 .. Len(stack)})
    BY <1>1, <1>2 DEF LooseTypes, IsSeq
  <2> QED
    BY <1>3, <2>1, ConcatEmptySeq, Lists
<1>6. \A i \in 1 .. Len(<<>>) : FALSE
  BY <1>5
<1>7. Stale' = Stale /\ \A h : Due("release", h)' = 0 /\ Due("releaseWeak", h)' = 0
  BY <1>1, <1>2, <1>3, <1>4, <1>5, <1>6, LooseGoesOn
<1>8. ASSUME NEW h \in Objs
      PROVE  /\ Cardinality(Strong(h)') + Due("release", h)' <= rc'[h]
             /\ Cardinality(Weak(h)') + Due("releaseWeak", h)' <= wc'[h]
             /\ rc'[h] <= rc[h] /\ wc'[h] <= wc[h]
             /\ ~In(<<>>, "destroy", h) /\ ~In(<<>>, "free", h)
             /\ mem'[h] \in {"unused", "freed"} => mem'[h] = mem[h] \/ Pending("free", h)
  <2>1. /\ Cardinality(Strong(h)) + Due("release", h) <= rc[h]
        /\ Cardinality(Weak(h)) + Due("releaseWeak", h) <= wc[h]
        /\ rc[h] \in Nat /\ wc[h] \in Nat
        /\ Cardinality(Strong(h)) \in Nat /\ Cardinality(Weak(h)) \in Nat
    BY <1>1, LooseCounts
  <2>2. Strong(h)' = Strong(h) /\ Weak(h)' = Weak(h)
    BY <1>3, <1>7 DEF Strong, Weak, SpTo, WpTo
  <2>3. Due("release", h) = 0 /\ Due("releaseWeak", h) = 0
    BY <1>2 DEF Due
  <2>4. Due("release", h)' = 0 /\ Due("releaseWeak", h)' = 0
    BY <1>7
  <2>5. mem'[h] = IF h = o THEN "freed" ELSE mem[h]
    BY <1>1, <1>3 DEF LooseTypes
  <2>6. ~In(<<>>, "destroy", h) /\ ~In(<<>>, "free", h)
    BY <1>6 DEF In
  <2>7. rc'[h] = rc[h] /\ wc'[h] = wc[h]
    BY <1>3
  <2>8. /\ Cardinality(Strong(h)') + Due("release", h)' <= rc'[h]
        /\ Cardinality(Weak(h)') + Due("releaseWeak", h)' <= wc'[h]
        /\ rc'[h] <= rc[h] /\ wc'[h] <= wc[h]
    BY <2>1, <2>2, <2>3, <2>4, <2>7
  <2> QED
    BY <1>4, <2>5, <2>6, <2>8
<1>9. /\ mem' \in [Objs -> {"unused", "live", "destroyed", "freed"}]
      /\ rc' \in [Objs -> Nat] /\ wc' \in [Objs -> Nat]
      /\ wp' \in [WpPlaces -> Objs \cup {NULL, Gone, Junk}]
  BY <1>1, <1>3 DEF LooseTypes
<1> QED
  BY <1>2, <1>3, <1>4, <1>5, <1>6, <1>8, <1>9, LooseCascade

\* The destructor: its end, or the end of one of its fields.
LEMMA LooseDestroy ==
    ASSUME Loose, Destroy
    PROVE  Loose'
<1>1. LooseTypes /\ AtLeast /\ LooseShape
  BY DEF Loose
<1>2. stack # <<>> /\ Head(stack) = stack[1] /\ stack[1][1] = "destroy"
  BY <1>1, HeadAndRest DEF Destroy, Called, LooseTypes
<1> DEFINE o == stack[1][2]
           left == stack[1][3]
<1>3. o \in Objs /\ InCascade(stack[1]) /\ Pending("destroy", o) /\ rc[o] = 0
  <2>1. InCascade(stack[1])
    <3>1. Len(stack) \in Nat \ {0}
      BY <1>1, <1>2, HeadAndRest DEF LooseTypes
    <3>2. CASE Len(stack) = 1
      BY <1>1, <1>2, <3>2 DEF LooseShape, LastCall, Bottom
    <3>3. CASE Len(stack) # 1
      <4>1. 1 \in 1 .. Len(stack) - 1
        BY <3>1, <3>3
      <4> QED
        BY <1>1, <1>2, <4>1 DEF LooseShape, Before, Dropping
    <3> QED
      BY <3>2, <3>3
  <2>2. Pending("destroy", o)
    BY <1>1, <1>2, HeadAndRest DEF LooseTypes
  <2> QED
    BY <2>1, <2>2 DEF InCascade, Loose, Doomed
<1>4. /\ UNCHANGED <<rc, wc, fault>>
      /\ \/ /\ mem' = [mem EXCEPT ![o] = "destroyed"] /\ stack' = Tail(stack)
            /\ UNCHANGED <<sp, wp>>
         \/ /\ sp' = [sp EXCEPT ![NextOf(o)] = Gone]
            /\ stack' = <<<<"release", sp[NextOf(o)]>>, <<"destroy", o, left \ {NextOf(o)}>>>> \o Tail(stack)
            /\ UNCHANGED <<mem, wp>>
         \/ /\ wp' = [wp EXCEPT ![BackOf(o)] = Gone]
            /\ stack' = (When(wp[BackOf(o)] # NULL, <<"releaseWeak", wp[BackOf(o)]>>)
                         \o <<<<"destroy", o, left \ {BackOf(o)}>>>>) \o Tail(stack)
            /\ UNCHANGED <<mem, sp>>
  <2>1. Arg(1) = o /\ Arg(2) = left
    BY <1>2 DEF Arg
  <2> HIDE DEF o, left
  <2> QED
    BY <2>1 DEF Destroy, Return, Push, counters
<1> HIDE DEF o, left
<1>5. NextOf(o) \notin Stale /\ BackOf(o) \notin Stale /\ NextOf(o) \in SpPlaces /\ BackOf(o) \in WpPlaces
  BY <1>1, <1>3, FieldsNotStale, Names
<1>6. \A h \in Objs : Due("release", h) = 0 /\ Due("releaseWeak", h) = 0
  BY <1>2 DEF Due
<1>7. rc' \in [Objs -> Nat] /\ wc' \in [Objs -> Nat] /\ rc' = rc /\ wc' = wc
  BY <1>1, <1>4 DEF LooseTypes
<1>8. CASE mem' = [mem EXCEPT ![o] = "destroyed"] /\ stack' = Tail(stack) /\ UNCHANGED <<sp, wp>>
  <2>1. stack' = <<>> \o Tail(stack) /\ IsSeq(<<>>) /\ Len(<<>>) = 0
    <3>1. Tail(stack) \in Seq({stack[i] : i \in 1 .. Len(stack)})
      BY <1>1, <1>2 DEF LooseTypes, IsSeq
    <3> QED
      BY <1>8, <3>1, ConcatEmptySeq, Lists
  <2>2. \A i \in 1 .. Len(<<>>) : FALSE
    BY <2>1
  <2>3. Stale' = Stale /\ \A h : Due("release", h)' = 0 /\ Due("releaseWeak", h)' = 0
    BY <1>1, <1>2, <1>3, <1>8, <2>1, <2>2, LooseGoesOn, SMTT(40)
  <2>4. ASSUME NEW h \in Objs
        PROVE  /\ Cardinality(Strong(h)') + Due("release", h)' <= rc'[h]
               /\ Cardinality(Weak(h)') + Due("releaseWeak", h)' <= wc'[h]
               /\ rc'[h] <= rc[h] /\ wc'[h] <= wc[h]
               /\ ~In(<<>>, "destroy", h) /\ ~In(<<>>, "free", h)
               /\ mem'[h] \in {"unused", "freed"} => mem'[h] = mem[h]
    <3>1. /\ Cardinality(Strong(h)) + Due("release", h) <= rc[h]
          /\ Cardinality(Weak(h)) + Due("releaseWeak", h) <= wc[h]
          /\ rc[h] \in Nat /\ wc[h] \in Nat
      BY <1>1, LooseCounts
    <3>2. Strong(h)' = Strong(h) /\ Weak(h)' = Weak(h)
      BY <1>8, <2>3 DEF Strong, Weak, SpTo, WpTo
    <3>3. /\ Due("release", h) = 0 /\ Due("releaseWeak", h) = 0
          /\ Due("release", h)' = 0 /\ Due("releaseWeak", h)' = 0
      BY <1>6, <2>3
    <3>4. mem'[h] = IF h = o THEN "destroyed" ELSE mem[h]
      BY <1>1, <1>8 DEF LooseTypes
    <3>5. ~In(<<>>, "destroy", h) /\ ~In(<<>>, "free", h)
      BY <2>2 DEF In
    <3>6. /\ Cardinality(Strong(h)') + Due("release", h)' <= rc'[h]
          /\ Cardinality(Weak(h)') + Due("releaseWeak", h)' <= wc'[h]
          /\ rc'[h] <= rc[h] /\ wc'[h] <= wc[h]
      BY <1>7, <3>1, <3>2, <3>3
    <3> QED
      BY <3>4, <3>5, <3>6
  <2>5. /\ mem' \in [Objs -> {"unused", "live", "destroyed", "freed"}]
        /\ wp' \in [WpPlaces -> Objs \cup {NULL, Gone, Junk}]
    BY <1>1, <1>8 DEF LooseTypes
  <2> QED
    BY <1>2, <1>3, <1>7, <1>8, <2>1, <2>2, <2>4, <2>5, LooseCascade
<1>9. CASE /\ sp' = [sp EXCEPT ![NextOf(o)] = Gone]
           /\ stack' = <<<<"release", sp[NextOf(o)]>>, <<"destroy", o, left \ {NextOf(o)}>>>> \o Tail(stack)
           /\ UNCHANGED <<mem, wp>>
  <2> DEFINE q == sp[NextOf(o)]
             a == <<"release", q>>
             b == <<"destroy", o, left \ {NextOf(o)}>>
             P == <<a, b>>
  <2>1. a[1] = "release" /\ a[2] = q /\ b[1] = "destroy" /\ b[2] = o
    OBVIOUS
  <2>2. stack' = P \o Tail(stack)
    BY <1>9
  <2> HIDE DEF q, a, b
  <2>3. IsSeq(P) /\ Len(P) = 2 /\ P[1] = a /\ P[2] = b
    BY Lists
  <2> HIDE DEF P
  <2>4. /\ \A i \in 1 .. Len(P) : (i = 1 /\ Dropping(P[i])) \/ InCascade(P[i])
        /\ \A h : (In(P, "destroy", h) => h = o) /\ ~In(P, "free", h)
    <3>1. \A i \in 1 .. 2 : i = 1 \/ i = 2
      OBVIOUS
    <3> QED
      BY <1>3, <2>1, <2>3, <3>1 DEF In, InCascade, Dropping
  <2>5. /\ Stale' = Stale
        /\ \A h : Due("release", h)' = (IF h = q THEN 1 ELSE 0) /\ Due("releaseWeak", h)' = 0
    <3>1. \E g \in Objs : sp' = [sp EXCEPT ![NextOf(g)] = Gone]
      BY <1>3, <1>9
    <3>2. Stale' = Stale /\ \A h : \A m \in {"release", "releaseWeak"} :
              Due(m, h)' = IF Len(P) > 0 /\ P[1][1] = m /\ P[1][2] = h THEN 1 ELSE 0
      BY <1>1, <1>2, <1>3, <2>2, <2>3, <2>4, <3>1, LooseGoesOn
    <3> QED
      BY <2>1, <2>3, <3>2
  <2>6. \A e \in SpPlaces : sp'[e] = IF e = NextOf(o) THEN Gone ELSE sp[e]
    BY <1>1, <1>5, <1>9 DEF LooseTypes
  <2>7. ASSUME NEW h \in Objs
        PROVE  /\ Cardinality(Strong(h)') + Due("release", h)' <= rc'[h]
               /\ Cardinality(Weak(h)') + Due("releaseWeak", h)' <= wc'[h]
               /\ rc'[h] <= rc[h] /\ wc'[h] <= wc[h]
    <3>1. /\ Cardinality(Strong(h)) + Due("release", h) <= rc[h]
          /\ Cardinality(Weak(h)) + Due("releaseWeak", h) <= wc[h]
          /\ rc[h] \in Nat /\ wc[h] \in Nat /\ Cardinality(Weak(h)) \in Nat
          /\ Strong(h) \subseteq SpPlaces
      BY <1>1, LooseCounts
    <3>2. Weak(h)' = Weak(h)
      BY <1>9, <2>5 DEF Weak, WpTo
    <3>3. CASE h = q
      <4>1. NextOf(o) \in Strong(h) /\ Strong(h)' \subseteq Strong(h) \ {NextOf(o)}
        <5>1. h # Gone
          BY Names
        <5> QED
          BY <1>5, <2>5, <2>6, <3>3, <5>1 DEF Strong, SpTo, q
      <4>2. Due("release", h) = 0 /\ Due("release", h)' = 1
        BY <1>6, <2>5, <3>3
      <4>3. Cardinality(Strong(h)') + 1 <= rc[h]
        <5> DEFINE G == Strong(h)
                   H == Strong(h)'
                   c == rc[h]
        <5>1. c \in Nat /\ Cardinality(G) + 0 <= c /\ c - 0 - 1 <= c - 1
          BY <3>1, <4>2
        <5>2. NextOf(o) \in G /\ H \subseteq G \ {NextOf(o)} /\ G \subseteq SpPlaces
          BY <3>1, <4>1
        <5> HIDE DEF G, H, c
        <5>3. Cardinality(H) + 1 <= c
          BY <5>1, <5>2, StaysBelow
        <5> QED
          BY <5>3 DEF H, c
      <4> QED
        BY <1>6, <1>7, <2>5, <3>1, <3>2, <4>2, <4>3
    <3>4. CASE h # q
      <4>1. Strong(h)' = Strong(h)
        <5>1. h # Gone
          BY Names
        <5> QED
          BY <1>5, <2>5, <2>6, <3>4, <5>1 DEF Strong, SpTo, q
      <4>2. Due("release", h) = 0 /\ Due("release", h)' = 0
        BY <1>6, <2>5, <3>4
      <4> QED
        BY <1>6, <1>7, <2>5, <3>1, <3>2, <4>1, <4>2
    <3> QED
      BY <3>3, <3>4
  <2>8. /\ mem' \in [Objs -> {"unused", "live", "destroyed", "freed"}] /\ mem' = mem
        /\ wp' \in [WpPlaces -> Objs \cup {NULL, Gone, Junk}]
    BY <1>1, <1>9 DEF LooseTypes
  <2>9. \A h \in Objs : In(P, "destroy", h) => rc'[h] = 0
    BY <1>3, <1>7, <2>4
  <2> QED
    BY <1>2, <1>3, <1>7, <1>9, <2>2, <2>3, <2>4, <2>7, <2>8, <2>9, LooseCascade
<1>10. CASE /\ wp' = [wp EXCEPT ![BackOf(o)] = Gone]
            /\ stack' = (When(wp[BackOf(o)] # NULL, <<"releaseWeak", wp[BackOf(o)]>>)
                         \o <<<<"destroy", o, left \ {BackOf(o)}>>>>) \o Tail(stack)
            /\ UNCHANGED <<mem, sp>>
  <2> DEFINE q == wp[BackOf(o)]
             a == <<"releaseWeak", q>>
             b == <<"destroy", o, left \ {BackOf(o)}>>
             P == IF q = NULL THEN <<b>> ELSE <<a, b>>
  <2>1. a[1] = "releaseWeak" /\ a[2] = q /\ b[1] = "destroy" /\ b[2] = o
    OBVIOUS
  <2>2. stack' = P \o Tail(stack)
    BY <1>10, Puts
  <2> HIDE DEF q, a, b
  <2>3. /\ IsSeq(P)
        /\ q = NULL => Len(P) = 1 /\ P[1] = b
        /\ q # NULL => Len(P) = 2 /\ P[1] = a /\ P[2] = b
    BY Lists
  <2> HIDE DEF P
  <2>4. /\ \A i \in 1 .. Len(P) : (i = 1 /\ Dropping(P[i])) \/ InCascade(P[i])
        /\ \A h : (In(P, "destroy", h) => h = o) /\ ~In(P, "free", h)
    <3>1. (\A i \in 1 .. 2 : i = 1 \/ i = 2) /\ \A i \in 1 .. 1 : i = 1
      OBVIOUS
    <3> QED
      BY <1>3, <2>1, <2>3, <3>1 DEF In, InCascade, Dropping
  <2>5. /\ Stale' = Stale
        /\ \A h \in Objs : Due("releaseWeak", h)' = (IF h = q THEN 1 ELSE 0) /\ Due("release", h)' = 0
    <3>1. Stale' = Stale /\ \A h : \A m \in {"release", "releaseWeak"} :
              Due(m, h)' = IF Len(P) > 0 /\ P[1][1] = m /\ P[1][2] = h THEN 1 ELSE 0
      BY <1>1, <1>2, <1>3, <1>10, <2>2, <2>3, <2>4, LooseGoesOn
    <3>2. NULL \notin Objs
      BY Names
    <3> QED
      BY <2>1, <2>3, <3>1, <3>2
  <2>6. \A e \in WpPlaces : wp'[e] = IF e = BackOf(o) THEN Gone ELSE wp[e]
    BY <1>1, <1>5, <1>10 DEF LooseTypes
  <2>7. ASSUME NEW h \in Objs
        PROVE  /\ Cardinality(Strong(h)') + Due("release", h)' <= rc'[h]
               /\ Cardinality(Weak(h)') + Due("releaseWeak", h)' <= wc'[h]
               /\ rc'[h] <= rc[h] /\ wc'[h] <= wc[h]
    <3>1. /\ Cardinality(Strong(h)) + Due("release", h) <= rc[h]
          /\ Cardinality(Weak(h)) + Due("releaseWeak", h) <= wc[h]
          /\ rc[h] \in Nat /\ wc[h] \in Nat /\ Cardinality(Strong(h)) \in Nat
          /\ Weak(h) \subseteq WpPlaces
      BY <1>1, LooseCounts
    <3>2. Strong(h)' = Strong(h)
      BY <1>10, <2>5 DEF Strong, SpTo
    <3>3. CASE h = q
      <4>1. BackOf(o) \in Weak(h) /\ Weak(h)' \subseteq Weak(h) \ {BackOf(o)}
        <5>1. h # Gone
          BY Names
        <5> QED
          BY <1>5, <2>5, <2>6, <3>3, <5>1 DEF Weak, WpTo, q
      <4>2. Due("releaseWeak", h) = 0 /\ Due("releaseWeak", h)' = 1
        BY <1>6, <2>5, <3>3
      <4>3. Cardinality(Weak(h)') + 1 <= wc[h]
        <5> DEFINE G == Weak(h)
                   H == Weak(h)'
                   c == wc[h]
        <5>1. c \in Nat /\ Cardinality(G) + 0 <= c /\ c - 0 - 1 <= c - 1
          BY <3>1, <4>2
        <5>2. BackOf(o) \in G /\ H \subseteq G \ {BackOf(o)} /\ G \subseteq WpPlaces
          BY <3>1, <4>1
        <5> HIDE DEF G, H, c
        <5>3. Cardinality(H) + 1 <= c
          BY <5>1, <5>2, StaysBelow
        <5> QED
          BY <5>3 DEF H, c
      <4> QED
        BY <1>6, <1>7, <2>5, <3>1, <3>2, <4>2, <4>3
    <3>4. CASE h # q
      <4>1. Weak(h)' = Weak(h)
        <5>1. h # Gone
          BY Names
        <5> QED
          BY <1>5, <2>5, <2>6, <3>4, <5>1 DEF Weak, WpTo, q
      <4>2. Due("releaseWeak", h) = 0 /\ Due("releaseWeak", h)' = 0
        BY <1>6, <2>5, <3>4
      <4> QED
        BY <1>6, <1>7, <2>5, <3>1, <3>2, <4>1, <4>2
    <3> QED
      BY <3>3, <3>4
  <2>8. /\ mem' \in [Objs -> {"unused", "live", "destroyed", "freed"}] /\ mem' = mem
        /\ wp' \in [WpPlaces -> Objs \cup {NULL, Gone, Junk}]
    BY <1>1, <1>10 DEF LooseTypes
  <2>9. \A h \in Objs : In(P, "destroy", h) => rc'[h] = 0
    BY <1>3, <1>7, <2>4
  <2> QED
    BY <1>2, <1>3, <1>7, <1>10, <2>2, <2>3, <2>4, <2>7, <2>8, <2>9, LooseCascade
<1> QED
  BY <1>4, <1>8, <1>9, <1>10

\* After a step that leaves nothing to destroy or free on the stack.
LEMMA LooseQuiet ==
    ASSUME Quiet', LooseShape', IsSeq(stack'),
           mem' \in [Objs -> {"unused", "live", "destroyed", "freed"}],
           rc' \in [Objs -> Nat], wc' \in [Objs -> Nat],
           sp' \in [SpPlaces -> Objs \cup {NULL, Gone}],
           wp' \in [WpPlaces -> Objs \cup {NULL, Gone, Junk}],
           \A o \in Objs :
               /\ Cardinality(Strong(o)') + Due("release", o)' <= rc'[o]
               /\ Cardinality(Weak(o)') + Due("releaseWeak", o)' <= wc'[o]
               /\ mem'[o] \in {"unused", "freed"} => rc'[o] = 0 /\ wc'[o] = 0
    PROVE  Loose'
<1>1. \A o : ~Pending("destroy", o)' /\ ~Pending("free", o)'
  BY DEF Quiet, Pending
<1>2. \A o \in Objs : Doomed(o)'
  BY <1>1 DEF Doomed
<1>3. LooseTypes'
  BY DEF LooseTypes, IsSeq
<1>4. AtLeast'
  BY DEF AtLeast
<1> QED
  BY <1>2, <1>3, <1>4 DEF Loose

\* What Stale is when the stack is empty, and when one call is left.
LEMMA LooseLast ==
    ASSUME LooseTypes, LooseShape, stack # <<>>,
           Head(stack)[1] \in {"retain", "set", "storeWeak", "lock"}, stack' = Tail(stack)
    PROVE  /\ Head(stack) = stack[1] /\ LastCall(stack[1]) /\ stack' = <<>>
           /\ Stale = IF stack[1][1] = "lock" THEN {} ELSE {stack[1][2]}
           /\ Stale' = {} /\ Quiet' /\ LooseShape' /\ IsSeq(stack')
           /\ \A o : /\ Due("release", o) = 0 /\ Due("releaseWeak", o) = 0
                     /\ Due("release", o)' = 0 /\ Due("releaseWeak", o)' = 0
<1>1. IsSeq(stack) /\ Len(stack) \in Nat \ {0} /\ Head(stack) = stack[1]
  BY HeadAndRest DEF LooseTypes
<1>2. Len(stack) = 1
  <2>1. Len(stack) # 1 => 1 \in 1 .. Len(stack) - 1
    BY <1>1
  <2>2. ~Before(1)
    BY <1>1 DEF Before, InCascade, Dropping
  <2> QED
    BY <2>1, <2>2 DEF LooseShape
<1>3. LastCall(stack[1]) /\ Bottom = stack[1]
  BY <1>1, <1>2 DEF LooseShape, Bottom
<1>4. stack' = <<>>
  BY <1>1, <1>2, EmptySeq DEF IsSeq
<1>5. Stale' = {} /\ LooseShape' /\ \A o : Due("release", o)' = 0 /\ Due("releaseWeak", o)' = 0
  BY <1>4 DEF Stale, LooseShape, Due
<1>6. Quiet' /\ IsSeq(stack')
  <2>1. Len(stack') = 0 /\ IsSeq(stack')
    BY <1>4, Lists
  <2>2. \A i \in 1 .. 0 : FALSE
    OBVIOUS
  <2> QED
    BY <2>1, <2>2 DEF Quiet
<1>7. \A o : Due("release", o) = 0 /\ Due("releaseWeak", o) = 0
  BY DEF Due
<1> QED
  BY <1>1, <1>3, <1>4, <1>5, <1>6, <1>7 DEF Stale

LEMMA LooseStore ==
    ASSUME Loose, Store
    PROVE  Loose'
<1>1. LooseTypes /\ AtLeast /\ LooseShape
  BY DEF Loose
<1>2. stack # <<>> /\ Head(stack) = stack[1] /\ stack[1][1] = "store" /\ Len(stack) \in Nat \ {0}
  BY <1>1, HeadAndRest DEF Store, Called, LooseTypes
<1>3. Len(stack) # 1 /\ LastCall(Bottom)
  BY <1>1, <1>2 DEF LooseShape, LastCall, Bottom
<1>4. Len(stack) = 2 /\ Bottom[1] = "retain" /\ stack[1][2] = Bottom[2] /\ stack[1][3] \in SpPlaces
  <2>1. 1 \in 1 .. Len(stack) - 1
    BY <1>2, <1>3
  <2>2. Before(1)
    BY <1>1, <1>2, <2>1 DEF LooseShape
  <2>3. 1 = Len(stack) - 1 /\ Bottom[1] = "retain" /\ stack[1][2] = Bottom[2] /\ stack[1][3] \in SpPlaces
    BY <1>2, <2>2 DEF Before, Dropping, InCascade
  <2> QED
    BY <1>2, <2>3
<1>16. PICK d, p : d = Bottom[2] /\ p = stack[1][3]
  OBVIOUS
<1>5. UNCHANGED <<mem, rc, wc, wp>> /\ sp' = [sp EXCEPT ![d] = sp[p]] /\ stack' = Tail(stack)
  <2>1. Arg(1) = d /\ Arg(2) = p
    BY <1>2, <1>4, <1>16 DEF Arg
  <2> QED
    BY <2>1 DEF Store, Return, counters
<1>6. d \in SpPlaces /\ Safe(d)
  BY <1>3, <1>4, <1>16 DEF LastCall
<1>7. Stale = {d}
  BY <1>2, <1>4, <1>16 DEF Stale
<1>8. stack' = <<Bottom>>
  <2>1. stack \in Seq({stack[i] : i \in 1 .. Len(stack)})
    BY <1>1 DEF LooseTypes, IsSeq
  <2>2. Len(stack') = 1 /\ stack'[1] = stack[2] /\ stack' \in Seq({stack[i] : i \in 1 .. Len(stack)})
    <3> DEFINE S == {stack[i] : i \in 1 .. Len(stack)}
    <3>1. stack \in Seq(S) /\ Len(stack) = 2 /\ stack' = Tail(stack)
      BY <1>4, <1>5, <2>1
    <3> HIDE DEF S
    <3>2. stack' \in Seq(S) /\ Len(stack') = 1
      BY <1>2, <3>1, HeadTailProperties
    <3>3. 1 \in 1 .. Len(stack')
      BY <3>2
    <3>4. stack'[1] = stack[1 + 1]
      BY <1>2, <3>1, <3>3, HeadTailProperties
    <3> QED
      BY <3>2, <3>4 DEF S
  <2> QED
    BY <1>4, <2>2 DEF Bottom
<1>9. Bottom[1] \notin {"destroy", "free"}
  BY <1>4
<1>10. /\ Bottom' = Bottom /\ Quiet' /\ IsSeq(stack') /\ Len(stack') = 1 /\ Head(stack') = Bottom
       /\ stack' # <<>>
  BY <1>8, <1>9, StackMade
<1>11. Stale' = {d}
  BY <1>4, <1>10, <1>16 DEF Stale
<1>12. \A e \in SpPlaces : e # d => sp'[e] = sp[e]
  BY <1>1, <1>5, <1>6 DEF LooseTypes
<1>13. LooseShape'
  <2>1. Safe(d)'
    <3>1. CASE d \in SpRoots \cup WpVars
      BY <3>1 DEF Safe
    <3>2. CASE d \notin SpRoots \cup WpVars
      <4>1. PICK h \in Objs, x \in SpRoots : d \in {NextOf(h), BackOf(h)} /\ sp[x] = h
        BY <1>6, <3>2 DEF Safe
      <4>2. x \in SpPlaces /\ x # d
        BY <3>2 DEF SpPlaces
      <4> QED
        BY <1>12, <4>1, <4>2 DEF Safe, NextOf, BackOf
    <3> QED
      BY <3>1, <3>2
  <2>2. LastCall(Bottom)'
    BY <1>4, <1>6, <1>10, <1>16, <2>1 DEF LastCall
  <2>3. \A i \in 1 .. Len(stack') - 1 : FALSE
    BY <1>10
  <2> QED
    BY <2>2, <2>3 DEF LooseShape
<1>14. sp' \in [SpPlaces -> Objs \cup {NULL, Gone}]
  <2>1. sp[p] \in Objs \cup {NULL, Gone}
    <3>1. p \in SpPlaces
      BY <1>4, <1>16
    <3> QED
      BY <1>1, <3>1 DEF LooseTypes
  <2> QED
    BY <1>1, <1>5, <2>1 DEF LooseTypes
<1>15. ASSUME NEW h \in Objs
       PROVE  /\ Cardinality(Strong(h)') + Due("release", h)' <= rc'[h]
              /\ Cardinality(Weak(h)') + Due("releaseWeak", h)' <= wc'[h]
              /\ mem'[h] \in {"unused", "freed"} => rc'[h] = 0 /\ wc'[h] = 0
  <2>1. /\ Cardinality(Strong(h)) + Due("release", h) <= rc[h]
        /\ Cardinality(Weak(h)) + Due("releaseWeak", h) <= wc[h]
    BY <1>1, LooseCounts
  <2>2. Strong(h)' = Strong(h) /\ Weak(h)' = Weak(h)
    BY <1>5, <1>7, <1>11, <1>12 DEF Strong, Weak, SpTo, WpTo
  <2>3. /\ Due("release", h) = 0 /\ Due("releaseWeak", h) = 0
        /\ Due("release", h)' = 0 /\ Due("releaseWeak", h)' = 0
    BY <1>2, <1>4, <1>10 DEF Due
  <2>4. Doomed(h)
    BY DEF Loose
  <2> QED
    BY <1>5, <2>1, <2>2, <2>3, <2>4 DEF Doomed
<1> QED
  BY <1>1, <1>5, <1>10, <1>13, <1>14, <1>15, LooseQuiet DEF LooseTypes

LEMMA LooseRetain ==
    ASSUME Loose, Retain
    PROVE  Loose'
<1>1. LooseTypes /\ AtLeast /\ LooseShape
  BY DEF Loose
<1>2. stack # <<>> /\ Head(stack)[1] = "retain" /\ stack' = Tail(stack) /\ UNCHANGED <<mem, wc, sp, wp>>
  BY DEF Retain, Called, Return
<1>3. /\ Head(stack) = stack[1] /\ LastCall(stack[1])
      /\ Stale = {stack[1][2]} /\ Stale' = {} /\ Quiet' /\ LooseShape' /\ IsSeq(stack')
      /\ \A o : /\ Due("release", o) = 0 /\ Due("releaseWeak", o) = 0
                /\ Due("release", o)' = 0 /\ Due("releaseWeak", o)' = 0
  BY <1>1, <1>2, LooseLast
<1> DEFINE d == stack[1][2]
           o == sp[d]
<1>4. d \in SpPlaces
  BY <1>2, <1>3 DEF LastCall
<1>5. /\ o = NULL \/ (o \in Objs /\ Allocated(o))
      /\ rc' = IF o = NULL THEN rc ELSE [rc EXCEPT ![o] = @ + 1]
  <2>1. Arg(1) = d /\ Defined(stack[1])
    BY <1>3 DEF Arg, Retain, Called
  <2>2. o = NULL \/ Allocated(o)
    BY <1>2, <1>3, <2>1 DEF Defined
  <2>3. rc' = LET u == sp[Arg(1)] IN IF u = NULL THEN rc ELSE [rc EXCEPT ![u] = @ + 1]
    BY DEF Retain
  <2> QED
    BY <2>1, <2>2, <2>3 DEF Allocated
<1>6. \A h \in Objs : rc[h] \in Nat /\ rc'[h] = IF h = o THEN rc[h] + 1 ELSE rc[h]
  BY <1>1, <1>5, Names DEF LooseTypes
<1>7. ASSUME NEW h \in Objs
      PROVE  /\ Cardinality(Strong(h)') + Due("release", h)' <= rc'[h]
             /\ Cardinality(Weak(h)') + Due("releaseWeak", h)' <= wc'[h]
             /\ mem'[h] \in {"unused", "freed"} => rc'[h] = 0 /\ wc'[h] = 0
  <2>1. /\ Cardinality(Strong(h)) + 0 <= rc[h] /\ rc[h] \in Nat
        /\ Cardinality(Weak(h)) + 0 <= wc[h] /\ Strong(h) \subseteq SpPlaces
    <3>1. /\ Cardinality(Strong(h)) + Due("release", h) <= rc[h] /\ rc[h] \in Nat
          /\ Cardinality(Weak(h)) + Due("releaseWeak", h) <= wc[h] /\ Strong(h) \subseteq SpPlaces
      BY <1>1, LooseCounts
    <3> QED
      BY <1>3, <3>1
  <2>2. Weak(h)' = Weak(h)
    BY <1>2, <1>3, <1>4, PlacesApart DEF Weak, WpTo
  <2>3. CASE h = o
    <3>1. Strong(h)' \subseteq Strong(h) \cup {d}
      BY <1>2, <1>3 DEF Strong, SpTo
    <3>2. Cardinality(Strong(h)') + 0 <= rc[h] + 1
      <4> DEFINE G == Strong(h)
                 H == Strong(h)'
                 c == rc[h]
      <4>1. c \in Nat /\ Cardinality(G) + 0 <= c /\ c - 0 + 1 <= (c + 1) - 0 /\ c + 1 \in Int
        BY <2>1
      <4>2. H \subseteq G \cup {d} /\ G \subseteq SpPlaces
        BY <2>1, <3>1
      <4> HIDE DEF G, H, c, d
      <4>3. Cardinality(H) + 0 <= c + 1
        BY <4>1, <4>2, StaysBelow
      <4> QED
        BY <4>3 DEF H, c
    <3>3. mem'[h] \notin {"unused", "freed"}
      BY <1>2, <1>5, <2>3, Names DEF Allocated
    <3> QED
      BY <1>2, <1>3, <1>6, <2>1, <2>2, <2>3, <3>2, <3>3
  <2>4. CASE h # o
    <3>1. Strong(h)' = Strong(h)
      BY <1>2, <1>3, <2>4 DEF Strong, SpTo
    <3>2. Doomed(h)
      BY DEF Loose
    <3> QED
      BY <1>2, <1>3, <1>6, <2>1, <2>2, <2>4, <3>1, <3>2 DEF Doomed
  <2> QED
    BY <2>3, <2>4
<1>8. rc' \in [Objs -> Nat]
  BY <1>1, <1>5 DEF LooseTypes
<1> QED
  BY <1>1, <1>2, <1>3, <1>7, <1>8, LooseQuiet DEF LooseTypes

LEMMA LooseStoreWeak ==
    ASSUME Loose, StoreWeak
    PROVE  Loose'
<1>1. LooseTypes /\ AtLeast /\ LooseShape
  BY DEF Loose
<1>2. stack # <<>> /\ Head(stack)[1] = "storeWeak" /\ stack' = Tail(stack) /\ UNCHANGED <<mem, rc, sp>>
  BY DEF StoreWeak, Called, Return
<1>3. /\ Head(stack) = stack[1] /\ LastCall(stack[1])
      /\ Stale = {stack[1][2]} /\ Stale' = {} /\ Quiet' /\ LooseShape' /\ IsSeq(stack')
      /\ \A o : /\ Due("release", o) = 0 /\ Due("releaseWeak", o) = 0
                /\ Due("release", o)' = 0 /\ Due("releaseWeak", o)' = 0
  BY <1>1, <1>2, LooseLast
<1> DEFINE w == stack[1][2]
           r == stack[1][3]
<1>4. w \in WpPlaces
  BY <1>2, <1>3 DEF LastCall
<1>5. r \in Objs /\ Allocated(r) /\ wp' = [wp EXCEPT ![w] = r] /\ wc' = [wc EXCEPT ![r] = @ + 1]
  <2>1. Arg(1) = w /\ Arg(2) = r /\ Defined(stack[1])
    BY <1>3 DEF Arg, StoreWeak, Called
  <2>2. Allocated(r)
    BY <1>2, <1>3, <2>1 DEF Defined
  <2> HIDE DEF w, r
  <2> QED
    BY <2>1, <2>2 DEF Allocated, StoreWeak
<1> HIDE DEF w, r
<1>6. \A h \in Objs : wc[h] \in Nat /\ wc'[h] = IF h = r THEN wc[h] + 1 ELSE wc[h]
  BY <1>1, <1>5 DEF LooseTypes
<1>7. \A e \in WpPlaces : wp'[e] = IF e = w THEN r ELSE wp[e]
  BY <1>1, <1>5 DEF LooseTypes
<1>8. Stale = {w}
  BY <1>3 DEF w
<1>9. ASSUME NEW h \in Objs
      PROVE  /\ Cardinality(Strong(h)') + Due("release", h)' <= rc'[h]
             /\ Cardinality(Weak(h)') + Due("releaseWeak", h)' <= wc'[h]
             /\ mem'[h] \in {"unused", "freed"} => rc'[h] = 0 /\ wc'[h] = 0
  <2>1. /\ Cardinality(Strong(h)) + 0 <= rc[h] /\ wc[h] \in Nat
        /\ Cardinality(Weak(h)) + 0 <= wc[h] /\ Weak(h) \subseteq WpPlaces
    <3>1. /\ Cardinality(Strong(h)) + Due("release", h) <= rc[h] /\ wc[h] \in Nat
          /\ Cardinality(Weak(h)) + Due("releaseWeak", h) <= wc[h] /\ Weak(h) \subseteq WpPlaces
      BY <1>1, LooseCounts
    <3> QED
      BY <1>3, <3>1
  <2>2. Strong(h)' = Strong(h)
    BY <1>2, <1>3, <1>4, <1>8, PlacesApart DEF Strong, SpTo
  <2>3. CASE h = r
    <3>1. Weak(h)' \subseteq Weak(h) \cup {w}
      BY <1>3, <1>7, <1>8 DEF Weak, WpTo
    <3>2. Cardinality(Weak(h)') + 0 <= wc[h] + 1
      <4> DEFINE G == Weak(h)
                 H == Weak(h)'
                 c == wc[h]
      <4>1. c \in Nat /\ Cardinality(G) + 0 <= c /\ c - 0 + 1 <= (c + 1) - 0 /\ c + 1 \in Int
        BY <2>1
      <4>2. H \subseteq G \cup {w} /\ G \subseteq WpPlaces
        BY <2>1, <3>1
      <4> HIDE DEF G, H, c
      <4>3. Cardinality(H) + 0 <= c + 1
        BY <4>1, <4>2, StaysBelow
      <4> QED
        BY <4>3 DEF H, c
    <3>3. mem'[h] \notin {"unused", "freed"}
      BY <1>2, <1>5, <2>3 DEF Allocated
    <3> QED
      BY <1>2, <1>3, <1>6, <2>1, <2>2, <2>3, <3>2, <3>3
  <2>4. CASE h # r
    <3>1. Weak(h)' \subseteq Weak(h)
      BY <1>3, <1>7, <1>8, <2>4 DEF Weak, WpTo
    <3>2. Cardinality(Weak(h)') + 0 <= wc[h]
      <4> DEFINE G == Weak(h)
                 H == Weak(h)'
                 c == wc[h]
      <4>1. c \in Nat /\ Cardinality(G) + 0 <= c /\ c - 0 <= c - 0 /\ c \in Int
        BY <2>1
      <4>2. H \subseteq G /\ G \subseteq WpPlaces
        BY <2>1, <3>1
      <4> HIDE DEF G, H, c
      <4>3. Cardinality(H) + 0 <= c
        BY <4>1, <4>2, StaysBelow
      <4> QED
        BY <4>3 DEF H, c
    <3>3. Doomed(h)
      BY DEF Loose
    <3> QED
      BY <1>2, <1>3, <1>6, <2>1, <2>2, <2>4, <3>2, <3>3 DEF Doomed
  <2> QED
    BY <2>3, <2>4
<1>10. wc' \in [Objs -> Nat] /\ wp' \in [WpPlaces -> Objs \cup {NULL, Gone, Junk}]
  BY <1>1, <1>4, <1>5 DEF LooseTypes
<1> QED
  BY <1>1, <1>2, <1>3, <1>9, <1>10, LooseQuiet DEF LooseTypes

LEMMA LooseLock ==
    ASSUME Loose, Lock
    PROVE  Loose'
<1>1. LooseTypes /\ AtLeast /\ LooseShape
  BY DEF Loose
<1>2. stack # <<>> /\ Head(stack)[1] = "lock" /\ stack' = Tail(stack) /\ UNCHANGED <<mem, wc, wp>>
  BY DEF Lock, Called, Return
<1>3. /\ Head(stack) = stack[1] /\ LastCall(stack[1])
      /\ Stale = {} /\ Stale' = {} /\ Quiet' /\ LooseShape' /\ IsSeq(stack')
      /\ \A o : /\ Due("release", o) = 0 /\ Due("releaseWeak", o) = 0
                /\ Due("release", o)' = 0 /\ Due("releaseWeak", o)' = 0
  BY <1>1, <1>2, LooseLast
<1>4. PICK x, o : x = stack[1][2] /\ o = stack[1][3]
  OBVIOUS
<1>5. x \in SpPlaces /\ Arg(1) = x /\ Arg(2) = o /\ (o = NULL \/ (o \in Objs /\ Allocated(o)))
  <2>1. Defined(stack[1])
    BY <1>3 DEF Lock, Called
  <2>2. o = NULL \/ Allocated(o)
    BY <1>2, <1>3, <1>4, <2>1 DEF Defined
  <2> QED
    BY <1>2, <1>3, <1>4, <2>2 DEF Arg, LastCall, Allocated, SpPlaces, SpRoots
<1>6. PICK v \in Objs \cup {NULL} :
          /\ sp' = [sp EXCEPT ![x] = v]
          /\ rc' = IF v = NULL THEN rc ELSE [rc EXCEPT ![v] = @ + 1]
          /\ v # NULL => Allocated(v)
  <2>1. CASE o # NULL /\ LockStrongSucceeds(rc[o])
    BY <1>5, <2>1 DEF Lock
  <2>2. CASE ~(o # NULL /\ LockStrongSucceeds(rc[o]))
    BY <1>5, <2>2 DEF Lock
  <2> QED
    BY <2>1, <2>2
<1>7. \A h \in Objs : rc[h] \in Nat /\ h # NULL /\ h # Gone /\ rc'[h] = IF h = v THEN rc[h] + 1 ELSE rc[h]
  BY <1>1, <1>6, Names DEF LooseTypes
<1>8. \A e \in SpPlaces : sp'[e] = IF e = x THEN v ELSE sp[e]
  BY <1>1, <1>6 DEF LooseTypes
<1>9. ASSUME NEW h \in Objs
      PROVE  /\ Cardinality(Strong(h)') + Due("release", h)' <= rc'[h]
             /\ Cardinality(Weak(h)') + Due("releaseWeak", h)' <= wc'[h]
             /\ mem'[h] \in {"unused", "freed"} => rc'[h] = 0 /\ wc'[h] = 0
  <2>1. /\ Cardinality(Strong(h)) + 0 <= rc[h] /\ rc[h] \in Nat
        /\ Cardinality(Weak(h)) + 0 <= wc[h] /\ Strong(h) \subseteq SpPlaces
    <3>1. /\ Cardinality(Strong(h)) + Due("release", h) <= rc[h] /\ rc[h] \in Nat
          /\ Cardinality(Weak(h)) + Due("releaseWeak", h) <= wc[h] /\ Strong(h) \subseteq SpPlaces
      BY <1>1, LooseCounts
    <3> QED
      BY <1>3, <3>1
  <2>2. Weak(h)' = Weak(h)
    BY <1>2, <1>3 DEF Weak, WpTo
  <2>3. Strong(h)' \subseteq Strong(h) \cup {x} /\ (h # v => Strong(h)' \subseteq Strong(h))
    BY <1>3, <1>8 DEF Strong, SpTo
  <2>4. Cardinality(Strong(h)') + 0 <= rc'[h]
    <3> DEFINE G == Strong(h)
               H == Strong(h)'
               c == rc[h]
               c2 == rc'[h]
    <3>1. c \in Nat /\ c2 \in Int /\ Cardinality(G) + 0 <= c
          /\ (h = v => c - 0 + 1 <= c2 - 0) /\ (h # v => c - 0 <= c2 - 0)
      BY <1>7, <2>1
    <3>2. H \subseteq G \cup {x} /\ (h # v => H \subseteq G) /\ G \subseteq SpPlaces
      BY <2>1, <2>3
    <3> HIDE DEF G, H, c, c2
    <3>3. Cardinality(H) + 0 <= c2
      BY <3>1, <3>2, StaysBelow
    <3> QED
      BY <3>3 DEF H, c2
  <2>5. mem'[h] \in {"unused", "freed"} => h # v
    BY <1>2, <1>6, <1>7 DEF Allocated
  <2>6. Doomed(h)
    BY DEF Loose
  <2> QED
    BY <1>2, <1>3, <1>7, <2>1, <2>2, <2>4, <2>5, <2>6 DEF Doomed
<1>10. rc' \in [Objs -> Nat] /\ sp' \in [SpPlaces -> Objs \cup {NULL, Gone}]
  <2>1. rc' \in [Objs -> Nat]
    BY <1>1, <1>6 DEF LooseTypes
  <2> QED
    BY <1>1, <1>6, <2>1 DEF LooseTypes
<1> QED
  BY <1>1, <1>2, <1>3, <1>9, <1>10, LooseQuiet DEF LooseTypes

LEMMA LooseSet ==
    ASSUME Loose, Set
    PROVE  Loose'
<1>1. LooseTypes /\ AtLeast /\ LooseShape
  BY DEF Loose
<1>2. stack # <<>> /\ Head(stack)[1] = "set" /\ stack' = Tail(stack) /\ UNCHANGED <<mem, rc, wc>>
  BY DEF Set, Called, Return, counters
<1>3. /\ Head(stack) = stack[1] /\ LastCall(stack[1])
      /\ Stale = {stack[1][2]} /\ Stale' = {} /\ Quiet' /\ LooseShape' /\ IsSeq(stack')
      /\ \A o : /\ Due("release", o) = 0 /\ Due("releaseWeak", o) = 0
                /\ Due("release", o)' = 0 /\ Due("releaseWeak", o)' = 0
  BY <1>1, <1>2, LooseLast
<1>4. PICK d, v : d = stack[1][2] /\ v = stack[1][3]
  OBVIOUS
<1>5. /\ Stale = {d} /\ d \in SpPlaces \cup WpPlaces /\ v \in {NULL, Gone}
      /\ \/ d \in SpPlaces /\ sp' = [sp EXCEPT ![d] = v] /\ UNCHANGED wp
         \/ d \in WpPlaces /\ wp' = [wp EXCEPT ![d] = v] /\ UNCHANGED sp
  <2>1. Arg(1) = d /\ Arg(2) = v
    BY <1>3, <1>4 DEF Arg
  <2> QED
    BY <1>2, <1>3, <1>4, <2>1 DEF LastCall, Set
<1>6. /\ sp' \in [SpPlaces -> Objs \cup {NULL, Gone}]
      /\ wp' \in [WpPlaces -> Objs \cup {NULL, Gone, Junk}]
      /\ \A e \in SpPlaces : sp'[e] = IF e = d THEN v ELSE sp[e]
      /\ \A e \in WpPlaces : wp'[e] = IF e = d THEN v ELSE wp[e]
  BY <1>1, <1>5, PlacesApart DEF LooseTypes
<1>7. ASSUME NEW h \in Objs
      PROVE  /\ Cardinality(Strong(h)') + Due("release", h)' <= rc'[h]
             /\ Cardinality(Weak(h)') + Due("releaseWeak", h)' <= wc'[h]
             /\ mem'[h] \in {"unused", "freed"} => rc'[h] = 0 /\ wc'[h] = 0
  <2>1. /\ Cardinality(Strong(h)) + Due("release", h) <= rc[h] /\ rc[h] \in Nat /\ wc[h] \in Nat
        /\ Cardinality(Weak(h)) + Due("releaseWeak", h) <= wc[h]
        /\ Strong(h) \subseteq SpPlaces /\ Weak(h) \subseteq WpPlaces
    BY <1>1, LooseCounts
  <2>2. h # v
    BY <1>5, Names
  <2>3. Strong(h)' \subseteq Strong(h) /\ Weak(h)' \subseteq Weak(h)
    BY <1>3, <1>5, <1>6, <2>2 DEF Strong, Weak, SpTo, WpTo
  <2>4. Cardinality(Strong(h)') + 0 <= rc[h]
    <3> DEFINE G == Strong(h)
               H == Strong(h)'
               c == rc[h]
    <3>1. c \in Nat /\ c \in Int /\ Cardinality(G) + 0 <= c /\ c - 0 <= c - 0
      BY <1>3, <2>1
    <3>2. H \subseteq G /\ G \subseteq SpPlaces
      BY <2>1, <2>3
    <3> HIDE DEF G, H, c
    <3>3. Cardinality(H) + 0 <= c
      BY <3>1, <3>2, StaysBelow
    <3> QED
      BY <3>3 DEF H, c
  <2>5. Cardinality(Weak(h)') + 0 <= wc[h]
    <3> DEFINE G == Weak(h)
               H == Weak(h)'
               c == wc[h]
    <3>1. c \in Nat /\ c \in Int /\ Cardinality(G) + 0 <= c /\ c - 0 <= c - 0
      BY <1>3, <2>1
    <3>2. H \subseteq G /\ G \subseteq WpPlaces
      BY <2>1, <2>3
    <3> HIDE DEF G, H, c
    <3>3. Cardinality(H) + 0 <= c
      BY <3>1, <3>2, StaysBelow
    <3> QED
      BY <3>3 DEF H, c
  <2>6. Doomed(h)
    BY DEF Loose
  <2> QED
    BY <1>2, <1>3, <2>4, <2>5, <2>6 DEF Doomed
<1> QED
  BY <1>1, <1>2, <1>3, <1>6, <1>7, LooseQuiet DEF LooseTypes

-----------------------------------------------------------------------------
(* The statements, whatever is in Uses.                                    *)

LEMMA LooseBetween ==
    ASSUME Loose, stack = <<>>
    PROVE  /\ LooseTypes /\ Stale = {}
           /\ \A h \in Objs :
                  /\ Strong(h) = SpTo(h) /\ Weak(h) = WpTo(h)
                  /\ SpTo(h) \subseteq SpPlaces /\ WpTo(h) \subseteq WpPlaces
                  /\ Cardinality(SpTo(h)) <= rc[h] /\ rc[h] \in Nat /\ Cardinality(SpTo(h)) \in Nat
                  /\ Cardinality(WpTo(h)) <= wc[h] /\ wc[h] \in Nat /\ Cardinality(WpTo(h)) \in Nat
                  /\ mem[h] \in {"unused", "freed"} => rc[h] = 0 /\ wc[h] = 0
<1>1. LooseTypes /\ AtLeast /\ Stale = {}
  BY DEF Loose, Stale
<1>2. ASSUME NEW h \in Objs
      PROVE  /\ Strong(h) = SpTo(h) /\ Weak(h) = WpTo(h)
             /\ SpTo(h) \subseteq SpPlaces /\ WpTo(h) \subseteq WpPlaces
             /\ Cardinality(SpTo(h)) <= rc[h] /\ rc[h] \in Nat /\ Cardinality(SpTo(h)) \in Nat
             /\ Cardinality(WpTo(h)) <= wc[h] /\ wc[h] \in Nat /\ Cardinality(WpTo(h)) \in Nat
             /\ mem[h] \in {"unused", "freed"} => rc[h] = 0 /\ wc[h] = 0
  <2>1. Strong(h) = SpTo(h) /\ Weak(h) = WpTo(h)
    BY <1>1 DEF Strong, Weak
  <2>2. /\ Cardinality(Strong(h)) + Due("release", h) <= rc[h] /\ rc[h] \in Nat
        /\ Cardinality(Weak(h)) + Due("releaseWeak", h) <= wc[h] /\ wc[h] \in Nat
        /\ Cardinality(Strong(h)) \in Nat /\ Cardinality(Weak(h)) \in Nat
        /\ Strong(h) \subseteq SpPlaces /\ Weak(h) \subseteq WpPlaces
    BY <1>1, LooseCounts
  <2>3. Due("release", h) = 0 /\ Due("releaseWeak", h) = 0
    BY DEF Due
  <2>4. Doomed(h)
    BY DEF Loose
  <2> QED
    BY <2>1, <2>2, <2>3, <2>4 DEF Doomed
<1> QED
  BY <1>1, <1>2

\* The calls that a statement pushes.
LEMMA LooseMade ==
    ASSUME NEW a, NEW b, NEW c, LastCall(c)',
           \/ stack' = <<c>>
           \/ stack' = <<a, c>> /\ Dropping(a)
           \/ /\ stack' = <<a, b, c>> /\ Dropping(a)
              /\ b[1] = "store" /\ c[1] = "retain" /\ b[2] = c[2] /\ b[3] \in SpPlaces
    PROVE  /\ LooseShape' /\ IsSeq(stack') /\ Quiet'
           /\ Stale' = IF c[1] = "lock" THEN {} ELSE {c[2]}
           /\ \A o : \A m \in {"release", "releaseWeak"} :
                  Due(m, o)' \in {0, 1} /\ (Due(m, o)' = 1 => stack' # <<c>> /\ a[1] = m /\ a[2] = o)
<1>1. c[1] \in {"retain", "set", "storeWeak", "lock"}
  BY DEF LastCall
<1>2. CASE stack' = <<c>>
  <2>1. /\ IsSeq(stack') /\ stack' # <<>> /\ Len(stack') = 1 /\ Head(stack') = c /\ Bottom' = c
        /\ c[1] \notin {"destroy", "free"} => Quiet'
    BY <1>2, StackMade
  <2>2. \A i \in 1 .. Len(stack') - 1 : FALSE
    BY <2>1
  <2>3. LooseShape'
    BY <2>1, <2>2 DEF LooseShape
  <2>4. Stale' = IF c[1] = "lock" THEN {} ELSE {c[2]}
    BY <1>1, <2>1 DEF Stale
  <2>5. \A o : Due("release", o)' = 0 /\ Due("releaseWeak", o)' = 0
    BY <1>1, <2>1 DEF Due
  <2> QED
    BY <1>1, <2>1, <2>3, <2>4, <2>5
<1>3. CASE stack' = <<a, c>> /\ Dropping(a)
  <2>1. /\ IsSeq(stack') /\ stack' # <<>> /\ Len(stack') = 2 /\ Head(stack') = a /\ Bottom' = c
        /\ stack'[1] = a
        /\ a[1] \notin {"destroy", "free"} /\ c[1] \notin {"destroy", "free"} => Quiet'
    BY <1>3, StackMade
  <2>2. \A i \in 1 .. Len(stack') - 1 : i = 1
    BY <2>1
  <2>3. LooseShape'
    BY <1>3, <2>1, <2>2 DEF LooseShape, Before, Dropping
  <2>4. Stale' = IF c[1] = "lock" THEN {} ELSE {c[2]}
    BY <1>1, <2>1 DEF Stale
  <2>5. stack' # <<c>>
    <3>1. Len(<<c>>) = 1
      OBVIOUS
    <3> QED
      BY <2>1, <3>1
  <2>6. \A m, o : Due(m, o)' = IF a[1] = m /\ a[2] = o THEN 1 ELSE 0
    BY <2>1 DEF Due
  <2> QED
    BY <1>1, <1>3, <2>1, <2>3, <2>4, <2>5, <2>6 DEF Dropping
<1>4. CASE /\ stack' = <<a, b, c>> /\ Dropping(a)
           /\ b[1] = "store" /\ c[1] = "retain" /\ b[2] = c[2] /\ b[3] \in SpPlaces
  <2>1. /\ IsSeq(stack') /\ stack' # <<>> /\ Len(stack') = 3 /\ Head(stack') = a /\ Bottom' = c
        /\ stack'[1] = a /\ stack'[2] = b
        /\ /\ a[1] \notin {"destroy", "free"} /\ b[1] \notin {"destroy", "free"}
           /\ c[1] \notin {"destroy", "free"}
           => Quiet'
    BY <1>4, StackMade
  <2>2. \A i \in 1 .. Len(stack') - 1 : i = 1 \/ (i = 2 /\ i = Len(stack') - 1)
    BY <2>1
  <2>3. LooseShape'
    BY <1>4, <2>1, <2>2 DEF LooseShape, Before, Dropping
  <2>4. Stale' = IF c[1] = "lock" THEN {} ELSE {c[2]}
    BY <1>1, <2>1 DEF Stale
  <2>5. stack' # <<c>>
    <3>1. Len(<<c>>) = 1
      OBVIOUS
    <3> QED
      BY <2>1, <3>1
  <2>6. \A m, o : Due(m, o)' = IF a[1] = m /\ a[2] = o THEN 1 ELSE 0
    BY <2>1 DEF Due
  <2> QED
    BY <1>1, <1>4, <2>1, <2>3, <2>4, <2>5, <2>6 DEF Dropping
<1> QED
  BY <1>2, <1>3, <1>4

\* A statement that only pushes calls.
LEMMA LooseStarts ==
    ASSUME Loose, stack = <<>>, UNCHANGED <<mem, rc, wc, sp, wp>>,
           NEW a, NEW b, NEW c, LastCall(c)',
           \/ stack' = <<c>>
           \/ stack' = <<a, c>> /\ Dropping(a)
           \/ /\ stack' = <<a, b, c>> /\ Dropping(a)
              /\ b[1] = "store" /\ c[1] = "retain" /\ b[2] = c[2] /\ b[3] \in SpPlaces,
           stack' # <<c>> =>
               /\ c[1] # "lock"
               /\ a[1] = "release" => c[2] \in SpPlaces /\ a[2] = sp[c[2]]
               /\ a[1] = "releaseWeak" => c[2] \in WpPlaces /\ a[2] = wp[c[2]]
    PROVE  Loose'
<1>1. LooseTypes /\ Stale = {}
  BY LooseBetween
<1>2. /\ LooseShape' /\ IsSeq(stack') /\ Quiet'
      /\ Stale' = IF c[1] = "lock" THEN {} ELSE {c[2]}
      /\ \A o : \A m \in {"release", "releaseWeak"} :
             Due(m, o)' \in {0, 1} /\ (Due(m, o)' = 1 => stack' # <<c>> /\ a[1] = m /\ a[2] = o)
  BY LooseMade
<1>3. ASSUME NEW h \in Objs
      PROVE  /\ Cardinality(Strong(h)') + Due("release", h)' <= rc'[h]
             /\ Cardinality(Weak(h)') + Due("releaseWeak", h)' <= wc'[h]
             /\ mem'[h] \in {"unused", "freed"} => rc'[h] = 0 /\ wc'[h] = 0
  <2>1. /\ SpTo(h) \subseteq SpPlaces /\ WpTo(h) \subseteq WpPlaces
        /\ Cardinality(SpTo(h)) <= rc[h] /\ rc[h] \in Nat /\ Cardinality(SpTo(h)) \in Nat
        /\ Cardinality(WpTo(h)) <= wc[h] /\ wc[h] \in Nat /\ Cardinality(WpTo(h)) \in Nat
        /\ mem[h] \in {"unused", "freed"} => rc[h] = 0 /\ wc[h] = 0
    BY LooseBetween
  <2>2. /\ Strong(h)' = SpTo(h) \ Stale' /\ Weak(h)' = WpTo(h) \ Stale'
        /\ Due("release", h)' \in {0, 1} /\ Due("releaseWeak", h)' \in {0, 1}
    BY <1>2 DEF Strong, Weak, SpTo, WpTo
  <2>3. Cardinality(Strong(h)') + Due("release", h)' <= rc[h]
    <3> DEFINE G == SpTo(h)
               H == Strong(h)'
               due == Due("release", h)'
               n == rc[h]
    <3>1. due = 1 => c[2] \in G /\ H \subseteq G \ {c[2]}
      <4>1. due = 1 => Stale' = {c[2]} /\ c[2] \in SpPlaces /\ sp[c[2]] = h
        BY <1>2
      <4> QED
        BY <2>2, <4>1 DEF SpTo
    <3>2. H \subseteq G /\ G \subseteq SpPlaces /\ due \in {0, 1}
      BY <2>1, <2>2
    <3>3. /\ n \in Nat /\ n \in Int /\ Cardinality(G) + 0 <= n /\ n - 0 <= n - 0 /\ n - 0 - 1 <= n - 1
      BY <2>1
    <3> HIDE DEF G, H, n, due
    <3>4. ASSUME due = 0 PROVE Cardinality(H) + due <= n
      <4>1. Cardinality(H) + 0 <= n
        BY <3>2, <3>3, StaysBelow
      <4> QED
        BY <3>4, <4>1
    <3>5. ASSUME due = 1 PROVE Cardinality(H) + due <= n
      <4>1. c[2] \in G /\ H \subseteq G \ {c[2]}
        BY <3>1, <3>5
      <4>2. Cardinality(H) + 1 <= n
        BY <3>2, <3>3, <4>1, StaysBelow
      <4> QED
        BY <3>5, <4>2
    <3>6. Cardinality(H) + due <= n
      BY <3>2, <3>4, <3>5
    <3> QED
      BY <3>6 DEF H, n, due
  <2>4. Cardinality(Weak(h)') + Due("releaseWeak", h)' <= wc[h]
    <3> DEFINE G == WpTo(h)
               H == Weak(h)'
               due == Due("releaseWeak", h)'
               n == wc[h]
    <3>1. due = 1 => c[2] \in G /\ H \subseteq G \ {c[2]}
      <4>1. due = 1 => Stale' = {c[2]} /\ c[2] \in WpPlaces /\ wp[c[2]] = h
        BY <1>2
      <4> QED
        BY <2>2, <4>1 DEF WpTo
    <3>2. H \subseteq G /\ G \subseteq WpPlaces /\ due \in {0, 1}
      BY <2>1, <2>2
    <3>3. /\ n \in Nat /\ n \in Int /\ Cardinality(G) + 0 <= n /\ n - 0 <= n - 0 /\ n - 0 - 1 <= n - 1
      BY <2>1
    <3> HIDE DEF G, H, n, due
    <3>4. ASSUME due = 0 PROVE Cardinality(H) + due <= n
      <4>1. Cardinality(H) + 0 <= n
        BY <3>2, <3>3, StaysBelow
      <4> QED
        BY <3>4, <4>1
    <3>5. ASSUME due = 1 PROVE Cardinality(H) + due <= n
      <4>1. c[2] \in G /\ H \subseteq G \ {c[2]}
        BY <3>1, <3>5
      <4>2. Cardinality(H) + 1 <= n
        BY <3>2, <3>3, <4>1, StaysBelow
      <4> QED
        BY <3>5, <4>2
    <3>6. Cardinality(H) + due <= n
      BY <3>2, <3>4, <3>5
    <3> QED
      BY <3>6 DEF H, n, due
  <2> QED
    BY <2>1, <2>3, <2>4
<1> QED
  BY <1>1, <1>2, <1>3, LooseQuiet DEF LooseTypes

\* A statement that writes places that no counter has to follow.
LEMMA LooseWrites ==
    ASSUME Loose, stack = <<>>, UNCHANGED <<mem, rc, wc>>,
           LooseShape', IsSeq(stack'), Quiet',
           sp' \in [SpPlaces -> Objs \cup {NULL, Gone}],
           wp' \in [WpPlaces -> Objs \cup {NULL, Gone, Junk}],
           \A h \in Objs : /\ Due("release", h)' = 0 /\ Due("releaseWeak", h)' = 0
                           /\ Cardinality(Strong(h)') <= Cardinality(SpTo(h)) /\ Cardinality(Strong(h)') \in Nat
                           /\ Cardinality(Weak(h)') <= Cardinality(WpTo(h)) /\ Cardinality(Weak(h)') \in Nat
    PROVE  Loose'
<1>1. LooseTypes
  BY LooseBetween
<1>2. ASSUME NEW h \in Objs
      PROVE  /\ Cardinality(Strong(h)') + Due("release", h)' <= rc'[h]
             /\ Cardinality(Weak(h)') + Due("releaseWeak", h)' <= wc'[h]
             /\ mem'[h] \in {"unused", "freed"} => rc'[h] = 0 /\ wc'[h] = 0
  <2>1. /\ Cardinality(SpTo(h)) <= rc[h] /\ rc[h] \in Nat /\ Cardinality(SpTo(h)) \in Nat
        /\ Cardinality(WpTo(h)) <= wc[h] /\ wc[h] \in Nat /\ Cardinality(WpTo(h)) \in Nat
        /\ mem[h] \in {"unused", "freed"} => rc[h] = 0 /\ wc[h] = 0
    BY LooseBetween
  <2>2. Cardinality(Strong(h)') <= rc[h] /\ Cardinality(Weak(h)') <= wc[h]
    BY <2>1
  <2> QED
    BY <2>1, <2>2
<1> QED
  BY <1>1, <1>2, LooseQuiet DEF LooseTypes

\* The places that a program can name are safe from the cascades it starts.
LEMMA LooseReach ==
    ASSUME Loose, stack = <<>>
    PROVE  /\ \A d \in SpReach : d \in SpPlaces /\ Safe(d) /\ (d \in SpVars => sp[d] # Gone)
           /\ \A w \in WpReach : w \in WpPlaces /\ Safe(w) /\ (w \in WpVars => wp[w] # Gone)
           /\ \A x \in SpVars : x \in SpPlaces /\ x \in SpRoots /\ Safe(x) /\ x \notin WpPlaces
           /\ \A w \in WpVars : w \in WpPlaces /\ Safe(w) /\ w \notin SpPlaces
<1>1. ASSUME NEW o \in Held
      PROVE  /\ NextOf(o) \in SpPlaces /\ Safe(NextOf(o)) /\ NextOf(o) \notin SpVars
             /\ BackOf(o) \in WpPlaces /\ Safe(BackOf(o)) /\ BackOf(o) \notin WpVars
  <2>1. o \in Objs /\ \E x \in SpRoots : sp[x] = o
    BY DEF Held
  <2> QED
    BY <2>1, Names DEF Safe, SpRoots
<1>2. \A x \in SpVars : x \in SpPlaces /\ x \in SpRoots /\ Safe(x) /\ x \notin WpPlaces
  BY PlacesApart DEF Safe, SpPlaces, SpRoots
<1>3. \A w \in WpVars : w \in WpPlaces /\ Safe(w) /\ w \notin SpPlaces
  BY PlacesApart DEF Safe, WpPlaces
<1>4. \A d \in SpReach : d \in SpPlaces /\ Safe(d) /\ (d \in SpVars => sp[d] # Gone)
  <2>1. \A x \in SpRoots : x \in SpPlaces /\ Safe(x)
    BY DEF Safe, SpPlaces
  <2> QED
    BY <1>1, <2>1 DEF SpReach
<1>5. \A w \in WpReach : w \in WpPlaces /\ Safe(w) /\ (w \in WpVars => wp[w] # Gone)
  BY <1>1, <1>3 DEF WpReach
<1> QED
  BY <1>2, <1>3, <1>4, <1>5

\* d = p; with p and d the same place or one owned by the other, too.
LEMMA LooseSpAssign ==
    ASSUME Loose, NEW d \in SpReach, NEW p \in SpReach, SpAssign(d, p)
    PROVE  Loose'
<1> DEFINE a == <<"release", sp[d]>>
           b == <<"store", d, p>>
           c == <<"retain", d>>
<1>1. stack = <<>> /\ stack' = <<a, b, c>> /\ UNCHANGED <<mem, rc, wc, sp, wp>>
  BY DEF SpAssign, Idle, Do, counters
<1>2. d \in SpPlaces /\ Safe(d) /\ p \in SpPlaces
  BY <1>1, LooseReach
<1>3. /\ a[1] = "release" /\ a[2] = sp[d] /\ b[1] = "store" /\ b[2] = d /\ b[3] = p
      /\ c[1] = "retain" /\ c[2] = d
  OBVIOUS
<1>4. LastCall(c)'
  BY <1>1, <1>2 DEF LastCall, Safe, NextOf, BackOf
<1> HIDE DEF a, b, c
<1> QED
  BY <1>1, <1>2, <1>3, <1>4, LooseStarts DEF Dropping

\* reset(), and the end of a variable.
LEMMA LooseEnds ==
    ASSUME Loose, Idle, NEW d, NEW v \in {NULL, Gone}, Safe(d), UNCHANGED <<sp, wp>>,
           \/ d \in SpPlaces /\ Do(<<<<"release", sp[d]>>, <<"set", d, v>>>>)
           \/ d \in WpPlaces /\ Do(<<<<"releaseWeak", wp[d]>>, <<"set", d, v>>>>)
           \/ d \in WpPlaces /\ Do(<<<<"set", d, v>>>>)
    PROVE  Loose'
<1> DEFINE a == <<"release", sp[d]>>
           a2 == <<"releaseWeak", wp[d]>>
           c == <<"set", d, v>>
<1>1. stack = <<>> /\ UNCHANGED <<mem, rc, wc, sp, wp>>
  BY DEF Idle, Do, counters
<1>2. /\ a[1] = "release" /\ a[2] = sp[d] /\ a2[1] = "releaseWeak" /\ a2[2] = wp[d]
      /\ c[1] = "set" /\ c[2] = d
  OBVIOUS
<1>3. LastCall(c)'
  <2>1. Safe(d)'
    BY <1>1 DEF Safe, NextOf, BackOf
  <2>2. d \in SpPlaces \cup WpPlaces
    OBVIOUS
  <2> QED
    BY <2>1, <2>2 DEF LastCall
<1> HIDE DEF a, a2, c
<1>4. CASE d \in SpPlaces /\ stack' = <<a, c>>
  BY <1>1, <1>2, <1>3, <1>4, LooseStarts DEF Dropping
<1>5. CASE d \in WpPlaces /\ stack' = <<a2, c>>
  BY <1>1, <1>2, <1>3, <1>5, LooseStarts DEF Dropping
<1>6. CASE d \in WpPlaces /\ stack' = <<c>>
  BY <1>1, <1>2, <1>3, <1>6, LooseStarts
<1> QED
  BY <1>4, <1>5, <1>6 DEF Do, a, a2, c

\* A weak place is written after what it referred to is dropped, or forgotten.
LEMMA LooseStoresWeak ==
    ASSUME Loose, Idle, NEW d \in WpPlaces, NEW r, Safe(d), UNCHANGED <<sp, wp>>,
           \/ Do(<<<<"storeWeak", d, r>>>>)
           \/ Do(<<<<"releaseWeak", wp[d]>>, <<"storeWeak", d, r>>>>)
    PROVE  Loose'
<1> DEFINE a == <<"releaseWeak", wp[d]>>
           c == <<"storeWeak", d, r>>
<1>1. stack = <<>> /\ UNCHANGED <<mem, rc, wc, sp, wp>>
  BY DEF Idle, Do, counters
<1>2. a[1] = "releaseWeak" /\ a[2] = wp[d] /\ c[1] = "storeWeak" /\ c[2] = d
  OBVIOUS
<1>3. LastCall(c)'
  <2>1. Safe(d)'
    BY <1>1 DEF Safe, NextOf, BackOf
  <2> QED
    BY <2>1 DEF LastCall
<1> HIDE DEF a, c
<1>4. CASE stack' = <<a, c>>
  BY <1>1, <1>2, <1>3, <1>4, LooseStarts DEF Dropping
<1>5. CASE stack' = <<c>>
  BY <1>1, <1>2, <1>3, <1>5, LooseStarts
<1> QED
  BY <1>4, <1>5 DEF Do, a, c

LEMMA LooseWpLock ==
    ASSUME Loose, NEW x \in SpVars, NEW p, WpLock(x, p)
    PROVE  Loose'
<1>1. PICK r : r = wp[p]
  OBVIOUS
<1> DEFINE c == <<"lock", x, r>>
<1>2. stack = <<>> /\ stack' = <<c>> /\ UNCHANGED <<mem, rc, wc, sp, wp>>
  BY <1>1 DEF WpLock, Idle, Do, counters
<1>3. LastCall(c)'
  BY DEF LastCall
<1> HIDE DEF c
<1> QED
  BY <1>2, <1>3, LooseStarts

\* T x; and x(p): nothing refers to x that did not refer to it before, or it is
\* counted by the call to come.
LEMMA LooseSpWrites ==
    ASSUME Loose, NEW x \in SpVars, NEW p,
           SpDeclare(x) \/ (p \in SpReach /\ (SpCopy(x, p) \/ SpMove(x, p)))
    PROVE  Loose'
<1>1. stack = <<>> /\ UNCHANGED <<mem, rc, wc, wp>> /\ sp[x] = Gone
  BY DEF SpDeclare, SpCopy, SpMove, Idle, Do, counters
<1>2. LooseTypes /\ Stale = {}
  BY <1>1, LooseBetween
<1>3. x \in SpPlaces /\ x \in SpRoots /\ x \notin WpPlaces /\ (p \in SpReach => p \in SpPlaces /\ p # x)
  BY <1>1, LooseReach
<1>4. /\ sp' \in [SpPlaces -> Objs \cup {NULL, Gone}]
      /\ wp' \in [WpPlaces -> Objs \cup {NULL, Gone, Junk}]
  BY <1>1, <1>2, <1>3 DEF SpDeclare, SpCopy, SpMove, LooseTypes
<1>5. /\ LooseShape' /\ IsSeq(stack') /\ Quiet' /\ (SpCopy(x, p) => Stale' = {x}) /\ (stack' = <<>> => Stale' = {})
      /\ Stale' \subseteq {x}
      /\ \A h : Due("release", h)' = 0 /\ Due("releaseWeak", h)' = 0
  <2> DEFINE c == <<"retain", x>>
  <2>1. CASE SpCopy(x, p)
    <3>1. LastCall(c)' /\ c[1] = "retain" /\ c[2] = x
      BY <1>3 DEF LastCall, Safe
    <3>2. stack' = <<c>>
      BY <2>1 DEF SpCopy, Do
    <3>3. stack' # <<>>
      BY <3>2
    <3> HIDE DEF c
    <3>4. c[1] # "lock" /\ (\A h : Due("release", h)' \in {0, 1} /\ (Due("release", h)' = 1 => stack' # <<c>>))
          /\ (\A h : Due("releaseWeak", h)' \in {0, 1} /\ (Due("releaseWeak", h)' = 1 => stack' # <<c>>))
      BY <3>1, <3>2, LooseMade
    <3> QED
      BY <2>1, <3>1, <3>2, <3>3, <3>4, LooseMade
  <2>2. CASE ~SpCopy(x, p)
    <3>1. stack' = <<>>
      BY <2>2 DEF SpDeclare, SpMove, Do
    <3>2. Len(stack') = 0 /\ IsSeq(stack') /\ \A i \in 1 .. 0 : FALSE
      BY <3>1, Lists
    <3> QED
      BY <2>2, <3>1, <3>2 DEF LooseShape, Quiet, Stale, Due
  <2> QED
    BY <2>1, <2>2
<1>6. ASSUME NEW h \in Objs
      PROVE  /\ Cardinality(Strong(h)') <= Cardinality(SpTo(h)) /\ Cardinality(Strong(h)') \in Nat
             /\ Cardinality(Weak(h)') <= Cardinality(WpTo(h)) /\ Cardinality(Weak(h)') \in Nat
  <2>1. h # NULL /\ h # Gone
    BY Names
  <2>2. /\ SpTo(h) \subseteq SpPlaces /\ WpTo(h) \subseteq WpPlaces
        /\ Cardinality(SpTo(h)) \in Nat /\ Cardinality(WpTo(h)) \in Nat
    BY <1>1, LooseBetween
  <2>3. Weak(h)' = WpTo(h)
    BY <1>1, <1>3, <1>5 DEF Weak, WpTo
  <2>4. Cardinality(Strong(h)') <= Cardinality(SpTo(h)) /\ Cardinality(Strong(h)') \in Nat
    <3>1. CASE Strong(h)' \subseteq SpTo(h)
      <4>1. IsFiniteSet(SpTo(h))
        BY <2>2, PlacesFinite, FS_Subset
      <4> QED
        BY <3>1, <4>1, FS_Subset, FS_CardinalityType
    <3>2. CASE p \in SpReach /\ SpMove(x, p) /\ sp[p] = h
      <4>1. \A e \in SpPlaces : sp'[e] = IF e = p THEN NULL ELSE IF e = x THEN h ELSE sp[e]
        BY <1>2, <1>3, <3>2 DEF SpMove, LooseTypes
      <4>2. Stale' = {}
        BY <1>5, <3>2 DEF SpMove, Do
      <4>3. Strong(h)' = (SpTo(h) \ {p}) \cup {x} /\ p \in SpTo(h) /\ x \notin SpTo(h)
        BY <1>1, <1>3, <2>1, <3>2, <4>1, <4>2 DEF Strong, SpTo
      <4> QED
        BY <2>2, <4>3, CountExchange
    <3>3. CASE ~(p \in SpReach /\ SpMove(x, p) /\ sp[p] = h)
      <4>1. Strong(h)' \subseteq SpTo(h)
        BY <1>2, <1>3, <1>5, <2>1, <3>3 DEF Strong, SpTo, SpDeclare, SpCopy, SpMove, LooseTypes
      <4> QED
        BY <3>1, <4>1
    <3> QED
      BY <3>2, <3>3
  <2> QED
    BY <2>2, <2>3, <2>4
<1> QED
  BY <1>1, <1>4, <1>5, <1>6, LooseWrites

\* wp<T> w; and w(std::move(p)), likewise.
LEMMA LooseWpWrites ==
    ASSUME Loose, NEW w \in WpVars, NEW p,
           WpDeclare(w) \/ (p \in WpReach /\ WpMove(w, p))
    PROVE  Loose'
<1>1. stack = <<>> /\ stack' = <<>> /\ UNCHANGED <<mem, rc, wc, sp>> /\ wp[w] = Gone
  BY DEF WpDeclare, WpMove, Idle, Do, counters
<1>2. LooseTypes /\ Stale = {}
  BY <1>1, LooseBetween
<1>3. w \in WpPlaces /\ (p \in WpReach => p \in WpPlaces)
  BY <1>1, LooseReach
<1>4. /\ sp' \in [SpPlaces -> Objs \cup {NULL, Gone}]
      /\ wp' \in [WpPlaces -> Objs \cup {NULL, Gone, Junk}]
  BY <1>1, <1>2, <1>3 DEF WpDeclare, WpMove, LooseTypes
<1>5. /\ LooseShape' /\ IsSeq(stack') /\ Quiet' /\ Stale' = {}
      /\ \A h : Due("release", h)' = 0 /\ Due("releaseWeak", h)' = 0
  <2>1. Len(stack') = 0 /\ IsSeq(stack') /\ \A i \in 1 .. 0 : FALSE
    BY <1>1, Lists
  <2> QED
    BY <1>1, <2>1 DEF LooseShape, Quiet, Stale, Due
<1>6. ASSUME NEW h \in Objs
      PROVE  /\ Cardinality(Strong(h)') <= Cardinality(SpTo(h)) /\ Cardinality(Strong(h)') \in Nat
             /\ Cardinality(Weak(h)') <= Cardinality(WpTo(h)) /\ Cardinality(Weak(h)') \in Nat
  <2>1. h # NULL /\ h # Gone /\ h # Junk
    BY Names
  <2>2. /\ SpTo(h) \subseteq SpPlaces /\ WpTo(h) \subseteq WpPlaces
        /\ Cardinality(SpTo(h)) \in Nat /\ Cardinality(WpTo(h)) \in Nat
    BY <1>1, LooseBetween
  <2>3. Strong(h)' = SpTo(h)
    BY <1>1, <1>5 DEF Strong, SpTo
  <2>4. CASE Weak(h)' \subseteq WpTo(h)
    <3>1. IsFiniteSet(WpTo(h))
      BY <2>2, PlacesFinite, FS_Subset
    <3> QED
      BY <2>2, <2>3, <2>4, <3>1, FS_Subset, FS_CardinalityType
  <2>5. CASE p \in WpReach /\ WpMove(w, p) /\ wp[p] = h
    <3>1. p # w
      BY <1>1, <2>1, <2>5
    <3>2. \A e \in WpPlaces : wp'[e] = IF e = p THEN NULL ELSE IF e = w THEN h ELSE wp[e]
      BY <1>2, <1>3, <2>5, <3>1 DEF WpMove, LooseTypes
    <3>3. Weak(h)' = (WpTo(h) \ {p}) \cup {w} /\ p \in WpTo(h) /\ w \notin WpTo(h)
      BY <1>1, <1>3, <1>5, <2>1, <2>5, <3>1, <3>2 DEF Weak, WpTo
    <3> QED
      BY <2>2, <2>3, <3>3, CountExchange
  <2>6. CASE ~(p \in WpReach /\ WpMove(w, p) /\ wp[p] = h)
    <3>1. Weak(h)' \subseteq WpTo(h)
      <4>1. CASE WpDeclare(w)
        BY <1>2, <1>3, <1>5, <2>1, <4>1 DEF Weak, WpTo, WpDeclare, LooseTypes
      <4>2. CASE p \in WpReach /\ WpMove(w, p)
        BY <1>2, <1>3, <1>5, <2>1, <2>6, <4>2 DEF Weak, WpTo, WpMove, LooseTypes
      <4> QED
        BY <4>1, <4>2
    <3> QED
      BY <2>4, <3>1
  <2> QED
    BY <2>5, <2>6
<1> QED
  BY <1>1, <1>4, <1>5, <1>6, LooseWrites

\* An object that was never used is made with one reference to it.
LEMMA LooseSpAlloc ==
    ASSUME Loose, NEW x \in SpVars, NEW o \in Objs, SpAlloc(x, o)
    PROVE  Loose'
<1>1. stack = <<>> /\ stack' = <<>> /\ sp[x] = Gone /\ mem[o] = "unused"
  BY DEF SpAlloc, Idle
<1>2. LooseTypes /\ Stale = {}
  BY <1>1, LooseBetween
<1>3. x \in SpPlaces /\ NextOf(o) \in SpPlaces /\ BackOf(o) \in WpPlaces /\ x # NextOf(o)
  BY <1>1, LooseReach, Names DEF SpPlaces, WpPlaces
<1>4. /\ \A h \in Objs : mem'[h] = IF h = o THEN "live" ELSE mem[h]
      /\ \A h \in Objs : rc'[h] = IF h = o THEN 1 ELSE rc[h]
      /\ \A h \in Objs : wc'[h] = IF h = o THEN 0 ELSE wc[h]
      /\ \A e \in SpPlaces : sp'[e] = IF e = NextOf(o) THEN NULL ELSE IF e = x THEN o ELSE sp[e]
      /\ \A e \in WpPlaces : wp'[e] = IF e = BackOf(o) THEN NULL ELSE wp[e]
  BY <1>2, <1>3 DEF SpAlloc, LooseTypes, NewCounts
<1>5. /\ sp' \in [SpPlaces -> Objs \cup {NULL, Gone}]
      /\ wp' \in [WpPlaces -> Objs \cup {NULL, Gone, Junk}]
      /\ mem' \in [Objs -> {"unused", "live", "destroyed", "freed"}]
      /\ rc' \in [Objs -> Nat] /\ wc' \in [Objs -> Nat]
  BY <1>2, <1>3 DEF SpAlloc, LooseTypes, NewCounts
<1>6. /\ LooseShape' /\ IsSeq(stack') /\ Quiet' /\ Stale' = {}
      /\ \A h : Due("release", h)' = 0 /\ Due("releaseWeak", h)' = 0
  <2>1. Len(stack') = 0 /\ IsSeq(stack') /\ \A i \in 1 .. 0 : FALSE
    BY <1>1, Lists
  <2> QED
    BY <1>1, <2>1 DEF LooseShape, Quiet, Stale, Due
<1>7. ASSUME NEW h \in Objs
      PROVE  /\ Cardinality(Strong(h)') + Due("release", h)' <= rc'[h]
             /\ Cardinality(Weak(h)') + Due("releaseWeak", h)' <= wc'[h]
             /\ mem'[h] \in {"unused", "freed"} => rc'[h] = 0 /\ wc'[h] = 0
  <2>1. h # NULL /\ h # Gone /\ o # NULL /\ o # Gone
    BY Names
  <2>2. /\ Strong(h) = SpTo(h) /\ Weak(h) = WpTo(h)
        /\ SpTo(h) \subseteq SpPlaces /\ WpTo(h) \subseteq WpPlaces
        /\ Cardinality(SpTo(h)) <= rc[h] /\ rc[h] \in Nat /\ Cardinality(SpTo(h)) \in Nat
        /\ Cardinality(WpTo(h)) <= wc[h] /\ wc[h] \in Nat /\ Cardinality(WpTo(h)) \in Nat
        /\ mem[h] \in {"unused", "freed"} => rc[h] = 0 /\ wc[h] = 0
    BY <1>1, LooseBetween
  <2>3. IsFiniteSet(SpTo(h)) /\ IsFiniteSet(WpTo(h))
    BY <2>2, PlacesFinite, FS_Subset
  <2>4. Weak(h)' \subseteq WpTo(h)
    BY <1>4, <1>6, <2>1 DEF Weak, WpTo
  <2>5. Cardinality(Weak(h)') <= Cardinality(WpTo(h)) /\ Cardinality(Weak(h)') \in Nat
    BY <2>3, <2>4, FS_Subset, FS_CardinalityType
  <2>6. CASE h # o
    <3>1. Strong(h)' \subseteq SpTo(h)
      BY <1>4, <1>6, <2>1, <2>6 DEF Strong, SpTo
    <3>2. Cardinality(Strong(h)') <= Cardinality(SpTo(h)) /\ Cardinality(Strong(h)') \in Nat
      BY <2>3, <3>1, FS_Subset, FS_CardinalityType
    <3>3. rc'[h] = rc[h] /\ wc'[h] = wc[h] /\ mem'[h] = mem[h]
      BY <1>4, <2>6
    <3> QED
      BY <1>6, <2>2, <2>5, <3>2, <3>3
  <2>7. CASE h = o
    <3>1. rc[h] = 0 /\ wc[h] = 0 /\ Cardinality(SpTo(h)) = 0 /\ Cardinality(WpTo(h)) = 0
      BY <1>1, <2>2, <2>7
    <3>2. SpTo(h) = {}
      BY <2>3, <3>1, FS_EmptySet
    <3>3. Strong(h)' \subseteq {x}
      BY <1>4, <1>6, <2>1, <2>7, <3>2 DEF Strong, SpTo
    <3>4. Cardinality(Strong(h)') <= 1 /\ Cardinality(Strong(h)') \in Nat
      <4>1. IsFiniteSet({x}) /\ Cardinality({x}) = 1
        BY FS_Singleton
      <4> QED
        BY <3>3, <4>1, FS_Subset, FS_CardinalityType
    <3>5. rc'[h] = 1 /\ wc'[h] = 0 /\ mem'[h] = "live"
      BY <1>4, <2>7
    <3> QED
      BY <1>6, <2>2, <2>5, <3>1, <3>4, <3>5
  <2> QED
    BY <2>6, <2>7
<1> QED
  BY <1>5, <1>6, <1>7, LooseQuiet

\* w(r), d = r and d = w, with a reference lost or not.
LEMMA LooseWpStatements ==
    ASSUME Loose, NEW r,
           \/ \E w \in WpVars : WpFrom(w, r)
           \/ \E d \in WpReach : WpAssign(d, r) \/ WpCopyAssign(d, r)
    PROVE  Loose'
<1>1. Idle /\ UNCHANGED <<sp, wp>>
  BY DEF WpFrom, WpAssign, WpCopyAssign, Do
<1>2. PICK d \in WpPlaces :
          Safe(d) /\ (WpFrom(d, r) \/ WpAssign(d, r) \/ WpCopyAssign(d, r))
  BY <1>1, LooseReach DEF Idle
<1>3. \/ Do(<<<<"storeWeak", d, r>>>>)
      \/ Do(<<<<"releaseWeak", wp[d]>>, <<"storeWeak", d, r>>>>)
  <2>1. CASE WpAssign(d, r)
    <3>1. Do(When(wp[d] # NULL, <<"releaseWeak", wp[d]>>) \o <<<<"storeWeak", d, r>>>>)
      BY <2>1 DEF WpAssign
    <3> QED
      BY <3>1, Puts
  <2> QED
    BY <1>2, <2>1 DEF WpFrom, WpCopyAssign
<1> QED
  BY <1>1, <1>2, <1>3, LooseStoresWeak

LEMMA LooseWpEnd ==
    ASSUME Loose, NEW w \in WpVars, WpEnd(w)
    PROVE  Loose'
<1>1. Idle /\ UNCHANGED <<sp, wp>> /\ w \in WpPlaces /\ Safe(w)
  BY LooseReach DEF WpEnd, Do, Idle
<1>2. \/ Do(<<<<"releaseWeak", wp[w]>>, <<"set", w, Gone>>>>)
      \/ Do(<<<<"set", w, Gone>>>>)
  <2>1. Do(When(wp[w] # NULL, <<"releaseWeak", wp[w]>>) \o <<<<"set", w, Gone>>>>)
    BY DEF WpEnd
  <2> QED
    BY <2>1, Puts
<1> QED
  BY <1>1, <1>2, LooseEnds

LEMMA LooseStatements ==
    ASSUME Loose, Statements
    PROVE  Loose'
<1>1. stack = <<>>
  BY DEF Statements, SpAlloc, SpDeclare, SpEnd, SpCopy, SpMove, WpLock, SpReset, SpAssign,
         WpDeclare, WpEnd, WpFrom, WpMove, WpReset, WpAssign, WpCopyAssign, Do, Idle
<1>2. ASSUME NEW x \in SpVars, NEW o \in Objs, SpAlloc(x, o)
      PROVE  Loose'
  BY <1>2, LooseSpAlloc
<1>3. ASSUME NEW x \in SpVars, SpDeclare(x)
      PROVE  Loose'
  BY <1>3, LooseSpWrites
<1>4. ASSUME NEW x \in SpVars, SpEnd(x)
      PROVE  Loose'
  <2>1. /\ Idle /\ UNCHANGED <<sp, wp>> /\ x \in SpPlaces /\ Safe(x)
        /\ Do(<<<<"release", sp[x]>>, <<"set", x, Gone>>>>)
    BY <1>1, <1>4, LooseReach DEF SpEnd, Do
  <2> QED
    BY <2>1, LooseEnds
<1>5. ASSUME NEW x \in SpVars, NEW p \in SpReach, SpCopy(x, p) \/ SpMove(x, p)
      PROVE  Loose'
  BY <1>5, LooseSpWrites
<1>6. ASSUME NEW x \in SpVars, NEW p \in WpReach, WpLock(x, p)
      PROVE  Loose'
  BY <1>6, LooseWpLock
<1>7. ASSUME NEW d \in SpReach, SpReset(d)
      PROVE  Loose'
  <2>1. /\ Idle /\ UNCHANGED <<sp, wp>> /\ d \in SpPlaces /\ Safe(d)
        /\ Do(<<<<"release", sp[d]>>, <<"set", d, NULL>>>>)
    BY <1>1, <1>7, LooseReach DEF SpReset, Do
  <2> QED
    BY <2>1, LooseEnds
<1>8. ASSUME NEW d \in SpReach, NEW p \in SpReach, SpAssign(d, p)
      PROVE  Loose'
  BY <1>8, LooseSpAssign
<1>9. ASSUME NEW w \in WpVars, WpDeclare(w)
      PROVE  Loose'
  BY <1>9, LooseWpWrites
<1>10. ASSUME NEW w \in WpVars, WpEnd(w)
       PROVE  Loose'
  BY <1>10, LooseWpEnd
<1>11. ASSUME NEW w \in WpVars, NEW r, WpFrom(w, r)
       PROVE  Loose'
  BY <1>11, LooseWpStatements
<1>12. ASSUME NEW w \in WpVars, NEW p \in WpReach, WpMove(w, p)
       PROVE  Loose'
  BY <1>12, LooseWpWrites
<1>13. ASSUME NEW d \in WpReach, WpReset(d)
       PROVE  Loose'
  <2>1. /\ Idle /\ UNCHANGED <<sp, wp>> /\ d \in WpPlaces /\ Safe(d)
        /\ Do(<<<<"releaseWeak", wp[d]>>, <<"set", d, NULL>>>>)
    BY <1>1, <1>13, LooseReach DEF WpReset, Do
  <2> QED
    BY <2>1, LooseEnds
<1>14. ASSUME NEW d \in WpReach, NEW r, WpAssign(d, r) \/ WpCopyAssign(d, r)
       PROVE  Loose'
  BY <1>14, LooseWpStatements
<1> QED
  BY <1>2, <1>3, <1>4, <1>5, <1>6, <1>7, <1>8, <1>9, <1>10, <1>11, <1>12, <1>13, <1>14
     DEF Statements

LEMMA LooseCalls ==
    ASSUME Loose, Calls
    PROVE  fault' \/ Loose'
<1>1. CASE Crash
  BY <1>1 DEF Crash
<1> QED
  BY <1>1, LooseRelease, LooseReleaseWeak, LooseDestroy, LooseFree, LooseStore, LooseRetain,
     LooseStoreWeak, LooseLock, LooseSet DEF Calls

\* Whatever the program does, as long as it has not crashed it holds no pointer
\* to memory given back: a counter may be too high, it is never too low.
THEOREM SmartPtrNoDangling == Spec => []NoDangling
<1>1. Init => Loose
  <2> SUFFICES ASSUME Init PROVE Loose
    OBVIOUS
  <2>1. stack = <<>> /\ Len(stack) = 0 /\ IsSeq(stack) /\ \A i \in 1 .. 0 : FALSE
    BY Lists DEF Init
  <2>2. LooseTypes
    BY <2>1 DEF LooseTypes, Init
  <2>3. LooseShape /\ Stale = {} /\ \A o : ~Pending("destroy", o) /\ ~Pending("free", o)
    BY <2>1 DEF LooseShape, Stale, Pending
  <2>4. \A o \in Objs : Doomed(o)
    BY <2>3 DEF Doomed, Init
  <2>5. AtLeast
    <3> SUFFICES ASSUME NEW o \in Objs
                 PROVE  /\ Cardinality(Strong(o)) + Due("release", o) <= rc[o]
                        /\ Cardinality(Weak(o)) + Due("releaseWeak", o) <= wc[o]
      BY DEF AtLeast
    <3>1. Strong(o) = {} /\ Weak(o) = {}
      BY Names DEF Init, Strong, Weak, SpTo, WpTo
    <3>2. Due("release", o) = 0 /\ Due("releaseWeak", o) = 0 /\ rc[o] = 0 /\ wc[o] = 0
      BY <2>1 DEF Due, Init
    <3> QED
      BY <3>1, <3>2, FS_EmptySet
  <2> QED
    BY <2>2, <2>3, <2>4, <2>5 DEF Loose
<1>2. (fault \/ Loose) /\ [Next]_vars => (fault \/ Loose)'
  <2> SUFFICES ASSUME fault \/ Loose, [Next]_vars PROVE fault' \/ Loose'
    OBVIOUS
  <2>1. CASE UNCHANGED vars
    BY <2>1 DEF vars, Loose, LooseTypes, AtLeast, Doomed, LooseShape, LastCall, Before, Safe,
       Strong, Weak, SpTo, WpTo, Stale, Due, Pending, Bottom, InCascade, Dropping
  <2>2. CASE Next /\ fault
    BY <2>2 DEF Next, Statements, SpAlloc, SpDeclare, SpEnd, SpCopy, SpMove, WpLock, SpReset,
       SpAssign, WpDeclare, WpEnd, WpFrom, WpMove, WpReset, WpAssign, WpCopyAssign, Do, Idle,
       Calls, Release, ReleaseWeak, Destroy, FreeMemory, Store, Retain, StoreWeak, Lock, Set,
       Crash, Called
  <2>3. CASE Next /\ ~fault
    BY <2>3, LooseStatements, LooseCalls DEF Next
  <2> QED
    BY <2>1, <2>2, <2>3
<1>3. fault \/ Loose => NoDangling
  <2> SUFFICES ASSUME Loose, Idle, NEW o \in Objs, SpTo(o) \cup WpTo(o) # {}
               PROVE  mem[o] # "freed"
    BY DEF NoDangling, Idle
  <2>1. /\ Strong(o) = SpTo(o) /\ Weak(o) = WpTo(o) /\ LooseTypes
        /\ mem[o] \in {"unused", "freed"} => rc[o] = 0 /\ wc[o] = 0
    BY LooseBetween DEF Idle
  <2> QED
    BY <2>1, NothingRefers DEF Loose
<1> QED
  BY <1>1, <1>2, <1>3, PTL DEF Spec
=============================================================================
