--------------------------- MODULE IngressProofs ---------------------------
(***************************************************************************)
(* Proofs about IngressProvisioner, for any routes, capacity, batches and  *)
(* number of Ingress resources.                                            *)
(***************************************************************************)
EXTENDS IngressProvisioner, FiniteSetTheorems, SequenceTheorems,
        WellFoundedInduction, TLAPS

-----------------------------------------------------------------------------
(* Induction, as a property of sets of numbers. *)

LEMMA LeastNumber ==
  ASSUME NEW T \in SUBSET Nat, T # {}
  PROVE  \E x \in T : \A y \in T : ~(y < x)
<1>1. \E x \in T : \A y \in T : ~(<<y, x>> \in OpToRel(<, Nat))
  BY ONLY T \in SUBSET Nat, T # {}, NatLessThanWellFounded, WFMin
<1>2. PICK x \in T : \A y \in T : ~(<<y, x>> \in OpToRel(<, Nat))
  BY <1>1
<1>3. \A y \in T : ~(y < x)
  BY <1>2 DEF OpToRel
<1>4. QED
  BY <1>3

LEMMA UpTo ==
  ASSUME NEW n \in Nat, NEW S, 0 \in S, \A k \in 1 .. n : k - 1 \in S => k \in S
  PROVE  \A k \in 0 .. n : k \in S
<1> SUFFICES ASSUME \E k \in 0 .. n : k \notin S PROVE FALSE
  OBVIOUS
<1> DEFINE T == {k \in Nat : k <= n /\ k \notin S}
<1>1. T \in SUBSET Nat /\ T # {}
  OBVIOUS
<1>2. PICK x \in T : \A y \in T : ~(y < x)
  <2> HIDE DEF T
  <2>1. QED
    BY <1>1, LeastNumber
<1>3. x \in 1 .. n /\ x \notin S /\ x - 1 \in Nat /\ x - 1 <= n
  OBVIOUS
<1>4. x - 1 \in S
  <2>1. x - 1 \notin T
    BY <1>2, <1>3
  <2>2. QED
    BY <1>3, <2>1
<1>5. QED
  BY <1>3, <1>4


-----------------------------------------------------------------------------
(* Among. *)

\* Among is what its equations say.
LEMMA AmongSteps ==
  ASSUME NEW s, Len(s) \in Nat, NEW S
  PROVE  \E f : /\ Among(s, S) = f[Len(s)] /\ f[0] = <<>>
                /\ \A k \in 1 .. Len(s) :
                     f[k] = IF s[k] \in S THEN Append(f[k - 1], s[k]) ELSE f[k - 1]
<1> DEFINE n == Len(s)
           Put(e, k) == IF s[k] \in S THEN Append(e, s[k]) ELSE e
           Good(f, m) == /\ f = [k \in 0 .. m |-> f[k]]
                         /\ f[0] = <<>>
                         /\ \A k \in 1 .. m : f[k] = Put(f[k - 1], k)
           T == {m \in 0 .. n : \E f : Good(f, m)}
<1> HIDE DEF Put
<1>1. 0 \in T
  <2> DEFINE g == [k \in 0 .. 0 |-> <<>>]
  <2>1. Good(g, 0)
    OBVIOUS
  <2>2. 0 \in 0 .. n
    OBVIOUS
  <2>3. QED
    <3> HIDE DEF g, Good
    <3>1. QED
      BY <2>1, <2>2
<1>2. ASSUME NEW m \in 1 .. n, m - 1 \in T PROVE m \in T
  <2>1. PICK f : Good(f, m - 1)
    BY <1>2
  <2> DEFINE g == [k \in 0 .. m |-> IF k = m THEN Put(f[m - 1], m) ELSE f[k]]
  <2>2. g[0] = <<>> /\ g = [k \in 0 .. m |-> g[k]]
    BY <2>1
  <2>3. ASSUME NEW k \in 1 .. m PROVE g[k] = Put(g[k - 1], k)
    <3>1. k - 1 \in 0 .. m /\ k - 1 # m /\ k \in 0 .. m
      OBVIOUS
    <3>2. g[k - 1] = f[k - 1]
      BY <3>1
    <3>3. CASE k = m
      BY <3>1, <3>2, <3>3
    <3>4. CASE k # m
      <4>1. k \in 1 .. m - 1
        BY <3>4
      <4>2. f[k] = Put(f[k - 1], k)
        BY <2>1, <4>1
      <4>3. QED
        BY <3>1, <3>2, <3>4, <4>2
    <3>5. QED
      BY <3>3, <3>4
  <2>4. Good(g, m)
    <3> HIDE DEF g
    <3>1. QED
      BY <2>2, <2>3
  <2>5. m \in 0 .. n
    OBVIOUS
  <2>6. QED
    <3> HIDE DEF g, Good
    <3>1. QED
      BY <2>4, <2>5
<1>3. n \in T
  <2> HIDE DEF T
  <2>1. \A m \in 1 .. n : m - 1 \in T => m \in T
    BY <1>2
  <2>2. \A k \in 0 .. n : k \in T
    BY <1>1, <2>1, UpTo
  <2>3. QED
    BY <2>2
<1>4. PICK f : Good(f, n)
  BY <1>3
<1>5. f = [i \in 0 .. Len(s) |->
             IF i = 0 THEN <<>>
             ELSE IF s[i] \in S THEN Append(f[i - 1], s[i]) ELSE f[i - 1]]
  <2>1. ASSUME NEW i \in 0 .. Len(s)
        PROVE  f[i] = IF i = 0 THEN <<>>
                      ELSE IF s[i] \in S THEN Append(f[i - 1], s[i]) ELSE f[i - 1]
    <3>1. CASE i = 0
      BY <1>4, <3>1
    <3>2. CASE i # 0
      <4>1. i \in 1 .. n
        BY <3>2
      <4>2. f[i] = Put(f[i - 1], i)
        BY <1>4, <4>1
      <4>3. QED
        BY <3>2, <4>2 DEF Put
    <3>3. QED
      BY <3>1, <3>2
  <2>2. f = [i \in 0 .. Len(s) |-> f[i]]
    BY <1>4
  <2>3. QED
    BY <2>1, <2>2
<1> DEFINE g == CHOOSE g : g = [i \in 0 .. Len(s) |->
                  IF i = 0 THEN <<>>
                  ELSE IF s[i] \in S THEN Append(g[i - 1], s[i]) ELSE g[i - 1]]
<1>6. g = [i \in 0 .. Len(s) |->
             IF i = 0 THEN <<>>
             ELSE IF s[i] \in S THEN Append(g[i - 1], s[i]) ELSE g[i - 1]]
  BY <1>5
<1>7. Among(s, S) = g[Len(s)]
  BY DEF Among
<1>8. QED
  <2> HIDE DEF g
  <2>1. g[0] = <<>>
    <3>1. 0 \in 0 .. Len(s)
      OBVIOUS
    <3>2. QED
      BY <1>6, <3>1
  <2>2. ASSUME NEW k \in 1 .. Len(s)
        PROVE  g[k] = IF s[k] \in S THEN Append(g[k - 1], s[k]) ELSE g[k - 1]
    <3>1. k \in 0 .. Len(s) /\ k # 0
      OBVIOUS
    <3>2. QED
      BY <1>6, <3>1
  <2>3. QED
    BY <1>7, <2>1, <2>2

\* A set of sequences that has the empty one, and with a sequence all that are
\* longer by one element, has them all.
LEMMA ByAppending ==
  ASSUME NEW X, NEW P, <<>> \in P,
         \A s \in Seq(X) : s \in P => \A x \in X : Append(s, x) \in P
  PROVE  Seq(X) \subseteq P
<1> SUFFICES ASSUME NEW s \in Seq(X) PROVE s \in P
  OBVIOUS
<1> DEFINE T == {k \in 0 .. Len(s) : SubSeq(s, 1, k) \in P}
<1>1. 0 \in T
  <2>1. SubSeq(s, 1, 0) = <<>> /\ Len(s) \in Nat
    OBVIOUS
  <2>2. 0 \in 0 .. Len(s)
    BY <2>1
  <2>3. QED
    BY <2>1, <2>2
<1>2. ASSUME NEW k \in 1 .. Len(s), k - 1 \in T PROVE k \in T
  <2>1. SubSeq(s, 1, k - 1) \in Seq(X) /\ s[k] \in X
    OBVIOUS
  <2>2. SubSeq(s, 1, k) = Append(SubSeq(s, 1, k - 1), s[k])
    OBVIOUS
  <2>3. Append(SubSeq(s, 1, k - 1), s[k]) \in P
    BY <1>2, <2>1
  <2>4. k \in 0 .. Len(s)
    OBVIOUS
  <2>5. QED
    BY <2>2, <2>3, <2>4
<1>3. Len(s) \in T
  <2> HIDE DEF T
  <2>1. \A k \in 1 .. Len(s) : k - 1 \in T => k \in T
    BY <1>2
  <2>2. Len(s) \in Nat
    OBVIOUS
  <2>3. \A k \in 0 .. Len(s) : k \in T
    BY ONLY <1>1, <2>1, <2>2, UpTo
  <2>4. QED
    BY <2>2, <2>3
<1>4. SubSeq(s, 1, Len(s)) = s
  OBVIOUS
<1>5. QED
  BY <1>3, <1>4

LEMMA AmongEmpty ==
  ASSUME NEW S
  PROVE  Among(<<>>, S) = <<>>
<1>1. Len(<<>>) = 0
  OBVIOUS
<1>2. QED
  BY <1>1, AmongSteps

LEMMA AmongAppend ==
  ASSUME NEW X, NEW s \in Seq(X), NEW x \in X, NEW S
  PROVE  Among(Append(s, x), S) =
           IF x \in S THEN Append(Among(s, S), x) ELSE Among(s, S)
<1> DEFINE t == Append(s, x)
           n == Len(s)
<1>1. n \in Nat /\ Len(t) = n + 1 /\ t[n + 1] = x /\ \A k \in 1 .. n : t[k] = s[k]
  OBVIOUS
<1> HIDE DEF t, n
<1>2. PICK f : /\ Among(s, S) = f[n] /\ f[0] = <<>>
               /\ \A k \in 1 .. n :
                    f[k] = IF s[k] \in S THEN Append(f[k - 1], s[k]) ELSE f[k - 1]
  <2>1. Len(s) = n /\ Len(s) \in Nat
    BY <1>1 DEF n
  <2>2. QED
    BY <2>1, AmongSteps
<1>3. PICK g : /\ Among(t, S) = g[n + 1] /\ g[0] = <<>>
               /\ \A k \in 1 .. n + 1 :
                    g[k] = IF t[k] \in S THEN Append(g[k - 1], t[k]) ELSE g[k - 1]
  <2>1. Len(t) \in Nat
    BY <1>1
  <2>2. QED
    BY <1>1, <2>1, AmongSteps
<1> DEFINE T == {k \in 0 .. n : f[k] = g[k]}
<1>4. 0 \in T
  BY <1>1, <1>2, <1>3
<1>5. ASSUME NEW k \in 1 .. n, k - 1 \in T PROVE k \in T
  <2>1. k \in 1 .. n + 1 /\ k \in 0 .. n /\ t[k] = s[k]
    BY <1>1
  <2>2. f[k - 1] = g[k - 1]
    BY <1>5
  <2>3. QED
    BY <1>2, <1>3, <2>1, <2>2
<1>6. n \in T
  <2> HIDE DEF T
  <2>1. \A k \in 1 .. n : k - 1 \in T => k \in T
    BY <1>5
  <2>2. \A k \in 0 .. n : k \in T
    BY ONLY <1>1, <1>4, <2>1, UpTo
  <2>3. QED
    BY <1>1, <2>2
<1>7. g[n + 1] = IF x \in S THEN Append(g[n], x) ELSE g[n]
  <2>1. n + 1 \in 1 .. n + 1 /\ (n + 1) - 1 = n
    BY <1>1
  <2>2. QED
    BY <1>1, <1>3, <2>1
<1>8. QED
  BY <1>2, <1>3, <1>6, <1>7 DEF t

LEMMA AmongType ==
  ASSUME NEW X, NEW s \in Seq(X), NEW S
  PROVE  Among(s, S) \in Seq(X)
<1> DEFINE P == {t \in Seq(X) : Among(t, S) \in Seq(X)}
<1>1. <<>> \in P
  <2>1. <<>> \in Seq(X)
    OBVIOUS
  <2>2. QED
    BY <2>1, AmongEmpty
<1>2. ASSUME NEW t \in Seq(X), t \in P, NEW x \in X PROVE Append(t, x) \in P
  <2>1. Among(t, S) \in Seq(X) /\ Append(t, x) \in Seq(X)
    BY <1>2
  <2>2. Append(Among(t, S), x) \in Seq(X)
    BY <2>1
  <2>3. QED
    BY <2>1, <2>2, AmongAppend
<1>3. Seq(X) \subseteq P
  <2> HIDE DEF P
  <2>1. QED
    BY <1>1, <1>2, ByAppending
<1>4. QED
  BY <1>3

\* It has no more elements than s, and these are elements of S.
LEMMA AmongLength ==
  ASSUME NEW X, NEW s \in Seq(X), NEW S
  PROVE  Len(Among(s, S)) <= Len(s)
<1> DEFINE P == {t \in Seq(X) : Len(Among(t, S)) <= Len(t)}
<1>1. <<>> \in P
  BY AmongEmpty
<1>2. ASSUME NEW t \in Seq(X), t \in P, NEW x \in X PROVE Append(t, x) \in P
  <2>1. Among(t, S) \in Seq(X) /\ Append(t, x) \in Seq(X)
    BY <1>2, AmongType
  <2>2. Len(Append(Among(t, S), x)) = Len(Among(t, S)) + 1
    BY <2>1
  <2>3. Len(Append(t, x)) = Len(t) + 1 /\ Len(t) \in Nat /\ Len(Among(t, S)) \in Nat
    BY <2>1
  <2>4. Len(Among(Append(t, x), S)) <= Len(Append(t, x))
    BY <1>2, <2>2, <2>3, AmongAppend
  <2>5. QED
    BY <2>1, <2>4
<1>3. Seq(X) \subseteq P
  <2> HIDE DEF P
  <2>1. QED
    BY <1>1, <1>2, ByAppending
<1>4. QED
  BY <1>3

LEMMA ToSetAppend ==
  ASSUME NEW X, NEW s \in Seq(X), NEW x
  PROVE  ToSet(Append(s, x)) = ToSet(s) \cup {x}
<1>1. DOMAIN Append(s, x) = 1 .. Len(s) + 1 /\ DOMAIN s = 1 .. Len(s) /\ Len(s) \in Nat
  OBVIOUS
<1>2. Append(s, x)[Len(s) + 1] = x /\ \A i \in 1 .. Len(s) : Append(s, x)[i] = s[i]
  OBVIOUS
<1>3. 1 .. Len(s) + 1 = (1 .. Len(s)) \cup {Len(s) + 1}
  BY <1>1
<1>4. QED
  BY <1>1, <1>2, <1>3 DEF ToSet

LEMMA ToSetEmpty == ToSet(<<>>) = {}
  BY DEF ToSet

LEMMA ToSetConcat ==
  ASSUME NEW X, NEW s \in Seq(X), NEW t \in Seq(X)
  PROVE  ToSet(s \o t) = ToSet(s) \cup ToSet(t)
<1>1. /\ DOMAIN (s \o t) = 1 .. Len(s) + Len(t) /\ DOMAIN s = 1 .. Len(s)
      /\ DOMAIN t = 1 .. Len(t) /\ Len(s) \in Nat /\ Len(t) \in Nat
  OBVIOUS
<1>2. /\ \A i \in 1 .. Len(s) : (s \o t)[i] = s[i]
      /\ \A i \in 1 .. Len(t) : (s \o t)[Len(s) + i] = t[i]
  OBVIOUS
<1>3. \A i \in 1 .. Len(s) + Len(t) :
        i \in 1 .. Len(s) \/ \E j \in 1 .. Len(t) : i = Len(s) + j
  <2> TAKE i \in 1 .. Len(s) + Len(t)
  <2>1. CASE i <= Len(s)
    BY <1>1, <2>1
  <2>2. CASE i > Len(s)
    <3>1. i - Len(s) \in 1 .. Len(t) /\ i = Len(s) + (i - Len(s))
      BY <1>1, <2>2
    <3>2. QED
      BY <3>1
  <2>3. QED
    BY <1>1, <2>1, <2>2
<1>4. \A j \in 1 .. Len(t) : Len(s) + j \in 1 .. Len(s) + Len(t)
  BY <1>1
<1>5. \A i \in 1 .. Len(s) : i \in 1 .. Len(s) + Len(t)
  BY <1>1
<1>6. ToSet(s \o t) \subseteq ToSet(s) \cup ToSet(t)
  BY <1>1, <1>2, <1>3 DEF ToSet
<1>7. ToSet(s) \subseteq ToSet(s \o t)
  BY <1>1, <1>2, <1>5 DEF ToSet
<1>8. ToSet(t) \subseteq ToSet(s \o t)
  BY <1>1, <1>2, <1>4 DEF ToSet
<1>9. QED
  BY <1>6, <1>7, <1>8

LEMMA AmongRange ==
  ASSUME NEW X, NEW s \in Seq(X), NEW S
  PROVE  ToSet(Among(s, S)) = ToSet(s) \cap S
<1> DEFINE P == {t \in Seq(X) : ToSet(Among(t, S)) = ToSet(t) \cap S}
<1>1. <<>> \in P
  BY AmongEmpty, ToSetEmpty
<1>2. ASSUME NEW t \in Seq(X), t \in P, NEW x \in X PROVE Append(t, x) \in P
  <2>1. Among(t, S) \in Seq(X) /\ Append(t, x) \in Seq(X)
    BY <1>2, AmongType
  <2>2. ToSet(Append(t, x)) = ToSet(t) \cup {x}
    BY ToSetAppend
  <2>3. ToSet(Append(Among(t, S), x)) = ToSet(Among(t, S)) \cup {x}
    BY <2>1, ToSetAppend
  <2>4. Among(Append(t, x), S) =
          IF x \in S THEN Append(Among(t, S), x) ELSE Among(t, S)
    BY AmongAppend
  <2>5. ToSet(Among(t, S)) = ToSet(t) \cap S
    BY <1>2
  <2>6. ToSet(Among(Append(t, x), S)) = ToSet(Append(t, x)) \cap S
    BY <2>2, <2>3, <2>4, <2>5
  <2>7. QED
    BY <2>1, <2>6
<1>3. Seq(X) \subseteq P
  <2> HIDE DEF P
  <2>1. QED
    BY <1>1, <1>2, ByAppending
<1>4. QED
  BY <1>3

LEMMA AmongInjective ==
  ASSUME NEW X, NEW s \in Seq(X), IsInjective(s), NEW S
  PROVE  IsInjective(Among(s, S))
<1> DEFINE P == {t \in Seq(X) : IsInjective(t) => IsInjective(Among(t, S))}
<1>1. <<>> \in P
  BY AmongEmpty
<1>2. ASSUME NEW t \in Seq(X), t \in P, NEW x \in X PROVE Append(t, x) \in P
  <2> SUFFICES ASSUME IsInjective(Append(t, x))
               PROVE  IsInjective(Among(Append(t, x), S))
    OBVIOUS
  <2> DEFINE a == Among(t, S)
  <2>1. a \in Seq(X)
    BY AmongType
  <2>2. IsInjective(t) /\ x \notin ToSet(t)
    <3>1. /\ DOMAIN Append(t, x) = 1 .. Len(t) + 1 /\ DOMAIN t = 1 .. Len(t)
          /\ Len(t) \in Nat /\ Append(t, x)[Len(t) + 1] = x
          /\ \A i \in 1 .. Len(t) : Append(t, x)[i] = t[i]
      OBVIOUS
    <3>2. \A i \in 1 .. Len(t) : i \in 1 .. Len(t) + 1 /\ i # Len(t) + 1
      BY <3>1
    <3>3. Len(t) + 1 \in 1 .. Len(t) + 1
      BY <3>1
    <3>4. QED
      BY <3>1, <3>2, <3>3 DEF IsInjective, ToSet
  <2>3. IsInjective(a) /\ x \notin ToSet(a)
    BY <1>2, <2>2, AmongRange
  <2>4. IsInjective(Append(a, x))
    <3> HIDE DEF a
    <3>1. /\ DOMAIN Append(a, x) = 1 .. Len(a) + 1 /\ DOMAIN a = 1 .. Len(a)
          /\ Len(a) \in Nat /\ Append(a, x)[Len(a) + 1] = x
          /\ \A i \in 1 .. Len(a) : Append(a, x)[i] = a[i]
      BY <2>1
    <3>2. \A i \in 1 .. Len(a) + 1 : i \in 1 .. Len(a) \/ i = Len(a) + 1
      BY <3>1
    <3>3. \A i \in 1 .. Len(a) : a[i] # x
      BY <2>3, <3>1 DEF ToSet
    <3>4. QED
      BY <2>3, <3>1, <3>2, <3>3 DEF IsInjective
  <2>5. QED
    BY <2>3, <2>4, AmongAppend
<1>3. Seq(X) \subseteq P
  <2> HIDE DEF P
  <2>1. QED
    BY <1>1, <1>2, ByAppending
<1>4. QED
  BY <1>3

LEMMA AmongConcat ==
  ASSUME NEW X, NEW s \in Seq(X), NEW t \in Seq(X), NEW S
  PROVE  Among(s \o t, S) = Among(s, S) \o Among(t, S)
<1> DEFINE P == {u \in Seq(X) : Among(s \o u, S) = Among(s, S) \o Among(u, S)}
<1>1. <<>> \in P
  <2>1. <<>> \in Seq(X) /\ s \o <<>> = s
    OBVIOUS
  <2>2. Among(s, S) \in Seq(X)
    BY AmongType
  <2>3. Among(s, S) \o <<>> = Among(s, S)
    BY <2>2
  <2>4. QED
    BY <2>1, <2>3, AmongEmpty
<1>2. ASSUME NEW u \in Seq(X), u \in P, NEW x \in X PROVE Append(u, x) \in P
  <2> DEFINE a == Among(s, S)
             b == Among(u, S)
  <2>1. a \in Seq(X) /\ b \in Seq(X)
    BY AmongType
  <2>2. s \o u \in Seq(X) /\ Append(u, x) \in Seq(X)
    OBVIOUS
  <2>3. s \o Append(u, x) = Append(s \o u, x)
    OBVIOUS
  <2>4. a \o Append(b, x) = Append(a \o b, x)
    <3> HIDE DEF a, b
    <3>1. QED
      BY <2>1
  <2>5. Among(s \o u, S) = a \o b
    BY <1>2
  <2>6. /\ Among(Append(s \o u, x), S) =
             IF x \in S THEN Append(a \o b, x) ELSE a \o b
        /\ Among(Append(u, x), S) = IF x \in S THEN Append(b, x) ELSE b
    <3> HIDE DEF a, b
    <3>1. Among(Append(s \o u, x), S) =
            IF x \in S THEN Append(Among(s \o u, S), x) ELSE Among(s \o u, S)
      BY <2>2, AmongAppend
    <3>2. Among(Append(u, x), S) = IF x \in S THEN Append(b, x) ELSE b
      BY AmongAppend DEF b
    <3>3. QED
      BY <2>5, <3>1, <3>2
  <2>7. Among(s \o Append(u, x), S) = a \o Among(Append(u, x), S)
    <3> HIDE DEF a, b
    <3>1. QED
      BY <2>3, <2>4, <2>6
  <2>8. QED
    BY <2>2, <2>7
<1>3. Seq(X) \subseteq P
  <2> HIDE DEF P
  <2>1. QED
    BY <1>1, <1>2, ByAppending
<1>4. QED
  BY <1>3

-----------------------------------------------------------------------------
(* Times. *)

LEMMA TimesType ==
  ASSUME NEW X, NEW s \in Seq(X), NEW h
  PROVE  Times(s, h) \in Nat
<1>1. Among(s, {h}) \in Seq(X)
  BY AmongType
<1>2. QED
  BY <1>1 DEF Times

LEMMA TimesEmpty ==
  ASSUME NEW h
  PROVE  Times(<<>>, h) = 0
<1>1. Len(<<>>) = 0
  OBVIOUS
<1>2. QED
  BY <1>1, AmongEmpty DEF Times

LEMMA TimesAppend ==
  ASSUME NEW X, NEW s \in Seq(X), NEW x \in X, NEW h
  PROVE  Times(Append(s, x), h) = Times(s, h) + (IF x = h THEN 1 ELSE 0)
<1> DEFINE a == Among(s, {h})
<1>1. a \in Seq(X)
  BY AmongType
<1>2. Among(Append(s, x), {h}) = IF x \in {h} THEN Append(a, x) ELSE a
  BY AmongAppend
<1>3. Len(Append(a, x)) = Len(a) + 1 /\ Len(a) \in Nat
  <2> HIDE DEF a
  <2>1. QED
    BY <1>1
<1>4. Times(s, h) = Len(a) /\ Times(Append(s, x), h) = Len(Among(Append(s, x), {h}))
  BY DEF Times
<1> HIDE DEF a
<1>5. CASE x = h
  BY <1>2, <1>3, <1>4, <1>5
<1>6. CASE x # h
  BY <1>2, <1>3, <1>4, <1>6
<1>7. QED
  BY <1>5, <1>6

LEMMA TimesConcat ==
  ASSUME NEW X, NEW s \in Seq(X), NEW t \in Seq(X), NEW h
  PROVE  Times(s \o t, h) = Times(s, h) + Times(t, h)
<1> DEFINE a == Among(s, {h})
           b == Among(t, {h})
<1>1. a \in Seq(X) /\ b \in Seq(X)
  BY AmongType
<1>2. Among(s \o t, {h}) = a \o b
  BY AmongConcat
<1>3. Len(a \o b) = Len(a) + Len(b)
  <2> HIDE DEF a, b
  <2>1. QED
    BY <1>1
<1>4. QED
  BY <1>2, <1>3 DEF Times

LEMMA TimesZero ==
  ASSUME NEW X, NEW s \in Seq(X), NEW h
  PROVE  Times(s, h) = 0 <=> h \notin ToSet(s)
<1> DEFINE a == Among(s, {h})
<1>1. a \in Seq(X) /\ ToSet(a) = ToSet(s) \cap {h}
  BY AmongType, AmongRange
<1>2. Times(s, h) = Len(a)
  BY DEF Times
<1> HIDE DEF a
<1>3. DOMAIN a = 1 .. Len(a) /\ Len(a) \in Nat
  BY <1>1
<1>4. CASE Len(a) = 0
  <2>1. DOMAIN a = {}
    BY <1>3, <1>4
  <2>2. ToSet(a) = {}
    BY <2>1 DEF ToSet
  <2>3. QED
    BY <1>1, <1>2, <1>4, <2>2
<1>5. CASE Len(a) # 0
  <2>1. 1 \in DOMAIN a
    BY <1>3, <1>5
  <2>2. a[1] \in ToSet(a)
    BY <2>1 DEF ToSet
  <2>3. QED
    BY <1>1, <1>2, <1>5, <2>2
<1>6. QED
  BY <1>4, <1>5

LEMMA TimesAmong ==
  ASSUME NEW X, NEW s \in Seq(X), NEW S, NEW h
  PROVE  Times(Among(s, S), h) = IF h \in S THEN Times(s, h) ELSE 0
<1> DEFINE P == {t \in Seq(X) :
                   Times(Among(t, S), h) = IF h \in S THEN Times(t, h) ELSE 0}
<1>1. <<>> \in P
  <2>1. <<>> \in Seq(X)
    OBVIOUS
  <2>2. QED
    BY <2>1, AmongEmpty, TimesEmpty
<1>2. ASSUME NEW t \in Seq(X), t \in P, NEW x \in X PROVE Append(t, x) \in P
  <2> DEFINE a == Among(t, S)
  <2>1. a \in Seq(X)
    BY AmongType
  <2>2. Among(Append(t, x), S) = IF x \in S THEN Append(a, x) ELSE a
    BY AmongAppend
  <2>3. Times(a, h) = IF h \in S THEN Times(t, h) ELSE 0
    BY <1>2
  <2> HIDE DEF a
  <2>4. Times(Append(a, x), h) = Times(a, h) + (IF x = h THEN 1 ELSE 0)
    BY <2>1, TimesAppend
  <2>5. Times(Append(t, x), h) = Times(t, h) + (IF x = h THEN 1 ELSE 0)
    BY TimesAppend
  <2>6. Times(t, h) \in Nat
    BY TimesType
  <2>7. Append(t, x) \in Seq(X)
    OBVIOUS
  <2>8. Times(Among(Append(t, x), S), h) =
          IF h \in S THEN Times(Append(t, x), h) ELSE 0
    <3>1. CASE x \in S
      <4>1. CASE x = h
        BY <2>2, <2>3, <2>4, <2>5, <2>6, <3>1, <4>1
      <4>2. CASE x # h
        BY <2>2, <2>3, <2>4, <2>5, <2>6, <3>1, <4>2
      <4>3. QED
        BY <4>1, <4>2
    <3>2. CASE x \notin S
      BY <2>2, <2>3, <2>5, <2>6, <3>2
    <3>3. QED
      BY <3>1, <3>2
  <2>9. QED
    BY <2>7, <2>8
<1>3. Seq(X) \subseteq P
  <2> HIDE DEF P
  <2>1. QED
    BY <1>1, <1>2, ByAppending
<1>4. QED
  BY <1>3

\* What is left of a sequence when one of its elements is taken out.
LEMMA Removed ==
  ASSUME NEW X, NEW s \in Seq(X), NEW i \in 1 .. Len(s)
  PROVE  /\ RemoveAt(s, i) \in Seq(X)
         /\ Len(RemoveAt(s, i)) = Len(s) - 1
         /\ ToSet(RemoveAt(s, i)) = {s[j] : j \in (1 .. Len(s)) \ {i}}
         /\ \A h : Times(s, h) =
                     Times(RemoveAt(s, i), h) + (IF s[i] = h THEN 1 ELSE 0)
<1> DEFINE a == SubSeq(s, 1, i - 1)
           b == SubSeq(s, i + 1, Len(s))
           x == s[i]
<1>1. a \in Seq(X) /\ b \in Seq(X) /\ x \in X /\ Len(s) \in Nat
  OBVIOUS
<1>2. Len(a) = i - 1 /\ Len(b) = Len(s) - i
  OBVIOUS
<1>3. /\ \A j \in 1 .. i - 1 : a[j] = s[j]
      /\ \A j \in 1 .. Len(s) - i : b[j] = s[i + j]
  OBVIOUS
<1>4. s = Append(a, x) \o b
  <2> HIDE DEF a, b
  <2> DEFINE p == Append(a, x)
             t == p \o b
  <2>1. /\ p \in Seq(X) /\ Len(p) = i /\ p[i] = x
        /\ \A j \in 1 .. i - 1 : p[j] = a[j]
    BY <1>1, <1>2
  <2>2. \A j \in 1 .. i : p[j] = s[j]
    <3> HIDE DEF p
    <3>1. \A j \in 1 .. i : j = i \/ j \in 1 .. i - 1
      OBVIOUS
    <3>2. QED
      BY <1>3, <2>1, <3>1
  <2> HIDE DEF p
  <2>3. /\ t \in Seq(X) /\ Len(t) = Len(s)
        /\ \A j \in 1 .. Len(s) : t[j] = IF j <= i THEN p[j] ELSE b[j - i]
    <3>1. Len(p) + Len(b) = Len(s)
      BY <1>1, <1>2, <2>1
    <3>2. /\ t \in Seq(X) /\ Len(t) = Len(p) + Len(b)
          /\ \A j \in 1 .. Len(p) + Len(b) :
               t[j] = IF j <= Len(p) THEN p[j] ELSE b[j - Len(p)]
      BY <1>1, <2>1, ConcatProperties
    <3> HIDE DEF t
    <3>3. QED
      BY <2>1, <3>1, <3>2
  <2> HIDE DEF t
  <2>4. \A j \in 1 .. Len(s) : t[j] = s[j]
    <3> TAKE j \in 1 .. Len(s)
    <3>1. CASE j <= i
      BY <2>2, <2>3, <3>1
    <3>2. CASE j > i
      <4>1. j - i \in 1 .. Len(s) - i /\ i + (j - i) = j
        BY <1>1, <3>2
      <4>2. b[j - i] = s[j]
        BY <1>3, <4>1
      <4>3. QED
        BY <1>1, <2>3, <3>2, <4>2
    <3>3. j \in Nat /\ i \in Nat
      OBVIOUS
    <3>4. QED
      BY <3>1, <3>2, <3>3
  <2>5. QED
    <3>1. s = t
      BY <2>3, <2>4, SeqEqual
    <3>2. QED
      BY <3>1 DEF t, p
<1>5. RemoveAt(s, i) = a \o b
  BY DEF RemoveAt
<1> HIDE DEF a, b, x
<1>6. a \o b \in Seq(X) /\ Len(a \o b) = Len(s) - 1
  BY <1>1, <1>2
<1>7. ToSet(a) = {s[j] : j \in 1 .. i - 1}
  <2>1. DOMAIN a = 1 .. i - 1
    BY <1>1, <1>2
  <2>2. QED
    BY <1>3, <2>1 DEF ToSet
<1>8. ToSet(b) = {s[j] : j \in i + 1 .. Len(s)}
  <2>1. DOMAIN b = 1 .. Len(s) - i
    BY <1>1, <1>2
  <2>2. \A j \in i + 1 .. Len(s) : j - i \in 1 .. Len(s) - i /\ i + (j - i) = j
    BY <1>1
  <2>3. \A j \in 1 .. Len(s) - i : i + j \in i + 1 .. Len(s)
    BY <1>1
  <2>4. ToSet(b) \subseteq {s[j] : j \in i + 1 .. Len(s)}
    BY <1>3, <2>1, <2>3 DEF ToSet
  <2>5. \A j \in i + 1 .. Len(s) : s[j] = b[j - i]
    BY <1>3, <2>2
  <2>6. {s[j] : j \in i + 1 .. Len(s)} \subseteq ToSet(b)
    <3>1. ASSUME NEW j \in i + 1 .. Len(s) PROVE s[j] \in ToSet(b)
      <4>1. j - i \in DOMAIN b /\ s[j] = b[j - i]
        BY <2>1, <2>2, <2>5
      <4>2. QED
        BY <4>1 DEF ToSet
    <3>2. QED
      BY <3>1
  <2>7. QED
    BY <2>4, <2>6
<1>9. ToSet(a \o b) = {s[j] : j \in (1 .. Len(s)) \ {i}}
  <2>1. ToSet(a \o b) = ToSet(a) \cup ToSet(b)
    BY <1>1, ToSetConcat
  <2>2. \A j \in (1 .. Len(s)) \ {i} : j \in 1 .. i - 1 \/ j \in i + 1 .. Len(s)
    BY <1>1
  <2>3. /\ \A j \in 1 .. i - 1 : j \in (1 .. Len(s)) \ {i}
        /\ \A j \in i + 1 .. Len(s) : j \in (1 .. Len(s)) \ {i}
    BY <1>1
  <2>4. QED
    BY <1>7, <1>8, <2>1, <2>2, <2>3
<1>10. ASSUME NEW h
       PROVE  Times(s, h) = Times(a \o b, h) + (IF x = h THEN 1 ELSE 0)
  <2>1. Append(a, x) \in Seq(X)
    BY <1>1
  <2>2. Times(s, h) = Times(Append(a, x), h) + Times(b, h)
    BY <1>1, <1>4, <2>1, TimesConcat
  <2>3. Times(Append(a, x), h) = Times(a, h) + (IF x = h THEN 1 ELSE 0)
    BY <1>1, TimesAppend
  <2>4. Times(a \o b, h) = Times(a, h) + Times(b, h)
    BY <1>1, TimesConcat
  <2>5. Times(a, h) \in Nat /\ Times(b, h) \in Nat
    BY <1>1, TimesType
  <2>6. QED
    BY <2>2, <2>3, <2>4, <2>5
<1>11. QED
  BY <1>5, <1>6, <1>9, <1>10 DEF x

-----------------------------------------------------------------------------
(* Constants, minima and indices. *)

LEMMA Smallest ==
  ASSUME NEW T \in SUBSET Nat, T # {}
  PROVE  Min(T) \in T /\ \A y \in T : Min(T) <= y
<1>1. PICK x \in T : \A y \in T : ~(y < x)
  BY LeastNumber
<1>2. \A y \in T : x <= y
  BY <1>1
<1>3. QED
  BY <1>2 DEF Min

LEMMA ListedRules ==
  ASSUME TypeOK, NEW n \in Listed
  PROVE  /\ n \in Indices /\ n \in Nat
         /\ Rules(n) \in Seq(Hosts) /\ ingresses[n].tls \in Seq(Hosts)
         /\ ingresses[n] \in Ingress
         /\ ingresses[n] = [rules |-> Rules(n), tls |-> ingresses[n].tls]
         /\ DOMAIN Rules(n) = 1 .. Len(Rules(n)) /\ Len(Rules(n)) \in Nat
         /\ DOMAIN ingresses[n].tls = 1 .. Len(ingresses[n].tls)
         /\ Len(ingresses[n].tls) \in Nat
<1>1. n \in Indices /\ ingresses[n] \in Ingress
  BY DEF Listed, TypeOK
<1>2. n \in Nat
  BY <1>1, IngressAssumption DEF Indices
<1>3. /\ Rules(n) \in Seq(Hosts) /\ ingresses[n].tls \in Seq(Hosts)
      /\ ingresses[n] = [rules |-> Rules(n), tls |-> ingresses[n].tls]
  BY <1>1 DEF Ingress, Rules
<1>4. QED
  BY <1>1, <1>2, <1>3, LenProperties

LEMMA RuleIsHost ==
  ASSUME TypeOK, NEW n \in Listed, NEW j \in DOMAIN Rules(n)
  PROVE  Rules(n)[j] \in Hosts /\ Rules(n)[j] \in ToSet(Rules(n))
<1>1. Rules(n) \in Seq(Hosts) /\ DOMAIN Rules(n) = 1 .. Len(Rules(n))
  BY ListedRules
<1>2. QED
  BY <1>1, ElementOfSeq DEF ToSet

LEMMA RuleIndexFinds ==
  ASSUME TypeOK, NEW n \in Listed, NEW id
  PROVE  \/ /\ RuleIndex(n, id) = 0
            /\ \A j \in DOMAIN Rules(n) : IdOf[Rules(n)[j]] # id
         \/ /\ RuleIndex(n, id) \in DOMAIN Rules(n)
            /\ IdOf[Rules(n)[RuleIndex(n, id)]] = id
<1> DEFINE s == Rules(n)
           I == {i \in 1 .. Len(s) : IdOf[s[i]] = id}
<1>1. s \in Seq(Hosts)
  BY ListedRules
<1>2. RuleIndex(n, id) = IF I # {} THEN Min(I) ELSE 0
  BY DEF RuleIndex, SelectInSeq
<1>3. DOMAIN s = 1 .. Len(s) /\ Len(s) \in Nat
  BY <1>1
<1> HIDE DEF s
<1>4. CASE I = {}
  BY <1>2, <1>3, <1>4 DEF s
<1>5. CASE I # {}
  <2>1. I \in SUBSET Nat
    BY <1>3
  <2>2. Min(I) \in I
    BY <1>5, <2>1, Smallest
  <2>3. QED
    BY <1>2, <1>3, <1>5, <2>2 DEF s
<1>6. QED
  BY <1>4, <1>5

LEMMA EntryIndexFinds ==
  ASSUME TypeOK, NEW n \in Listed, NEW j
  PROVE  \/ /\ EntryIndex(n, j) = 0
            /\ Rules(n)[j] \notin ToSet(ingresses[n].tls)
         \/ /\ EntryIndex(n, j) \in DOMAIN ingresses[n].tls
            /\ ingresses[n].tls[EntryIndex(n, j)] = Rules(n)[j]
<1> DEFINE s == ingresses[n].tls
           I == {i \in 1 .. Len(s) : s[i] = Rules(n)[j]}
<1>1. s \in Seq(Hosts)
  BY ListedRules
<1>2. EntryIndex(n, j) = IF I # {} THEN Min(I) ELSE 0
  BY DEF EntryIndex, SelectInSeq
<1>3. DOMAIN s = 1 .. Len(s) /\ Len(s) \in Nat
  BY <1>1
<1> HIDE DEF s
<1>4. CASE I = {}
  BY <1>2, <1>3, <1>4 DEF s, ToSet
<1>5. CASE I # {}
  <2>1. I \in SUBSET Nat
    BY <1>3
  <2>2. Min(I) \in I
    BY <1>5, <2>1, Smallest
  <2>3. QED
    BY <1>2, <1>3, <1>5, <2>2 DEF s
<1>6. QED
  BY <1>4, <1>5

LEMMA ListedFinite ==
  /\ Listed \subseteq Indices /\ Listed \subseteq Nat
  /\ IsFiniteSet(Listed) /\ Cardinality(Listed) \in Nat
<1>1. MaxIngresses \in Nat
  BY IngressAssumption
<1>2. Listed \subseteq Indices /\ Indices \subseteq Nat
  BY <1>1 DEF Listed, Indices
<1>3. IsFiniteSet(Indices)
  BY <1>1, FS_Interval DEF Indices
<1>4. IsFiniteSet(Listed)
  BY <1>2, <1>3, FS_Subset
<1>5. QED
  BY <1>2, <1>4, FS_CardinalityType

-----------------------------------------------------------------------------
(* The calls that an operation plans. *)

\* A call whose name may be past the bound on the Ingresses.
AnyCall == [op : Ops, name : Nat, rules : Seq(Hosts), tls : Seq(Hosts),
            rule : Nat, entry : Nat]

LEMMA TLSOfType ==
  ASSUME NEW hs \in Seq(Hosts)
  PROVE  TLSOf(hs) \in Seq(Hosts)
BY AmongType DEF TLSOf

LEMMA WriteRulesType ==
  ASSUME NEW op \in Ops, NEW n \in Nat, NEW hs \in Seq(Hosts),
         NEW tls \in Seq(Hosts)
  PROVE  WriteRules(op, n, hs, tls) \in AnyCall
BY DEF WriteRules, AnyCall

LEMMA CreateIngressType ==
  ASSUME NEW n \in Nat, NEW hs \in Seq(Hosts)
  PROVE  /\ CreateIngress(n, hs) \in AnyCall
         /\ CreateIngress(n, hs).op = "create" /\ CreateIngress(n, hs).name = n
         /\ CreateIngress(n, hs).rules = hs /\ CreateIngress(n, hs).tls = TLSOf(hs)
<1>1. "create" \in Ops
  BY DEF Ops
<1>2. CreateIngress(n, hs) \in AnyCall
  BY <1>1, TLSOfType, WriteRulesType DEF CreateIngress
<1>3. QED
  BY <1>2 DEF CreateIngress, WriteRules

LEMMA PatchAddRulesType ==
  ASSUME NEW n \in Nat, NEW hs \in Seq(Hosts)
  PROVE  /\ PatchAddRules(n, hs) \in AnyCall
         /\ PatchAddRules(n, hs).op = "add" /\ PatchAddRules(n, hs).name = n
         /\ PatchAddRules(n, hs).rules = hs /\ PatchAddRules(n, hs).tls = TLSOf(hs)
<1>1. "add" \in Ops
  BY DEF Ops
<1>2. PatchAddRules(n, hs) \in AnyCall
  BY <1>1, TLSOfType, WriteRulesType DEF PatchAddRules
<1>3. QED
  BY <1>2 DEF PatchAddRules, WriteRules

LEMMA DeleteIngressType ==
  ASSUME NEW n \in Nat
  PROVE  /\ DeleteIngress(n) \in AnyCall
         /\ DeleteIngress(n).op = "delete" /\ DeleteIngress(n).name = n
<1>1. "delete" \in Ops
  BY DEF Ops
<1>2. <<>> \in Seq(Hosts)
  OBVIOUS
<1>3. DeleteIngress(n) \in AnyCall
  BY <1>1, <1>2, WriteRulesType DEF DeleteIngress
<1>4. QED
  BY <1>3 DEF DeleteIngress, WriteRules

LEMMA EditRuleType ==
  ASSUME TypeOK, NEW op \in Ops, NEW n \in Listed, NEW j \in DOMAIN Rules(n),
         NEW hs \in Seq(Hosts)
  PROVE  /\ EditRule(op, n, j, hs) \in AnyCall
         /\ EditRule(op, n, j, hs).op = op /\ EditRule(op, n, j, hs).name = n
         /\ EditRule(op, n, j, hs).rule = j
         /\ EditRule(op, n, j, hs).rules = hs
         /\ EditRule(op, n, j, hs).tls = TLSOf(hs)
         /\ EditRule(op, n, j, hs).entry = EntryIndex(n, j)
<1>1. n \in Nat /\ j \in Nat
  <2>1. n \in Nat /\ DOMAIN Rules(n) = 1 .. Len(Rules(n))
    BY ListedRules
  <2>2. QED
    BY <2>1
<1>2. EntryIndex(n, j) \in Nat
  <2>1. DOMAIN ingresses[n].tls = 1 .. Len(ingresses[n].tls)
    BY ListedRules
  <2>2. QED
    BY <2>1, EntryIndexFinds
<1>3. TLSOf(hs) \in Seq(Hosts)
  BY TLSOfType
<1>4. EditRule(op, n, j, hs) =
        [op |-> op, name |-> n, rules |-> hs, tls |-> TLSOf(hs), rule |-> j,
         entry |-> EntryIndex(n, j)]
  BY DEF EditRule
<1> DEFINE e == EntryIndex(n, j)
           t == TLSOf(hs)
<1> HIDE DEF e, t
<1>5. EditRule(op, n, j, hs) =
        [op |-> op, name |-> n, rules |-> hs, tls |-> t, rule |-> j, entry |-> e]
  BY <1>4 DEF e, t
<1>6. e \in Nat /\ t \in Seq(Hosts)
  BY <1>2, <1>3 DEF e, t
<1>7. QED
  BY <1>1, <1>5, <1>6 DEF AnyCall, e, t

LEMMA WithType ==
  ASSUME TypeOK, NEW id
  PROVE  /\ With(id) \subseteq Listed
         /\ \A n \in With(id) : /\ RuleIndex(n, id) \in DOMAIN Rules(n)
                                /\ IdOf[Rules(n)[RuleIndex(n, id)]] = id
         /\ \A n \in Listed \ With(id) :
              \A j \in DOMAIN Rules(n) : IdOf[Rules(n)[j]] # id
<1>1. With(id) \subseteq Listed
  BY DEF With
<1>2. \A n \in Listed : 0 \notin DOMAIN Rules(n)
  BY ListedRules
<1>3. QED
  BY <1>1, <1>2, RuleIndexFinds DEF With

\* Provision makes one call.
LEMMA ProvisionPlan ==
  ASSUME TypeOK, NEW h \in Hosts
  PROVE  \E c \in AnyCall :
           /\ ProvisionCalls(h) = <<c>>
           /\ \/ \E n \in Listed : \E j \in DOMAIN Rules(n) :
                   IdOf[Rules(n)[j]] = IdOf[h] /\ c = UpdateRule(n, j, h)
              \/ \E n \in WithCapacity : c = PatchAddRules(n, <<h>>)
              \/ c = CreateIngress(Cardinality(Listed), <<h>>)
<1> DEFINE hit == With(IdOf[h])
           n1 == Min(hit)
           n2 == Min(WithCapacity)
<1>1. <<h>> \in Seq(Hosts)
  OBVIOUS
<1>2. CASE hit # {}
  <2>1. n1 \in hit
    BY <1>2, WithType, ListedFinite, Smallest
  <2>2. n1 \in Listed /\ RuleIndex(n1, IdOf[h]) \in DOMAIN Rules(n1)
        /\ IdOf[Rules(n1)[RuleIndex(n1, IdOf[h])]] = IdOf[h]
    BY <2>1, WithType
  <2>3. "update" \in Ops
    BY DEF Ops
  <2> DEFINE j == RuleIndex(n1, IdOf[h])
  <2>4. UpdateRule(n1, j, h) \in AnyCall
    <3> HIDE DEF n1, j
    <3>1. n1 \in Listed /\ j \in DOMAIN Rules(n1)
      BY <2>2 DEF j
    <3>2. QED
      BY <1>1, <2>3, <3>1, EditRuleType DEF UpdateRule
  <2>5. ProvisionCalls(h) = <<UpdateRule(n1, j, h)>>
    BY <1>2 DEF ProvisionCalls
  <2>6. QED
    <3> HIDE DEF n1
    <3>1. n1 \in Listed /\ j \in DOMAIN Rules(n1) /\ IdOf[Rules(n1)[j]] = IdOf[h]
      BY <2>2
    <3> HIDE DEF j
    <3>2. QED
      BY <2>4, <2>5, <3>1
<1>3. CASE hit = {} /\ WithCapacity # {}
  <2>1. WithCapacity \subseteq Listed
    BY DEF WithCapacity
  <2>2. n2 \in WithCapacity /\ n2 \in Nat
    BY <1>3, <2>1, ListedFinite, Smallest
  <2>3. ProvisionCalls(h) = <<PatchAddRules(n2, <<h>>)>>
    BY <1>3 DEF ProvisionCalls
  <2>4. PatchAddRules(n2, <<h>>) \in AnyCall
    BY <1>1, <2>2, PatchAddRulesType
  <2>5. QED
    BY <2>2, <2>3, <2>4
<1>4. CASE hit = {} /\ WithCapacity = {}
  <2>1. ProvisionCalls(h) = <<CreateIngress(Cardinality(Listed), <<h>>)>>
    BY <1>4 DEF ProvisionCalls
  <2>2. CreateIngress(Cardinality(Listed), <<h>>) \in AnyCall
    BY <1>1, ListedFinite, CreateIngressType
  <2>3. QED
    BY <2>1, <2>2
<1>5. QED
  BY <1>2, <1>3, <1>4

\* Deprovision makes one call, or none if nothing has that id.
LEMMA DeprovisionPlan ==
  ASSUME TypeOK, NEW id
  PROVE  \/ /\ DeprovisionCalls(id) = <<>>
            /\ \A n \in Listed : \A j \in DOMAIN Rules(n) : IdOf[Rules(n)[j]] # id
         \/ \E c \in AnyCall :
              /\ DeprovisionCalls(id) = <<c>>
              /\ \E n \in Listed : \E j \in DOMAIN Rules(n) :
                   /\ IdOf[Rules(n)[j]] = id
                   /\ c = IF Len(Rules(n)) = 1 THEN DeleteIngress(n)
                          ELSE PatchRemoveRule(n, j)
<1> DEFINE n == Min(With(id))
           j == RuleIndex(n, id)
           c == IF Len(Rules(n)) = 1 THEN DeleteIngress(n)
                ELSE PatchRemoveRule(n, j)
<1>1. CASE With(id) = {}
  <2>1. DeprovisionCalls(id) = <<>>
    BY <1>1 DEF DeprovisionCalls
  <2>2. QED
    BY <1>1, <2>1, WithType
<1>2. CASE With(id) # {}
  <2>1. n \in With(id)
    BY <1>2, WithType, ListedFinite, Smallest
  <2>2. n \in Listed /\ n \in Nat /\ j \in DOMAIN Rules(n) /\ IdOf[Rules(n)[j]] = id
    BY <2>1, WithType, ListedFinite
  <2>3. DeprovisionCalls(id) = <<c>>
    BY <1>2 DEF DeprovisionCalls
  <2> HIDE DEF n, j
  <2>4. c \in AnyCall
    <3>1. <<>> \in Seq(Hosts) /\ "remove" \in Ops
      BY DEF Ops
    <3>2. PatchRemoveRule(n, j) \in AnyCall
      BY <2>2, <3>1, EditRuleType DEF PatchRemoveRule
    <3>3. QED
      BY <2>2, <3>2, DeleteIngressType
  <2>5. QED
    BY <2>2, <2>3, <2>4
<1>3. QED
  BY <1>1, <1>2

LEMMA ReplaceSpecType ==
  ASSUME TypeOK, NEW n \in Listed, NEW ids
  PROVE  LET kept == {h \in Hosts : IdOf[h] \notin ids}
         IN  /\ PatchReplaceSpec(n, ids) \in AnyCall
             /\ PatchReplaceSpec(n, ids).op = "replace"
             /\ PatchReplaceSpec(n, ids).name = n
             /\ PatchReplaceSpec(n, ids).rules = Among(Rules(n), kept)
             /\ PatchReplaceSpec(n, ids).tls = Among(ingresses[n].tls, kept)
<1> DEFINE kept == {h \in Hosts : IdOf[h] \notin ids}
           r == Among(Rules(n), kept)
           t == Among(ingresses[n].tls, kept)
<1>1. n \in Nat /\ r \in Seq(Hosts) /\ t \in Seq(Hosts) /\ "replace" \in Ops
  BY ListedRules, AmongType DEF Ops
<1>2. PatchReplaceSpec(n, ids) = WriteRules("replace", n, r, t)
  BY DEF PatchReplaceSpec
<1> HIDE DEF r, t
<1>3. PatchReplaceSpec(n, ids) \in AnyCall
  BY <1>1, <1>2, WriteRulesType
<1>4. QED
  BY <1>2, <1>3 DEF WriteRules, r, t

\* BatchDeprovision makes one call for every Ingress with a rule to remove.
LEMMA BatchDeprovisionPlan ==
  ASSUME TypeOK, NEW ids, NEW cs, cs = BatchDeprovisionCalls(ids)
  PROVE  /\ cs \in Seq(AnyCall)
         /\ \A i \in DOMAIN cs :
              /\ cs[i].name \in Listed
              /\ LET k == PatchReplaceSpec(cs[i].name, ids)
                 IN  cs[i] = IF k.rules = <<>> THEN DeleteIngress(cs[i].name) ELSE k
         /\ \A i, j \in DOMAIN cs : cs[i].name = cs[j].name => i = j
         /\ \A n \in Listed : \A j \in DOMAIN Rules(n) :
              IdOf[Rules(n)[j]] \in ids => \E i \in DOMAIN cs : cs[i].name = n
<1> DEFINE changed == {n \in Listed : \E id \in ids : n \in With(id)}
           all == [i \in 1 .. MaxIngresses |-> i - 1]
           names == Among(all, changed)
           Of(n) == LET k == PatchReplaceSpec(n, ids)
                    IN  IF k.rules = <<>> THEN DeleteIngress(n) ELSE k
<1>1. all \in Seq(Nat) /\ IsInjective(all) /\ ToSet(all) = Indices
  <2>1. MaxIngresses \in Nat
    BY IngressAssumption
  <2>2. all \in Seq(Nat)
    BY <2>1
  <2>3. DOMAIN all = 1 .. MaxIngresses
    OBVIOUS
  <2>4. IsInjective(all)
    BY <2>1 DEF IsInjective
  <2>5. \A n \in Indices : n + 1 \in 1 .. MaxIngresses /\ (n + 1) - 1 = n
    BY <2>1 DEF Indices
  <2>6. \A i \in 1 .. MaxIngresses : i - 1 \in Indices
    BY <2>1 DEF Indices
  <2>7. ToSet(all) \subseteq Indices
    BY <2>3, <2>6 DEF ToSet
  <2>8. Indices \subseteq ToSet(all)
    <3>1. \A n \in Indices : all[n + 1] = n
      BY <2>5
    <3>2. QED
      BY <2>3, <2>5, <3>1 DEF ToSet
  <2>9. QED
    BY <2>2, <2>4, <2>7, <2>8
<1>2. names \in Seq(Nat) /\ IsInjective(names) /\ ToSet(names) = changed
  <2>1. changed \subseteq Indices
    BY ListedFinite
  <2> HIDE DEF all, changed
  <2>2. ToSet(names) = ToSet(all) \cap changed
    BY <1>1, AmongRange
  <2>3. QED
    BY <1>1, <2>1, <2>2, AmongType, AmongInjective
<1>3. cs = [i \in DOMAIN names |-> Of(names[i])]
  BY DEF BatchDeprovisionCalls
<1>4. DOMAIN names = 1 .. Len(names) /\ Len(names) \in Nat
  <2> HIDE DEF names
  <2>1. QED
    BY <1>2, LenProperties
<1>5. \A n \in Listed : Of(n) \in AnyCall /\ Of(n).name = n
  BY ListedRules, ReplaceSpecType, DeleteIngressType
<1>6. \A i \in DOMAIN names : names[i] \in Listed
  <2>1. \A i \in DOMAIN names : names[i] \in ToSet(names)
    BY DEF ToSet
  <2>2. QED
    BY <1>2, <2>1
<1>7. \A i \in DOMAIN cs : i \in DOMAIN names /\ cs[i] = Of(names[i]) /\ cs[i].name = names[i]
  <2> HIDE DEF names, Of
  <2>1. QED
    BY <1>3, <1>5, <1>6
<1>8. cs \in Seq(AnyCall)
  <2> HIDE DEF names, Of
  <2>1. cs \in [1 .. Len(names) -> AnyCall]
    BY <1>3, <1>4, <1>5, <1>6
  <2>2. QED
    BY <1>4, <2>1
<1>9. \A i, j \in DOMAIN cs : cs[i].name = cs[j].name => i = j
  <2> HIDE DEF names, Of
  <2>1. QED
    BY <1>2, <1>7 DEF IsInjective
<1>10. ASSUME NEW n \in Listed, NEW j \in DOMAIN Rules(n), IdOf[Rules(n)[j]] \in ids
       PROVE  \E i \in DOMAIN cs : cs[i].name = n
  <2>1. n \in With(IdOf[Rules(n)[j]])
    BY WithType
  <2>2. n \in changed
    BY <1>10, <2>1
  <2>3. n \in ToSet(names)
    BY <1>2, <2>2
  <2>4. PICK i \in DOMAIN names : names[i] = n
    BY <2>3 DEF ToSet
  <2>5. i \in DOMAIN cs
    <3> HIDE DEF names, Of
    <3>1. QED
      BY <1>3
  <2>6. QED
    BY <1>7, <2>4, <2>5
<1>11. \A i \in DOMAIN cs : cs[i].name \in Listed /\ cs[i] = Of(cs[i].name)
  <2> HIDE DEF names, Of
  <2>1. QED
    BY <1>6, <1>7
<1>12. QED
  BY <1>8, <1>9, <1>10, <1>11

-----------------------------------------------------------------------------
(* Slices of a batch. *)

LEMMA Quotient ==
  ASSUME NEW x \in Nat, NEW m \in Nat \ {0}
  PROVE  /\ x \div m \in Nat
         /\ (x \div m) * m <= x /\ x < (x \div m) * m + m
OBVIOUS

LEMMA Multiples ==
  ASSUME NEW a \in Nat, NEW b \in Nat, a < b, NEW m \in Nat
  PROVE  /\ a * m \in Nat /\ b * m \in Nat /\ a * m + m <= b * m
OBVIOUS

LEMMA SliceIs ==
  ASSUME NEW X, NEW hs \in Seq(X), NEW cursor \in Nat, NEW room \in Nat
  PROVE  /\ Slice(hs, cursor, room) \in Seq(X)
         /\ Len(Slice(hs, cursor, room)) =
              IF Len(hs) <= cursor THEN 0
              ELSE IF cursor + room <= Len(hs) THEN room ELSE Len(hs) - cursor
         /\ \A p \in 1 .. Len(Slice(hs, cursor, room)) :
              /\ cursor + p \in 1 .. Len(hs)
              /\ Slice(hs, cursor, room)[p] = hs[cursor + p]
<1> DEFINE T == {cursor + room, Len(hs)}
           m == Min(T)
<1>1. T \in SUBSET Nat /\ T # {} /\ Len(hs) \in Nat
  OBVIOUS
<1>2. m \in T /\ \A y \in T : m <= y
  <2> HIDE DEF T
  <2>1. QED
    BY <1>1, Smallest
<1>3. m = IF cursor + room <= Len(hs) THEN cursor + room ELSE Len(hs)
  <2> HIDE DEF m
  <2>1. QED
    BY <1>1, <1>2
<1>4. Slice(hs, cursor, room) = SubSeq(hs, cursor + 1, m)
  BY DEF Slice
<1> HIDE DEF m
<1>5. m \in Nat /\ m <= Len(hs)
  BY <1>1, <1>3
<1>6. \A i \in cursor + 1 .. m : hs[i] \in X
  BY <1>1, <1>5
<1>7. /\ SubSeq(hs, cursor + 1, m) \in Seq(X)
      /\ Len(SubSeq(hs, cursor + 1, m)) = IF cursor + 1 <= m THEN m - (cursor + 1) + 1 ELSE 0
      /\ \A i \in 1 .. m - (cursor + 1) + 1 :
           SubSeq(hs, cursor + 1, m)[i] = hs[(cursor + 1) + i - 1]
  BY <1>5, <1>6, SubSeqProperties
<1> DEFINE s == SubSeq(hs, cursor + 1, m)
<1> HIDE DEF s
<1>8. Len(s) = IF Len(hs) <= cursor THEN 0
               ELSE IF cursor + room <= Len(hs) THEN room ELSE Len(hs) - cursor
  BY <1>1, <1>3, <1>5, <1>7 DEF s
<1>9. ASSUME NEW p \in 1 .. Len(s)
      PROVE  cursor + p \in 1 .. Len(hs) /\ s[p] = hs[cursor + p]
  <2>1. cursor + 1 <= m /\ p \in 1 .. m - (cursor + 1) + 1
    BY <1>5, <1>7 DEF s
  <2>2. (cursor + 1) + p - 1 = cursor + p
    OBVIOUS
  <2>3. s[p] = hs[cursor + p]
    BY <1>7, <2>1, <2>2 DEF s
  <2>4. QED
    BY <1>1, <1>5, <2>1, <2>3
<1>10. s \in Seq(X) /\ Slice(hs, cursor, room) = s
  BY <1>4, <1>7 DEF s
<1>11. QED
  BY <1>8, <1>9, <1>10

LEMMA SliceItems ==
  ASSUME NEW X, NEW hs \in Seq(X), NEW cursor \in Nat, NEW room \in Nat
  PROVE  \A p \in 1 .. Len(Slice(hs, cursor, room)) :
           /\ cursor + p \in 1 .. Len(hs)
           /\ Slice(hs, cursor, room)[p] = hs[cursor + p]
BY SliceIs

\* Fill is what its equations say.
LEMMA FillSteps ==
  ASSUME NEW o, Len(o) \in Nat
  PROVE  /\ Fill(o)[0] = 0
         /\ \A i \in 1 .. Len(o) : Fill(o)[i] = Fill(o)[i - 1] + Room(o[i])
<1> DEFINE n == Len(o)
           Put(e, k) == e + Room(o[k])
           Good(f, m) == /\ f = [k \in 0 .. m |-> f[k]]
                         /\ f[0] = 0
                         /\ \A k \in 1 .. m : f[k] = Put(f[k - 1], k)
           T == {m \in 0 .. n : \E f : Good(f, m)}
<1> HIDE DEF Put
<1>1. 0 \in T
  <2> DEFINE g == [k \in 0 .. 0 |-> 0]
  <2>1. Good(g, 0)
    OBVIOUS
  <2>2. 0 \in 0 .. n
    OBVIOUS
  <2>3. QED
    <3> HIDE DEF g, Good
    <3>1. QED
      BY <2>1, <2>2
<1>2. ASSUME NEW m \in 1 .. n, m - 1 \in T PROVE m \in T
  <2>1. PICK f : Good(f, m - 1)
    BY <1>2
  <2> DEFINE g == [k \in 0 .. m |-> IF k = m THEN Put(f[m - 1], m) ELSE f[k]]
  <2>2. g[0] = 0 /\ g = [k \in 0 .. m |-> g[k]]
    BY <2>1
  <2>3. ASSUME NEW k \in 1 .. m PROVE g[k] = Put(g[k - 1], k)
    <3>1. k - 1 \in 0 .. m /\ k - 1 # m /\ k \in 0 .. m
      OBVIOUS
    <3>2. g[k - 1] = f[k - 1]
      BY <3>1
    <3>3. CASE k = m
      BY <3>1, <3>2, <3>3
    <3>4. CASE k # m
      <4>1. k \in 1 .. m - 1
        BY <3>4
      <4>2. f[k] = Put(f[k - 1], k)
        BY <2>1, <4>1
      <4>3. QED
        BY <3>1, <3>2, <3>4, <4>2
    <3>5. QED
      BY <3>3, <3>4
  <2>4. Good(g, m)
    <3> HIDE DEF g
    <3>1. QED
      BY <2>2, <2>3
  <2>5. m \in 0 .. n
    OBVIOUS
  <2>6. QED
    <3> HIDE DEF g, Good
    <3>1. QED
      BY <2>4, <2>5
<1>3. n \in T
  <2> HIDE DEF T
  <2>1. \A m \in 1 .. n : m - 1 \in T => m \in T
    BY <1>2
  <2>2. \A k \in 0 .. n : k \in T
    BY <1>1, <2>1, UpTo
  <2>3. QED
    BY <2>2
<1>4. PICK f : Good(f, n)
  BY <1>3
<1>5. f = [i \in 0 .. Len(o) |->
             IF i = 0 THEN 0 ELSE f[i - 1] + Room(o[i])]
  <2>1. ASSUME NEW i \in 0 .. Len(o)
        PROVE  f[i] = IF i = 0 THEN 0 ELSE f[i - 1] + Room(o[i])
    <3>1. CASE i = 0
      BY <1>4, <3>1
    <3>2. CASE i # 0
      <4>1. i \in 1 .. n
        BY <3>2
      <4>2. f[i] = Put(f[i - 1], i)
        BY <1>4, <4>1
      <4>3. QED
        BY <3>2, <4>2 DEF Put
    <3>3. QED
      BY <3>1, <3>2
  <2>2. f = [i \in 0 .. Len(o) |-> f[i]]
    BY <1>4
  <2>3. QED
    BY <2>1, <2>2
<1> DEFINE g == CHOOSE g : g = [i \in 0 .. Len(o) |->
                  IF i = 0 THEN 0 ELSE g[i - 1] + Room(o[i])]
<1>6. g = [i \in 0 .. Len(o) |-> IF i = 0 THEN 0 ELSE g[i - 1] + Room(o[i])]
  BY <1>5
<1>7. Fill(o) = g
  BY DEF Fill
<1>8. QED
  <2> HIDE DEF g
  <2>1. g[0] = 0
    <3>1. 0 \in 0 .. Len(o)
      OBVIOUS
    <3>2. QED
      BY <1>6, <3>1
  <2>2. ASSUME NEW k \in 1 .. Len(o)
        PROVE  g[k] = g[k - 1] + Room(o[k])
    <3>1. k \in 0 .. Len(o) /\ k # 0
      OBVIOUS
    <3>2. QED
      BY <1>6, <3>1
  <2>3. QED
    BY <1>7, <2>1, <2>2

LEMMA RoomIs ==
  ASSUME TypeOK, NEW n \in Listed
  PROVE  /\ Room(n) \in Nat
         /\ Room(n) > 0 => n \in WithCapacity /\ Len(Rules(n)) + Room(n) <= MaxRoutes
<1>1. MaxRoutes \in Nat /\ Len(Rules(n)) \in Nat
  BY IngressAssumption, ListedRules
<1>2. CASE n \in WithCapacity
  BY <1>1, <1>2 DEF WithCapacity, Room
<1>3. CASE n \notin WithCapacity
  BY <1>3 DEF Room
<1>4. QED
  BY <1>2, <1>3

\* The order of a batch names every listed Ingress once.
LEMMA OrderType ==
  ASSUME NEW o \in PackingOrders
  PROVE  /\ o \in Seq(Listed) /\ Len(o) \in Nat /\ DOMAIN o = 1 .. Len(o)
         /\ \A i \in 1 .. Len(o) : o[i] \in Listed
         /\ \A i, j \in 1 .. Len(o) : o[i] = o[j] => i = j
<1> DEFINE n == Cardinality(Listed)
<1>1. n \in Nat
  BY ListedFinite
<1>2. o \in [1 .. n -> Listed] /\ \A i, j \in 1 .. n : i # j => o[i] # o[j]
  BY DEF PackingOrders, SetToSeqs
<1> HIDE DEF n
<1>3. o \in Seq(Listed) /\ Len(o) = n /\ DOMAIN o = 1 .. n
  BY <1>1, <1>2
<1>4. QED
  BY <1>1, <1>2, <1>3

\* The slices of a batch follow each other.
LEMMA FillGrows ==
  ASSUME TypeOK, NEW o \in PackingOrders
  PROVE  /\ \A i \in 0 .. Len(o) : Fill(o)[i] \in Nat
         /\ \A i, j \in 0 .. Len(o) : i <= j => Fill(o)[i] <= Fill(o)[j]
<1> DEFINE f == Fill(o)
           n == Len(o)
<1>1. n \in Nat /\ \A i \in 1 .. n : o[i] \in Listed
  BY OrderType
<1>2. f[0] = 0 /\ \A i \in 1 .. n : f[i] = f[i - 1] + Room(o[i])
  BY <1>1, FillSteps
<1>3. \A i \in 1 .. n : Room(o[i]) \in Nat
  BY <1>1, RoomIs
<1> HIDE DEF f, n
<1> DEFINE T == {j \in 0 .. n : /\ \A i \in 0 .. j : f[i] \in Nat
                                /\ \A i \in 0 .. j : f[i] <= f[j]}
<1>4. 0 \in T
  BY <1>1, <1>2
<1>5. ASSUME NEW j \in 1 .. n, j - 1 \in T PROVE j \in T
  <2>1. f[j - 1] \in Nat /\ Room(o[j]) \in Nat /\ f[j] = f[j - 1] + Room(o[j])
    BY <1>2, <1>3, <1>5
  <2>2. f[j] \in Nat /\ f[j - 1] <= f[j]
    BY <2>1
  <2>3. ASSUME NEW i \in 0 .. j PROVE f[i] \in Nat /\ f[i] <= f[j]
    <3>1. CASE i = j
      BY <2>2, <3>1
    <3>2. CASE i # j
      <4>1. i \in 0 .. j - 1
        BY <3>2
      <4>2. f[i] \in Nat /\ f[i] <= f[j - 1]
        BY <1>5, <4>1
      <4>3. QED
        BY <2>1, <2>2, <4>2
    <3>3. QED
      BY <3>1, <3>2
  <2>4. j \in 0 .. n
    BY <1>1
  <2>5. QED
    BY <2>3, <2>4
<1>6. \A j \in 0 .. n : j \in T
  <2> HIDE DEF T
  <2>1. \A j \in 1 .. n : j - 1 \in T => j \in T
    BY <1>5
  <2>2. QED
    BY ONLY <1>1, <1>4, <2>1, UpTo
<1>7. \A j \in 0 .. n : j \in 0 .. j
  OBVIOUS
<1>8. \A i \in 0 .. n : f[i] \in Nat
  BY <1>6, <1>7
<1>9. \A i, j \in 0 .. n : i <= j => f[i] <= f[j]
  <2> TAKE i, j \in 0 .. n
  <2>1. i <= j => i \in 0 .. j
    BY <1>1
  <2>2. QED
    BY <1>6, <2>1
<1>10. QED
  BY <1>8, <1>9 DEF f, n

\* A route that an existing Ingress takes is in the slice of one of them.
LEMMA FillFinds ==
  ASSUME TypeOK, NEW o \in PackingOrders, NEW q \in Nat, 0 < q,
         q <= Fill(o)[Len(o)]
  PROVE  \E i \in 1 .. Len(o) : Fill(o)[i - 1] < q /\ q <= Fill(o)[i]
<1> DEFINE f == Fill(o)
           n == Len(o)
           Found(j) == \E i \in 1 .. j : f[i - 1] < q /\ q <= f[i]
           T == {j \in 0 .. n : q <= f[j] => Found(j)}
<1>1. n \in Nat /\ f[0] = 0
  BY OrderType, FillSteps
<1>2. \A i \in 0 .. n : f[i] \in Nat
  BY FillGrows
<1> HIDE DEF f, n
<1>3. 0 \in T
  BY <1>1
<1>4. ASSUME NEW j \in 1 .. n, j - 1 \in T PROVE j \in T
  <2>1. f[j - 1] \in Nat /\ f[j] \in Nat /\ j \in 0 .. n
    <3>1. j - 1 \in 0 .. n /\ j \in 0 .. n
      BY <1>1
    <3>2. QED
      BY <1>2, <3>1
  <2>2. CASE q <= f[j - 1]
    <3>1. Found(j - 1)
      BY <1>4, <2>2
    <3>2. PICK i \in 1 .. j - 1 : f[i - 1] < q /\ q <= f[i]
      BY <3>1
    <3>3. i \in 1 .. j
      OBVIOUS
    <3>4. QED
      BY <2>1, <3>2, <3>3
  <2>3. CASE f[j - 1] < q
    <3>1. j \in 1 .. j
      OBVIOUS
    <3>2. QED
      BY <2>1, <2>3, <3>1
  <2>4. QED
    BY <2>1, <2>2, <2>3
<1>5. n \in T
  <2> HIDE DEF T
  <2>1. \A j \in 1 .. n : j - 1 \in T => j \in T
    BY <1>4
  <2>2. \A j \in 0 .. n : j \in T
    BY ONLY <1>1, <1>3, <2>1, UpTo
  <2>3. QED
    BY <1>1, <2>2
<1>6. QED
  BY <1>5 DEF f, n

\* New Ingresses take what is left, MaxRoutes at a time.
LEMMA OverflowIs ==
  ASSUME NEW hs \in Seq(Hosts), NEW cursor \in Nat
  PROVE  LET over  == Overflow(hs, cursor)
             at(k) == cursor + (k - 1) * MaxRoutes
         IN  /\ over \in Seq(AnyCall)
             /\ \A k \in 1 .. Len(over) :
                  /\ at(k) \in Nat /\ at(k) < Len(hs)
                  /\ over[k] = CreateIngress(Cardinality(Listed) + k - 1,
                                             Slice(hs, at(k), MaxRoutes))
             /\ \A q \in 1 .. Len(hs) : cursor < q =>
                  \E k \in 1 .. Len(over) : at(k) < q /\ q <= at(k) + MaxRoutes
<1> DEFINE over == Overflow(hs, cursor)
           M == MaxRoutes
           at(k) == cursor + (k - 1) * M
           left == IF cursor < Len(hs) THEN Len(hs) - cursor ELSE 0
           top == (left + M - 1) \div M
           N == Cardinality(Listed)
<1>1. M \in Nat /\ 0 < M /\ Len(hs) \in Nat /\ N \in Nat
  BY IngressAssumption, ListedFinite
<1>2. over = [k \in 1 .. top |-> CreateIngress(N + k - 1, Slice(hs, at(k), M))]
  BY DEF Overflow
<1> HIDE DEF over, M, N
<1>3. left \in Nat /\ left + M - 1 \in Nat
  BY <1>1
<1> HIDE DEF left
<1>4. top \in Nat /\ top * M <= left + M - 1 /\ left + M - 1 < top * M + M
  BY <1>1, <1>3, Quotient
<1> HIDE DEF top
<1>5. ASSUME NEW k \in 1 .. top PROVE at(k) \in Nat /\ at(k) < Len(hs)
  <2>1. k - 1 \in Nat /\ k - 1 < top
    BY <1>4
  <2>2. (k - 1) * M \in Nat /\ (k - 1) * M + M <= top * M /\ top * M \in Nat
    BY <1>1, <1>4, <2>1, Multiples
  <2>3. (k - 1) * M < left
    <3> DEFINE a == (k - 1) * M
               b == top * M
    <3> HIDE DEF a, b
    <3>1. a \in Nat /\ a + M <= b /\ b \in Nat /\ b <= left + M - 1
      BY <1>4, <2>2 DEF a, b
    <3>2. a < left
      BY <1>1, <1>3, <3>1
    <3>3. QED
      BY <3>2 DEF a
  <2>4. QED
    BY <1>1, <2>2, <2>3 DEF left
<1>6. over \in Seq(AnyCall) /\ Len(over) = top
  <2>1. ASSUME NEW k \in 1 .. top
        PROVE  CreateIngress(N + k - 1, Slice(hs, at(k), M)) \in AnyCall
    <3>1. N + k - 1 \in Nat
      BY <1>1
    <3>2. Slice(hs, at(k), M) \in Seq(Hosts)
      BY <1>1, <1>5, SliceIs
    <3>3. QED
      BY <3>1, <3>2, CreateIngressType
  <2>2. over \in [1 .. top -> AnyCall]
    BY <1>2, <2>1
  <2>3. QED
    BY <1>4, <2>2
<1>7. \A k \in 1 .. top : over[k] = CreateIngress(N + k - 1, Slice(hs, at(k), M))
  BY <1>2
<1>8. ASSUME NEW q \in 1 .. Len(hs), cursor < q
      PROVE  \E k \in 1 .. top : at(k) < q /\ q <= at(k) + M
  <2> DEFINE x == q - cursor - 1
             d == x \div M
  <2>1. x \in Nat /\ x < left
    BY <1>1, <1>8 DEF left
  <2>2. d \in Nat /\ d * M <= x /\ x < d * M + M
    BY <1>1, <2>1, Quotient
  <2> HIDE DEF d
  <2>3. d * M \in Nat /\ top * M \in Nat
    BY <1>1, <1>4, <2>2
  <2>4. d < top
    <3> SUFFICES ASSUME top <= d PROVE FALSE
      BY <1>4, <2>2
    <3>1. top * M <= d * M
      <4>1. CASE top = d
        BY <2>3, <4>1
      <4>2. CASE top < d
        <5>1. top * M + M <= d * M
          BY <1>1, <1>4, <2>2, <4>2, Multiples
        <5>2. QED
          BY <1>1, <2>3, <5>1
      <4>3. QED
        BY <1>4, <2>2, <4>1, <4>2
    <3> DEFINE a == d * M
               b == top * M
    <3> HIDE DEF a, b, x
    <3>2. a \in Nat /\ b \in Nat /\ b <= a /\ a <= x /\ left + M - 1 < b + M
      BY <1>4, <2>2, <2>3, <3>1 DEF a, b
    <3>3. QED
      BY <1>1, <1>3, <2>1, <3>2
  <2>5. d + 1 \in 1 .. top /\ (d + 1) - 1 = d
    BY <1>4, <2>2, <2>4
  <2>6. at(d + 1) = cursor + d * M
    BY <2>5
  <2>7. at(d + 1) < q /\ q <= at(d + 1) + M
    <3> DEFINE a == d * M
    <3> HIDE DEF a
    <3>1. a \in Nat /\ a <= x /\ x < a + M /\ at(d + 1) = cursor + a
      BY <2>2, <2>3, <2>6 DEF a
    <3>2. QED
      BY <1>1, <3>1
  <2>8. QED
    BY <2>5, <2>7
<1>9. QED
  BY <1>5, <1>6, <1>7, <1>8 DEF over, M, N

\* The patches of BatchProvision, and those of them that are made.
Patches(hs, o) ==
  [i \in DOMAIN o |-> PatchAddRules(o[i], Slice(hs, Fill(o)[i - 1], Room(o[i])))]
Made(patches) == Among(patches, {c \in ToSet(patches) : c.rules # <<>>})

\* One for every Ingress that takes a part of the batch.
LEMMA PatchesAre ==
  ASSUME TypeOK, NEW hs \in Seq(Hosts), NEW o \in PackingOrders
  PROVE  LET patches == Patches(hs, o)
             F       == Made(patches)
         IN  /\ F \in Seq(AnyCall)
             /\ \E r \in [1 .. Len(F) -> 1 .. Len(o)] :
                  /\ \A m \in 1 .. Len(F) :
                       F[m] = patches[r[m]] /\ F[m].rules # <<>>
                  /\ \A m, l \in 1 .. Len(F) : r[m] = r[l] => m = l
                  /\ \A i \in 1 .. Len(o) : patches[i].rules # <<>> =>
                       \E m \in 1 .. Len(F) : r[m] = i
<1> DEFINE n == Len(o)
           patches == Patches(hs, o)
           S == {c \in ToSet(patches) : c.rules # <<>>}
           F == Made(patches)
<1>1. /\ DOMAIN patches = DOMAIN o
      /\ patches = [i \in DOMAIN o |-> patches[i]]
      /\ \A i \in DOMAIN o :
           patches[i] = PatchAddRules(o[i], Slice(hs, Fill(o)[i - 1], Room(o[i])))
  BY DEF Patches
<1>2. F = Among(patches, S)
  BY DEF Made
<1> HIDE DEF patches, F, S
<1>3. n \in Nat /\ DOMAIN o = 1 .. n /\ DOMAIN patches = 1 .. n
  BY <1>1, OrderType
<1>4. ASSUME NEW i \in 1 .. n
      PROVE  patches[i] \in AnyCall /\ patches[i].name = o[i]
  <2>1. o[i] \in Listed
    BY OrderType
  <2>2. o[i] \in Nat /\ Room(o[i]) \in Nat
    BY <2>1, RoomIs, ListedFinite
  <2>3. Fill(o)[i - 1] \in Nat
    <3>1. i - 1 \in 0 .. Len(o)
      BY <1>3
    <3>2. QED
      BY <3>1, FillGrows
  <2>4. Slice(hs, Fill(o)[i - 1], Room(o[i])) \in Seq(Hosts)
    BY <2>2, <2>3, SliceIs
  <2>5. patches[i] = PatchAddRules(o[i], Slice(hs, Fill(o)[i - 1], Room(o[i])))
    BY <1>1, <1>3
  <2>6. QED
    BY <2>2, <2>4, <2>5, PatchAddRulesType
<1>5. \A i, j \in 1 .. n : o[i] = o[j] => i = j
  BY OrderType
<1> HIDE DEF n
<1>6. patches \in Seq(AnyCall) /\ IsInjective(patches)
  <2>1. patches \in [1 .. n -> AnyCall]
    BY <1>1, <1>3, <1>4
  <2>2. patches \in Seq(AnyCall)
    BY <1>3, <2>1
  <2>3. ASSUME NEW i \in 1 .. n, NEW j \in 1 .. n, patches[i] = patches[j]
        PROVE  i = j
    <3>1. o[i] = o[j]
      BY <1>4, <2>3
    <3>2. QED
      BY <1>5, <3>1
  <2>4. QED
    BY <1>3, <2>2, <2>3 DEF IsInjective
<1>7. F \in Seq(AnyCall) /\ IsInjective(F) /\ ToSet(F) = ToSet(patches) \cap S
  <2>1. /\ Among(patches, S) \in Seq(AnyCall) /\ IsInjective(Among(patches, S))
        /\ ToSet(Among(patches, S)) = ToSet(patches) \cap S
    BY ONLY <1>6, AmongType, AmongInjective, AmongRange
  <2>2. QED
    BY ONLY <1>2, <2>1
<1>8. DOMAIN F = 1 .. Len(F)
  BY <1>7, LenProperties
<1> DEFINE r == [m \in 1 .. Len(F) |-> CHOOSE i \in 1 .. n : patches[i] = F[m]]
<1>9. ASSUME NEW m \in 1 .. Len(F)
      PROVE  r[m] \in 1 .. n /\ patches[r[m]] = F[m] /\ F[m].rules # <<>>
  <2>1. F[m] \in ToSet(F)
    BY <1>8 DEF ToSet
  <2>2. F[m] \in ToSet(patches) /\ F[m].rules # <<>>
    BY <1>7, <2>1 DEF S
  <2>3. \E i \in 1 .. n : patches[i] = F[m]
    BY <1>3, <2>2 DEF ToSet
  <2>4. QED
    BY <2>2, <2>3
<1>10. r \in [1 .. Len(F) -> 1 .. n]
  BY <1>9
<1> HIDE DEF r
<1>11. ASSUME NEW m \in 1 .. Len(F), NEW l \in 1 .. Len(F), r[m] = r[l]
      PROVE  m = l
  <2>1. F[m] = F[l]
    BY ONLY <1>9, <1>11
  <2>2. m \in DOMAIN F /\ l \in DOMAIN F
    BY ONLY <1>8, m \in 1 .. Len(F), l \in 1 .. Len(F)
  <2>3. QED
    BY ONLY <1>7, <2>1, <2>2 DEF IsInjective
<1>12. ASSUME NEW i \in 1 .. n, patches[i].rules # <<>>
       PROVE  \E m \in 1 .. Len(F) : r[m] = i
  <2>1. patches[i] \in ToSet(patches)
    BY <1>3 DEF ToSet
  <2>2. patches[i] \in ToSet(F)
    BY <1>7, <1>12, <2>1 DEF S
  <2>3. PICK m \in 1 .. Len(F) : F[m] = patches[i]
    BY <1>8, <2>2 DEF ToSet
  <2>4. patches[r[m]] = patches[i] /\ r[m] \in 1 .. n
    BY <1>9, <2>3
  <2>5. r[m] = i
    BY <1>3, <1>6, <2>4 DEF IsInjective
  <2>6. QED
    BY <2>5
<1>13. \E x \in [1 .. Len(F) -> 1 .. n] :
         /\ \A m \in 1 .. Len(F) : F[m] = patches[x[m]] /\ F[m].rules # <<>>
         /\ \A m, l \in 1 .. Len(F) : x[m] = x[l] => m = l
         /\ \A i \in 1 .. n : patches[i].rules # <<>> =>
              \E m \in 1 .. Len(F) : x[m] = i
  <2>1. /\ \A m \in 1 .. Len(F) : F[m] = patches[r[m]] /\ F[m].rules # <<>>
        /\ \A m, l \in 1 .. Len(F) : r[m] = r[l] => m = l
        /\ \A i \in 1 .. n : patches[i].rules # <<>> =>
             \E m \in 1 .. Len(F) : r[m] = i
    <3>1. \A m \in 1 .. Len(F) : F[m] = patches[r[m]] /\ F[m].rules # <<>>
      BY ONLY <1>9
    <3>2. \A m, l \in 1 .. Len(F) : r[m] = r[l] => m = l
      BY ONLY <1>11
    <3>3. \A i \in 1 .. n : patches[i].rules # <<>> =>
             \E m \in 1 .. Len(F) : r[m] = i
      BY ONLY <1>12
    <3>4. QED
      BY ONLY <3>1, <3>2, <3>3
  <2>2. QED
    BY ONLY <1>10, <2>1
<1>14. QED
  BY <1>7, <1>13 DEF n, patches, F

\* A batch is cut into intervals, of which every call of BatchProvision gets
\* one: call a has the routes after from[a], up to to[a].
Piece(c, hs, x, y) ==
  /\ x < Len(hs) /\ x < y
  /\ \/ /\ y - x = MaxRoutes
        /\ \E n \in Nat : c = CreateIngress(n, Slice(hs, x, y - x))
     \/ \E n \in Listed : /\ c = PatchAddRules(n, Slice(hs, x, y - x))
                          /\ y - x = Room(n)

Pieces(cs, hs, from, to) ==
  /\ \A a \in DOMAIN cs : Piece(cs[a], hs, from[a], to[a])
  /\ \A a, b \in DOMAIN cs : a = b \/ to[a] <= from[b] \/ to[b] <= from[a]
  /\ \A a, b \in DOMAIN cs :
       cs[a].op = "add" /\ cs[b].op = "add" /\ cs[a].name = cs[b].name => a = b
  /\ \A q \in 1 .. Len(hs) : \E a \in DOMAIN cs : from[a] < q /\ q <= to[a]

LEMMA BatchPieces ==
  ASSUME TypeOK, NEW hs \in Seq(Hosts), NEW o \in PackingOrders, NEW cs,
         cs = BatchProvisionCalls(hs, o)
  PROVE  /\ cs \in Seq(AnyCall)
         /\ \E from \in [DOMAIN cs -> Nat], to \in [DOMAIN cs -> Nat] :
              Pieces(cs, hs, from, to)
<1> DEFINE M == MaxRoutes
           n == Len(o)
           f == Fill(o)
           over == Overflow(hs, f[n])
           K == Len(over)
           at(k) == f[n] + (k - 1) * M
           patches == Patches(hs, o)
           F == Made(patches)
           L == Len(F)
<1>1. M \in Nat /\ 0 < M /\ Len(hs) \in Nat
  BY IngressAssumption
<1>2. /\ n \in Nat /\ DOMAIN o = 1 .. n /\ \A i \in 1 .. n : o[i] \in Listed
      /\ \A i, j \in 1 .. n : o[i] = o[j] => i = j
  BY OrderType
<1>3. /\ \A i \in 0 .. n : f[i] \in Nat
      /\ \A i, j \in 0 .. n : i <= j => f[i] <= f[j]
      /\ \A i \in 1 .. n : f[i] = f[i - 1] + Room(o[i])
  BY <1>2, FillGrows, FillSteps
<1>4. f[n] \in Nat
  BY <1>2, <1>3
<1>5. /\ over \in Seq(AnyCall)
      /\ \A k \in 1 .. K :
           /\ at(k) \in Nat /\ at(k) < Len(hs)
           /\ over[k] = CreateIngress(Cardinality(Listed) + k - 1,
                                      Slice(hs, at(k), M))
      /\ \A q \in 1 .. Len(hs) : f[n] < q =>
           \E k \in 1 .. K : at(k) < q /\ q <= at(k) + M
  BY <1>4, OverflowIs
<1>6. /\ F \in Seq(AnyCall)
      /\ \E r \in [1 .. L -> 1 .. n] :
           /\ \A m \in 1 .. L : F[m] = patches[r[m]] /\ F[m].rules # <<>>
           /\ \A m, l \in 1 .. L : r[m] = r[l] => m = l
           /\ \A i \in 1 .. n : patches[i].rules # <<>> =>
                \E m \in 1 .. L : r[m] = i
  BY PatchesAre
<1>7. PICK r \in [1 .. L -> 1 .. n] :
        /\ \A m \in 1 .. L : F[m] = patches[r[m]] /\ F[m].rules # <<>>
        /\ \A m, l \in 1 .. L : r[m] = r[l] => m = l
        /\ \A i \in 1 .. n : patches[i].rules # <<>> =>
             \E m \in 1 .. L : r[m] = i
  BY <1>6
<1>8. cs = over \o F
  BY DEF BatchProvisionCalls, Patches, Made
<1>9. \A i \in 1 .. n :
        patches[i] = PatchAddRules(o[i], Slice(hs, f[i - 1], Room(o[i])))
  BY <1>2 DEF Patches
<1>10. \A i \in 1 .. n : /\ f[i - 1] \in Nat /\ f[i] \in Nat /\ o[i] \in Nat
                         /\ Room(o[i]) \in Nat /\ f[i - 1] <= f[i] /\ f[i] <= f[n]
                         /\ f[i] - f[i - 1] = Room(o[i])
  <2> TAKE i \in 1 .. n
  <2>1. i - 1 \in 0 .. n /\ i \in 0 .. n /\ n \in 0 .. n /\ i <= n
    BY <1>2
  <2>2. o[i] \in Listed /\ o[i] \in Nat
    BY <1>2, ListedFinite
  <2>3. Room(o[i]) \in Nat
    BY <2>2, RoomIs
  <2> HIDE DEF f
  <2>4. QED
    BY <1>3, <2>1, <2>2, <2>3
<1>11. ASSUME NEW i \in 1 .. n
       PROVE  /\ patches[i].op = "add" /\ patches[i].name = o[i]
              /\ patches[i].rules # <<>> <=> f[i - 1] < Len(hs) /\ f[i - 1] < f[i]
  <2> DEFINE s == Slice(hs, f[i - 1], Room(o[i]))
  <2>0. /\ f[i - 1] \in Nat /\ f[i] \in Nat /\ Room(o[i]) \in Nat
        /\ f[i] - f[i - 1] = Room(o[i])
    BY <1>10
  <2> HIDE DEF f, patches, F, over, n
  <2>1. /\ s \in Seq(Hosts)
        /\ Len(s) = IF Len(hs) <= f[i - 1] THEN 0
                    ELSE IF f[i - 1] + Room(o[i]) <= Len(hs) THEN Room(o[i])
                    ELSE Len(hs) - f[i - 1]
    <3> DEFINE x == f[i - 1]
               m == Room(o[i])
    <3>1. x \in Nat /\ m \in Nat
      BY <2>0
    <3> HIDE DEF x, m
    <3>2. Slice(hs, x, m) \in Seq(Hosts)
      BY ONLY <3>1, hs \in Seq(Hosts), SliceIs
    <3>3. Len(Slice(hs, x, m)) = IF Len(hs) <= x THEN 0
                                 ELSE IF x + m <= Len(hs) THEN m ELSE Len(hs) - x
      BY ONLY <3>1, hs \in Seq(Hosts), SliceIs
    <3>4. QED
      BY <3>2, <3>3 DEF x, m
  <2> HIDE DEF s
  <2>2. patches[i] = PatchAddRules(o[i], s)
    BY <1>9 DEF s
  <2> HIDE DEF patches
  <2>3. patches[i].op = "add" /\ patches[i].name = o[i] /\ patches[i].rules = s
    BY <1>10, <2>1, <2>2, PatchAddRulesType
  <2>4. s # <<>> <=> Len(s) # 0
    BY <2>1, EmptySeq
  <2>5. Len(s) # 0 <=> f[i - 1] < Len(hs) /\ f[i - 1] < f[i]
    <3>1. Len(hs) \in Nat
      OBVIOUS
    <3>2. CASE Len(hs) <= f[i - 1]
      BY <2>0, <2>1, <3>1, <3>2
    <3>3. CASE f[i - 1] < Len(hs) /\ f[i - 1] + Room(o[i]) <= Len(hs)
      BY <2>0, <2>1, <3>1, <3>3
    <3>4. CASE f[i - 1] < Len(hs) /\ ~(f[i - 1] + Room(o[i]) <= Len(hs))
      BY <2>0, <2>1, <3>1, <3>4
    <3>5. QED
      BY <2>0, <3>1, <3>2, <3>3, <3>4
  <2>6. QED
    BY <2>3, <2>4, <2>5
<1> HIDE DEF M, n, f, over, K, patches, F, L
<1>12. K \in Nat /\ L \in Nat /\ K = Len(over) /\ L = Len(F)
  BY <1>5, <1>6 DEF K, L
<1>13. /\ cs \in Seq(AnyCall) /\ DOMAIN cs = 1 .. K + L
       /\ \A a \in 1 .. K + L : cs[a] = IF a <= K THEN over[a] ELSE F[a - K]
  BY <1>5, <1>6, <1>8, <1>12, ConcatProperties, LenProperties
<1> DEFINE from == [a \in DOMAIN cs |-> IF a <= K THEN at(a) ELSE f[r[a - K] - 1]]
           to   == [a \in DOMAIN cs |-> IF a <= K THEN at(a) + M ELSE f[r[a - K]]]
<1>14. ASSUME NEW a \in DOMAIN cs, a <= K
       PROVE  /\ a \in 1 .. K /\ cs[a] = over[a]
              /\ from[a] = at(a) /\ to[a] = at(a) + M /\ at(a) \in Nat
              /\ cs[a].op = "create"
  <2>1. a \in 1 .. K /\ cs[a] = over[a]
    BY <1>12, <1>13, <1>14
  <2>2. from[a] = at(a) /\ to[a] = at(a) + M /\ at(a) \in Nat
    BY <1>5, <1>14, <2>1
  <2>3. Cardinality(Listed) + a - 1 \in Nat
    BY <1>12, <2>1, ListedFinite
  <2>4. Slice(hs, at(a), M) \in Seq(Hosts)
    BY <1>1, <2>2, SliceIs
  <2>5. cs[a].op = "create"
    BY <1>5, <2>1, <2>3, <2>4, CreateIngressType
  <2>6. QED
    BY <2>1, <2>2, <2>5
<1>15. ASSUME NEW a \in DOMAIN cs, ~(a <= K)
       PROVE  /\ a - K \in 1 .. L /\ r[a - K] \in 1 .. n
              /\ cs[a] = patches[r[a - K]] /\ cs[a].rules # <<>>
              /\ from[a] = f[r[a - K] - 1] /\ to[a] = f[r[a - K]]
  <2>1. a - K \in 1 .. L
    BY <1>12, <1>13, <1>15
  <2>2. cs[a] = F[a - K]
    BY <1>13, <1>15
  <2>3. from[a] = f[r[a - K] - 1] /\ to[a] = f[r[a - K]]
    BY <1>15
  <2>4. QED
    BY <1>7, <2>1, <2>2, <2>3
<1>16. from \in [DOMAIN cs -> Nat] /\ to \in [DOMAIN cs -> Nat]
  <2>1. ASSUME NEW a \in DOMAIN cs PROVE from[a] \in Nat /\ to[a] \in Nat
    <3>1. CASE a <= K
      BY <1>1, <1>14, <3>1
    <3>2. CASE ~(a <= K)
      BY <1>10, <1>15, <3>2
    <3>3. QED
      BY <3>1, <3>2
  <2>2. QED
    BY <2>1
<1> HIDE DEF from, to
<1>17. ASSUME NEW a \in DOMAIN cs
       PROVE  Piece(cs[a], hs, from[a], to[a])
  <2>1. CASE a <= K
    <3>1. /\ a \in 1 .. K /\ cs[a] = over[a] /\ at(a) \in Nat
          /\ from[a] = at(a) /\ to[a] = at(a) + M
      BY <1>14, <2>1
    <3>2. at(a) < Len(hs)
      BY <1>5, <3>1
    <3>3. to[a] - from[a] = M /\ from[a] < to[a]
      <4> DEFINE x == at(a)
      <4> HIDE DEF x
      <4>1. x \in Nat /\ from[a] = x /\ to[a] = x + M
        BY <3>1 DEF x
      <4>2. QED
        BY <1>1, <4>1
    <3>4. Cardinality(Listed) + a - 1 \in Nat
      BY <1>12, <3>1, ListedFinite
    <3>5. cs[a] = CreateIngress(Cardinality(Listed) + a - 1,
                                Slice(hs, from[a], to[a] - from[a]))
      BY <1>5, <3>1, <3>3
    <3>6. QED
      BY <3>1, <3>2, <3>3, <3>4, <3>5 DEF Piece, M
  <2>2. CASE ~(a <= K)
    <3> DEFINE i == r[a - K]
    <3>1. /\ i \in 1 .. n /\ cs[a] = patches[i] /\ cs[a].rules # <<>>
          /\ from[a] = f[i - 1] /\ to[a] = f[i]
      BY <1>15, <2>2
    <3> HIDE DEF i
    <3>2. from[a] < Len(hs) /\ from[a] < to[a]
      BY <1>11, <3>1
    <3>3. to[a] - from[a] = Room(o[i]) /\ o[i] \in Listed
      BY <1>2, <1>10, <3>1
    <3>4. cs[a] = PatchAddRules(o[i], Slice(hs, from[a], to[a] - from[a]))
      BY <1>9, <3>1, <3>3
    <3>5. QED
      BY <3>2, <3>3, <3>4 DEF Piece
  <2>3. QED
    BY <2>1, <2>2
<1>18. ASSUME NEW a \in DOMAIN cs, NEW b \in DOMAIN cs, a <= K, b <= K, a < b
       PROVE  to[a] <= from[b]
  <2>1. /\ a \in 1 .. K /\ b \in 1 .. K /\ to[a] = at(a) + M /\ from[b] = at(b)
    BY <1>14, <1>18
  <2>2. a - 1 \in Nat /\ b - 1 \in Nat /\ a - 1 < b - 1
    BY <1>12, <1>18, <2>1
  <2> DEFINE x == (a - 1) * M
             y == (b - 1) * M
  <2>3. x \in Nat /\ y \in Nat /\ x + M <= y
    BY <1>1, <2>2, Multiples
  <2>4. to[a] = f[n] + x + M /\ from[b] = f[n] + y
    BY <2>1
  <2> HIDE DEF x, y
  <2>5. QED
    BY <1>1, <1>4, <2>3, <2>4
<1>19. ASSUME NEW a \in DOMAIN cs, NEW b \in DOMAIN cs, ~(a <= K), b <= K
       PROVE  to[a] <= from[b]
  <2> DEFINE x == (b - 1) * M
  <2>1. b - 1 \in Nat
    BY <1>12, <1>14, <1>19
  <2>2. x \in Nat
    BY <1>1, <2>1
  <2>3. from[b] = f[n] + x
    BY <1>14, <1>19
  <2> HIDE DEF x
  <2>4. to[a] \in Nat /\ to[a] <= f[n]
    BY <1>10, <1>15, <1>19
  <2>5. QED
    BY <1>4, <2>2, <2>3, <2>4
<1>20. ASSUME NEW a \in DOMAIN cs, NEW b \in DOMAIN cs, ~(a <= K), ~(b <= K),
              r[a - K] < r[b - K]
       PROVE  to[a] <= from[b]
  <2>1. /\ r[a - K] \in 1 .. n /\ r[b - K] \in 1 .. n
        /\ to[a] = f[r[a - K]] /\ from[b] = f[r[b - K] - 1]
    BY <1>15, <1>20
  <2>2. r[a - K] \in 0 .. n /\ r[b - K] - 1 \in 0 .. n /\ r[a - K] <= r[b - K] - 1
    BY <1>2, <1>20, <2>1
  <2>3. QED
    BY <1>3, <2>1, <2>2
<1>21. ASSUME NEW a \in DOMAIN cs, NEW b \in DOMAIN cs, a # b
       PROVE  to[a] <= from[b] \/ to[b] <= from[a]
  <2>1. a \in Nat /\ b \in Nat
    BY <1>12, <1>13
  <2>2. CASE a <= K /\ b <= K
    <3>1. a < b \/ b < a
      BY <1>21, <2>1
    <3>2. QED
      BY <1>18, <2>2, <3>1
  <2>3. CASE ~(a <= K) /\ b <= K
    BY <1>19, <2>3
  <2>4. CASE a <= K /\ ~(b <= K)
    BY <1>19, <2>4
  <2>5. CASE ~(a <= K) /\ ~(b <= K)
    <3>1. a - K \in 1 .. L /\ b - K \in 1 .. L /\ a - K # b - K
      BY <1>12, <1>15, <1>21, <2>1, <2>5
    <3>2. r[a - K] # r[b - K]
      BY <1>7, <3>1
    <3>3. r[a - K] \in 1 .. n /\ r[b - K] \in 1 .. n
      BY <1>15, <2>5
    <3>4. r[a - K] < r[b - K] \/ r[b - K] < r[a - K]
      BY <1>2, <3>2, <3>3
    <3>5. QED
      BY <1>20, <2>5, <3>4
  <2>6. QED
    BY <2>2, <2>3, <2>4, <2>5
<1>22. ASSUME NEW a \in DOMAIN cs, NEW b \in DOMAIN cs,
              cs[a].op = "add", cs[b].op = "add", cs[a].name = cs[b].name
       PROVE  a = b
  <2>1. ~(a <= K) /\ ~(b <= K)
    BY <1>14, <1>22
  <2>2. /\ a - K \in 1 .. L /\ b - K \in 1 .. L
        /\ r[a - K] \in 1 .. n /\ r[b - K] \in 1 .. n
        /\ cs[a] = patches[r[a - K]] /\ cs[b] = patches[r[b - K]]
    BY <1>15, <2>1
  <2>3. o[r[a - K]] = o[r[b - K]]
    BY <1>11, <1>22, <2>2
  <2>4. a - K = b - K
    BY <1>2, <1>7, <2>2, <2>3
  <2>5. a \in Nat /\ b \in Nat
    BY <1>12, <1>13
  <2>6. QED
    BY <1>12, <2>4, <2>5
<1>23. ASSUME NEW q \in 1 .. Len(hs)
       PROVE  \E a \in DOMAIN cs : from[a] < q /\ q <= to[a]
  <2>1. CASE f[n] < q
    <3>1. PICK k \in 1 .. K : at(k) < q /\ q <= at(k) + M
      BY <1>5, <2>1
    <3>2. k \in DOMAIN cs /\ k <= K
      BY <1>12, <1>13
    <3>3. QED
      BY <1>14, <3>1, <3>2
  <2>2. CASE ~(f[n] < q)
    <3>1. q \in Nat /\ 0 < q /\ q <= f[n] /\ q <= Len(hs)
      BY <1>1, <1>4, <2>2
    <3>2. PICK i \in 1 .. n : f[i - 1] < q /\ q <= f[i]
      BY <3>1, FillFinds DEF f, n
    <3>3. f[i - 1] < Len(hs) /\ f[i - 1] < f[i]
      BY <1>1, <1>10, <3>1, <3>2
    <3>4. PICK m \in 1 .. L : r[m] = i
      BY <1>7, <1>11, <3>3
    <3>5. m + K \in DOMAIN cs /\ ~(m + K <= K) /\ (m + K) - K = m
      BY <1>12, <1>13
    <3>6. from[m + K] = f[i - 1] /\ to[m + K] = f[i]
      BY <1>15, <3>4, <3>5
    <3>7. QED
      BY <3>2, <3>5, <3>6
  <2>3. QED
    BY <2>1, <2>2
<1>24. Pieces(cs, hs, from, to)
  BY <1>17, <1>21, <1>22, <1>23 DEF Pieces
<1>25. QED
  BY <1>13, <1>16, <1>24

\* A call that puts routes of hs into a new Ingress or into one with room.
Carries(c, hs) ==
  /\ c.tls = TLSOf(c.rules)
  /\ 0 < Len(c.rules) /\ ToSet(c.rules) \subseteq ToSet(hs)
  /\ \/ c.op = "create" /\ Len(c.rules) <= MaxRoutes
     \/ /\ c.op = "add" /\ c.name \in Listed
        /\ Len(Rules(c.name)) + Len(c.rules) <= MaxRoutes

\* BatchProvision creates Ingresses and adds rules to others; together the
\* calls have every route of the batch, and each in one place.
LEMMA BatchProvisionPlan ==
  ASSUME TypeOK, NEW hs \in Seq(Hosts), NEW o \in PackingOrders, NEW cs,
         cs = BatchProvisionCalls(hs, o)
  PROVE  /\ cs \in Seq(AnyCall)
         /\ \A a \in DOMAIN cs : Carries(cs[a], hs)
         /\ \A a, b \in DOMAIN cs :
              cs[a].op = "add" /\ cs[b].op = "add" /\ cs[a].name = cs[b].name
                => a = b
         /\ \A h \in ToSet(hs) : \E a \in DOMAIN cs : h \in ToSet(cs[a].rules)
         /\ IsInjective(hs) =>
              \A a, b \in DOMAIN cs :
                \A p \in DOMAIN cs[a].rules, q \in DOMAIN cs[b].rules :
                  cs[a].rules[p] = cs[b].rules[q] => a = b /\ p = q
<1>1. cs \in Seq(AnyCall)
  BY BatchPieces
<1>2. PICK from \in [DOMAIN cs -> Nat], to \in [DOMAIN cs -> Nat] :
             Pieces(cs, hs, from, to)
  BY BatchPieces
<1>3. Len(hs) \in Nat /\ MaxRoutes \in Nat /\ DOMAIN hs = 1 .. Len(hs)
  BY IngressAssumption, LenProperties
<1>4. ASSUME NEW a \in DOMAIN cs
      PROVE  LET s == Slice(hs, from[a], to[a] - from[a])
             IN  /\ s \in Seq(Hosts) /\ Len(s) \in Nat /\ DOMAIN s = 1 .. Len(s)
                 /\ cs[a].rules = s /\ cs[a].tls = TLSOf(s)
                 /\ 0 < Len(s) /\ Len(s) <= to[a] - from[a]
                 /\ \A p \in 1 .. Len(s) : /\ from[a] + p \in 1 .. Len(hs)
                                           /\ from[a] + p <= to[a]
                                           /\ s[p] = hs[from[a] + p]
                 /\ \A q \in 1 .. Len(hs) :
                      from[a] < q /\ q <= to[a] => q - from[a] \in 1 .. Len(s)
                 /\ \/ cs[a].op = "create" /\ Len(s) <= MaxRoutes
                    \/ /\ cs[a].op = "add" /\ cs[a].name \in Listed
                       /\ Len(Rules(cs[a].name)) + Len(s) <= MaxRoutes
  <2> DEFINE x == from[a]
             m == to[a] - from[a]
             s == Slice(hs, x, m)
  <2>1. x \in Nat /\ to[a] \in Nat /\ x < Len(hs) /\ x < to[a]
    BY <1>2 DEF Pieces, Piece
  <2>2. m \in Nat /\ 0 < m /\ x + m = to[a]
    BY <2>1
  <2>3. /\ \/ /\ m = MaxRoutes
              /\ \E n \in Nat : cs[a] = CreateIngress(n, s)
           \/ \E n \in Listed : cs[a] = PatchAddRules(n, s) /\ m = Room(n)
    BY <1>2 DEF Pieces, Piece
  <2> HIDE DEF x, m
  <2>0. /\ s \in Seq(Hosts)
        /\ Len(s) = IF Len(hs) <= x THEN 0
                    ELSE IF x + m <= Len(hs) THEN m ELSE Len(hs) - x
    BY ONLY <2>1, <2>2, hs \in Seq(Hosts), SliceIs
  <2>4. \A p \in 1 .. Len(s) : x + p \in 1 .. Len(hs) /\ s[p] = hs[x + p]
    BY ONLY <2>1, <2>2, hs \in Seq(Hosts), SliceItems
  <2> HIDE DEF s
  <2>5. Len(s) \in Nat /\ DOMAIN s = 1 .. Len(s)
    BY <2>0, LenProperties
  <2>6. 0 < Len(s) /\ Len(s) <= m
    <3> DEFINE k == Len(s)
               l == Len(hs)
    <3>1. k = IF x + m <= l THEN m ELSE l - x
      BY ONLY <1>3, <2>1, <2>0 DEF x
    <3>2. l \in Nat /\ x < l
      BY <1>3, <2>1 DEF x
    <3> HIDE DEF k, l
    <3>3. 0 < k /\ k <= m
      BY ONLY <2>1, <2>2, <3>1, <3>2
    <3>4. QED
      BY <3>3 DEF k
  <2>7. \A p \in 1 .. Len(s) : x + p <= to[a]
    BY <2>1, <2>2, <2>5, <2>6
  <2>8. \A q \in 1 .. Len(hs) : x < q /\ q <= to[a] => q - x \in 1 .. Len(s)
    <3> DEFINE k == Len(s)
               l == Len(hs)
    <3>1. k = IF x + m <= l THEN m ELSE l - x
      BY ONLY <1>3, <2>1, <2>0 DEF x
    <3>2. l \in Nat /\ x < l
      BY <1>3, <2>1 DEF x
    <3> HIDE DEF k, l
    <3>3. \A q \in 1 .. l : x < q /\ q <= to[a] => q - x \in 1 .. k
      BY ONLY <2>1, <2>2, <3>1, <3>2
    <3>4. QED
      BY <3>3 DEF k, l
  <2>9. CASE m = MaxRoutes /\ \E n \in Nat : cs[a] = CreateIngress(n, s)
    <3>1. cs[a].op = "create" /\ cs[a].rules = s /\ cs[a].tls = TLSOf(s)
      BY <2>0, <2>9, CreateIngressType
    <3>2. QED
      BY <2>0, <2>4, <2>5, <2>6, <2>7, <2>8, <2>9, <3>1 DEF s, x, m
  <2>10. CASE \E n \in Listed : cs[a] = PatchAddRules(n, s) /\ m = Room(n)
    <3>1. PICK n \in Listed : cs[a] = PatchAddRules(n, s) /\ m = Room(n)
      BY <2>10
    <3>2. n \in Nat /\ Len(Rules(n)) \in Nat /\ Len(Rules(n)) + m <= MaxRoutes
      BY <2>2, <3>1, ListedRules, RoomIs
    <3>3. /\ cs[a].op = "add" /\ cs[a].name = n
          /\ cs[a].rules = s /\ cs[a].tls = TLSOf(s)
      BY <2>0, <3>1, <3>2, PatchAddRulesType
    <3>4. Len(Rules(n)) + Len(s) <= MaxRoutes
      BY <1>3, <2>2, <2>5, <2>6, <3>2
    <3>5. QED
      BY <2>0, <2>4, <2>5, <2>6, <2>7, <2>8, <3>3, <3>4 DEF s, x, m
  <2>11. QED
    BY <2>3, <2>9, <2>10
<1>5. ASSUME NEW a \in DOMAIN cs
      PROVE  ToSet(cs[a].rules) \subseteq ToSet(hs)
  <2> DEFINE s == Slice(hs, from[a], to[a] - from[a])
  <2>1. /\ cs[a].rules = s /\ DOMAIN s = 1 .. Len(s)
        /\ \A p \in 1 .. Len(s) : /\ from[a] + p \in 1 .. Len(hs)
                                  /\ s[p] = hs[from[a] + p]
    BY <1>4
  <2> HIDE DEF s
  <2>2. QED
    BY <1>3, <2>1 DEF ToSet
<1>6. ASSUME NEW h \in ToSet(hs)
      PROVE  \E a \in DOMAIN cs : h \in ToSet(cs[a].rules)
  <2>1. PICK q \in 1 .. Len(hs) : hs[q] = h
    BY <1>3, <1>6 DEF ToSet
  <2>2. PICK a \in DOMAIN cs : from[a] < q /\ q <= to[a]
    BY <1>2, <2>1 DEF Pieces
  <2> DEFINE s == Slice(hs, from[a], to[a] - from[a])
             p == q - from[a]
  <2>3. /\ cs[a].rules = s /\ DOMAIN s = 1 .. Len(s) /\ p \in 1 .. Len(s)
        /\ \A i \in 1 .. Len(s) : s[i] = hs[from[a] + i]
    BY <1>4, <2>2
  <2>4. from[a] + p = q
    BY <1>2, <1>3
  <2> HIDE DEF s, p
  <2>5. s[p] = h
    BY <2>1, <2>3, <2>4
  <2>6. QED
    BY <2>3, <2>5 DEF ToSet
<1>7. ASSUME IsInjective(hs), NEW a \in DOMAIN cs, NEW b \in DOMAIN cs,
             NEW p \in DOMAIN cs[a].rules, NEW q \in DOMAIN cs[b].rules,
             cs[a].rules[p] = cs[b].rules[q]
      PROVE  a = b /\ p = q
  <2>1. /\ p \in Nat /\ 0 < p
        /\ from[a] + p \in 1 .. Len(hs) /\ from[a] + p <= to[a]
        /\ cs[a].rules[p] = hs[from[a] + p]
    <3> DEFINE s == Slice(hs, from[a], to[a] - from[a])
    <3>1. /\ cs[a].rules = s /\ DOMAIN s = 1 .. Len(s) /\ Len(s) \in Nat
          /\ \A i \in 1 .. Len(s) : /\ from[a] + i \in 1 .. Len(hs)
                                    /\ from[a] + i <= to[a]
                                    /\ s[i] = hs[from[a] + i]
      BY <1>4
    <3> HIDE DEF s
    <3>2. QED
      BY <3>1
  <2>2. /\ q \in Nat /\ 0 < q
        /\ from[b] + q \in 1 .. Len(hs) /\ from[b] + q <= to[b]
        /\ cs[b].rules[q] = hs[from[b] + q]
    <3> DEFINE s == Slice(hs, from[b], to[b] - from[b])
    <3>1. /\ cs[b].rules = s /\ DOMAIN s = 1 .. Len(s) /\ Len(s) \in Nat
          /\ \A i \in 1 .. Len(s) : /\ from[b] + i \in 1 .. Len(hs)
                                    /\ from[b] + i <= to[b]
                                    /\ s[i] = hs[from[b] + i]
      BY <1>4
    <3> HIDE DEF s
    <3>2. QED
      BY <3>1
  <2>3. from[a] + p = from[b] + q
    BY <1>3, <1>7, <2>1, <2>2 DEF IsInjective
  <2>4. from[a] \in Nat /\ from[b] \in Nat /\ to[a] \in Nat /\ to[b] \in Nat
    BY <1>2
  <2>5. a = b
    <3>1. a = b \/ to[a] <= from[b] \/ to[b] <= from[a]
      BY <1>2 DEF Pieces
    <3>2. QED
      BY <2>1, <2>2, <2>3, <2>4, <3>1
  <2>6. QED
    BY <2>1, <2>2, <2>3, <2>4, <2>5
<1>8. ASSUME NEW a \in DOMAIN cs
      PROVE  /\ cs[a].tls = TLSOf(cs[a].rules)
             /\ 0 < Len(cs[a].rules)
             /\ \/ cs[a].op = "create" /\ Len(cs[a].rules) <= MaxRoutes
                \/ /\ cs[a].op = "add" /\ cs[a].name \in Listed
                   /\ Len(Rules(cs[a].name)) + Len(cs[a].rules) <= MaxRoutes
  BY <1>4
<1>9. QED
  <2>1. \A a, b \in DOMAIN cs :
          cs[a].op = "add" /\ cs[b].op = "add" /\ cs[a].name = cs[b].name => a = b
    BY <1>2 DEF Pieces
  <2>2. \A a \in DOMAIN cs : Carries(cs[a], hs)
    BY <1>5, <1>8 DEF Carries
  <2>3. QED
    BY <1>1, <1>6, <1>7, <2>1, <2>2

-----------------------------------------------------------------------------
(* What the steps do. *)

\* An update has its rule.
Updates == \A w \in Writers : \A i \in DOMAIN calls[w] :
             calls[w][i].op = "update" => calls[w][i].rules # <<>>

\* A writer without an operation makes no call.
Quiet == \A w \in Writers : job[w] = Idle => calls[w] = <<>>

TypeInv == TypeOK /\ Updates /\ Quiet

\* A call that is the next of an operation, and takes effect.
Makes(w, c) == /\ calls[w] # <<>> /\ c = Head(calls[w])
               /\ Accepts(c) /\ ingresses' = After(c)

\* A plan that an operation starts with.
Plan(add, remove, batch, cs) ==
  \/ \E h \in Hosts : /\ cs = ProvisionCalls(h)
                      /\ add = {h} /\ remove = {} /\ ~batch
  \/ \E id \in Ids : /\ cs = DeprovisionCalls(id)
                     /\ add = {} /\ remove = {id} /\ ~batch
  \/ \E hs \in Seq(Hosts), o \in PackingOrders :
       /\ cs = BatchProvisionCalls(hs, o)
       /\ ToSet(hs) \cap Served = {} /\ (SharedHosts \/ IsInjective(hs))
       /\ add = ToSet(hs) /\ remove = {} /\ batch
  \/ \E ids \in SUBSET Ids :
       /\ cs = BatchDeprovisionCalls(ids)
       /\ add = {} /\ remove = ids /\ batch

LEMMA HeadIs ==
  ASSUME TypeInv, NEW w \in Writers, calls[w] # <<>>
  PROVE  /\ calls[w] \in Seq(Call) /\ 1 \in DOMAIN calls[w]
         /\ Head(calls[w]) = calls[w][1] /\ Head(calls[w]) \in Call
         /\ Head(calls[w]).op = "update" => Head(calls[w]).rules # <<>>
         /\ Tail(calls[w]) \in Seq(Call) /\ Len(Tail(calls[w])) = Len(calls[w]) - 1
         /\ DOMAIN Tail(calls[w]) = 1 .. Len(calls[w]) - 1
         /\ DOMAIN calls[w] = 1 .. Len(calls[w]) /\ Len(calls[w]) \in Nat
         /\ \A i \in DOMAIN Tail(calls[w]) :
              i + 1 \in DOMAIN calls[w] /\ Tail(calls[w])[i] = calls[w][i + 1]
<1> DEFINE s == calls[w]
<1>1. s \in Seq(Call)
  BY DEF TypeInv, TypeOK
<1>2. \A i \in DOMAIN s : s[i].op = "update" => s[i].rules # <<>>
  BY DEF TypeInv, Updates
<1> HIDE DEF s
<1>3. s # <<>>
  BY DEF s
<1>4. Len(s) \in Nat \ {0} /\ DOMAIN s = 1 .. Len(s)
  BY <1>1, <1>3, EmptySeq, LenProperties
<1>5. /\ Head(s) = s[1] /\ Head(s) \in Call
      /\ Tail(s) \in Seq(Call) /\ Len(Tail(s)) = Len(s) - 1
      /\ DOMAIN Tail(s) = 1 .. Len(s) - 1
      /\ \A i \in 1 .. Len(s) - 1 : Tail(s)[i] = s[i + 1]
  BY <1>1, <1>3, <1>4
<1>6. 1 \in DOMAIN s /\ \A i \in 1 .. Len(s) - 1 : i + 1 \in DOMAIN s
  BY <1>4
<1>7. QED
  BY <1>1, <1>2, <1>4, <1>5, <1>6 DEF s

\* Every step is one of five.
LEMMA StepKinds ==
  ASSUME TypeInv, [Next]_vars
  PROVE  \/ UNCHANGED vars
         \/ \E w \in Writers, add \in SUBSET Hosts, remove \in SUBSET Ids,
               batch \in BOOLEAN : \E cs :
              Start(w, add, remove, batch, cs) /\ Plan(add, remove, batch, cs)
         \/ \E w \in Writers : Serve(w) /\ Makes(w, Head(calls[w]))
         \/ \E w \in Writers :
              /\ calls[w] # <<>> /\ Fail(w)
              /\ faults' \in 0 .. MaxFaults
              /\ UNCHANGED ingresses \/ Makes(w, Head(calls[w]))
         \/ \E w \in Writers : Return(w)
<1> SUFFICES ASSUME Next PROVE
         \/ \E w \in Writers, add \in SUBSET Hosts, remove \in SUBSET Ids,
               batch \in BOOLEAN : \E cs :
              Start(w, add, remove, batch, cs) /\ Plan(add, remove, batch, cs)
         \/ \E w \in Writers : Serve(w) /\ Makes(w, Head(calls[w]))
         \/ \E w \in Writers :
              /\ calls[w] # <<>> /\ Fail(w)
              /\ faults' \in 0 .. MaxFaults
              /\ UNCHANGED ingresses \/ Makes(w, Head(calls[w]))
         \/ \E w \in Writers : Return(w)
  OBVIOUS
<1>1. PICK w \in Writers :
        \/ \E h \in Hosts : Provision(w, h)
        \/ \E id \in Ids : Deprovision(w, id)
        \/ \E hs \in BoundedSeq(Hosts, MaxBatch) \ {<<>>} : BatchProvision(w, hs)
        \/ \E ids \in SUBSET Ids \ {{}} : BatchDeprovision(w, ids)
        \/ Serve(w) \/ Refuse(w) \/ Fault(w) \/ Return(w)
  BY DEF Next
<1>2. ASSUME NEW h \in Hosts, Provision(w, h)
      PROVE  \E add \in SUBSET Hosts, remove \in SUBSET Ids, batch \in BOOLEAN : \E cs :
               Start(w, add, remove, batch, cs) /\ Plan(add, remove, batch, cs)
  <2>1. Start(w, {h}, {}, FALSE, ProvisionCalls(h))
    BY <1>2 DEF Provision
  <2>2. Plan({h}, {}, FALSE, ProvisionCalls(h))
    BY DEF Plan
  <2>3. {h} \in SUBSET Hosts /\ {} \in SUBSET Ids /\ FALSE \in BOOLEAN
    OBVIOUS
  <2>4. QED
    BY <2>1, <2>2, <2>3
<1>3. ASSUME NEW id \in Ids, Deprovision(w, id)
      PROVE  \E add \in SUBSET Hosts, remove \in SUBSET Ids, batch \in BOOLEAN : \E cs :
               Start(w, add, remove, batch, cs) /\ Plan(add, remove, batch, cs)
  <2>1. Start(w, {}, {id}, FALSE, DeprovisionCalls(id))
    BY <1>3 DEF Deprovision
  <2>2. Plan({}, {id}, FALSE, DeprovisionCalls(id))
    BY DEF Plan
  <2>3. {} \in SUBSET Hosts /\ {id} \in SUBSET Ids /\ FALSE \in BOOLEAN
    OBVIOUS
  <2>4. QED
    BY <2>1, <2>2, <2>3
<1>4. ASSUME NEW hs \in BoundedSeq(Hosts, MaxBatch), BatchProvision(w, hs)
      PROVE  \E add \in SUBSET Hosts, remove \in SUBSET Ids, batch \in BOOLEAN : \E cs :
               Start(w, add, remove, batch, cs) /\ Plan(add, remove, batch, cs)
  <2>1. hs \in Seq(Hosts)
    <3>1. PICK m \in 0 .. MaxBatch : hs \in [1 .. m -> Hosts]
      BY DEF BoundedSeq, SeqOf
    <3>2. m \in Nat
      BY IngressAssumption
    <3>3. QED
      BY <3>1, <3>2
  <2>2. PICK o \in PackingOrders :
          Start(w, ToSet(hs), {}, TRUE, BatchProvisionCalls(hs, o))
    BY <1>4 DEF BatchProvision
  <2>3. ToSet(hs) \cap Served = {} /\ (SharedHosts \/ IsInjective(hs))
    BY <1>4 DEF BatchProvision
  <2>4. Plan(ToSet(hs), {}, TRUE, BatchProvisionCalls(hs, o))
    BY <2>1, <2>3 DEF Plan
  <2>5. ToSet(hs) \in SUBSET Hosts /\ {} \in SUBSET Ids /\ TRUE \in BOOLEAN
    <3>1. \A i \in DOMAIN hs : hs[i] \in Hosts
      BY <2>1
    <3>2. QED
      BY <3>1 DEF ToSet
  <2>6. QED
    BY <2>2, <2>4, <2>5
<1>5. ASSUME NEW ids \in SUBSET Ids, BatchDeprovision(w, ids)
      PROVE  \E add \in SUBSET Hosts, remove \in SUBSET Ids, batch \in BOOLEAN : \E cs :
               Start(w, add, remove, batch, cs) /\ Plan(add, remove, batch, cs)
  <2>1. Start(w, {}, ids, TRUE, BatchDeprovisionCalls(ids))
    BY <1>5 DEF BatchDeprovision
  <2>2. Plan({}, ids, TRUE, BatchDeprovisionCalls(ids))
    BY DEF Plan
  <2>3. {} \in SUBSET Hosts /\ TRUE \in BOOLEAN
    OBVIOUS
  <2>4. QED
    BY <2>1, <2>2, <2>3
<1>6. ASSUME Serve(w) PROVE Serve(w) /\ Makes(w, Head(calls[w]))
  BY <1>6 DEF Serve, Makes
<1>7. ASSUME Refuse(w) \/ Fault(w)
      PROVE  /\ calls[w] # <<>> /\ Fail(w)
             /\ faults' \in 0 .. MaxFaults
             /\ UNCHANGED ingresses \/ Makes(w, Head(calls[w]))
  <2>1. faults \in 0 .. MaxFaults /\ MaxFaults \in Nat
    BY IngressAssumption DEF TypeInv, TypeOK
  <2>2. CASE Refuse(w)
    BY <2>1, <2>2 DEF Refuse
  <2>3. CASE Fault(w)
    <3>1. faults' \in 0 .. MaxFaults
      BY <2>1, <2>3 DEF Fault
    <3>2. QED
      BY <2>3, <3>1 DEF Fault, Makes
  <2>4. QED
    BY <1>7, <2>2, <2>3
<1>8. QED
  BY <1>1, <1>2, <1>3, <1>4, <1>5, <1>6, <1>7

\* What a call that takes effect does to the Ingresses.
\* A call is for one Ingress and leaves the others alone.
LEMMA CallElsewhere ==
  ASSUME TypeInv, NEW w \in Writers, NEW c, Makes(w, c)
  PROVE  \A n \in Indices : n # c.name => ingresses'[n] = ingresses[n]
<1> DEFINE ing == ingresses[c.name]
<1>1. /\ ingresses \in [Indices -> Ingress \cup {NoIngress}]
      /\ ingresses' = [ingresses EXCEPT ![c.name] =
           IF c.op = "delete" THEN NoIngress ELSE Patched(ing, c)]
  BY DEF TypeInv, TypeOK, Makes, After
<1> HIDE DEF ing
<1>2. QED
  BY <1>1

LEMMA CallEffect ==
  ASSUME TypeInv, NEW w \in Writers, NEW c, Makes(w, c)
  PROVE  /\ c \in Call /\ c.name \in Indices
         /\ \A n \in Indices : n # c.name => ingresses'[n] = ingresses[n]
         /\ ingresses' \in [Indices -> Ingress \cup {NoIngress}]
         /\ c.op = "create" => c.name \notin Listed
         /\ c.op \in {"add", "remove", "update", "replace"} => c.name \in Listed
         /\ c.op = "delete" => ingresses'[c.name] = NoIngress
         /\ c.op # "delete" => ingresses'[c.name] # NoIngress
         /\ c.op \in {"create", "replace"} =>
              ingresses'[c.name] = [rules |-> c.rules, tls |-> c.tls]
         /\ c.op = "add" =>
              ingresses'[c.name] = [rules |-> Rules(c.name) \o c.rules,
                                    tls |-> ingresses[c.name].tls \o c.tls]
         /\ c.op = "remove" =>
              /\ c.rule \in DOMAIN Rules(c.name) /\ Len(Rules(c.name)) > 1
              /\ c.entry \in {0} \cup DOMAIN ingresses[c.name].tls
              /\ ingresses'[c.name] =
                   [rules |-> RemoveAt(Rules(c.name), c.rule),
                    tls |-> IF c.entry = 0 THEN ingresses[c.name].tls
                            ELSE RemoveAt(ingresses[c.name].tls, c.entry)]
         /\ c.op = "update" =>
              /\ c.rule \in DOMAIN Rules(c.name) /\ c.rules # <<>>
              /\ c.tls # <<>> => IF c.entry = 0 THEN ingresses[c.name].tls # <<>>
                                 ELSE c.entry \in DOMAIN ingresses[c.name].tls
              /\ ingresses'[c.name] =
                   [rules |-> ReplaceAt(Rules(c.name), c.rule, c.rules[1]),
                    tls |-> IF c.tls = <<>> THEN ingresses[c.name].tls
                            ELSE IF c.entry = 0
                              THEN ingresses[c.name].tls \o c.tls
                            ELSE ReplaceAt(ingresses[c.name].tls, c.entry,
                                           c.tls[1])]
<1> DEFINE n == c.name
           ing == ingresses[n]
<1>1. c \in Call /\ (c.op = "update" => c.rules # <<>>)
  BY HeadIs DEF Makes
<1>2. /\ n \in Indices /\ c.rules \in Seq(Hosts) /\ c.tls \in Seq(Hosts)
      /\ c.rule \in Nat /\ c.entry \in Nat /\ c.op \in Ops
  BY <1>1 DEF Call
<1>3. /\ ingresses \in [Indices -> Ingress \cup {NoIngress}]
      /\ ingresses' = [ingresses EXCEPT ![n] =
           IF c.op = "delete" THEN NoIngress ELSE Patched(ing, c)]
  BY DEF TypeInv, TypeOK, Makes, After
<1>4. /\ \A m \in Indices : m # n => ingresses'[m] = ingresses[m]
      /\ ingresses'[n] = IF c.op = "delete" THEN NoIngress ELSE Patched(ing, c)
  BY <1>2, <1>3
<1>5. Accepts(c)
  BY DEF Makes
<1>6. n \in Listed <=> ing # NoIngress
  BY <1>2 DEF Listed
<1>7. ASSUME Patched(ing, c) \in Ingress
      PROVE  /\ ingresses' \in [Indices -> Ingress \cup {NoIngress}]
             /\ c.op # "delete" => ingresses'[n] # NoIngress
  BY <1>2, <1>3, <1>4, <1>7, IngressAssumption
<1>8. ASSUME n \in Listed
      PROVE  /\ ing \in Ingress /\ ing = [rules |-> Rules(n), tls |-> ing.tls]
             /\ Rules(n) \in Seq(Hosts) /\ ing.tls \in Seq(Hosts)
             /\ ing.rules = Rules(n)
             /\ DOMAIN Rules(n) = 1 .. Len(Rules(n))
             /\ DOMAIN ing.tls = 1 .. Len(ing.tls)
  BY <1>8, ListedRules DEF Rules, TypeInv
<1> HIDE DEF ing
<1>9. CASE c.op = "delete"
  BY <1>1, <1>2, <1>3, <1>4, <1>9
<1>10. CASE c.op = "create"
  <2>1. ing = NoIngress
    BY <1>5, <1>10 DEF Accepts, ing
  <2>2. Patched(ing, c) = [rules |-> c.rules, tls |-> c.tls]
    BY <1>10 DEF Patched
  <2>3. Patched(ing, c) \in Ingress
    BY <1>2, <2>2 DEF Ingress
  <2>4. QED
    BY <1>1, <1>2, <1>4, <1>6, <1>7, <1>10, <2>1, <2>2, <2>3
<1>11. CASE c.op = "replace"
  <2>1. n \in Listed
    BY <1>5, <1>6, <1>11 DEF Accepts, ing
  <2>2. Patched(ing, c) = [rules |-> c.rules, tls |-> c.tls]
    BY <1>11 DEF Patched
  <2>3. Patched(ing, c) \in Ingress
    BY <1>2, <2>2 DEF Ingress
  <2>4. QED
    BY <1>1, <1>2, <1>4, <1>7, <1>11, <2>1, <2>2, <2>3
<1>12. CASE c.op = "add"
  <2>1. n \in Listed
    BY <1>5, <1>6, <1>12 DEF Accepts, ing
  <2>2. Patched(ing, c) = [rules |-> Rules(n) \o c.rules, tls |-> ing.tls \o c.tls]
    BY <1>8, <1>12, <2>1 DEF Patched
  <2>3. Rules(n) \o c.rules \in Seq(Hosts) /\ ing.tls \o c.tls \in Seq(Hosts)
    BY <1>2, <1>8, <2>1
  <2>4. Patched(ing, c) \in Ingress
    BY <2>2, <2>3 DEF Ingress
  <2>5. QED
    BY <1>1, <1>2, <1>4, <1>7, <1>12, <2>1, <2>2, <2>4 DEF ing
<1>13. CASE c.op = "remove"
  <2>1. n \in Listed /\ PatchApplies(ing, c)
    BY <1>5, <1>6, <1>13 DEF Accepts, ing
  <2>2. /\ c.rule \in DOMAIN Rules(n) /\ Len(Rules(n)) > 1
        /\ c.entry \in {0} \cup DOMAIN ing.tls
    BY <1>8, <1>13, <2>1 DEF PatchApplies
  <2> DEFINE r == RemoveAt(Rules(n), c.rule)
             t == IF c.entry = 0 THEN ing.tls ELSE RemoveAt(ing.tls, c.entry)
  <2>3. Patched(ing, c) = [rules |-> r, tls |-> t]
    BY <1>8, <1>13, <2>1 DEF Patched
  <2>4. r \in Seq(Hosts)
    BY <1>8, <2>1, <2>2, Removed
  <2>5. t \in Seq(Hosts)
    <3>1. CASE c.entry = 0
      BY <1>8, <2>1, <3>1
    <3>2. CASE c.entry # 0
      <4>1. c.entry \in 1 .. Len(ing.tls)
        BY <1>8, <2>1, <2>2, <3>2
      <4>2. RemoveAt(ing.tls, c.entry) \in Seq(Hosts)
        BY <1>8, <2>1, <4>1, Removed
      <4>3. QED
        BY <3>2, <4>2
    <3>3. QED
      BY <3>1, <3>2
  <2> HIDE DEF r, t
  <2>6. Patched(ing, c) \in Ingress
    BY <2>3, <2>4, <2>5 DEF Ingress
  <2>7. QED
    BY <1>1, <1>2, <1>4, <1>7, <1>13, <2>1, <2>2, <2>3, <2>6 DEF ing, r, t
<1>14. CASE c.op = "update"
  <2>1. n \in Listed /\ PatchApplies(ing, c)
    BY <1>5, <1>6, <1>14 DEF Accepts, ing
  <2>2. /\ c.rule \in DOMAIN Rules(n)
        /\ c.tls # <<>> => IF c.entry = 0 THEN ing.tls # <<>>
                           ELSE c.entry \in DOMAIN ing.tls
    BY <1>8, <1>14, <2>1 DEF PatchApplies
  <2> DEFINE r == ReplaceAt(Rules(n), c.rule, c.rules[1])
             t == IF c.tls = <<>> THEN ing.tls
                  ELSE IF c.entry = 0 THEN ing.tls \o c.tls
                  ELSE ReplaceAt(ing.tls, c.entry, c.tls[1])
  <2>3. Patched(ing, c) = [rules |-> r, tls |-> t]
    BY <1>8, <1>14, <2>1 DEF Patched
  <2>4. r \in Seq(Hosts)
    <3>1. c.rules[1] \in Hosts
      BY <1>1, <1>2, <1>14, EmptySeq, ElementOfSeq
    <3>2. c.rule \in 1 .. Len(Rules(n))
      BY <1>8, <2>1, <2>2
    <3>3. QED
      BY <1>8, <2>1, <3>1, <3>2, ExceptSeq DEF ReplaceAt
  <2>5. t \in Seq(Hosts)
    <3>1. CASE c.tls = <<>>
      BY <1>8, <2>1, <3>1
    <3>2. CASE c.tls # <<>> /\ c.entry = 0
      <4>1. ing.tls \o c.tls \in Seq(Hosts)
        BY <1>2, <1>8, <2>1
      <4>2. QED
        BY <3>2, <4>1
    <3>3. CASE c.tls # <<>> /\ c.entry # 0
      <4>1. c.tls[1] \in Hosts
        BY <1>2, <3>3, EmptySeq, ElementOfSeq
      <4>2. c.entry \in 1 .. Len(ing.tls)
        BY <1>8, <2>1, <2>2, <3>3
      <4>3. ReplaceAt(ing.tls, c.entry, c.tls[1]) \in Seq(Hosts)
        BY <1>8, <2>1, <4>1, <4>2, ExceptSeq DEF ReplaceAt
      <4>4. QED
        BY <3>3, <4>3
    <3>4. QED
      BY <3>1, <3>2, <3>3
  <2> HIDE DEF r, t
  <2>6. Patched(ing, c) \in Ingress
    BY <2>3, <2>4, <2>5 DEF Ingress
  <2>7. QED
    BY <1>1, <1>2, <1>4, <1>7, <1>14, <2>1, <2>2, <2>3, <2>6 DEF ing, r, t
<1>15. QED
  BY <1>2, <1>9, <1>10, <1>11, <1>12, <1>13, <1>14 DEF Ops

LEMMA UpdateRuleType ==
  ASSUME TypeOK, NEW n \in Listed, NEW j \in DOMAIN Rules(n), NEW h \in Hosts
  PROVE  /\ UpdateRule(n, j, h) \in AnyCall
         /\ UpdateRule(n, j, h).op = "update" /\ UpdateRule(n, j, h).name = n
         /\ UpdateRule(n, j, h).rule = j
         /\ UpdateRule(n, j, h).rules = <<h>>
         /\ UpdateRule(n, j, h).tls = TLSOf(<<h>>)
         /\ UpdateRule(n, j, h).entry = EntryIndex(n, j)
<1> DEFINE hs == <<h>>
<1>1. hs \in Seq(Hosts) /\ "update" \in Ops
  BY DEF Ops
<1> HIDE DEF hs
<1>2. /\ EditRule("update", n, j, hs) \in AnyCall
      /\ EditRule("update", n, j, hs).op = "update"
      /\ EditRule("update", n, j, hs).name = n
      /\ EditRule("update", n, j, hs).rule = j
      /\ EditRule("update", n, j, hs).rules = hs
      /\ EditRule("update", n, j, hs).tls = TLSOf(hs)
      /\ EditRule("update", n, j, hs).entry = EntryIndex(n, j)
  BY <1>1, EditRuleType
<1>3. UpdateRule(n, j, h) = EditRule("update", n, j, hs)
  BY DEF UpdateRule, hs
<1>4. QED
  BY <1>2, <1>3 DEF hs

LEMMA PatchRemoveRuleType ==
  ASSUME TypeOK, NEW n \in Listed, NEW j \in DOMAIN Rules(n)
  PROVE  /\ PatchRemoveRule(n, j) \in AnyCall
         /\ PatchRemoveRule(n, j).op = "remove" /\ PatchRemoveRule(n, j).name = n
         /\ PatchRemoveRule(n, j).rule = j
         /\ PatchRemoveRule(n, j).entry = EntryIndex(n, j)
<1> DEFINE hs == <<>>
<1>1. hs \in Seq(Hosts) /\ "remove" \in Ops
  BY DEF Ops
<1> HIDE DEF hs
<1>2. /\ EditRule("remove", n, j, hs) \in AnyCall
      /\ EditRule("remove", n, j, hs).op = "remove"
      /\ EditRule("remove", n, j, hs).name = n
      /\ EditRule("remove", n, j, hs).rule = j
      /\ EditRule("remove", n, j, hs).entry = EntryIndex(n, j)
  BY <1>1, EditRuleType
<1>3. PatchRemoveRule(n, j) = EditRule("remove", n, j, hs)
  BY DEF PatchRemoveRule, hs
<1>4. QED
  BY <1>2, <1>3

LEMMA PlanType ==
  ASSUME TypeOK, NEW add, NEW remove, NEW batch, NEW cs,
         Plan(add, remove, batch, cs)
  PROVE  /\ cs \in Seq(AnyCall)
         /\ \A i \in DOMAIN cs : cs[i].op = "update" => cs[i].rules # <<>>
<1>1. ASSUME NEW h \in Hosts, cs = ProvisionCalls(h)
      PROVE  /\ cs \in Seq(AnyCall)
             /\ \A i \in DOMAIN cs : cs[i].op = "update" => cs[i].rules # <<>>
  <2>1. PICK c \in AnyCall :
           /\ cs = <<c>>
           /\ \/ \E n \in Listed : \E j \in DOMAIN Rules(n) :
                   IdOf[Rules(n)[j]] = IdOf[h] /\ c = UpdateRule(n, j, h)
              \/ \E n \in WithCapacity : c = PatchAddRules(n, <<h>>)
              \/ c = CreateIngress(Cardinality(Listed), <<h>>)
    BY <1>1, ProvisionPlan
  <2>2. <<h>> \in Seq(Hosts) /\ <<h>> # <<>>
    OBVIOUS
  <2>3. WithCapacity \subseteq Nat
    BY ListedFinite DEF WithCapacity
  <2>4. c.rules = <<h>>
    <3>1. ASSUME NEW n \in Listed, NEW j \in DOMAIN Rules(n), c = UpdateRule(n, j, h)
          PROVE  c.rules = <<h>>
      BY <3>1, UpdateRuleType
    <3>2. CASE \E n \in WithCapacity : c = PatchAddRules(n, <<h>>)
      <4>1. PICK n \in WithCapacity : c = PatchAddRules(n, <<h>>)
        BY <3>2
      <4>2. PatchAddRules(n, <<h>>).rules = <<h>>
        BY <2>2, <2>3, PatchAddRulesType
      <4>3. QED
        BY <4>1, <4>2
    <3>3. CASE c = CreateIngress(Cardinality(Listed), <<h>>)
      BY <2>2, <3>3, CreateIngressType, ListedFinite
    <3>4. QED
      BY <2>1, <3>1, <3>2, <3>3
  <2>5. DOMAIN cs = {1} /\ cs[1] = c /\ cs \in Seq(AnyCall)
    BY <2>1
  <2>6. QED
    BY <2>2, <2>4, <2>5
<1>2. ASSUME NEW id, cs = DeprovisionCalls(id)
      PROVE  /\ cs \in Seq(AnyCall)
             /\ \A i \in DOMAIN cs : cs[i].op = "update" => cs[i].rules # <<>>
  <2>1. CASE cs = <<>>
    BY <2>1
  <2>2. ASSUME NEW c \in AnyCall, cs = <<c>>,
               NEW n \in Listed, NEW j \in DOMAIN Rules(n),
               c = IF Len(Rules(n)) = 1 THEN DeleteIngress(n)
                   ELSE PatchRemoveRule(n, j)
        PROVE  /\ cs \in Seq(AnyCall)
               /\ \A i \in DOMAIN cs : cs[i].op = "update" => cs[i].rules # <<>>
    <3>1. c.op # "update"
      BY <2>2, DeleteIngressType, PatchRemoveRuleType, ListedFinite
    <3>2. DOMAIN cs = {1} /\ cs[1] = c /\ cs \in Seq(AnyCall)
      BY <2>2
    <3>3. QED
      BY <3>1, <3>2
  <2>3. QED
    BY <1>2, <2>1, <2>2, DeprovisionPlan
<1>3. ASSUME NEW hs \in Seq(Hosts), NEW o \in PackingOrders,
             cs = BatchProvisionCalls(hs, o)
      PROVE  /\ cs \in Seq(AnyCall)
             /\ \A i \in DOMAIN cs : cs[i].op = "update" => cs[i].rules # <<>>
  <2>1. cs \in Seq(AnyCall)
    BY <1>3, BatchProvisionPlan
  <2>2. \A i \in DOMAIN cs : 0 < Len(cs[i].rules)
    BY <1>3, BatchProvisionPlan DEF Carries
  <2>3. \A i \in DOMAIN cs : cs[i].rules # <<>>
    BY <2>2, EmptySeq
  <2>4. QED
    BY <2>1, <2>3
<1>4. ASSUME NEW ids \in SUBSET Ids, cs = BatchDeprovisionCalls(ids)
      PROVE  /\ cs \in Seq(AnyCall)
             /\ \A i \in DOMAIN cs : cs[i].op = "update" => cs[i].rules # <<>>
  <2>1. cs \in Seq(AnyCall)
    BY <1>4, BatchDeprovisionPlan
  <2>2. ASSUME NEW i \in DOMAIN cs PROVE cs[i].op # "update"
    <3> DEFINE n == cs[i].name
               k == PatchReplaceSpec(n, ids)
    <3>1. n \in Listed /\ cs[i] = IF k.rules = <<>> THEN DeleteIngress(n) ELSE k
      BY <1>4, BatchDeprovisionPlan
    <3> HIDE DEF n, k
    <3>2. n \in Nat /\ k.op = "replace"
      BY <3>1, ReplaceSpecType, ListedFinite DEF k
    <3>3. QED
      BY <3>1, <3>2, DeleteIngressType
  <2>3. QED
    BY <2>1, <2>2
<1>5. QED
  BY <1>1, <1>2, <1>3, <1>4 DEF Plan

\* The calls of an operation have names within the bound.
LEMMA StartCalls ==
  ASSUME TypeOK, NEW w \in Writers, NEW add, NEW remove, NEW batch, NEW cs,
         Start(w, add, remove, batch, cs), Plan(add, remove, batch, cs)
  PROVE  cs \in Seq(Call)
<1>1. cs \in Seq(AnyCall) /\ DOMAIN cs = 1 .. Len(cs) /\ Len(cs) \in Nat
  BY PlanType, LenProperties
<1>2. ASSUME NEW i \in 1 .. Len(cs) PROVE cs[i] \in Call
  <2>1. cs[i] \in AnyCall
    BY <1>1
  <2>2. cs[i].name \in Indices
    BY <1>1 DEF Start
  <2>3. QED
    BY <2>1, <2>2 DEF AnyCall, Call
<1>3. cs \in [1 .. Len(cs) -> Call]
  <2>1. cs \in [1 .. Len(cs) -> AnyCall]
    BY <1>1, LenProperties
  <2>2. QED
    BY <1>2, <2>1
<1>4. QED
  BY <1>1, <1>3

LEMMA TypeStep ==
  ASSUME TypeInv, [Next]_vars
  PROVE  TypeInv'
<1>1. TypeOK /\ Updates /\ Quiet
  BY DEF TypeInv
<1>2. CASE UNCHANGED vars
  BY <1>1, <1>2 DEF vars, TypeInv, TypeOK, Updates, Quiet
<1>3. ASSUME NEW w \in Writers, NEW add \in SUBSET Hosts, NEW remove \in SUBSET Ids,
             NEW batch \in BOOLEAN, NEW cs,
             Start(w, add, remove, batch, cs), Plan(add, remove, batch, cs)
      PROVE  TypeInv'
  <2>1. cs \in Seq(Call) /\ \A i \in DOMAIN cs : cs[i].op = "update" => cs[i].rules # <<>>
    BY <1>1, <1>3, StartCalls, PlanType
  <2>2. [add |-> add, remove |-> remove, batch |-> batch, ok |-> TRUE] \in Job
    BY DEF Job
  <2>3. TypeOK'
    BY <1>1, <1>3, <2>1, <2>2 DEF Start, TypeOK
  <2>4. Updates'
    BY <1>1, <1>3, <2>1 DEF Start, Updates, TypeOK
  <2>5. Quiet'
    <3>1. job'[w] # Idle
      BY <1>1, <1>3, <2>2, IngressAssumption DEF Start, TypeOK
    <3>2. \A v \in Writers \ {w} : job'[v] = job[v] /\ calls'[v] = calls[v]
      BY <1>1, <1>3 DEF Start, TypeOK
    <3>3. QED
      BY <1>1, <3>1, <3>2 DEF Quiet
  <2>6. QED
    BY <2>3, <2>4, <2>5 DEF TypeInv
<1>4. ASSUME NEW w \in Writers, Serve(w), Makes(w, Head(calls[w])) PROVE TypeInv'
  <2>1. ingresses' \in [Indices -> Ingress \cup {NoIngress}]
    BY <1>4, CallEffect
  <2>2. calls[w] # <<>>
    BY <1>4 DEF Makes
  <2>3. /\ Tail(calls[w]) \in Seq(Call)
        /\ \A i \in DOMAIN Tail(calls[w]) :
             i + 1 \in DOMAIN calls[w] /\ Tail(calls[w])[i] = calls[w][i + 1]
    BY <2>2, HeadIs
  <2>4. TypeOK'
    BY <1>1, <1>4, <2>1, <2>3 DEF Serve, TypeOK
  <2>5. Updates'
    BY <1>1, <1>4, <2>3 DEF Serve, Updates, TypeOK
  <2>6. Quiet'
    BY <1>1, <1>4, <2>2 DEF Serve, Quiet, TypeOK
  <2>7. QED
    BY <2>4, <2>5, <2>6 DEF TypeInv
<1>5. ASSUME NEW w \in Writers, calls[w] # <<>>, Fail(w), faults' \in 0 .. MaxFaults,
             UNCHANGED ingresses \/ Makes(w, Head(calls[w]))
      PROVE  TypeInv'
  <2>1. ingresses' \in [Indices -> Ingress \cup {NoIngress}]
    BY <1>1, <1>5, CallEffect DEF TypeOK
  <2>2. job' \in [Writers -> Job \cup {Idle}]
    <3>1. job[w] \in Job \/ job[w] = Idle
      BY <1>1 DEF TypeOK
    <3>2. job[w] \in Job
      BY <1>1, <1>5, <3>1 DEF Quiet
    <3>3. job' = [job EXCEPT ![w] = [job[w] EXCEPT !.ok = FALSE]]
      BY <1>5 DEF Fail
    <3>4. [job[w] EXCEPT !.ok = FALSE] \in Job
      BY <3>2 DEF Job
    <3>5. QED
      BY <1>1, <3>3, <3>4 DEF TypeOK
  <2>3. calls' \in [Writers -> Seq(Call)]
    BY <1>1, <1>5 DEF Fail, TypeOK
  <2>4. Updates'
    BY <1>1, <1>5 DEF Fail, Updates, TypeOK
  <2>5. Quiet'
    <3>1. calls'[w] = <<>>
      BY <1>1, <1>5 DEF Fail, TypeOK
    <3>2. \A v \in Writers \ {w} : job'[v] = job[v] /\ calls'[v] = calls[v]
      BY <1>1, <1>5 DEF Fail, TypeOK
    <3>3. QED
      BY <1>1, <3>1, <3>2 DEF Quiet
  <2>6. QED
    BY <1>5, <2>1, <2>2, <2>3, <2>4, <2>5 DEF TypeInv, TypeOK
<1>6. ASSUME NEW w \in Writers, Return(w) PROVE TypeInv'
  BY <1>1, <1>6 DEF Return, TypeInv, TypeOK, Updates, Quiet
<1>7. QED
  BY <1>2, <1>3, <1>4, <1>5, <1>6, StepKinds

LEMMA TypeInit ==
  ASSUME Init
  PROVE  TypeInv
<1>1. MaxFaults \in Nat
  BY IngressAssumption
<1>2. TypeOK
  BY <1>1 DEF Init, TypeOK
<1>3. Updates
  BY DEF Init, Updates
<1>4. Quiet
  BY DEF Init, Quiet
<1>5. QED
  BY <1>2, <1>3, <1>4 DEF TypeInv

\* The variables of the provisioner are well-typed, whatever the routes, the
\* capacity and the writers: the calls that an operation plans are calls, and
\* what the server makes of the Ingresses are Ingresses.
THEOREM IngressTypes == Spec => []TypeOK
<1>1. Init => TypeInv
  BY TypeInit
<1>2. TypeInv /\ [Next]_vars => TypeInv'
  BY TypeStep
<1>3. TypeInv => TypeOK
  BY DEF TypeInv
<1>4. QED
  BY <1>1, <1>2, <1>3, PTL DEF Spec

-----------------------------------------------------------------------------
(* Rules and TLS entries. *)

IdsDiffer == \A g, h \in Hosts : IdOf[g] = IdOf[h] => g = h

Matched(rules, tls) ==
  \A h \in Hosts : Times(tls, h) = IF h \in TLSHosts THEN Times(rules, h) ELSE 0

LEMMA MatchedTLSOf ==
  ASSUME NEW hs \in Seq(Hosts)
  PROVE  Matched(hs, TLSOf(hs))
BY TimesAmong DEF Matched, TLSOf

LEMMA MatchedConcat ==
  ASSUME NEW r \in Seq(Hosts), NEW t \in Seq(Hosts), NEW s \in Seq(Hosts),
         NEW u \in Seq(Hosts), Matched(r, t), Matched(s, u)
  PROVE  Matched(r \o s, t \o u)
<1> SUFFICES ASSUME NEW h \in Hosts
             PROVE  Times(t \o u, h) = IF h \in TLSHosts THEN Times(r \o s, h) ELSE 0
  BY DEF Matched
<1>1. /\ Times(t, h) = IF h \in TLSHosts THEN Times(r, h) ELSE 0
      /\ Times(u, h) = IF h \in TLSHosts THEN Times(s, h) ELSE 0
  BY DEF Matched
<1>2. Times(t \o u, h) = Times(t, h) + Times(u, h)
  BY TimesConcat
<1>3. Times(r \o s, h) = Times(r, h) + Times(s, h)
  BY TimesConcat
<1>4. QED
  BY <1>1, <1>2, <1>3

LEMMA MatchedAmong ==
  ASSUME NEW r \in Seq(Hosts), NEW t \in Seq(Hosts), Matched(r, t), NEW S
  PROVE  Matched(Among(r, S), Among(t, S))
<1> SUFFICES ASSUME NEW h \in Hosts
             PROVE  Times(Among(t, S), h) =
                      IF h \in TLSHosts THEN Times(Among(r, S), h) ELSE 0
  BY DEF Matched
<1>1. Times(t, h) = IF h \in TLSHosts THEN Times(r, h) ELSE 0
  BY DEF Matched
<1>2. Times(Among(t, S), h) = IF h \in S THEN Times(t, h) ELSE 0
  BY TimesAmong
<1>3. Times(Among(r, S), h) = IF h \in S THEN Times(r, h) ELSE 0
  BY TimesAmong
<1>4. QED
  BY <1>1, <1>2, <1>3

\* c is of the Ingress as it is.
Current(c) ==
  /\ c.name \in Listed
  /\ c.rule \in DOMAIN Rules(c.name) /\ c.entry = EntryIndex(c.name, c.rule)
  /\ c.op = "update" => /\ c.rules = <<Rules(c.name)[c.rule]>>
                        /\ c.tls = TLSOf(c.rules)

\* Whole rules come with their TLS entries; an edit by index is the only call
\* of an operation that works alone.
Sound(c, batch, n) ==
  /\ c.op \in {"create", "add", "replace"} => Matched(c.rules, c.tls)
  /\ c.op \in {"remove", "update"} => ~batch /\ n = 1 /\ Current(c)

AllSound == \A w \in Writers : \A i \in DOMAIN calls[w] :
              Sound(calls[w][i], job[w].batch, Len(calls[w]))

Alone == \A v, w \in Writers :
           job[w] # Idle /\ ~job[w].batch /\ job[v] # Idle => v = w

TLSInv == TypeInv /\ TLSMatchesRules /\ AllSound /\ Alone

LEMMA MatchesIs ==
  TLSMatchesRules <=> \A n \in Listed : Matched(Rules(n), ingresses[n].tls)
BY DEF TLSMatchesRules, Matched

LEMMA PlanSound ==
  ASSUME TypeOK, TLSMatchesRules, IdsDiffer,
         NEW add, NEW remove, NEW batch, NEW cs, Plan(add, remove, batch, cs)
  PROVE  \A i \in DOMAIN cs : Sound(cs[i], batch, Len(cs))
<1>1. ASSUME NEW h \in Hosts, cs = ProvisionCalls(h), ~batch,
             NEW i \in DOMAIN cs
      PROVE  Sound(cs[i], batch, Len(cs))
  <2>1. PICK c \in AnyCall :
           /\ cs = <<c>>
           /\ \/ \E n \in Listed : \E j \in DOMAIN Rules(n) :
                   IdOf[Rules(n)[j]] = IdOf[h] /\ c = UpdateRule(n, j, h)
              \/ \E n \in WithCapacity : c = PatchAddRules(n, <<h>>)
              \/ c = CreateIngress(Cardinality(Listed), <<h>>)
    BY <1>1, ProvisionPlan
  <2>2. cs[i] = c /\ Len(cs) = 1
    BY <1>1, <2>1
  <2>3. <<h>> \in Seq(Hosts)
    OBVIOUS
  <2>4. ASSUME NEW n \in Listed, NEW j \in DOMAIN Rules(n),
               IdOf[Rules(n)[j]] = IdOf[h], c = UpdateRule(n, j, h)
        PROVE  Sound(c, batch, 1)
    <3>1. /\ c.op = "update" /\ c.name = n /\ c.rule = j /\ c.rules = <<h>>
          /\ c.tls = TLSOf(<<h>>) /\ c.entry = EntryIndex(n, j)
      BY <2>4, UpdateRuleType
    <3>2. Rules(n)[j] \in Hosts
      BY RuleIsHost
    <3>3. Rules(n)[j] = h
      BY <2>4, <3>2 DEF IdsDiffer
    <3>4. Current(c)
      BY <3>1, <3>3 DEF Current
    <3>5. QED
      BY <1>1, <3>1, <3>4 DEF Sound
  <2>5. ASSUME NEW n \in WithCapacity, c = PatchAddRules(n, <<h>>)
        PROVE  Sound(c, batch, 1)
    <3>1. n \in Nat
      BY ListedFinite DEF WithCapacity
    <3>2. c.op = "add" /\ c.rules = <<h>> /\ c.tls = TLSOf(<<h>>)
      BY <2>3, <2>5, <3>1, PatchAddRulesType
    <3>3. QED
      BY <2>3, <3>2, MatchedTLSOf DEF Sound
  <2>6. CASE c = CreateIngress(Cardinality(Listed), <<h>>)
    <3>1. c.op = "create" /\ c.rules = <<h>> /\ c.tls = TLSOf(<<h>>)
      BY <2>3, <2>6, CreateIngressType, ListedFinite
    <3>2. Matched(c.rules, c.tls)
      BY <2>3, <3>1, MatchedTLSOf
    <3>3. c.op # "remove" /\ c.op # "update"
      BY <3>1
    <3>4. Sound(c, batch, 1)
      BY <3>2, <3>3 DEF Sound
    <3>5. QED
      BY <2>2, <3>4
  <2>7. QED
    BY <2>1, <2>2, <2>4, <2>5, <2>6
<1>2. ASSUME NEW id, cs = DeprovisionCalls(id), ~batch, NEW i \in DOMAIN cs
      PROVE  Sound(cs[i], batch, Len(cs))
  <2>1. cs # <<>>
    BY <1>2
  <2>2. PICK c \in AnyCall :
              /\ cs = <<c>>
              /\ \E n \in Listed : \E j \in DOMAIN Rules(n) :
                   /\ IdOf[Rules(n)[j]] = id
                   /\ c = IF Len(Rules(n)) = 1 THEN DeleteIngress(n)
                          ELSE PatchRemoveRule(n, j)
    BY <1>2, <2>1, DeprovisionPlan
  <2>3. PICK n \in Listed : \E j \in DOMAIN Rules(n) :
                   c = IF Len(Rules(n)) = 1 THEN DeleteIngress(n)
                       ELSE PatchRemoveRule(n, j)
    BY <2>2
  <2>4. PICK j \in DOMAIN Rules(n) :
                   c = IF Len(Rules(n)) = 1 THEN DeleteIngress(n)
                       ELSE PatchRemoveRule(n, j)
    BY <2>3
  <2>5. cs[i] = c /\ Len(cs) = 1
    BY <1>2, <2>2
  <2>6. CASE c = DeleteIngress(n)
    <3>1. c.op = "delete"
      BY <2>6, DeleteIngressType, ListedFinite
    <3>2. QED
      BY <2>5, <3>1 DEF Sound
  <2>7. CASE c = PatchRemoveRule(n, j)
    <3>1. c.op = "remove" /\ c.name = n /\ c.rule = j /\ c.entry = EntryIndex(n, j)
      BY <2>7, PatchRemoveRuleType
    <3>2. Current(c)
      BY <3>1 DEF Current
    <3>3. QED
      BY <1>2, <2>5, <3>1, <3>2 DEF Sound
  <2>8. QED
    BY <2>4, <2>6, <2>7
<1>3. ASSUME NEW hs \in Seq(Hosts), NEW o \in PackingOrders,
             cs = BatchProvisionCalls(hs, o), NEW i \in DOMAIN cs
      PROVE  Sound(cs[i], batch, Len(cs))
  <2>1. cs \in Seq(AnyCall) /\ Carries(cs[i], hs)
    BY <1>3, BatchProvisionPlan
  <2>2. cs \in Seq(AnyCall) /\ cs[i].tls = TLSOf(cs[i].rules)
        /\ (cs[i].op = "create" \/ cs[i].op = "add")
    BY <2>1 DEF Carries
  <2>3. cs[i].rules \in Seq(Hosts)
    <3>1. cs[i] \in AnyCall
      BY <2>2
    <3>2. QED
      BY <3>1 DEF AnyCall
  <2>4. QED
    BY <2>2, <2>3, MatchedTLSOf DEF Sound
<1>4. ASSUME NEW ids \in SUBSET Ids, cs = BatchDeprovisionCalls(ids),
             NEW i \in DOMAIN cs
      PROVE  Sound(cs[i], batch, Len(cs))
  <2> DEFINE n == cs[i].name
             k == PatchReplaceSpec(n, ids)
             kept == {h \in Hosts : IdOf[h] \notin ids}
  <2>1. n \in Listed /\ cs[i] = IF k.rules = <<>> THEN DeleteIngress(n) ELSE k
    BY <1>4, BatchDeprovisionPlan
  <2> HIDE DEF n, k, kept
  <2>2. CASE cs[i] = DeleteIngress(n)
    <3>1. cs[i].op = "delete"
      BY <2>1, <2>2, DeleteIngressType, ListedFinite
    <3>2. QED
      BY <3>1 DEF Sound
  <2>3. CASE cs[i] = k
    <3>1. /\ k.op = "replace" /\ k.rules = Among(Rules(n), kept)
          /\ k.tls = Among(ingresses[n].tls, kept)
      BY <2>1, ReplaceSpecType DEF k, kept
    <3>2. Matched(k.rules, k.tls)
      BY <2>1, <3>1, ListedRules, MatchesIs, MatchedAmong
    <3>3. QED
      BY <2>3, <3>1, <3>2 DEF Sound
  <2>4. QED
    BY <2>1, <2>2, <2>3
<1>5. QED
  BY <1>1, <1>2, <1>3, <1>4 DEF Plan

\* A rule that is removed goes with its TLS entry.
LEMMA RemoveMatched ==
  ASSUME NEW r \in Seq(Hosts), NEW t \in Seq(Hosts), Matched(r, t),
         NEW j \in 1 .. Len(r), NEW e \in {0} \cup 1 .. Len(t),
         e = 0 => r[j] \notin ToSet(t),
         e # 0 => t[e] = r[j]
  PROVE  Matched(RemoveAt(r, j), IF e = 0 THEN t ELSE RemoveAt(t, e))
<1> DEFINE g == r[j]
           u == IF e = 0 THEN t ELSE RemoveAt(t, e)
           q == RemoveAt(r, j)
<1>1. g \in Hosts /\ g \in ToSet(r)
  BY ElementOfSeq, LenProperties DEF ToSet
<1>2. /\ q \in Seq(Hosts)
      /\ \A h : Times(r, h) = Times(q, h) + (IF g = h THEN 1 ELSE 0)
  BY Removed
<1>3. \A h \in Hosts : Times(t, h) = IF h \in TLSHosts THEN Times(r, h) ELSE 0
  BY DEF Matched
<1>4. Times(r, g) # 0
  BY <1>1, TimesZero
<1>5. \A h : Times(r, h) \in Nat /\ Times(t, h) \in Nat
  BY TimesType
<1>6. CASE e = 0
  <2>1. u = t /\ Times(t, g) = 0
    BY <1>6, TimesZero
  <2>2. g \notin TLSHosts
    BY <1>1, <1>3, <1>4, <2>1
  <2>3. \A h \in TLSHosts : h # g
    BY <2>2
  <2>4. \A h \in Hosts : Times(q, h) \in Nat
    BY <1>2, TimesType
  <2> HIDE DEF g, u, q
  <2>5. ASSUME NEW h \in Hosts
        PROVE  Times(u, h) = IF h \in TLSHosts THEN Times(q, h) ELSE 0
    <3>1. CASE h \in TLSHosts
      <4>1. g # h
        BY <2>3, <3>1
      <4>2. Times(r, h) = Times(q, h) + 0
        BY <1>2, <4>1
      <4>3. Times(q, h) \in Nat
        BY <2>4
      <4>4. Times(r, h) = Times(q, h)
        BY <4>2, <4>3
      <4>5. QED
        BY <1>3, <2>1, <3>1, <4>4
    <3>2. CASE h \notin TLSHosts
      BY <1>3, <2>1, <3>2
    <3>3. QED
      BY <3>1, <3>2
  <2>6. Matched(q, u)
    BY <2>5 DEF Matched
  <2>7. QED
    BY <2>6 DEF q, u
<1>7. CASE e # 0
  <2>1. e \in 1 .. Len(t) /\ t[e] = g
    BY <1>7
  <2>2. u = RemoveAt(t, e)
    BY <1>7
  <2>3. \A h : Times(t, h) = Times(u, h) + (IF g = h THEN 1 ELSE 0)
    BY <2>1, <2>2, Removed
  <2>4. u \in Seq(Hosts)
    BY <2>1, <2>2, Removed
  <2>5. g \in ToSet(t)
    BY <2>1, LenProperties DEF ToSet
  <2>6. Times(t, g) # 0
    BY <2>5, TimesZero
  <2>7. g \in TLSHosts
    BY <1>1, <1>3, <2>6
  <2>8. \A h \in Hosts : Times(q, h) \in Nat /\ Times(u, h) \in Nat
    BY <1>2, <2>4, TimesType
  <2> HIDE DEF g, u, q
  <2>9. ASSUME NEW h \in Hosts
        PROVE  Times(u, h) = IF h \in TLSHosts THEN Times(q, h) ELSE 0
    <3>1. Times(q, h) \in Nat /\ Times(u, h) \in Nat
      BY <2>8
    <3>2. CASE g = h
      <4>1. Times(t, h) = Times(u, h) + 1 /\ Times(r, h) = Times(q, h) + 1
        BY <1>2, <2>3, <3>2
      <4>2. Times(t, h) = Times(r, h) /\ h \in TLSHosts
        BY <1>3, <2>7, <3>2
      <4>3. QED
        BY <3>1, <4>1, <4>2
    <3>3. CASE g # h
      <4>1. Times(t, h) = Times(u, h) + 0 /\ Times(r, h) = Times(q, h) + 0
        BY <1>2, <2>3, <3>3
      <4>2. Times(t, h) = Times(u, h) /\ Times(r, h) = Times(q, h)
        BY <3>1, <4>1
      <4>3. QED
        BY <1>3, <4>2
    <3>4. QED
      BY <3>2, <3>3
  <2>10. QED
    BY <2>9 DEF Matched, q, u
<1>8. QED
  BY <1>6, <1>7

\* A single Provision of a host that is served writes what is there.
LEMMA UpdateIsIdentity ==
  ASSUME TypeInv, TLSMatchesRules, NEW w \in Writers, NEW c, Makes(w, c),
         Current(c), c.op = "update"
  PROVE  ingresses'[c.name] = ingresses[c.name]
<1> DEFINE n == c.name
           r == Rules(n)
           t == ingresses[n].tls
           j == c.rule
           e == c.entry
           h == r[j]
<1>1. /\ n \in Listed /\ j \in DOMAIN r /\ e = EntryIndex(n, j)
      /\ c.rules = <<h>> /\ c.tls = TLSOf(<<h>>)
  BY DEF Current
<1>2. TypeOK
  BY DEF TypeInv
<1>3. /\ r \in Seq(Hosts) /\ t \in Seq(Hosts)
      /\ ingresses[n] = [rules |-> r, tls |-> t]
      /\ DOMAIN r = 1 .. Len(r) /\ DOMAIN t = 1 .. Len(t)
  BY <1>1, <1>2, ListedRules
<1>4. h \in Hosts /\ h \in ToSet(r)
  BY <1>1, <1>2, RuleIsHost
<1>5. \/ e = 0 /\ h \notin ToSet(t)
      \/ e \in DOMAIN t /\ t[e] = h
  BY <1>1, <1>2, EntryIndexFinds
<1>6. ingresses'[n] = [rules |-> ReplaceAt(r, j, c.rules[1]),
                       tls |-> IF c.tls = <<>> THEN t
                               ELSE IF e = 0 THEN t \o c.tls
                               ELSE ReplaceAt(t, e, c.tls[1])]
  BY CallEffect
<1>7. Matched(r, t)
  BY <1>1, MatchesIs
<1>8. Times(t, h) = IF h \in TLSHosts THEN Times(r, h) ELSE 0
  BY <1>4, <1>7 DEF Matched
<1> HIDE DEF n, r, t, j, e, h
<1>9. ReplaceAt(r, j, c.rules[1]) = r
  <2>1. c.rules[1] = r[j]
    BY <1>1 DEF h
  <2>2. [r EXCEPT ![j] = r[j]] = r
    BY <1>3
  <2>3. QED
    BY <2>1, <2>2 DEF ReplaceAt
<1>10. c.tls = IF h \in TLSHosts THEN <<h>> ELSE <<>>
  <2>1. <<h>> = Append(<<>>, h) /\ <<>> \in Seq(Hosts) /\ Append(<<>>, h) = <<h>>
    BY <1>4
  <2>2. Among(Append(<<>>, h), TLSHosts) =
          IF h \in TLSHosts THEN Append(Among(<<>>, TLSHosts), h)
          ELSE Among(<<>>, TLSHosts)
    BY <1>4, <2>1, AmongAppend
  <2>3. QED
    BY <1>1, <2>1, <2>2, AmongEmpty DEF TLSOf
<1>11. CASE h \notin TLSHosts
  BY <1>3, <1>6, <1>9, <1>10, <1>11 DEF n, t
<1>12. CASE h \in TLSHosts
  <2>1. Times(t, h) # 0
    BY <1>3, <1>4, <1>8, <1>12, TimesZero
  <2>2. h \in ToSet(t)
    BY <1>3, <2>1, TimesZero
  <2>3. e \in DOMAIN t /\ t[e] = h
    BY <1>5, <2>2
  <2>4. c.tls # <<>> /\ c.tls[1] = t[e] /\ e # 0
    <3>1. c.tls = <<h>>
      BY <1>10, <1>12
    <3>2. <<h>> # <<>> /\ <<h>>[1] = h
      OBVIOUS
    <3>3. 0 \notin DOMAIN t
      BY <1>3
    <3>4. QED
      BY <2>3, <3>1, <3>2, <3>3
  <2>5. [t EXCEPT ![e] = t[e]] = t
    BY <1>3
  <2>6. ReplaceAt(t, e, c.tls[1]) = t
    BY <2>4, <2>5 DEF ReplaceAt
  <2>7. QED
    BY <1>3, <1>6, <1>9, <2>4, <2>6 DEF n
<1>13. QED
  BY <1>11, <1>12

LEMMA MakesMatched ==
  ASSUME TypeInv, TLSMatchesRules, AllSound, NEW w \in Writers,
         Makes(w, Head(calls[w]))
  PROVE  TLSMatchesRules'
<1> DEFINE c == Head(calls[w])
           n == c.name
<1>1. calls[w] # <<>> /\ Makes(w, c)
  BY DEF Makes
<1>2. 1 \in DOMAIN calls[w] /\ c = calls[w][1]
  BY <1>1, HeadIs
<1>3. Sound(c, job[w].batch, Len(calls[w]))
  BY <1>2 DEF AllSound
<1> HIDE DEF c
<1>4. /\ c \in Call /\ n \in Indices
      /\ \A m \in Indices : m # n => ingresses'[m] = ingresses[m]
  BY <1>1, CallEffect
<1>5. ingresses'[n] = NoIngress \/ Matched(ingresses'[n].rules, ingresses'[n].tls)
  <2>1. c.rules \in Seq(Hosts) /\ c.tls \in Seq(Hosts) /\ c.op \in Ops
    BY <1>4 DEF Call
  <2>2. CASE c.op = "delete"
    BY <1>1, <2>2, CallEffect
  <2>3. CASE c.op \in {"create", "replace"}
    <3>1. ingresses'[n] = [rules |-> c.rules, tls |-> c.tls]
      BY <1>1, <2>3, CallEffect
    <3>2. Matched(c.rules, c.tls)
      BY <1>3, <2>3 DEF Sound
    <3>3. QED
      BY <3>1, <3>2
  <2>4. ASSUME c.op \in {"add", "remove", "update"}
        PROVE  /\ n \in Listed /\ Rules(n) \in Seq(Hosts)
               /\ ingresses[n].tls \in Seq(Hosts)
               /\ Matched(Rules(n), ingresses[n].tls)
               /\ ingresses[n].rules = Rules(n)
               /\ DOMAIN Rules(n) = 1 .. Len(Rules(n))
               /\ DOMAIN ingresses[n].tls = 1 .. Len(ingresses[n].tls)
    <3>1. n \in Listed
      BY <1>1, <2>4, CallEffect
    <3>2. QED
      BY <3>1, ListedRules, MatchesIs DEF TypeInv, Rules
  <2>5. CASE c.op = "add"
    <3> DEFINE r == Rules(n) \o c.rules
               t == ingresses[n].tls \o c.tls
    <3>1. ingresses'[n] = [rules |-> r, tls |-> t]
      BY <1>1, <2>5, CallEffect
    <3>2. Matched(c.rules, c.tls)
      BY <1>3, <2>5 DEF Sound
    <3>3. Matched(r, t)
      BY <2>1, <2>4, <2>5, <3>2, MatchedConcat
    <3> HIDE DEF r, t
    <3>4. QED
      BY <3>1, <3>3
  <2>6. CASE c.op = "remove"
    <3>1. Current(c)
      BY <1>3, <2>6 DEF Sound
    <3>2. /\ c.rule \in DOMAIN Rules(n)
          /\ c.entry \in {0} \cup DOMAIN ingresses[n].tls
          /\ ingresses'[n] =
               [rules |-> RemoveAt(Rules(n), c.rule),
                tls |-> IF c.entry = 0 THEN ingresses[n].tls
                        ELSE RemoveAt(ingresses[n].tls, c.entry)]
      BY <1>1, <2>6, CallEffect
    <3>3. /\ c.entry = 0 => Rules(n)[c.rule] \notin ToSet(ingresses[n].tls)
          /\ c.entry # 0 => ingresses[n].tls[c.entry] = Rules(n)[c.rule]
      <4>1. c.entry = EntryIndex(n, c.rule) /\ n \in Listed
        BY <3>1 DEF Current
      <4>2. 0 \notin DOMAIN ingresses[n].tls
        BY <2>4, <2>6
      <4>3. QED
        BY <4>1, <4>2, EntryIndexFinds DEF TypeInv
    <3>4. Matched(RemoveAt(Rules(n), c.rule),
                  IF c.entry = 0 THEN ingresses[n].tls
                  ELSE RemoveAt(ingresses[n].tls, c.entry))
      BY <2>4, <2>6, <3>2, <3>3, RemoveMatched
    <3>5. QED
      BY <3>2, <3>4
  <2>7. CASE c.op = "update"
    <3>1. Current(c)
      BY <1>3, <2>7 DEF Sound
    <3>2. ingresses'[n] = ingresses[n]
      BY <1>1, <2>7, <3>1, UpdateIsIdentity
    <3>3. QED
      BY <2>4, <2>7, <3>2
  <2>8. QED
    BY <2>1, <2>2, <2>3, <2>5, <2>6, <2>7 DEF Ops
<1> HIDE DEF n
<1>6. ASSUME NEW m \in Indices, ingresses'[m] # NoIngress
      PROVE  Matched(ingresses'[m].rules, ingresses'[m].tls)
  <2>1. CASE m = n
    BY <1>5, <1>6, <2>1
  <2>2. CASE m # n
    <3>1. ingresses'[m] = ingresses[m] /\ m \in Listed
      BY <1>4, <1>6, <2>2 DEF Listed
    <3>2. QED
      BY <3>1, MatchesIs DEF Rules
  <2>3. QED
    BY <2>1, <2>2
<1>7. QED
  BY <1>6 DEF TLSMatchesRules, Matched, Listed, Rules

\* Calls that are sound stay so while another call takes effect.
LEMMA SoundStays ==
  ASSUME TypeInv, AllSound, Alone, NEW w \in Writers, calls[w] # <<>>,
         calls'[w] = Tail(calls[w]) \/ calls'[w] = <<>>,
         job'[w].batch = job[w].batch,
         \A v \in Writers \ {w} : job'[v] = job[v] /\ calls'[v] = calls[v]
  PROVE  AllSound'
<1> SUFFICES ASSUME NEW v \in Writers, NEW i \in DOMAIN calls'[v]
             PROVE  Sound(calls[v][i], job[v].batch, Len(calls[v]))'
  BY DEF AllSound
<1>1. CASE v # w
  <2>1. /\ job'[v] = job[v] /\ calls'[v] = calls[v] /\ i \in DOMAIN calls[v]
        /\ Sound(calls[v][i], job[v].batch, Len(calls[v]))
    BY <1>1 DEF AllSound
  <2>2. job[v] # Idle /\ job[w] # Idle
    <3>1. calls[v] # <<>>
      BY <2>1
    <3>2. QED
      BY <3>1 DEF TypeInv, Quiet
  <2>3. job[v].batch
    BY <1>1, <2>2 DEF Alone
  <2>4. QED
    BY <2>1, <2>3 DEF Sound
<1>2. CASE v = w
  <2>1. calls'[w] = Tail(calls[w])
    BY <1>2
  <2>2. /\ i + 1 \in DOMAIN calls[w] /\ Tail(calls[w])[i] = calls[w][i + 1]
        /\ DOMAIN calls[w] = 1 .. Len(calls[w]) /\ Len(calls[w]) \in Nat
        /\ DOMAIN Tail(calls[w]) = 1 .. Len(calls[w]) - 1
    BY <1>2, <2>1, HeadIs
  <2>3. Len(calls[w]) # 1
    BY <1>2, <2>1, <2>2
  <2>4. Sound(calls[w][i + 1], job[w].batch, Len(calls[w]))
    BY <2>2 DEF AllSound
  <2>5. QED
    BY <1>2, <2>1, <2>2, <2>3, <2>4 DEF Sound
<1>3. QED
  BY <1>1, <1>2

LEMMA EntryStays ==
  ASSUME UNCHANGED ingresses
  PROVE  \A n, j : EntryIndex(n, j)' = EntryIndex(n, j)
BY DEF EntryIndex, SelectInSeq, Rules

\* A call depends on the state through the Ingresses alone.
LEMMA SoundAsBefore ==
  ASSUME UNCHANGED ingresses,
         \A v \in Writers : \A i \in DOMAIN calls'[v] :
           Sound(calls'[v][i], job'[v].batch, Len(calls'[v]))
  PROVE  AllSound'
<1>1. \A n, j : EntryIndex(n, j)' = EntryIndex(n, j)
  BY EntryStays
<1>2. QED
  BY <1>1 DEF AllSound, Sound, Current, Listed, Rules

LEMMA TLSStep ==
  ASSUME TLSInv, IdsDiffer, [Next]_vars
  PROVE  TLSInv'
<1>1. TypeInv /\ TypeOK /\ TLSMatchesRules /\ AllSound /\ Alone
  BY DEF TLSInv, TypeInv
<1>2. TypeInv'
  BY <1>1, TypeStep
<1>3. ASSUME UNCHANGED ingresses PROVE TLSMatchesRules'
  BY <1>1, <1>3 DEF TLSMatchesRules, Listed, Rules
<1>4. CASE UNCHANGED vars
  <2>1. ingresses' = ingresses /\ job' = job /\ calls' = calls
    BY <1>4 DEF vars
  <2>2. \A v \in Writers : \A i \in DOMAIN calls'[v] :
          Sound(calls'[v][i], job'[v].batch, Len(calls'[v]))
    BY <1>1, <2>1 DEF AllSound
  <2>3. AllSound'
    BY <2>1, <2>2, SoundAsBefore
  <2>4. Alone'
    BY <1>1, <2>1 DEF Alone
  <2>5. QED
    BY <1>2, <1>3, <2>1, <2>3, <2>4 DEF TLSInv
<1>5. ASSUME NEW w \in Writers, NEW add \in SUBSET Hosts, NEW remove \in SUBSET Ids,
             NEW batch \in BOOLEAN, NEW cs,
             Start(w, add, remove, batch, cs), Plan(add, remove, batch, cs)
      PROVE  TLSInv'
  <2>1. /\ job[w] = Idle
        /\ \A v \in Writers : job[v] # Idle => batch /\ job[v].batch
        /\ ingresses' = ingresses
        /\ job' = [job EXCEPT ![w] = [add |-> add, remove |-> remove,
                                      batch |-> batch, ok |-> TRUE]]
        /\ calls' = [calls EXCEPT ![w] = cs]
    BY <1>5 DEF Start
  <2>2. /\ job'[w].batch = batch /\ calls'[w] = cs
        /\ \A v \in Writers \ {w} : job'[v] = job[v] /\ calls'[v] = calls[v]
    BY <1>1, <2>1 DEF TypeOK
  <2>3. \A i \in DOMAIN cs : Sound(cs[i], batch, Len(cs))
    BY <1>1, <1>5, PlanSound
  <2>4. \A v \in Writers : \A i \in DOMAIN calls'[v] :
          Sound(calls'[v][i], job'[v].batch, Len(calls'[v]))
    BY <1>1, <2>2, <2>3 DEF AllSound
  <2>5. AllSound'
    BY <2>1, <2>4, SoundAsBefore
  <2>6. Alone'
    BY <1>1, <2>1, <2>2 DEF Alone
  <2>7. QED
    BY <1>2, <1>3, <2>1, <2>5, <2>6 DEF TLSInv
<1>6. ASSUME NEW w \in Writers, Serve(w), Makes(w, Head(calls[w])) PROVE TLSInv'
  <2>1. TLSMatchesRules'
    BY <1>1, <1>6, MakesMatched
  <2>2. /\ calls[w] # <<>> /\ calls'[w] = Tail(calls[w]) /\ job' = job
        /\ \A v \in Writers \ {w} : calls'[v] = calls[v]
    BY <1>1, <1>6 DEF Serve, TypeOK
  <2>3. AllSound'
    BY <1>1, <2>2, SoundStays
  <2>4. Alone'
    BY <1>1, <2>2 DEF Alone
  <2>5. QED
    BY <1>2, <2>1, <2>3, <2>4 DEF TLSInv
<1>7. ASSUME NEW w \in Writers, calls[w] # <<>>, Fail(w),
             UNCHANGED ingresses \/ Makes(w, Head(calls[w]))
      PROVE  TLSInv'
  <2>1. TLSMatchesRules'
    BY <1>1, <1>3, <1>7, MakesMatched
  <2>2. /\ calls'[w] = <<>>
        /\ \A v \in Writers \ {w} : job'[v] = job[v] /\ calls'[v] = calls[v]
    BY <1>1, <1>7 DEF Fail, TypeOK
  <2>3. job[w] \in Job
    BY <1>1, <1>7 DEF TypeInv, TypeOK, Quiet
  <2>4. job[w] # Idle /\ job'[w].batch = job[w].batch
    <3>1. job'[w] = [job[w] EXCEPT !.ok = FALSE]
      BY <1>1, <1>7 DEF Fail, TypeOK
    <3>2. [job[w] EXCEPT !.ok = FALSE].batch = job[w].batch
      BY <2>3 DEF Job
    <3>3. job[w] # Idle
      BY <2>3, IngressAssumption
    <3>4. QED
      BY <3>1, <3>2, <3>3
  <2>5. AllSound'
    BY <1>1, <1>7, <2>2, <2>4, SoundStays
  <2>6. Alone'
    BY <1>1, <2>2, <2>4 DEF Alone
  <2>7. QED
    BY <1>2, <2>1, <2>5, <2>6 DEF TLSInv
<1>8. ASSUME NEW w \in Writers, Return(w) PROVE TLSInv'
  <2>1. /\ ingresses' = ingresses /\ calls' = calls /\ calls[w] = <<>>
        /\ job'[w] = Idle /\ \A v \in Writers \ {w} : job'[v] = job[v]
    BY <1>1, <1>8 DEF Return, TypeOK
  <2>2. \A v \in Writers : \A i \in DOMAIN calls'[v] :
          Sound(calls'[v][i], job'[v].batch, Len(calls'[v]))
    BY <1>1, <2>1 DEF AllSound
  <2>3. AllSound'
    BY <2>1, <2>2, SoundAsBefore
  <2>4. Alone'
    BY <1>1, <2>1 DEF Alone
  <2>5. QED
    BY <1>2, <1>3, <2>1, <2>3, <2>4 DEF TLSInv
<1>9. QED
  BY <1>1, <1>4, <1>5, <1>6, <1>7, <1>8, StepKinds

\* Rules and TLS entries stay in step, whatever the capacity and the writers,
\* through calls that are refused or that fail, and through cycles that
\* overlap, as long as no two hosts have the same id: an index into the rules
\* and one into the TLS entries, which a single operation works out from its
\* listing, still name the same host when its call arrives, and whole rules
\* come with their entries.
THEOREM TLSInStep ==
  ASSUME IdsDiffer
  PROVE  Spec => []TLSMatchesRules
<1>1. Init => TLSInv
  <2>1. ASSUME Init PROVE TLSInv
    <3>1. Listed = {}
      BY <2>1 DEF Init, Listed
    <3>2. TLSMatchesRules
      BY <3>1 DEF TLSMatchesRules
    <3>3. AllSound /\ Alone
      BY <2>1 DEF Init, AllSound, Alone
    <3>4. QED
      BY <2>1, <3>2, <3>3, TypeInit DEF TLSInv
  <2>2. QED
    BY <2>1
<1>2. TLSInv /\ [Next]_vars => TLSInv'
  BY TLSStep
<1>3. TLSInv => TLSMatchesRules
  BY DEF TLSInv
<1>4. QED
  BY <1>1, <1>2, <1>3, PTL DEF Spec

-----------------------------------------------------------------------------
(* Capacity. *)

\* What the orchestrator's mutex makes sure of while it does not elect.
OneWriter == \A v, w \in Writers : v = w

\* An operation writes an Ingress that exists once at most.
Apart(cs) ==
  \A i, j \in DOMAIN cs :
    cs[i].op # "create" /\ cs[j].op # "create" /\ cs[i].name = cs[j].name => i = j

Fits(c) ==
  /\ c.op # "create" => c.name \in Listed
  /\ c.op \in {"create", "replace"} => Len(c.rules) \in 1 .. MaxRoutes
  /\ c.op = "add" => Len(Rules(c.name)) + Len(c.rules) <= MaxRoutes

AllFit(cs) == Apart(cs) /\ \A i \in DOMAIN cs : Fits(cs[i])

CapInv == TypeInv /\ WithinCapacity /\ \A w \in Writers : AllFit(calls[w])

LEMMA ListedLength ==
  ASSUME TypeOK, WithinCapacity, NEW n \in Listed
  PROVE  Len(Rules(n)) \in Nat /\ 1 <= Len(Rules(n)) /\ Len(Rules(n)) <= MaxRoutes
<1>1. Len(Rules(n)) \in 1 .. MaxRoutes
  BY DEF WithinCapacity
<1>2. Len(Rules(n)) \in Nat
  BY ListedRules
<1>3. MaxRoutes \in Nat
  BY IngressAssumption
<1>4. QED
  BY <1>1, <1>2, <1>3

LEMMA PlanFits ==
  ASSUME TypeOK, WithinCapacity,
         NEW add, NEW remove, NEW batch, NEW cs, Plan(add, remove, batch, cs)
  PROVE  AllFit(cs)
<1> USE DEF AllFit
<1>1. MaxRoutes \in Nat /\ 1 <= MaxRoutes
  BY IngressAssumption
<1>2. ASSUME NEW c, cs = <<c>>, Fits(c) PROVE AllFit(cs)
  <2>1. DOMAIN cs = {1} /\ cs[1] = c
    BY <1>2
  <2>2. QED
    BY <1>2, <2>1 DEF Apart
<1>3. ASSUME NEW h \in Hosts, cs = ProvisionCalls(h) PROVE AllFit(cs)
  <2>1. PICK c \in AnyCall :
           /\ cs = <<c>>
           /\ \/ \E n \in Listed : \E j \in DOMAIN Rules(n) : c = UpdateRule(n, j, h)
              \/ \E n \in WithCapacity : c = PatchAddRules(n, <<h>>)
              \/ c = CreateIngress(Cardinality(Listed), <<h>>)
    BY <1>3, ProvisionPlan
  <2>2. <<h>> \in Seq(Hosts) /\ Len(<<h>>) = 1
    OBVIOUS
  <2>3. ASSUME NEW n \in Listed, NEW j \in DOMAIN Rules(n), c = UpdateRule(n, j, h)
        PROVE  Fits(c)
    <3>1. c.op = "update" /\ c.name = n
      BY <2>3, UpdateRuleType
    <3>2. QED
      BY <3>1 DEF Fits
  <2>4. ASSUME NEW n \in WithCapacity, c = PatchAddRules(n, <<h>>)
        PROVE  Fits(c)
    <3>1. n \in Listed /\ Len(Rules(n)) < MaxRoutes
      BY DEF WithCapacity
    <3>2. c.op = "add" /\ c.name = n /\ Len(c.rules) = 1
      BY <2>2, <2>4, <3>1, ListedFinite, PatchAddRulesType
    <3>3. Len(Rules(n)) + Len(c.rules) <= MaxRoutes
      BY <1>1, <3>1, <3>2, ListedLength
    <3>4. QED
      BY <3>1, <3>2, <3>3 DEF Fits
  <2>5. CASE c = CreateIngress(Cardinality(Listed), <<h>>)
    <3>1. c.op = "create" /\ Len(c.rules) = 1
      BY <2>2, <2>5, CreateIngressType, ListedFinite
    <3>2. Fits(c)
      BY <1>1, <3>1 DEF Fits
    <3>3. QED
      BY <1>2, <2>1, <3>2
  <2>6. QED
    BY <1>2, <2>1, <2>3, <2>4, <2>5
<1>4. ASSUME NEW id, cs = DeprovisionCalls(id) PROVE AllFit(cs)
  <2>1. CASE cs = <<>>
    BY <2>1 DEF Apart
  <2>2. ASSUME NEW c \in AnyCall, cs = <<c>>,
               NEW n \in Listed, NEW j \in DOMAIN Rules(n),
               c = IF Len(Rules(n)) = 1 THEN DeleteIngress(n)
                   ELSE PatchRemoveRule(n, j)
        PROVE  AllFit(cs)
    <3>1. c.op \in {"delete", "remove"} /\ c.name = n
      BY <2>2, DeleteIngressType, PatchRemoveRuleType, ListedFinite
    <3>2. Fits(c)
      BY <3>1 DEF Fits
    <3>3. QED
      BY <1>2, <2>2, <3>2
  <2>3. QED
    BY <1>4, <2>1, <2>2, DeprovisionPlan
<1>5. ASSUME NEW hs \in Seq(Hosts), NEW o \in PackingOrders,
             cs = BatchProvisionCalls(hs, o)
      PROVE  AllFit(cs)
  <2>1. /\ \A i \in DOMAIN cs : Carries(cs[i], hs) /\ cs[i] \in AnyCall
        /\ \A i, j \in DOMAIN cs :
             cs[i].op = "add" /\ cs[j].op = "add" /\ cs[i].name = cs[j].name
               => i = j
    BY <1>5, BatchProvisionPlan
  <2>2. ASSUME NEW i \in DOMAIN cs
        PROVE  Fits(cs[i]) /\ (cs[i].op = "create" \/ cs[i].op = "add")
    <3> DEFINE c == cs[i]
    <3>1. Carries(c, hs) /\ c.rules \in Seq(Hosts)
      BY <2>1 DEF AnyCall
    <3> HIDE DEF c
    <3>2. Len(c.rules) \in Nat /\ 0 < Len(c.rules)
      BY <3>1 DEF Carries
    <3>3. CASE c.op = "create" /\ Len(c.rules) <= MaxRoutes
      <4>1. Fits(c)
        BY <1>1, <3>2, <3>3 DEF Fits
      <4>2. QED
        BY <3>3, <4>1 DEF c
    <3>4. CASE /\ c.op = "add" /\ c.name \in Listed
               /\ Len(Rules(c.name)) + Len(c.rules) <= MaxRoutes
      <4>1. Fits(c)
        BY <3>4 DEF Fits
      <4>2. QED
        BY <3>4, <4>1 DEF c
    <3>5. QED
      BY <3>1, <3>3, <3>4 DEF Carries
  <2>3. QED
    BY <2>1, <2>2 DEF Apart
<1>6. ASSUME NEW ids \in SUBSET Ids, cs = BatchDeprovisionCalls(ids) PROVE AllFit(cs)
  <2>1. \A i, j \in DOMAIN cs : cs[i].name = cs[j].name => i = j
    BY <1>6, BatchDeprovisionPlan
  <2>2. ASSUME NEW i \in DOMAIN cs PROVE Fits(cs[i])
    <3> DEFINE n == cs[i].name
               k == PatchReplaceSpec(n, ids)
               kept == {h \in Hosts : IdOf[h] \notin ids}
    <3>1. n \in Listed /\ cs[i] = IF k.rules = <<>> THEN DeleteIngress(n) ELSE k
      BY <1>6, BatchDeprovisionPlan
    <3> HIDE DEF n, k, kept
    <3>2. CASE k.rules = <<>>
      <4>1. cs[i].op = "delete" /\ cs[i].name = n
        BY <3>1, <3>2, DeleteIngressType, ListedFinite
      <4>2. QED
        BY <3>1, <4>1 DEF Fits
    <3>3. CASE k.rules # <<>>
      <4>1. /\ cs[i] = k /\ k.op = "replace" /\ k.name = n
            /\ k.rules = Among(Rules(n), kept)
        BY <3>1, <3>3, ReplaceSpecType DEF k, kept
      <4>2. k.rules \in Seq(Hosts) /\ Len(k.rules) <= Len(Rules(n))
        <5>1. Rules(n) \in Seq(Hosts)
          BY <3>1, ListedRules
        <5>2. QED
          BY <4>1, <5>1, AmongType, AmongLength
      <4>3. Len(k.rules) \in Nat /\ Len(k.rules) # 0
        BY <3>3, <4>2, EmptySeq
      <4>4. Len(k.rules) \in 1 .. MaxRoutes
        BY <1>1, <3>1, <4>2, <4>3, ListedLength
      <4>5. Fits(k)
        BY <3>1, <4>1, <4>4 DEF Fits
      <4>6. QED
        BY <4>1, <4>5
    <3>4. QED
      BY <3>2, <3>3
  <2>3. QED
    BY <2>1, <2>2 DEF Apart
<1>7. QED
  BY <1>3, <1>4, <1>5, <1>6 DEF Plan

\* The calls still to make are for other Ingresses than the one that is made.
LEMMA RestElsewhere ==
  ASSUME CapInv, NEW w \in Writers, Makes(w, Head(calls[w])),
         NEW i \in DOMAIN Tail(calls[w]), Tail(calls[w])[i].op # "create"
  PROVE  /\ Tail(calls[w])[i].name # Head(calls[w]).name
         /\ Tail(calls[w])[i].name \in Listed /\ Tail(calls[w])[i].name \in Listed'
         /\ ingresses'[Tail(calls[w])[i].name] = ingresses[Tail(calls[w])[i].name]
<1> DEFINE c == Head(calls[w])
           d == Tail(calls[w])[i]
<1>1. calls[w] # <<>> /\ TypeInv /\ AllFit(calls[w])
  BY DEF Makes, CapInv
<1>2. /\ 1 \in DOMAIN calls[w] /\ c = calls[w][1]
      /\ i + 1 \in DOMAIN calls[w] /\ d = calls[w][i + 1]
      /\ i \in 1 .. Len(calls[w]) - 1 /\ Len(calls[w]) \in Nat
  BY <1>1, HeadIs
<1>3. i + 1 # 1
  BY <1>2
<1>4. d.name \in Listed
  BY <1>1, <1>2 DEF AllFit, Fits
<1>5. c.op = "create" => c.name \notin Listed
  BY <1>1, CallEffect
<1>6. \A n \in Indices : n # c.name => ingresses'[n] = ingresses[n]
  <2>1. Makes(w, c) /\ TypeInv
    BY <1>1
  <2> HIDE DEF c
  <2>2. QED
    BY ONLY w \in Writers, <2>1, CallElsewhere
<1>7. d.name # c.name
  <2>1. CASE c.op = "create"
    BY <1>4, <1>5, <2>1
  <2>2. CASE c.op # "create"
    BY <1>1, <1>2, <1>3, <2>2 DEF AllFit, Apart
  <2>3. QED
    BY <2>1, <2>2
<1> HIDE DEF c, d
<1>8. d.name \in Listed' /\ ingresses'[d.name] = ingresses[d.name]
  BY <1>4, <1>6, <1>7 DEF Listed
<1>9. QED
  BY <1>4, <1>7, <1>8 DEF c, d

LEMMA MakesFits ==
  ASSUME CapInv, NEW w \in Writers, Makes(w, Head(calls[w]))
  PROVE  WithinCapacity'
<1> DEFINE c == Head(calls[w])
           n == c.name
<1>1. calls[w] # <<>> /\ Makes(w, c) /\ TypeInv /\ TypeOK
  BY DEF Makes, CapInv, TypeInv
<1>2. 1 \in DOMAIN calls[w] /\ c = calls[w][1]
  BY <1>1, HeadIs
<1>3. Fits(c)
  BY <1>2 DEF CapInv, AllFit
<1> HIDE DEF c
<1>4. /\ c \in Call /\ n \in Indices
      /\ \A m \in Indices : m # n => ingresses'[m] = ingresses[m]
  BY <1>1, CallEffect
<1>5. ingresses'[n] = NoIngress \/ Len(ingresses'[n].rules) \in 1 .. MaxRoutes
  <2>1. c.rules \in Seq(Hosts) /\ Len(c.rules) \in Nat /\ c.op \in Ops
    BY <1>4 DEF Call
  <2>2. CASE c.op = "delete"
    BY <1>1, <2>2, CallEffect
  <2>3. CASE c.op \in {"create", "replace"}
    <3>1. ingresses'[n] = [rules |-> c.rules, tls |-> c.tls]
      BY <1>1, <2>3, CallEffect
    <3>2. Len(c.rules) \in 1 .. MaxRoutes
      BY <1>3, <2>3 DEF Fits
    <3>3. QED
      BY <3>1, <3>2
  <2> DEFINE r == Rules(n)
             t == ingresses[n].tls
  <2>4. ASSUME c.op \in {"add", "remove", "update"}
        PROVE  /\ n \in Listed /\ r \in Seq(Hosts) /\ t \in Seq(Hosts)
               /\ DOMAIN r = 1 .. Len(r) /\ Len(r) \in 1 .. MaxRoutes
    <3>1. n \in Listed
      BY <1>1, <2>4, CallEffect
    <3>2. QED
      BY <1>1, <3>1, ListedRules DEF CapInv, WithinCapacity
  <2>5. MaxRoutes \in Nat
    BY IngressAssumption
  <2>6. CASE c.op = "add"
    <3> DEFINE u == t \o c.tls
    <3>1. ingresses'[n] = [rules |-> r \o c.rules, tls |-> u]
      BY <1>1, <2>6, CallEffect
    <3>2. Len(r) + Len(c.rules) <= MaxRoutes
      BY <1>3, <2>6 DEF Fits
    <3> HIDE DEF n, r, t, u
    <3>3. Len(r \o c.rules) = Len(r) + Len(c.rules)
      BY <2>1, <2>4, <2>6
    <3>4. Len(r \o c.rules) \in 1 .. MaxRoutes
      BY <2>1, <2>4, <2>5, <2>6, <3>2, <3>3
    <3>5. QED
      BY <3>1, <3>4
  <2>7. CASE c.op = "remove"
    <3> DEFINE u == IF c.entry = 0 THEN t ELSE RemoveAt(t, c.entry)
               j == c.rule
    <3>1. /\ j \in DOMAIN r /\ Len(r) > 1
          /\ ingresses'[n] = [rules |-> RemoveAt(r, j), tls |-> u]
      BY <1>1, <2>7, CallEffect
    <3> HIDE DEF n, r, t, u, j
    <3>2. j \in 1 .. Len(r) /\ r \in Seq(Hosts)
      BY <2>4, <2>7, <3>1
    <3>3. Len(RemoveAt(r, j)) = Len(r) - 1
      BY <3>2, Removed
    <3>4. Len(RemoveAt(r, j)) \in 1 .. MaxRoutes
      BY <2>4, <2>5, <2>7, <3>1, <3>3
    <3>5. QED
      BY <3>1, <3>4
  <2>8. CASE c.op = "update"
    <3> DEFINE u == IF c.tls = <<>> THEN t
                    ELSE IF c.entry = 0 THEN t \o c.tls
                    ELSE ReplaceAt(t, c.entry, c.tls[1])
               j == c.rule
               x == c.rules[1]
    <3>1. /\ j \in DOMAIN r
          /\ ingresses'[n] = [rules |-> ReplaceAt(r, j, x), tls |-> u]
      BY <1>1, <2>8, CallEffect
    <3>2. x \in Hosts
      <4>1. c.rules # <<>>
        BY <1>1, <2>8, CallEffect
      <4>2. QED
        BY <2>1, <4>1, EmptySeq, ElementOfSeq
    <3> HIDE DEF n, r, t, u, j, x
    <3>3. Len(ReplaceAt(r, j, x)) = Len(r)
      BY <2>4, <2>8, <3>1, <3>2, ExceptSeq DEF ReplaceAt
    <3>4. Len(ReplaceAt(r, j, x)) \in 1 .. MaxRoutes
      BY <2>4, <2>8, <3>3
    <3>5. QED
      BY <3>1, <3>4
  <2>9. QED
    BY <2>1, <2>2, <2>3, <2>6, <2>7, <2>8 DEF Ops
<1> HIDE DEF n
<1>6. ASSUME NEW m \in Indices, ingresses'[m] # NoIngress
      PROVE  Len(ingresses'[m].rules) \in 1 .. MaxRoutes
  <2>1. CASE m = n
    BY <1>5, <1>6, <2>1
  <2>2. CASE m # n
    <3>1. ingresses'[m] = ingresses[m] /\ m \in Listed
      BY <1>4, <1>6, <2>2 DEF Listed
    <3>2. Len(Rules(m)) \in 1 .. MaxRoutes
      BY <3>1 DEF CapInv, WithinCapacity
    <3>3. QED
      BY <3>1, <3>2 DEF Rules
  <2>3. QED
    BY <2>1, <2>2
<1>7. QED
  BY <1>6 DEF WithinCapacity, Listed, Rules

LEMMA RestFits ==
  ASSUME CapInv, NEW w \in Writers, Makes(w, Head(calls[w])),
         calls'[w] = Tail(calls[w])
  PROVE  AllFit(calls[w])'
<1>1. calls[w] # <<>> /\ TypeInv /\ AllFit(calls[w])
  BY DEF Makes, CapInv
<1>2. /\ \A i \in DOMAIN Tail(calls[w]) :
           i + 1 \in DOMAIN calls[w] /\ Tail(calls[w])[i] = calls[w][i + 1]
      /\ DOMAIN Tail(calls[w]) \subseteq Nat
  BY <1>1, HeadIs
<1>3. Apart(calls'[w])
  <2> SUFFICES ASSUME NEW i \in DOMAIN Tail(calls[w]), NEW j \in DOMAIN Tail(calls[w]),
                      Tail(calls[w])[i].op # "create", Tail(calls[w])[j].op # "create",
                      Tail(calls[w])[i].name = Tail(calls[w])[j].name
               PROVE  i = j
    BY DEF Apart
  <2>1. i + 1 = j + 1
    BY <1>1, <1>2 DEF AllFit, Apart
  <2>2. i \in Nat /\ j \in Nat
    BY <1>2
  <2>3. QED
    BY <2>1, <2>2
<1>4. ASSUME NEW i \in DOMAIN calls'[w] PROVE Fits(calls[w][i])'
  <2>1. Fits(calls[w][i + 1]) /\ calls'[w][i] = calls[w][i + 1]
    BY <1>1, <1>2 DEF AllFit
  <2>2. CASE calls'[w][i].op = "create"
    BY <2>1, <2>2 DEF Fits
  <2>3. CASE calls'[w][i].op # "create"
    <3>1. /\ calls'[w][i].name \in Listed'
          /\ ingresses'[calls'[w][i].name] = ingresses[calls'[w][i].name]
      BY <2>3, RestElsewhere
    <3>2. QED
      BY <2>1, <3>1 DEF Fits, Rules
  <2>4. QED
    BY <2>2, <2>3
<1>5. QED
  BY <1>3, <1>4 DEF AllFit, Apart

LEMMA CapStep ==
  ASSUME CapInv, OneWriter, [Next]_vars
  PROVE  CapInv'
<1>1. TypeInv /\ TypeOK /\ WithinCapacity /\ \A w \in Writers : AllFit(calls[w])
  BY DEF CapInv, TypeInv
<1>2. TypeInv'
  BY <1>1, TypeStep
<1>3. ASSUME UNCHANGED ingresses PROVE WithinCapacity'
  BY <1>1, <1>3 DEF WithinCapacity, Listed, Rules
<1>4. ASSUME NEW w \in Writers, calls'[w] = <<>> PROVE AllFit(calls[w])'
  BY <1>4 DEF AllFit, Apart
<1>5. CASE UNCHANGED vars
  <2>1. UNCHANGED ingresses /\ calls' = calls
    BY <1>5 DEF vars
  <2>2. \A w \in Writers : AllFit(calls[w])'
    BY <1>1, <2>1 DEF AllFit, Apart, Fits, Listed, Rules
  <2>3. QED
    BY <1>2, <1>3, <2>1, <2>2 DEF CapInv
<1>6. ASSUME NEW w \in Writers, NEW add \in SUBSET Hosts, NEW remove \in SUBSET Ids,
             NEW batch \in BOOLEAN, NEW cs,
             Start(w, add, remove, batch, cs), Plan(add, remove, batch, cs)
      PROVE  CapInv'
  <2>1. UNCHANGED ingresses /\ calls'[w] = cs
    BY <1>1, <1>6 DEF Start, TypeOK
  <2>2. AllFit(cs)
    BY <1>1, <1>6, PlanFits
  <2>3. AllFit(calls[w])'
    BY <2>1, <2>2 DEF AllFit, Apart, Fits, Listed, Rules
  <2>4. \A v \in Writers : AllFit(calls[v])'
    BY <2>3 DEF OneWriter
  <2>5. QED
    BY <1>2, <1>3, <2>1, <2>4 DEF CapInv
<1>7. ASSUME NEW w \in Writers, Serve(w), Makes(w, Head(calls[w])) PROVE CapInv'
  <2>1. calls'[w] = Tail(calls[w])
    BY <1>1, <1>7 DEF Serve, TypeOK
  <2>2. WithinCapacity' /\ AllFit(calls[w])'
    BY <1>7, <2>1, MakesFits, RestFits
  <2>3. QED
    BY <1>2, <2>2 DEF CapInv, OneWriter
<1>8. ASSUME NEW w \in Writers, Fail(w),
             UNCHANGED ingresses \/ Makes(w, Head(calls[w]))
      PROVE  CapInv'
  <2>1. calls'[w] = <<>>
    BY <1>1, <1>8 DEF Fail, TypeOK
  <2>2. WithinCapacity' /\ AllFit(calls[w])'
    BY <1>3, <1>4, <1>8, <2>1, MakesFits
  <2>3. QED
    BY <1>2, <2>2 DEF CapInv, OneWriter
<1>9. ASSUME NEW w \in Writers, Return(w) PROVE CapInv'
  <2>1. UNCHANGED ingresses /\ calls' = calls
    BY <1>9 DEF Return
  <2>2. \A v \in Writers : AllFit(calls[v])'
    BY <1>1, <2>1 DEF AllFit, Apart, Fits, Listed, Rules
  <2>3. QED
    BY <1>2, <1>3, <2>1, <2>2 DEF CapInv
<1>10. QED
  BY <1>1, <1>5, <1>6, <1>7, <1>8, <1>9, StepKinds

LEMMA CapInit ==
  ASSUME Init
  PROVE  CapInv
<1>1. Listed = {}
  BY DEF Init, Listed
<1>2. WithinCapacity
  BY <1>1 DEF WithinCapacity
<1>3. \A w \in Writers : AllFit(calls[w])
  BY DEF Init, AllFit, Apart
<1>4. QED
  BY <1>2, <1>3, TypeInit DEF CapInv

\* No Ingress has more rules than maxRoutesPerIngress or none at all, whatever
\* the order in which a batch fills them and wherever it fails, while one
\* goroutine writes: the room that an operation saw in its listing is still
\* there when its call arrives.
THEOREM CapacityKept ==
  ASSUME OneWriter
  PROVE  Spec => []WithinCapacity
<1>1. Init => CapInv
  BY CapInit
<1>2. CapInv /\ [Next]_vars => CapInv'
  BY CapStep
<1>3. CapInv => WithinCapacity
  BY DEF CapInv
<1>4. QED
  BY <1>1, <1>2, <1>3, PTL DEF Spec

-----------------------------------------------------------------------------
(* What the calls take away. *)

\* What c takes away is of a route that its operation is to remove.
Asked(c, remove) ==
  /\ c.op = "delete" => \A h \in ToSet(Rules(c.name)) : IdOf[h] \in remove
  /\ c.op = "replace" =>
       ToSet(c.rules) = {h \in ToSet(Rules(c.name)) : IdOf[h] \notin remove}
  /\ c.op = "remove" => /\ c.rule \in DOMAIN Rules(c.name)
                        /\ IdOf[Rules(c.name)[c.rule]] \in remove

AllAsked == \A w \in Writers : \A i \in DOMAIN calls[w] :
              Asked(calls[w][i], job[w].remove)

AskInv == CapInv /\ TLSInv /\ AllAsked

LEMMA ServedIs ==
  /\ \A h : h \in Served <=> \E n \in Listed : h \in ToSet(Rules(n))
  /\ \A h : h \in Served' <=>
       \E n \in Indices : ingresses'[n] # NoIngress /\ h \in ToSet(ingresses'[n].rules)
BY DEF Served, Listed, Rules

\* The rules of the Ingress that a call writes, after it took effect.
LEMMA RulesAfter ==
  ASSUME TypeInv, TLSMatchesRules, AllSound, NEW w \in Writers, NEW c,
         c = Head(calls[w]), Makes(w, c)
  PROVE  /\ c \in Call /\ c.name \in Indices
         /\ c.op \in {"add", "remove", "update", "replace"} => c.name \in Listed
         /\ c.op = "create" => c.name \notin Listed
         /\ \A n \in Indices : n # c.name => ingresses'[n] = ingresses[n]
         /\ c.op = "delete" <=> ingresses'[c.name] = NoIngress
         /\ c.op \in {"create", "replace"} => ingresses'[c.name].rules = c.rules
         /\ c.op = "add" => ingresses'[c.name].rules = Rules(c.name) \o c.rules
         /\ c.op = "remove" =>
              /\ c.rule \in 1 .. Len(Rules(c.name))
              /\ ingresses'[c.name].rules = RemoveAt(Rules(c.name), c.rule)
         /\ c.op = "update" => /\ c.rule \in DOMAIN Rules(c.name)
                               /\ c.rules = <<Rules(c.name)[c.rule]>>
                               /\ ingresses'[c.name].rules = Rules(c.name)
<1> DEFINE n == c.name
           new == ingresses'[n]
<1>1. calls[w] # <<>>
  BY DEF Makes
<1>2. 1 \in DOMAIN calls[w] /\ c = calls[w][1]
  BY <1>1, HeadIs
<1>3. Sound(c, job[w].batch, Len(calls[w]))
  BY <1>2 DEF AllSound
<1>4. c.op \in {"create", "replace"} => new = [rules |-> c.rules, tls |-> c.tls]
  BY CallEffect
<1>5. c.op = "add" => new = [rules |-> Rules(n) \o c.rules,
                             tls |-> ingresses[n].tls \o c.tls]
  BY CallEffect
<1>6. c.op = "remove" =>
        /\ c.rule \in DOMAIN Rules(n)
        /\ new = [rules |-> RemoveAt(Rules(n), c.rule),
                  tls |-> IF c.entry = 0 THEN ingresses[n].tls
                          ELSE RemoveAt(ingresses[n].tls, c.entry)]
  BY CallEffect
<1>7. c.op = "update" =>
        /\ c.rule \in DOMAIN Rules(n) /\ c.rules = <<Rules(n)[c.rule]>>
        /\ new = ingresses[n]
  BY <1>3, UpdateIsIdentity DEF Sound, Current
<1>8. c.op \in {"add", "remove", "update", "replace"} => n \in Listed
  BY CallEffect
<1>9. c.op = "remove" => DOMAIN Rules(n) = 1 .. Len(Rules(n))
  BY <1>8, ListedRules DEF TypeInv
<1>10. /\ c \in Call /\ n \in Indices
       /\ c.op = "create" => n \notin Listed
       /\ \A m \in Indices : m # n => ingresses'[m] = ingresses[m]
       /\ c.op = "delete" <=> new = NoIngress
  <2>1. c \in Call /\ n \in Indices /\ (c.op = "create" => n \notin Listed)
    BY CallEffect
  <2>2. \A m \in Indices : m # n => ingresses'[m] = ingresses[m]
    BY CallElsewhere
  <2>3. (c.op = "delete" => new = NoIngress) /\ (c.op # "delete" => new # NoIngress)
    BY CallEffect
  <2> HIDE DEF n, new
  <2>4. QED
    BY <2>1, <2>2, <2>3
<1>11. ingresses[n].rules = Rules(n)
  BY DEF Rules
<1> HIDE DEF n, new
<1>12. /\ c.op \in {"create", "replace"} => new.rules = c.rules
       /\ c.op = "add" => new.rules = Rules(n) \o c.rules
       /\ c.op = "remove" => new.rules = RemoveAt(Rules(n), c.rule)
       /\ c.op = "update" => new.rules = Rules(n)
  <2>1. CASE c.op \in {"create", "replace"}
    BY <1>4, <2>1
  <2>2. CASE c.op = "add"
    <3> DEFINE r == Rules(n) \o c.rules
               t == ingresses[n].tls \o c.tls
    <3>1. new = [rules |-> r, tls |-> t]
      BY <1>5, <2>2
    <3> HIDE DEF r, t
    <3>2. new.rules = r
      BY <3>1
    <3>3. QED
      BY <2>2, <3>2 DEF r
  <2>3. CASE c.op = "remove"
    <3> DEFINE r == RemoveAt(Rules(n), c.rule)
               t == IF c.entry = 0 THEN ingresses[n].tls
                    ELSE RemoveAt(ingresses[n].tls, c.entry)
    <3>1. new = [rules |-> r, tls |-> t]
      BY <1>6, <2>3
    <3> HIDE DEF r, t
    <3>2. new.rules = r
      BY <3>1
    <3>3. QED
      BY <2>3, <3>2 DEF r
  <2>4. CASE c.op = "update"
    BY <1>7, <1>11, <2>4
  <2>5. QED
    BY <2>1, <2>2, <2>3, <2>4
<1>13. QED
  BY <1>6, <1>7, <1>8, <1>9, <1>10, <1>12 DEF n, new

LEMMA PlanAsked ==
  ASSUME TypeOK,
         NEW add, NEW remove, NEW batch, NEW cs, Plan(add, remove, batch, cs)
  PROVE  \A i \in DOMAIN cs : Asked(cs[i], remove)
<1>1. ASSUME NEW h \in Hosts, cs = ProvisionCalls(h), NEW i \in DOMAIN cs
      PROVE  Asked(cs[i], remove)
  <2>1. PICK c \in AnyCall :
           /\ cs = <<c>>
           /\ \/ \E n \in Listed : \E j \in DOMAIN Rules(n) : c = UpdateRule(n, j, h)
              \/ \E n \in WithCapacity : c = PatchAddRules(n, <<h>>)
              \/ c = CreateIngress(Cardinality(Listed), <<h>>)
    BY <1>1, ProvisionPlan
  <2>2. <<h>> \in Seq(Hosts)
    OBVIOUS
  <2>3. c.op \in {"update", "add", "create"}
    <3>1. ASSUME NEW n \in Listed, NEW j \in DOMAIN Rules(n), c = UpdateRule(n, j, h)
          PROVE  c.op = "update"
      BY <3>1 DEF UpdateRule, EditRule
    <3>2. ASSUME NEW n \in WithCapacity, c = PatchAddRules(n, <<h>>)
          PROVE  c.op = "add"
      <4>1. n \in Nat
        BY ListedFinite DEF WithCapacity
      <4>2. QED
        BY <2>2, <3>2, <4>1, PatchAddRulesType
    <3>3. ASSUME c = CreateIngress(Cardinality(Listed), <<h>>)
          PROVE  c.op = "create"
      BY <2>2, <3>3, CreateIngressType, ListedFinite
    <3>4. QED
      BY <2>1, <3>1, <3>2, <3>3
  <2>4. cs[i] = c
    BY <1>1, <2>1
  <2>5. QED
    BY <2>3, <2>4 DEF Asked
<1>2. ASSUME NEW id, cs = DeprovisionCalls(id), remove = {id}, NEW i \in DOMAIN cs
      PROVE  Asked(cs[i], remove)
  <2>1. cs # <<>>
    BY <1>2
  <2>2. PICK c \in AnyCall :
              /\ cs = <<c>>
              /\ \E n \in Listed : \E j \in DOMAIN Rules(n) :
                   /\ IdOf[Rules(n)[j]] = id
                   /\ c = IF Len(Rules(n)) = 1 THEN DeleteIngress(n)
                          ELSE PatchRemoveRule(n, j)
    BY <1>2, <2>1, DeprovisionPlan
  <2>3. PICK n \in Listed : \E j \in DOMAIN Rules(n) :
                   /\ IdOf[Rules(n)[j]] = id
                   /\ c = IF Len(Rules(n)) = 1 THEN DeleteIngress(n)
                          ELSE PatchRemoveRule(n, j)
    BY <2>2
  <2>4. PICK j \in DOMAIN Rules(n) :
                   /\ IdOf[Rules(n)[j]] = id
                   /\ c = IF Len(Rules(n)) = 1 THEN DeleteIngress(n)
                          ELSE PatchRemoveRule(n, j)
    BY <2>3
  <2>5. cs[i] = c
    BY <1>2, <2>2
  <2>6. CASE Len(Rules(n)) = 1
    <3>1. c.op = "delete" /\ c.name = n
      BY <2>4, <2>6, DeleteIngressType, ListedFinite
    <3>2. DOMAIN Rules(n) = {1}
      BY <2>6, ListedRules
    <3>3. \A h \in ToSet(Rules(n)) : IdOf[h] = id
      BY <2>4, <3>2 DEF ToSet
    <3>4. QED
      BY <1>2, <2>5, <3>1, <3>3 DEF Asked
  <2>7. CASE Len(Rules(n)) # 1
    <3>1. c.op = "remove" /\ c.name = n /\ c.rule = j
      BY <2>4, <2>7, PatchRemoveRuleType
    <3>2. QED
      BY <1>2, <2>4, <2>5, <3>1 DEF Asked
  <2>8. QED
    BY <2>6, <2>7
<1>3. ASSUME NEW hs \in Seq(Hosts), NEW o \in PackingOrders,
             cs = BatchProvisionCalls(hs, o), NEW i \in DOMAIN cs
      PROVE  Asked(cs[i], remove)
  <2>1. Carries(cs[i], hs)
    BY <1>3, BatchProvisionPlan
  <2>2. QED
    BY <2>1 DEF Carries, Asked
<1>4. ASSUME NEW ids \in SUBSET Ids, cs = BatchDeprovisionCalls(ids),
             remove = ids, NEW i \in DOMAIN cs
      PROVE  Asked(cs[i], remove)
  <2> DEFINE n == cs[i].name
             k == PatchReplaceSpec(n, ids)
             kept == {h \in Hosts : IdOf[h] \notin ids}
  <2>1. n \in Listed /\ cs[i] = IF k.rules = <<>> THEN DeleteIngress(n) ELSE k
    BY <1>4, BatchDeprovisionPlan
  <2>2. /\ k.op = "replace" /\ k.name = n
        /\ k.rules = Among(Rules(n), kept)
    BY <2>1, ReplaceSpecType
  <2> HIDE DEF n, k
  <2>3. Rules(n) \in Seq(Hosts) /\ DOMAIN Rules(n) = 1 .. Len(Rules(n))
    BY <2>1, ListedRules
  <2>4. ToSet(Rules(n)) \subseteq Hosts
    BY <2>3 DEF ToSet
  <2>5. ToSet(k.rules) = ToSet(Rules(n)) \cap kept
    BY <2>2, <2>3, AmongRange
  <2>6. ToSet(k.rules) = {h \in ToSet(Rules(n)) : IdOf[h] \notin remove}
    BY <1>4, <2>4, <2>5
  <2> HIDE DEF kept
  <2>7. CASE k.rules = <<>>
    <3>1. ToSet(k.rules) = {}
      BY <2>7, ToSetEmpty
    <3>2. cs[i].op = "delete" /\ cs[i].name = n
      BY <2>1, <2>7, DeleteIngressType, ListedFinite
    <3>3. \A h \in ToSet(Rules(n)) : IdOf[h] \in remove
      BY <2>6, <3>1
    <3>4. QED
      BY <3>2, <3>3 DEF Asked
  <2>8. CASE k.rules # <<>>
    <3>1. cs[i] = k
      BY <2>1, <2>8
    <3>2. Asked(k, remove)
      BY <2>2, <2>6 DEF Asked
    <3>3. QED
      BY <3>1, <3>2
  <2>9. QED
    BY <2>7, <2>8
<1>5. QED
  BY <1>1, <1>2, <1>3, <1>4 DEF Plan

LEMMA HostsKept ==
  ASSUME AskInv, NEW w \in Writers, Makes(w, Head(calls[w])), NEW h \in Served,
         h \notin Served'
  PROVE  IdOf[h] \in job[w].remove
<1>1. PICK c : c = Head(calls[w])
  OBVIOUS
<1>2. /\ TypeInv /\ TypeOK /\ TLSMatchesRules /\ AllSound /\ Makes(w, c)
      /\ calls[w] # <<>>
  BY <1>1 DEF AskInv, TLSInv, TypeInv, Makes
<1>3. Asked(c, job[w].remove)
  BY <1>1, <1>2, HeadIs DEF AskInv, AllAsked
<1>4. PICK n \in Listed : h \in ToSet(Rules(n))
  BY ServedIs
<1>5. n \in Indices /\ Rules(n) \in Seq(Hosts) /\ n \in Indices
  BY <1>2, ListedRules
<1>6. ingresses'[n] # NoIngress => h \notin ToSet(ingresses'[n].rules)
  BY <1>5, ServedIs
<1>7. n = c.name
  <2>1. ASSUME n # c.name PROVE FALSE
    <3>1. ingresses'[n] = ingresses[n]
      BY <1>1, <1>2, <1>5, <2>1, RulesAfter
    <3>2. QED
      BY <1>4, <1>6, <3>1 DEF Listed, Rules
  <2>2. QED
    BY <2>1
<1>8. c \in Call
  BY <1>1, <1>2, RulesAfter
<1>9. CASE c.op = "delete"
  BY <1>3, <1>4, <1>7, <1>9 DEF Asked
<1>10. CASE c.op = "create"
  BY <1>1, <1>2, <1>4, <1>7, <1>10, RulesAfter
<1>11. CASE c.op = "replace"
  <2>1. h \notin ToSet(c.rules)
    <3>1. ingresses'[n] # NoIngress /\ ingresses'[n].rules = c.rules
      BY <1>1, <1>2, <1>7, <1>11, RulesAfter
    <3>2. QED
      BY <1>6, <3>1
  <2>2. ToSet(c.rules) = {g \in ToSet(Rules(n)) : IdOf[g] \notin job[w].remove}
    BY <1>3, <1>7, <1>11 DEF Asked
  <2>3. QED
    BY <1>4, <2>1, <2>2
<1>12. CASE c.op = "add"
  <2>1. ingresses'[n] # NoIngress /\ ingresses'[n].rules = Rules(n) \o c.rules
    BY <1>1, <1>2, <1>7, <1>12, RulesAfter
  <2>2. c.rules \in Seq(Hosts)
    BY <1>8 DEF Call
  <2>3. ToSet(Rules(n) \o c.rules) = ToSet(Rules(n)) \cup ToSet(c.rules)
    BY <1>5, <2>2, ToSetConcat
  <2>4. QED
    BY <1>4, <1>6, <2>1, <2>3
<1>13. CASE c.op = "remove"
  <2> DEFINE r == Rules(n)
             j == c.rule
  <2>1. /\ j \in 1 .. Len(r) /\ ingresses'[n] # NoIngress
        /\ ingresses'[n].rules = RemoveAt(r, j)
    BY <1>1, <1>2, <1>7, <1>13, RulesAfter
  <2>2. ToSet(RemoveAt(r, j)) = {r[i] : i \in (1 .. Len(r)) \ {j}}
    BY <1>5, <2>1, Removed
  <2>3. PICK i \in 1 .. Len(r) : h = r[i]
    BY <1>4, <1>5 DEF ToSet
  <2>4. i = j
    BY <1>6, <2>1, <2>2, <2>3
  <2>5. IdOf[r[j]] \in job[w].remove
    BY <1>3, <1>7, <1>13 DEF Asked
  <2>6. QED
    BY <2>3, <2>4, <2>5
<1>14. CASE c.op = "update"
  BY <1>1, <1>2, <1>4, <1>6, <1>7, <1>14, RulesAfter
<1>15. QED
  BY <1>8, <1>9, <1>10, <1>11, <1>12, <1>13, <1>14 DEF Call, Ops

LEMMA RestAsked ==
  ASSUME AskInv, NEW w \in Writers, Makes(w, Head(calls[w])),
         calls'[w] = Tail(calls[w]), job'[w].remove = job[w].remove,
         NEW i \in DOMAIN calls'[w]
  PROVE  Asked(calls[w][i], job[w].remove)'
<1>1. calls[w] # <<>> /\ TypeInv /\ CapInv
  BY DEF Makes, AskInv, TLSInv
<1>2. i + 1 \in DOMAIN calls[w] /\ calls'[w][i] = calls[w][i + 1]
  BY <1>1, HeadIs
<1>3. Asked(calls'[w][i], job[w].remove)
  BY <1>2 DEF AskInv, AllAsked
<1>4. CASE calls'[w][i].op = "create"
  BY <1>4 DEF Asked
<1>5. CASE calls'[w][i].op # "create"
  <2>1. ingresses'[calls'[w][i].name] = ingresses[calls'[w][i].name]
    BY <1>1, <1>5, RestElsewhere
  <2>2. QED
    BY <1>3, <2>1 DEF Asked, Rules
<1>6. QED
  BY <1>4, <1>5

LEMMA AskStep ==
  ASSUME AskInv, OneWriter, IdsDiffer, [Next]_vars
  PROVE  AskInv'
<1>1. TypeInv /\ TypeOK /\ CapInv /\ TLSInv /\ AllAsked
  BY DEF AskInv, TLSInv, TypeInv
<1>2. CapInv' /\ TLSInv'
  BY <1>1, CapStep, TLSStep
<1>3. CASE UNCHANGED vars
  <2>1. UNCHANGED ingresses /\ job' = job /\ calls' = calls
    BY <1>3 DEF vars
  <2>2. ASSUME NEW w \in Writers, NEW i \in DOMAIN calls'[w]
        PROVE  Asked(calls[w][i], job[w].remove)'
    <3>1. Asked(calls'[w][i], job'[w].remove)
      BY <1>1, <2>1 DEF AllAsked
    <3>2. QED
      BY <2>1, <3>1 DEF Asked, Rules
  <2>3. QED
    BY <1>2, <2>2 DEF AskInv, AllAsked
<1>4. ASSUME NEW w \in Writers, NEW add \in SUBSET Hosts, NEW remove \in SUBSET Ids,
             NEW batch \in BOOLEAN, NEW cs,
             Start(w, add, remove, batch, cs), Plan(add, remove, batch, cs)
      PROVE  AskInv'
  <2>1. UNCHANGED ingresses /\ calls'[w] = cs /\ job'[w].remove = remove
    BY <1>1, <1>4 DEF Start, TypeOK
  <2>2. \A i \in DOMAIN cs : Asked(cs[i], remove)
    BY <1>1, <1>4, PlanAsked
  <2>3. \A i \in DOMAIN calls'[w] : Asked(calls[w][i], job[w].remove)'
    BY <2>1, <2>2 DEF Asked, Rules
  <2>4. AllAsked'
    BY <2>3 DEF OneWriter, AllAsked
  <2>5. QED
    BY <1>2, <2>4 DEF AskInv
<1>5. ASSUME NEW w \in Writers, Serve(w), Makes(w, Head(calls[w])) PROVE AskInv'
  <2>1. calls'[w] = Tail(calls[w]) /\ job' = job
    BY <1>1, <1>5 DEF Serve, TypeOK
  <2>2. \A i \in DOMAIN calls'[w] : Asked(calls[w][i], job[w].remove)'
    BY <1>5, <2>1, RestAsked
  <2>3. AllAsked'
    BY <2>2 DEF OneWriter, AllAsked
  <2>4. QED
    BY <1>2, <2>3 DEF AskInv
<1>6. ASSUME NEW w \in Writers, Fail(w) PROVE AskInv'
  <2>1. calls'[w] = <<>>
    BY <1>1, <1>6 DEF Fail, TypeOK
  <2>2. AllAsked'
    BY <2>1 DEF OneWriter, AllAsked
  <2>3. QED
    BY <1>2, <2>2 DEF AskInv
<1>7. ASSUME NEW w \in Writers, Return(w) PROVE AskInv'
  <2>1. calls'[w] = <<>>
    BY <1>7 DEF Return
  <2>2. AllAsked'
    BY <2>1 DEF OneWriter, AllAsked
  <2>3. QED
    BY <1>2, <2>2 DEF AskInv
<1>8. QED
  BY <1>1, <1>3, <1>4, <1>5, <1>6, <1>7, StepKinds

LEMMA AskInit ==
  ASSUME Init
  PROVE  AskInv
<1>1. TLSMatchesRules
  BY DEF Init, TLSMatchesRules, Listed
<1>2. AllSound /\ Alone /\ AllAsked
  BY DEF Init, AllSound, Alone, AllAsked
<1>3. QED
  BY <1>1, <1>2, TypeInit, CapInit DEF AskInv, TLSInv

LEMMA TakesOnlyAsked ==
  ASSUME AskInv, Next
  PROVE  \A h \in Served \ Served' :
           \E w \in Writers : job[w] # Idle /\ IdOf[h] \in job[w].remove
<1> SUFFICES ASSUME NEW h \in Served, h \notin Served'
             PROVE  \E w \in Writers : job[w] # Idle /\ IdOf[h] \in job[w].remove
  OBVIOUS
<1>1. TypeInv
  BY DEF AskInv, TLSInv
<1>2. ASSUME UNCHANGED ingresses PROVE FALSE
  BY <1>2 DEF Served, Listed, Rules
<1>3. ASSUME NEW w \in Writers, Makes(w, Head(calls[w]))
      PROVE  job[w] # Idle /\ IdOf[h] \in job[w].remove
  BY <1>1, <1>3, HostsKept DEF Makes, TypeInv, Quiet
<1>4. QED
  BY <1>1, <1>2, <1>3, StepKinds DEF vars, Start, Return

\* No step takes a host away that its operation was not to remove, while one
\* goroutine writes: not a batch that replaces whole Ingresses by what it
\* listed, nor a single Deprovision that deletes the Ingress of a last rule,
\* whether the calls before it succeeded, were refused or failed.
THEOREM RemovalAsked ==
  ASSUME OneWriter, IdsDiffer
  PROVE  Spec => RemovesOnlyAsked
<1>1. Init => AskInv
  BY AskInit
<1>2. AskInv /\ [Next]_vars => AskInv'
  BY AskStep
<1>3. AskInv /\ [Next]_vars =>
        [\A h \in Served \ Served' :
           \E w \in Writers : job[w] # Idle /\ IdOf[h] \in job[w].remove]_vars
  BY TakesOnlyAsked
<1>4. QED
  BY <1>1, <1>2, <1>3, PTL DEF Spec, RemovesOnlyAsked

-----------------------------------------------------------------------------
(* Done as asked. *)

Once(s) == \A h \in Hosts : Times(s, h) <= 1

\* Every host has one rule.
Single ==
  /\ \A n \in Listed : Once(Rules(n))
  /\ \A m, n \in Listed : m # n => ToSet(Rules(m)) \cap ToSet(Rules(n)) = {}

\* And it stays so when the calls take effect.
New(cs) ==
  \A a \in DOMAIN cs :
    /\ cs[a].op \in {"create", "add", "replace"} => Once(cs[a].rules)
    /\ cs[a].op \in {"create", "add"} =>
         /\ ToSet(cs[a].rules) \cap Served = {}
         /\ \A b \in DOMAIN cs :
              cs[b].op \in {"create", "add"} /\ a # b =>
                ToSet(cs[a].rules) \cap ToSet(cs[b].rules) = {}

OneRule == ~SharedHosts => Single /\ \A w \in Writers : New(calls[w])

\* c takes the rules of h out of the Ingress n.
Clears(c, n, h) ==
  /\ c.name = n
  /\ \/ c.op \in {"delete", "replace"}
     \/ c.op = "remove" /\ Rules(n)[c.rule] = h

\* c has a rule for h.
Gives(c, h) == c.op \in {"create", "add", "update"} /\ h \in ToSet(c.rules)

\* What an operation is asked for is done, or is what its calls will do.
Due(add, remove, batch, ok, cs) ==
  /\ add = {} \/ remove = {}
  /\ remove # {} => \A i \in DOMAIN cs : cs[i].op \in {"delete", "replace", "remove"}
  /\ ok => /\ \A h \in add : h \in Served \/ (\E i \in DOMAIN cs : Gives(cs[i], h))
           /\ batch \/ ~SharedHosts =>
                \A n \in Listed : \A h \in ToSet(Rules(n)) :
                  IdOf[h] \in remove => \E i \in DOMAIN cs : Clears(cs[i], n, h)

AllDue ==
  \A w \in Writers :
    job[w] # Idle =>
      Due(job[w].add, job[w].remove, job[w].batch, job[w].ok, calls[w])

DoneInv == AskInv /\ OneRule /\ AllDue

LEMMA InjectiveOnce ==
  ASSUME NEW s \in Seq(Hosts), IsInjective(s)
  PROVE  Once(s)
<1> SUFFICES ASSUME NEW h \in Hosts PROVE Times(s, h) <= 1
  BY DEF Once
<1> DEFINE a == Among(s, {h})
<1>1. a \in Seq(Hosts) /\ IsInjective(a) /\ ToSet(a) \subseteq {h}
  BY AmongType, AmongInjective, AmongRange
<1> HIDE DEF a
<1>2. Len(a) \in Nat /\ DOMAIN a = 1 .. Len(a)
  BY <1>1
<1>3. \A i \in DOMAIN a : a[i] = h
  BY <1>1 DEF ToSet
<1>4. ASSUME 2 <= Len(a) PROVE FALSE
  <2>1. 1 \in DOMAIN a /\ 2 \in DOMAIN a
    BY <1>2, <1>4
  <2>2. a[1] = a[2]
    BY <1>3, <2>1
  <2>3. QED
    BY <1>1, <2>1, <2>2 DEF IsInjective
<1>5. Len(a) <= 1
  BY <1>2, <1>4
<1>6. QED
  BY <1>5 DEF a, Times

LEMMA OnceOne ==
  ASSUME NEW h \in Hosts
  PROVE  Once(<<h>>)
<1>1. <<h>> \in Seq(Hosts) /\ IsInjective(<<h>>)
  BY DEF IsInjective
<1>2. QED
  BY <1>1, InjectiveOnce

LEMMA OnceAmong ==
  ASSUME NEW s \in Seq(Hosts), Once(s), NEW S
  PROVE  Once(Among(s, S))
<1> SUFFICES ASSUME NEW h \in Hosts PROVE Times(Among(s, S), h) <= 1
  BY DEF Once
<1>1. Times(Among(s, S), h) = IF h \in S THEN Times(s, h) ELSE 0
  BY TimesAmong
<1>2. Times(s, h) <= 1
  BY DEF Once
<1>3. QED
  BY <1>1, <1>2

LEMMA OnceRemoved ==
  ASSUME NEW s \in Seq(Hosts), Once(s), NEW i \in 1 .. Len(s)
  PROVE  Once(RemoveAt(s, i)) /\ s[i] \notin ToSet(RemoveAt(s, i))
<1> DEFINE r == RemoveAt(s, i)
<1>1. /\ r \in Seq(Hosts)
      /\ \A h : Times(s, h) = Times(r, h) + (IF s[i] = h THEN 1 ELSE 0)
  BY Removed
<1> HIDE DEF r
<1>2. ASSUME NEW h \in Hosts PROVE Times(r, h) <= 1 /\ (s[i] = h => Times(r, h) = 0)
  <2>1. Times(r, h) \in Nat /\ Times(s, h) <= 1
    BY <1>1, TimesType DEF Once
  <2>2. CASE s[i] = h
    <3>1. Times(s, h) = Times(r, h) + 1
      BY <1>1, <2>2
    <3>2. QED
      BY <2>1, <3>1
  <2>3. CASE s[i] # h
    <3>1. Times(s, h) = Times(r, h) + 0
      BY <1>1, <2>3
    <3>2. QED
      BY <2>1, <2>3, <3>1
  <2>4. QED
    BY <2>2, <2>3
<1>3. s[i] \in Hosts
  BY ElementOfSeq
<1>4. s[i] \notin ToSet(r)
  BY <1>1, <1>2, <1>3, TimesZero
<1>5. QED
  BY <1>2, <1>4 DEF Once, r

LEMMA OnceConcat ==
  ASSUME NEW s \in Seq(Hosts), NEW t \in Seq(Hosts), Once(s), Once(t),
         ToSet(s) \cap ToSet(t) = {}
  PROVE  Once(s \o t)
<1> SUFFICES ASSUME NEW h \in Hosts PROVE Times(s \o t, h) <= 1
  BY DEF Once
<1>1. Times(s \o t, h) = Times(s, h) + Times(t, h)
  BY TimesConcat
<1>2. /\ Times(s, h) \in Nat /\ Times(t, h) \in Nat
      /\ Times(s, h) <= 1 /\ Times(t, h) <= 1
  BY TimesType DEF Once
<1>3. Times(s, h) = 0 \/ Times(t, h) = 0
  BY TimesZero
<1>4. QED
  BY <1>1, <1>2, <1>3

\* Provision writes a new rule only for a host that is not served.
LEMMA ProvisionNew ==
  ASSUME TypeOK, NEW h \in Hosts, NEW c, ProvisionCalls(h) = <<c>>,
         c.op # "update"
  PROVE  h \notin Served
<1>1. CASE With(IdOf[h]) # {}
  <2> DEFINE n == Min(With(IdOf[h]))
             u == UpdateRule(n, RuleIndex(n, IdOf[h]), h)
  <2>1. ProvisionCalls(h) = <<u>>
    BY <1>1 DEF ProvisionCalls
  <2>2. u.op = "update"
    BY DEF UpdateRule, EditRule
  <2> HIDE DEF u
  <2>3. QED
    BY <2>1, <2>2
<1>2. CASE With(IdOf[h]) = {}
  <2>1. \A n \in Listed : \A j \in DOMAIN Rules(n) : IdOf[Rules(n)[j]] # IdOf[h]
    BY <1>2, WithType
  <2>2. \A n \in Listed : h \notin ToSet(Rules(n))
    BY <2>1 DEF ToSet
  <2>3. QED
    BY <2>2, ServedIs
<1>3. QED
  BY <1>1, <1>2

LEMMA PlanNew ==
  ASSUME TypeOK, ~SharedHosts, Single,
         NEW add, NEW remove, NEW batch, NEW cs, Plan(add, remove, batch, cs)
  PROVE  New(cs)
<1>1. ASSUME NEW h \in Hosts, cs = ProvisionCalls(h) PROVE New(cs)
  <2>1. PICK c \in AnyCall :
           /\ cs = <<c>>
           /\ \/ \E n \in Listed : \E j \in DOMAIN Rules(n) : c = UpdateRule(n, j, h)
              \/ \E n \in WithCapacity : c = PatchAddRules(n, <<h>>)
              \/ c = CreateIngress(Cardinality(Listed), <<h>>)
    BY <1>1, ProvisionPlan
  <2>2. <<h>> \in Seq(Hosts)
    OBVIOUS
  <2>3. c.op \in {"update", "add", "create"} /\ c.rules = <<h>>
    <3>1. ASSUME NEW n \in Listed, NEW j \in DOMAIN Rules(n), c = UpdateRule(n, j, h)
          PROVE  c.op = "update" /\ c.rules = <<h>>
      BY <3>1, UpdateRuleType
    <3>2. ASSUME NEW n \in WithCapacity, c = PatchAddRules(n, <<h>>)
          PROVE  c.op = "add" /\ c.rules = <<h>>
      <4>1. n \in Nat
        BY ListedFinite DEF WithCapacity
      <4>2. QED
        BY <2>2, <3>2, <4>1, PatchAddRulesType
    <3>3. ASSUME c = CreateIngress(Cardinality(Listed), <<h>>)
          PROVE  c.op = "create" /\ c.rules = <<h>>
      BY <2>2, <3>3, CreateIngressType, ListedFinite
    <3>4. QED
      BY <2>1, <3>1, <3>2, <3>3
  <2>4. c.op # "update" => h \notin Served
    BY <1>1, <2>1, ProvisionNew
  <2>5. ToSet(<<h>>) = {h}
    BY DEF ToSet
  <2>6. Once(c.rules) /\ (c.op # "update" => ToSet(c.rules) \cap Served = {})
    BY <2>3, <2>4, <2>5, OnceOne
  <2>7. DOMAIN cs = {1} /\ cs[1] = c
    BY <2>1
  <2>8. QED
    BY <2>6, <2>7 DEF New
<1>2. ASSUME NEW id, cs = DeprovisionCalls(id) PROVE New(cs)
  <2>1. CASE cs = <<>>
    BY <2>1 DEF New
  <2>2. ASSUME NEW c \in AnyCall, cs = <<c>>,
               NEW n \in Listed, NEW j \in DOMAIN Rules(n),
               c = IF Len(Rules(n)) = 1 THEN DeleteIngress(n)
                   ELSE PatchRemoveRule(n, j)
        PROVE  New(cs)
    <3>1. c.op \in {"delete", "remove"}
      BY <2>2, DeleteIngressType, PatchRemoveRuleType, ListedFinite
    <3>2. DOMAIN cs = {1} /\ cs[1] = c
      BY <2>2
    <3>3. QED
      BY <3>1, <3>2 DEF New
  <2>3. QED
    BY <1>2, <2>1, <2>2, DeprovisionPlan
<1>3. ASSUME NEW hs \in Seq(Hosts), NEW o \in PackingOrders,
             cs = BatchProvisionCalls(hs, o), ToSet(hs) \cap Served = {},
             IsInjective(hs)
      PROVE  New(cs)
  <2>1. /\ cs \in Seq(AnyCall)
        /\ \A a \in DOMAIN cs : Carries(cs[a], hs)
        /\ \A a, b \in DOMAIN cs :
             \A p \in DOMAIN cs[a].rules, q \in DOMAIN cs[b].rules :
               cs[a].rules[p] = cs[b].rules[q] => a = b /\ p = q
    BY <1>3, BatchProvisionPlan
  <2>2. ASSUME NEW a \in DOMAIN cs
        PROVE  /\ Once(cs[a].rules) /\ ToSet(cs[a].rules) \cap Served = {}
               /\ cs[a].op \in {"create", "add"}
    <3>1. Carries(cs[a], hs) /\ cs[a] \in AnyCall
      BY <2>1
    <3>2. IsInjective(cs[a].rules)
      BY <2>1 DEF IsInjective
    <3>3. cs[a].rules \in Seq(Hosts)
      BY <3>1 DEF AnyCall
    <3>4. Once(cs[a].rules)
      BY <3>2, <3>3, InjectiveOnce
    <3>5. ToSet(cs[a].rules) \subseteq ToSet(hs) /\ cs[a].op \in {"create", "add"}
      BY <3>1 DEF Carries
    <3>6. QED
      BY <1>3, <3>4, <3>5
  <2>3. \A a, b \in DOMAIN cs :
          a # b => ToSet(cs[a].rules) \cap ToSet(cs[b].rules) = {}
    BY <2>1 DEF ToSet
  <2>4. QED
    BY <2>2, <2>3 DEF New
<1>4. ASSUME NEW ids \in SUBSET Ids, cs = BatchDeprovisionCalls(ids) PROVE New(cs)
  <2>1. ASSUME NEW i \in DOMAIN cs
        PROVE  /\ cs[i].op \in {"delete", "replace"}
               /\ cs[i].op = "replace" => Once(cs[i].rules)
    <3> DEFINE n == cs[i].name
               k == PatchReplaceSpec(n, ids)
               kept == {h \in Hosts : IdOf[h] \notin ids}
    <3>1. n \in Listed /\ cs[i] = IF k.rules = <<>> THEN DeleteIngress(n) ELSE k
      BY <1>4, BatchDeprovisionPlan
    <3>2. k.op = "replace" /\ k.rules = Among(Rules(n), kept)
      BY <3>1, ReplaceSpecType
    <3> HIDE DEF n, k, kept
    <3>3. DeleteIngress(n).op = "delete"
      BY <3>1, DeleteIngressType, ListedFinite
    <3>4. Rules(n) \in Seq(Hosts) /\ Once(Rules(n))
      BY <3>1, ListedRules DEF Single
    <3>5. Once(k.rules)
      BY <3>2, <3>4, OnceAmong
    <3>6. QED
      BY <3>1, <3>2, <3>3, <3>5
  <2>2. QED
    BY <2>1 DEF New
<1>5. QED
  BY <1>1, <1>2, <1>3, <1>4 DEF Plan

\* A call brings in no other hosts than it says.
LEMMA HostsAfter ==
  ASSUME AskInv, NEW w \in Writers, NEW c, c = Head(calls[w]), Makes(w, c),
         NEW m \in Indices, ingresses'[m] # NoIngress,
         NEW h \in ToSet(ingresses'[m].rules)
  PROVE  \/ m \in Listed /\ h \in ToSet(Rules(m))
         \/ m = c.name /\ c.op \in {"create", "add"} /\ h \in ToSet(c.rules)
<1>1. /\ TypeInv /\ TypeOK /\ TLSMatchesRules /\ AllSound /\ calls[w] # <<>>
  BY DEF AskInv, TLSInv, TypeInv, Makes
<1>2. Asked(c, job[w].remove)
  BY <1>1, HeadIs DEF AskInv, AllAsked
<1>3. CASE m # c.name
  <2>1. ingresses'[m] = ingresses[m]
    BY <1>1, <1>3, RulesAfter
  <2>2. QED
    BY <2>1 DEF Listed, Rules
<1>4. CASE m = c.name /\ c.op \in {"create", "replace"}
  <2>1. h \in ToSet(c.rules)
    BY <1>1, <1>4, RulesAfter
  <2>2. CASE c.op = "create"
    BY <1>4, <2>1, <2>2
  <2>3. CASE c.op = "replace"
    BY <1>1, <1>2, <1>4, <2>1, <2>3, RulesAfter DEF Asked
  <2>4. QED
    BY <1>4, <2>2, <2>3
<1>5. CASE m = c.name /\ c.op = "add"
  <2>1. m \in Listed /\ ingresses'[m].rules = Rules(m) \o c.rules /\ c \in Call
    BY <1>1, <1>5, RulesAfter
  <2>2. Rules(m) \in Seq(Hosts) /\ c.rules \in Seq(Hosts)
    BY <1>1, <2>1, ListedRules DEF Call
  <2>3. ToSet(Rules(m) \o c.rules) = ToSet(Rules(m)) \cup ToSet(c.rules)
    BY <2>2, ToSetConcat
  <2>4. QED
    BY <1>5, <2>1, <2>3
<1>6. CASE m = c.name /\ c.op = "remove"
  <2> DEFINE r == Rules(m)
             j == c.rule
  <2>1. /\ m \in Listed /\ j \in 1 .. Len(r)
        /\ ingresses'[m].rules = RemoveAt(r, j)
    BY <1>1, <1>6, RulesAfter
  <2>2. r \in Seq(Hosts) /\ DOMAIN r = 1 .. Len(r)
    BY <1>1, <2>1, ListedRules
  <2> HIDE DEF r, j
  <2>3. ToSet(RemoveAt(r, j)) = {r[i] : i \in (1 .. Len(r)) \ {j}}
    BY <2>1, <2>2, Removed
  <2>4. h \in ToSet(r)
    BY <2>1, <2>2, <2>3 DEF ToSet
  <2>5. QED
    BY <2>1, <2>4 DEF r
<1>7. CASE m = c.name /\ c.op = "update"
  BY <1>1, <1>7, RulesAfter
<1>8. c \in Call /\ (m = c.name => c.op # "delete")
  BY <1>1, RulesAfter
<1>9. QED
  BY <1>3, <1>4, <1>5, <1>6, <1>7, <1>8 DEF Call, Ops

LEMMA MakesSingle ==
  ASSUME AskInv, Single, NEW w \in Writers, New(calls[w]),
         Makes(w, Head(calls[w]))
  PROVE  Single'
<1>1. PICK c : c = Head(calls[w])
  OBVIOUS
<1>2. /\ TypeInv /\ TypeOK /\ TLSMatchesRules /\ AllSound /\ Makes(w, c)
      /\ calls[w] # <<>>
  BY <1>1 DEF AskInv, TLSInv, TypeInv, Makes
<1>3. 1 \in DOMAIN calls[w] /\ c = calls[w][1]
  BY <1>1, <1>2, HeadIs
<1>4. /\ c.op \in {"create", "add", "replace"} => Once(c.rules)
      /\ c.op \in {"create", "add"} => ToSet(c.rules) \cap Served = {}
  BY <1>3 DEF New
<1>5. c \in Call /\ c.rules \in Seq(Hosts) /\ c.op \in Ops
  <2>1. c \in Call
    BY <1>1, <1>2, HeadIs
  <2>2. QED
    BY <2>1 DEF Call
<1>6. ASSUME NEW m \in Indices, ingresses'[m] # NoIngress
      PROVE  Once(ingresses'[m].rules)
  <2>1. CASE m # c.name
    <3>1. ingresses'[m] = ingresses[m]
      BY <1>1, <1>2, <2>1, RulesAfter
    <3>2. m \in Listed
      BY <1>6, <3>1 DEF Listed
    <3>3. QED
      BY <3>1, <3>2 DEF Single, Rules
  <2>2. CASE m = c.name /\ c.op \in {"create", "replace"}
    BY <1>1, <1>2, <1>4, <2>2, RulesAfter
  <2>3. CASE m = c.name /\ c.op = "add"
    <3>1. m \in Listed /\ ingresses'[m].rules = Rules(m) \o c.rules
      BY <1>1, <1>2, <2>3, RulesAfter
    <3>2. Rules(m) \in Seq(Hosts) /\ Once(Rules(m)) /\ ToSet(Rules(m)) \subseteq Served
      BY <1>2, <3>1, ListedRules, ServedIs DEF Single
    <3>3. Once(Rules(m) \o c.rules)
      BY <1>4, <1>5, <2>3, <3>2, OnceConcat
    <3>4. QED
      BY <3>1, <3>3
  <2>4. CASE m = c.name /\ c.op = "remove"
    <3>1. /\ m \in Listed /\ c.rule \in 1 .. Len(Rules(m))
          /\ ingresses'[m].rules = RemoveAt(Rules(m), c.rule)
      BY <1>1, <1>2, <2>4, RulesAfter
    <3>2. Rules(m) \in Seq(Hosts) /\ Once(Rules(m))
      BY <1>2, <3>1, ListedRules DEF Single
    <3>3. QED
      BY <3>1, <3>2, OnceRemoved
  <2>5. CASE m = c.name /\ c.op = "update"
    <3>1. m \in Listed /\ ingresses'[m].rules = Rules(m)
      BY <1>1, <1>2, <2>5, RulesAfter
    <3>2. QED
      BY <3>1 DEF Single
  <2>6. m = c.name => c.op # "delete"
    BY <1>1, <1>2, <1>6, RulesAfter
  <2>7. QED
    BY <1>5, <2>1, <2>2, <2>3, <2>4, <2>5, <2>6 DEF Ops
<1>7. ASSUME NEW m \in Indices, ingresses'[m] # NoIngress,
             NEW n \in Indices, ingresses'[n] # NoIngress, m # n,
             NEW h \in ToSet(ingresses'[m].rules), h \in ToSet(ingresses'[n].rules)
      PROVE  FALSE
  <2>1. \/ m \in Listed /\ h \in ToSet(Rules(m))
        \/ m = c.name /\ c.op \in {"create", "add"} /\ h \in ToSet(c.rules)
    BY <1>1, <1>2, <1>7, HostsAfter
  <2>2. \/ n \in Listed /\ h \in ToSet(Rules(n))
        \/ n = c.name /\ c.op \in {"create", "add"} /\ h \in ToSet(c.rules)
    BY <1>1, <1>2, <1>7, HostsAfter
  <2>3. QED
    BY <1>4, <1>7, <2>1, <2>2, ServedIs DEF Single
<1>8. QED
  BY <1>6, <1>7 DEF Single, Listed, Rules

LEMMA RestNew ==
  ASSUME AskInv, NEW w \in Writers, New(calls[w]),
         Makes(w, Head(calls[w])), calls'[w] = Tail(calls[w])
  PROVE  New(calls[w])'
<1>1. PICK c : c = Head(calls[w])
  OBVIOUS
<1>2. /\ TypeInv /\ Makes(w, c) /\ calls[w] # <<>>
  BY <1>1 DEF AskInv, TLSInv, Makes
<1>3. 1 \in DOMAIN calls[w] /\ c = calls[w][1]
  BY <1>1, <1>2, HeadIs
<1>4. \A i \in DOMAIN calls'[w] :
        /\ i \in Nat /\ i + 1 # 1 /\ i + 1 \in DOMAIN calls[w]
        /\ calls'[w][i] = calls[w][i + 1]
  BY <1>2, HeadIs
<1>5. ASSUME NEW a \in DOMAIN calls'[w], calls'[w][a].op \in {"create", "add"}
      PROVE  ToSet(calls'[w][a].rules) \cap Served' = {}
  <2> SUFFICES ASSUME NEW h \in ToSet(calls'[w][a].rules), h \in Served' PROVE FALSE
    OBVIOUS
  <2>1. PICK m \in Indices : ingresses'[m] # NoIngress /\ h \in ToSet(ingresses'[m].rules)
    BY ServedIs
  <2>2. \/ m \in Listed /\ h \in ToSet(Rules(m))
        \/ c.op \in {"create", "add"} /\ h \in ToSet(c.rules)
    BY <1>1, <1>2, <2>1, HostsAfter
  <2>3. h \notin Served
    BY <1>4, <1>5 DEF New
  <2>4. c.op \in {"create", "add"} => h \notin ToSet(c.rules)
    BY <1>3, <1>4, <1>5 DEF New
  <2>5. QED
    BY <2>2, <2>3, <2>4, ServedIs
<1>6. \A a \in DOMAIN calls'[w] :
        /\ calls'[w][a].op \in {"create", "add", "replace"} => Once(calls'[w][a].rules)
        /\ calls'[w][a].op \in {"create", "add"} =>
             \A b \in DOMAIN calls'[w] :
               calls'[w][b].op \in {"create", "add"} /\ a # b =>
                 ToSet(calls'[w][a].rules) \cap ToSet(calls'[w][b].rules) = {}
  <2>1. \A a, b \in DOMAIN calls'[w] : a # b => a + 1 # b + 1
    BY <1>4
  <2>2. QED
    BY <1>4, <2>1 DEF New
<1>7. QED
  BY <1>5, <1>6 DEF New

LEMMA RuleStep ==
  ASSUME AskInv, OneRule, OneWriter, [Next]_vars
  PROVE  OneRule'
<1> SUFFICES ASSUME ~SharedHosts
             PROVE  Single' /\ \A w \in Writers : New(calls[w])'
  BY DEF OneRule
<1>1. TypeInv /\ TypeOK /\ Single /\ \A w \in Writers : New(calls[w])
  BY DEF AskInv, TLSInv, TypeInv, OneRule
<1>2. ASSUME UNCHANGED ingresses PROVE Single'
  BY <1>1, <1>2 DEF Single, Listed, Rules
<1>3. ASSUME NEW w \in Writers, calls'[w] = <<>> PROVE New(calls[w])'
  BY <1>3 DEF New
<1>4. ASSUME NEW w \in Writers, UNCHANGED ingresses, New(calls'[w]) PROVE New(calls[w])'
  BY <1>4 DEF New, Served, Listed, Rules
<1>5. CASE UNCHANGED vars
  BY <1>1, <1>2, <1>4, <1>5 DEF vars
<1>6. ASSUME NEW w \in Writers, NEW add \in SUBSET Hosts, NEW remove \in SUBSET Ids,
             NEW batch \in BOOLEAN, NEW cs,
             Start(w, add, remove, batch, cs), Plan(add, remove, batch, cs)
      PROVE  Single' /\ New(calls[w])'
  <2>1. UNCHANGED ingresses /\ calls'[w] = cs
    BY <1>1, <1>6 DEF Start, TypeOK
  <2>2. New(cs)
    BY <1>1, <1>6, PlanNew
  <2>3. QED
    BY <1>2, <1>4, <2>1, <2>2
<1>7. ASSUME NEW w \in Writers, Serve(w), Makes(w, Head(calls[w]))
      PROVE  Single' /\ New(calls[w])'
  <2>1. calls'[w] = Tail(calls[w])
    BY <1>1, <1>7 DEF Serve, TypeOK
  <2>2. QED
    BY <1>1, <1>7, <2>1, MakesSingle, RestNew
<1>8. ASSUME NEW w \in Writers, Fail(w),
             UNCHANGED ingresses \/ Makes(w, Head(calls[w]))
      PROVE  Single' /\ New(calls[w])'
  <2>1. calls'[w] = <<>>
    BY <1>1, <1>8 DEF Fail, TypeOK
  <2>2. QED
    BY <1>1, <1>2, <1>3, <1>8, <2>1, MakesSingle
<1>9. ASSUME NEW w \in Writers, Return(w) PROVE Single' /\ New(calls[w])'
  BY <1>2, <1>3, <1>9 DEF Return
<1>10. QED
  BY <1>1, <1>5, <1>6, <1>7, <1>8, <1>9, StepKinds DEF OneWriter

LEMMA PlanDue ==
  ASSUME TypeOK, IdsDiffer, ~SharedHosts => Single,
         NEW add \in SUBSET Hosts, NEW remove, NEW batch \in BOOLEAN, NEW cs,
         Plan(add, remove, batch, cs)
  PROVE  Due(add, remove, batch, TRUE, cs)
<1>1. ASSUME NEW h \in Hosts, cs = ProvisionCalls(h), add = {h}, remove = {}
      PROVE  Due(add, remove, batch, TRUE, cs)
  <2>1. PICK c \in AnyCall :
           /\ cs = <<c>>
           /\ \/ \E n \in Listed : \E j \in DOMAIN Rules(n) : c = UpdateRule(n, j, h)
              \/ \E n \in WithCapacity : c = PatchAddRules(n, <<h>>)
              \/ c = CreateIngress(Cardinality(Listed), <<h>>)
    BY <1>1, ProvisionPlan
  <2>2. <<h>> \in Seq(Hosts)
    OBVIOUS
  <2>3. c.op \in {"update", "add", "create"} /\ c.rules = <<h>>
    <3>1. ASSUME NEW n \in Listed, NEW j \in DOMAIN Rules(n), c = UpdateRule(n, j, h)
          PROVE  c.op = "update" /\ c.rules = <<h>>
      BY <3>1, UpdateRuleType
    <3>2. ASSUME NEW n \in WithCapacity, c = PatchAddRules(n, <<h>>)
          PROVE  c.op = "add" /\ c.rules = <<h>>
      <4>1. n \in Nat
        BY ListedFinite DEF WithCapacity
      <4>2. QED
        BY <2>2, <3>2, <4>1, PatchAddRulesType
    <3>3. ASSUME c = CreateIngress(Cardinality(Listed), <<h>>)
          PROVE  c.op = "create" /\ c.rules = <<h>>
      BY <2>2, <3>3, CreateIngressType, ListedFinite
    <3>4. QED
      BY <2>1, <3>1, <3>2, <3>3
  <2>4. h \in ToSet(<<h>>)
    BY DEF ToSet
  <2>5. Gives(c, h)
    BY <2>3, <2>4 DEF Gives
  <2>6. DOMAIN cs = {1} /\ cs[1] = c
    BY <2>1
  <2>7. QED
    BY <1>1, <2>5, <2>6 DEF Due
<1>2. ASSUME NEW id, cs = DeprovisionCalls(id), add = {}, remove = {id}, ~batch
      PROVE  Due(add, remove, batch, TRUE, cs)
  <2>1. CASE /\ cs = <<>>
             /\ \A n \in Listed : \A j \in DOMAIN Rules(n) : IdOf[Rules(n)[j]] # id
    <3>1. \A n \in Listed : \A h \in ToSet(Rules(n)) : IdOf[h] # id
      BY <2>1 DEF ToSet
    <3>2. QED
      BY <1>2, <2>1, <3>1 DEF Due
  <2>2. ASSUME NEW c \in AnyCall, cs = <<c>>,
               NEW n \in Listed, NEW j \in DOMAIN Rules(n), IdOf[Rules(n)[j]] = id,
               c = IF Len(Rules(n)) = 1 THEN DeleteIngress(n)
                   ELSE PatchRemoveRule(n, j)
        PROVE  Due(add, remove, batch, TRUE, cs)
    <3>1. c.name = n /\ (c.op = "delete" \/ (c.op = "remove" /\ c.rule = j))
      <4>1. CASE Len(Rules(n)) = 1
        <5>1. c.op = "delete" /\ c.name = n
          BY <2>2, <4>1, DeleteIngressType, ListedFinite
        <5>2. QED
          BY <5>1
      <4>2. CASE Len(Rules(n)) # 1
        BY <2>2, <4>2, PatchRemoveRuleType
      <4>3. QED
        BY <4>1, <4>2
    <3>2. DOMAIN cs = {1} /\ cs[1] = c
      BY <2>2
    <3>3. Rules(n)[j] \in Hosts /\ Rules(n)[j] \in ToSet(Rules(n))
      BY RuleIsHost
    <3>4. ASSUME ~SharedHosts, NEW m \in Listed, NEW h \in ToSet(Rules(m)),
                 IdOf[h] = id
          PROVE  Clears(c, m, h)
      <4>1. h \in Hosts
        <5>1. PICK i \in DOMAIN Rules(m) : h = Rules(m)[i]
          BY DEF ToSet
        <5>2. QED
          BY <5>1, RuleIsHost
      <4>2. h = Rules(n)[j]
        BY <2>2, <3>3, <3>4, <4>1 DEF IdsDiffer
      <4>3. m = n
        BY <3>3, <3>4, <4>2 DEF Single
      <4>4. QED
        BY <3>1, <4>2, <4>3 DEF Clears
    <3>5. QED
      BY <1>2, <3>1, <3>2, <3>4 DEF Due
  <2>3. QED
    BY <1>2, <2>1, <2>2, DeprovisionPlan
<1>3. ASSUME NEW hs \in Seq(Hosts), NEW o \in PackingOrders,
             cs = BatchProvisionCalls(hs, o), add = ToSet(hs), remove = {}
      PROVE  Due(add, remove, batch, TRUE, cs)
  <2>1. /\ \A a \in DOMAIN cs : Carries(cs[a], hs)
        /\ \A h \in ToSet(hs) : \E a \in DOMAIN cs : h \in ToSet(cs[a].rules)
    BY <1>3, BatchProvisionPlan
  <2>2. \A a \in DOMAIN cs : cs[a].op \in {"create", "add"}
    BY <2>1 DEF Carries
  <2>3. \A h \in add : \E a \in DOMAIN cs : Gives(cs[a], h)
    BY <1>3, <2>1, <2>2 DEF Gives
  <2>4. QED
    BY <1>3, <2>3 DEF Due
<1>4. ASSUME NEW ids \in SUBSET Ids, cs = BatchDeprovisionCalls(ids), add = {},
             remove = ids
      PROVE  Due(add, remove, batch, TRUE, cs)
  <2>1. ASSUME NEW i \in DOMAIN cs
        PROVE  cs[i].op \in {"delete", "replace"}
    <3> DEFINE n == cs[i].name
               k == PatchReplaceSpec(n, ids)
    <3>1. n \in Listed /\ cs[i] = IF k.rules = <<>> THEN DeleteIngress(n) ELSE k
      BY <1>4, BatchDeprovisionPlan
    <3>2. k.op = "replace"
      BY <3>1, ReplaceSpecType
    <3> HIDE DEF n, k
    <3>3. DeleteIngress(n).op = "delete"
      BY <3>1, DeleteIngressType, ListedFinite
    <3>4. QED
      BY <3>1, <3>2, <3>3
  <2>2. ASSUME NEW n \in Listed, NEW h \in ToSet(Rules(n)), IdOf[h] \in ids
        PROVE  \E i \in DOMAIN cs : Clears(cs[i], n, h)
    <3>1. PICK j \in DOMAIN Rules(n) : h = Rules(n)[j]
      BY DEF ToSet
    <3>2. PICK i \in DOMAIN cs : cs[i].name = n
      BY <1>4, <2>2, <3>1, BatchDeprovisionPlan
    <3>3. cs[i].op \in {"delete", "replace"}
      BY <2>1
    <3>4. Clears(cs[i], n, h)
      BY <3>2, <3>3 DEF Clears
    <3>5. QED
      BY <3>4
  <2>3. QED
    BY <1>4, <2>1, <2>2 DEF Due
<1>5. QED
  BY <1>1, <1>2, <1>3, <1>4 DEF Plan

\* A host that a call has a rule for is served once the call took effect.
LEMMA GivesHost ==
  ASSUME AskInv, NEW w \in Writers, NEW c, c = Head(calls[w]), Makes(w, c),
         NEW h, Gives(c, h)
  PROVE  h \in Served'
<1>1. /\ TypeInv /\ TypeOK /\ TLSMatchesRules /\ AllSound
  BY DEF AskInv, TLSInv, TypeInv
<1>2. /\ c \in Call /\ c.name \in Indices /\ h \in ToSet(c.rules)
      /\ c.op \in {"create", "add", "update"} /\ ingresses'[c.name] # NoIngress
  BY <1>1, RulesAfter DEF Gives
<1>3. h \in ToSet(ingresses'[c.name].rules)
  <2>1. CASE c.op = "create"
    BY <1>1, <1>2, <2>1, RulesAfter
  <2>2. CASE c.op = "add"
    <3>1. /\ c.name \in Listed
          /\ ingresses'[c.name].rules = Rules(c.name) \o c.rules
      BY <1>1, <2>2, RulesAfter
    <3>2. Rules(c.name) \in Seq(Hosts) /\ c.rules \in Seq(Hosts)
      BY <1>1, <1>2, <3>1, ListedRules DEF Call
    <3>3. ToSet(Rules(c.name) \o c.rules) = ToSet(Rules(c.name)) \cup ToSet(c.rules)
      BY <3>2, ToSetConcat
    <3>4. QED
      BY <1>2, <3>1, <3>3
  <2>3. CASE c.op = "update"
    <3>1. /\ c.name \in Listed /\ c.rule \in DOMAIN Rules(c.name)
          /\ c.rules = <<Rules(c.name)[c.rule]>>
          /\ ingresses'[c.name].rules = Rules(c.name)
      BY <1>1, <2>3, RulesAfter
    <3>2. h = Rules(c.name)[c.rule]
      BY <1>2, <3>1 DEF ToSet
    <3>3. QED
      BY <1>1, <3>1, <3>2, RuleIsHost
  <2>4. QED
    BY <1>2, <2>1, <2>2, <2>3
<1>4. QED
  BY <1>2, <1>3, ServedIs

\* What an operation's next call leaves undone is for the calls after it.
LEMMA MakesDue ==
  ASSUME AskInv, OneRule, NEW w \in Writers, Makes(w, Head(calls[w])),
         Due(job[w].add, job[w].remove, job[w].batch, job[w].ok, calls[w]),
         calls'[w] = Tail(calls[w]), job'[w] = job[w]
  PROVE  Due(job[w].add, job[w].remove, job[w].batch, job[w].ok, calls[w])'
<1>1. PICK c : c = Head(calls[w])
  OBVIOUS
<1>2. PICK add, remove, batch, ok : /\ add = job[w].add /\ remove = job[w].remove
                                    /\ batch = job[w].batch /\ ok = job[w].ok
  OBVIOUS
<1>3. /\ TypeInv /\ TypeOK /\ TLSMatchesRules /\ AllSound /\ CapInv /\ Makes(w, c)
      /\ calls[w] # <<>> /\ Due(add, remove, batch, ok, calls[w])
  BY <1>1, <1>2 DEF AskInv, TLSInv, TypeInv, Makes
<1>4. 1 \in DOMAIN calls[w] /\ c = calls[w][1]
  BY <1>1, <1>3, HeadIs
<1>5. \A i \in DOMAIN calls'[w] :
        i + 1 \in DOMAIN calls[w] /\ calls'[w][i] = calls[w][i + 1]
  BY <1>3, HeadIs
<1>6. \A i \in DOMAIN calls[w] :
        i = 1 \/ \E k \in DOMAIN calls'[w] : calls'[w][k] = calls[w][i]
  <2>1. /\ DOMAIN calls[w] = 1 .. Len(calls[w]) /\ Len(calls[w]) \in Nat
        /\ DOMAIN calls'[w] = 1 .. Len(calls[w]) - 1
    BY <1>3, HeadIs
  <2> SUFFICES ASSUME NEW i \in DOMAIN calls[w], i # 1
               PROVE  \E k \in DOMAIN calls'[w] : calls'[w][k] = calls[w][i]
    OBVIOUS
  <2>2. i - 1 \in DOMAIN calls'[w] /\ (i - 1) + 1 = i
    BY <2>1
  <2>3. QED
    BY <1>5, <2>2
<1>7. remove # {} =>
        /\ c.op \in {"delete", "replace", "remove"}
        /\ \A i \in DOMAIN calls'[w] : calls'[w][i].op \in {"delete", "replace", "remove"}
  BY <1>3, <1>4, <1>5 DEF Due
<1>8. ASSUME ok, NEW h \in add
      PROVE  h \in Served' \/ \E k \in DOMAIN calls'[w] : Gives(calls'[w][k], h)
  <2>1. remove = {}
    BY <1>3, <1>8 DEF Due
  <2>2. CASE h \in Served
    BY <1>1, <1>2, <1>3, <2>1, <2>2, HostsKept
  <2>3. ASSUME NEW i \in DOMAIN calls[w], Gives(calls[w][i], h)
        PROVE  h \in Served' \/ \E k \in DOMAIN calls'[w] : Gives(calls'[w][k], h)
    <3>1. CASE i = 1
      BY <1>1, <1>3, <1>4, <2>3, <3>1, GivesHost
    <3>2. CASE i # 1
      BY <1>6, <2>3, <3>2
    <3>3. QED
      BY <3>1, <3>2
  <2>4. QED
    BY <1>3, <1>8, <2>2, <2>3 DEF Due
<1>9. ASSUME ok, batch \/ ~SharedHosts, NEW n \in Indices,
             ingresses'[n] # NoIngress, NEW h \in ToSet(ingresses'[n].rules),
             IdOf[h] \in remove
      PROVE  \E k \in DOMAIN calls'[w] :
               /\ calls'[w][k].name = n
               /\ \/ calls'[w][k].op \in {"delete", "replace"}
                  \/ /\ calls'[w][k].op = "remove"
                     /\ ingresses'[n].rules[calls'[w][k].rule] = h
  <2>1. c.op \in {"delete", "replace", "remove"} /\ remove # {}
    BY <1>7, <1>9
  <2>2. n \in Listed /\ h \in ToSet(Rules(n))
    BY <1>1, <1>3, <1>9, <2>1, HostsAfter
  <2>3. PICK i \in DOMAIN calls[w] : Clears(calls[w][i], n, h)
    BY <1>3, <1>9, <2>2 DEF Due
  <2>4. CASE i = 1
    <3>1. Clears(c, n, h) /\ c.name = n
      BY <1>4, <2>3, <2>4 DEF Clears
    <3>2. Asked(c, remove)
      BY <1>2, <1>4 DEF AskInv, AllAsked
    <3>3. CASE c.op = "delete"
      BY <1>1, <1>3, <1>9, <3>1, <3>3, RulesAfter
    <3>4. CASE c.op = "replace"
      <4>1. ingresses'[n].rules = c.rules
        BY <1>1, <1>3, <3>1, <3>4, RulesAfter
      <4>2. ToSet(c.rules) = {g \in ToSet(Rules(n)) : IdOf[g] \notin remove}
        BY <3>1, <3>2, <3>4 DEF Asked
      <4>3. QED
        BY <1>9, <4>1, <4>2
    <3>5. CASE c.op = "remove"
      <4>1. /\ ingresses'[n].rules = RemoveAt(Rules(n), c.rule)
            /\ c.rule \in 1 .. Len(Rules(n)) /\ Rules(n)[c.rule] = h
        BY <1>1, <1>3, <3>1, <3>5, RulesAfter DEF Clears
      <4>2. ~batch
        BY <1>2, <1>3, <1>4, <3>5 DEF AllSound, Sound
      <4>3. Once(Rules(n)) /\ Rules(n) \in Seq(Hosts)
        BY <1>3, <1>9, <2>2, <4>2, ListedRules DEF OneRule, Single
      <4>4. h \notin ToSet(RemoveAt(Rules(n), c.rule))
        BY <4>1, <4>3, OnceRemoved
      <4>5. QED
        BY <1>9, <4>1, <4>4
    <3>6. QED
      BY <2>1, <3>3, <3>4, <3>5
  <2>5. CASE i # 1
    <3>1. PICK k \in DOMAIN calls'[w] : calls'[w][k] = calls[w][i]
      BY <1>6, <2>5
    <3>2. calls'[w][k].op # "create" /\ calls'[w][k].name = n
      BY <2>3, <3>1 DEF Clears
    <3>3. ingresses'[n] = ingresses[n]
      BY <1>3, <3>2, RestElsewhere
    <3>4. QED
      BY <2>3, <3>1, <3>3 DEF Clears, Rules
  <2>6. QED
    BY <2>4, <2>5
<1>10. /\ add = job'[w].add /\ remove = job'[w].remove
       /\ batch = job'[w].batch /\ ok = job'[w].ok
  BY <1>2
<1>11. add = {} \/ remove = {}
  BY <1>3 DEF Due
<1>12. ok => \A h \in add :
         h \in Served' \/ \E k \in DOMAIN calls'[w] : Gives(calls[w][k], h)'
  BY <1>8 DEF Gives
<1>13. ok /\ (batch \/ ~SharedHosts) =>
         \A n \in Listed' : \A h \in ToSet(Rules(n))' :
           IdOf[h] \in remove =>
             \E k \in DOMAIN calls'[w] : Clears(calls[w][k], n, h)'
  BY <1>9 DEF Clears, Listed, Rules
<1>14. QED
  BY <1>7, <1>10, <1>11, <1>12, <1>13 DEF Due

LEMMA DueStep ==
  ASSUME DoneInv, OneWriter, IdsDiffer, [Next]_vars
  PROVE  AllDue'
<1>1. TypeInv /\ TypeOK /\ AskInv /\ OneRule /\ AllDue
  BY DEF DoneInv, AskInv, TLSInv, TypeInv
<1>2. ASSUME NEW w \in Writers, UNCHANGED ingresses,
             Due(job'[w].add, job'[w].remove, job'[w].batch, job'[w].ok, calls'[w])
      PROVE  Due(job[w].add, job[w].remove, job[w].batch, job[w].ok, calls[w])'
  BY <1>2 DEF Due, Clears, Served, Listed, Rules
<1>3. CASE UNCHANGED vars
  BY <1>1, <1>2, <1>3 DEF vars, AllDue
<1>4. ASSUME NEW w \in Writers, NEW add \in SUBSET Hosts, NEW remove \in SUBSET Ids,
             NEW batch \in BOOLEAN, NEW cs,
             Start(w, add, remove, batch, cs), Plan(add, remove, batch, cs)
      PROVE  Due(job[w].add, job[w].remove, job[w].batch, job[w].ok, calls[w])'
  <2>1. /\ UNCHANGED ingresses /\ calls'[w] = cs
        /\ job'[w] = [add |-> add, remove |-> remove, batch |-> batch, ok |-> TRUE]
    BY <1>1, <1>4 DEF Start, TypeOK
  <2>2. Due(add, remove, batch, TRUE, cs)
    BY <1>1, <1>4, PlanDue DEF OneRule
  <2>3. /\ job'[w].add = add /\ job'[w].remove = remove
        /\ job'[w].batch = batch /\ job'[w].ok = TRUE
    BY <2>1
  <2>4. QED
    BY <1>2, <2>1, <2>2, <2>3
<1>5. ASSUME NEW w \in Writers, Serve(w), Makes(w, Head(calls[w]))
      PROVE  Due(job[w].add, job[w].remove, job[w].batch, job[w].ok, calls[w])'
  <2>1. calls'[w] = Tail(calls[w]) /\ job'[w] = job[w]
    BY <1>1, <1>5 DEF Serve, TypeOK
  <2>2. job[w] # Idle
    BY <1>1, <1>5 DEF TypeInv, Quiet, Makes
  <2>3. QED
    BY <1>1, <1>5, <2>1, <2>2, MakesDue DEF AllDue
<1>6. ASSUME NEW w \in Writers, calls[w] # <<>>, Fail(w)
      PROVE  Due(job[w].add, job[w].remove, job[w].batch, job[w].ok, calls[w])'
  <2>1. job[w] \in Job /\ job[w] # Idle
    BY <1>1, <1>6, IngressAssumption DEF TypeInv, TypeOK, Quiet
  <2>2. calls'[w] = <<>> /\ job'[w] = [job[w] EXCEPT !.ok = FALSE]
    BY <1>1, <1>6 DEF Fail, TypeOK
  <2>3. job'[w].add = job[w].add /\ job'[w].remove = job[w].remove /\ ~job'[w].ok
    BY <2>1, <2>2 DEF Job
  <2>4. job[w].add = {} \/ job[w].remove = {}
    BY <1>1, <2>1 DEF AllDue, Due
  <2>5. QED
    BY <2>2, <2>3, <2>4 DEF Due
<1>7. ASSUME NEW w \in Writers, Return(w) PROVE job'[w] = Idle
  BY <1>1, <1>7 DEF Return, TypeOK
<1>8. QED
  BY <1>1, <1>3, <1>4, <1>5, <1>6, <1>7, StepKinds DEF OneWriter, AllDue

\* An operation that returns without an error has done what it was asked for,
\* while one goroutine writes and no two hosts have the same id: every route of
\* a batch is in an existing Ingress or in a new one, whichever order the
\* packing takes; and no route that was to go is served by any Ingress.
THEOREM OperationDone ==
  ASSUME OneWriter, IdsDiffer
  PROVE  Spec => []DoneAsAsked
<1>1. Init => DoneInv
  <2>1. ASSUME Init PROVE DoneInv
    <3>1. AskInv
      BY <2>1, AskInit
    <3>2. OneRule
      BY <2>1 DEF Init, OneRule, Single, New, Listed
    <3>3. AllDue
      BY <2>1 DEF Init, AllDue
    <3>4. QED
      BY <3>1, <3>2, <3>3 DEF DoneInv
  <2>2. QED
    BY <2>1
<1>2. DoneInv /\ [Next]_vars => DoneInv'
  BY AskStep, RuleStep, DueStep DEF DoneInv
<1>3. DoneInv => DoneAsAsked
  <2>1. ASSUME DoneInv, NEW w \in Writers, job[w] # Idle, calls[w] = <<>>, job[w].ok
        PROVE  /\ job[w].add \subseteq Served
               /\ job[w].batch \/ ~SharedHosts =>
                    \A h \in Served : IdOf[h] \notin job[w].remove
    <3>1. Due(job[w].add, job[w].remove, job[w].batch, job[w].ok, calls[w])
      BY <2>1 DEF DoneInv, AllDue
    <3>2. DOMAIN calls[w] = {}
      BY <2>1
    <3>3. QED
      BY <2>1, <3>1, <3>2, ServedIs DEF Due
  <2>2. QED
    BY <2>1 DEF DoneAsAsked
<1>4. QED
  BY <1>1, <1>2, <1>3, PTL DEF Spec
=============================================================================
