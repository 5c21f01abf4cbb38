-------------------------- MODULE NetscalerProofs --------------------------
(***************************************************************************)
(* Type correctness of NetscalerProvisioner, that nothing on the appliance *)
(* ever refers to what is not there, and that an operation without an      *)
(* error has done what it was made for, for all routes, backends and       *)
(* batches.                                                                *)
(***************************************************************************)
EXTENDS NetscalerProvisioner, FiniteSetTheorems, SequenceTheorems,
        WellFoundedInduction, TLAPS

-----------------------------------------------------------------------------
(* Induction, as a property of sets of numbers. *)

LEMMA LeastNumber ==
  ASSUME NEW T \in SUBSET Nat, T # {}
  PROVE  \E x \in T : \A y \in T : ~(y < x)
<1>1. \E x \in T : \A y \in T : ~(<<y, x>> \in OpToRel(<, Nat))
  BY ONLY T \in SUBSET Nat, T # {}, NatLessThanWellFounded, WFMin
<1>2. PICK x \in T : \A y \in T : ~(<<y, x>> \in OpToRel(<, Nat))
  BY <1>1
<1>3. \A y \in T : ~(y < x)
  BY <1>2 DEF OpToRel
<1>4. QED
  BY <1>3

LEMMA UpTo ==
  ASSUME NEW n \in Nat, NEW S, 0 \in S, \A k \in 1 .. n : k - 1 \in S => k \in S
  PROVE  \A k \in 0 .. n : k \in S
<1> SUFFICES ASSUME \E k \in 0 .. n : k \notin S PROVE FALSE
  OBVIOUS
<1> DEFINE T == {k \in Nat : k <= n /\ k \notin S}
<1>1. T \in SUBSET Nat /\ T # {}
  OBVIOUS
<1>2. PICK x \in T : \A y \in T : ~(y < x)
  <2> HIDE DEF T
  <2>1. QED
    BY <1>1, LeastNumber
<1>3. x \in 1 .. n /\ x \notin S /\ x - 1 \in Nat /\ x - 1 <= n
  OBVIOUS
<1>4. x - 1 \in S
  <2>1. x - 1 \notin T
    BY <1>2, <1>3
  <2>2. QED
    BY <1>3, <2>1
<1>5. QED
  BY <1>3, <1>4

-----------------------------------------------------------------------------
(* The inductive invariant. *)

Operations == [action : Actions, obj : Objects]

\* Nothing refers to what is not there.
Closed(c) == \A o \in c : Needs(o) \subseteq c

\* What leaves every configuration closed that accepts it.
Free(op) ==
  \/ op.action \in {"add", "bind"}
  \/ op.action = "unbind" /\ op.obj.kind = "sslcertkey_binding"
  \/ op.action = "delete" /\ op.obj.kind = "lbvserver"

\* What leaves c closed: of a deletion, all that refers to the object is gone.
Ready(c, op) ==
  \/ Free(op)
  \/ /\ op.action = "delete" /\ op.obj.kind = "sslcertkey"
     /\ Object("lbvserver", op.obj.host, 0) \notin c
  \/ /\ op.action = "delete" /\ op.obj.kind \in {"crt", "key"}
     /\ Object("sslcertkey", op.obj.host, 0) \notin c

\* What is ready once op is done.
Follows(op, next) ==
  \/ Free(next)
  \/ /\ op.action = "delete" /\ next.action = "delete"
     /\ op.obj.host = next.obj.host
     /\ <<op.obj.kind, next.obj.kind>> \in
          {<<"lbvserver", "sslcertkey">>, <<"sslcertkey", "crt">>, <<"crt", "key">>}

Orderly(ops) ==
  /\ ops # <<>>
  /\ \A k \in 1 .. Len(ops) - 1 : Follows(ops[k], ops[k + 1])

\* What the mapper makes of a route, of several, or of none.
Mapped(ops) == ops # <<>> => Orderly(ops) /\ Free(ops[1])

\* The requests to come are orderly, within and from one to the next, and a
\* cycle, which goes on after a failure, has two that depend on nothing.
InOrder ==
  /\ \A i \in DOMAIN requests : Orderly(requests[i])
  /\ \A i \in 1 .. Len(requests) - 1 :
       Follows(requests[i][Len(requests[i])], requests[i + 1][1])
  /\ job.kind = "cycle" => \A i \in DOMAIN requests : Free(requests[i][1])
  /\ requests # <<>> => Ready(config, requests[1][1])

ApplianceInv == TypeOK /\ NoDangling /\ InOrder

-----------------------------------------------------------------------------
(* What the recursive functions compute. *)

\* Through is what its equations say.
LEMMA ThroughSteps ==
  ASSUME NEW ops, Len(ops) \in Nat
  PROVE  /\ Through(ops)[0] = config
         /\ \A k \in 1 .. Len(ops) :
              Through(ops)[k] = After(Through(ops)[k - 1], ops[k])
<1> DEFINE n == Len(ops)
           Steps(f, m) == \A k \in 1 .. m : f[k] = After(f[k - 1], ops[k])
           Good(f, m) == /\ f = [k \in 0 .. m |-> f[k]]
                         /\ f[0] = config /\ Steps(f, m)
           S == {m \in 0 .. n : \E f : Good(f, m)}
<1>1. 0 \in S
  <2> DEFINE g == [k \in 0 .. 0 |-> config]
  <2>1. Good(g, 0)
    OBVIOUS
  <2>2. \E f : Good(f, 0)
    <3> HIDE DEF g, Good
    <3>1. QED
      BY <2>1
  <2>3. QED
    BY <2>2
<1>2. ASSUME NEW m \in 1 .. n, m - 1 \in S PROVE m \in S
  <2>1. PICK f : Good(f, m - 1)
    BY <1>2
  <2> DEFINE g == [k \in 0 .. m |-> IF k = m THEN After(f[m - 1], ops[m]) ELSE f[k]]
  <2>2. g[0] = config /\ g = [k \in 0 .. m |-> g[k]]
    BY <2>1
  <2>3. ASSUME NEW k \in 1 .. m PROVE g[k] = After(g[k - 1], ops[k])
    <3>1. k - 1 \in 0 .. m /\ k - 1 # m /\ k \in 0 .. m
      OBVIOUS
    <3>2. g[k - 1] = f[k - 1]
      BY <3>1
    <3>3. CASE k = m
      BY <3>1, <3>2, <3>3
    <3>4. CASE k # m
      <4>1. k \in 1 .. m - 1
        BY <3>4
      <4>2. f[k] = After(f[k - 1], ops[k])
        BY <2>1, <4>1
      <4>3. QED
        BY <3>1, <3>2, <3>4, <4>2
    <3>5. QED
      BY <3>3, <3>4
  <2>4. Good(g, m)
    <3> HIDE DEF g
    <3>1. QED
      BY <2>2, <2>3
  <2>5. \E e : Good(e, m)
    <3> HIDE DEF g, Good
    <3>1. QED
      BY <2>4
  <2>6. QED
    <3> HIDE DEF g, Good
    <3>1. m \in 0 .. n
      OBVIOUS
    <3>2. QED
      BY <2>5, <3>1
<1>3. n \in S
  <2> HIDE DEF S
  <2>1. \A m \in 1 .. n : m - 1 \in S => m \in S
    BY <1>2
  <2>2. \A k \in 0 .. n : k \in S
    BY <1>1, <2>1, UpTo
  <2>3. QED
    BY <2>2
<1>4. PICK f : Good(f, n)
  BY <1>3
<1>5. f = [k \in 0 .. Len(ops) |->
             IF k = 0 THEN config ELSE After(f[k - 1], ops[k])]
  BY <1>4
<1> DEFINE g == CHOOSE g : g = [k \in 0 .. Len(ops) |->
                  IF k = 0 THEN config ELSE After(g[k - 1], ops[k])]
<1>6. g = [k \in 0 .. Len(ops) |->
             IF k = 0 THEN config ELSE After(g[k - 1], ops[k])]
  BY <1>5
<1>7. Through(ops) = g
  BY DEF Through
<1>8. QED
  <2> HIDE DEF g
  <2>1. g[0] = config /\ \A k \in 1 .. Len(ops) : g[k] = After(g[k - 1], ops[k])
    BY <1>6
  <2>2. QED
    BY <1>7, <2>1

\* FlattenSeq puts one sequence after the other.
LEMMA FlattenSteps ==
  ASSUME NEW seqs, Len(seqs) \in Nat \ {0}
  PROVE  \E f : /\ FlattenSeq(seqs) = f[Len(seqs)] /\ f[1] = seqs[1]
                /\ \A k \in 2 .. Len(seqs) : f[k] = f[k - 1] \o seqs[k]
<1> DEFINE n == Len(seqs)
           Steps(f, m) == \A k \in 2 .. m : f[k] = f[k - 1] \o seqs[k]
           Good(f, m) == /\ f = [k \in 1 .. m |-> f[k]]
                         /\ m > 0 => f[1] = seqs[1]
                         /\ Steps(f, m)
           S == {m \in 0 .. n : \E f : Good(f, m)}
<1>1. 0 \in S
  <2> DEFINE g == [k \in 1 .. 0 |-> seqs[1]]
  <2>1. Good(g, 0)
    OBVIOUS
  <2>2. \E f : Good(f, 0)
    <3> HIDE DEF g, Good
    <3>1. QED
      BY <2>1
  <2>3. 0 \in 0 .. n
    OBVIOUS
  <2>4. QED
    <3> HIDE DEF g, Good
    <3>1. QED
      BY <2>2, <2>3
<1>2. ASSUME NEW m \in 1 .. n, m - 1 \in S PROVE m \in S
  <2>1. PICK f : Good(f, m - 1)
    BY <1>2
  <2> DEFINE joined == f[m - 1] \o seqs[m]
             g == [k \in 1 .. m |-> IF k < m THEN f[k]
                                    ELSE IF m = 1 THEN seqs[1] ELSE joined]
  <2>2. g[1] = seqs[1] /\ g = [k \in 1 .. m |-> g[k]]
    BY <2>1
  <2>3. ASSUME NEW k \in 2 .. m PROVE g[k] = g[k - 1] \o seqs[k]
    <3>1. k - 1 \in 1 .. m /\ k - 1 < m /\ k \in 1 .. m /\ m # 1
      OBVIOUS
    <3>2. g[k - 1] = f[k - 1]
      BY <3>1
    <3>3. CASE k = m
      <4>0. m \in 1 .. m /\ ~(m < m) /\ m # 1
        BY <3>1
      <4>1. g[m] = joined
        <5> HIDE DEF joined
        <5>1. QED
          BY <4>0
      <4>2. QED
        BY <3>2, <3>3, <4>1
    <3>4. CASE k # m
      <4>1. k \in 2 .. m - 1 /\ k < m
        BY <3>4
      <4>2. f[k] = f[k - 1] \o seqs[k]
        BY <2>1, <4>1
      <4>3. g[k] = f[k]
        BY <3>1, <4>1
      <4>4. QED
        BY <3>2, <4>2, <4>3
    <3>5. QED
      BY <3>3, <3>4
  <2>4. Good(g, m)
    <3> HIDE DEF g
    <3>1. QED
      BY <2>2, <2>3
  <2>5. \E e : Good(e, m)
    <3> HIDE DEF g, Good
    <3>1. QED
      BY <2>4
  <2>6. QED
    <3> HIDE DEF g, Good
    <3>1. m \in 0 .. n
      OBVIOUS
    <3>2. QED
      BY <2>5, <3>1
<1>3. n \in S
  <2> HIDE DEF S
  <2>1. \A m \in 1 .. n : m - 1 \in S => m \in S
    BY <1>2
  <2>2. \A k \in 0 .. n : k \in S
    BY <1>1, <2>1, UpTo
  <2>3. QED
    BY <2>2
<1>4. PICK f : Good(f, n)
  BY <1>3
<1>5. f = [k \in 1 .. Len(seqs) |-> IF k = 1 THEN seqs[k] ELSE f[k - 1] \o seqs[k]]
  <2>1. /\ f = [k \in 1 .. n |-> f[k]] /\ f[1] = seqs[1]
        /\ \A k \in 2 .. n : f[k] = f[k - 1] \o seqs[k]
    <3>1. n > 0
      OBVIOUS
    <3>2. QED
      <4> HIDE DEF n
      <4>1. QED
        BY <1>4, <3>1
  <2>2. ASSUME NEW k \in 1 .. n
        PROVE  f[k] = IF k = 1 THEN seqs[k] ELSE f[k - 1] \o seqs[k]
    <3>1. CASE k = 1
      BY <2>1, <3>1
    <3>2. CASE k # 1
      <4>1. k \in 2 .. n
        BY <3>2
      <4>2. QED
        BY <2>1, <3>2, <4>1
    <3>3. QED
      BY <3>1, <3>2
  <2>3. QED
    BY <2>1, <2>2
<1> DEFINE g == CHOOSE g : g = [k \in 1 .. Len(seqs) |->
                  IF k = 1 THEN seqs[k] ELSE g[k - 1] \o seqs[k]]
<1>6. g = [k \in 1 .. Len(seqs) |-> IF k = 1 THEN seqs[k] ELSE g[k - 1] \o seqs[k]]
  BY <1>5
<1>7. FlattenSeq(seqs) = g[Len(seqs)]
  BY DEF FlattenSeq
<1>8. QED
  <2> HIDE DEF g
  <2>1. 1 \in 1 .. Len(seqs)
    OBVIOUS
  <2>2. g[1] = seqs[1]
    BY <1>6, <2>1
  <2>3. ASSUME NEW k \in 2 .. Len(seqs) PROVE g[k] = g[k - 1] \o seqs[k]
    <3>1. k \in 1 .. Len(seqs) /\ k # 1
      OBVIOUS
    <3>2. QED
      BY <1>6, <3>1
  <2>4. QED
    BY <1>7, <2>2, <2>3

-----------------------------------------------------------------------------
(* Sequences of operations. *)

LEMMA Joined ==
  ASSUME NEW s \in Seq(Operations), NEW t \in Seq(Operations),
         Orderly(s), Free(s[1]), Orderly(t), Free(t[1])
  PROVE  s \o t \in Seq(Operations) /\ Orderly(s \o t) /\ Free((s \o t)[1])
<1>1. Len(s) \in Nat \ {0} /\ Len(t) \in Nat \ {0}
  BY EmptySeq DEF Orderly
<1>2. PICK j : j = s \o t
  OBVIOUS
<1>3. /\ j \in Seq(Operations) /\ Len(j) = Len(s) + Len(t)
      /\ \A i \in 1 .. Len(s) + Len(t) :
           j[i] = IF i <= Len(s) THEN s[i] ELSE t[i - Len(s)]
  BY <1>2, ConcatProperties
<1>4. j # <<>> /\ Free(j[1])
  <2>1. 1 \in 1 .. Len(s) + Len(t) /\ 1 <= Len(s) /\ Len(j) # 0
    BY <1>1, <1>3
  <2>2. QED
    BY <1>3, <2>1, EmptySeq
<1>5. ASSUME NEW k \in 1 .. Len(j) - 1 PROVE Follows(j[k], j[k + 1])
  <2>1. k \in 1 .. Len(s) + Len(t) /\ k + 1 \in 1 .. Len(s) + Len(t)
    BY <1>1, <1>3
  <2>2. CASE k + 1 <= Len(s)
    <3>1. k \in 1 .. Len(s) - 1 /\ j[k] = s[k] /\ j[k + 1] = s[k + 1]
      BY <1>1, <1>3, <2>1, <2>2
    <3>2. QED
      BY <3>1 DEF Orderly
  <2>3. CASE k = Len(s)
    <3>1. ~(k + 1 <= Len(s)) /\ k + 1 - Len(s) = 1
      BY <1>1, <2>3
    <3>2. j[k + 1] = t[1]
      BY <1>3, <2>1, <3>1
    <3>3. QED
      BY <3>2 DEF Follows
  <2>4. CASE k > Len(s)
    <3>1. PICK i \in 1 .. Len(t) - 1 : i = k - Len(s)
      <4>1. k - Len(s) \in 1 .. Len(t) - 1
        BY <1>1, <1>3, <2>4
      <4>2. QED
        BY <4>1
    <3>2. ~(k <= Len(s)) /\ ~(k + 1 <= Len(s)) /\ (k + 1) - Len(s) = i + 1
      BY <1>1, <2>4, <3>1
    <3>3. j[k] = t[i] /\ j[k + 1] = t[i + 1]
      BY <1>3, <2>1, <3>1, <3>2
    <3>4. QED
      BY <3>3 DEF Orderly
  <2>5. QED
    BY <1>1, <2>2, <2>3, <2>4
<1>6. QED
  BY <1>2, <1>3, <1>4, <1>5 DEF Orderly

LEMMA Flattened ==
  ASSUME NEW seqs, Len(seqs) \in Nat, Len(seqs) = 0 => seqs = <<>>,
         \A i \in 1 .. Len(seqs) :
           seqs[i] \in Seq(Operations) /\ Orderly(seqs[i]) /\ Free(seqs[i][1])
  PROVE  FlattenSeq(seqs) \in Seq(Operations) /\ Mapped(FlattenSeq(seqs))
<1>1. CASE Len(seqs) = 0
  <2>1. FlattenSeq(seqs) = <<>>
    BY <1>1 DEF FlattenSeq
  <2>2. QED
    BY <2>1, EmptySeq DEF Mapped
<1>2. CASE Len(seqs) # 0
  <2>1. PICK f : /\ FlattenSeq(seqs) = f[Len(seqs)] /\ f[1] = seqs[1]
                 /\ \A k \in 2 .. Len(seqs) : f[k] = f[k - 1] \o seqs[k]
    BY <1>2, FlattenSteps
  <2> DEFINE n == Len(seqs)
             Fine(s) == s \in Seq(Operations) /\ Orderly(s) /\ Free(s[1])
             S == {k \in 0 .. n : k > 0 => Fine(f[k])}
  <2>2. 0 \in S
    OBVIOUS
  <2>3. ASSUME NEW k \in 1 .. n, k - 1 \in S PROVE k \in S
    <3>1. CASE k = 1
      <4>1. Fine(f[1])
        BY <2>1, <3>1
      <4>2. QED
        BY <3>1, <4>1
    <3>2. CASE k # 1
      <4>1. k \in 2 .. n /\ k - 1 > 0 /\ k \in 0 .. n
        BY <3>2
      <4>2. f[k] = f[k - 1] \o seqs[k] /\ Fine(f[k - 1]) /\ Fine(seqs[k])
        BY <2>1, <2>3, <4>1
      <4>3. Fine(f[k - 1] \o seqs[k])
        BY <4>2, Joined
      <4>4. Fine(f[k])
        BY <4>2, <4>3
      <4>5. QED
        <5> HIDE DEF Fine
        <5>1. QED
          BY <4>1, <4>4
    <3>3. QED
      BY <3>1, <3>2
  <2>4. n \in S
    <3> HIDE DEF S
    <3>1. \A k \in 1 .. n : k - 1 \in S => k \in S
      BY <2>3
    <3>2. \A k \in 0 .. n : k \in S
      BY <2>2, <3>1, UpTo
    <3>3. QED
      BY <3>2
  <2>5. QED
    BY <1>2, <2>1, <2>4 DEF Mapped
<1>3. QED
  BY <1>1, <1>2

-----------------------------------------------------------------------------
(* One operation. *)

LEMMA ObjectFields ==
  ASSUME NEW o \in Objects
  PROVE  /\ o = Object(o.kind, o.host, o.n)
         /\ o.kind \in Kinds /\ o.host \in Hosts
         /\ IF Numbered(o) THEN o.n \in Numbers(o.host) ELSE o.n = 0
BY DEF Objects, Object

LEMMA ObjectsAre ==
  ASSUME NEW k \in Kinds, NEW h \in Hosts, NEW n,
         IF k \in {"service", "service_binding"} THEN n \in Numbers(h) ELSE n = 0
  PROVE  Object(k, h, n) \in Objects
<1>1. n \in {0} \cup UNION {Numbers(g) : g \in Hosts}
  <2>1. CASE n \in Numbers(h)
    BY <2>1
  <2>2. CASE n = 0
    BY <2>2
  <2>3. QED
    BY <2>1, <2>2
<1>2. Object(k, h, n).kind = k /\ Object(k, h, n).host = h /\ Object(k, h, n).n = n
  BY DEF Object
<1>3. IF Numbered(Object(k, h, n)) THEN Object(k, h, n).n \in Numbers(h)
      ELSE Object(k, h, n).n = 0
  BY <1>2 DEF Numbered
<1>4. QED
  BY <1>1, <1>2, <1>3 DEF Objects

\* Who refers to o is of o's route.
LEMMA Referring ==
  ASSUME NEW p \in Objects, NEW o \in Needs(p)
  PROVE  /\ o.host = p.host
         /\ o.kind \notin {"service_binding", "sslcertkey_binding"}
         /\ o.kind = "lbvserver" =>
              p.kind \in {"service_binding", "sslcertkey_binding"}
         /\ o.kind = "sslcertkey" => p.kind = "sslcertkey_binding"
         /\ o.kind \in {"crt", "key"} => p.kind = "sslcertkey"
BY DEF Needs, Object

LEMMA ClosedAfter ==
  ASSUME NEW c \in SUBSET Objects, Closed(c),
         NEW op \in Operations, Accepts(c, op), Ready(c, op)
  PROVE  After(c, op) \subseteq Objects /\ Closed(After(c, op))
<1>1. op.obj \in Objects /\ op.action \in Actions
  BY DEF Operations
<1>2. CASE op.action \in {"add", "bind"}
  <2>1. After(c, op) = c \cup {op.obj} /\ Needs(op.obj) \subseteq c
    BY <1>2 DEF After, Accepts
  <2>2. QED
    BY <1>1, <2>1 DEF Closed
<1>3. CASE op.action = "unbind" /\ op.obj.kind = "sslcertkey_binding"
  <2>1. After(c, op) = c \ {op.obj}
    BY <1>3 DEF After
  <2>2. ASSUME NEW p \in c PROVE op.obj \notin Needs(p)
    BY <1>3, Referring
  <2>3. QED
    BY <2>1, <2>2 DEF Closed
<1>4. CASE op.action = "delete" /\ op.obj.kind = "lbvserver"
  <2>1. After(c, op) = c \ (Bindings(op.obj) \cup {op.obj})
    BY <1>4 DEF After
  <2>2. ASSUME NEW p \in After(c, op), NEW o \in Needs(p) PROVE o \in After(c, op)
    <3>1. p \in c /\ p \in Objects /\ p \notin Bindings(op.obj) /\ o \in c
      BY <2>1 DEF Closed
    <3>2. o \notin Bindings(op.obj)
      BY <3>1, Referring DEF Bindings
    <3>3. o # op.obj
      BY <1>4, <3>1, Referring DEF Bindings
    <3>4. QED
      BY <2>1, <3>1, <3>2, <3>3
  <2>3. QED
    BY <2>1, <2>2 DEF Closed
<1>5. CASE /\ op.action = "delete" /\ op.obj.kind = "sslcertkey"
           /\ Object("lbvserver", op.obj.host, 0) \notin c
  <2>1. After(c, op) = c \ {op.obj}
    BY <1>5 DEF After
  <2>2. ASSUME NEW p \in c PROVE op.obj \notin Needs(p)
    <3>1. SUFFICES ASSUME op.obj \in Needs(p) PROVE FALSE
      OBVIOUS
    <3>2. p.kind = "sslcertkey_binding" /\ p.host = op.obj.host
      BY <1>5, <3>1, Referring
    <3>3. Object("lbvserver", p.host, 0) \in Needs(p)
      BY <3>2 DEF Needs
    <3>4. QED
      BY <1>5, <3>2, <3>3 DEF Closed
  <2>3. QED
    BY <2>1, <2>2 DEF Closed
<1>6. CASE /\ op.action = "delete" /\ op.obj.kind \in {"crt", "key"}
           /\ Object("sslcertkey", op.obj.host, 0) \notin c
  <2>1. After(c, op) = c \ {op.obj}
    BY <1>6 DEF After
  <2>2. ASSUME NEW p \in c PROVE op.obj \notin Needs(p)
    <3>1. SUFFICES ASSUME op.obj \in Needs(p) PROVE FALSE
      OBVIOUS
    <3>2. p.kind = "sslcertkey" /\ p.host = op.obj.host
      BY <1>6, <3>1, Referring
    <3>3. p = Object("sslcertkey", p.host, 0)
      BY <3>2, ObjectFields DEF Numbered
    <3>4. QED
      BY <1>6, <3>2, <3>3
  <2>3. QED
    BY <2>1, <2>2 DEF Closed
<1>7. QED
  BY <1>2, <1>3, <1>4, <1>5, <1>6 DEF Ready, Free

LEMMA ReadyAfter ==
  ASSUME NEW c \in SUBSET Objects, NEW op \in Operations, NEW next \in Operations,
         Ready(c, op), Follows(op, next)
  PROVE  Ready(After(c, op), next)
<1>1. op.obj \in Objects /\ next.obj \in Objects
  BY DEF Operations
<1>2. CASE Free(next)
  BY <1>2 DEF Ready
<1>3. CASE ~Free(next)
  <2>1. /\ op.action = "delete" /\ next.action = "delete"
        /\ op.obj.host = next.obj.host
        /\ \/ op.obj.kind = "lbvserver" /\ next.obj.kind = "sslcertkey"
           \/ op.obj.kind = "sslcertkey" /\ next.obj.kind = "crt"
           \/ op.obj.kind = "crt" /\ next.obj.kind = "key"
    BY <1>3 DEF Follows
  <2>2. op.obj \notin After(c, op) /\ After(c, op) \subseteq c
    BY <2>1 DEF After
  <2>3. op.obj = Object(op.obj.kind, next.obj.host, 0)
    BY <1>1, <2>1, ObjectFields DEF Numbered
  <2>4. CASE op.obj.kind = "crt"
    <3>1. Object("sslcertkey", next.obj.host, 0) \notin c
      BY <2>1, <2>4 DEF Ready, Free
    <3>2. QED
      BY <2>1, <2>2, <2>4, <3>1 DEF Ready
  <2>5. QED
    BY <2>1, <2>2, <2>3, <2>4 DEF Ready
<1>4. QED
  BY <1>2, <1>3

-----------------------------------------------------------------------------
(* A request. *)

LEMMA Chain ==
  ASSUME NEW ops \in Seq(Operations), Orderly(ops),
         config \subseteq Objects, Closed(config), Ready(config, ops[1]),
         NEW m \in 0 .. Len(ops), Accepted(ops, m)
  PROVE  /\ Through(ops)[m] \subseteq Objects /\ Closed(Through(ops)[m])
         /\ m < Len(ops) => Ready(Through(ops)[m], ops[m + 1])
         /\ m > 0 => Ready(Through(ops)[m - 1], ops[m])
<1> DEFINE c == Through(ops)
           Fine(k) == /\ c[k] \subseteq Objects /\ Closed(c[k])
                      /\ k < Len(ops) => Ready(c[k], ops[k + 1])
           S == {k \in 0 .. m : Fine(k)}
<1>1. Len(ops) \in Nat /\ m \in Nat
  OBVIOUS
<1>2. c[0] = config /\ \A k \in 1 .. Len(ops) : c[k] = After(c[k - 1], ops[k])
  BY <1>1, ThroughSteps
<1>3. 0 \in S
  BY <1>1, <1>2
<1>4. ASSUME NEW k \in 1 .. m, k - 1 \in S PROVE k \in S
  <2> HIDE DEF c
  <2>1. /\ k \in 1 .. Len(ops) /\ ops[k] \in Operations
        /\ k - 1 < Len(ops) /\ k - 1 + 1 = k /\ k \in 0 .. m
    BY <1>1
  <2>2. c[k - 1] \subseteq Objects /\ Closed(c[k - 1]) /\ Ready(c[k - 1], ops[k])
    BY <1>4, <2>1
  <2>3. Accepts(c[k - 1], ops[k])
    BY DEF Accepted, c
  <2>4. c[k] \subseteq Objects /\ Closed(c[k])
    BY <1>2, <2>1, <2>2, <2>3, ClosedAfter
  <2>5. ASSUME k < Len(ops) PROVE Ready(c[k], ops[k + 1])
    <3>1. k \in 1 .. Len(ops) - 1 /\ ops[k + 1] \in Operations
      BY <1>1, <2>1, <2>5
    <3>2. Follows(ops[k], ops[k + 1])
      BY <3>1 DEF Orderly
    <3>3. QED
      BY <1>2, <2>1, <2>2, <3>1, <3>2, ReadyAfter
  <2>6. QED
    BY <2>1, <2>4, <2>5
<1>5. \A k \in 0 .. m : k \in S
  <2> HIDE DEF S
  <2>1. \A k \in 1 .. m : k - 1 \in S => k \in S
    BY <1>4
  <2>2. QED
    BY <1>1, <1>3, <2>1, UpTo
<1>6. Fine(m)
  BY <1>1, <1>5
<1>7. ASSUME m > 0 PROVE Ready(c[m - 1], ops[m])
  <2>1. m - 1 \in 0 .. m /\ m - 1 < Len(ops) /\ m - 1 + 1 = m
    BY <1>1, <1>7
  <2>2. Fine(m - 1)
    BY <1>5, <2>1
  <2>3. QED
    <3> HIDE DEF c
    <3>1. QED
      BY <2>1, <2>2
<1>8. QED
  BY <1>6, <1>7

LEMMA Served ==
  ASSUME NEW ops \in Seq(Operations), Orderly(ops),
         config \subseteq Objects, Closed(config), Ready(config, ops[1]),
         Accepted(ops, Len(ops)),
         NEW next \in Operations, Follows(ops[Len(ops)], next)
  PROVE  Ready(Through(ops)[Len(ops)], next)
<1> DEFINE n == Len(ops)
<1>1. n \in Nat \ {0} /\ n - 1 \in 0 .. n /\ n \in 1 .. n /\ ops[n] \in Operations
  BY EmptySeq DEF Orderly
<1>2. Accepted(ops, n - 1)
  BY <1>1 DEF Accepted
<1>3. /\ Through(ops)[n - 1] \subseteq Objects
      /\ Ready(Through(ops)[n - 1], ops[n])
  <2>1. n \in 0 .. n /\ n > 0
    BY <1>1
  <2>2. Through(ops)[n - 1] \subseteq Objects
    BY <1>1, <1>2, Chain
  <2>3. Ready(Through(ops)[n - 1], ops[n])
    BY <2>1, Chain
  <2>4. QED
    BY <2>2, <2>3
<1>4. Through(ops)[n] = After(Through(ops)[n - 1], ops[n])
  BY <1>1, ThroughSteps
<1>5. QED
  BY <1>1, <1>3, <1>4, ReadyAfter

-----------------------------------------------------------------------------
(* What the mapper and the client make. *)

\* The operations that add a part of the route of h.
AddsOf(h) == {op \in Operations : op.action \in {"add", "bind"} /\ op.obj.host = h}

LEMMA OpIs ==
  ASSUME NEW a \in Actions, NEW k \in Kinds, NEW h \in Hosts, NEW n,
         IF k \in {"service", "service_binding"} THEN n \in Numbers(h) ELSE n = 0
  PROVE  /\ Op(a, k, h, n) \in Operations
         /\ Op(a, k, h, n).action = a
         /\ Op(a, k, h, n).obj.kind = k /\ Op(a, k, h, n).obj.host = h
<1>1. Object(k, h, n) \in Objects
  BY ObjectsAre
<1>2. QED
  BY <1>1 DEF Op, Operations, Object

LEMMA AddOpIs ==
  ASSUME NEW a \in {"add", "bind"}, NEW k \in Kinds, NEW h \in Hosts, NEW n,
         IF k \in {"service", "service_binding"} THEN n \in Numbers(h) ELSE n = 0
  PROVE  Op(a, k, h, n) \in AddsOf(h)
<1>1. a \in Actions
  BY DEF Actions
<1>2. QED
  BY <1>1, OpIs DEF AddsOf

\* Additions depend on no order but their own.
LEMMA AddsAreOrderly ==
  ASSUME NEW h, NEW ops \in Seq(AddsOf(h)), ops # <<>>
  PROVE  ops \in Seq(Operations) /\ Orderly(ops) /\ Free(ops[1])
<1>1. Len(ops) \in Nat \ {0} /\ \A k \in 1 .. Len(ops) : ops[k] \in AddsOf(h)
  BY EmptySeq
<1>2. \A k \in 1 .. Len(ops) : Free(ops[k])
  BY <1>1 DEF AddsOf, Free
<1>3. Orderly(ops)
  BY <1>1, <1>2 DEF Orderly, Follows
<1>4. ops \in Seq(Operations)
  BY DEF AddsOf
<1>5. QED
  BY <1>1, <1>2, <1>3, <1>4

LEMMA BackendsAre ==
  ASSUME NEW h \in Hosts
  PROVE  Backends(h) \in Seq(AddsOf(h))
<1>1. BackendsOf[h] \in Nat
  BY NetscalerAssumption
<1> DEFINE n == 2 * BackendsOf[h]
<1>2. ASSUME NEW i \in 1 .. n PROVE Backends(h)[i] \in AddsOf(h)
  <2>1. CASE i % 2 = 1
    <3>1. i \div 2 \in Numbers(h)
      BY <1>1, <2>1 DEF Numbers
    <3>2. Op("add", "service", h, i \div 2) \in AddsOf(h)
      BY <3>1, AddOpIs DEF Kinds
    <3>3. QED
      BY <2>1, <3>2 DEF Backends
  <2>2. CASE i % 2 # 1
    <3>1. i \div 2 - 1 \in Numbers(h)
      BY <1>1, <2>2 DEF Numbers
    <3>2. Op("bind", "service_binding", h, i \div 2 - 1) \in AddsOf(h)
      BY <3>1, AddOpIs DEF Kinds
    <3>3. QED
      BY <2>2, <3>2 DEF Backends
  <2>3. QED
    BY <2>1, <2>2
<1>3. Backends(h) = [i \in 1 .. n |-> Backends(h)[i]] /\ n \in Nat
  BY <1>1 DEF Backends
<1>4. QED
  <2> HIDE DEF n
  <2>1. Backends(h) \in [1 .. n -> AddsOf(h)]
    BY <1>2, <1>3
  <2>2. QED
    BY <1>3, <2>1, SeqDef

LEMMA ProvisionIs ==
  ASSUME NEW h \in Hosts, NEW hasCert
  PROVE  /\ MapProvision(h, hasCert) \in Seq(AddsOf(h))
         /\ MapProvision(h, hasCert) \in Seq(Operations)
         /\ Orderly(MapProvision(h, hasCert))
         /\ Free(MapProvision(h, hasCert)[1])
<1> DEFINE A == AddsOf(h)
           route == <<Op("add", "lbvserver", h, 0)>> \o Backends(h)
<1>1. Op("add", "lbvserver", h, 0) \in A /\ Upload(h) \in Seq(A) /\ BindCert(h) \in Seq(A)
  <2>1. /\ Op("add", "lbvserver", h, 0) \in A /\ Op("add", "crt", h, 0) \in A
        /\ Op("add", "key", h, 0) \in A /\ Op("add", "sslcertkey", h, 0) \in A
        /\ Op("bind", "sslcertkey_binding", h, 0) \in A
    BY AddOpIs DEF Kinds
  <2>2. QED
    <3> HIDE DEF A
    <3>1. QED
      BY <2>1 DEF Upload, BindCert
<1>2. route \in Seq(A) /\ Len(route) # 0
  <2> HIDE DEF A
  <2>1. Backends(h) \in Seq(A)
    BY BackendsAre DEF A
  <2>2. <<Op("add", "lbvserver", h, 0)>> \in Seq(A)
    BY <1>1
  <2>3. Len(<<Op("add", "lbvserver", h, 0)>>) = 1
    OBVIOUS
  <2>4. QED
    BY <2>1, <2>2, <2>3, ConcatProperties, LenProperties
<1>3. MapProvision(h, hasCert) \in Seq(A) /\ Len(MapProvision(h, hasCert)) # 0
  <2> HIDE DEF A, route
  <2>1. MapProvision(h, hasCert) =
          IF hasCert THEN Upload(h) \o route \o BindCert(h) ELSE route
    BY DEF MapProvision, route
  <2>2. Upload(h) \o route \in Seq(A) /\ Len(Upload(h) \o route) # 0
    BY <1>1, <1>2, ConcatProperties, LenProperties
  <2>3. /\ Upload(h) \o route \o BindCert(h) \in Seq(A)
        /\ Len(Upload(h) \o route \o BindCert(h)) # 0
    BY <1>1, <2>2, ConcatProperties, LenProperties
  <2>4. QED
    BY <1>2, <2>1, <2>3
<1>4. MapProvision(h, hasCert) # <<>>
  BY <1>3
<1>5. QED
  BY <1>3, <1>4, AddsAreOrderly

LEMMA DeprovisionIs ==
  ASSUME NEW h \in Hosts
  PROVE  /\ MapDeprovision(h) \in Seq(Operations)
         /\ Orderly(MapDeprovision(h))
         /\ Free(MapDeprovision(h)[1])
<1> DEFINE unb == Op("unbind", "sslcertkey_binding", h, 0)
           lb  == Op("delete", "lbvserver", h, 0)
           pair == Op("delete", "sslcertkey", h, 0)
           crt == Op("delete", "crt", h, 0)
           key == Op("delete", "key", h, 0)
<1>1. /\ unb \in Operations /\ Free(unb)
      /\ lb \in Operations /\ Free(lb)
      /\ pair \in Operations /\ Follows(lb, pair)
      /\ crt \in Operations /\ Follows(pair, crt)
      /\ key \in Operations /\ Follows(crt, key)
  BY OpIs DEF Kinds, Actions, Free, Follows
<1>2. MapDeprovision(h) = <<unb, lb, pair, crt, key>>
  BY DEF MapDeprovision
<1> HIDE DEF unb, lb, pair, crt, key
<1>3. <<unb, lb, pair, crt, key>> \in Seq(Operations)
  BY <1>1
<1>4. Follows(unb, lb)
  BY <1>1 DEF Follows
<1>5. Orderly(<<unb, lb, pair, crt, key>>)
  <2> DEFINE s == <<unb, lb, pair, crt, key>>
  <2>1. /\ Len(s) = 5 /\ s[1] = unb /\ s[2] = lb /\ s[3] = pair
        /\ s[4] = crt /\ s[5] = key
    OBVIOUS
  <2>2. s # <<>>
    BY <2>1
  <2> HIDE DEF s
  <2>3. ASSUME NEW k \in 1 .. Len(s) - 1 PROVE Follows(s[k], s[k + 1])
    <3>1. k = 1 \/ k = 2 \/ k = 3 \/ k = 4
      BY <2>1
    <3>2. QED
      BY <1>1, <1>4, <2>1, <3>1
  <2>4. Orderly(s)
    BY <2>2, <2>3 DEF Orderly
  <2>5. QED
    BY <2>4 DEF s
<1>6. QED
  BY <1>1, <1>2, <1>3, <1>5

\* The requests of one event: an unbinding is posted as a binding.
LEMMA SinglyIs ==
  ASSUME NEW ops \in Seq(Operations), Orderly(ops), Free(ops[1])
  PROVE  /\ Singly(ops) \in Seq(Seq(Operations))
         /\ \A i \in DOMAIN Singly(ops) : Orderly(Singly(ops)[i])
         /\ \A i \in 1 .. Len(Singly(ops)) - 1 :
              Follows(Singly(ops)[i][Len(Singly(ops)[i])], Singly(ops)[i + 1][1])
         /\ Singly(ops) # <<>> => Free(Singly(ops)[1][1])
<1> DEFINE n == Len(ops)
           r == Singly(ops)
<1>1. n \in Nat /\ DOMAIN ops = 1 .. n /\ n # 0 /\ \A i \in 1 .. n : ops[i] \in Operations
  BY EmptySeq DEF Orderly
<1>2. ASSUME NEW i \in 1 .. n
      PROVE  \E op \in Operations :
               /\ Execute(ops[i]) = <<op>>
               /\ \/ op = ops[i]
                  \/ op.action = "bind" /\ ops[i].action = "unbind"
  <2>1. CASE ops[i].action = "unbind"
    <3>1. [ops[i] EXCEPT !.action = "bind"] \in Operations
      BY <1>1 DEF Operations, Actions
    <3>2. [ops[i] EXCEPT !.action = "bind"].action = "bind"
      BY <1>1 DEF Operations
    <3>3. QED
      BY <2>1, <3>1, <3>2 DEF Execute
  <2>2. CASE ops[i].action # "unbind"
    <3>1. Execute(ops[i]) = <<ops[i]>> /\ ops[i] \in Operations
      BY <1>1, <2>2 DEF Execute
    <3>2. QED
      BY <3>1
  <2>3. QED
    BY <2>1, <2>2
<1>3. r = [i \in 1 .. n |-> Execute(ops[i])]
  BY <1>1 DEF Singly
<1>4. ASSUME NEW i \in 1 .. n
      PROVE  /\ r[i] = <<r[i][1]>> /\ r[i][1] \in Operations /\ Len(r[i]) = 1
             /\ \/ r[i][1] = ops[i]
                \/ r[i][1].action = "bind" /\ ops[i].action = "unbind"
  BY <1>2, <1>3
<1> HIDE DEF r
<1>5. r \in Seq(Seq(Operations)) /\ Len(r) = n /\ DOMAIN r = 1 .. n
  <2>1. ASSUME NEW i \in 1 .. n PROVE Execute(ops[i]) \in Seq(Operations)
    <3>1. PICK op \in Operations : Execute(ops[i]) = <<op>>
      BY <1>2
    <3>2. QED
      BY <3>1
  <2> HIDE DEF n
  <2>2. r \in [1 .. n -> Seq(Operations)]
    BY <1>3, <2>1
  <2>3. r \in Seq(Seq(Operations))
    BY <1>1, <2>2, SeqDef
  <2>4. QED
    BY <1>1, <2>2, <2>3, LenProperties
<1>6. ASSUME NEW i \in 1 .. n PROVE Orderly(r[i])
  <2>1. Len(r[i]) = 1 /\ r[i] # <<>>
    BY <1>4
  <2>2. QED
    BY <2>1 DEF Orderly
<1>7. ASSUME NEW i \in 1 .. n - 1 PROVE Follows(r[i][Len(r[i])], r[i + 1][1])
  <2>1. i \in 1 .. n /\ i + 1 \in 1 .. n
    BY <1>1
  <2>2. Follows(ops[i], ops[i + 1])
    BY DEF Orderly
  <2>3. Len(r[i]) = 1
    BY <1>4, <2>1
  <2>4. CASE Free(r[i + 1][1])
    BY <2>3, <2>4 DEF Follows
  <2>5. CASE ~Free(r[i + 1][1])
    <3>1. r[i + 1][1] = ops[i + 1]
      BY <1>4, <2>1, <2>5 DEF Free
    <3>2. ops[i].action = "delete"
      BY <2>2, <2>5, <3>1 DEF Follows
    <3>3. r[i][1] = ops[i]
      BY <1>4, <2>1, <3>2
    <3>4. QED
      BY <2>2, <2>3, <3>1, <3>3
  <2>6. QED
    BY <2>4, <2>5
<1>8. Free(r[1][1])
  <2>1. 1 \in 1 .. n
    BY <1>1
  <2>2. QED
    BY <1>4, <2>1 DEF Free
<1>9. QED
  BY <1>5, <1>6, <1>7, <1>8 DEF r

LEMMA BatchesAre ==
  ASSUME NEW a \in Seq(Operations), NEW b \in Seq(Operations), Mapped(a), Mapped(b)
  PROVE  LET r == Batch(a) \o Batch(b)
         IN  /\ r \in Seq(Seq(Operations))
             /\ \A i \in DOMAIN r : Orderly(r[i]) /\ Free(r[i][1])
<1> DEFINE G == {s \in Seq(Operations) : Orderly(s) /\ Free(s[1])}
<1>1. Batch(a) \in Seq(G) /\ Batch(b) \in Seq(G)
  <2>1. ASSUME NEW s \in Seq(Operations), Mapped(s) PROVE Batch(s) \in Seq(G)
    <3>1. CASE s = <<>>
      <4> HIDE DEF G
      <4>1. QED
        BY <3>1 DEF Batch
    <3>2. CASE s # <<>>
      <4>1. s \in G
        BY <2>1, <3>2 DEF Mapped
      <4>2. QED
        <5> HIDE DEF G
        <5>1. QED
          BY <3>2, <4>1 DEF Batch
    <3>3. QED
      BY <3>1, <3>2
  <2>2. QED
    <3> HIDE DEF G
    <3>1. QED
      BY <2>1
<1>2. PICK r : r = Batch(a) \o Batch(b)
  OBVIOUS
<1>3. r \in Seq(G)
  <2> HIDE DEF G
  <2>1. QED
    BY <1>1, <1>2, ConcatProperties
<1>4. ASSUME NEW i \in DOMAIN r PROVE r[i] \in G
  <2> HIDE DEF G
  <2>1. QED
    BY <1>3
<1>5. r \in Seq(Seq(Operations))
  BY <1>3
<1>6. QED
  BY <1>2, <1>4, <1>5

LEMMA BatchProvisionIs ==
  ASSUME NEW hs \in Seq(Hosts), NEW certs
  PROVE  /\ MapBatchProvision(hs, certs) \in Seq(Operations)
         /\ Mapped(MapBatchProvision(hs, certs))
<1> DEFINE s == [i \in DOMAIN hs |-> MapProvision(hs[i], hs[i] \in certs)]
<1>1. /\ Len(s) \in Nat /\ DOMAIN s = 1 .. Len(s) /\ DOMAIN s = DOMAIN hs
      /\ Len(s) = 0 => s = <<>>
  OBVIOUS
<1>2. \A i \in 1 .. Len(s) :
        s[i] \in Seq(Operations) /\ Orderly(s[i]) /\ Free(s[i][1])
  BY <1>1, ProvisionIs
<1>3. MapBatchProvision(hs, certs) = FlattenSeq(s)
  BY DEF MapBatchProvision
<1> HIDE DEF s
<1>4. QED
  BY <1>1, <1>2, <1>3, Flattened

LEMMA BatchDeprovisionIs ==
  ASSUME NEW hs \in Seq(Hosts)
  PROVE  /\ MapBatchDeprovision(hs) \in Seq(Operations)
         /\ Mapped(MapBatchDeprovision(hs))
<1> DEFINE s == [i \in DOMAIN hs |-> MapDeprovision(hs[i])]
<1>1. /\ Len(s) \in Nat /\ DOMAIN s = 1 .. Len(s) /\ DOMAIN s = DOMAIN hs
      /\ Len(s) = 0 => s = <<>>
  OBVIOUS
<1>2. \A i \in 1 .. Len(s) :
        s[i] \in Seq(Operations) /\ Orderly(s[i]) /\ Free(s[i][1])
  BY <1>1, DeprovisionIs
<1>3. MapBatchDeprovision(hs) = FlattenSeq(s)
  BY DEF MapBatchDeprovision
<1> HIDE DEF s
<1>4. QED
  BY <1>1, <1>2, <1>3, Flattened

LEMMA ListingIs ==
  ASSUME NEW H \in SUBSET Hosts, NEW hs \in SetToSeqs(H)
  PROVE  hs \in Seq(Hosts)
<1>1. IsFiniteSet(H)
  BY NetscalerAssumption, FS_Subset
<1>2. Cardinality(H) \in Nat
  BY <1>1, FS_CardinalityType
<1>3. hs \in [1 .. Cardinality(H) -> Hosts]
  BY DEF SetToSeqs
<1>4. QED
  BY <1>2, <1>3, SeqDef

-----------------------------------------------------------------------------
(* Every step keeps the invariant. *)

\* A call begins with requests that are in order.
LEMMA BeginKeepsInv ==
  ASSUME ApplianceInv,
         NEW kind \in Kind, NEW add \in SUBSET Hosts, NEW remove \in SUBSET Hosts,
         NEW certs \in SUBSET Hosts, NEW rs \in Seq(Seq(Operations)),
         Begin(kind, add, remove, certs, rs),
         \A i \in DOMAIN rs : Orderly(rs[i]),
         \A i \in 1 .. Len(rs) - 1 : Follows(rs[i][Len(rs[i])], rs[i + 1][1]),
         kind = "cycle" => \A i \in DOMAIN rs : Free(rs[i][1]),
         rs # <<>> => Free(rs[1][1])
  PROVE  ApplianceInv'
<1>1. /\ job' = [kind |-> kind, add |-> add, remove |-> remove, certs |-> certs,
                 ok |-> TRUE]
      /\ requests' = rs /\ UNCHANGED <<want, config, changes, faults>>
  BY DEF Begin
<1>2. TypeOK'
  BY <1>1 DEF ApplianceInv, TypeOK, Operations
<1>3. NoDangling'
  BY <1>1 DEF ApplianceInv, NoDangling
<1>4. InOrder'
  <2>1. job'.kind = kind
    BY <1>1
  <2>2. requests' # <<>> => Ready(config', requests'[1][1])
    BY <1>1 DEF Ready
  <2>3. QED
    BY <1>1, <2>1, <2>2 DEF InOrder
<1>5. QED
  BY <1>2, <1>3, <1>4 DEF ApplianceInv

LEMMA EventKeepsInv ==
  ASSUME ApplianceInv, NEW h \in Hosts, Provision(h) \/ Deprovision(h)
  PROVE  ApplianceInv'
<1>1. CASE Provision(h)
  <2> DEFINE rs == Singly(MapProvision(h, h \in TLSHosts))
  <2>1. /\ rs \in Seq(Seq(Operations)) /\ \A i \in DOMAIN rs : Orderly(rs[i])
        /\ \A i \in 1 .. Len(rs) - 1 : Follows(rs[i][Len(rs[i])], rs[i + 1][1])
        /\ rs # <<>> => Free(rs[1][1])
    BY ProvisionIs, SinglyIs
  <2>2. Begin("event", {h}, {}, {h} \cap TLSHosts, rs)
    BY <1>1 DEF Provision
  <2>3. {h} \cap TLSHosts \in SUBSET Hosts /\ "event" \in Kind /\ "event" # "cycle"
    BY DEF Kind
  <2> HIDE DEF rs
  <2>4. QED
    BY <2>1, <2>2, <2>3, BeginKeepsInv
<1>2. CASE Deprovision(h)
  <2> DEFINE rs == Singly(MapDeprovision(h))
  <2>1. /\ rs \in Seq(Seq(Operations)) /\ \A i \in DOMAIN rs : Orderly(rs[i])
        /\ \A i \in 1 .. Len(rs) - 1 : Follows(rs[i][Len(rs[i])], rs[i + 1][1])
        /\ rs # <<>> => Free(rs[1][1])
    BY DeprovisionIs, SinglyIs
  <2>2. Begin("event", {}, {h}, {}, rs)
    BY <1>2 DEF Deprovision
  <2>3. "event" \in Kind /\ "event" # "cycle"
    BY DEF Kind
  <2> HIDE DEF rs
  <2>4. QED
    BY <2>1, <2>2, <2>3, BeginKeepsInv
<1>3. QED
  BY <1>1, <1>2

LEMMA CycleKeepsInv ==
  ASSUME ApplianceInv, Cycle PROVE ApplianceInv'
<1>1. PICK certs \in SUBSET (want \cap TLSHosts), adds \in SetToSeqs(want),
           removes \in SetToSeqs(Listed) :
        Begin("cycle", want, Listed, certs,
              Batch(MapBatchDeprovision(removes)) \o
              Batch(MapBatchProvision(adds, certs)))
  BY DEF Cycle
<1>2. want \in SUBSET Hosts /\ Listed \in SUBSET Hosts /\ certs \in SUBSET Hosts
  <2>1. want \subseteq Hosts /\ config \subseteq Objects
    BY DEF ApplianceInv, TypeOK
  <2>2. Listed \subseteq Hosts
    BY <2>1, ObjectFields DEF Listed
  <2>3. QED
    BY <2>1, <2>2
<1>3. adds \in Seq(Hosts) /\ removes \in Seq(Hosts)
  BY <1>2, ListingIs
<1> DEFINE a == MapBatchDeprovision(removes)
           b == MapBatchProvision(adds, certs)
<1>4. /\ a \in Seq(Operations) /\ Mapped(a)
      /\ b \in Seq(Operations) /\ Mapped(b)
  BY <1>3, BatchProvisionIs, BatchDeprovisionIs
<1> HIDE DEF a, b
<1>5. PICK rs : rs = Batch(a) \o Batch(b)
  OBVIOUS
<1>6. /\ rs \in Seq(Seq(Operations))
      /\ \A i \in DOMAIN rs : Orderly(rs[i]) /\ Free(rs[i][1])
  BY <1>4, <1>5, BatchesAre
<1>7. Begin("cycle", want, Listed, certs, rs)
  BY <1>1, <1>5 DEF a, b
<1>8. \A i \in 1 .. Len(rs) - 1 : Follows(rs[i][Len(rs[i])], rs[i + 1][1])
  <2>1. ASSUME NEW i \in 1 .. Len(rs) - 1 PROVE Free(rs[i + 1][1])
    <3>1. i + 1 \in DOMAIN rs
      BY <1>6
    <3>2. QED
      BY <1>6, <3>1
  <2>2. QED
    BY <2>1 DEF Follows
<1>9. rs # <<>> => Free(rs[1][1])
  <2>1. rs # <<>> => 1 \in DOMAIN rs
    BY <1>6, EmptySeq
  <2>2. QED
    BY <1>6, <2>1
<1>10. "cycle" \in Kind
  BY DEF Kind
<1>11. QED
  BY <1>2, <1>6, <1>7, <1>8, <1>9, <1>10, BeginKeepsInv

\* What the rest of the requests needs once the first is served.
LEMMA TailInOrder ==
  ASSUME TypeOK, InOrder, requests # <<>>
  PROVE  /\ Head(requests) = requests[1] /\ Head(requests) \in Seq(Operations)
         /\ Orderly(requests[1]) /\ Ready(config, requests[1][1])
         /\ Tail(requests) \in Seq(Seq(Operations))
         /\ \A i \in DOMAIN Tail(requests) : Orderly(Tail(requests)[i])
         /\ \A i \in 1 .. Len(Tail(requests)) - 1 :
              Follows(Tail(requests)[i][Len(Tail(requests)[i])],
                      Tail(requests)[i + 1][1])
         /\ job.kind = "cycle" =>
              \A i \in DOMAIN Tail(requests) : Free(Tail(requests)[i][1])
         /\ Tail(requests) # <<>> =>
              /\ Tail(requests)[1][1] \in Operations
              /\ Follows(requests[1][Len(requests[1])], Tail(requests)[1][1])
              /\ job.kind = "cycle" => Free(Tail(requests)[1][1])
<1>1. requests \in Seq(Seq(Operations)) /\ Len(requests) \in Nat \ {0}
  BY EmptySeq DEF TypeOK, Operations
<1>2. PICK t : t = Tail(requests)
  OBVIOUS
<1>3. /\ t \in Seq(Seq(Operations)) /\ Len(t) = Len(requests) - 1
      /\ \A i \in 1 .. Len(t) : t[i] = requests[i + 1]
  BY <1>1, <1>2, HeadTailProperties
<1>4. DOMAIN t = 1 .. Len(t) /\ DOMAIN requests = 1 .. Len(requests)
  BY <1>1, <1>3
<1>5. Head(requests) = requests[1] /\ Head(requests) \in Seq(Operations)
  BY <1>1, HeadTailProperties
<1>6. Orderly(requests[1]) /\ Ready(config, requests[1][1])
  <2>1. 1 \in DOMAIN requests /\ requests # <<>>
    BY <1>1, <1>4
  <2>2. QED
    BY <2>1 DEF InOrder
<1>7. ASSUME NEW i \in 1 .. Len(t)
      PROVE  /\ i + 1 \in 1 .. Len(requests) /\ t[i] = requests[i + 1]
             /\ Orderly(t[i])
             /\ job.kind = "cycle" => Free(t[i][1])
  <2>1. i + 1 \in 1 .. Len(requests)
    BY <1>1, <1>3
  <2>2. QED
    BY <1>3, <1>4, <2>1 DEF InOrder
<1>8. ASSUME NEW i \in 1 .. Len(t) - 1 PROVE Follows(t[i][Len(t[i])], t[i + 1][1])
  <2>1. /\ i \in 1 .. Len(t) /\ i + 1 \in 1 .. Len(t)
        /\ i + 1 \in 1 .. Len(requests) - 1
    BY <1>1, <1>3
  <2>2. Follows(requests[i + 1][Len(requests[i + 1])], requests[i + 1 + 1][1])
    BY <2>1 DEF InOrder
  <2>3. QED
    BY <1>3, <2>1, <2>2
<1>9. ASSUME t # <<>>
      PROVE  /\ t[1][1] \in Operations
             /\ Follows(requests[1][Len(requests[1])], t[1][1])
             /\ job.kind = "cycle" => Free(t[1][1])
  <2>0. Len(t) \in Nat \ {0}
    BY <1>3, <1>9, EmptySeq
  <2>1. 1 \in 1 .. Len(t) /\ 1 \in 1 .. Len(requests) - 1
    BY <1>1, <1>3, <2>0
  <2>2. t[1] \in Seq(Operations) /\ Orderly(t[1])
    BY <1>3, <1>7, <2>1
  <2>3. t[1][1] \in Operations
    <3>1. Len(t[1]) \in Nat \ {0}
      BY <2>2, EmptySeq DEF Orderly
    <3>2. QED
      BY <2>2, <3>1
  <2>4. Follows(requests[1][Len(requests[1])], requests[1 + 1][1])
    BY <2>1 DEF InOrder
  <2>5. QED
    BY <1>3, <1>7, <2>1, <2>3, <2>4
<1>10. QED
  BY <1>2, <1>3, <1>4, <1>5, <1>6, <1>7, <1>8, <1>9

\* A request that is served leaves what the next one needs.
LEMMA ServeKeepsInv ==
  ASSUME ApplianceInv, Serve PROVE ApplianceInv'
<1> DEFINE ops == requests[1]
           t   == Tail(requests)
<1>1. TypeOK /\ NoDangling /\ InOrder /\ requests # <<>>
  BY DEF ApplianceInv, Serve
<1>2. /\ Head(requests) = ops /\ ops \in Seq(Operations) /\ Orderly(ops)
      /\ Ready(config, ops[1]) /\ t \in Seq(Seq(Operations))
      /\ t # <<>> => /\ t[1][1] \in Operations
                     /\ Follows(ops[Len(ops)], t[1][1])
  BY <1>1, TailInOrder
<1>3. config \subseteq Objects /\ Closed(config)
  BY <1>1 DEF TypeOK, NoDangling, Closed
<1>4. /\ Accepted(ops, Len(ops)) /\ config' = Through(ops)[Len(ops)]
      /\ requests' = t /\ UNCHANGED <<want, job, changes, faults>>
  BY <1>2 DEF Serve
<1> HIDE DEF ops, t
<1>5. config' \subseteq Objects /\ Closed(config')
  <2>1. Len(ops) \in 0 .. Len(ops)
    BY <1>2, LenProperties
  <2>2. QED
    BY <1>2, <1>3, <1>4, <2>1, Chain
<1>6. t # <<>> => Ready(config', t[1][1])
  BY <1>2, <1>3, <1>4, Served
<1>7. TypeOK'
  BY <1>1, <1>2, <1>4, <1>5 DEF TypeOK, Operations
<1>8. NoDangling'
  BY <1>5 DEF NoDangling, Closed
<1>9. InOrder'
  <2>1. /\ \A i \in DOMAIN t : Orderly(t[i])
        /\ \A i \in 1 .. Len(t) - 1 : Follows(t[i][Len(t[i])], t[i + 1][1])
        /\ job.kind = "cycle" => \A i \in DOMAIN t : Free(t[i][1])
    BY <1>1, TailInOrder DEF t
  <2>2. QED
    BY <1>4, <1>6, <2>1 DEF InOrder
<1>10. QED
  BY <1>7, <1>8, <1>9 DEF ApplianceInv

\* Whatever part of a request was done when it failed, an event ends and a
\* cycle goes on with a request that depends on nothing.
LEMMA FailKeepsInv ==
  ASSUME ApplianceInv, requests # <<>>, Fail,
         config' \subseteq Objects, Closed(config'),
         UNCHANGED <<want, changes>>, faults' \in 0 .. MaxFaults
  PROVE  ApplianceInv'
<1> DEFINE t == Tail(requests)
<1>1. TypeOK /\ InOrder
  BY DEF ApplianceInv
<1>2. /\ t \in Seq(Seq(Operations))
      /\ \A i \in DOMAIN t : Orderly(t[i])
      /\ \A i \in 1 .. Len(t) - 1 : Follows(t[i][Len(t[i])], t[i + 1][1])
      /\ job.kind = "cycle" => \A i \in DOMAIN t : Free(t[i][1])
      /\ t # <<>> => (job.kind = "cycle" => Free(t[1][1]))
  BY <1>1, TailInOrder
<1> HIDE DEF t
<1>3. requests' = IF job.kind = "cycle" THEN t ELSE <<>>
  BY DEF Fail, t
<1>4. job' \in [kind : Kind, add : SUBSET Hosts, remove : SUBSET Hosts,
                certs : SUBSET Hosts, ok : BOOLEAN] /\ job'.kind = job.kind
  BY <1>1 DEF Fail, TypeOK
<1>5. TypeOK'
  <2>1. requests' \in Seq(Seq(Operations))
    BY <1>2, <1>3
  <2>2. QED
    BY <1>1, <1>4, <2>1 DEF TypeOK, Operations
<1>6. NoDangling'
  BY DEF NoDangling, Closed
<1>7. InOrder'
  <2>1. CASE job.kind = "cycle"
    <3>1. requests' = t
      BY <1>3, <2>1
    <3>2. t # <<>> => Ready(config', t[1][1])
      BY <1>2, <2>1 DEF Ready
    <3>3. QED
      BY <1>2, <2>1, <3>1, <3>2 DEF InOrder
  <2>2. CASE job.kind # "cycle"
    <3>1. requests' = <<>>
      BY <1>3, <2>2
    <3>2. QED
      BY <3>1 DEF InOrder
  <2>3. QED
    BY <2>1, <2>2
<1>8. QED
  BY <1>5, <1>6, <1>7 DEF ApplianceInv

LEMMA RefuseKeepsInv ==
  ASSUME ApplianceInv, Refuse PROVE ApplianceInv'
<1> DEFINE ops == requests[1]
<1>1. TypeOK /\ NoDangling /\ InOrder /\ requests # <<>>
  BY DEF ApplianceInv, Refuse
<1>2. /\ Head(requests) = ops /\ ops \in Seq(Operations) /\ Orderly(ops)
      /\ Ready(config, ops[1])
  BY <1>1, TailInOrder
<1>3. config \subseteq Objects /\ Closed(config)
  BY <1>1 DEF TypeOK, NoDangling, Closed
<1>4. PICK k \in DOMAIN ops :
        Accepted(ops, k - 1) /\ config' \in {config, Through(ops)[k - 1]}
  BY <1>2 DEF Refuse
<1>5. Fail /\ UNCHANGED <<want, changes, faults>>
  BY DEF Refuse
<1> HIDE DEF ops
<1>6. k - 1 \in 0 .. Len(ops)
  BY <1>2, <1>4
<1>7. Through(ops)[k - 1] \subseteq Objects /\ Closed(Through(ops)[k - 1])
  BY <1>2, <1>3, <1>4, <1>6, Chain
<1>8. config' \subseteq Objects /\ Closed(config')
  BY <1>3, <1>4, <1>7
<1>9. faults' \in 0 .. MaxFaults
  BY <1>1, <1>5 DEF TypeOK
<1>10. QED
  BY <1>1, <1>5, <1>8, <1>9, FailKeepsInv

LEMMA FaultKeepsInv ==
  ASSUME ApplianceInv, Fault PROVE ApplianceInv'
<1> DEFINE ops == requests[1]
<1>1. TypeOK /\ NoDangling /\ InOrder /\ requests # <<>>
  BY DEF ApplianceInv, Fault
<1>2. /\ Head(requests) = ops /\ ops \in Seq(Operations) /\ Orderly(ops)
      /\ Ready(config, ops[1])
  BY <1>1, TailInOrder
<1>3. config \subseteq Objects /\ Closed(config)
  BY <1>1 DEF TypeOK, NoDangling, Closed
<1>4. PICK k \in 0 .. Len(ops) : Accepted(ops, k) /\ config' = Through(ops)[k]
  BY <1>2 DEF Fault
<1>5. Fail /\ UNCHANGED <<want, changes>>
  BY DEF Fault
<1> HIDE DEF ops
<1>6. config' \subseteq Objects /\ Closed(config')
  BY <1>2, <1>3, <1>4, Chain
<1>7. faults' \in 0 .. MaxFaults
  BY <1>1, NetscalerAssumption DEF TypeOK, Fault
<1>8. QED
  BY <1>1, <1>5, <1>6, <1>7, FailKeepsInv

-----------------------------------------------------------------------------
(* The theorems. *)

LEMMA InitInv ==
  ASSUME Init PROVE ApplianceInv
<1>1. TypeOK
  BY NetscalerAssumption DEF Init, TypeOK, Idle, Kind
<1>2. NoDangling
  BY DEF Init, NoDangling
<1>3. InOrder
  BY DEF Init, InOrder
<1>4. QED
  BY <1>1, <1>2, <1>3 DEF ApplianceInv

LEMMA StepInv ==
  ASSUME ApplianceInv, [Next]_vars PROVE ApplianceInv'
<1>1. CASE Change
  <2>1. /\ UNCHANGED <<config, job, requests, faults>> /\ want' \subseteq Hosts
        /\ changes' \in 0 .. MaxChanges
    BY <1>1, NetscalerAssumption DEF Change, ApplianceInv, TypeOK
  <2>2. TypeOK'
    BY <2>1 DEF ApplianceInv, TypeOK
  <2>3. QED
    BY <2>1, <2>2 DEF ApplianceInv, NoDangling, InOrder
<1>2. CASE Cycle
  BY <1>2, CycleKeepsInv
<1>3. CASE Serve
  BY <1>3, ServeKeepsInv
<1>4. CASE Refuse
  BY <1>4, RefuseKeepsInv
<1>5. CASE Fault
  BY <1>5, FaultKeepsInv
<1>6. CASE Return
  <2>1. job' = Idle /\ requests' = <<>> /\ UNCHANGED <<want, config, changes, faults>>
    BY <1>6 DEF Return
  <2>2. TypeOK'
    BY <2>1 DEF ApplianceInv, TypeOK, Idle, Kind
  <2>3. QED
    BY <2>1, <2>2 DEF ApplianceInv, NoDangling, InOrder
<1>7. CASE \E h \in Hosts : Provision(h) \/ Deprovision(h)
  BY <1>7, EventKeepsInv
<1>8. CASE UNCHANGED vars
  BY <1>8 DEF vars, ApplianceInv, TypeOK, NoDangling, InOrder
<1>9. QED
  BY <1>1, <1>2, <1>3, <1>4, <1>5, <1>6, <1>7, <1>8 DEF Next

LEMMA ApplianceAlways == Spec => []ApplianceInv
<1>1. Init => ApplianceInv
  BY InitInv
<1>2. ApplianceInv /\ [Next]_vars => ApplianceInv'
  BY StepInv
<1>3. QED
  BY <1>1, <1>2, PTL DEF Spec

\* Every variable has its type in every reachable state: whatever order the
\* routes of a batch come in, its operations name objects of the routes.
THEOREM ApplianceTypes == Spec => []TypeOK
BY ApplianceAlways, PTL DEF ApplianceInv

\* Nothing on the appliance refers to what is not there (nitro.go:50-134,
\* netscaler_mapper.go:29-176), however many backends a route has, however
\* many routes a batch, and wherever a refusal or a fault stops it.
THEOREM NothingDangles == Spec => []NoDangling
BY ApplianceAlways, PTL DEF ApplianceInv

-----------------------------------------------------------------------------
(* What an operation without an error has done. *)

\* op puts o on the appliance; op takes o from it, on its own or with the
\* virtual server that o is a binding of.
Puts(op, o)  == op.action \in {"add", "bind"} /\ op.obj = o

Takes(op, o) == /\ op.action \in {"unbind", "delete"}
                /\ \/ op.obj = o
                   \/ op.obj.kind = "lbvserver" /\ o \in Bindings(op.obj)

Adding(ops)    == \A k \in 1 .. Len(ops) : ops[k].action \in {"add", "bind"}
Spares(ops, o) == \A k \in 1 .. Len(ops) : ~Puts(ops[k], o)
Names(ops, o)  == \E k \in 1 .. Len(ops) : ops[k].obj = o
Clears(ops, o) == \E k \in 1 .. Len(ops) : Takes(ops[k], o)

\* Of requests rs at the configuration c: o is in place in the end, and o is
\* gone in the end.
WillBe(c, rs, o) ==
  \/ o \in c /\ \A i \in 1 .. Len(rs) : Adding(rs[i])
  \/ \E i \in 1 .. Len(rs) :
       Names(rs[i], o) /\ \A j \in i .. Len(rs) : Adding(rs[j])

WillGo(c, rs, o) ==
  \/ o \notin c /\ \A i \in 1 .. Len(rs) : Spares(rs[i], o)
  \/ \E i \in 1 .. Len(rs) :
       Clears(rs[i], o) /\ \A j \in i .. Len(rs) : Spares(rs[j], o)

Planned(c, rs, add, remove, certs) ==
  /\ \A h \in add : \A o \in InPlace(h, h \in certs) : WillBe(c, rs, o)
  /\ \A o \in Objects :
       o.host \in remove \ add /\ o.kind # "service" => WillGo(c, rs, o)

AsPlanned ==
  job.kind # "idle" /\ job.ok =>
    Planned(config, requests, job.add, job.remove, job.certs)

DoneInv == ApplianceInv /\ AsPlanned

LEMMA AddsThrough ==
  ASSUME NEW ops \in Seq(Operations), Adding(ops)
  PROVE  /\ config \subseteq Through(ops)[Len(ops)]
         /\ \A o : Names(ops, o) => o \in Through(ops)[Len(ops)]
<1> DEFINE c == Through(ops)
           n == Len(ops)
           S == {k \in 0 .. n : config \subseteq c[k]
                                  /\ \A i \in 1 .. k : ops[i].obj \in c[k]}
<1>1. n \in Nat /\ c[0] = config /\ \A k \in 1 .. n : c[k] = After(c[k - 1], ops[k])
  <2>1. Len(ops) \in Nat
    OBVIOUS
  <2>2. QED
    BY <2>1, ThroughSteps
<1> HIDE DEF c
<1>2. 0 \in S
  BY <1>1
<1>3. ASSUME NEW k \in 1 .. n, k - 1 \in S PROVE k \in S
  <2>1. c[k] = c[k - 1] \cup {ops[k].obj}
    BY <1>1 DEF Adding, After
  <2>2. ASSUME NEW i \in 1 .. k PROVE ops[i].obj \in c[k]
    <3>1. i = k \/ i \in 1 .. k - 1
      OBVIOUS
    <3>2. QED
      BY <1>3, <2>1, <3>1
  <2>3. k \in 0 .. n /\ config \subseteq c[k]
    BY <1>3, <2>1
  <2>4. QED
    BY <2>2, <2>3
<1>4. n \in S
  <2> HIDE DEF S, n
  <2>1. \A k \in 1 .. n : k - 1 \in S => k \in S
    BY <1>3
  <2>2. \A k \in 0 .. n : k \in S
    BY <1>1, <1>2, <2>1, UpTo
  <2>3. QED
    BY <1>1, <2>2
<1>5. QED
  BY <1>4 DEF Names, c

\* What is taken and not put back is gone, and so is what was not there.
LEMMA SparesThrough ==
  ASSUME NEW ops \in Seq(Operations), NEW o, Spares(ops, o),
         o \notin config \/ Clears(ops, o)
  PROVE  o \notin Through(ops)[Len(ops)]
<1> DEFINE c == Through(ops)
           n == Len(ops)
<1>1. n \in Nat /\ c[0] = config /\ \A k \in 1 .. n : c[k] = After(c[k - 1], ops[k])
  <2>1. Len(ops) \in Nat
    OBVIOUS
  <2>2. QED
    BY <2>1, ThroughSteps
<1> HIDE DEF c
<1>2. PICK m \in 0 .. n : o \notin c[m]
  <2>1. CASE o \notin config
    BY <1>1, <2>1
  <2>2. CASE Clears(ops, o)
    <3>1. PICK k \in 1 .. n : Takes(ops[k], o)
      BY <2>2 DEF Clears
    <3>2. o \notin After(c[k - 1], ops[k])
      BY <3>1 DEF Takes, After
    <3>3. k \in 0 .. n /\ o \notin c[k]
      BY <1>1, <3>2
    <3>4. QED
      BY <3>3
  <2>3. QED
    BY <2>1, <2>2
<1> DEFINE S == {k \in 0 .. n : k >= m => o \notin c[k]}
<1>3. 0 \in S
  BY <1>1, <1>2
<1>4. ASSUME NEW k \in 1 .. n, k - 1 \in S PROVE k \in S
  <2>1. CASE k <= m
    BY <1>1, <1>2, <2>1
  <2>2. CASE k > m
    <3>1. o \notin c[k - 1]
      BY <1>1, <1>4, <2>2
    <3>2. ~Puts(ops[k], o)
      BY DEF Spares
    <3>3. o \notin After(c[k - 1], ops[k])
      BY <3>1, <3>2 DEF After, Puts
    <3>4. QED
      BY <1>1, <3>3
  <2>3. QED
    BY <2>1, <2>2
<1>5. n \in S
  <2> HIDE DEF S, n
  <2>1. \A k \in 1 .. n : k - 1 \in S => k \in S
    BY <1>4
  <2>2. \A k \in 0 .. n : k \in S
    BY <1>1, <1>3, <2>1, UpTo
  <2>3. QED
    BY <1>1, <2>2
<1>6. QED
  BY <1>1, <1>5 DEF c

\* Serving the first request keeps the rest of the plan.
LEMMA ServeKeepsPlan ==
  ASSUME NEW rs \in Seq(Seq(Operations)), rs # <<>>, NEW o
  PROVE  /\ WillBe(config, rs, o) =>
              WillBe(Through(rs[1])[Len(rs[1])], Tail(rs), o)
         /\ WillGo(config, rs, o) =>
              WillGo(Through(rs[1])[Len(rs[1])], Tail(rs), o)
<1> DEFINE ops == rs[1]
           c   == Through(ops)[Len(ops)]
<1>1. PICK t : t = Tail(rs)
  OBVIOUS
<1>2. /\ Len(rs) \in Nat \ {0} /\ Len(t) = Len(rs) - 1
      /\ \A i \in 1 .. Len(t) : t[i] = rs[i + 1]
      /\ ops \in Seq(Operations)
  BY <1>1, HeadTailProperties, EmptySeq
<1> HIDE DEF c, ops
<1>3. ASSUME WillBe(config, rs, o) PROVE WillBe(c, t, o)
  <2>1. CASE \E i \in 2 .. Len(rs) :
               Names(rs[i], o) /\ \A j \in i .. Len(rs) : Adding(rs[j])
    <3>1. PICK i \in 2 .. Len(rs) :
               Names(rs[i], o) /\ \A j \in i .. Len(rs) : Adding(rs[j])
      BY <2>1
    <3>2. i - 1 \in 1 .. Len(t) /\ t[i - 1] = rs[i]
      BY <1>2
    <3>3. ASSUME NEW j \in i - 1 .. Len(t) PROVE Adding(t[j])
      <4>1. j + 1 \in i .. Len(rs) /\ t[j] = rs[j + 1]
        BY <1>2
      <4>2. QED
        BY <3>1, <4>1
    <3>4. QED
      BY <3>1, <3>2, <3>3 DEF WillBe
  <2>2. CASE /\ \A i \in 1 .. Len(rs) : Adding(rs[i])
             /\ o \in config \/ Names(ops, o)
    <3>1. Adding(ops)
      BY <1>2, <2>2 DEF ops
    <3>2. o \in c
      BY <1>2, <2>2, <3>1, AddsThrough DEF c
    <3>3. ASSUME NEW i \in 1 .. Len(t) PROVE Adding(t[i])
      <4>1. i + 1 \in 1 .. Len(rs) /\ t[i] = rs[i + 1]
        BY <1>2
      <4>2. QED
        BY <2>2, <4>1
    <3>4. QED
      BY <3>2, <3>3 DEF WillBe
  <2>3. QED
    <3>1. CASE o \in config /\ \A i \in 1 .. Len(rs) : Adding(rs[i])
      BY <2>2, <3>1
    <3>2. CASE \E i \in 1 .. Len(rs) :
                 Names(rs[i], o) /\ \A j \in i .. Len(rs) : Adding(rs[j])
      <4>1. PICK i \in 1 .. Len(rs) :
                 Names(rs[i], o) /\ \A j \in i .. Len(rs) : Adding(rs[j])
        BY <3>2
      <4>2. i = 1 \/ i \in 2 .. Len(rs)
        BY <1>2
      <4>3. QED
        BY <2>1, <2>2, <4>1, <4>2 DEF ops
    <3>3. QED
      BY <1>3, <3>1, <3>2 DEF WillBe
<1>4. ASSUME WillGo(config, rs, o) PROVE WillGo(c, t, o)
  <2>1. CASE \E i \in 2 .. Len(rs) :
               Clears(rs[i], o) /\ \A j \in i .. Len(rs) : Spares(rs[j], o)
    <3>1. PICK i \in 2 .. Len(rs) :
               Clears(rs[i], o) /\ \A j \in i .. Len(rs) : Spares(rs[j], o)
      BY <2>1
    <3>2. i - 1 \in 1 .. Len(t) /\ t[i - 1] = rs[i]
      BY <1>2
    <3>3. ASSUME NEW j \in i - 1 .. Len(t) PROVE Spares(t[j], o)
      <4>1. j + 1 \in i .. Len(rs) /\ t[j] = rs[j + 1]
        BY <1>2
      <4>2. QED
        BY <3>1, <4>1
    <3>4. QED
      BY <3>1, <3>2, <3>3 DEF WillGo
  <2>2. CASE /\ \A i \in 1 .. Len(rs) : Spares(rs[i], o)
             /\ o \notin config \/ Clears(ops, o)
    <3>1. Spares(ops, o)
      BY <1>2, <2>2 DEF ops
    <3>2. o \notin c
      BY <1>2, <2>2, <3>1, SparesThrough DEF c
    <3>3. ASSUME NEW i \in 1 .. Len(t) PROVE Spares(t[i], o)
      <4>1. i + 1 \in 1 .. Len(rs) /\ t[i] = rs[i + 1]
        BY <1>2
      <4>2. QED
        BY <2>2, <4>1
    <3>4. QED
      BY <3>2, <3>3 DEF WillGo
  <2>3. QED
    <3>1. CASE o \notin config /\ \A i \in 1 .. Len(rs) : Spares(rs[i], o)
      BY <2>2, <3>1
    <3>2. CASE \E i \in 1 .. Len(rs) :
                 Clears(rs[i], o) /\ \A j \in i .. Len(rs) : Spares(rs[j], o)
      <4>1. PICK i \in 1 .. Len(rs) :
                 Clears(rs[i], o) /\ \A j \in i .. Len(rs) : Spares(rs[j], o)
        BY <3>2
      <4>2. i = 1 \/ i \in 2 .. Len(rs)
        BY <1>2
      <4>3. QED
        BY <2>1, <2>2, <4>1, <4>2 DEF ops
    <3>3. QED
      BY <1>4, <3>1, <3>2 DEF WillGo
<1>5. QED
  BY <1>1, <1>3, <1>4 DEF c, ops

\* What a joined sequence has, its parts have.
Has(s, op) == \E k \in 1 .. Len(s) : s[k] = op

LEMMA JoinedHas ==
  ASSUME NEW s \in Seq(Operations), NEW t \in Seq(Operations), NEW op
  PROVE  /\ s \o t \in Seq(Operations)
         /\ Has(s \o t, op) <=> Has(s, op) \/ Has(t, op)
<1>1. PICK j : j = s \o t
  OBVIOUS
<1>2. Len(s) \in Nat /\ Len(t) \in Nat
  OBVIOUS
<1>3. /\ j \in Seq(Operations) /\ Len(j) = Len(s) + Len(t)
      /\ \A i \in 1 .. Len(s) + Len(t) :
           j[i] = IF i <= Len(s) THEN s[i] ELSE t[i - Len(s)]
  BY <1>1, ConcatProperties
<1>4. ASSUME NEW k \in 1 .. Len(j) PROVE Has(s, j[k]) \/ Has(t, j[k])
  <2>1. CASE k <= Len(s)
    <3>1. k \in 1 .. Len(s) /\ j[k] = s[k]
      BY <1>2, <1>3, <2>1
    <3>2. QED
      BY <3>1 DEF Has
  <2>2. CASE ~(k <= Len(s))
    <3>1. k - Len(s) \in 1 .. Len(t) /\ j[k] = t[k - Len(s)]
      BY <1>2, <1>3, <2>2
    <3>2. QED
      BY <3>1 DEF Has
  <2>3. QED
    BY <2>1, <2>2
<1>5. ASSUME NEW k \in 1 .. Len(s) PROVE Has(j, s[k])
  <2>1. k \in 1 .. Len(j) /\ j[k] = s[k]
    BY <1>2, <1>3
  <2>2. QED
    BY <2>1 DEF Has
<1>6. ASSUME NEW k \in 1 .. Len(t) PROVE Has(j, t[k])
  <2>1. /\ k + Len(s) \in 1 .. Len(j) /\ k + Len(s) \in 1 .. Len(s) + Len(t)
        /\ ~(k + Len(s) <= Len(s)) /\ (k + Len(s)) - Len(s) = k
    BY <1>2, <1>3
  <2>2. j[k + Len(s)] = t[k]
    BY <1>3, <2>1
  <2>3. QED
    BY <2>1, <2>2 DEF Has
<1>7. Has(j, op) <=> Has(s, op) \/ Has(t, op)
  <2>1. Has(j, op) => Has(s, op) \/ Has(t, op)
    <3>1. SUFFICES ASSUME NEW k \in 1 .. Len(j), j[k] = op
                   PROVE  Has(s, op) \/ Has(t, op)
      BY DEF Has
    <3>2. QED
      BY <1>4, <3>1
  <2>2. Has(s, op) => Has(j, op)
    <3>1. SUFFICES ASSUME NEW k \in 1 .. Len(s), s[k] = op PROVE Has(j, op)
      BY DEF Has
    <3>2. QED
      BY <1>5, <3>1
  <2>3. Has(t, op) => Has(j, op)
    <3>1. SUFFICES ASSUME NEW k \in 1 .. Len(t), t[k] = op PROVE Has(j, op)
      BY DEF Has
    <3>2. QED
      BY <1>6, <3>1
  <2>4. QED
    BY <2>1, <2>2, <2>3
<1>8. QED
  BY <1>1, <1>3, <1>7

LEMMA FlattenedHas ==
  ASSUME NEW seqs, Len(seqs) \in Nat, Len(seqs) = 0 => seqs = <<>>,
         \A i \in 1 .. Len(seqs) : seqs[i] \in Seq(Operations),
         NEW op
  PROVE  Has(FlattenSeq(seqs), op) <=> \E i \in 1 .. Len(seqs) : Has(seqs[i], op)
<1>1. CASE Len(seqs) = 0
  <2>1. FlattenSeq(seqs) = <<>>
    BY <1>1 DEF FlattenSeq
  <2>2. ~Has(<<>>, op)
    BY DEF Has
  <2>3. QED
    BY <1>1, <2>1, <2>2
<1>2. CASE Len(seqs) # 0
  <2>1. PICK f : /\ FlattenSeq(seqs) = f[Len(seqs)] /\ f[1] = seqs[1]
                 /\ \A k \in 2 .. Len(seqs) : f[k] = f[k - 1] \o seqs[k]
    BY <1>2, FlattenSteps
  <2> DEFINE n == Len(seqs)
             Fine(k) == /\ f[k] \in Seq(Operations)
                        /\ Has(f[k], op) <=> \E i \in 1 .. k : Has(seqs[i], op)
             S == {k \in 0 .. n : k > 0 => Fine(k)}
  <2>2. 0 \in S
    OBVIOUS
  <2>3. ASSUME NEW k \in 1 .. n, k - 1 \in S PROVE k \in S
    <3>1. CASE k = 1
      <4>1. f[1] = seqs[1] /\ seqs[1] \in Seq(Operations)
        BY <2>1, <3>1
      <4>2. Has(seqs[1], op) <=> \E i \in 1 .. 1 : Has(seqs[i], op)
        OBVIOUS
      <4>3. Fine(1)
        BY <4>1, <4>2
      <4>4. QED
        <5> HIDE DEF Fine
        <5>1. QED
          BY <3>1, <4>3
    <3>2. CASE k # 1
      <4>1. k \in 2 .. n /\ k - 1 > 0 /\ k \in 0 .. n
        BY <3>2
      <4>2. /\ f[k] = f[k - 1] \o seqs[k] /\ Fine(k - 1)
            /\ seqs[k] \in Seq(Operations)
        BY <2>1, <2>3, <4>1
      <4>3. /\ f[k] \in Seq(Operations)
            /\ Has(f[k], op) <=> Has(f[k - 1], op) \/ Has(seqs[k], op)
        BY <4>2, JoinedHas
      <4>4. \A i : i \in 1 .. k <=> i \in 1 .. k - 1 \/ i = k
        BY <4>1
      <4>5. (\E i \in 1 .. k : Has(seqs[i], op)) <=>
              (\E i \in 1 .. k - 1 : Has(seqs[i], op)) \/ Has(seqs[k], op)
        BY <4>4
      <4>6. Fine(k)
        BY <4>2, <4>3, <4>5
      <4>7. QED
        <5> HIDE DEF Fine
        <5>1. QED
          BY <4>1, <4>6
    <3>3. QED
      BY <3>1, <3>2
  <2>4. n \in S
    <3> HIDE DEF S
    <3>1. \A k \in 1 .. n : k - 1 \in S => k \in S
      BY <2>3
    <3>2. \A k \in 0 .. n : k \in S
      BY <2>2, <3>1, UpTo
    <3>3. QED
      BY <3>2
  <2>5. Fine(n)
    <3> HIDE DEF Fine
    <3>1. QED
      BY <1>2, <2>4
  <2>6. QED
    BY <2>1, <2>5
<1>3. QED
  BY <1>1, <1>2

\* A listing names every element.
LEMMA ListingNames ==
  ASSUME NEW H \in SUBSET Hosts, NEW hs \in SetToSeqs(H)
  PROVE  /\ Len(hs) \in Nat /\ DOMAIN hs = 1 .. Len(hs)
         /\ \A i \in 1 .. Len(hs) : hs[i] \in H
         /\ \A h \in H : \E i \in 1 .. Len(hs) : hs[i] = h
<1> DEFINE n == Cardinality(H)
           D == 1 .. n
<1>1. IsFiniteSet(H)
  BY NetscalerAssumption, FS_Subset
<1>2. n \in Nat
  BY <1>1, FS_CardinalityType
<1>3. hs \in [D -> H] /\ \A i, j \in D : i # j => hs[i] # hs[j]
  BY DEF SetToSeqs
<1>4. hs \in Injection(D, H)
  <2> HIDE DEF D
  <2>1. QED
    BY <1>3 DEF Injection, IsInjective
<1>5. Cardinality(D) = n /\ IsFiniteSet(D)
  <2>1. 1 \in Int /\ n \in Int /\ n - 1 + 1 = n
    BY <1>2
  <2> HIDE DEF n
  <2>2. IsFiniteSet(1 .. n) /\ Cardinality(1 .. n) = IF 1 > n THEN 0 ELSE n - 1 + 1
    BY <2>1, FS_Interval
  <2>3. QED
    BY <1>2, <2>2
<1>6. hs \in Surjection(D, H)
  <2> HIDE DEF D
  <2>1. QED
    BY <1>1, <1>4, <1>5, FS_Injection
<1>7. \A h \in H : \E i \in D : hs[i] = h
  <2> HIDE DEF D
  <2>1. QED
    BY <1>6 DEF Surjection
<1>8. Len(hs) = n /\ DOMAIN hs = D
  <2> HIDE DEF n
  <2>1. QED
    BY <1>2, <1>3
<1>9. QED
  BY <1>2, <1>3, <1>7, <1>8

\* What takes the route of h away takes every part of it but its services.
LEMMA DeprovisionTakes ==
  ASSUME NEW h \in Hosts, NEW o \in Objects, o.host = h, o.kind # "service"
  PROVE  \E k \in 2 .. 5 : Takes(MapDeprovision(h)[k], o)
<1> DEFINE s == MapDeprovision(h)
<1>1. /\ s[2] = Op("delete", "lbvserver", h, 0)
      /\ s[3] = Op("delete", "sslcertkey", h, 0)
      /\ s[4] = Op("delete", "crt", h, 0) /\ s[5] = Op("delete", "key", h, 0)
  BY DEF MapDeprovision
<1> HIDE DEF s
<1>2. o = Object(o.kind, h, o.n) /\ o.kind \in Kinds /\ (~Numbered(o) => o.n = 0)
  BY ObjectFields
<1>3. CASE o.kind \in {"service_binding", "sslcertkey_binding"}
  <2>1. Takes(s[2], o)
    BY <1>1, <1>3 DEF Takes, Op, Object, Bindings
  <2>2. QED
    BY <2>1 DEF s
<1>4. CASE o.kind = "lbvserver"
  <2>1. o = Object("lbvserver", h, 0)
    BY <1>2, <1>4 DEF Numbered
  <2>2. Takes(s[2], o)
    BY <1>1, <2>1 DEF Takes, Op
  <2>3. QED
    BY <2>2 DEF s
<1>5. CASE o.kind = "sslcertkey"
  <2>1. o = Object("sslcertkey", h, 0)
    BY <1>2, <1>5 DEF Numbered
  <2>2. Takes(s[3], o)
    BY <1>1, <2>1 DEF Takes, Op
  <2>3. QED
    BY <2>2 DEF s
<1>6. CASE o.kind = "crt"
  <2>1. o = Object("crt", h, 0)
    BY <1>2, <1>6 DEF Numbered
  <2>2. Takes(s[4], o)
    BY <1>1, <2>1 DEF Takes, Op
  <2>3. QED
    BY <2>2 DEF s
<1>7. CASE o.kind = "key"
  <2>1. o = Object("key", h, 0)
    BY <1>2, <1>7 DEF Numbered
  <2>2. Takes(s[5], o)
    BY <1>1, <2>1 DEF Takes, Op
  <2>3. QED
    BY <2>2 DEF s
<1>8. QED
  BY <1>2, <1>3, <1>4, <1>5, <1>6, <1>7 DEF Kinds

LEMMA DeprovisionActions ==
  ASSUME NEW h \in Hosts
  PROVE  /\ Len(MapDeprovision(h)) = 5
         /\ MapDeprovision(h)[1].action = "unbind"
         /\ \A k \in 2 .. 5 : MapDeprovision(h)[k].action = "delete"
<1> DEFINE s == MapDeprovision(h)
<1>1. /\ Len(s) = 5 /\ s[1] = Op("unbind", "sslcertkey_binding", h, 0)
      /\ s[2] = Op("delete", "lbvserver", h, 0)
      /\ s[3] = Op("delete", "sslcertkey", h, 0)
      /\ s[4] = Op("delete", "crt", h, 0) /\ s[5] = Op("delete", "key", h, 0)
  BY DEF MapDeprovision
<1> HIDE DEF s
<1>2. /\ s[1].action = "unbind" /\ s[2].action = "delete" /\ s[3].action = "delete"
      /\ s[4].action = "delete" /\ s[5].action = "delete"
  BY <1>1 DEF Op
<1>3. \A k \in 2 .. 5 : k = 2 \/ k = 3 \/ k = 4 \/ k = 5
  OBVIOUS
<1>4. QED
  BY <1>1, <1>2, <1>3 DEF s

LEMMA ProvisionNames ==
  ASSUME NEW h \in Hosts, NEW hasCert
  PROVE  LET s == MapProvision(h, hasCert)
         IN  /\ Len(s) \in Nat /\ DOMAIN s = 1 .. Len(s)
             /\ \A k \in 1 .. Len(s) : /\ s[k] \in Operations /\ s[k].obj.host = h
                                       /\ s[k].action \in {"add", "bind"}
             /\ \A o \in InPlace(h, hasCert) : \E k \in 1 .. Len(s) : s[k].obj = o
<1> DEFINE s == MapProvision(h, hasCert)
<1>1. s \in Seq(AddsOf(h))
  BY ProvisionIs
<1>2. \A o \in InPlace(h, hasCert) : \E k \in DOMAIN s : s[k].obj = o
  BY DEF InPlace
<1> HIDE DEF s
<1>3. Len(s) \in Nat /\ DOMAIN s = 1 .. Len(s) /\ \A k \in 1 .. Len(s) : s[k] \in AddsOf(h)
  <2> DEFINE A == AddsOf(h)
  <2> HIDE DEF A
  <2>1. s \in Seq(A)
    BY <1>1 DEF A
  <2>2. Len(s) \in Nat /\ DOMAIN s = 1 .. Len(s) /\ \A k \in 1 .. Len(s) : s[k] \in A
    BY <2>1
  <2>3. QED
    BY <2>2 DEF A
<1>4. \A k \in 1 .. Len(s) : /\ s[k] \in Operations /\ s[k].obj.host = h
                             /\ s[k].action \in {"add", "bind"}
  BY <1>3 DEF AddsOf
<1>5. QED
  BY <1>2, <1>3, <1>4 DEF s

\* A batch of additions names every part of its routes and nothing else.
LEMMA BatchProvisionAdds ==
  ASSUME NEW H \in SUBSET Hosts, NEW hs \in SetToSeqs(H), NEW certs
  PROVE  LET b == MapBatchProvision(hs, certs)
         IN  /\ Adding(b)
             /\ \A k \in 1 .. Len(b) : b[k].obj.host \in H
             /\ \A h \in H : \A o \in InPlace(h, h \in certs) : Names(b, o)
<1> DEFINE s == [i \in DOMAIN hs |-> MapProvision(hs[i], hs[i] \in certs)]
           b == MapBatchProvision(hs, certs)
<1>1. /\ Len(hs) \in Nat /\ DOMAIN hs = 1 .. Len(hs)
      /\ \A i \in 1 .. Len(hs) : hs[i] \in H
      /\ \A h \in H : \E i \in 1 .. Len(hs) : hs[i] = h
  BY ListingNames
<1>2. /\ Len(s) \in Nat /\ Len(s) = Len(hs) /\ (Len(s) = 0 => s = <<>>)
      /\ \A i \in 1 .. Len(s) : s[i] = MapProvision(hs[i], hs[i] \in certs)
  BY <1>1
<1>3. \A i \in 1 .. Len(s) : s[i] \in Seq(Operations)
  BY <1>1, <1>2, ProvisionIs
<1>4. b = FlattenSeq(s)
  BY DEF MapBatchProvision
<1> HIDE DEF s, b
<1>5. \A op : Has(b, op) <=> \E i \in 1 .. Len(s) : Has(s[i], op)
  BY <1>2, <1>3, <1>4, FlattenedHas
<1>6. ASSUME NEW k \in 1 .. Len(b)
      PROVE  b[k].action \in {"add", "bind"} /\ b[k].obj.host \in H
  <2>1. Has(b, b[k])
    BY DEF Has
  <2>2. PICK i \in 1 .. Len(s) : Has(s[i], b[k])
    BY <1>5, <2>1
  <2>3. PICK j \in 1 .. Len(s[i]) : s[i][j] = b[k]
    BY <2>2 DEF Has
  <2>4. hs[i] \in H /\ s[i] = MapProvision(hs[i], hs[i] \in certs)
    <3>1. i \in 1 .. Len(hs)
      BY <1>2
    <3>2. hs[i] \in H
      BY <1>1, <3>1
    <3>3. s[i] = MapProvision(hs[i], hs[i] \in certs)
      BY <1>2
    <3>4. QED
      BY <3>2, <3>3
  <2>5. s[i][j].action \in {"add", "bind"} /\ s[i][j].obj.host = hs[i]
    BY <2>4, ProvisionNames
  <2>6. QED
    BY <2>3, <2>4, <2>5
<1>7. ASSUME NEW h \in H, NEW o \in InPlace(h, h \in certs) PROVE Names(b, o)
  <2>1. PICK i \in 1 .. Len(s) : hs[i] = h /\ s[i] = MapProvision(h, h \in certs)
    <3>1. PICK i \in 1 .. Len(hs) : hs[i] = h
      BY <1>1
    <3>2. i \in 1 .. Len(s)
      BY <1>2
    <3>3. s[i] = MapProvision(hs[i], hs[i] \in certs)
      BY <1>2, <3>2
    <3>4. QED
      BY <3>1, <3>2, <3>3
  <2>2. PICK j \in 1 .. Len(s[i]) : s[i][j].obj = o
    BY <2>1, ProvisionNames
  <2>3. Has(s[i], s[i][j])
    BY DEF Has
  <2>4. Has(b, s[i][j])
    BY <1>5, <2>3
  <2>5. QED
    BY <2>2, <2>4 DEF Has, Names
<1>8. QED
  BY <1>6, <1>7 DEF Adding, b

\* A batch of removals takes every part of its routes but the services, and puts
\* nothing anywhere.
LEMMA BatchDeprovisionTakes ==
  ASSUME NEW H \in SUBSET Hosts, NEW hs \in SetToSeqs(H)
  PROVE  LET a == MapBatchDeprovision(hs)
         IN  /\ \A o : Spares(a, o)
             /\ \A o \in Objects : o.host \in H /\ o.kind # "service" => Clears(a, o)
<1> DEFINE s == [i \in DOMAIN hs |-> MapDeprovision(hs[i])]
           a == MapBatchDeprovision(hs)
<1>1. /\ Len(hs) \in Nat /\ DOMAIN hs = 1 .. Len(hs)
      /\ \A i \in 1 .. Len(hs) : hs[i] \in H
      /\ \A h \in H : \E i \in 1 .. Len(hs) : hs[i] = h
  BY ListingNames
<1>2. /\ Len(s) \in Nat /\ Len(s) = Len(hs) /\ (Len(s) = 0 => s = <<>>)
      /\ \A i \in 1 .. Len(s) : s[i] = MapDeprovision(hs[i])
  BY <1>1
<1>3. \A i \in 1 .. Len(s) : s[i] \in Seq(Operations)
  BY <1>1, <1>2, DeprovisionIs
<1>4. a = FlattenSeq(s)
  BY DEF MapBatchDeprovision
<1> HIDE DEF s, a
<1>5. \A op : Has(a, op) <=> \E i \in 1 .. Len(s) : Has(s[i], op)
  BY <1>2, <1>3, <1>4, FlattenedHas
<1>6. ASSUME NEW k \in 1 .. Len(a) PROVE a[k].action \in {"unbind", "delete"}
  <2>1. Has(a, a[k])
    BY DEF Has
  <2>2. PICK i \in 1 .. Len(s) : Has(s[i], a[k])
    BY <1>5, <2>1
  <2>3. PICK j \in 1 .. Len(s[i]) : s[i][j] = a[k]
    BY <2>2 DEF Has
  <2>4. hs[i] \in Hosts /\ s[i] = MapDeprovision(hs[i])
    <3>1. i \in 1 .. Len(hs)
      BY <1>2
    <3>2. hs[i] \in H
      BY <1>1, <3>1
    <3>3. s[i] = MapDeprovision(hs[i])
      BY <1>2
    <3>4. QED
      BY <3>2, <3>3
  <2>5. /\ Len(s[i]) = 5 /\ s[i][1].action = "unbind"
        /\ \A k2 \in 2 .. 5 : s[i][k2].action = "delete"
    BY <2>4, DeprovisionActions
  <2>6. j = 1 \/ j \in 2 .. 5
    BY <2>5
  <2>7. QED
    BY <2>3, <2>5, <2>6
<1>7. \A o : Spares(a, o)
  BY <1>6 DEF Spares, Puts
<1>8. ASSUME NEW o \in Objects, o.host \in H, o.kind # "service" PROVE Clears(a, o)
  <2>1. PICK i \in 1 .. Len(s) : hs[i] = o.host /\ s[i] = MapDeprovision(o.host)
    <3>1. PICK i \in 1 .. Len(hs) : hs[i] = o.host
      BY <1>1, <1>8
    <3>2. i \in 1 .. Len(s)
      BY <1>2
    <3>3. s[i] = MapDeprovision(hs[i])
      BY <1>2, <3>2
    <3>4. QED
      BY <3>1, <3>2, <3>3
  <2>2. o.host \in Hosts
    BY <1>8
  <2>3. PICK j \in 2 .. 5 : Takes(s[i][j], o)
    BY <1>8, <2>1, <2>2, DeprovisionTakes
  <2>4. Len(s[i]) = 5
    BY <2>1, <2>2, DeprovisionActions
  <2>5. Has(s[i], s[i][j])
    BY <2>4 DEF Has
  <2>6. Has(a, s[i][j])
    BY <1>5, <2>5
  <2>7. QED
    BY <2>3, <2>6 DEF Has, Clears
<1>9. QED
  BY <1>7, <1>8 DEF a

\* What an event or a cycle is begun with, its requests do.
LEMMA ProvisionPlanned ==
  ASSUME NEW h \in Hosts, NEW c
  PROVE  Planned(c, Singly(MapProvision(h, h \in TLSHosts)), {h}, {}, {h} \cap TLSHosts)
<1> DEFINE s == MapProvision(h, h \in TLSHosts)
           rs == Singly(s)
<1>1. /\ Len(s) \in Nat /\ DOMAIN s = 1 .. Len(s)
      /\ \A k \in 1 .. Len(s) : /\ s[k] \in Operations /\ s[k].obj.host = h
                                /\ s[k].action \in {"add", "bind"}
      /\ \A o \in InPlace(h, h \in TLSHosts) : \E k \in 1 .. Len(s) : s[k].obj = o
  BY ProvisionNames
<1> HIDE DEF s
<1>2. Len(rs) = Len(s) /\ \A i \in 1 .. Len(s) : rs[i] = Execute(s[i])
  BY <1>1 DEF Singly
<1> HIDE DEF rs
<1>3. ASSUME NEW i \in 1 .. Len(s) PROVE Len(rs[i]) = 1 /\ rs[i][1] = s[i]
  <2>1. Execute(s[i]) = <<s[i]>>
    BY <1>1 DEF Execute
  <2>2. rs[i] = <<s[i]>>
    BY <1>2, <2>1
  <2>3. QED
    BY <2>2
<1>4. ASSUME NEW i \in 1 .. Len(rs) PROVE Adding(rs[i])
  <2>0. i \in 1 .. Len(s)
    BY <1>2
  <2>1. Len(rs[i]) = 1 /\ rs[i][1] = s[i] /\ s[i].action \in {"add", "bind"}
    BY <1>1, <1>3, <2>0
  <2>2. QED
    BY <2>1 DEF Adding
<1>5. ASSUME NEW o \in InPlace(h, h \in TLSHosts) PROVE WillBe(c, rs, o)
  <2>1. PICK i \in 1 .. Len(s) : s[i].obj = o
    BY <1>1
  <2>2. Names(rs[i], o)
    <3>1. Len(rs[i]) = 1 /\ rs[i][1] = s[i]
      BY <1>3
    <3>2. QED
      BY <2>1, <3>1 DEF Names
  <2>3. i \in 1 .. Len(rs) /\ \A j \in i .. Len(rs) : j \in 1 .. Len(rs)
    BY <1>1, <1>2
  <2>4. QED
    BY <1>4, <2>2, <2>3 DEF WillBe
<1>6. (h \in {h} \cap TLSHosts) = (h \in TLSHosts)
  OBVIOUS
<1>7. QED
  BY <1>5, <1>6 DEF Planned, rs, s

LEMMA DeprovisionPlanned ==
  ASSUME NEW h \in Hosts, NEW c
  PROVE  Planned(c, Singly(MapDeprovision(h)), {}, {h}, {})
<1> DEFINE s == MapDeprovision(h)
           rs == Singly(s)
<1>1. Len(s) = 5 /\ \A k \in 2 .. 5 : s[k].action = "delete"
  BY DeprovisionActions
<1>2. DOMAIN s = 1 .. 5
  BY DEF MapDeprovision
<1> HIDE DEF s
<1>3. Len(rs) = 5 /\ \A i \in 1 .. 5 : rs[i] = Execute(s[i])
  BY <1>2 DEF Singly
<1> HIDE DEF rs
<1>4. ASSUME NEW i \in 2 .. 5 PROVE rs[i] = <<s[i]>> /\ s[i].action = "delete"
  <2>1. i \in 1 .. 5 /\ s[i].action = "delete"
    BY <1>1
  <2>2. QED
    BY <1>3, <2>1 DEF Execute
<1>5. ASSUME NEW i \in 2 .. 5, NEW o PROVE Spares(rs[i], o)
  <2>1. Len(rs[i]) = 1 /\ rs[i][1] = s[i] /\ s[i].action = "delete"
    BY <1>4
  <2>2. QED
    BY <2>1 DEF Spares, Puts
<1>6. ASSUME NEW o \in Objects, o.host = h, o.kind # "service" PROVE WillGo(c, rs, o)
  <2>1. PICK i \in 2 .. 5 : Takes(s[i], o)
    BY <1>6, DeprovisionTakes DEF s
  <2>2. Clears(rs[i], o)
    <3>1. Len(rs[i]) = 1 /\ rs[i][1] = s[i]
      BY <1>4
    <3>2. QED
      BY <2>1, <3>1 DEF Clears
  <2>3. i \in 1 .. Len(rs) /\ \A j \in i .. Len(rs) : j \in 2 .. 5
    BY <1>3
  <2>4. QED
    BY <1>5, <2>2, <2>3 DEF WillGo
<1>7. QED
  BY <1>6 DEF Planned, rs, s

LEMMA CyclePlanned ==
  ASSUME NEW add \in SUBSET Hosts, NEW remove \in SUBSET Hosts,
         NEW adds \in SetToSeqs(add), NEW removes \in SetToSeqs(remove),
         NEW certs, NEW c
  PROVE  Planned(c, Batch(MapBatchDeprovision(removes)) \o
                    Batch(MapBatchProvision(adds, certs)), add, remove, certs)
<1> DEFINE a == MapBatchDeprovision(removes)
           b == MapBatchProvision(adds, certs)
<1>1. /\ \A o : Spares(a, o)
      /\ \A o \in Objects : o.host \in remove /\ o.kind # "service" => Clears(a, o)
  BY BatchDeprovisionTakes
<1>2. /\ Adding(b)
      /\ \A k \in 1 .. Len(b) : b[k].obj.host \in add
      /\ \A h \in add : \A o \in InPlace(h, h \in certs) : Names(b, o)
  BY BatchProvisionAdds
<1> HIDE DEF a, b
<1>3. \A o : ~Names(<<>>, o) /\ ~Clears(<<>>, o)
  BY DEF Names, Clears
<1>4. PICK rs : rs = Batch(a) \o Batch(b)
  OBVIOUS
<1>5. /\ a = <<>> /\ b = <<>> => Len(rs) = 0
      /\ a = <<>> /\ b # <<>> => Len(rs) = 1 /\ rs[1] = b
      /\ a # <<>> /\ b = <<>> => Len(rs) = 1 /\ rs[1] = a
      /\ a # <<>> /\ b # <<>> => Len(rs) = 2 /\ rs[1] = a /\ rs[2] = b
  BY <1>4 DEF Batch
<1>6. ASSUME NEW h \in add, NEW o \in InPlace(h, h \in certs) PROVE WillBe(c, rs, o)
  <2>1. Names(b, o) /\ b # <<>>
    BY <1>2, <1>3
  <2>2. Len(rs) \in {1, 2} /\ rs[Len(rs)] = b
    BY <1>5, <2>1
  <2>3. \A j \in Len(rs) .. Len(rs) : rs[j] = b
    BY <2>2
  <2>4. Len(rs) \in 1 .. Len(rs)
    BY <2>2
  <2>5. QED
    BY <1>2, <2>1, <2>2, <2>3, <2>4 DEF WillBe
<1>7. ASSUME NEW o \in Objects, o.host \in remove \ add, o.kind # "service"
      PROVE  WillGo(c, rs, o)
  <2>1. Clears(a, o) /\ a # <<>>
    BY <1>1, <1>3, <1>7
  <2>2. Spares(b, o)
    BY <1>2, <1>7 DEF Spares, Puts
  <2>3. /\ Len(rs) \in {1, 2} /\ rs[1] = a
        /\ Len(rs) = 2 => rs[2] = b
    BY <1>5, <2>1
  <2>4. \A j \in 1 .. Len(rs) : rs[j] = a \/ rs[j] = b
    BY <2>3
  <2>5. 1 \in 1 .. Len(rs)
    BY <2>3
  <2>6. \A j \in 1 .. Len(rs) : Spares(rs[j], o)
    BY <1>1, <2>2, <2>4
  <2>7. QED
    BY <2>1, <2>3, <2>5, <2>6 DEF WillGo
<1>8. QED
  BY <1>4, <1>6, <1>7 DEF Planned, a, b

LEMMA DoneStep ==
  ASSUME DoneInv, [Next]_vars
  PROVE  AsPlanned'
<1>1. TypeOK /\ InOrder /\ AsPlanned
  BY DEF DoneInv, ApplianceInv
<1>2. CASE UNCHANGED <<config, job, requests>>
  BY <1>1, <1>2 DEF AsPlanned
<1>3. CASE Cycle
  <2>1. PICK certs \in SUBSET (want \cap TLSHosts), adds \in SetToSeqs(want),
             removes \in SetToSeqs(Listed) :
          Begin("cycle", want, Listed, certs,
                Batch(MapBatchDeprovision(removes)) \o
                Batch(MapBatchProvision(adds, certs)))
    BY <1>3 DEF Cycle
  <2>2. want \in SUBSET Hosts /\ Listed \in SUBSET Hosts
    <3>1. want \subseteq Hosts /\ config \subseteq Objects
      BY <1>1 DEF TypeOK
    <3>2. QED
      BY <3>1, ObjectFields DEF Listed
  <2>3. /\ config' = config /\ job'.add = want /\ job'.remove = Listed
        /\ job'.certs = certs
        /\ requests' = Batch(MapBatchDeprovision(removes)) \o
                       Batch(MapBatchProvision(adds, certs))
    BY <2>1 DEF Begin
  <2>4. Planned(config, requests', want, Listed, certs)
    BY <2>2, <2>3, CyclePlanned
  <2>5. QED
    BY <2>3, <2>4 DEF AsPlanned
<1>4. ASSUME NEW h \in Hosts, Provision(h) PROVE AsPlanned'
  <2>1. /\ config' = config /\ job'.add = {h} /\ job'.remove = {}
        /\ job'.certs = {h} \cap TLSHosts
        /\ requests' = Singly(MapProvision(h, h \in TLSHosts))
    BY <1>4 DEF Provision, Begin
  <2>2. Planned(config, requests', {h}, {}, {h} \cap TLSHosts)
    BY <2>1, ProvisionPlanned
  <2>3. QED
    BY <2>1, <2>2 DEF AsPlanned
<1>5. ASSUME NEW h \in Hosts, Deprovision(h) PROVE AsPlanned'
  <2>1. /\ config' = config /\ job'.add = {} /\ job'.remove = {h} /\ job'.certs = {}
        /\ requests' = Singly(MapDeprovision(h))
    BY <1>5 DEF Deprovision, Begin
  <2>2. Planned(config, requests', {}, {h}, {})
    BY <2>1, DeprovisionPlanned
  <2>3. QED
    BY <2>1, <2>2 DEF AsPlanned
<1>6. CASE Serve
  <2> DEFINE ops == requests[1]
             c   == Through(ops)[Len(ops)]
  <2>1. requests # <<>> /\ requests \in Seq(Seq(Operations))
    BY <1>1, <1>6 DEF Serve, TypeOK, Operations
  <2>2. Head(requests) = ops
    BY <2>1, HeadTailProperties
  <2>3. config' = c /\ requests' = Tail(requests) /\ job' = job
    BY <1>6, <2>2 DEF Serve
  <2>4. \A o : /\ WillBe(config, requests, o) => WillBe(config', requests', o)
               /\ WillGo(config, requests, o) => WillGo(config', requests', o)
    BY <2>1, <2>3, ServeKeepsPlan
  <2>5. QED
    BY <1>1, <2>3, <2>4 DEF AsPlanned, Planned
<1>7. CASE Fail
  <2>1. job'.ok = FALSE
    BY <1>1, <1>7 DEF Fail, TypeOK
  <2>2. QED
    BY <2>1 DEF AsPlanned
<1>8. CASE Return
  BY <1>8 DEF Return, AsPlanned, Idle
<1>9. QED
  BY <1>2, <1>3, <1>4, <1>5, <1>6, <1>7, <1>8 DEF Next, vars, Change, Refuse, Fault

\* What an operation without an error was made for is done, whatever the number
\* of routes and backends, wherever earlier operations have failed, and although
\* what is there already or there no more is added and removed again: the
\* operations after an addition keep it, the ones after a removal do not bring
\* back what it took, and with the virtual server go all its bindings.
THEOREM ApplianceDone == Spec => []DoneAsAsked
<1>1. Init => DoneInv
  <2> SUFFICES ASSUME Init PROVE DoneInv
    OBVIOUS
  <2>1. ApplianceInv
    BY InitInv
  <2>2. AsPlanned
    BY DEF Init, Idle, AsPlanned
  <2>3. QED
    BY <2>1, <2>2 DEF DoneInv
<1>2. DoneInv /\ [Next]_vars => DoneInv'
  BY DoneStep, StepInv DEF DoneInv
<1>3. DoneInv => DoneAsAsked
  <2> SUFFICES ASSUME DoneInv, job.kind # "idle", requests = <<>>, job.ok
               PROVE  /\ \A h \in job.add : InPlace(h, h \in job.certs) \subseteq config
                      /\ \A o \in config :
                           o.host \in job.remove \ job.add => o.kind = "service"
    BY DEF DoneAsAsked
  <2>1. Planned(config, <<>>, job.add, job.remove, job.certs) /\ config \subseteq Objects
    BY DEF DoneInv, ApplianceInv, TypeOK, AsPlanned
  <2>2. \A o : /\ WillBe(config, <<>>, o) => o \in config
               /\ WillGo(config, <<>>, o) => o \notin config
    BY DEF WillBe, WillGo
  <2>3. QED
    BY <2>1, <2>2 DEF Planned
<1>4. QED
  BY <1>1, <1>2, <1>3, PTL DEF Spec
=============================================================================
