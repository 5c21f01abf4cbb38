-------------------------- MODULE CertStoreProofs --------------------------
(***************************************************************************)
(* Proofs about CertStore, for any hosts, places, stores, goroutines, and  *)
(* any number of certificates and faults.                                  *)
(***************************************************************************)
EXTENDS CertStore, TLAPS

-----------------------------------------------------------------------------
(* The inductive invariant. *)

Writing == Files \cup {"look", "create", "update"}

\* A call knows its host, and nothing of the calls before it.
Called ==
  \A w \in Writers :
    /\ pc[w] # "idle" => host[w] \in Hosts
    /\ pc[w] = "idle" => got[w] = None

\* Each store has its own way to write.
OwnWay ==
  \A w \in Writers :
    /\ pc[w] \in Files => store = "file"
    /\ pc[w] \in {"look", "create"} => store = "kube"
    /\ pc[w] = "update" => store \in {"kube", "vault"}

OneByOne ==
  store = "file" =>
    \A v, w \in Writers : pc[v] # "idle" /\ pc[w] # "idle" => v = w

\* What is in an entry has been issued.
Real(e) == \A f \in Files : e[f] \in DOMAIN issued \cup {Missing, Torn}

AllReal ==
  /\ \A p \in Places : Real(kept[p])
  /\ \A w \in Writers : Real(got[w])

\* What is being stored is new.
AsIssued ==
  \A w \in Writers : pc[w] \in Writing => \E n \in fresh : got[w] = All(n)

\* A Secret or an entry of Vault is one certificate's or not there.
Whole(e) == e = None \/ \E n \in DOMAIN issued : e = All(n)

AllWhole ==
  store # "file" =>
    /\ \A p \in Places : Whole(kept[p])
    /\ \A w \in Writers : Whole(got[w])

\* meta.json vouches for nothing but its own certificate and key,
Vouches(e) == e["meta"] \in fresh => {e["cert"], e["key"]} \subseteq {e["meta"], Missing}

AllVouch ==
  store = "file" => \A p \in Places \ overlaid : Vouches(kept[p])

\* for it vouches for nothing while the files are written one by one,
Unvouched ==
  \A w \in Writers :
    pc[w] \in Files =>
      Place(w) \in overlaid \/ kept[Place(w)]["meta"] \notin fresh

\* in this order.
InOrder ==
  \A w \in Writers :
    /\ pc[w] \in {"key", "meta"} => kept[Place(w)]["cert"] = got[w]["cert"]
    /\ pc[w] = "meta" => kept[Place(w)]["key"] = got[w]["key"]

\* Nobody else writes between Get and Check.
AsRead ==
  store = "file" =>
    \A w \in Writers : pc[w] = "check" => got[w] = kept[Place(w)]

FileInv == AllVouch /\ Unvouched /\ InOrder /\ AsRead

\* What is in a place has been issued for a host whose place it is.
For(e, p) ==
  \A f \in Files : e[f] \in DOMAIN issued => PlaceOf[issued[e[f]]] = p

InPlace ==
  /\ \A p \in Places : For(kept[p], p)
  /\ \A w \in Writers : pc[w] # "idle" => For(got[w], Place(w))

-----------------------------------------------------------------------------
(* Type correctness: what a call has to itself, and the rest. *)

LocalsTyped ==
  /\ pc \in [Writers -> PCs]
  /\ host \in [Writers -> Hosts \cup {NoHost}]
  /\ got \in [Writers -> Entry]
  /\ Called

StoreTyped ==
  /\ store \in Stores
  /\ kept \in [Places -> Entry]
  /\ issued \in Seq(Hosts) /\ Len(issued) <= MaxSerial
  /\ fresh \subseteq DOMAIN issued
  /\ faults \in 0 .. MaxFaults
  /\ overlaid \subseteq Places

Typed == LocalsTyped /\ StoreTyped

LEMMA Entries ==
  /\ None \in Entry
  /\ \A n \in Serials : All(n) \in Entry
  /\ \A f \in Files : None[f] = Missing /\ \A n : All(n)[f] = n
BY DEF None, All, Entry, Content

\* Issue returns.
LEMMA LeaveTyped ==
  ASSUME LocalsTyped, NEW w \in Writers, Leave(w)
  PROVE  LocalsTyped'
<1> USE DEF LocalsTyped, Leave, goto
<1>1. pc' \in [Writers -> PCs]
  BY DEF PCs
<1>2. host' \in [Writers -> Hosts \cup {NoHost}]
  OBVIOUS
<1>3. got' \in [Writers -> Entry]
  BY Entries
<1>4. Called'
  BY DEF Called
<1>5. QED
  BY <1>1, <1>2, <1>3, <1>4

\* Issue goes on.
LEMMA GoTyped ==
  ASSUME LocalsTyped, NEW w \in Writers, NEW label \in PCs \ {"idle"},
         goto(w, label), pc[w] # "idle", host' = host,
         got' = got \/ \E e \in Entry : got' = [got EXCEPT ![w] = e]
  PROVE  LocalsTyped'
<1> USE DEF LocalsTyped, goto
<1>1. pc' \in [Writers -> PCs]
  OBVIOUS
<1>2. got' \in [Writers -> Entry]
  OBVIOUS
<1>3. Called'
  BY DEF Called
<1>4. QED
  BY <1>1, <1>2, <1>3

LEMMA PlaceTyped ==
  ASSUME Typed, NEW w \in Writers, pc[w] # "idle"
  PROVE  host[w] \in Hosts /\ Place(w) \in Places
BY CertStoreAssumption DEF Typed, LocalsTyped, Called, Place, Places

\* The calls that do not touch the store.
LEMMA LookupTyped ==
  ASSUME Typed, NEW w \in Writers,
         \/ \E h \in Hosts : Call(w, h)
         \/ Get(w) \/ GetFails(w) \/ Check(w) \/ InnerFails(w) \/ Look(w)
         \/ Return(w)
  PROVE  Typed'
<1>1. StoreTyped'
  BY CertStoreAssumption
  DEF Typed, StoreTyped, Call, Get, GetFails, Check, InnerFails, Look, Return,
      Fault
<1>2. ASSUME NEW h \in Hosts, Call(w, h)
      PROVE  LocalsTyped'
  BY <1>2 DEF Typed, LocalsTyped, Call, goto, Called, PCs
<1>3. CASE Get(w)
  <2>1. kept[Place(w)] \in Entry
    BY <1>3, PlaceTyped DEF Get, Typed, StoreTyped
  <2>2. LocalsTyped'
    BY <1>3, <2>1, GoTyped DEF Get, Typed, PCs
  <2>3. QED
    BY <1>1, <2>2 DEF Typed
<1>4. CASE GetFails(w)
  BY <1>1, <1>4, LeaveTyped, GoTyped DEF GetFails, Typed, PCs
<1>5. CASE Check(w)
  BY <1>1, <1>5, GoTyped DEF Check, Typed, PCs
<1>6. CASE InnerFails(w)
  BY <1>1, <1>6, LeaveTyped DEF InnerFails, Typed
<1>7. CASE Look(w)
  BY <1>1, <1>7, GoTyped DEF Look, Typed, PCs
<1>8. CASE Return(w)
  BY <1>1, <1>8, LeaveTyped DEF Return, Typed
<1>9. QED
  BY <1>1, <1>2, <1>3, <1>4, <1>5, <1>6, <1>7, <1>8 DEF Typed

LEMMA InnerTyped ==
  ASSUME Typed, NEW w \in Writers, Inner(w)
  PROVE  Typed'
<1>1. host[w] \in Hosts /\ Place(w) \in Places
  BY PlaceTyped DEF Inner
<1>2. /\ issued \in Seq(Hosts) /\ Len(issued) < MaxSerial
      /\ issued' = Append(issued, host[w])
      /\ fresh' = fresh \cup {Len(issued) + 1}
      /\ got' = [got EXCEPT ![w] = All(Len(issued) + 1)]
  BY DEF Inner, Typed, StoreTyped
<1>3. Len(issued) + 1 \in Serials
  BY <1>2, CertStoreAssumption DEF Serials
<1>4. issued' \in Seq(Hosts) /\ Len(issued') <= MaxSerial
  BY <1>1, <1>2, CertStoreAssumption
<1>5. fresh' \subseteq DOMAIN issued'
  BY <1>1, <1>2 DEF Typed, StoreTyped
<1>6. StoreTyped'
  BY <1>1, <1>4, <1>5 DEF Inner, Typed, StoreTyped
<1>7. FirstWrite \in PCs \ {"idle"}
  BY CertStoreAssumption DEF FirstWrite, PCs, Files, Typed, StoreTyped
<1>8. LocalsTyped'
  BY <1>2, <1>3, <1>7, Entries, GoTyped DEF Inner, Typed
<1>9. QED
  BY <1>6, <1>8 DEF Typed

\* What is cut short is a file.
LEMMA CutShortTyped ==
  ASSUME Typed, NEW w \in Writers, pc[w] # "idle", CutShort(w)
  PROVE  kept' \in [Places -> Entry]
<1>1. kept \in [Places -> Entry]
  BY DEF Typed, StoreTyped
<1>2. CASE kept' = kept
  BY <1>1, <1>2
<1>3. ASSUME NEW f \in Files, kept' = [kept EXCEPT ![Place(w)][f] = Torn]
      PROVE  kept' \in [Places -> Entry]
  <2>1. Place(w) \in Places /\ kept[Place(w)] \in Entry
    BY <1>1, PlaceTyped
  <2>2. [kept[Place(w)] EXCEPT ![f] = Torn] \in Entry
    BY <2>1 DEF Entry, Content
  <2>3. QED
    BY <1>1, <1>3, <2>1, <2>2
<1>4. QED
  BY <1>2, <1>3 DEF CutShort

LEMMA WritingTyped ==
  ASSUME Typed, NEW w \in Writers,
         Put(w) \/ WriteFile(w) \/ PutFails(w) \/ Crash(w)
  PROVE  Typed'
<1>1. pc[w] # "idle"
  BY DEF Put, WriteFile, PutFails, Crash, Files
<1>2. host[w] \in Hosts /\ Place(w) \in Places
  BY <1>1, PlaceTyped
<1>3. CASE Put(w)
  <2>1. kept' \in [Places -> Entry]
    BY <1>2, <1>3 DEF Put, Typed, StoreTyped, LocalsTyped
  <2>2. StoreTyped'
    BY <1>3, <2>1 DEF Put, Typed, StoreTyped
  <2>3. LocalsTyped'
    BY <1>1, <1>3, GoTyped DEF Put, Typed, PCs
  <2>4. QED
    BY <2>2, <2>3 DEF Typed
<1>4. CASE WriteFile(w)
  <2>1. got[w][pc[w]] \in Content
    BY <1>4 DEF WriteFile, Typed, LocalsTyped, Entry
  <2>2. kept' \in [Places -> Entry]
    BY <1>2, <1>4, <2>1 DEF WriteFile, Typed, StoreTyped, Entry
  <2>3. StoreTyped'
    BY <1>4, <2>2 DEF WriteFile, Typed, StoreTyped
  <2>4. NextFile(pc[w]) \in PCs \ {"idle"}
    BY <1>4 DEF WriteFile, NextFile, Files, PCs
  <2>5. LocalsTyped'
    BY <1>1, <1>4, <2>4, GoTyped DEF WriteFile, Typed
  <2>6. QED
    BY <2>3, <2>5 DEF Typed
<1>5. CASE PutFails(w)
  <2>1. StoreTyped'
    BY <1>1, <1>5, CutShortTyped, CertStoreAssumption
    DEF PutFails, Typed, StoreTyped, Fault
  <2>2. LocalsTyped'
    BY <1>1, <1>5, GoTyped DEF PutFails, Typed, PCs
  <2>3. QED
    BY <2>1, <2>2 DEF Typed
<1>6. CASE Crash(w)
  <2>1. StoreTyped'
    BY <1>1, <1>6, CutShortTyped, CertStoreAssumption
    DEF Crash, Typed, StoreTyped, Fault
  <2>2. LocalsTyped'
    BY <1>6, LeaveTyped DEF Crash, Typed
  <2>3. QED
    BY <2>1, <2>2 DEF Typed
<1>7. QED
  BY <1>3, <1>4, <1>5, <1>6

LEMMA RevokeTyped ==
  ASSUME Typed, NEW h \in Hosts, Revoke(h)
  PROVE  Typed'
<1>1. PlaceOf[h] \in Places
  BY DEF Places
<1>2. ASSUME NEW left
      PROVE  [kept EXCEPT ![PlaceOf[h]] =
                [f \in Files |-> IF f \in left THEN @[f] ELSE Missing]]
             \in [Places -> Entry]
  BY <1>1 DEF Typed, StoreTyped, Entry, Content
<1>3. [kept EXCEPT ![PlaceOf[h]] = None] \in [Places -> Entry]
  BY <1>1, Entries DEF Typed, StoreTyped
<1>4. kept' \in [Places -> Entry]
  <2>1. \/ kept' = [kept EXCEPT ![PlaceOf[h]] = None]
        \/ \E left :
             kept' = [kept EXCEPT ![PlaceOf[h]] =
                        [f \in Files |-> IF f \in left THEN @[f] ELSE Missing]]
    BY Zenon DEF Revoke
  <2>2. CASE kept' = [kept EXCEPT ![PlaceOf[h]] = None]
    BY <1>3, <2>2
  <2>3. ASSUME NEW left,
               kept' = [kept EXCEPT ![PlaceOf[h]] =
                          [f \in Files |-> IF f \in left THEN @[f] ELSE Missing]]
        PROVE  kept' \in [Places -> Entry]
    BY <1>2, <2>3, Zenon
  <2>4. QED
    BY <2>1, <2>2, <2>3, Zenon
<1>5. faults' \in 0 .. MaxFaults
  BY CertStoreAssumption DEF Revoke, Fault, Typed, StoreTyped
<1>6. QED
  BY <1>4, <1>5 DEF Revoke, Typed, StoreTyped, LocalsTyped, Called

LEMMA TypedInitially == Init => Typed
<1> SUFFICES ASSUME Init PROVE Typed
  OBVIOUS
<1>1. StoreTyped
  BY Entries, CertStoreAssumption DEF Init, StoreTyped
<1>2. LocalsTyped
  BY Entries DEF Init, LocalsTyped, Called, PCs
<1>3. QED
  BY <1>1, <1>2 DEF Typed

LEMMA TypedPreserved == Typed /\ [Next]_vars => Typed'
<1> SUFFICES ASSUME Typed, [Next]_vars PROVE Typed'
  OBVIOUS
<1>1. ASSUME NEW n \in Serials, NearExpiry(n)
      PROVE  Typed'
  BY <1>1 DEF NearExpiry, Typed, StoreTyped, LocalsTyped, Called
<1>2. CASE UNCHANGED vars
  BY <1>2 DEF vars, Typed, StoreTyped, LocalsTyped, Called
<1>3. QED
  BY <1>1, <1>2, LookupTyped, InnerTyped, WritingTyped, RevokeTyped
  DEF Next, Step

\* TypeOK holds in every state of every store.
THEOREM StoreTypes == Spec => []TypeOK
<1>1. Typed => TypeOK
  BY DEF Typed, LocalsTyped, StoreTyped, TypeOK
<1>2. QED
  BY <1>1, TypedInitially, TypedPreserved, PTL DEF Spec

-----------------------------------------------------------------------------
(* What the actions do, place by place and goroutine by goroutine. *)

LEMMA OthersKeep ==
  ASSUME Typed, NEW w \in Writers, Step(w)
  PROVE  /\ store' = store
         /\ \A v \in Writers \ {w} :
              pc'[v] = pc[v] /\ host'[v] = host[v] /\ got'[v] = got[v]
<1> USE DEF Typed, LocalsTyped, goto, Leave
<1>1. CASE \E h \in Hosts : Call(w, h)
  BY <1>1 DEF Call
<1>2. CASE Get(w) \/ GetFails(w) \/ Check(w)
  BY <1>2 DEF Get, GetFails, Check
<1>3. CASE Inner(w) \/ InnerFails(w) \/ Look(w)
  BY <1>3 DEF Inner, InnerFails, Look
<1>4. CASE Put(w) \/ WriteFile(w) \/ PutFails(w) \/ Return(w) \/ Crash(w)
  BY <1>4 DEF Put, WriteFile, PutFails, Return, Crash
<1>5. QED
  BY <1>1, <1>2, <1>3, <1>4 DEF Step

LEMMA WriteEffect ==
  ASSUME Typed, NEW w \in Writers,
         Put(w) \/ WriteFile(w) \/ PutFails(w) \/ Crash(w)
  PROVE  /\ pc[w] # "idle" /\ issued' = issued /\ fresh' = fresh
         /\ \A p \in Places \ {Place(w)} : kept'[p] = kept[p]
         /\ \A f \in Files :
              kept'[Place(w)][f] \in {kept[Place(w)][f], got[w][f], Torn}
<1>1. pc[w] # "idle"
  BY DEF Put, WriteFile, PutFails, Crash, Files
<1>2. Place(w) \in Places
  BY <1>1, PlaceTyped
<1> USE DEF Typed, StoreTyped, LocalsTyped, Entry
<1>3. CASE Put(w)
  BY <1>1, <1>2, <1>3 DEF Put
<1>4. CASE WriteFile(w)
  BY <1>1, <1>2, <1>4 DEF WriteFile
<1>5. CASE PutFails(w) \/ Crash(w)
  <2>1. CutShort(w) /\ issued' = issued /\ fresh' = fresh
    BY <1>5 DEF PutFails, Crash
  <2>2. QED
    BY <1>1, <1>2, <2>1 DEF CutShort
<1>6. QED
  BY <1>3, <1>4, <1>5

LEMMA RevokeEffect ==
  ASSUME Typed, NEW h \in Hosts, Revoke(h)
  PROVE  /\ UNCHANGED <<store, issued, fresh, pc, host, got, overlaid>>
         /\ \A p \in Places :
              \/ kept'[p] = kept[p]
              \/ \A f \in Files : kept'[p][f] \in {kept[p][f], Missing}
         /\ store # "file" => \A p \in Places : kept'[p] \in {kept[p], None}
<1> USE DEF Typed, StoreTyped, Entry
<1>1. UNCHANGED <<store, issued, fresh, pc, host, got, overlaid>>
  BY DEF Revoke
<1>2. PlaceOf[h] \in Places
  BY DEF Places
<1>3. PICK left :
        /\ \/ kept' = [kept EXCEPT ![PlaceOf[h]] = None]
           \/ kept' = [kept EXCEPT ![PlaceOf[h]] =
                         [f \in Files |-> IF f \in left THEN @[f] ELSE Missing]]
        /\ left \in IF store = "file" THEN SUBSET Files ELSE {Files}
  <2>1. CASE kept' = [kept EXCEPT ![PlaceOf[h]] = None]
    <3>1. Files \in IF store = "file" THEN SUBSET Files ELSE {Files}
      OBVIOUS
    <3>2. QED
      BY <2>1, <3>1, Zenon
  <2>2. CASE \E left \in IF store = "file" THEN SUBSET Files ELSE {Files} :
               kept' = [kept EXCEPT ![PlaceOf[h]] =
                          [f \in Files |-> IF f \in left THEN @[f] ELSE Missing]]
    BY <2>2, Zenon
  <2>3. QED
    BY <2>1, <2>2, Zenon DEF Revoke
<1>4. CASE kept' = [kept EXCEPT ![PlaceOf[h]] = None]
  BY <1>1, <1>2, <1>4, Entries
<1>5. CASE kept' = [kept EXCEPT ![PlaceOf[h]] =
                      [f \in Files |-> IF f \in left THEN @[f] ELSE Missing]]
  <2>1. \A p \in Places \ {PlaceOf[h]} : kept'[p] = kept[p]
    BY <1>5
  <2>2. kept'[PlaceOf[h]] =
          [f \in Files |-> IF f \in left THEN kept[PlaceOf[h]][f] ELSE Missing]
    BY <1>2, <1>5
  <2>3. left = Files => kept'[PlaceOf[h]] = kept[PlaceOf[h]]
    BY <1>2, <2>2
  <2>4. QED
    BY <1>1, <1>3, <2>1, <2>2, <2>3
<1>6. QED
  BY <1>3, <1>4, <1>5

\* What a call has read, or had issued.
LEMMA GotEffect ==
  ASSUME Typed, NEW w \in Writers, Step(w)
  PROVE  \/ /\ got'[w] \in {got[w], None}
            /\ issued' = issued /\ fresh' = fresh
         \/ Get(w) /\ got'[w] = kept[Place(w)]
         \/ Inner(w) /\ got'[w] = All(Len(issued) + 1)
<1> USE DEF Typed, LocalsTyped, goto, Leave
<1>1. CASE \E h \in Hosts : Call(w, h)
  BY <1>1 DEF Call
<1>2. CASE Get(w) \/ GetFails(w) \/ Check(w)
  BY <1>2 DEF Get, GetFails, Check
<1>3. CASE Inner(w) \/ InnerFails(w) \/ Look(w)
  BY <1>3 DEF Inner, InnerFails, Look
<1>4. CASE Put(w) \/ WriteFile(w) \/ PutFails(w) \/ Return(w) \/ Crash(w)
  BY <1>4 DEF Put, WriteFile, PutFails, Return, Crash
<1>5. QED
  BY <1>1, <1>2, <1>3, <1>4 DEF Step

\* Only those who write change a place.
LEMMA KeptEffect ==
  ASSUME Typed, NEW w \in Writers, Step(w)
  PROVE  \/ kept' = kept
         \/ Put(w) \/ WriteFile(w) \/ PutFails(w) \/ Crash(w)
BY DEF Step, Call, Get, GetFails, Check, Inner, InnerFails, Look, Return

\* A new serial.
LEMMA IssuedEffect ==
  ASSUME Typed, NEW w \in Writers, Inner(w)
  PROVE  /\ pc[w] = "inner" /\ pc'[w] # "idle" /\ host' = host
         /\ Len(issued) \in Nat /\ DOMAIN issued = 1 .. Len(issued)
         /\ DOMAIN issued' = 1 .. Len(issued) + 1
         /\ \A n \in DOMAIN issued : issued'[n] = issued[n]
         /\ issued'[Len(issued) + 1] = host[w]
         /\ fresh' = fresh \cup {Len(issued) + 1}
         /\ kept' = kept
<1>1. /\ issued \in Seq(Hosts) /\ host[w] \in Hosts
      /\ issued' = Append(issued, host[w])
  BY PlaceTyped DEF Inner, Typed, StoreTyped
<1>2. pc[w] = "inner" /\ pc'[w] # "idle"
  BY CertStoreAssumption
  DEF Inner, goto, FirstWrite, Typed, LocalsTyped, StoreTyped
<1>3. QED
  BY <1>1, <1>2 DEF Inner

LEMMA HostEffect ==
  ASSUME Typed, NEW w \in Writers, Step(w), pc[w] # "idle", pc'[w] # "idle"
  PROVE  host'[w] = host[w]
<1> USE DEF Typed, LocalsTyped, goto, Leave
<1>1. CASE Get(w) \/ GetFails(w) \/ Check(w)
  BY <1>1 DEF Get, GetFails, Check
<1>2. CASE Inner(w) \/ InnerFails(w) \/ Look(w)
  BY <1>2 DEF Inner, InnerFails, Look
<1>3. CASE Put(w) \/ WriteFile(w) \/ PutFails(w) \/ Return(w) \/ Crash(w)
  BY <1>3 DEF Put, WriteFile, PutFails, Return, Crash
<1>4. QED
  BY <1>1, <1>2, <1>3 DEF Step, Call

-----------------------------------------------------------------------------
(* Certificates stay with the host they were issued for. *)

LEMMA NotNumbers == Missing \notin Nat /\ Torn \notin Nat
<1>1. \A x \in {Missing, Torn} : x \notin Nat
  BY CertStoreAssumption
<1>2. QED
  BY <1>1

\* Nothing that is no certificate is a serial.
LEMMA NotSerials ==
  ASSUME Typed
  PROVE  DOMAIN issued \subseteq Nat /\ Missing \notin DOMAIN issued
                                     /\ Torn \notin DOMAIN issued
<1>1. DOMAIN issued = 1 .. Len(issued) /\ Len(issued) \in Nat
  BY DEF Typed, StoreTyped
<1>2. QED
  BY <1>1, NotNumbers

\* An entry made of parts that are real, or in place, is.
LEMMA PartsReal ==
  ASSUME issued' = issued, NEW e, NEW d, NEW c, Real(d), Real(c),
         \A f \in Files : e[f] \in {d[f], c[f], Missing, Torn}
  PROVE  \A f \in Files : e[f] \in DOMAIN issued' \cup {Missing, Torn}
BY DEF Real

LEMMA AllRealPreserved == Typed /\ AllReal /\ [Next]_vars => AllReal'
<1> SUFFICES ASSUME Typed, AllReal, [Next]_vars PROVE AllReal'
  OBVIOUS
<1> USE Entries
<1>1. ASSUME NEW w \in Writers, Step(w)
      PROVE  AllReal'
  <2>1. DOMAIN issued \subseteq DOMAIN issued'
    BY <1>1, GotEffect, IssuedEffect DEF Get
  <2>2. ASSUME NEW p \in Places
        PROVE  Real(kept[p])'
    <3>1. CASE kept'[p] = kept[p]
      BY <2>1, <3>1 DEF AllReal, Real
    <3>2. CASE kept'[p] # kept[p]
      <4>1. /\ issued' = issued
            /\ \A f \in Files : kept'[p][f] \in {kept[p][f], got[w][f], Torn}
        BY <1>1, <3>2, KeptEffect, WriteEffect
      <4>2. QED
        BY <4>1 DEF AllReal, Real
    <3>3. QED
      BY <3>1, <3>2
  <2>3. ASSUME NEW v \in Writers
        PROVE  Real(got[v])'
    <3>1. CASE v # w \/ got'[w] \in {got[w], None}
      BY <1>1, <2>1, <3>1, OthersKeep DEF AllReal, Real
    <3>2. CASE v = w /\ Get(w) /\ got'[w] = kept[Place(w)]
      BY <2>1, <3>2, PlaceTyped DEF AllReal, Real, Get
    <3>3. CASE v = w /\ Inner(w) /\ got'[w] = All(Len(issued) + 1)
      BY <3>3, IssuedEffect DEF Real
    <3>4. QED
      BY <1>1, <3>1, <3>2, <3>3, GotEffect
  <2>4. QED
    BY <2>2, <2>3 DEF AllReal
<1>2. ASSUME NEW h \in Hosts, Revoke(h)
      PROVE  AllReal'
  BY <1>2, RevokeEffect DEF AllReal, Real
<1>3. ASSUME NEW n \in Serials, NearExpiry(n)
      PROVE  AllReal'
  BY <1>3 DEF NearExpiry, AllReal, Real
<1>4. CASE UNCHANGED vars
  BY <1>4 DEF vars, AllReal, Real
<1>5. QED
  BY <1>1, <1>2, <1>3, <1>4 DEF Next

LEMMA InPlacePreserved == Typed /\ AllReal /\ InPlace /\ [Next]_vars => InPlace'
<1> SUFFICES ASSUME Typed, AllReal, InPlace, [Next]_vars PROVE InPlace'
  OBVIOUS
<1> USE Entries, NotSerials
<1>1. ASSUME NEW w \in Writers, Step(w)
      PROVE  InPlace'
  <2>1. ASSUME NEW e, NEW p, Real(e), For(e, p)
        PROVE  \A f \in Files : e[f] \in DOMAIN issued' => PlaceOf[issued'[e[f]]] = p
    <3>1. CASE issued' = issued
      BY <2>1, <3>1 DEF For
    <3>2. CASE Inner(w)
      <4>1. Missing \notin DOMAIN issued' /\ Torn \notin DOMAIN issued'
        BY <3>2, IssuedEffect, NotNumbers
      <4>2. QED
        BY <2>1, <3>2, <4>1, IssuedEffect DEF For, Real
    <3>3. QED
      BY <1>1, <3>1, <3>2, GotEffect DEF Get
  <2>2. ASSUME NEW p \in Places
        PROVE  For(kept[p], p)'
    <3>1. CASE kept'[p] = kept[p]
      BY <2>1, <3>1 DEF AllReal, InPlace, For
    <3>2. CASE kept'[p] # kept[p]
      <4>1. /\ issued' = issued /\ pc[w] # "idle" /\ p = Place(w)
            /\ \A f \in Files : kept'[p][f] \in {kept[p][f], got[w][f], Torn}
        BY <1>1, <3>2, KeptEffect, WriteEffect
      <4>2. QED
        BY <4>1 DEF InPlace, For
    <3>3. QED
      BY <3>1, <3>2
  <2>3. ASSUME NEW v \in Writers, pc'[v] # "idle"
        PROVE  For(got[v], Place(v))'
    <3>1. CASE v # w
      <4>1. /\ got'[v] = got[v] /\ pc[v] # "idle" /\ Place(v)' = Place(v)
        BY <1>1, <2>3, <3>1, OthersKeep DEF Place
      <4>2. QED
        BY <2>1, <4>1 DEF AllReal, InPlace, For
    <3>2. CASE v = w /\ (pc[w] = "idle" \/ got'[w] = None)
      <4>1. got'[w] = None
        BY <1>1, <3>2, GotEffect DEF Get, Inner, Typed, LocalsTyped, Called
      <4>2. \A f \in Files : got'[w][f] \notin DOMAIN issued'
        <5>1. CASE issued' = issued
          BY <4>1, <5>1
        <5>2. CASE Inner(w)
          BY <4>1, <5>2, IssuedEffect, NotNumbers
        <5>3. QED
          BY <1>1, <5>1, <5>2, GotEffect DEF Get
      <4>3. QED
        BY <3>2, <4>2 DEF For
    <3>3. CASE v = w /\ pc[w] # "idle" /\ got'[w] # None
      <4>1. Place(w)' = Place(w)
        BY <1>1, <2>3, <3>3, HostEffect DEF Place
      <4>2. CASE got'[w] = got[w]
        BY <2>1, <3>3, <4>1, <4>2 DEF AllReal, InPlace, For
      <4>3. CASE Get(w) /\ got'[w] = kept[Place(w)]
        <5>1. Place(w) \in Places
          BY <3>3, PlaceTyped
        <5>2. Real(kept[Place(w)]) /\ For(kept[Place(w)], Place(w))
          BY <5>1 DEF AllReal, InPlace
        <5>3. \A f \in Files :
                kept[Place(w)][f] \in DOMAIN issued' =>
                  PlaceOf[issued'[kept[Place(w)][f]]] = Place(w)
          BY <2>1, <5>2
        <5>4. QED
          BY <3>3, <4>1, <4>3, <5>3 DEF For
      <4>4. CASE Inner(w) /\ got'[w] = All(Len(issued) + 1)
        BY <3>3, <4>1, <4>4, IssuedEffect DEF For, Place
      <4>5. QED
        BY <1>1, <3>3, <4>2, <4>3, <4>4, GotEffect
    <3>4. QED
      BY <3>1, <3>2, <3>3
  <2>4. QED
    BY <2>2, <2>3 DEF InPlace
<1>2. ASSUME NEW h \in Hosts, Revoke(h)
      PROVE  InPlace'
  <2>1. \A v \in Writers : Place(v)' = Place(v)
    BY <1>2, RevokeEffect DEF Place
  <2>2. QED
    BY <1>2, <2>1, RevokeEffect DEF InPlace, For
<1>3. ASSUME NEW n \in Serials, NearExpiry(n)
      PROVE  InPlace'
  BY <1>3 DEF NearExpiry, InPlace, For, Place
<1>4. CASE UNCHANGED vars
  BY <1>4 DEF vars, InPlace, For, Place
<1>5. QED
  BY <1>1, <1>2, <1>3, <1>4 DEF Next

\* OwnCertificate holds in every state, if no two hosts have one place: then
\* the issuer need not compare the host of what it finds.
THEOREM CertificatesAreOwn ==
  ASSUME \A h, k \in Hosts : PlaceOf[h] = PlaceOf[k] => h = k
  PROVE  Spec => []OwnCertificate
<1>1. Init => AllReal /\ InPlace
  BY Entries DEF Init, AllReal, Real, InPlace, For
<1>2. Typed /\ InPlace => OwnCertificate
  <2> SUFFICES ASSUME Typed, InPlace, NEW w \in Writers, pc[w] = "done",
                      got[w].cert \in DOMAIN issued
               PROVE  issued[got[w].cert] = host[w]
    BY DEF OwnCertificate
  <2>1. host[w] \in Hosts /\ issued[got[w].cert] \in Hosts
    BY PlaceTyped DEF Typed, StoreTyped
  <2>2. PlaceOf[issued[got[w].cert]] = PlaceOf[host[w]]
    BY DEF InPlace, For, Place, Files
  <2>3. QED
    BY <2>1, <2>2
<1>3. QED
  BY <1>1, <1>2, TypedInitially, TypedPreserved, AllRealPreserved,
     InPlacePreserved, PTL DEF Spec

-----------------------------------------------------------------------------
(* Who writes, and what. *)

LEMMA OwnWayPreserved == Typed /\ OwnWay /\ [Next]_vars => OwnWay'
<1> SUFFICES ASSUME Typed, OwnWay, [Next]_vars PROVE OwnWay'
  OBVIOUS
<1>1. ASSUME NEW w \in Writers, Step(w)
      PROVE  OwnWay'
  <2>1. store' = store /\ store \in {"file", "kube", "vault"}
    BY <1>1, OthersKeep, CertStoreAssumption DEF Typed, StoreTyped
  <2>2. /\ pc'[w] \in Files => store = "file"
        /\ pc'[w] \in {"look", "create"} => store = "kube"
        /\ pc'[w] = "update" => store \in {"kube", "vault"}
    <3> USE DEF Typed, LocalsTyped, goto, Leave, Files
    <3>1. CASE (\E h \in Hosts : Call(w, h)) \/ Get(w) \/ GetFails(w) \/ Check(w)
      BY <3>1 DEF Call, Get, GetFails, Check
    <3>2. CASE Inner(w)
      BY <2>1, <3>2 DEF Inner, FirstWrite
    <3>3. CASE InnerFails(w) \/ Look(w)
      BY <3>3 DEF InnerFails, Look, OwnWay
    <3>4. CASE WriteFile(w)
      BY <3>4 DEF WriteFile, NextFile, OwnWay
    <3>5. CASE Put(w) \/ PutFails(w) \/ Return(w) \/ Crash(w)
      BY <3>5 DEF Put, PutFails, Return, Crash
    <3>6. QED
      BY <1>1, <3>1, <3>2, <3>3, <3>4, <3>5 DEF Step
  <2>3. QED
    BY <1>1, <2>1, <2>2, OthersKeep DEF OwnWay
<1>2. ASSUME NEW h \in Hosts, Revoke(h)
      PROVE  OwnWay'
  BY <1>2, RevokeEffect DEF OwnWay
<1>3. ASSUME NEW n \in Serials, NearExpiry(n)
      PROVE  OwnWay'
  BY <1>3 DEF NearExpiry, OwnWay
<1>4. CASE UNCHANGED vars
  BY <1>4 DEF vars, OwnWay
<1>5. QED
  BY <1>1, <1>2, <1>3, <1>4 DEF Next

\* With the assumption about the file store, its calls do not overlap.
LEMMA AloneSteps ==
  ASSUME "file" \in Alone, OneByOne, store = "file", NEW w \in Writers, Step(w),
         NEW v \in Writers \ {w}
  PROVE  pc[v] = "idle"
<1>1. CASE pc[w] = "idle"
  <2>1. Permitted
    BY <1>1 DEF Step, Call, Get, GetFails, Check, Inner, InnerFails, Look, Put,
                WriteFile, PutFails, Return, Crash, Files
  <2>2. QED
    BY <2>1 DEF Permitted
<1>2. CASE pc[w] # "idle"
  BY <1>2 DEF OneByOne
<1>3. QED
  BY <1>1, <1>2

LEMMA OneByOnePreserved ==
  ASSUME "file" \in Alone
  PROVE  Typed /\ OneByOne /\ [Next]_vars => OneByOne'
<1> SUFFICES ASSUME Typed, OneByOne, [Next]_vars PROVE OneByOne'
  OBVIOUS
<1>1. ASSUME NEW w \in Writers, Step(w)
      PROVE  OneByOne'
  BY <1>1, OthersKeep, AloneSteps DEF OneByOne
<1>2. ASSUME NEW h \in Hosts, Revoke(h)
      PROVE  OneByOne'
  BY <1>2, RevokeEffect DEF OneByOne
<1>3. ASSUME NEW n \in Serials, NearExpiry(n)
      PROVE  OneByOne'
  BY <1>3 DEF NearExpiry, OneByOne
<1>4. CASE UNCHANGED vars
  BY <1>4 DEF vars, OneByOne
<1>5. QED
  BY <1>1, <1>2, <1>3, <1>4 DEF Next

\* Who goes on with writing has not changed what it writes.
LEMMA WritesOn ==
  ASSUME Typed, NEW w \in Writers, Step(w), pc'[w] \in Writing
  PROVE  \/ Inner(w)
         \/ /\ pc[w] \in Writing /\ got'[w] = got[w] /\ host'[w] = host[w]
            /\ fresh' = fresh
<1> USE DEF Typed, LocalsTyped, goto, Leave, Writing, Files
<1>1. CASE (\E h \in Hosts : Call(w, h)) \/ Get(w) \/ GetFails(w) \/ Check(w)
  BY <1>1 DEF Call, Get, GetFails, Check
<1>2. CASE InnerFails(w) \/ Look(w)
  BY <1>2 DEF InnerFails, Look
<1>3. CASE Put(w) \/ WriteFile(w) \/ PutFails(w) \/ Return(w) \/ Crash(w)
  BY <1>3 DEF Put, WriteFile, PutFails, Return, Crash
<1>4. QED
  BY <1>1, <1>2, <1>3 DEF Step

LEMMA AsIssuedPreserved == Typed /\ AsIssued /\ [Next]_vars => AsIssued'
<1> SUFFICES ASSUME Typed, AsIssued, [Next]_vars PROVE AsIssued'
  OBVIOUS
<1>1. ASSUME NEW w \in Writers, Step(w)
      PROVE  AsIssued'
  <2>1. fresh \subseteq fresh'
    BY <1>1, GotEffect, IssuedEffect DEF Get
  <2>2. ASSUME NEW v \in Writers, pc'[v] \in Writing
        PROVE  \E n \in fresh' : got'[v] = All(n)
    <3>1. CASE v # w
      BY <1>1, <2>1, <2>2, <3>1, OthersKeep DEF AsIssued
    <3>2. CASE v = w /\ Inner(w)
      <4>1. Len(issued) + 1 \in fresh' /\ got'[w] = All(Len(issued) + 1)
        BY <3>2 DEF Inner, Typed, LocalsTyped
      <4>2. QED
        BY <3>2, <4>1
    <3>3. CASE v = w /\ ~Inner(w)
      BY <1>1, <2>2, <3>3, WritesOn DEF AsIssued
    <3>4. QED
      BY <3>1, <3>2, <3>3
  <2>3. QED
    BY <2>2 DEF AsIssued
<1>2. ASSUME NEW h \in Hosts, Revoke(h)
      PROVE  AsIssued'
  BY <1>2, RevokeEffect DEF AsIssued
<1>3. ASSUME NEW n \in Serials, NearExpiry(n)
      PROVE  AsIssued'
  <2>1. ASSUME NEW w \in Writers, pc[w] \in Writing
        PROVE  \E m \in fresh' : got'[w] = All(m)
    <3>1. PICK m \in fresh : got[w] = All(m)
      BY <2>1 DEF AsIssued
    <3>2. got[w].cert = m
      BY <3>1 DEF All, Files
    <3>3. m # n
      BY <1>3, <2>1, <3>2 DEF NearExpiry, Writing, Files
    <3>4. QED
      BY <1>3, <3>1, <3>3 DEF NearExpiry
  <2>2. QED
    BY <1>3, <2>1 DEF NearExpiry, AsIssued
<1>4. CASE UNCHANGED vars
  BY <1>4 DEF vars, AsIssued
<1>5. QED
  BY <1>1, <1>2, <1>3, <1>4 DEF Next

\* Issue returns what it has found, or had issued.
LEMMA BecomesDone ==
  ASSUME Typed, NEW w \in Writers, Step(w), pc'[w] = "done"
  PROVE  /\ got'[w] = got[w] /\ host'[w] = host[w] /\ issued' = issued
         /\ \/ /\ pc[w] = "check" /\ kept' = kept /\ overlaid' = overlaid
               /\ got[w]["meta"] \in fresh
               /\ Missing \notin {got[w]["cert"], got[w]["key"]}
            \/ pc[w] \in Writing
<1> USE DEF Typed, LocalsTyped, goto, Leave, Writing, Files
<1>1. CASE (\E h \in Hosts : Call(w, h)) \/ Get(w) \/ GetFails(w) \/ Look(w)
  BY <1>1 DEF Call, Get, GetFails, Look
<1>2. CASE Check(w)
  BY <1>2 DEF Check
<1>3. CASE Inner(w) \/ InnerFails(w)
  BY <1>3, CertStoreAssumption DEF Inner, InnerFails, FirstWrite, StoreTyped
<1>4. CASE Put(w) \/ WriteFile(w) \/ PutFails(w) \/ Return(w) \/ Crash(w)
  BY <1>4 DEF Put, WriteFile, PutFails, Return, Crash
<1>5. QED
  BY <1>1, <1>2, <1>3, <1>4 DEF Step

-----------------------------------------------------------------------------
(* Secrets and entries of Vault. *)

LEMMA AllWholePreserved ==
  Typed /\ OwnWay /\ AllWhole /\ [Next]_vars => AllWhole'
<1> SUFFICES ASSUME Typed, OwnWay, AllWhole, store # "file", [Next]_vars
             PROVE  /\ store' = store
                    /\ \A p \in Places : Whole(kept[p])'
                    /\ \A w \in Writers : Whole(got[w])'
  BY OthersKeep, RevokeEffect DEF AllWhole, Next, NearExpiry, vars
<1>1. ASSUME NEW w \in Writers, Step(w)
      PROVE  /\ store' = store
             /\ \A p \in Places : Whole(kept[p])'
             /\ \A v \in Writers : Whole(got[v])'
  <2>1. DOMAIN issued \subseteq DOMAIN issued'
    BY <1>1, GotEffect, IssuedEffect DEF Get
  <2>2. ASSUME NEW e, Whole(e)
        PROVE  e = None \/ \E n \in DOMAIN issued' : e = All(n)
    BY <2>1, <2>2 DEF Whole
  <2>3. pc[w] \notin Files
    BY DEF OwnWay
  <2>4. \A p \in Places : kept'[p] \in {kept[p], got[w]}
    <3>1. CASE kept' = kept
      BY <3>1
    <3>2. CASE Put(w)
      BY <3>2, WriteEffect DEF Put, Typed, StoreTyped
    <3>3. CASE PutFails(w) \/ Crash(w)
      BY <2>3, <3>3 DEF PutFails, Crash, CutShort
    <3>4. QED
      BY <1>1, <2>3, <3>1, <3>2, <3>3, KeptEffect DEF WriteFile
  <2>5. \A p \in Places : Whole(kept[p])'
    BY <2>2, <2>4 DEF AllWhole, Whole
  <2>6. ASSUME NEW v \in Writers
        PROVE  Whole(got[v])'
    <3>1. CASE v # w \/ got'[w] \in {got[w], None}
      BY <1>1, <2>2, <3>1, OthersKeep DEF AllWhole, Whole
    <3>2. CASE v = w /\ Get(w) /\ got'[w] = kept[Place(w)]
      BY <2>2, <3>2, PlaceTyped DEF AllWhole, Whole, Get
    <3>3. CASE v = w /\ Inner(w) /\ got'[w] = All(Len(issued) + 1)
      BY <3>3, IssuedEffect DEF Whole
    <3>4. QED
      BY <1>1, <3>1, <3>2, <3>3, GotEffect
  <2>7. QED
    BY <1>1, <2>5, <2>6, OthersKeep
<1>2. ASSUME NEW h \in Hosts, Revoke(h)
      PROVE  /\ store' = store
             /\ \A p \in Places : Whole(kept[p])'
             /\ \A v \in Writers : Whole(got[v])'
  BY <1>2, RevokeEffect DEF AllWhole, Whole
<1>3. ASSUME NEW n \in Serials, NearExpiry(n)
      PROVE  /\ store' = store
             /\ \A p \in Places : Whole(kept[p])'
             /\ \A v \in Writers : Whole(got[v])'
  BY <1>3 DEF NearExpiry, AllWhole, Whole
<1>4. CASE UNCHANGED vars
  BY <1>4 DEF vars, AllWhole, Whole
<1>5. QED
  BY <1>1, <1>2, <1>3, <1>4 DEF Next

-----------------------------------------------------------------------------
(* Files. *)

\* A serial that is issued now is in no place yet.
LEMMA NewIsNew ==
  ASSUME Typed, AllReal, NEW w \in Writers, Inner(w), NEW p \in Places,
         NEW f \in Files
  PROVE  kept[p][f] # Len(issued) + 1
<1>1. Len(issued) + 1 \notin DOMAIN issued /\ Len(issued) + 1 \in Nat
  BY IssuedEffect
<1>2. QED
  BY <1>1, NotNumbers DEF AllReal, Real

\* A goroutine that does not touch the store.
LEMMA LookupKeepsFiles ==
  ASSUME Typed, FileInv, store = "file", NEW w \in Writers,
         store' = store, \A v \in Writers \ {w} : pc'[v] = "idle",
         \/ \E h \in Hosts : Call(w, h)
         \/ Get(w) \/ GetFails(w) \/ Check(w) \/ InnerFails(w) \/ Look(w)
         \/ Return(w)
  PROVE  FileInv'
<1>1. kept' = kept /\ fresh' = fresh /\ overlaid' = overlaid
  BY DEF Call, Get, GetFails, Check, InnerFails, Look, Return
<1>2. pc'[w] \notin Files
  BY DEF Call, Get, GetFails, Check, InnerFails, Look, Return, Leave, goto,
         Typed, LocalsTyped, Files
<1>3. pc'[w] = "check" => got'[w] = kept[Place(w)] /\ host' = host
  BY DEF Call, Get, GetFails, Check, InnerFails, Look, Return, Leave, goto,
         Typed, LocalsTyped
<1>4. AllVouch'
  BY <1>1 DEF FileInv, AllVouch, Vouches
<1>5. Unvouched' /\ InOrder'
  BY <1>2 DEF Unvouched, InOrder, Files
<1>6. AsRead'
  BY <1>1, <1>3 DEF AsRead, Place
<1>7. QED
  BY <1>4, <1>5, <1>6 DEF FileInv

\* Before the first write it is clear whether the old data vouch for the new
\* files.
LEMMA InnerKeepsFiles ==
  ASSUME Typed, AllReal, FileInv, store = "file", NEW w \in Writers, Inner(w),
         store' = store, \A v \in Writers \ {w} : pc'[v] = "idle"
  PROVE  FileInv'
<1>1. /\ fresh' = fresh \cup {Len(issued) + 1} /\ kept' = kept
      /\ overlaid' = IF kept[Place(w)].meta \in fresh
                       THEN overlaid \cup {Place(w)} ELSE overlaid
      /\ pc'[w] = "cert" /\ host' = host
  BY DEF Inner, goto, FirstWrite, Typed, LocalsTyped
<1>2. Place(w) \in Places
  BY PlaceTyped DEF Inner
<1>3. \A p \in Places, f \in Files : kept[p][f] \in fresh' => kept[p][f] \in fresh
  BY <1>1, NewIsNew
<1>4. AllVouch'
  BY <1>1, <1>3 DEF FileInv, AllVouch, Vouches, Files
<1>5. Place(w)' = Place(w) /\ kept[Place(w)].meta = kept[Place(w)]["meta"]
  BY <1>1 DEF Place
<1>6. Unvouched'
  BY <1>1, <1>2, <1>3, <1>5 DEF Unvouched, Files
<1>7. InOrder' /\ AsRead'
  BY <1>1 DEF InOrder, AsRead
<1>8. QED
  BY <1>4, <1>6, <1>7 DEF FileInv

\* Certificate, key, and then the data that vouch for both.
LEMMA WriteKeepsFiles ==
  ASSUME Typed, AsIssued, FileInv, store = "file", NEW w \in Writers, WriteFile(w),
         store' = store, \A v \in Writers \ {w} : pc'[v] = "idle"
  PROVE  FileInv'
<1> DEFINE P == Place(w)
<1>1. /\ P \in Places /\ P' = P
      /\ pc[w] \in Files /\ pc'[w] = NextFile(pc[w])
      /\ fresh' = fresh /\ got' = got
      /\ overlaid' = IF NextFile(pc[w]) = "done" THEN overlaid \ {P} ELSE overlaid
  BY PlaceTyped DEF WriteFile, goto, Typed, LocalsTyped, Files, Place
<1>2. /\ \A p \in Places \ {P} : kept'[p] = kept[p]
      /\ kept'[P][pc[w]] = got[w][pc[w]]
      /\ \A f \in Files \ {pc[w]} : kept'[P][f] = kept[P][f]
  BY <1>1 DEF WriteFile, Typed, StoreTyped, Entry
<1>3. PICK n \in fresh : got[w] = All(n)
  BY <1>1 DEF AsIssued, Writing
<1>4. \A f \in Files : got[w][f] = n
  BY <1>3, Entries
<1> HIDE DEF P
<1>5. CASE pc[w] = "cert"
  <2>1. /\ pc'[w] = "key" /\ overlaid' = overlaid
        /\ kept'[P]["cert"] = got[w]["cert"] /\ kept'[P]["meta"] = kept[P]["meta"]
    BY <1>1, <1>2, <1>5 DEF NextFile, Files
  <2>2. P \in overlaid \/ kept[P]["meta"] \notin fresh
    BY <1>1 DEF FileInv, Unvouched, P
  <2>3. AllVouch'
    BY <1>1, <1>2, <2>1, <2>2 DEF FileInv, AllVouch, Vouches
  <2>4. Unvouched' /\ InOrder' /\ AsRead'
    BY <1>1, <2>1, <2>2 DEF Unvouched, InOrder, AsRead, P, Files
  <2>5. QED
    BY <2>3, <2>4 DEF FileInv
<1>6. CASE pc[w] = "key"
  <2>1. /\ pc'[w] = "meta" /\ overlaid' = overlaid
        /\ kept'[P]["cert"] = kept[P]["cert"] /\ kept'[P]["key"] = got[w]["key"]
        /\ kept'[P]["meta"] = kept[P]["meta"]
    BY <1>1, <1>2, <1>6 DEF NextFile, Files
  <2>2. P \in overlaid \/ kept[P]["meta"] \notin fresh
    BY <1>1 DEF FileInv, Unvouched, P
  <2>3. kept[P]["cert"] = got[w]["cert"]
    BY <1>6 DEF FileInv, InOrder, P
  <2>4. AllVouch'
    BY <1>1, <1>2, <2>1, <2>2 DEF FileInv, AllVouch, Vouches
  <2>5. Unvouched' /\ InOrder' /\ AsRead'
    BY <1>1, <2>1, <2>2, <2>3 DEF Unvouched, InOrder, AsRead, P, Files
  <2>6. QED
    BY <2>4, <2>5 DEF FileInv
<1>7. CASE pc[w] = "meta"
  <2>1. pc'[w] = "done" /\ overlaid' = overlaid \ {P}
    BY <1>1, <1>7 DEF NextFile
  <2>2. kept[P]["cert"] = got[w]["cert"] /\ kept[P]["key"] = got[w]["key"]
    BY <1>7 DEF FileInv, InOrder, P
  <2>3. kept'[P]["cert"] = n /\ kept'[P]["key"] = n /\ kept'[P]["meta"] = n
    BY <1>2, <1>4, <1>7, <2>2 DEF Files
  <2>4. Vouches(kept[P])'
    BY <1>1, <2>3 DEF Vouches
  <2>5. AllVouch'
    BY <1>1, <1>2, <2>1, <2>3 DEF FileInv, AllVouch, Vouches
  <2>6. Unvouched' /\ InOrder' /\ AsRead'
    BY <2>1 DEF Unvouched, InOrder, AsRead, Files
  <2>7. QED
    BY <2>5, <2>6 DEF FileInv
<1>8. QED
  BY <1>1, <1>5, <1>6, <1>7 DEF Files

\* A file cut short vouches for nothing, and nothing vouches for it.
LEMMA CutKeepsFiles ==
  ASSUME Typed, FileInv, store = "file", NEW w \in Writers,
         PutFails(w) \/ Crash(w),
         store' = store, \A v \in Writers \ {w} : pc'[v] = "idle"
  PROVE  FileInv'
<1> DEFINE P == Place(w)
<1>1. /\ pc[w] # "idle" /\ CutShort(w) /\ pc'[w] \in {"done", "idle"}
      /\ fresh' = fresh /\ overlaid' = overlaid
  BY DEF PutFails, Crash, Leave, goto, Typed, LocalsTyped, Files
<1>2. P \in Places
  BY <1>1, PlaceTyped
<1>3. AllVouch'
  <2>1. CASE kept' = kept
    BY <1>1, <2>1 DEF FileInv, AllVouch, Vouches
  <2>2. CASE kept' # kept
    <3>1. /\ pc[w] \in Files
          /\ \A p \in Places \ {P} : kept'[p] = kept[p]
          /\ kept'[P]["meta"] \in {kept[P]["meta"], Torn}
      BY <1>1, <1>2, <2>2 DEF CutShort, Typed, StoreTyped, Entry, Files
    <3>2. P \in overlaid \/ kept[P]["meta"] \notin fresh
      BY <3>1 DEF FileInv, Unvouched
    <3>3. Torn \notin fresh
      BY NotSerials DEF Typed, StoreTyped
    <3>4. QED
      BY <1>1, <3>1, <3>2, <3>3 DEF FileInv, AllVouch, Vouches
  <2>3. QED
    BY <2>1, <2>2
<1>4. Unvouched' /\ InOrder' /\ AsRead'
  BY <1>1 DEF Unvouched, InOrder, AsRead, Files
<1>5. QED
  BY <1>3, <1>4 DEF FileInv

LEMMA RevokeKeepsFiles ==
  ASSUME "file" \in Alone, Typed, FileInv, store = "file",
         NEW h \in Hosts, Revoke(h)
  PROVE  FileInv'
<1>1. \A w \in Writers : pc[w] = "idle"
  BY DEF Revoke, Permitted
<1>2. Missing \notin fresh
  BY NotSerials DEF Typed, StoreTyped
<1>3. AllVouch'
  <2>1. ASSUME NEW p \in Places \ overlaid'
        PROVE  Vouches(kept[p])'
    <3>1. Vouches(kept[p]) /\ fresh' = fresh
      BY RevokeEffect DEF FileInv, AllVouch
    <3>2. \/ kept'[p] = kept[p]
          \/ \A f \in Files : kept'[p][f] \in {kept[p][f], Missing}
      BY RevokeEffect
    <3>3. QED
      BY <1>2, <3>1, <3>2 DEF Vouches, Files
  <2>2. QED
    BY <2>1 DEF AllVouch
<1>4. Unvouched' /\ InOrder' /\ AsRead'
  BY <1>1, RevokeEffect DEF Unvouched, InOrder, AsRead, Files
<1>5. QED
  BY <1>3, <1>4 DEF FileInv

LEMMA FileInvPreserved ==
  ASSUME "file" \in Alone
  PROVE  Typed /\ OwnWay /\ OneByOne /\ AllReal /\ AsIssued
           /\ (store = "file" => FileInv) /\ [Next]_vars
         => (store = "file" => FileInv)'
<1> SUFFICES ASSUME Typed, OwnWay, OneByOne, AllReal, AsIssued,
                    store = "file" => FileInv, [Next]_vars
             PROVE  (store = "file" => FileInv)'
  OBVIOUS
<1>1. ASSUME NEW w \in Writers, Step(w)
      PROVE  (store = "file" => FileInv)'
  <2>1. store' = store
    BY <1>1, OthersKeep
  <2>2. CASE store = "file"
    <3>1. \A v \in Writers \ {w} : pc'[v] = "idle"
      BY <1>1, <2>2, AloneSteps, OthersKeep
    <3>2. ~Put(w)
      BY <2>2 DEF Put, OwnWay
    <3>3. QED
      BY <1>1, <2>1, <2>2, <3>1, <3>2, LookupKeepsFiles, InnerKeepsFiles,
         WriteKeepsFiles, CutKeepsFiles DEF Step
  <2>3. QED
    BY <2>1, <2>2
<1>2. ASSUME NEW h \in Hosts, Revoke(h)
      PROVE  (store = "file" => FileInv)'
  BY <1>2, RevokeKeepsFiles, RevokeEffect
<1>3. ASSUME NEW n \in Serials, NearExpiry(n)
      PROVE  (store = "file" => FileInv)'
  BY <1>3 DEF NearExpiry, FileInv, AllVouch, Vouches, Unvouched, InOrder, AsRead,
              Place
<1>4. CASE UNCHANGED vars
  BY <1>4 DEF vars, FileInv, AllVouch, Vouches, Unvouched, InOrder, AsRead, Place
<1>5. QED
  BY <1>1, <1>2, <1>3, <1>4 DEF Next

-----------------------------------------------------------------------------
(* What Issue returns, and what stays usable. *)

StoreInv ==
  /\ Typed /\ AllReal /\ OwnWay /\ OneByOne /\ AsIssued /\ AllWhole
  /\ store = "file" => FileInv

LEMMA StoreInvInitially == Init => StoreInv
<1> SUFFICES ASSUME Init PROVE StoreInv
  OBVIOUS
<1>1. /\ \A w \in Writers : pc[w] = "idle" /\ got[w] = None
      /\ \A p \in Places : kept[p] = None
      /\ fresh = {}
  BY DEF Init
<1>2. AllReal /\ AllWhole
  BY <1>1, Entries DEF AllReal, Real, AllWhole, Whole
<1>3. OwnWay /\ OneByOne /\ AsIssued /\ FileInv
  BY <1>1
  DEF OwnWay, OneByOne, AsIssued, Writing, Files, FileInv, AllVouch, Vouches,
      Unvouched, InOrder, AsRead
<1>4. QED
  BY <1>2, <1>3, TypedInitially DEF StoreInv

LEMMA StoreInvPreserved ==
  ASSUME "file" \in Alone
  PROVE  StoreInv /\ [Next]_vars => StoreInv'
BY TypedPreserved, AllRealPreserved, OwnWayPreserved, OneByOnePreserved,
   AsIssuedPreserved, AllWholePreserved, FileInvPreserved DEF StoreInv

\* What is found was kept whole, or in the order of the writes; what was issued
\* is returned as it was issued.
LEMMA FoundPairs ==
  ASSUME StoreInv, NEW w \in Writers, Step(w), pc'[w] = "done",
         ~(store = "file" /\ Place(w) \in overlaid')
  PROVE  got'[w].cert = got'[w].key /\ got'[w].cert \in DOMAIN issued'
<1> USE DEF StoreInv
<1>1. got'[w] = got[w] /\ issued' = issued
  BY BecomesDone
<1>2. \A e \in Entry : e.cert = e["cert"] /\ e.key = e["key"] /\ e.meta = e["meta"]
  OBVIOUS
<1>3. got[w] \in Entry /\ fresh \subseteq DOMAIN issued
  BY DEF Typed, LocalsTyped, StoreTyped
<1>4. CASE pc[w] \in Writing
  <2>1. PICK n \in fresh : got[w] = All(n)
    BY <1>4 DEF AsIssued
  <2>2. got[w]["cert"] = n /\ got[w]["key"] = n
    BY <2>1, Entries DEF Files
  <2>3. QED
    BY <1>1, <1>2, <1>3, <2>2
<1>5. CASE /\ pc[w] = "check" /\ kept' = kept /\ overlaid' = overlaid
           /\ got[w]["meta"] \in fresh
           /\ Missing \notin {got[w]["cert"], got[w]["key"]}
  <2>1. CASE store = "file"
    <3>1. got[w] = kept[Place(w)] /\ Place(w) \in Places \ overlaid
      BY <1>5, <2>1, PlaceTyped DEF FileInv, AsRead
    <3>2. got[w]["cert"] = got[w]["meta"] /\ got[w]["key"] = got[w]["meta"]
      BY <1>5, <2>1, <3>1 DEF FileInv, AllVouch, Vouches
    <3>3. QED
      BY <1>1, <1>2, <1>3, <1>5, <3>2
  <2>2. CASE store # "file"
    <3>1. got[w] # None
      BY <1>5, Entries DEF Files
    <3>2. PICK n \in DOMAIN issued : got[w] = All(n)
      BY <2>2, <3>1 DEF AllWhole, Whole
    <3>3. got[w]["cert"] = n /\ got[w]["key"] = n
      BY <3>2, Entries DEF Files
    <3>4. QED
      BY <1>1, <1>2, <1>3, <3>3
  <2>3. QED
    BY <2>1, <2>2
<1>6. QED
  BY <1>4, <1>5, BecomesDone

LEMMA PairsMatchPreserved ==
  ASSUME "file" \in Alone
  PROVE  StoreInv /\ PairsMatch /\ [Next]_vars => PairsMatch'
<1> SUFFICES ASSUME StoreInv, PairsMatch, [Next]_vars PROVE PairsMatch'
  OBVIOUS
<1>1. ASSUME NEW w \in Writers, Step(w)
      PROVE  PairsMatch'
  <2>1. store' = store /\ Typed
    BY <1>1, OthersKeep DEF StoreInv
  <2>2. CASE pc'[w] = "done"
    <3>1. ~(store' = "file" /\ Place(w)' \in overlaid') =>
            got'[w].cert = got'[w].key /\ got'[w].cert \in DOMAIN issued'
      BY <1>1, <2>1, <2>2, FoundPairs, BecomesDone DEF Place
    <3>2. ASSUME NEW v \in Writers \ {w}, pc'[v] = "done"
          PROVE  /\ store # "file" /\ pc[v] = "done"
                 /\ got'[v] = got[v] /\ issued' = issued
      BY <1>1, <2>1, <2>2, <3>2, OthersKeep, AloneSteps, BecomesDone DEF StoreInv
    <3>3. QED
      BY <3>1, <3>2 DEF PairsMatch
  <2>3. CASE pc'[w] # "done"
    <3>1. DOMAIN issued \subseteq DOMAIN issued'
      BY <1>1, <2>1, GotEffect, IssuedEffect DEF Get
    <3>2. ASSUME NEW v \in Writers \ {w}, pc'[v] = "done"
          PROVE  store # "file" /\ pc[v] = "done" /\ got'[v] = got[v]
      BY <1>1, <2>1, <3>2, OthersKeep, AloneSteps DEF StoreInv
    <3>3. QED
      BY <2>1, <2>3, <3>1, <3>2 DEF PairsMatch
  <2>4. QED
    BY <2>2, <2>3
<1>2. ASSUME NEW h \in Hosts, Revoke(h)
      PROVE  PairsMatch'
  BY <1>2, RevokeEffect DEF StoreInv, PairsMatch, Place
<1>3. ASSUME NEW n \in Serials, NearExpiry(n)
      PROVE  PairsMatch'
  BY <1>3 DEF NearExpiry, PairsMatch, Place
<1>4. CASE UNCHANGED vars
  BY <1>4 DEF vars, PairsMatch, Place
<1>5. QED
  BY <1>1, <1>2, <1>3, <1>4 DEF Next

\* PairsMatch holds in every state, if one goroutine at a time uses the file
\* store; of the other two nothing is assumed.
THEOREM CertificateHasItsKey ==
  ASSUME "file" \in Alone
  PROVE  Spec => []PairsMatch
<1>1. Init => PairsMatch
  BY DEF Init, PairsMatch
<1>2. QED
  BY <1>1, StoreInvInitially, StoreInvPreserved, PairsMatchPreserved, PTL DEF Spec

\* KeepsUsable holds of every step, under the same assumption.
THEOREM UsableStays ==
  ASSUME "file" \in Alone
  PROVE  Spec => KeepsUsable
<1> DEFINE Stays ==
      \A p \in Places :
        Usable(p) /\ ~Usable(p)' =>
          \/ fresh' # fresh
          \/ \E h \in Hosts : Revoke(h)
          \/ store = "file" /\ p \in overlaid
<1>1. StoreInv /\ [Next]_vars => [Stays]_vars
  <2> SUFFICES ASSUME StoreInv, Next, NEW p \in Places, Usable(p), ~Usable(p)',
                      fresh' = fresh, ~\E h \in Hosts : Revoke(h)
               PROVE  store = "file" /\ p \in overlaid
    OBVIOUS
  <2> USE DEF StoreInv
  <2>1. kept'[p] # kept[p]
    BY DEF Usable
  <2>2. PICK w \in Writers : Step(w)
    BY <2>1 DEF Next, NearExpiry
  <2>3. Put(w) \/ WriteFile(w) \/ PutFails(w) \/ Crash(w)
    BY <2>1, <2>2, KeptEffect
  <2>4. p = Place(w) /\ pc[w] # "idle"
    BY <2>1, <2>3, WriteEffect
  <2>5. ~Put(w)
    <3> SUFFICES ASSUME Put(w) PROVE FALSE
      OBVIOUS
    <3>1. kept'[p] = got[w] /\ pc[w] \in Writing
      BY <2>1, <2>4 DEF Put, Writing, Typed, StoreTyped
    <3>2. QED
      BY <3>1 DEF AsIssued, Usable
  <2>6. pc[w] \in Files
    BY <2>1, <2>3, <2>5 DEF WriteFile, PutFails, Crash, CutShort
  <2>7. store = "file" /\ (p \in overlaid \/ kept[p]["meta"] \notin fresh)
    BY <2>4, <2>6 DEF OwnWay, FileInv, Unvouched
  <2>8. kept[p]["meta"] \in fresh
    BY Entries DEF Usable, Files
  <2>9. QED
    BY <2>7, <2>8
<1>2. QED
  BY <1>1, StoreInvInitially, StoreInvPreserved, PTL DEF Spec, KeepsUsable
=============================================================================
