---------------------------- MODULE SourcesProofs ----------------------------
(***************************************************************************)
(* Type correctness of Sources, and that it loses no change unnoticed, for *)
(* all constants.                                                          *)
(***************************************************************************)
EXTENDS Sources, SequenceTheorems, WellFoundedInduction, TLAPS


-----------------------------------------------------------------------------
(* Queues of events. *)

\* The last of q about its host.
Newest(q, i) == \A j \in DOMAIN q : q[j].host = q[i].host => j <= i

\* What q says of h, where a cycle makes p of its route, is that it is v.
Tells(q, h, p, v) ==
  /\ (\A i \in DOMAIN q : q[i].host # h) => p = v
  /\ \A i \in DOMAIN q : q[i].host = h /\ Newest(q, i) => q[i].to = v

\* A queue with f in front of s.
Line(f, s) == (IF f = NoEvent THEN <<>> ELSE <<f>>) \o s

LEMMA EventParts ==
  /\ \A e \in Events : e.host \in Hosts /\ e.to \in Routes /\ e # NoEvent
  /\ \A h \in Hosts, v \in Routes : [host |-> h, to |-> v] \in Events
BY ConsumerAssumption DEF Events

LEMMA NoFront ==
  ASSUME NEW s \in Seq(Events)
  PROVE  Line(NoEvent, s) = s
BY ConcatEmptySeq DEF Line

LEMMA LineParts ==
  ASSUME NEW s \in Seq(Events), NEW f \in Events
  PROVE  /\ Line(f, s) \in Seq(Events) /\ Line(f, s) # <<>>
         /\ Len(Line(f, s)) = Len(s) + 1
         /\ Line(f, s)[1] = f
         /\ \A i \in 1 .. Len(s) : Line(f, s)[i + 1] = s[i]
<1>1. Line(f, s) = <<f>> \o s
  BY EventParts DEF Line
<1>2. <<f>> \in Seq(Events) /\ Len(<<f>>) = 1 /\ <<f>>[1] = f
  OBVIOUS
<1>3. Len(s) \in Nat
  OBVIOUS
<1>4. /\ Line(f, s) \in Seq(Events)
      /\ Len(Line(f, s)) = Len(s) + 1
      /\ \A i \in 1 .. Len(s) + 1 : Line(f, s)[i] =
           IF i <= 1 THEN <<f>>[i] ELSE s[i - 1]
  <2>1. /\ <<f>> \o s \in Seq(Events)
        /\ Len(<<f>> \o s) = 1 + Len(s)
        /\ \A i \in 1 .. 1 + Len(s) : (<<f>> \o s)[i] =
             IF i <= 1 THEN <<f>>[i] ELSE s[i - 1]
    BY <1>2, ConcatProperties
  <2> HIDE <1>1
  <2>2. 1 + Len(s) = Len(s) + 1
    BY <1>3
  <2>3. QED
    BY <1>1, <2>1, <2>2
<1>5. Line(f, s)[1] = f
  <2>1. 1 \in 1 .. Len(s) + 1
    BY <1>3
  <2>2. QED
    BY <1>2, <1>4, <2>1
<1>6. ASSUME NEW i \in 1 .. Len(s) PROVE Line(f, s)[i + 1] = s[i]
  <2>1. i + 1 \in 1 .. Len(s) + 1 /\ ~(i + 1 <= 1) /\ (i + 1) - 1 = i
    BY <1>3
  <2>2. QED
    BY <1>4, <2>1
<1>7. Line(f, s) # <<>>
  BY <1>3, <1>4, EmptySeq
<1>8. QED
  BY <1>4, <1>5, <1>6, <1>7

\* The first of a queue moves in front of it.
LEMMA LineOfTail ==
  ASSUME NEW s \in Seq(Events), s # <<>>
  PROVE  Line(Head(s), Tail(s)) = s
<1>1. Head(s) \in Events /\ Tail(s) \in Seq(Events)
  BY HeadTailProperties
<1>2. Len(s) \in Nat \ {0} /\ Len(Tail(s)) = Len(s) - 1 /\ Head(s) = s[1]
  OBVIOUS
<1>3. \A i \in 1 .. Len(Tail(s)) : Tail(s)[i] = s[i + 1]
  BY HeadTailProperties
<1>4. Len(Line(Head(s), Tail(s))) = Len(s)
  <2>1. Len(Line(Head(s), Tail(s))) = Len(Tail(s)) + 1
    BY <1>1, LineParts
  <2>2. QED
    BY <1>2, <2>1
<1>5. ASSUME NEW i \in 1 .. Len(s) PROVE Line(Head(s), Tail(s))[i] = s[i]
  <2>1. CASE i = 1
    BY <1>1, <1>2, <2>1, LineParts
  <2>2. CASE i # 1
    <3>1. i - 1 \in 1 .. Len(Tail(s)) /\ (i - 1) + 1 = i
      BY <1>2, <2>2
    <3>2. Line(Head(s), Tail(s))[(i - 1) + 1] = Tail(s)[i - 1]
      BY <1>1, <3>1, LineParts
    <3>3. QED
      BY <1>3, <3>1, <3>2
  <2>3. QED
    BY <2>1, <2>2
<1>6. Line(Head(s), Tail(s)) \in Seq(Events)
  BY <1>1, LineParts
<1>7. QED
  BY <1>4, <1>5, <1>6, SeqEqual

\* An event behind a queue.
LEMMA LineOfAppend ==
  ASSUME NEW s \in Seq(Events), NEW f \in Events \cup {NoEvent}, NEW e \in Events
  PROVE  Line(f, Append(s, e)) = Append(Line(f, s), e)
<1>1. CASE f = NoEvent
  <2>1. Append(s, e) \in Seq(Events)
    BY AppendProperties
  <2>2. QED
    BY <1>1, <2>1, ConcatEmptySeq DEF Line
<1>2. CASE f # NoEvent
  <2>1. <<f>> \in Seq(Events) /\ <<e>> \in Seq(Events)
    BY <1>2
  <2>2. Append(s, e) = s \o <<e>> /\ <<f>> \o s \in Seq(Events)
    BY <2>1, AppendIsConcat, ConcatProperties
  <2>3. Append(<<f>> \o s, e) = (<<f>> \o s) \o <<e>>
    BY <2>2, AppendIsConcat
  <2>4. (<<f>> \o s) \o <<e>> = <<f>> \o (s \o <<e>>)
    BY <2>1, ConcatAssociative
  <2>5. Line(f, s) = <<f>> \o s /\ Line(f, Append(s, e)) = <<f>> \o Append(s, e)
    BY <1>2 DEF Line
  <2>6. QED
    BY <2>2, <2>3, <2>4, <2>5
<1>3. QED
  BY <1>1, <1>2

\* The last event of a queue tells of its host, and of no other.
LEMMA AppendTells ==
  ASSUME NEW q \in Seq(Events), NEW e \in Events, NEW h, NEW p, NEW v
  PROVE  /\ Tells(Append(q, e), e.host, p, e.to)
         /\ h # e.host /\ Tells(q, h, p, v) => Tells(Append(q, e), h, p, v)
<1> DEFINE a == Append(q, e)
<1>1. /\ DOMAIN q = 1 .. Len(q) /\ Len(q) \in Nat
      /\ DOMAIN a = 1 .. Len(q) + 1
      /\ a[Len(q) + 1] = e
      /\ \A i \in 1 .. Len(q) : a[i] = q[i]
  BY AppendProperties
<1>2. Len(q) + 1 \in DOMAIN a /\ \A i \in DOMAIN q : i \in DOMAIN a /\ i # Len(q) + 1
  BY <1>1
<1>3. \A i \in DOMAIN a : i \in DOMAIN q \/ i = Len(q) + 1
  BY <1>1
<1> HIDE DEF a
<1>4. Tells(a, e.host, p, e.to)
  <2>1. \A i \in DOMAIN a : Newest(a, i) /\ a[i].host = e.host => i = Len(q) + 1
    BY <1>1, <1>2, <1>3 DEF Newest
  <2>2. QED
    BY <1>1, <1>2, <2>1 DEF Tells
<1>5. ASSUME h # e.host, Tells(q, h, p, v) PROVE Tells(a, h, p, v)
  <2>1. \A i \in DOMAIN a : a[i].host = h => i \in DOMAIN q /\ a[i] = q[i]
    BY <1>1, <1>3, <1>5
  <2>2. \A i \in DOMAIN q : a[i] = q[i]
    BY <1>1
  <2>3. \A i \in DOMAIN q : Newest(a, i) => Newest(q, i)
    BY <1>2, <2>2 DEF Newest
  <2>4. QED
    BY <1>2, <1>5, <2>1, <2>2, <2>3 DEF Tells
<1>6. QED
  BY <1>4, <1>5 DEF a

\* An event in front of a queue tells of no other host.
LEMMA FrontTells ==
  ASSUME NEW s \in Seq(Events), NEW f \in Events, NEW h, NEW p, NEW v
  PROVE  /\ h # f.host => (Tells(Line(f, s), h, p, v) <=> Tells(s, h, p, v))
         /\ Tells(Line(f, s), f.host, p, v) <=> Tells(s, f.host, f.to, v)
<1> DEFINE q == Line(f, s)
<1>1. /\ DOMAIN s = 1 .. Len(s) /\ Len(s) \in Nat
      /\ DOMAIN q = 1 .. Len(s) + 1
      /\ q[1] = f
      /\ \A i \in 1 .. Len(s) : q[i + 1] = s[i]
  <2>1. DOMAIN s = 1 .. Len(s) /\ Len(s) \in Nat
    OBVIOUS
  <2>2. DOMAIN q = 1 .. Len(q)
    BY LineParts, LenProperties
  <2>3. QED
    BY <2>1, <2>2, LineParts
<1>2. /\ 1 \in DOMAIN q /\ 0 \notin DOMAIN s
      /\ \A i \in DOMAIN s : i \in Nat /\ i + 1 \in DOMAIN q /\ q[i + 1] = s[i]
      /\ \A i \in DOMAIN q : i = 1 \/ (i - 1 \in DOMAIN s /\ (i - 1) + 1 = i)
  BY <1>1
<1> HIDE DEF q
<1>3. \A i \in DOMAIN q : i = 1 \/ q[i] = s[i - 1]
  BY <1>2
<1>4. \A i \in DOMAIN s : Newest(q, i + 1) <=> Newest(s, i)
  <2> SUFFICES ASSUME NEW i \in DOMAIN s PROVE Newest(q, i + 1) <=> Newest(s, i)
    OBVIOUS
  <2>1. ASSUME Newest(q, i + 1), NEW j \in DOMAIN s, s[j].host = s[i].host
        PROVE  j <= i
    <3>1. j + 1 <= i + 1
      BY <1>2, <2>1 DEF Newest
    <3>2. QED
      BY <1>2, <3>1
  <2>2. ASSUME Newest(s, i), NEW j \in DOMAIN q, q[j].host = q[i + 1].host
        PROVE  j <= i + 1
    <3>1. CASE j = 1
      BY <1>1, <3>1
    <3>2. CASE j # 1
      <4>1. j - 1 \in DOMAIN s /\ s[j - 1].host = s[i].host
        BY <1>2, <1>3, <2>2, <3>2
      <4>2. j - 1 <= i
        BY <2>2, <4>1 DEF Newest
      <4>3. QED
        BY <1>1, <4>2
    <3>3. QED
      BY <3>1, <3>2
  <2>3. QED
    BY <2>1, <2>2 DEF Newest
<1>5. ASSUME h # f.host PROVE Tells(q, h, p, v) <=> Tells(s, h, p, v)
  <2>1. (\A i \in DOMAIN q : q[i].host # h) <=> (\A i \in DOMAIN s : s[i].host # h)
    BY <1>1, <1>2, <1>3, <1>5
  <2>2. ASSUME Tells(q, h, p, v), NEW i \in DOMAIN s, s[i].host = h, Newest(s, i)
        PROVE  s[i].to = v
    BY <1>2, <1>4, <2>2 DEF Tells
  <2>3. ASSUME Tells(s, h, p, v), NEW i \in DOMAIN q, q[i].host = h, Newest(q, i)
        PROVE  q[i].to = v
    <3>1. i - 1 \in DOMAIN s /\ (i - 1) + 1 = i /\ q[i] = s[i - 1]
      BY <1>1, <1>2, <1>3, <1>5, <2>3
    <3>2. Newest(s, i - 1)
      BY <1>4, <2>3, <3>1
    <3>3. QED
      BY <2>3, <3>1, <3>2 DEF Tells
  <2>4. QED
    BY <2>1, <2>2, <2>3 DEF Tells
<1>6. ASSUME Tells(q, f.host, p, v) PROVE Tells(s, f.host, f.to, v)
  <2>1. ASSUME \A i \in DOMAIN s : s[i].host # f.host PROVE f.to = v
    <3>1. \A j \in DOMAIN q : q[j].host = q[1].host => j = 1
      BY <1>1, <1>2, <1>3, <2>1
    <3>2. Newest(q, 1)
      BY <1>1, <3>1 DEF Newest
    <3>3. QED
      BY <1>1, <1>2, <1>6, <3>2 DEF Tells
  <2>2. ASSUME NEW i \in DOMAIN s, s[i].host = f.host, Newest(s, i)
        PROVE  s[i].to = v
    BY <1>2, <1>4, <1>6, <2>2 DEF Tells
  <2>3. QED
    BY <2>1, <2>2 DEF Tells
<1>7. ASSUME Tells(s, f.host, f.to, v) PROVE Tells(q, f.host, p, v)
  <2>1. ASSUME NEW i \in DOMAIN q, q[i].host = f.host, Newest(q, i)
        PROVE  q[i].to = v
    <3>1. CASE i = 1
      <4>1. ASSUME NEW j \in DOMAIN s PROVE s[j].host # f.host
        <5>1. ~(j + 1 <= 1)
          BY <1>1, <4>1
        <5>2. QED
          BY <1>2, <2>1, <3>1, <5>1 DEF Newest
      <4>2. QED
        BY <1>1, <1>7, <3>1, <4>1 DEF Tells
    <3>2. CASE i # 1
      <4>1. i - 1 \in DOMAIN s /\ (i - 1) + 1 = i /\ q[i] = s[i - 1]
        BY <1>2, <1>3, <3>2
      <4>2. Newest(s, i - 1)
        BY <1>4, <2>1, <4>1
      <4>3. QED
        BY <1>7, <2>1, <4>1, <4>2 DEF Tells
    <3>3. QED
      BY <3>1, <3>2
  <2>2. QED
    BY <1>1, <1>2, <2>1 DEF Tells
<1>8. QED
  BY <1>5, <1>6, <1>7 DEF q

\* Where it says nothing of h, only p counts.
LEMMA SilentTells ==
  ASSUME NEW q, NEW h, NEW p, NEW v, \A i \in DOMAIN q : q[i].host # h
  PROVE  Tells(q, h, p, v) <=> p = v
BY DEF Tells

LEMMA GreatestIndex ==
  ASSUME NEW n \in Nat, NEW I \in SUBSET (1 .. n), I # {}
  PROVE  \E i \in I : \A j \in I : j <= i
<1> DEFINE T == {k \in Nat : \E i \in I : k = n - i}
<1>1. \A i \in I : n - i \in T
  OBVIOUS
<1>2. T \subseteq Nat /\ T # {}
  BY <1>1
<1>3. \E x \in T : \A y \in T : ~(<<y, x>> \in OpToRel(<, Nat))
  <2> HIDE DEF T
  <2>1. QED
    BY ONLY <1>2, NatLessThanWellFounded, WFMin
<1>4. PICK x \in T : \A y \in T : ~(<<y, x>> \in OpToRel(<, Nat))
  BY <1>3
<1>5. \A y \in T : ~(y < x)
  BY <1>2, <1>4 DEF OpToRel
<1>6. PICK i \in I : x = n - i
  OBVIOUS
<1>7. QED
  BY <1>1, <1>5, <1>6

-----------------------------------------------------------------------------
(* Types. *)

\* What is forwarded or sent is there.
InHand ==
  /\ \A t \in Terms : start[t] = "forward" <=> fwd[t] # NoEvent
  /\ \A c \in Children : watch[c] = "sending" <=> held[c] # NoEvent
  /\ trigger = "off" => \A c \in Children : watch[c] = "off"

Typed == TypeOK /\ InHand

LEMMA PartFacts ==
  /\ Parts \in Nat \ {0}
  /\ \A h \in Hosts : PartOf(h) \in 1 .. Parts
BY ConsumerAssumption DEF Parts, PartOf

\* A term that has begun.
LEMMA CurrentTerm ==
  ASSUME Typed, term # 0
  PROVE  term \in Terms
BY DEF Typed, TypeOK, ConsumerTypes, Terms

LEMMA RepairedRoute ==
  ASSUME NEW is \in Routes, NEW want \in Routes
  PROVE  Repaired(is, want) \in Routes
BY DEF Repaired, Routes

\* What is on its way is of these hosts.
LEMMA PendingHosts ==
  ASSUME Typed
  PROVE  HTTPPending \subseteq Hosts /\ CompositePending \subseteq Hosts
<1> USE DEF Typed, TypeOK
<1>1. Queue \in Seq(Events)
  <2>1. CASE term = 0
    BY <2>1 DEF Queue
  <2>2. CASE term # 0
    <3>1. chans[term] \in Seq(Events) /\ fwd[term] \in Events \cup {NoEvent}
      BY <2>2, CurrentTerm DEF HTTPTypes
    <3>2. QED
      BY <2>2, <3>1 DEF Queue
  <2>3. QED
    BY <2>1, <2>2
<1>2. Queued \subseteq Hosts
  <2>1. \A i \in DOMAIN Queue : Queue[i] \in Events
    BY <1>1
  <2>2. QED
    BY <2>1, EventParts DEF Queued
<1>3. \A r \in InFlight : req[r].event.host \in Hosts
  BY EventParts DEF InFlight, HTTPTypes, Calls
<1>4. \A c \in Children : ChildPending(c) \subseteq Hosts
  <2> SUFFICES ASSUME NEW c \in Children PROVE ChildPending(c) \subseteq Hosts
    OBVIOUS
  <2>1. feed[c] \in Seq(Changed) /\ held[c] \in Events \cup {NoEvent}
    BY DEF CompositeTypes
  <2>2. \A i \in DOMAIN feed[c] : feed[c][i] \in Changed
    BY <2>1
  <2>3. QED
    BY <2>1, <2>2, EventParts DEF ChildPending, Changed
<1>5. QED
  BY <1>2, <1>3, <1>4 DEF HTTPPending, CompositePending

\* The cycles and terms of the orchestrator.
LEMMA ConsumerTyped ==
  ASSUME Typed, NEW pending \in SUBSET Hosts,
         \/ List(pending) \/ ListFails \/ Reconcile
         \/ StartTerm \/ LoseLeadership \/ Return(pending) \/ Crash
  PROVE  ConsumerTypes'
<1> USE DEF Typed, TypeOK, ConsumerTypes
<1>1. provider' = provider /\ Parts' = Parts
  BY DEF List, ListFails, Reconcile, StartTerm, LoseLeadership, Return, Crash,
         Parts
<1>2. NothingListed \in [Hosts -> Routes] /\ 0 \in 0 .. Parts
  BY PartFacts DEF NothingListed, Routes
<1>3. faults' \in 0 .. MaxFaults /\ changes' \in 0 .. MaxChanges
  BY ConsumerAssumption
  DEF List, ListFails, Reconcile, StartTerm, LoseLeadership, Return, Crash, Fault
<1>4. CASE List(pending)
  <2>1. listed' \in [Hosts -> Routes]
    BY <1>4 DEF List
  <2>2. read' \in 0 .. Parts
    BY <1>4, PartFacts DEF List
  <2>3. QED
    BY <1>1, <1>3, <1>4, <2>1, <2>2 DEF List
<1>5. CASE ListFails
  BY <1>1, <1>2, <1>3, <1>5 DEF ListFails, EndCycle
<1>6. CASE Reconcile
  <2>1. \A h \in Hosts : Planned(h) \in Routes
    BY RepairedRoute DEF Planned
  <2>2. served' \in [Hosts -> Routes]
    BY <1>6, <2>1 DEF Reconcile
  <2>3. QED
    BY <1>1, <1>2, <1>3, <1>6, <2>2 DEF Reconcile, EndCycle
<1>7. CASE StartTerm
  <2>1. term' \in 0 .. MaxTerm
    BY <1>7, ConsumerAssumption DEF StartTerm
  <2>2. QED
    BY <1>1, <1>3, <1>7, <2>1 DEF StartTerm
<1>8. CASE LoseLeadership \/ Return(pending)
  BY <1>1, <1>3, <1>8 DEF LoseLeadership, Return
<1>9. CASE Crash
  <2>1. routes' \in [Hosts -> Routes \cup {Refused}]
    BY <1>2, <1>9 DEF Crash
  <2>2. 0 \in 0 .. MaxTerm
    BY ConsumerAssumption
  <2>3. served' \in [Hosts -> Routes] /\ listed' \in [Hosts -> Routes]
    BY <1>2, <1>9 DEF Crash
  <2>4. QED
    BY <1>1, <1>2, <1>3, <1>9, <2>1, <2>2, <2>3 DEF Crash
<1>10. QED
  BY <1>4, <1>5, <1>6, <1>7, <1>8, <1>9

\* Start of the HTTP source.
LEMMA StartTyped ==
  ASSUME Typed, NEW t \in Terms,
         \/ StartHTTP(t) \/ SelectOn(t) \/ TakeEvent(t)
         \/ Forward(t) \/ Leave(t) \/ Unset(t)
  PROVE  /\ ConsumerTypes' /\ HTTPTypes'
         /\ \A u \in Terms : start'[u] = "forward" <=> fwd'[u] # NoEvent
<1> USE DEF Typed, TypeOK, InHand, HTTPTypes
<1>1. HTTPPending \subseteq Hosts
  BY PendingHosts
<1>2. t \in 0 .. MaxTerm /\ 0 \in 0 .. MaxTerm
  BY ConsumerAssumption DEF Terms
<1>3. CASE StartHTTP(t) \/ Unset(t)
  BY <1>2, <1>3 DEF StartHTTP, Unset, consumerVars, ConsumerTypes, Parts
<1>4. CASE SelectOn(t) \/ Leave(t)
  <2>1. missed' \subseteq Hosts
    BY <1>1, <1>4 DEF SelectOn, Leave, ConsumerTypes
  <2>2. ConsumerTypes'
    BY <1>4, <2>1 DEF SelectOn, Leave, ConsumerTypes, Parts
  <2>3. HTTPTypes'
    <3>1. CASE SelectOn(t)
      BY <3>1 DEF SelectOn
    <3>2. CASE Leave(t)
      BY <1>2, <3>2 DEF Leave
    <3>3. QED
      BY <1>4, <3>1, <3>2
  <2>4. QED
    BY <1>4, <2>2, <2>3 DEF SelectOn, Leave
<1>5. CASE TakeEvent(t)
  <2>1. PICK s \in Terms : s = sel[t]
    BY <1>5 DEF TakeEvent, Terms
  <2>2. chans[s] # <<>> /\ chans[s] \in Seq(Events)
    BY <1>5, <2>1 DEF TakeEvent
  <2>3. Head(chans[s]) \in Events /\ Tail(chans[s]) \in Seq(Events)
    BY <2>2
  <2>4. Len(Tail(chans[s])) <= ChanSize
    BY <2>2, HTTPAssumption
  <2>5. chans' = [chans EXCEPT ![s] = Tail(chans[s])]
    BY <1>5, <2>1 DEF TakeEvent
  <2>6. missed' \subseteq Hosts
    BY <1>5, <2>1, <2>3, EventParts DEF TakeEvent, ConsumerTypes
  <2>7. ConsumerTypes'
    BY <1>5, <2>6 DEF TakeEvent, ConsumerTypes, Parts
  <2>8. /\ fwd' = [fwd EXCEPT ![t] = Head(chans[s])]
        /\ start' = [start EXCEPT ![t] = "forward"]
        /\ sel' = [sel EXCEPT ![t] = 0] /\ UNCHANGED <<eventC, req>>
    BY <1>5, <2>1 DEF TakeEvent
  <2>9. HTTPTypes'
    BY <1>2, <2>2, <2>3, <2>4, <2>5, <2>8
  <2>10. QED
    BY <2>3, <2>7, <2>8, <2>9, EventParts
<1>6. CASE Forward(t)
  <2>1. fwd[t] \in Events
    BY <1>6 DEF Forward
  <2>2. served' \in [Hosts -> Routes]
    BY <1>6, <2>1, EventParts DEF Forward, Handles, ConsumerTypes
  <2>3. ConsumerTypes'
    BY <1>6, <2>2 DEF Forward, ConsumerTypes, Parts
  <2>4. HTTPTypes'
    BY <1>6 DEF Forward
  <2>5. QED
    BY <1>6, <2>3, <2>4 DEF Forward
<1>7. QED
  BY <1>3, <1>4, <1>5, <1>6

\* The handlers of the HTTP source.
LEMMA HandlersTyped ==
  ASSUME Typed,
         \/ \E r \in Requests : Send(r) \/ \E e \in Events : Post(r, e)
         \/ \E h \in Hosts, v \in Routes : ChangeRoute(h, v)
  PROVE  ConsumerTypes' /\ HTTPTypes' /\ UNCHANGED <<start, fwd>>
<1> USE DEF Typed, TypeOK, HTTPTypes
<1>1. ASSUME NEW r \in Requests, Send(r)
      PROVE  ConsumerTypes' /\ HTTPTypes' /\ UNCHANGED <<start, fwd>>
  <2>1. req[r] \in Calls
    BY <1>1 DEF Send
  <2>2. req[r].event \in Events /\ req[r].ch \in 0 .. MaxTerm
    BY <2>1 DEF Calls
  <2>3. missed' \subseteq Hosts
    BY <1>1, <2>2, EventParts DEF Send, ConsumerTypes
  <2>4. ConsumerTypes'
    BY <1>1, <2>3 DEF Send, ConsumerTypes, Parts
  <2>5. /\ chans' \in [Terms -> Seq(Events)]
        /\ \A t \in Terms : Len(chans'[t]) <= ChanSize
    <3> DEFINE ch == req[r].ch
    <3>1. CASE chans' = chans
      BY <3>1
    <3>2. CASE chans' # chans
      <4>1. PICK c \in Terms, e \in Events :
              /\ Len(chans[c]) # ChanSize
              /\ chans' = [chans EXCEPT ![c] = Append(chans[c], e)]
        <5>1. chans' = Sent(ch, req[r].event) /\ ch \in 0 .. MaxTerm
          BY <1>1, <2>2 DEF Send
        <5>2. /\ ch \in Terms /\ Len(chans[ch]) # ChanSize
              /\ chans' = [chans EXCEPT ![ch] = Append(chans[ch], req[r].event)]
          BY <3>2, <5>1 DEF Sent, Terms
        <5>3. QED
          BY <2>2, <5>2
      <4>2. Len(Append(chans[c], e)) <= ChanSize
        <5>1. chans[c] \in Seq(Events) /\ Len(chans[c]) <= ChanSize
          OBVIOUS
        <5>2. QED
          BY <4>1, <5>1, HTTPAssumption
      <4>3. QED
        BY <4>1, <4>2
    <3>3. QED
      BY <3>1, <3>2
  <2>6. QED
    BY <1>1, <2>4, <2>5 DEF Send
<1>2. ASSUME NEW r \in Requests, NEW e \in Events, Post(r, e)
      PROVE  ConsumerTypes' /\ HTTPTypes' /\ UNCHANGED <<start, fwd>>
  <2>1. routes' \in [Hosts -> Routes \cup {Refused}] /\ missed' \subseteq Hosts
    BY <1>2, EventParts DEF Post, Stored, ConsumerTypes
  <2>2. changes' \in 0 .. MaxChanges
    BY <1>2, ConsumerAssumption DEF Post, ConsumerTypes
  <2>3. ConsumerTypes'
    BY <1>2, <2>1, <2>2 DEF Post, ConsumerTypes, Parts
  <2>4. req' \in [Requests -> Calls \cup {NoEvent}]
    <3>1. [event |-> e, ch |-> eventC, later |-> FALSE] \in Calls
      BY DEF Calls
    <3>2. \A q \in Requests : req[q] # NoEvent =>
            [req[q] EXCEPT !.later = TRUE] \in Calls
      BY DEF Calls
    <3>3. QED
      BY <1>2, <3>1, <3>2 DEF Post
  <2>5. QED
    BY <1>2, <2>3, <2>4 DEF Post
<1>3. ASSUME NEW h \in Hosts, NEW v \in Routes, ChangeRoute(h, v)
      PROVE  ConsumerTypes' /\ HTTPTypes' /\ UNCHANGED <<start, fwd>>
  <2>1. routes' \in [Hosts -> Routes \cup {Refused}] /\ missed' \subseteq Hosts
    BY <1>3 DEF ChangeRoute, Stored, ConsumerTypes
  <2>2. changes' \in 0 .. MaxChanges
    BY <1>3, ConsumerAssumption DEF ChangeRoute, ConsumerTypes
  <2>3. QED
    BY <1>3, <2>1, <2>2 DEF ChangeRoute, ConsumerTypes, Parts, httpVars
<1>4. QED
  BY <1>1, <1>2, <1>3

\* What is said of the children in Typed.
ChildrenTyped ==
  /\ ConsumerTypes /\ CompositeTypes
  /\ \A c \in Children : watch[c] = "sending" <=> held[c] # NoEvent
  /\ trigger = "off" => \A c \in Children : watch[c] = "off"

\* A document changes.
LEMMA DocumentTyped ==
  ASSUME Typed, NEW h \in Hosts, NEW v \in Routes \cup {Refused},
         NEW lookup \in BOOLEAN, ChangeDocument(h, v, lookup)
  PROVE  ChildrenTyped'
<1> USE DEF Typed, TypeOK, InHand, CompositeTypes, ChildrenTyped
<1>1. PICK c \in Children : c = CollectionOf[h]
  BY ConsumerAssumption DEF Children
<1>2. [host |-> h, to |-> v, lookup |-> lookup] \in Changed
  BY DEF Changed
<1>3. feed[c] \in Seq(Changed)
  OBVIOUS
<1>4. feed' \in [Children -> Seq(Changed)]
  <2> DEFINE chg == [host |-> h, to |-> v, lookup |-> lookup]
  <2>1. chg \in Changed /\ Append(feed[c], chg) \in Seq(Changed)
    BY <1>2, <1>3
  <2>2. feed' \in {feed, [feed EXCEPT ![c] = Append(feed[c], chg)]}
    BY <1>1 DEF ChangeDocument
  <2> HIDE DEF chg
  <2>3. QED
    BY <2>1, <2>2
<1>5. missed' \subseteq Hosts
  BY DEF ChangeDocument, ConsumerTypes
<1>6. changes' \in 0 .. MaxChanges
  BY ConsumerAssumption DEF ChangeDocument, ConsumerTypes
<1>7. routes' \in [Hosts -> Routes \cup {Refused}]
  BY DEF ChangeDocument, ConsumerTypes
<1>8. QED
  BY <1>4, <1>6, <1>7, <1>5 DEF ChangeDocument, ConsumerTypes, Parts

\* A child works for the composite.
LEMMA ChildTyped ==
  ASSUME Typed, NEW c \in Children,
         \/ OpenStream(c) \/ Deliver(c) \/ Receive(c)
         \/ ChildFails(c) \/ ChildEnds(c) \/ ChildStops(c)
  PROVE  ChildrenTyped'
<1> USE DEF Typed, TypeOK, InHand, CompositeTypes, ChildrenTyped
<1>1. CASE OpenStream(c)
  BY <1>1 DEF OpenStream, consumerVars, ConsumerTypes, Parts
<1>2. CASE Deliver(c)
  <2>1. /\ watch[c] = "open" /\ feed[c] # <<>> /\ feed[c] \in Seq(Changed)
        /\ UNCHANGED <<consumerVars, trigger, firstErr>>
        /\ feed' = [feed EXCEPT ![c] = Tail(feed[c])]
    BY <1>2 DEF Deliver
  <2>2. PICK chg : chg = Head(feed[c])
    OBVIOUS
  <2>3. chg \in Changed
    BY <2>1, <2>2
  <2>4. Seen(chg) \in Routes /\ chg.host \in Hosts
    BY <1>2, <2>2, <2>3 DEF Deliver, Seen, Changed, ConsumerTypes
  <2>5. PICK e \in Events \cup {NoEvent}, w \in {"open", "sending"} :
          /\ held' = [held EXCEPT ![c] = e]
          /\ watch' = [watch EXCEPT ![c] = w]
          /\ w = "sending" <=> e # NoEvent
    BY <1>2, <2>2, <2>4, EventParts DEF Deliver
  <2>6. feed' \in [Children -> Seq(Changed)]
    BY <2>1
  <2>7. ConsumerTypes'
    BY <2>1 DEF consumerVars, ConsumerTypes, Parts
  <2>8. QED
    BY <2>1, <2>5, <2>6, <2>7
<1>3. CASE Receive(c)
  <2>1. held[c] \in Events
    BY <1>3 DEF Receive
  <2>2. served' \in [Hosts -> Routes]
    BY <1>3, <2>1, EventParts DEF Receive, Handles, ConsumerTypes
  <2>3. QED
    BY <1>3, <2>2 DEF Receive, ConsumerTypes, Parts
<1>4. CASE ChildFails(c) \/ ChildEnds(c) \/ ChildStops(c)
  <2>1. ChildPending(c) \subseteq Hosts
    BY PendingHosts DEF CompositePending
  <2>2. faults' \in 0 .. MaxFaults
    BY <1>4, ConsumerAssumption
    DEF ChildFails, ChildEnds, ChildStops, Fault, ConsumerTypes
  <2>3. /\ ChildReturns(c)
        /\ UNCHANGED <<provider, routes, served, term, live, main, read,
                       listed, changes, trigger>>
        /\ firstErr' \in {TRUE, firstErr} /\ watch[c] # "off"
    BY <1>4 DEF ChildFails, ChildEnds, ChildStops
  <2>4. ConsumerTypes'
    BY <2>1, <2>2, <2>3 DEF ChildReturns, ConsumerTypes, Parts
  <2>5. <<>> \in Seq(Changed) /\ NoEvent \in Events \cup {NoEvent}
    OBVIOUS
  <2>6. CompositeTypes' /\ trigger' # "off"
    BY <1>4, <2>3, <2>5 DEF ChildReturns, ChildFails, ChildEnds, ChildStops
  <2>7. \A d \in Children : watch'[d] = "sending" <=> held'[d] # NoEvent
    BY <2>3 DEF ChildReturns
  <2>8. QED
    BY <2>4, <2>6, <2>7
<1>5. QED
  BY <1>1, <1>2, <1>3, <1>4

LEMMA CompositeTyped ==
  ASSUME Typed, CompositeNext
  PROVE  ChildrenTyped'
<1>1. CASE StartChildren \/ CompositeReturns \/ DisableTrigger
  BY <1>1
  DEF StartChildren, CompositeReturns, DisableTrigger, consumerVars, Typed,
      TypeOK, InHand, CompositeTypes, ChildrenTyped, ConsumerTypes, Parts
<1>2. QED
  BY <1>1, DocumentTyped, ChildTyped DEF CompositeNext

LEMMA TypedInitially == Init => Typed
<1> SUFFICES ASSUME Init PROVE Typed
  OBVIOUS
<1>1. ConsumerTypes
  <2>1. NothingListed \in [Hosts -> Routes] /\ 0 \in 0 .. Parts /\ 0 \in 0 .. MaxTerm
    BY PartFacts, ConsumerAssumption DEF NothingListed, Routes
  <2>2. routes \in [Hosts -> Routes \cup {Refused}]
    BY <2>1 DEF Init, ConsumerInit
  <2>3. MaxChanges \in 0 .. MaxChanges /\ MaxFaults \in 0 .. MaxFaults
    BY ConsumerAssumption
  <2>4. QED
    BY <2>1, <2>2, <2>3 DEF Init, ConsumerInit, ConsumerTypes
<1>2. HTTPTypes
  <2>1. <<>> \in Seq(Events) /\ Len(<<>>) = 0 /\ 0 \in 0 .. MaxTerm
    BY ConsumerAssumption
  <2>2. 0 <= ChanSize
    BY HTTPAssumption
  <2>3. \A t \in Terms : Len(chans[t]) <= ChanSize
    BY <2>1, <2>2 DEF Init, HTTPIdle
  <2>4. QED
    BY <2>1, <2>3 DEF Init, HTTPIdle, HTTPTypes
<1>3. CompositeTypes
  <2>1. <<>> \in Seq(Changed)
    OBVIOUS
  <2>2. QED
    BY <2>1 DEF Init, CompositeIdle, CompositeTypes
<1>4. InHand
  BY DEF Init, HTTPIdle, CompositeIdle, InHand
<1>5. QED
  BY <1>1, <1>2, <1>3, <1>4 DEF Typed, TypeOK

\* Whatever happens to the process, what it holds is gone or stays.
LEMMA TypedPreserved == Typed /\ [Next]_vars => Typed'
<1> SUFFICES ASSUME Typed, [Next]_vars PROVE Typed'
  OBVIOUS
<1> USE DEF Typed, TypeOK, InHand
<1>1. Pending \subseteq Hosts
  BY PendingHosts DEF Pending
<1>2. UNCHANGED httpVars => HTTPTypes' /\ UNCHANGED <<start, fwd>>
  BY DEF httpVars, HTTPTypes
<1>3. UNCHANGED compositeVars => CompositeTypes' /\ UNCHANGED <<trigger, watch, held>>
  BY DEF compositeVars, CompositeTypes
<1>4. CompositeEnds =>
        /\ CompositeTypes' /\ trigger' = "off"
        /\ \A c \in Children : watch'[c] = "off" /\ held'[c] = NoEvent
  <2>1. <<>> \in Seq(Changed)
    OBVIOUS
  <2>2. QED
    <3> SUFFICES ASSUME CompositeEnds
                 PROVE  /\ CompositeTypes' /\ trigger' = "off"
                        /\ \A c \in Children : watch'[c] = "off" /\ held'[c] = NoEvent
      OBVIOUS
    <3>1. /\ trigger' = "off" /\ firstErr' = FALSE
          /\ watch' = [c \in Children |-> "off"]
          /\ feed' = [c \in Children |-> <<>>]
          /\ held' = [c \in Children |-> NoEvent]
      BY DEF CompositeEnds
    <3>2. feed' \in [Children -> Seq(Changed)]
      BY <2>1, <3>1
    <3> HIDE DEF Typed
    <3>3. QED
      BY <3>1, <3>2 DEF CompositeTypes
<1>5. HTTPEnds =>
        /\ HTTPTypes'
        /\ \A t \in Terms : start'[t] = "off" /\ fwd'[t] = NoEvent
  BY ConsumerAssumption, HTTPAssumption DEF HTTPEnds, HTTPTypes
<1>6. CASE Cycle \/ NewTerm \/ Demoted
  <2>1. ConsumerTypes'
    BY <1>1, <1>6, ConsumerTyped DEF Cycle, NewTerm, Demoted
  <2>2. UNCHANGED httpVars /\ UNCHANGED compositeVars
    BY <1>6 DEF Cycle, NewTerm, Demoted
  <2>3. QED
    BY <1>2, <1>3, <2>1, <2>2
<1>7. CASE TermOver \/ Dies
  <2>1. ConsumerTypes' /\ CompositeEnds /\ (UNCHANGED httpVars \/ HTTPEnds)
    BY <1>1, <1>7, ConsumerTyped DEF TermOver, Dies
  <2>2. QED
    BY <1>2, <1>4, <1>5, <2>1
<1>8. CASE HTTPNext /\ UNCHANGED compositeVars
  BY <1>3, <1>8, StartTyped, HandlersTyped DEF HTTPNext
<1>9. CASE CompositeNext /\ UNCHANGED httpVars
  BY <1>2, <1>9, CompositeTyped DEF ChildrenTyped
<1>10. CASE UNCHANGED vars
  BY <1>2, <1>3, <1>10 DEF vars, consumerVars, ConsumerTypes, Parts
<1>11. QED
  BY <1>6, <1>7, <1>8, <1>9, <1>10 DEF Next

\* TypeOK holds in every state of every source.
THEOREM SourceTypes == Spec => []TypeOK
<1>1. Typed => TypeOK
  BY DEF Typed
<1>2. QED
  BY <1>1, TypedInitially, TypedPreserved, PTL DEF Spec
-----------------------------------------------------------------------------
(* No change is lost unnoticed. *)

\* Only the configured kind of source is at work.
OneSource ==
  /\ provider = "http" => trigger = "off"
  /\ provider = "mongodb" =>
       /\ \A t \in Terms : start[t] = "off" /\ chans[t] = <<>>
       /\ \A r \in Requests : req[r] = NoEvent

\* The events on their way to main and the cycle at work make of a route what
\* the store has.
QueueTells(h) == Tells(Queue, h, Planned(h), routes[h])

\* A handler with the last event of its host has what is in the store.
InFlightTells ==
  \A r \in InFlight :
    \/ req[r].later
    \/ req[r].event.host \in missed
    \/ req[r].event.to = routes[req[r].event.host]

HostTells(h) ==
  \/ h \in missed
  \/ \E r \in InFlight : req[r].event.host = h
  \/ QueueTells(h)

HTTPTells == provider = "http" => InFlightTells /\ \A h \in Hosts : HostTells(h)

\* The last change of a document in a stream is what the document is, one
\* that is looked up was no removal, and streams are open for changes.
FeedTells(c) ==
  /\ feed[c] # <<>> => watch[c] \in {"open", "sending"}
  /\ \A i \in DOMAIN feed[c] :
       /\ CollectionOf[feed[c][i].host] = c
       /\ feed[c][i].lookup => feed[c][i].to # Absent
       /\ Newest(feed[c], i) => feed[c][i].to = routes[feed[c][i].host]

\* So is what a child sends, where no change of the document follows.
HeldTells(c) ==
  held[c] # NoEvent =>
    /\ CollectionOf[held[c].host] = c
    /\ \/ held[c].to = routes[held[c].host]
       \/ \E i \in DOMAIN feed[c] : feed[c][i].host = held[c].host

DocumentTells(h) ==
  \/ h \in missed
  \/ routes[h] = Refused
  \/ h \in CompositePending
  \/ Planned(h) = routes[h]

CompositeTells ==
  provider = "mongodb" =>
    /\ \A c \in Children : FeedTells(c) /\ HeldTells(c)
    /\ \A h \in Hosts : DocumentTells(h)

SourceInv == Typed /\ OneSource /\ HTTPTells /\ CompositeTells

-----------------------------------------------------------------------------
(* Cycles. *)

\* Queued and the hosts of the handlers, as indices.
LEMMA PendingParts ==
  /\ \A i \in DOMAIN Queue : Queue[i].host \in HTTPPending
  /\ \A r \in InFlight : req[r].event.host \in HTTPPending
BY DEF HTTPPending, Queued

LEMMA PlanKept ==
  ASSUME UNCHANGED <<provider, served, read, listed>>, NEW h \in Hosts
  PROVE  Planned(h)' = Planned(h)
BY DEF Planned, PartOf

\* A listing is what the source has, and diff leaves alone what fits.
LEMMA ListPlans ==
  ASSUME Typed, NEW pending \in SUBSET Hosts, List(pending), NEW h \in Hosts
  PROVE  /\ missed' \subseteq missed /\ UNCHANGED <<provider, routes, term>>
         /\ h \in missed /\ h \notin missed' =>
              h \notin pending /\ Planned(h)' = routes[h]
         /\ Planned(h) = routes[h] => Planned(h)' = routes[h]
<1> USE DEF Typed, TypeOK, ConsumerTypes
<1>1. read \in Nat /\ PartOf(h) \in Nat /\ read' = read + 1 /\ PartOf(h)' = PartOf(h)
  BY PartFacts DEF List, PartOf
<1>2. missed' \subseteq missed /\ UNCHANGED <<provider, routes, served, term>>
  BY DEF List
<1>3. CASE PartOf(h) = read + 1
  <2>1. listed'[h] = routes[h]
    BY <1>3 DEF List
  <2>2. Planned(h) = served[h] /\ Planned(h)' = Repaired(served[h], routes[h])
    BY <1>1, <1>2, <1>3, <2>1 DEF Planned
  <2>3. h \in missed /\ h \notin missed' =>
          h \notin pending /\ Repaired(served[h], routes[h]) = routes[h]
    BY <1>3 DEF List
  <2>4. Repaired(routes[h], routes[h]) = routes[h]
    BY DEF Repaired
  <2>5. QED
    BY <1>2, <2>2, <2>3, <2>4
<1>4. CASE PartOf(h) # read + 1
  <2>1. listed'[h] = listed[h]
    BY <1>4 DEF List
  <2>2. PartOf(h) <= read + 1 <=> PartOf(h) <= read
    BY <1>1, <1>4
  <2>3. Planned(h)' = Planned(h)
    BY <1>1, <1>2, <2>1, <2>2 DEF Planned
  <2>4. h \in missed => h \in missed'
    BY <1>4 DEF List
  <2>5. QED
    BY <1>2, <2>3, <2>4
<1>5. QED
  BY <1>3, <1>4

\* The routes are what the cycle was to make of them.
LEMMA ReconcilePlans ==
  ASSUME Reconcile, NEW h \in Hosts
  PROVE  Planned(h)' = Planned(h)
<1>1. served'[h] = Planned(h) /\ read' = 0 /\ UNCHANGED provider
  BY DEF Reconcile, EndCycle
<1>2. Planned(h)' = served'[h]
  <2>1. PartOf(h)' = PartOf(h) /\ PartOf(h) \in Nat \ {0}
    BY <1>1, PartFacts DEF PartOf
  <2>2. ~(PartOf(h) <= 0)
    BY <2>1
  <2>3. QED
    BY <1>1, <2>1, <2>2 DEF Planned
<1>3. QED
  BY <1>1, <1>2

-----------------------------------------------------------------------------
(* The HTTP source under the orchestrator. *)

LEMMA HTTPFrame ==
  ASSUME HTTPTells, UNCHANGED <<provider, routes, term, req>>, Queue' = Queue,
         missed \subseteq missed', \A h \in Hosts : Planned(h)' = Planned(h)
  PROVE  HTTPTells'
<1>1. InFlight' = InFlight
  BY DEF InFlight
<1>2. \A h \in Hosts : HostTells(h) => HostTells(h)'
  BY <1>1 DEF HostTells, QueueTells
<1>3. InFlightTells => InFlightTells'
  BY <1>1 DEF InFlightTells
<1>4. QED
  BY <1>2, <1>3 DEF HTTPTells

\* After a loss of everything nothing need be told.
LEMMA AllMissed ==
  ASSUME Typed', missed' = Hosts
  PROVE  HTTPTells'
<1>1. \A r \in Requests : req'[r] # NoEvent => req'[r].event.host \in Hosts
  BY EventParts DEF Typed, TypeOK, HTTPTypes, Calls
<1>2. InFlightTells'
  BY <1>1 DEF InFlightTells, InFlight
<1>3. QED
  BY <1>2 DEF HTTPTells, HostTells

LEMMA HTTPCycles ==
  ASSUME Typed, Typed', HTTPTells, provider = "http",
         Cycle \/ NewTerm \/ Demoted \/ TermOver \/ Dies
  PROVE  HTTPTells'
<1>1. CASE List(HTTPPending) /\ UNCHANGED httpVars
  <2>1. HTTPPending \in SUBSET Hosts
    BY PendingHosts
  <2>2. \A h \in Hosts :
          /\ h \in missed /\ h \notin missed' =>
               h \notin HTTPPending /\ Planned(h)' = routes[h]
          /\ Planned(h) = routes[h] => Planned(h)' = routes[h]
    BY <1>1, <2>1, ListPlans
  <2>3. UNCHANGED <<provider, routes, term>>
    BY <1>1 DEF List
  <2>4. Queue' = Queue /\ InFlight' = InFlight /\ UNCHANGED req
    BY <1>1, <2>3 DEF httpVars, Queue, InFlight
  <2>5. InFlightTells'
    <3>1. \A r \in InFlight : req[r].event.host \in HTTPPending \cap Hosts
      BY <2>1, PendingParts
    <3>2. QED
      BY <2>2, <2>3, <2>4, <3>1 DEF InFlightTells, HTTPTells
  <2>6. ASSUME NEW h \in Hosts PROVE HostTells(h)'
    <3>1. CASE h \in missed /\ h \notin missed'
      <4>1. \A i \in DOMAIN Queue : Queue[i].host # h
        BY <2>2, <3>1, PendingParts
      <4>2. Planned(h)' = routes'[h]
        BY <2>2, <2>3, <3>1
      <4>3. Tells(Queue, h, Planned(h)', routes'[h])
        BY <4>1, <4>2, SilentTells
      <4>4. QED
        BY <2>4, <4>3 DEF HostTells, QueueTells
    <3>2. CASE QueueTells(h)
      <4>1. Tells(Queue, h, Planned(h)', routes[h])
        BY <2>2, <3>2 DEF QueueTells, Tells
      <4>2. QED
        BY <2>3, <2>4, <4>1 DEF HostTells, QueueTells
    <3>3. CASE ~(h \in missed /\ h \notin missed') /\ ~QueueTells(h)
      BY <2>4, <3>3 DEF HostTells, HTTPTells
    <3>4. QED
      BY <3>1, <3>2, <3>3
  <2>7. QED
    BY <2>5, <2>6 DEF HTTPTells
<1>2. CASE ListFails \/ StartTerm \/ Crash
  BY <1>2, AllMissed DEF ListFails, StartTerm, Crash
<1>3. CASE Reconcile /\ UNCHANGED httpVars
  <2>1. UNCHANGED <<provider, routes, term, req, missed>> /\ Queue' = Queue
    BY <1>3 DEF Reconcile, httpVars, Queue
  <2>2. QED
    BY <1>3, <2>1, ReconcilePlans, HTTPFrame
<1>4. CASE (LoseLeadership \/ Return(HTTPPending)) /\ UNCHANGED httpVars
  <2>1. /\ UNCHANGED <<provider, routes, served, read, listed, term, req>>
        /\ missed \subseteq missed' /\ Queue' = Queue
    BY <1>4 DEF LoseLeadership, Return, httpVars, Queue
  <2>2. QED
    BY <2>1, PlanKept, HTTPFrame
<1>5. QED
  BY <1>1, <1>2, <1>3, <1>4 DEF Cycle, NewTerm, Demoted, TermOver, Dies, Pending

-----------------------------------------------------------------------------
(* Start of the HTTP source. *)

LEMMA QueueParts ==
  ASSUME Typed, term # 0
  PROVE  /\ term \in Terms /\ Queue = Line(fwd[term], chans[term])
         /\ chans[term] \in Seq(Events) /\ fwd[term] \in Events \cup {NoEvent}
         /\ Queue \in Seq(Events)
         /\ fwd[term] = NoEvent => Queue = chans[term]
<1>1. term \in Terms
  BY CurrentTerm
<1>2. chans[term] \in Seq(Events) /\ fwd[term] \in Events \cup {NoEvent}
  BY <1>1 DEF Typed, TypeOK, HTTPTypes
<1>3. Queue = Line(fwd[term], chans[term])
  BY DEF Queue, Line
<1>4. CASE fwd[term] = NoEvent
  BY <1>1, <1>2, <1>3, <1>4, NoFront
<1>5. CASE fwd[term] \in Events
  BY <1>1, <1>2, <1>3, <1>5, LineParts, EventParts
<1>6. QED
  BY <1>2, <1>4, <1>5

\* main takes the first event and makes the route what it says.
LEMMA ForwardTells ==
  ASSUME Typed, HTTPTells, provider = "http", NEW t \in Terms, Forward(t)
  PROVE  HTTPTells'
<1> USE DEF Typed, TypeOK, ConsumerTypes
<1>1. /\ t = term /\ term # 0
      /\ UNCHANGED <<provider, routes, term, missed, req, chans>>
  BY DEF Forward, Terms
<1>2. fwd[term] \in Events
  BY <1>1 DEF InHand, Forward, HTTPTypes
<1>3. PICK f \in Events : f = fwd[term]
  BY <1>2
<1>4. PICK s \in Seq(Events) : s = chans[term]
  BY <1>1, QueueParts
<1>5. Queue = Line(f, s) /\ Queue' = Line(NoEvent, s)
  <2>1. fwd'[term] = NoEvent
    BY <1>1 DEF Forward, HTTPTypes
  <2>2. QED
    BY <1>1, <1>3, <1>4, <2>1 DEF Queue, Line
<1>6. Queue' = s
  BY <1>5, NoFront
<1>7. /\ served' = [served EXCEPT ![f.host] = f.to] /\ read = 0 /\ read' = 0
      /\ f.host \in Hosts
  BY <1>1, <1>3, EventParts DEF Forward, Handles
<1>8. ASSUME NEW h \in Hosts PROVE Planned(h) = served[h] /\ Planned(h)' = served'[h]
  <2>1. ~(PartOf(h) <= 0) /\ PartOf(h)' = PartOf(h)
    BY <1>1, PartFacts DEF PartOf
  <2>2. QED
    BY <1>7, <2>1 DEF Planned
<1>9. InFlight' = InFlight
  BY <1>1 DEF InFlight
<1>10. ASSUME NEW h \in Hosts, QueueTells(h) PROVE QueueTells(h)'
  <2>1. Tells(Line(f, s), h, served[h], routes[h])
    BY <1>5, <1>8, <1>10 DEF QueueTells
  <2>2. Tells(s, h, served'[h], routes[h])
    <3>1. CASE h = f.host
      BY <1>7, <2>1, <3>1, FrontTells
    <3>2. CASE h # f.host
      <4>1. served'[h] = served[h]
        BY <1>7, <3>2
      <4>2. QED
        BY <2>1, <3>2, <4>1, FrontTells
    <3>3. QED
      BY <3>1, <3>2
  <2>3. QED
    BY <1>1, <1>6, <1>8, <2>2 DEF QueueTells
<1>11. QED
  BY <1>1, <1>9, <1>10 DEF HTTPTells, InFlightTells, HostTells

\* An event that another's Start takes is lost, one of the own channel only
\* moves on.
LEMMA TakeTells ==
  ASSUME Typed, HTTPTells, provider = "http", NEW t \in Terms, TakeEvent(t)
  PROVE  HTTPTells'
<1> USE DEF Typed, TypeOK, HTTPTypes
<1>1. PICK c \in Terms : c = sel[t]
  BY DEF TakeEvent, Terms
<1>2. PICK s \in Seq(Events) : s = chans[c] /\ s # <<>>
  BY <1>1 DEF TakeEvent
<1>3. PICK e \in Events : e = Head(s)
  BY <1>2
<1>4. PICK tl \in Seq(Events) : tl = Tail(s)
  BY <1>2, HeadTailProperties
<1>5. s = Line(e, tl)
  BY <1>2, <1>3, <1>4, LineOfTail
<1>6. /\ UNCHANGED <<provider, routes, served, read, listed, term, req>>
      /\ fwd' = [fwd EXCEPT ![t] = e] /\ chans' = [chans EXCEPT ![c] = tl]
      /\ missed' = IF t = term /\ c = t THEN missed ELSE missed \cup {e.host}
      /\ start[t] = "select"
  BY <1>1, <1>2, <1>3, <1>4 DEF TakeEvent
<1>7. \A h \in Hosts : Planned(h)' = Planned(h)
  BY <1>6, PlanKept
<1>8. missed \subseteq missed'
  BY <1>6
<1>9. CASE Queue' = Queue
  BY <1>6, <1>7, <1>8, <1>9, HTTPFrame
<1>10. CASE /\ e.host \in missed'
            /\ \A h, p, v : h # e.host /\ Tells(Queue, h, p, v) => Tells(Queue', h, p, v)
  <2>1. InFlight' = InFlight
    BY <1>6 DEF InFlight
  <2>2. InFlightTells'
    BY <1>6, <1>8, <2>1 DEF HTTPTells, InFlightTells
  <2>3. ASSUME NEW h \in Hosts PROVE HostTells(h)'
    <3>1. CASE h # e.host /\ QueueTells(h)
      BY <1>6, <1>7, <1>10, <3>1 DEF HostTells, QueueTells
    <3>2. CASE h = e.host
      BY <1>10, <3>2 DEF HostTells
    <3>3. CASE ~QueueTells(h)
      BY <1>6, <1>8, <2>1, <3>3 DEF HTTPTells, HostTells
    <3>4. QED
      BY <3>1, <3>2, <3>3
  <2>4. QED
    BY <2>2, <2>3 DEF HTTPTells
<1>11. CASE t = term /\ c = t
  <2>1. fwd[term] = NoEvent /\ term # 0
    BY <1>6, <1>11 DEF InHand, Terms
  <2>2. Queue = s
    BY <1>2, <1>11, <2>1, QueueParts
  <2>3. fwd'[term] = e /\ chans'[term] = tl
    BY <1>6, <1>11
  <2>4. Queue' = Line(e, tl)
    <3>1. term' # 0
      BY <1>6, <2>1
    <3>2. Queue' = Line(fwd'[term'], chans'[term'])
      BY <3>1 DEF Queue, Line
    <3>3. QED
      BY <1>6, <2>3, <3>2
  <2>5. QED
    BY <1>5, <1>9, <2>2, <2>4
<1>12. CASE t = term /\ c # t
  <2>1. fwd[term] = NoEvent /\ term # 0
    BY <1>6, <1>12 DEF InHand, Terms
  <2>2. Queue = chans[term] /\ chans[term] \in Seq(Events)
    BY <2>1, QueueParts
  <2>3. fwd'[term] = e /\ chans'[term] = chans[term]
    BY <1>6, <1>12
  <2>4. Queue' = Line(e, chans[term])
    <3>1. term' # 0
      BY <1>6, <2>1
    <3>2. Queue' = Line(fwd'[term'], chans'[term'])
      BY <3>1 DEF Queue, Line
    <3>3. QED
      BY <1>6, <2>3, <3>2
  <2>5. \A h, p, v : h # e.host /\ Tells(Queue, h, p, v) => Tells(Queue', h, p, v)
    BY <2>2, <2>4, FrontTells
  <2>6. QED
    BY <1>6, <1>10, <1>12, <2>5
<1>13. CASE t # term /\ c = term
  <2>1. term # 0 /\ term \in Terms
    BY <1>13 DEF Terms
  <2>2. PICK f \in Events \cup {NoEvent} : f = fwd[term]
    BY <2>1
  <2>3. fwd'[term] = f /\ chans'[term] = tl
    BY <1>6, <1>13, <2>1, <2>2
  <2>4. Queue = Line(f, Line(e, tl)) /\ Queue' = Line(f, tl)
    BY <1>2, <1>5, <1>6, <1>13, <2>1, <2>2, <2>3 DEF Queue, Line
  <2>5. Line(e, tl) \in Seq(Events)
    BY LineParts
  <2>6. ASSUME NEW h, NEW p, NEW v, h # e.host, Tells(Queue, h, p, v)
        PROVE  Tells(Queue', h, p, v)
    <3>1. CASE f = NoEvent
      <4>1. Line(f, tl) = tl /\ Line(f, Line(e, tl)) = Line(e, tl)
        BY <2>5, <3>1, NoFront
      <4>2. QED
        BY <2>4, <2>6, <4>1, FrontTells
    <3>2. CASE f # NoEvent /\ h = f.host
      <4>1. f \in Events
        BY <3>2
      <4>2. Tells(Line(e, tl), h, f.to, v)
        BY <2>4, <2>5, <2>6, <3>2, <4>1, FrontTells
      <4>3. Tells(tl, h, f.to, v)
        BY <2>6, <4>2, FrontTells
      <4>4. QED
        BY <2>4, <3>2, <4>1, <4>3, FrontTells
    <3>3. CASE f # NoEvent /\ h # f.host
      <4>1. f \in Events
        BY <3>3
      <4>2. Tells(Line(e, tl), h, p, v)
        BY <2>4, <2>5, <2>6, <3>3, <4>1, FrontTells
      <4>3. Tells(tl, h, p, v)
        BY <2>6, <4>2, FrontTells
      <4>4. QED
        BY <2>4, <3>3, <4>1, <4>3, FrontTells
    <3>4. QED
      BY <3>1, <3>2, <3>3
  <2>7. QED
    BY <1>6, <1>10, <1>13, <2>6
<1>14. CASE t # term /\ c # term
  <2>1. term # 0 => fwd'[term] = fwd[term] /\ chans'[term] = chans[term]
    BY <1>6, <1>14, CurrentTerm
  <2>2. Queue' = Queue
    <3>1. CASE term = 0
      BY <1>6, <3>1 DEF Queue
    <3>2. CASE term # 0
      <4>1. /\ Queue = Line(fwd[term], chans[term])
            /\ Queue' = Line(fwd'[term'], chans'[term'])
        BY <1>6, <3>2 DEF Queue, Line
      <4>2. QED
        BY <1>6, <2>1, <3>2, <4>1
    <3>3. QED
      BY <3>1, <3>2
  <2>3. QED
    BY <1>9, <2>2
<1>15. QED
  BY <1>11, <1>12, <1>13, <1>14

\* What a Start that leaves holds is lost.
LEMMA LeaveTells ==
  ASSUME Typed, HTTPTells, provider = "http", NEW t \in Terms, Leave(t)
  PROVE  HTTPTells'
<1> USE DEF Typed, TypeOK, HTTPTypes
<1>1. /\ UNCHANGED <<provider, routes, served, read, listed, term, chans, req>>
      /\ fwd' = [fwd EXCEPT ![t] = NoEvent]
      /\ missed' = IF t = term THEN missed \cup HTTPPending ELSE missed
  BY DEF Leave
<1>2. \A h \in Hosts : Planned(h)' = Planned(h)
  BY <1>1, PlanKept
<1>3. missed \subseteq missed'
  BY <1>1
<1>4. CASE Queue' = Queue
  BY <1>1, <1>2, <1>3, <1>4, HTTPFrame
<1>5. CASE t # term
  <2>1. term # 0 => fwd'[term] = fwd[term]
    BY <1>1, <1>5, CurrentTerm
  <2>2. Queue' = Queue
    BY <1>1, <2>1 DEF Queue
  <2>3. QED
    BY <1>4, <2>2
<1>6. CASE t = term
  <2>1. term # 0
    BY <1>6 DEF Terms
  <2>2. PICK s \in Seq(Events) : s = chans[term]
    BY <2>1, QueueParts
  <2>3. fwd'[term] = NoEvent
    BY <1>1, <1>6
  <2>4. Queue' = Line(NoEvent, s)
    BY <1>1, <2>1, <2>2, <2>3 DEF Queue, Line
  <2>5. CASE fwd[term] = NoEvent
    <3>1. Queue' = Queue
      BY <2>1, <2>2, <2>4, <2>5, QueueParts
    <3>2. QED
      BY <1>4, <3>1
  <2>6. CASE fwd[term] # NoEvent
    <3>1. PICK f \in Events : f = fwd[term]
      BY <2>1, <2>6, QueueParts
    <3>2. Queue = Line(f, s) /\ Queue' = s
      BY <2>1, <2>2, <2>4, <3>1, QueueParts, NoFront
    <3>3. f.host \in missed'
      <4>1. Queue \in Seq(Events) /\ Queue[1] = f /\ Len(Queue) = Len(s) + 1
        BY <3>2, LineParts
      <4>2. 1 \in DOMAIN Queue
        BY <4>1
      <4>3. QED
        BY <1>1, <1>6, <4>1, <4>2, PendingParts
    <3>4. InFlight' = InFlight
      BY <1>1 DEF InFlight
    <3>5. ASSUME NEW h \in Hosts PROVE HostTells(h)'
      <4>1. CASE h # f.host /\ QueueTells(h)
        <5>1. Tells(Queue', h, Planned(h), routes[h])
          BY <3>2, <4>1, FrontTells DEF QueueTells
        <5>2. QED
          BY <1>1, <1>2, <5>1 DEF HostTells, QueueTells
      <4>2. CASE h = f.host
        BY <3>3, <4>2 DEF HostTells
      <4>3. CASE ~QueueTells(h)
        BY <1>1, <1>3, <3>4, <4>3 DEF HTTPTells, HostTells
      <4>4. QED
        BY <4>1, <4>2, <4>3
    <3>6. QED
      BY <1>1, <1>3, <3>4, <3>5 DEF HTTPTells, InFlightTells
  <2>7. QED
    BY <2>5, <2>6
<1>7. QED
  BY <1>5, <1>6

LEMMA StartTells ==
  ASSUME Typed, HTTPTells, provider = "http", NEW t \in Terms,
         StartHTTP(t) \/ SelectOn(t) \/ Unset(t)
  PROVE  HTTPTells'
<1>1. /\ UNCHANGED <<provider, routes, served, read, listed, term, chans, fwd, req>>
      /\ missed \subseteq missed'
  BY DEF StartHTTP, SelectOn, Unset, consumerVars
<1>2. Queue' = Queue
  BY <1>1 DEF Queue
<1>3. QED
  BY <1>1, <1>2, PlanKept, HTTPFrame

-----------------------------------------------------------------------------
(* The handlers of the HTTP source. *)

\* A handler that is to send has the last change of its host.
LEMMA PostTells ==
  ASSUME Typed, HTTPTells, provider = "http",
         NEW r \in Requests, NEW e \in Events, Post(r, e)
  PROVE  HTTPTells'
<1> USE DEF Typed, TypeOK, HTTPTypes
<1>1. /\ UNCHANGED <<provider, served, read, listed, term, chans, fwd>>
      /\ term # 0 /\ req[r] = NoEvent
      /\ routes' = [routes EXCEPT ![e.host] = e.to]
      /\ missed' = IF eventC = term THEN missed ELSE missed \cup {e.host}
  BY DEF Post, Stored
<1>2. e.host \in Hosts /\ routes'[e.host] = e.to
      /\ \A h \in Hosts : h # e.host => routes'[h] = routes[h]
  BY <1>1, EventParts DEF ConsumerTypes
<1>3. \A q \in Requests :
        req'[q] = IF q = r THEN [event |-> e, ch |-> eventC, later |-> FALSE]
                  ELSE IF req[q] # NoEvent /\ req[q].event.host = e.host
                    THEN [req[q] EXCEPT !.later = TRUE]
                  ELSE req[q]
  BY DEF Post
<1>4. Queue' = Queue
  BY <1>1 DEF Queue
<1>5. /\ req'[r].event = e /\ req'[r].ch = eventC /\ req'[r] # NoEvent
      /\ req'[r].later = FALSE
  <2>1. [event |-> e, ch |-> eventC, later |-> FALSE] \in Calls
    BY DEF Calls
  <2>2. req'[r] = [event |-> e, ch |-> eventC, later |-> FALSE]
    BY <1>3
  <2>3. req'[r] # NoEvent
    BY <2>1, <2>2, HTTPAssumption
  <2>4. QED
    BY <2>2, <2>3
<1>6. ASSUME NEW q \in Requests, q # r, req[q] # NoEvent
      PROVE  /\ req'[q] # NoEvent /\ req'[q].event = req[q].event
             /\ req'[q].ch = req[q].ch
             /\ req[q].event.host = e.host => req'[q].later
             /\ req[q].event.host # e.host => req'[q] = req[q]
  <2>1. req[q] \in Calls
    BY <1>6
  <2>2. [req[q] EXCEPT !.later = TRUE] \in Calls
    BY <2>1 DEF Calls
  <2>3. [req[q] EXCEPT !.later = TRUE] # NoEvent
    BY <2>2, HTTPAssumption
  <2>4. QED
    BY <1>3, <1>6, <2>1, <2>3 DEF Calls
<1>7. \A q \in InFlight : q \in InFlight' /\ req'[q].event = req[q].event
  BY <1>1, <1>6 DEF InFlight
<1>8. \A q \in InFlight' : q = r \/ q \in InFlight
  <2> SUFFICES ASSUME NEW q \in InFlight', q # r PROVE q \in InFlight
    OBVIOUS
  <2>1. q \in Requests /\ req'[q] # NoEvent /\ req'[q].ch = term
    BY <1>1 DEF InFlight
  <2>2. req[q] # NoEvent
    BY <1>3, <2>1
  <2>3. QED
    BY <1>1, <1>6, <2>1, <2>2 DEF InFlight
<1>9. InFlightTells'
  <2> SUFFICES ASSUME NEW q \in InFlight', ~req'[q].later
               PROVE  \/ req'[q].event.host \in missed'
                      \/ req'[q].event.to = routes'[req'[q].event.host]
    BY DEF InFlightTells
  <2>1. CASE q = r
    BY <1>2, <1>5, <2>1
  <2>2. CASE q # r
    <3>1. q \in InFlight /\ req[q] \in Calls /\ req[q] # NoEvent
      BY <1>8, <2>2 DEF InFlight
    <3>2. req[q].event.host # e.host /\ req'[q] = req[q]
      BY <1>6, <2>2, <3>1 DEF InFlight
    <3>3. req[q].event.host \in Hosts
      BY <3>1, EventParts DEF Calls
    <3>4. \/ req[q].event.host \in missed
          \/ req[q].event.to = routes[req[q].event.host]
      BY <3>1, <3>2 DEF HTTPTells, InFlightTells
    <3>5. QED
      BY <1>1, <1>2, <3>2, <3>3, <3>4
  <2>3. QED
    BY <2>1, <2>2
<1>10. ASSUME NEW h \in Hosts PROVE HostTells(h)'
  <2>1. CASE h = e.host
    <3>1. CASE eventC = term
      <4>1. r \in InFlight'
        BY <1>1, <1>5, <3>1 DEF InFlight
      <4>2. QED
        BY <1>5, <2>1, <4>1 DEF HostTells
    <3>2. CASE eventC # term
      BY <1>1, <2>1, <3>2 DEF HostTells
    <3>3. QED
      BY <3>1, <3>2
  <2>2. CASE h # e.host
    <3>1. Planned(h)' = Planned(h)
      BY <1>1, PlanKept
    <3>2. QueueTells(h) => QueueTells(h)'
      BY <1>2, <1>4, <2>2, <3>1 DEF QueueTells
    <3>3. QED
      BY <1>1, <1>7, <3>2 DEF HTTPTells, HostTells
  <2>3. QED
    BY <2>1, <2>2
<1>11. QED
  BY <1>9, <1>10 DEF HTTPTells

\* What is sent is at the end of the queue, or lost.
LEMMA SendTells ==
  ASSUME Typed, HTTPTells, provider = "http", NEW r \in Requests, Send(r)
  PROVE  HTTPTells'
<1> USE DEF Typed, TypeOK, HTTPTypes
<1>1. /\ UNCHANGED <<provider, routes, served, read, listed, term, fwd>>
      /\ req' = [req EXCEPT ![r] = NoEvent]
      /\ missed \subseteq missed'
  BY DEF Send
<1>2. PICK e \in Events : e = req[r].event
  BY DEF Send, Calls
<1>3. \A h \in Hosts : Planned(h)' = Planned(h)
  BY <1>1, PlanKept
<1>4. InFlight' = InFlight \ {r} /\ \A q \in InFlight' : req'[q] = req[q]
  BY <1>1 DEF InFlight
<1>5. InFlightTells'
  BY <1>1, <1>4 DEF HTTPTells, InFlightTells
<1>6. CASE r \notin InFlight
  <2>1. term # 0 => req[r].ch # term
    BY <1>6 DEF InFlight, Send
  <2>2. term # 0 => chans'[term] = chans[term]
    BY <2>1 DEF Send, Sent
  <2>3. Queue' = Queue
    <3>1. CASE term = 0
      BY <1>1, <3>1 DEF Queue
    <3>2. CASE term # 0
      <4>1. /\ Queue = Line(fwd[term], chans[term])
            /\ Queue' = Line(fwd'[term'], chans'[term'])
        BY <1>1, <3>2 DEF Queue, Line
      <4>2. QED
        BY <1>1, <2>2, <3>2, <4>1
    <3>3. QED
      BY <3>1, <3>2
  <2>4. InFlight' = InFlight
    BY <1>4, <1>6
  <2>5. \A h \in Hosts : HostTells(h) => HostTells(h)'
    BY <1>1, <1>3, <1>4, <2>3, <2>4 DEF HostTells, QueueTells
  <2>6. QED
    BY <1>5, <2>5 DEF HTTPTells
<1>7. CASE r \in InFlight
  <2>1. term # 0 /\ req[r].ch = term /\ term \in Terms
    BY <1>7, CurrentTerm DEF InFlight
  <2>2. PICK s \in Seq(Events) : s = chans[term]
    BY <2>1
  <2>3. chans'[term] = IF Len(s) = ChanSize THEN s ELSE Append(s, e)
    BY <1>2, <2>1, <2>2 DEF Send, Sent
  <2>4. Queue' = IF Len(s) = ChanSize THEN Queue ELSE Append(Queue, e)
    <3>1. Queue = Line(fwd[term], s) /\ fwd[term] \in Events \cup {NoEvent}
      BY <2>1, <2>2, QueueParts
    <3>2. Queue' = Line(fwd[term], chans'[term])
      <4>1. Queue' = Line(fwd'[term'], chans'[term'])
        BY <1>1, <2>1 DEF Queue, Line
      <4>2. QED
        BY <1>1, <4>1
    <3>3. QED
      BY <2>3, <3>1, <3>2, LineOfAppend
  <2>5. Queue \in Seq(Events)
    BY <2>1, QueueParts
  <2>6. ASSUME NEW h \in Hosts PROVE HostTells(h)'
    <3>1. CASE h # e.host
      <4>1. QueueTells(h) => QueueTells(h)'
        <5>1. Tells(Queue, h, Planned(h), routes[h]) =>
                Tells(Queue', h, Planned(h), routes[h])
          BY <2>4, <2>5, <3>1, AppendTells
        <5>2. QED
          BY <1>1, <1>3, <5>1 DEF QueueTells
      <4>2. \A q \in InFlight : req[q].event.host = h => q \in InFlight'
        BY <1>2, <1>4, <3>1
      <4>3. QED
        BY <1>1, <1>4, <4>1, <4>2 DEF HTTPTells, HostTells
    <3>2. CASE h = e.host
      <4>1. CASE \E q \in InFlight \ {r} : req[q].event.host = h
        BY <1>4, <4>1 DEF HostTells
      <4>2. CASE \A q \in InFlight \ {r} : req[q].event.host # h
        <5>1. Len(s) = ChanSize \/ req[r].later => h \in missed'
          BY <1>2, <1>7, <2>1, <2>2, <3>2, <4>2 DEF Send
        <5>2. CASE h \in missed'
          BY <5>2 DEF HostTells
        <5>3. CASE h \notin missed'
          <6>1. Queue' = Append(Queue, e) /\ ~req[r].later
            BY <2>4, <5>1, <5>3
          <6>2. e.to = routes[h]
            BY <1>1, <1>2, <1>7, <3>2, <5>3, <6>1 DEF HTTPTells, InFlightTells
          <6>3. Tells(Queue', h, Planned(h), routes[h])
            BY <2>5, <3>2, <6>1, <6>2, AppendTells
          <6>4. QED
            BY <1>1, <1>3, <6>3 DEF HostTells, QueueTells
        <5>4. QED
          BY <5>2, <5>3
      <4>3. QED
        BY <4>1, <4>2
    <3>3. QED
      BY <3>1, <3>2
  <2>7. QED
    BY <1>5, <2>6 DEF HTTPTells
<1>8. QED
  BY <1>6, <1>7

\* What changes without an event is on record.
LEMMA ChangeTells ==
  ASSUME Typed, HTTPTells, provider = "http",
         NEW g \in Hosts, NEW v \in Routes, ChangeRoute(g, v)
  PROVE  HTTPTells'
<1>1. /\ UNCHANGED <<provider, served, read, listed, term, chans, fwd, req>>
      /\ routes' = [routes EXCEPT ![g] = v] /\ missed' = missed \cup {g}
  BY DEF ChangeRoute, Stored, httpVars
<1>2. \A h \in Hosts : h # g => routes'[h] = routes[h]
  BY <1>1 DEF Typed, TypeOK, ConsumerTypes
<1>3. Queue' = Queue /\ InFlight' = InFlight
  BY <1>1 DEF Queue, InFlight
<1>4. \A h \in Hosts : Planned(h)' = Planned(h)
  BY <1>1, PlanKept
<1>5. \A r \in InFlight : req[r].event.host \in Hosts
  BY EventParts DEF InFlight, Typed, TypeOK, HTTPTypes, Calls
<1>6. InFlightTells'
  BY <1>1, <1>2, <1>3, <1>5 DEF HTTPTells, InFlightTells
<1>7. \A h \in Hosts : HostTells(h)'
  BY <1>1, <1>2, <1>3, <1>4 DEF HTTPTells, HostTells, QueueTells
<1>8. QED
  BY <1>6, <1>7 DEF HTTPTells

LEMMA HTTPNextTells ==
  ASSUME Typed, HTTPTells, provider = "http", HTTPNext
  PROVE  HTTPTells'
BY ForwardTells, TakeTells, LeaveTells, StartTells, PostTells, SendTells, ChangeTells
DEF HTTPNext

-----------------------------------------------------------------------------
(* The composite under the orchestrator. *)

LEMMA ChildFacts ==
  ASSUME Typed, NEW c \in Children
  PROVE  /\ feed[c] \in Seq(Changed) /\ held[c] \in Events \cup {NoEvent}
         /\ \A i \in DOMAIN feed[c] : feed[c][i] \in Changed /\ feed[c][i].host \in Hosts
<1>1. feed[c] \in Seq(Changed) /\ held[c] \in Events \cup {NoEvent}
  BY DEF Typed, TypeOK, CompositeTypes
<1>2. \A i \in DOMAIN feed[c] : feed[c][i] \in Changed
  BY <1>1
<1>3. \A x \in Changed : x.host \in Hosts
  BY DEF Changed
<1>4. QED
  BY <1>1, <1>2, <1>3

LEMMA CompositeParts ==
  /\ \A c \in Children : \A i \in DOMAIN feed[c] :
       feed[c][i].host \in CompositePending
  /\ \A c \in Children : held[c] # NoEvent => held[c].host \in CompositePending
BY DEF CompositePending, ChildPending

\* Without a change of the children and the documents.
LEMMA CompositeFrame ==
  ASSUME CompositeTells, UNCHANGED <<provider, routes, watch, feed, held>>,
         missed \subseteq missed', \A h \in Hosts : Planned(h)' = Planned(h)
  PROVE  CompositeTells'
<1>1. \A c \in Children : ChildPending(c)' = ChildPending(c)
  BY DEF ChildPending
<1>2. CompositePending' = CompositePending
  BY <1>1 DEF CompositePending
<1>3. \A c \in Children : FeedTells(c) /\ HeldTells(c) => FeedTells(c)' /\ HeldTells(c)'
  BY DEF FeedTells, HeldTells, Newest
<1>4. \A h \in Hosts : DocumentTells(h) => DocumentTells(h)'
  BY <1>2 DEF DocumentTells
<1>5. QED
  BY <1>3, <1>4 DEF CompositeTells

\* Children that have nothing.
LEMMA CompositeStill ==
  ASSUME CompositeEnds
  PROVE  /\ \A c \in Children : FeedTells(c)' /\ HeldTells(c)'
         /\ CompositePending' = {}
<1>1. \A c \in Children : feed'[c] = <<>> /\ held'[c] = NoEvent
  BY DEF CompositeEnds
<1>2. DOMAIN <<>> = {}
  OBVIOUS
<1>3. QED
  BY <1>1, <1>2 DEF FeedTells, HeldTells, CompositePending, ChildPending

LEMMA CompositeCycles ==
  ASSUME Typed, CompositeTells, provider = "mongodb",
         Cycle \/ NewTerm \/ Demoted \/ TermOver \/ Dies
  PROVE  CompositeTells'
<1>1. CASE List(CompositePending) /\ UNCHANGED compositeVars
  <2>1. CompositePending \in SUBSET Hosts
    BY PendingHosts
  <2>2. \A h \in Hosts :
          /\ h \in missed /\ h \notin missed' =>
               h \notin CompositePending /\ Planned(h)' = routes[h]
          /\ Planned(h) = routes[h] => Planned(h)' = routes[h]
    BY <1>1, <2>1, ListPlans
  <2>3. UNCHANGED <<provider, routes, watch, feed, held>>
    BY <1>1 DEF List, compositeVars
  <2>4. CompositePending' = CompositePending
    BY <2>3 DEF CompositePending, ChildPending
  <2>5. \A c \in Children : FeedTells(c)' /\ HeldTells(c)'
    BY <2>3 DEF CompositeTells, FeedTells, HeldTells, Newest
  <2>6. \A h \in Hosts : DocumentTells(h)'
    BY <2>2, <2>3, <2>4 DEF CompositeTells, DocumentTells
  <2>7. QED
    BY <2>5, <2>6 DEF CompositeTells
<1>2. CASE (ListFails \/ StartTerm) /\ UNCHANGED compositeVars
  <2>1. UNCHANGED <<provider, routes, watch, feed, held>> /\ missed' = Hosts
    BY <1>2 DEF ListFails, StartTerm, compositeVars
  <2>2. \A c \in Children : FeedTells(c)' /\ HeldTells(c)'
    BY <2>1 DEF CompositeTells, FeedTells, HeldTells, Newest
  <2>3. QED
    BY <2>1, <2>2 DEF CompositeTells, DocumentTells
<1>3. CASE Reconcile /\ UNCHANGED compositeVars
  <2>1. UNCHANGED <<provider, routes, watch, feed, held, missed>>
    BY <1>3 DEF Reconcile, compositeVars
  <2>2. QED
    BY <1>3, <2>1, ReconcilePlans, CompositeFrame
<1>4. CASE LoseLeadership /\ UNCHANGED compositeVars
  <2>1. UNCHANGED <<provider, routes, served, read, listed, watch, feed, held, missed>>
    BY <1>4 DEF LoseLeadership, compositeVars
  <2>2. QED
    BY <2>1, PlanKept, CompositeFrame
<1>5. CASE Return(CompositePending) /\ CompositeEnds
  <2>1. /\ UNCHANGED <<provider, routes, served, read, listed>>
        /\ missed' = missed \cup CompositePending
    BY <1>5 DEF Return
  <2>2. \A h \in Hosts : DocumentTells(h)'
    BY <2>1, PlanKept DEF CompositeTells, DocumentTells
  <2>3. QED
    BY <1>5, <2>2, CompositeStill DEF CompositeTells
<1>6. CASE Crash /\ CompositeEnds
  <2>1. missed' = Hosts
    BY <1>6 DEF Crash
  <2>2. QED
    BY <1>6, <2>1, CompositeStill DEF CompositeTells, DocumentTells
<1>7. QED
  BY <1>1, <1>2, <1>3, <1>4, <1>5, <1>6
  DEF Cycle, NewTerm, Demoted, TermOver, Dies, Pending

-----------------------------------------------------------------------------
(* The composite and its children. *)

\* A change is recorded, or missed.
LEMMA DocumentChanges ==
  ASSUME Typed, CompositeTells, NEW g \in Hosts,
         NEW v \in Routes \cup {Refused}, NEW lookup \in BOOLEAN,
         ChangeDocument(g, v, lookup)
  PROVE  CompositeTells'
<1>1. PICK c \in Children : c = CollectionOf[g]
  BY ConsumerAssumption DEF Children
<1>2. PICK chg \in Changed : chg = [host |-> g, to |-> v, lookup |-> lookup]
  BY DEF Changed
<1>3. chg.host = g /\ chg.to = v /\ (chg.lookup => chg.to # Absent)
  BY <1>2 DEF ChangeDocument
<1>4. /\ UNCHANGED <<provider, served, read, listed, watch, held>>
      /\ routes' = [routes EXCEPT ![g] = v]
      /\ provider = "mongodb"
  BY DEF ChangeDocument
<1>5. /\ routes'[g] = v
      /\ \A h \in Hosts : h # g => routes'[h] = routes[h]
  BY <1>4 DEF Typed, TypeOK, ConsumerTypes
<1>6. \A h \in Hosts : Planned(h)' = Planned(h)
  BY <1>4, PlanKept
<1>7. \A d \in Children : d # c => FeedTells(d)' /\ HeldTells(d)'
  <2> SUFFICES ASSUME NEW d \in Children, d # c PROVE FeedTells(d)' /\ HeldTells(d)'
    OBVIOUS
  <2>1. feed'[d] = feed[d] /\ held'[d] = held[d] /\ watch'[d] = watch[d]
    BY <1>1, <1>4 DEF ChangeDocument, Typed, TypeOK, CompositeTypes
  <2>2. FeedTells(d) /\ HeldTells(d)
    BY <1>4 DEF CompositeTells
  <2>3. \A i \in DOMAIN feed[d] : feed[d][i].host # g /\ feed[d][i].host \in Hosts
    BY <1>1, <2>2, ChildFacts DEF FeedTells
  <2>4. FeedTells(d)'
    BY <1>5, <2>1, <2>2, <2>3 DEF FeedTells, Newest
  <2>5. held[d] # NoEvent => held[d].host # g /\ held[d].host \in Hosts
    BY <1>1, <2>2, ChildFacts, EventParts DEF HeldTells
  <2>6. HeldTells(d)'
    BY <1>5, <2>1, <2>2, <2>5 DEF HeldTells
  <2>7. QED
    BY <2>4, <2>6
<1>8. PICK s \in Seq(Changed) : s = feed[c]
  BY ChildFacts
<1>9. FeedTells(c) /\ HeldTells(c)
  BY <1>4 DEF CompositeTells
<1>10. CASE watch[c] \in {"open", "sending"}
  <2>1. feed' = [feed EXCEPT ![c] = Append(s, chg)] /\ missed' = missed
    BY <1>1, <1>2, <1>8, <1>10 DEF ChangeDocument
  <2>2. PICK a \in Seq(Changed) : a = Append(s, chg)
    BY AppendProperties
  <2>3. feed'[c] = a /\ \A d \in Children : d # c => feed'[d] = feed[d]
    BY <2>1, <2>2 DEF Typed, TypeOK, CompositeTypes
  <2>4. /\ DOMAIN s = 1 .. Len(s) /\ Len(s) \in Nat
        /\ DOMAIN a = 1 .. Len(s) + 1
        /\ a[Len(s) + 1] = chg
        /\ \A i \in 1 .. Len(s) : a[i] = s[i]
    BY <2>2, AppendProperties
  <2>5. /\ Len(s) + 1 \in DOMAIN a
        /\ \A i \in DOMAIN s : i \in DOMAIN a /\ a[i] = s[i] /\ ~(Len(s) + 1 <= i)
        /\ \A i \in DOMAIN a : i \in DOMAIN s \/ i = Len(s) + 1
    BY <2>4
  <2>6. \A i \in DOMAIN s : s[i].host \in Hosts
    BY <1>8, ChildFacts
  <2>7. FeedTells(c)'
    <3>1. ASSUME NEW i \in DOMAIN a
          PROVE  /\ CollectionOf[a[i].host] = c
                 /\ a[i].lookup => a[i].to # Absent
                 /\ Newest(a, i) => a[i].to = routes'[a[i].host]
      <4>1. CASE i = Len(s) + 1
        BY <1>1, <1>3, <1>5, <2>4, <4>1
      <4>2. CASE i \in DOMAIN s
        <5>1. a[i] = s[i] /\ CollectionOf[s[i].host] = c
              /\ (s[i].lookup => s[i].to # Absent)
              /\ (Newest(s, i) => s[i].to = routes[s[i].host])
          BY <1>8, <1>9, <2>5, <4>2 DEF FeedTells
        <5>2. Newest(a, i) => Newest(s, i) /\ s[i].host # g
          BY <1>3, <2>4, <2>5, <4>2 DEF Newest
        <5>3. QED
          BY <1>5, <2>6, <4>2, <5>1, <5>2
      <4>3. QED
        BY <2>5, <4>1, <4>2
    <3>2. QED
      BY <1>4, <1>10, <2>3, <3>1 DEF FeedTells
  <2>8. HeldTells(c)'
    <3>1. CASE held[c] = NoEvent
      BY <1>4, <3>1 DEF HeldTells
    <3>2. CASE held[c] # NoEvent /\ held[c].host = g
      BY <1>1, <1>3, <1>4, <2>3, <2>4, <2>5, <3>2 DEF HeldTells
    <3>3. CASE held[c] # NoEvent /\ held[c].host # g
      <4>1. held[c].host \in Hosts
        BY <3>3, ChildFacts, EventParts
      <4>2. QED
        BY <1>4, <1>5, <1>8, <1>9, <2>3, <2>5, <3>3, <4>1 DEF HeldTells
    <3>4. QED
      BY <3>1, <3>2, <3>3
  <2>9. ASSUME NEW h \in Hosts PROVE DocumentTells(h)'
    <3>1. \A d \in Children : ChildPending(d) \subseteq ChildPending(d)'
      <4> SUFFICES ASSUME NEW d \in Children PROVE ChildPending(d) \subseteq ChildPending(d)'
        OBVIOUS
      <4>1. CASE d = c
        BY <1>4, <1>8, <2>3, <2>5, <4>1 DEF ChildPending
      <4>2. CASE d # c
        BY <1>4, <2>3, <4>2 DEF ChildPending
      <4>3. QED
        BY <4>1, <4>2
    <3>2. CompositePending \subseteq CompositePending'
      BY <3>1 DEF CompositePending
    <3>3. CASE h = g
      <4>1. g \in ChildPending(c)'
        BY <1>3, <2>3, <2>4, <2>5 DEF ChildPending
      <4>2. QED
        BY <3>3, <4>1 DEF DocumentTells, CompositePending
    <3>4. CASE h # g
      BY <1>4, <1>5, <1>6, <2>1, <3>2, <3>4 DEF CompositeTells, DocumentTells
    <3>5. QED
      BY <3>3, <3>4
  <2>10. QED
    BY <1>7, <2>7, <2>8, <2>9 DEF CompositeTells
<1>11. CASE watch[c] \notin {"open", "sending"}
  <2>1. feed' = feed /\ missed' = missed \cup {g}
    BY <1>1, <1>11 DEF ChangeDocument
  <2>2. s = <<>> /\ held[c] = NoEvent
    BY <1>8, <1>9, <1>11 DEF FeedTells, Typed, InHand
  <2>3. FeedTells(c)' /\ HeldTells(c)'
    <3>1. DOMAIN s = {}
      BY <2>2
    <3>2. QED
      BY <1>4, <1>8, <2>1, <2>2, <3>1 DEF FeedTells, HeldTells
  <2>4. CompositePending' = CompositePending
    BY <1>4, <2>1 DEF CompositePending, ChildPending
  <2>5. \A h \in Hosts : DocumentTells(h)'
    BY <1>4, <1>5, <1>6, <2>1, <2>4 DEF CompositeTells, DocumentTells
  <2>6. QED
    BY <1>7, <2>3, <2>5 DEF CompositeTells
<1>12. QED
  BY <1>10, <1>11

LEMMA TailParts ==
  ASSUME NEW s \in Seq(Changed), s # <<>>
  PROVE  /\ 1 \in DOMAIN s /\ Head(s) = s[1]
         /\ \A i \in DOMAIN Tail(s) :
              i \in Nat /\ i + 1 \in DOMAIN s /\ Tail(s)[i] = s[i + 1]
         /\ \A i \in DOMAIN Tail(s) : Newest(Tail(s), i) => Newest(s, i + 1)
         /\ \A i \in DOMAIN s :
              i = 1 \/ (i - 1 \in DOMAIN Tail(s) /\ Tail(s)[i - 1] = s[i])
<1>1. PICK tl \in Seq(Changed) : tl = Tail(s)
  BY HeadTailProperties
<1>2. /\ DOMAIN s = 1 .. Len(s) /\ Len(s) \in Nat \ {0}
      /\ DOMAIN tl = 1 .. Len(s) - 1
      /\ Head(s) = s[1]
      /\ \A i \in 1 .. Len(s) - 1 : tl[i] = s[i + 1]
  BY <1>1
<1>3. \A i \in DOMAIN tl : i \in Nat /\ i + 1 \in DOMAIN s /\ tl[i] = s[i + 1]
  BY <1>2
<1>4. \A i \in DOMAIN s : i = 1 \/ (i - 1 \in DOMAIN tl /\ tl[i - 1] = s[i])
  <2> SUFFICES ASSUME NEW i \in DOMAIN s, i # 1
               PROVE  i - 1 \in DOMAIN tl /\ tl[i - 1] = s[i]
    OBVIOUS
  <2>1. i - 1 \in DOMAIN tl /\ (i - 1) + 1 = i
    BY <1>2
  <2>2. QED
    BY <1>3, <2>1
<1>5. \A i \in DOMAIN tl : Newest(tl, i) => Newest(s, i + 1)
  <2> SUFFICES ASSUME NEW i \in DOMAIN tl, Newest(tl, i),
                      NEW j \in DOMAIN s, s[j].host = s[i + 1].host
               PROVE  j <= i + 1
    BY DEF Newest
  <2>1. CASE j = 1
    BY <1>3, <2>1
  <2>2. CASE j # 1
    <3>1. j - 1 \in DOMAIN tl /\ tl[j - 1].host = tl[i].host
      BY <1>3, <1>4, <2>2
    <3>2. j - 1 <= i
      BY <3>1 DEF Newest
    <3>3. QED
      BY <1>2, <1>3, <3>2
  <2>3. QED
    BY <2>1, <2>2
<1>6. 1 \in DOMAIN s /\ Head(s) = s[1]
  BY <1>2
<1>7. QED
  BY <1>1, <1>3, <1>4, <1>5, <1>6

\* The children but one stay as they are.
LEMMA OtherChildren ==
  ASSUME CompositeTells, provider = "mongodb", NEW c \in Children, UNCHANGED routes,
         \A d \in Children : d # c =>
           feed'[d] = feed[d] /\ watch'[d] = watch[d] /\ held'[d] = held[d]
  PROVE  \A d \in Children : d # c =>
           FeedTells(d)' /\ HeldTells(d)' /\ ChildPending(d)' = ChildPending(d)
BY DEF CompositeTells, FeedTells, HeldTells, Newest, ChildPending

LEMMA ReturnTells ==
  ASSUME Typed, CompositeTells, provider = "mongodb", NEW c \in Children,
         ChildReturns(c), UNCHANGED <<provider, routes, served, read, listed>>
  PROVE  CompositeTells'
<1>1. /\ feed'[c] = <<>> /\ held'[c] = NoEvent /\ missed' = missed \cup ChildPending(c)
      /\ \A d \in Children : d # c =>
           feed'[d] = feed[d] /\ watch'[d] = watch[d] /\ held'[d] = held[d]
  BY DEF ChildReturns, Typed, TypeOK, CompositeTypes
<1>2. \A d \in Children : d # c =>
        FeedTells(d)' /\ HeldTells(d)' /\ ChildPending(d)' = ChildPending(d)
  BY <1>1, OtherChildren
<1>3. DOMAIN <<>> = {}
  OBVIOUS
<1>4. FeedTells(c)' /\ HeldTells(c)'
  BY <1>1, <1>3 DEF FeedTells, HeldTells
<1>5. \A h \in CompositePending : h \in missed' \/ h \in CompositePending'
  BY <1>1, <1>2 DEF CompositePending
<1>6. \A h \in Hosts : DocumentTells(h)'
  BY <1>1, <1>5, PlanKept DEF CompositeTells, DocumentTells
<1>7. QED
  BY <1>2, <1>4, <1>6 DEF CompositeTells

\* What a child takes from its stream it holds, unless an update is of a
\* document that is gone, and then the removal follows.
LEMMA DeliverTells ==
  ASSUME Typed, CompositeTells, provider = "mongodb", NEW c \in Children, Deliver(c)
  PROVE  CompositeTells'
<1>1. PICK s \in Seq(Changed) : s = feed[c] /\ s # <<>>
  BY ChildFacts DEF Deliver
<1>2. PICK tl \in Seq(Changed) : tl = Tail(s)
  BY <1>1, HeadTailProperties
<1>3. PICK chg \in Changed : chg = s[1]
  BY <1>1, TailParts
<1>4. PICK skip \in BOOLEAN : skip = (chg.lookup /\ Seen(chg) = Absent)
  OBVIOUS
<1>5. /\ feed' = [feed EXCEPT ![c] = tl]
      /\ held' = [held EXCEPT ![c] = IF skip THEN NoEvent
                                     ELSE [host |-> chg.host, to |-> Seen(chg)]]
      /\ watch' = [watch EXCEPT ![c] = IF skip THEN "open" ELSE "sending"]
      /\ watch[c] = "open"
      /\ UNCHANGED <<provider, routes, served, read, listed, missed>>
  BY <1>1, <1>2, <1>3, <1>4, TailParts DEF Deliver, consumerVars
<1>6. /\ feed'[c] = tl /\ watch'[c] \in {"open", "sending"}
      /\ held'[c] = IF skip THEN NoEvent ELSE [host |-> chg.host, to |-> Seen(chg)]
      /\ \A d \in Children : d # c =>
           feed'[d] = feed[d] /\ watch'[d] = watch[d] /\ held'[d] = held[d]
  BY <1>5 DEF Typed, TypeOK, CompositeTypes
<1>7. \A d \in Children : d # c =>
        FeedTells(d)' /\ HeldTells(d)' /\ ChildPending(d)' = ChildPending(d)
  BY <1>5, <1>6, OtherChildren
<1>8. FeedTells(c) /\ held[c] = NoEvent
  BY <1>5 DEF CompositeTells, Typed, InHand
<1>9. /\ 1 \in DOMAIN s
      /\ \A i \in DOMAIN tl : i \in Nat /\ i + 1 \in DOMAIN s /\ tl[i] = s[i + 1]
      /\ \A i \in DOMAIN tl : Newest(tl, i) => Newest(s, i + 1)
      /\ \A i \in DOMAIN s : i = 1 \/ (i - 1 \in DOMAIN tl /\ tl[i - 1] = s[i])
  BY <1>1, <1>2, TailParts
<1>10. \A i \in DOMAIN s :
         /\ CollectionOf[s[i].host] = c
         /\ s[i].lookup => s[i].to # Absent
         /\ Newest(s, i) => s[i].to = routes[s[i].host]
  BY <1>1, <1>8 DEF FeedTells
<1>11. FeedTells(c)'
  <2>1. \A i \in DOMAIN tl :
          /\ CollectionOf[tl[i].host] = c
          /\ tl[i].lookup => tl[i].to # Absent
          /\ Newest(tl, i) => tl[i].to = routes[tl[i].host]
    BY <1>9, <1>10
  <2>2. QED
    BY <1>5, <1>6, <2>1 DEF FeedTells
<1>12. \A x \in ChildPending(c) :
         x = chg.host \/ \E i \in DOMAIN tl : tl[i].host = x
  <2> SUFFICES ASSUME NEW x \in ChildPending(c)
               PROVE  x = chg.host \/ \E i \in DOMAIN tl : tl[i].host = x
    OBVIOUS
  <2>1. PICK i \in DOMAIN s : x = s[i].host
    BY <1>1, <1>8 DEF ChildPending
  <2>2. QED
    BY <1>3, <1>9, <2>1
<1>13. \A i \in DOMAIN tl : tl[i].host \in ChildPending(c)'
  BY <1>6 DEF ChildPending
<1>14. CASE \E i \in DOMAIN tl : tl[i].host = chg.host
  <2>1. HeldTells(c)'
    BY <1>3, <1>6, <1>9, <1>10, <1>14 DEF HeldTells
  <2>2. ChildPending(c) \subseteq ChildPending(c)'
    BY <1>12, <1>13, <1>14
  <2>3. CompositePending \subseteq CompositePending'
    BY <1>7, <2>2 DEF CompositePending
  <2>4. \A h \in Hosts : DocumentTells(h)'
    BY <1>5, <2>3, PlanKept DEF CompositeTells, DocumentTells
  <2>5. QED
    BY <1>7, <1>11, <2>1, <2>4 DEF CompositeTells
<1>15. CASE \A i \in DOMAIN tl : tl[i].host # chg.host
  <2>1. Newest(s, 1)
    <3>1. \A j \in DOMAIN s : s[j].host = s[1].host => j = 1
      BY <1>3, <1>9, <1>15
    <3>2. QED
      BY <3>1 DEF Newest
  <2>2. chg.to = routes[chg.host] /\ CollectionOf[chg.host] = c
        /\ (chg.lookup => chg.to # Absent)
    BY <1>3, <1>9, <1>10, <2>1
  <2>3. Seen(chg) = routes[chg.host] /\ ~skip
    BY <1>4, <2>2 DEF Seen
  <2>4. HeldTells(c)'
    BY <1>5, <1>6, <2>2, <2>3 DEF HeldTells
  <2>5. ChildPending(c) \subseteq ChildPending(c)'
    <3>1. held'[c].host = chg.host /\ held'[c] # NoEvent
      <4>1. Seen(chg) \in Routes
        BY <1>3, <1>1, TailParts, ChildFacts, <2>3
        DEF Deliver, Typed, TypeOK, ConsumerTypes, Changed
      <4>2. [host |-> chg.host, to |-> Seen(chg)] \in Events
        BY <1>3, <4>1, EventParts DEF Changed
      <4>3. QED
        BY <1>6, <2>3, <4>2, EventParts
    <3>2. chg.host \in ChildPending(c)'
      BY <3>1 DEF ChildPending
    <3>3. QED
      BY <1>12, <1>13, <3>2
  <2>6. CompositePending \subseteq CompositePending'
    BY <1>7, <2>5 DEF CompositePending
  <2>7. \A h \in Hosts : DocumentTells(h)'
    BY <1>5, <2>6, PlanKept DEF CompositeTells, DocumentTells
  <2>8. QED
    BY <1>7, <1>11, <2>4, <2>7 DEF CompositeTells
<1>16. QED
  BY <1>14, <1>15

\* What main takes from a child is what the document is, or more follows.
LEMMA ReceiveTells ==
  ASSUME Typed, CompositeTells, provider = "mongodb", NEW c \in Children, Receive(c)
  PROVE  CompositeTells'
<1>1. PICK e \in Events : e = held[c]
  BY ChildFacts DEF Receive, Typed, InHand
<1>2. /\ UNCHANGED <<provider, routes, read, listed, missed, feed>>
      /\ served' = [served EXCEPT ![e.host] = e.to] /\ read = 0
      /\ watch' = [watch EXCEPT ![c] = "open"]
      /\ held' = [held EXCEPT ![c] = NoEvent]
  BY <1>1 DEF Receive, Handles, Typed, TypeOK, ConsumerTypes
<1>3. /\ watch'[c] = "open" /\ held'[c] = NoEvent
      /\ \A d \in Children : d # c =>
           feed'[d] = feed[d] /\ watch'[d] = watch[d] /\ held'[d] = held[d]
  BY <1>2 DEF Typed, TypeOK, CompositeTypes
<1>4. \A d \in Children : d # c =>
        FeedTells(d)' /\ HeldTells(d)' /\ ChildPending(d)' = ChildPending(d)
  BY <1>2, <1>3, OtherChildren
<1>5. FeedTells(c)' /\ HeldTells(c)'
  BY <1>2, <1>3 DEF CompositeTells, FeedTells, HeldTells, Newest
<1>6. ASSUME NEW h \in Hosts PROVE Planned(h) = served[h] /\ Planned(h)' = served'[h]
  <2>1. ~(PartOf(h) <= 0) /\ PartOf(h)' = PartOf(h)
    BY <1>2, PartFacts DEF PartOf
  <2>2. QED
    BY <1>2, <2>1 DEF Planned
<1>7. ASSUME NEW h \in Hosts PROVE DocumentTells(h)'
  <2>1. CASE h # e.host
    <3>1. served'[h] = served[h]
      BY <1>2, <2>1 DEF Typed, TypeOK, ConsumerTypes
    <3>2. h \in ChildPending(c) => h \in ChildPending(c)'
      BY <1>1, <1>2, <2>1 DEF ChildPending
    <3>3. h \in CompositePending => h \in CompositePending'
      BY <1>4, <3>2 DEF CompositePending
    <3>4. QED
      BY <1>2, <1>6, <3>1, <3>3 DEF CompositeTells, DocumentTells
  <2>2. CASE h = e.host
    <3>1. e.to = routes[h] \/ h \in ChildPending(c)'
      BY <1>1, <1>2, <2>2, EventParts
      DEF CompositeTells, HeldTells, ChildPending
    <3>2. h \in ChildPending(c)' => h \in CompositePending'
      BY DEF CompositePending
    <3>3. served'[h] = e.to
      BY <1>2, <2>2 DEF Typed, TypeOK, ConsumerTypes
    <3>4. QED
      BY <1>2, <1>6, <3>1, <3>2, <3>3 DEF DocumentTells
  <2>3. QED
    BY <2>1, <2>2
<1>8. QED
  BY <1>4, <1>5, <1>7 DEF CompositeTells

LEMMA CompositeNextTells ==
  ASSUME Typed, CompositeTells, provider = "mongodb", CompositeNext
  PROVE  CompositeTells'
<1>1. ASSUME NEW c \in Children, ChildFails(c) \/ ChildEnds(c) \/ ChildStops(c)
      PROVE  CompositeTells'
  <2>1. ChildReturns(c) /\ UNCHANGED <<provider, routes, served, read, listed>>
    BY <1>1 DEF ChildFails, ChildEnds, ChildStops
  <2>2. QED
    BY <2>1, ReturnTells
<1>2. CASE CompositeReturns \/ DisableTrigger
  <2>1. UNCHANGED <<provider, routes, served, read, listed, missed, watch, feed, held>>
    BY <1>2 DEF CompositeReturns, DisableTrigger, consumerVars
  <2>2. QED
    BY <2>1, PlanKept, CompositeFrame
<1>3. ASSUME UNCHANGED <<provider, routes, served, read, listed, missed, feed, held>>,
             \A c \in Children : feed[c] # <<>> => watch'[c] = watch[c]
      PROVE  CompositeTells'
  <2>1. CompositePending' = CompositePending
    BY <1>3 DEF CompositePending, ChildPending
  <2>2. \A c \in Children : FeedTells(c)' /\ HeldTells(c)'
    BY <1>3 DEF CompositeTells, FeedTells, HeldTells, Newest
  <2>3. \A h \in Hosts : DocumentTells(h)'
    BY <1>3, <2>1, PlanKept DEF CompositeTells, DocumentTells
  <2>4. QED
    BY <1>3, <2>2, <2>3 DEF CompositeTells
<1>4. CASE StartChildren \/ \E c \in Children : OpenStream(c)
  <2>1. UNCHANGED <<provider, routes, served, read, listed, missed, feed, held>>
    BY <1>4 DEF StartChildren, OpenStream, consumerVars
  <2>2. \A c \in Children : feed[c] # <<>> => watch'[c] = watch[c]
    <3>1. \A c \in Children : feed[c] # <<>> => watch[c] \in {"open", "sending"}
      BY DEF CompositeTells, FeedTells
    <3>2. CASE StartChildren
      BY <3>1, <3>2 DEF StartChildren, Typed, InHand
    <3>3. ASSUME NEW d \in Children, OpenStream(d)
          PROVE  \A c \in Children : feed[c] # <<>> => watch'[c] = watch[c]
      BY <3>1, <3>3 DEF OpenStream, Typed, TypeOK, CompositeTypes
    <3>4. QED
      BY <1>4, <3>2, <3>3
  <2>3. QED
    BY <1>3, <2>1, <2>2
<1>5. QED
  BY <1>1, <1>2, <1>4, DocumentChanges, DeliverTells, ReceiveTells DEF CompositeNext

-----------------------------------------------------------------------------
(* Both together. *)

LEMMA OnlyHTTP ==
  ASSUME Typed, OneSource, provider = "http"
  PROVE  ~CompositeNext
<1>1. trigger = "off" /\ \A c \in Children : watch[c] = "off"
  BY DEF Typed, InHand, OneSource
<1>2. QED
  BY <1>1
  DEF CompositeNext, ChangeDocument, StartChildren, OpenStream, Deliver, Receive,
      ChildFails, ChildEnds, ChildStops, CompositeReturns, DisableTrigger

LEMMA OnlyComposite ==
  ASSUME OneSource, provider = "mongodb"
  PROVE  ~HTTPNext
<1>1. /\ \A t \in Terms : start[t] = "off"
      /\ \A r \in Requests : req[r] = NoEvent
  BY DEF OneSource
<1>2. QED
  BY <1>1
  DEF HTTPNext, StartHTTP, SelectOn, TakeEvent, Forward, Leave, Unset, Send,
      Post, ChangeRoute

LEMMA ProviderKept ==
  ASSUME [Next]_vars
  PROVE  provider' = provider
<1>1. CASE Cycle \/ NewTerm \/ Demoted \/ TermOver \/ Dies
  BY <1>1
  DEF Cycle, NewTerm, Demoted, TermOver, Dies, List, ListFails, Reconcile,
      StartTerm, LoseLeadership, Return, Crash
<1>2. CASE HTTPNext
  BY <1>2
  DEF HTTPNext, StartHTTP, SelectOn, TakeEvent, Forward, Leave, Unset, Send,
      Post, ChangeRoute, consumerVars
<1>3. CASE CompositeNext
  BY <1>3
  DEF CompositeNext, ChangeDocument, StartChildren, OpenStream, Deliver, Receive,
      ChildFails, ChildEnds, ChildStops, CompositeReturns, DisableTrigger,
      consumerVars
<1>4. CASE UNCHANGED vars
  BY <1>4 DEF vars, consumerVars
<1>5. QED
  BY <1>1, <1>2, <1>3, <1>4 DEF Next

LEMMA OneSourceKept ==
  ASSUME Typed, OneSource, [Next]_vars
  PROVE  OneSource'
<1>1. provider' = provider /\ provider \in {"http", "mongodb"}
  BY ProviderKept, ConsumerAssumption DEF Typed, TypeOK, ConsumerTypes
<1>2. CASE HTTPNext /\ UNCHANGED compositeVars
  BY <1>1, <1>2, OnlyComposite DEF OneSource, compositeVars
<1>3. CASE CompositeNext /\ UNCHANGED httpVars
  BY <1>1, <1>3, OnlyHTTP DEF OneSource, httpVars
<1>4. CASE Cycle \/ NewTerm \/ Demoted \/ TermOver \/ Dies \/ UNCHANGED vars
  <2>1. UNCHANGED trigger \/ trigger' = "off"
    BY <1>4
    DEF Cycle, NewTerm, Demoted, TermOver, Dies, vars, compositeVars, CompositeEnds
  <2>2. UNCHANGED <<start, chans, req>>
        \/ /\ \A t \in Terms : start'[t] = "off" /\ chans'[t] = <<>>
           /\ \A r \in Requests : req'[r] = NoEvent
    BY <1>4
    DEF Cycle, NewTerm, Demoted, TermOver, Dies, vars, httpVars, HTTPEnds
  <2>3. QED
    BY <1>1, <2>1, <2>2 DEF OneSource
<1>5. QED
  BY <1>2, <1>3, <1>4 DEF Next

LEMMA SourceInvInitially == Init => SourceInv
<1> SUFFICES ASSUME Init PROVE SourceInv
  OBVIOUS
<1>1. Typed
  BY TypedInitially
<1>2. OneSource
  BY DEF Init, HTTPIdle, CompositeIdle, OneSource
<1>3. HTTPTells
  BY DEF Init, ConsumerInit, HTTPTells, InFlightTells, InFlight, HostTells
<1>4. CompositeTells
  <2>1. \A c \in Children : feed[c] = <<>> /\ held[c] = NoEvent
    BY DEF Init, CompositeIdle
  <2>2. DOMAIN <<>> = {}
    OBVIOUS
  <2>3. QED
    BY <2>1, <2>2
    DEF Init, ConsumerInit, CompositeTells, FeedTells, HeldTells, DocumentTells
<1>5. QED
  BY <1>1, <1>2, <1>3, <1>4 DEF SourceInv

LEMMA SourceInvPreserved == SourceInv /\ [Next]_vars => SourceInv'
<1> SUFFICES ASSUME SourceInv, [Next]_vars PROVE SourceInv'
  OBVIOUS
<1>1. Typed /\ Typed' /\ OneSource /\ OneSource' /\ HTTPTells /\ CompositeTells
  BY TypedPreserved, OneSourceKept DEF SourceInv
<1>2. provider' = provider /\ provider \in {"http", "mongodb"}
  BY <1>1, ProviderKept, ConsumerAssumption DEF Typed, TypeOK, ConsumerTypes
<1>3. CASE provider = "http"
  <2>1. CompositeTells'
    BY <1>2, <1>3 DEF CompositeTells
  <2>2. CASE Cycle \/ NewTerm \/ Demoted \/ TermOver \/ Dies
    BY <1>1, <1>3, <2>1, <2>2, HTTPCycles DEF SourceInv
  <2>3. CASE HTTPNext
    BY <1>1, <1>3, <2>1, <2>3, HTTPNextTells DEF SourceInv
  <2>4. CASE UNCHANGED vars
    <3>1. UNCHANGED <<provider, routes, served, read, listed, missed, term, req>>
      BY <2>4 DEF vars, consumerVars, httpVars
    <3>2. Queue' = Queue
      BY <2>4 DEF vars, consumerVars, httpVars, Queue
    <3>3. HTTPTells'
      BY <1>1, <3>1, <3>2, PlanKept, HTTPFrame
    <3>4. QED
      BY <1>1, <2>1, <3>3 DEF SourceInv
  <2>5. QED
    BY <1>1, <1>3, <2>2, <2>3, <2>4, OnlyHTTP DEF Next
<1>4. CASE provider = "mongodb"
  <2>1. HTTPTells'
    BY <1>2, <1>4 DEF HTTPTells
  <2>2. CASE Cycle \/ NewTerm \/ Demoted \/ TermOver \/ Dies
    BY <1>1, <1>4, <2>1, <2>2, CompositeCycles DEF SourceInv
  <2>3. CASE CompositeNext
    BY <1>1, <1>4, <2>1, <2>3, CompositeNextTells DEF SourceInv
  <2>4. CASE UNCHANGED vars
    <3>1. UNCHANGED <<provider, routes, served, read, listed, missed, watch, feed, held>>
      BY <2>4 DEF vars, consumerVars, compositeVars
    <3>2. CompositeTells'
      BY <1>1, <3>1, PlanKept, CompositeFrame
    <3>3. QED
      BY <1>1, <2>1, <3>2 DEF SourceInv
  <2>5. QED
    BY <1>1, <1>4, <2>2, <2>3, <2>4, OnlyComposite DEF Next
<1>5. QED
  BY <1>2, <1>3, <1>4

LEMMA SourceInvAccounts == SourceInv => Accounted
<1> SUFFICES ASSUME SourceInv, NEW h \in Hosts,
                    h \notin missed, routes[h] # Refused, ~Coming(h)
             PROVE  Settled(h) = routes[h]
  BY DEF Accounted
<1> DEFINE about == {i \in DOMAIN Queue : Queue[i].host = h}
<1>1. provider \in {"http", "mongodb"}
  BY ConsumerAssumption DEF SourceInv, Typed, TypeOK, ConsumerTypes
<1>2. CASE provider = "http"
  <2>1. QueueTells(h)
    BY <1>2 DEF SourceInv, HTTPTells, HostTells, Coming
  <2>2. CASE about = {}
    <3>1. Settled(h) = Planned(h)
      BY <2>2 DEF Settled
    <3>2. \A i \in DOMAIN Queue : Queue[i].host # h
      BY <2>2
    <3>3. QED
      BY <2>1, <3>1, <3>2 DEF QueueTells, Tells
  <2>3. CASE about # {}
    <3>1. PICK n \in Nat : DOMAIN Queue = 1 .. n
      <4>1. CASE term = 0
        BY <4>1, <2>3 DEF Queue
      <4>2. CASE term # 0
        BY <4>2, QueueParts, LenProperties DEF SourceInv
      <4>3. QED
        BY <4>1, <4>2
    <3>2. about \in SUBSET (1 .. n)
      BY <3>1
    <3>3. \E i \in about : \A j \in about : j <= i
      <4> HIDE DEF about
      <4>1. QED
        BY <2>3, <3>2, GreatestIndex
    <3>4. PICK i : /\ i = CHOOSE k \in about : \A j \in about : j <= k
                   /\ i \in about /\ \A j \in about : j <= i
      BY <3>3
    <3>5. Settled(h) = Queue[i].to
      BY <2>3, <3>4 DEF Settled
    <3>6. Newest(Queue, i)
      BY <3>4 DEF Newest
    <3>7. QED
      BY <2>1, <3>4, <3>5, <3>6 DEF QueueTells, Tells
  <2>4. QED
    BY <2>2, <2>3
<1>3. CASE provider = "mongodb"
  <2>1. Planned(h) = routes[h]
    BY <1>3 DEF SourceInv, CompositeTells, DocumentTells, Coming
  <2>2. Queue = <<>>
    <3>1. CASE term = 0
      BY <3>1 DEF Queue
    <3>2. CASE term # 0
      <4>1. chans[term] = <<>> /\ fwd[term] = NoEvent
        BY <1>3, <3>2, CurrentTerm DEF SourceInv, OneSource, Typed, InHand
      <4>2. QED
        BY <3>2, <4>1, QueueParts DEF SourceInv
    <3>3. QED
      BY <3>1, <3>2
  <2>3. DOMAIN Queue = {}
    BY <2>2
  <2>4. about = {}
    BY <2>3
  <2>5. QED
    BY <2>1, <2>4 DEF Settled
<1>4. QED
  BY <1>1, <1>2, <1>3

\* Accounted holds in every state of every source: no change of a desired
\* route is lost on the way from the API's store or the collections to the
\* gateway but in the ways the code accepts.
THEOREM ChangesAccounted == Spec => []Accounted
BY SourceInvInitially, SourceInvPreserved, SourceInvAccounts, PTL DEF Spec
=============================================================================
