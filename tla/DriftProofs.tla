---------------------------- MODULE DriftProofs ----------------------------
(***************************************************************************)
(* NoSilentDrift of Orchestrator, for all constants: without leader        *)
(* election, with provisioner-log and documents that never exchange hosts, *)
(* a route differs from its document only while something that will        *)
(* repair it is under way, or after a failure that is accounted for.       *)
(***************************************************************************)
EXTENDS OrchestratorProofs

-----------------------------------------------------------------------------
(* Documents never exchange hosts, and routes are keyed by document. *)

OwnHost ==
  /\ \A d \in Docs : HostsOf[d] \subseteq Hosts
  /\ \A d, e \in Docs : d # e => HostsOf[d] \cap HostsOf[e] = {}

\* What d may carry.
Carried(d) == HostsOf[d] \cup {Absent}

\* Documents, changes, events, plans and routes carry hosts of their own.
OwnHosted ==
  /\ \A d \in Docs : db[d] \in Carried(d)
  /\ \A i \in DOMAIN feed :
       /\ feed[i].host \in Carried(feed[i].id)
       /\ feed[i].op = "delete" <=> feed[i].host = Absent
  /\ held # NoEvent => held.host \in Carried(held.id)
  /\ \A t \in Terms : ev[t] # NoEvent => ev[t].host \in Carried(ev[t].id)
  /\ \A th \in Threads : \A d \in Docs : plan[th].want[d] \in Carried(d)
  /\ \A id \in RouteIds :
       gw[id] # Unrouted => id \in Docs /\ gw[id].host \in HostsOf[id]

-----------------------------------------------------------------------------
(* The way of a change, from the stream to the gateway: whatever comes last *)
(* of what is said of a document says what the document is.                 *)

Queued(d) == \E i \in DOMAIN feed : feed[i].id = d

\* The change is not the last one of its document.
Followed(i) == \E j \in DOMAIN feed : j > i /\ feed[j].id = feed[i].id

FeedTells ==
  \A i \in DOMAIN feed : Followed(i) \/ feed[i].host = db[feed[i].id]

HeldTells == held # NoEvent => Queued(held.id) \/ held.host = db[held.id]

EventTells ==
  \A t \in Terms : ev[t] # NoEvent =>
    ev[t].id \in Pending \cup missed \/ ev[t].host = db[ev[t].id]

\* The documents have changed since they were listed, and it is known.
Known(d) == d \in Pending \cup InHand \cup missed

PlanTells ==
  \A th \in Threads : pc[th] \in {"listActual", "remove", "issue", "add"} =>
    \A d \in Docs : Known(d) \/ plan[th].want[d] = db[d]

\* After the removals no route is left with another host than its document's.
Removed ==
  \A th \in Threads : pc[th] \in {"issue", "add"} =>
    \A d \in Docs :
      d \in missed \/ gw[d] = Unrouted \/ gw[d].host = plan[th].want[d]

\* What is at its place only while something is under way.
Placed ==
  /\ feed # <<>> => watch \in {"open", "sending"}
  /\ held # NoEvent => watch = "sending"
  /\ \A t \in Terms :
       /\ ev[t] # NoEvent => pc[Main(t)] \in {"lock", "certify", "apply"}
       /\ pc[Main(t)] \in ReconcilePCs \cup {"start"} => watch = "none"
  /\ term = 0 => watch = "none"

DriftInv ==
  /\ OwnHosted /\ Placed
  /\ FeedTells /\ HeldTells /\ EventTells
  /\ PlanTells /\ Removed /\ NoSilentDrift

Setting == ~Elect /\ ~KeyByHost /\ OwnHost

Drift == PlanInv /\ DriftInv

-----------------------------------------------------------------------------
(* Facts about the way of a change. *)

\* What is on its way from the stream to the gateway.
LEMMA OnTheWay ==
  \A d : /\ d \in Pending <=> Queued(d) \/ (held # NoEvent /\ held.id = d)
         /\ d \in InHand <=> \E t \in Terms : ev[t] # NoEvent /\ ev[t].id = d
BY DEF Pending, InHand, Queued

\* The same after a step.
LEMMA OnTheWayNext ==
  \A d : /\ d \in Pending' <=> Queued(d)' \/ (held' # NoEvent /\ held'.id = d)
         /\ d \in InHand' <=> \E t \in Terms : ev'[t] # NoEvent /\ ev'[t].id = d
BY DEF Pending, InHand, Queued

\* Nothing on the way changes.
LEMMA SameWay ==
  ASSUME UNCHANGED <<feed, held, ev>>
  PROVE  Pending' = Pending /\ InHand' = InHand
BY DEF Pending, InHand

\* The stages of a goroutine in a cycle and of an event have different names.
LEMMA CycleStages ==
  \A th \in Threads :
    /\ pc[th] \in ReconcilePCs \ {"listDesired"} <=>
         pc[th] \in {"listActual", "remove", "issue", "add"}
    /\ pc[th] \in ReconcilePCs => pc[th] \in LockedPCs
BY DEF ReconcilePCs, LockedPCs

\* Only the document itself can ask for the hosts it may carry.
LEMMA NoneOther ==
  ASSUME OwnHost, NEW d \in Docs, NEW e \in Docs, NEW h \in HostsOf[d],
         h \in Carried(e)
  PROVE  d = e /\ h \in Hosts /\ h # Absent
BY GatewayAssumption DEF OwnHost, Carried

\* Documents, routes and what is on its way stay as they are.
LEMMA StandStill ==
  ASSUME Drift, UNCHANGED <<db, feed, gw, held, ev>>, missed \subseteq missed'
  PROVE  FeedTells' /\ HeldTells' /\ EventTells'
<1>1. Pending' = Pending
  BY SameWay
<1>2. QED
  BY <1>1 DEF Drift, DriftInv, FeedTells, HeldTells, EventTells, Queued, Followed

-----------------------------------------------------------------------------
(* A document changes. *)

\* A change goes to the stream, or on record.
LEMMA ChangeTells ==
  ASSUME Setting, Drift, NEW d \in Docs, NEW v \in HostsOf[d] \cup {Absent},
         Change(d, v)
  PROVE  DriftInv'
<1> USE DEF Setting, Drift, DriftInv
<1>1. /\ db' = [db EXCEPT ![d] = v]
      /\ UNCHANGED <<gw, pc, plan, ev, watch, held, term, leading>>
      /\ db \in [Docs -> Values]
  BY DEF Change, runVars, trigVars, PlanInv, TypeInv, TypeOK, Source
<1>2. /\ db'[d] = v
      /\ \A x \in Docs \ {d} : db'[x] = db[x]
  BY <1>1
<1>3. CASE watch \in {"open", "sending"}
  <2>1. PICK op \in {"write", "update", "delete"} :
          /\ op = "delete" <=> v = Absent
          /\ feed' = Append(feed, [id |-> d, op |-> op, host |-> v])
    BY <1>3 DEF Change
  <2>2. missed' = missed
    BY <1>3 DEF Change
  <2> DEFINE n == Len(feed) + 1
  <2>3. feed \in Seq(Changes)
    BY DEF PlanInv, TypeInv, TypeOK
  <2>4. /\ n \in Nat \ {0} /\ DOMAIN feed = 1 .. (n - 1) /\ DOMAIN feed' = 1 .. n
        /\ \A i \in DOMAIN feed : feed'[i] = feed[i]
        /\ feed'[n] = [id |-> d, op |-> op, host |-> v]
    <3>1. [id |-> d, op |-> op, host |-> v] \in [id : {d}, op : {op}, host : {v}]
      OBVIOUS
    <3>2. QED
      BY <2>1, <2>3
  <2> HIDE DEF n
  <2>5. feed'[n].id = d /\ feed'[n].op = op /\ feed'[n].host = v
    BY <2>4
  <2>6. \A i \in DOMAIN feed : i \in DOMAIN feed' /\ i # n /\ n > i
    BY <2>4
  <2>7. n \in DOMAIN feed' /\ \A i \in DOMAIN feed' : i # n => i \in DOMAIN feed
    BY <2>4
  <2>8. \A i \in DOMAIN feed : feed[i].id \in Docs
    <3>1. \A i \in DOMAIN feed : feed[i] \in Changes
      BY <2>3
    <3>2. QED
      BY <3>1 DEF Changes
  <2>9. OwnHosted'
    <3>1. \A x \in Docs : db'[x] \in Carried(x)
      BY <1>2 DEF OwnHosted, Carried
    <3>2. \A i \in DOMAIN feed' :
            /\ feed'[i].host \in Carried(feed'[i].id)
            /\ feed'[i].op = "delete" <=> feed'[i].host = Absent
      BY <2>1, <2>4, <2>5, <2>7 DEF OwnHosted, Carried
    <3>3. QED
      BY <1>1, <3>1, <3>2 DEF OwnHosted, Carried
  <2>10. Placed'
    BY <1>1, <1>3 DEF Placed
  <2>11. FeedTells'
    <3> SUFFICES ASSUME NEW i \in DOMAIN feed', ~Followed(i)'
                 PROVE  feed'[i].host = db'[feed'[i].id]
      BY DEF FeedTells
    <3>1. CASE i = n
      BY <1>2, <2>5, <3>1
    <3>2. CASE i # n
      <4>1. i \in DOMAIN feed /\ feed'[i] = feed[i]
        BY <2>4, <2>7, <3>2
      <4>2. feed[i].id # d
        BY <2>5, <2>6, <2>7, <4>1 DEF Followed
      <4>3. ~Followed(i)
        BY <2>4, <2>6, <4>1 DEF Followed
      <4>4. QED
        BY <1>2, <2>8, <4>1, <4>2, <4>3 DEF FeedTells
    <3>3. QED
      BY <3>1, <3>2
  <2>12. \A x : Queued(x) => Queued(x)'
    BY <2>4, <2>6 DEF Queued
  <2>13. Queued(d)'
    BY <2>5, <2>7 DEF Queued
  <2>14. HeldTells'
    <3>1. held # NoEvent => held.id \in Docs
      BY EventFields DEF PlanInv, TypeInv, TypeOK
    <3>2. QED
      BY <1>1, <1>2, <2>12, <2>13, <3>1 DEF HeldTells
  <2>15. /\ \A x : x \in Pending => x \in Pending'
         /\ d \in Pending' /\ InHand' = InHand
    BY <1>1, <2>12, <2>13, OnTheWay, OnTheWayNext DEF InHand
  <2>16. QED
    BY <1>1, <1>2, <2>2, <2>9, <2>10, <2>11, <2>14, <2>15
    DEF EventTells, PlanTells, Removed, NoSilentDrift, Known, RoutedHost,
        Reconciling, PlanInv, TypeInv, TypeOK, Events
<1>4. CASE watch \notin {"open", "sending"}
  <2>1. feed' = feed /\ missed' = missed \cup {d}
    BY <1>4 DEF Change
  <2>2. feed = <<>> /\ held = NoEvent
    BY <1>4 DEF Placed
  <2>3. Pending' = Pending /\ InHand' = InHand
    BY <1>1, <2>1, SameWay
  <2>4. OwnHosted'
    BY <1>1, <1>2, <2>1 DEF OwnHosted, Carried
  <2>5. Placed' /\ FeedTells' /\ HeldTells'
    BY <1>1, <2>1, <2>2 DEF Placed, FeedTells, HeldTells
  <2>6. EventTells'
    <3>1. \A t \in Terms : ev[t] # NoEvent => ev[t].id \in Docs
      BY EventFields DEF PlanInv, TypeInv, TypeOK
    <3>2. QED
      BY <1>1, <1>2, <2>1, <2>3, <3>1 DEF EventTells
  <2>7. PlanTells' /\ Removed' /\ NoSilentDrift'
    BY <1>1, <1>2, <2>1, <2>3
    DEF PlanTells, Removed, NoSilentDrift, Known, RoutedHost, Reconciling
  <2>8. QED
    BY <2>4, <2>5, <2>6, <2>7
<1>5. QED
  BY <1>3, <1>4

-----------------------------------------------------------------------------
(* The trigger. *)

\* The stream opens with nothing in it.
LEMMA OpenTells ==
  ASSUME Drift, OpenStream
  PROVE  DriftInv'
<1> USE DEF Drift, DriftInv
<1>1. /\ watch = "opening" /\ watch' = "open"
      /\ UNCHANGED <<db, feed, gw, pc, plan, ev, held, term, leading, missed>>
  BY DEF OpenStream, envVars, runVars
<1>2. Pending' = Pending /\ InHand' = InHand
  BY <1>1, SameWay
<1>3. Placed'
  BY <1>1 DEF Placed
<1>4. QED
  BY <1>1, <1>2, <1>3, StandStill
  DEF OwnHosted, PlanTells, Removed, NoSilentDrift, Known, RoutedHost, Reconciling

\* The last change of a document is not skipped.
LEMMA MapTells ==
  ASSUME Setting, Drift, feed # <<>>, ~Followed(1)
  PROVE  /\ Head(feed).id \in Docs
         /\ MapEvent(Head(feed)) # NoEvent
         /\ MapEvent(Head(feed)).id = Head(feed).id
         /\ MapEvent(Head(feed)).host = db[Head(feed).id]
<1> USE DEF Setting, Drift, DriftInv
<1> DEFINE c == Head(feed)
<1>1. feed \in Seq(Changes) /\ 1 \in DOMAIN feed /\ c = feed[1]
  BY DEF PlanInv, TypeInv, TypeOK
<1>2. c \in Changes
  BY <1>1
<1>3. c.id \in Docs
  BY <1>2 DEF Changes
<1>4. /\ c.host = db[c.id]
      /\ c.host \in Carried(c.id)
      /\ c.op = "delete" <=> c.host = Absent
  BY <1>1 DEF FeedTells, OwnHosted
<1>5. c.op # "delete" => db[c.id] \in Hosts
  BY <1>3, <1>4 DEF OwnHost, Carried
<1> HIDE DEF c
<1>6. MapEvent(c) = [id |-> c.id, host |-> db[c.id]]
  BY <1>4, <1>5 DEF MapEvent
<1>7. MapEvent(c) \in Events
  BY <1>3, <1>4, <1>5, <1>6 DEF Events
<1>8. MapEvent(c) # NoEvent
  BY <1>7, OrchestratorAssumption
<1>9. QED
  BY <1>3, <1>6, <1>8 DEF c

\* The next change leaves the stream, and another one of its document is in
\* it still, or the event says what the document is.
LEMMA DeliverTells ==
  ASSUME Setting, Drift, Deliver
  PROVE  DriftInv'
<1> USE DEF Setting, Drift, DriftInv
<1>0. PICK c : c = Head(feed)
  OBVIOUS
<1>1. /\ watch = "open" /\ feed # <<>>
      /\ feed' = Tail(feed) /\ held' = MapEvent(c)
      /\ watch' = IF held' = NoEvent THEN "open" ELSE "sending"
      /\ UNCHANGED <<db, gw, pc, plan, ev, term, leading, missed>>
  BY <1>0 DEF Deliver, runVars
<1>2. held = NoEvent
  BY <1>1 DEF Placed
<1>3. /\ feed \in Seq(Changes)
      /\ 1 \in DOMAIN feed /\ c = feed[1]
  BY <1>0, <1>1 DEF PlanInv, TypeInv, TypeOK
<1> DEFINE n == Len(feed)
<1>4. /\ n \in Nat \ {0} /\ DOMAIN feed = 1 .. n /\ DOMAIN feed' = 1 .. (n - 1)
      /\ \A i \in 1 .. (n - 1) : feed'[i] = feed[i + 1]
  BY <1>1, <1>3
<1>5. c \in Changes /\ c.id \in Docs
  <2>1. c \in Changes
    BY <1>3, <1>4
  <2>2. QED
    BY <2>1 DEF Changes
<1> HIDE DEF n
<1>6. Followed(1) => Queued(c.id)'
  <2> SUFFICES ASSUME NEW j \in DOMAIN feed, j > 1, feed[j].id = feed[1].id
               PROVE  Queued(c.id)'
    BY DEF Followed
  <2>1. j - 1 \in DOMAIN feed' /\ feed'[j - 1] = feed[j]
    BY <1>4
  <2>2. QED
    BY <1>3, <2>1 DEF Queued
<1>7. ~Followed(1) => /\ held' # NoEvent /\ held'.id = c.id
                      /\ held'.host = db[c.id]
  BY <1>0, <1>1, MapTells
<1>8. held' # NoEvent => held'.id = c.id /\ held'.host \in Carried(c.id)
  <2>1. /\ c.host \in Carried(c.id)
        /\ db[c.id] \in Carried(c.id)
    BY <1>3, <1>5 DEF OwnHosted
  <2>2. QED
    BY <1>1, <2>1 DEF MapEvent, Carried
<1>9. \A x : x \in Pending => x \in Pending'
  <2> SUFFICES ASSUME NEW x, Queued(x) PROVE x \in Pending'
    BY <1>2, OnTheWay
  <2>1. PICK i \in DOMAIN feed : feed[i].id = x
    BY DEF Queued
  <2>2. CASE i = 1
    BY <1>3, <1>6, <1>7, <2>1, <2>2, OnTheWayNext
  <2>3. CASE i # 1
    <3>1. i - 1 \in DOMAIN feed' /\ feed'[i - 1] = feed[i]
      BY <1>4, <2>3
    <3>2. QED
      BY <2>1, <3>1, OnTheWayNext DEF Queued
  <2>4. QED
    BY <2>2, <2>3
<1>10. OwnHosted'
  <2>1. \A i \in DOMAIN feed' : i + 1 \in DOMAIN feed /\ feed'[i] = feed[i + 1]
    BY <1>4
  <2>2. \A i \in DOMAIN feed' :
          /\ feed'[i].host \in Carried(feed'[i].id)
          /\ feed'[i].op = "delete" <=> feed'[i].host = Absent
    BY <2>1 DEF OwnHosted
  <2>3. QED
    BY <1>1, <1>8, <2>2 DEF OwnHosted
<1>11. Placed'
  BY <1>1 DEF Placed
<1>12. FeedTells'
  <2> SUFFICES ASSUME NEW i \in DOMAIN feed', ~Followed(i)'
               PROVE  feed'[i].host = db'[feed'[i].id]
    BY DEF FeedTells
  <2>1. i + 1 \in DOMAIN feed /\ feed'[i] = feed[i + 1]
    BY <1>4
  <2>2. ~Followed(i + 1)
    <3> SUFFICES ASSUME NEW j \in DOMAIN feed, j > i + 1,
                        feed[j].id = feed[i + 1].id
                 PROVE  FALSE
      BY DEF Followed
    <3>1. j - 1 \in DOMAIN feed' /\ feed'[j - 1] = feed[j] /\ j - 1 > i
      BY <1>4
    <3>2. QED
      BY <2>1, <3>1 DEF Followed
  <2>3. QED
    BY <1>1, <2>1, <2>2 DEF FeedTells
<1>13. HeldTells'
  BY <1>1, <1>6, <1>7, <1>8 DEF HeldTells
<1>14. InHand' = InHand
  BY <1>1 DEF InHand
<1>15. QED
  BY <1>1, <1>9, <1>10, <1>11, <1>12, <1>13, <1>14
  DEF EventTells, PlanTells, Removed, NoSilentDrift, Known, RoutedHost,
      Reconciling

\* The stream breaks, and what was in it goes on record.
LEMMA TriggerFailsTells ==
  ASSUME Drift, TriggerFails
  PROVE  DriftInv'
<1> USE DEF Drift, DriftInv
<1>1. /\ watch \in {"opening", "open"} /\ watch' = "failed" /\ feed' = <<>>
      /\ missed' = missed \cup Pending
      /\ UNCHANGED <<db, gw, pc, plan, ev, held, term, leading>>
  BY DEF TriggerFails, runVars
<1>2. held = NoEvent
  BY <1>1 DEF Placed
<1>3. InHand' = InHand
  BY <1>1 DEF InHand
<1>4. Placed'
  BY <1>1, <1>2 DEF Placed
<1>5. QED
  BY <1>1, <1>2, <1>3, <1>4
  DEF OwnHosted, FeedTells, HeldTells, EventTells, PlanTells, Removed,
      NoSilentDrift, Known, RoutedHost, Reconciling

-----------------------------------------------------------------------------
(* The process ends, and starts. *)

\* The process dies, and everything is on record.
LEMMA ProcessEndsTells ==
  ASSUME Setting, Drift, ProcessEnds
  PROVE  DriftInv'
<1> USE DEF Setting, Drift, DriftInv
<1>1. /\ term' = 0 /\ feed' = <<>> /\ held' = NoEvent /\ watch' = "none"
      /\ db' = db /\ gw' = NoRoutes /\ missed' = Docs
      /\ \A t \in Terms : ev'[t] = NoEvent
      /\ \A th \in Threads : pc'[th] = "off" /\ plan'[th] = NoPlan
  BY DEF ProcessEnds
<1>2. OwnHosted'
  BY <1>1 DEF OwnHosted, NoPlan, NoRoutes, Carried
<1>3. Placed'
  BY <1>1, ThreadsOfTerms DEF Placed, ReconcilePCs
<1>4. QED
  BY <1>1, <1>2, <1>3
  DEF FeedTells, HeldTells, EventTells, PlanTells, Removed, NoSilentDrift

\* The process starts with nothing under way.
LEMMA StartTermTells ==
  ASSUME Drift, StartTerm
  PROVE  DriftInv'
<1> USE DEF Drift, DriftInv
<1>1. /\ UNCHANGED <<db, feed, gw, plan, ev, held, missed, watch>>
      /\ \/ term = 0
         \/ term > 0 /\ term < MaxTerm /\ pc[Main(term)] = "returned"
      /\ term' = term + 1
      /\ pc' = [pc EXCEPT ![Main(term + 1)] = "listDesired"]
  BY DEF StartTerm, goto, envVars, trigVars
<1>2. pc \in [Threads -> PCs] /\ term \in 0 .. MaxTerm
  BY DEF PlanInv, TypeInv, TypeOK
<1>3. term > 0 => term \in Terms
  BY <1>2, OrchestratorAssumption DEF Terms
<1>4. term = 0
  BY <1>1, <1>2, <1>3, ThreadsOfTerms DEF PlanInv, Exclusive
<1>5. watch = "none" /\ feed = <<>> /\ held = NoEvent
  BY <1>4 DEF Placed
<1>6. \A t \in Terms : pc[Main(t)] = "off" /\ ev[t] = NoEvent
  <2> SUFFICES ASSUME NEW t \in Terms, pc[Main(t)] # "off" PROVE FALSE
    BY DEF Placed
  <2>1. t = 0
    BY <1>4, ThreadsOfTerms, ThreadParts DEF PlanInv, Exclusive
  <2>2. QED
    BY <2>1, OrchestratorAssumption DEF Terms
<1>7. Placed'
  BY <1>1, <1>2, <1>5, <1>6, ThreadsOfTerms DEF Placed
<1>8. \A th \in Threads :
        /\ pc'[th] \in {"listActual", "remove", "issue", "add"} => pc'[th] = pc[th]
        /\ pc[th] \in {"listActual", "remove", "issue", "add"} =>
             pc'[th] = pc[th] \/ th = Main(1)
  BY <1>1, <1>2, <1>4
<1>9. 1 \in Terms /\ Main(1) \in Threads /\ pc[Main(1)] = "off"
  BY <1>6, ThreadsOfTerms, OrchestratorAssumption DEF Terms
<1>10. Pending' = Pending /\ InHand' = InHand
  BY <1>1, SameWay
<1>11. PlanTells' /\ Removed' /\ NoSilentDrift'
  BY <1>1, <1>8, <1>9, <1>10, CycleStages
  DEF PlanTells, Removed, NoSilentDrift, Known, RoutedHost, Reconciling,
      ReconcilePCs
<1>12. QED
  BY <1>1, <1>7, <1>11, StandStill DEF OwnHosted

-----------------------------------------------------------------------------
(* The steps of run and reconcileLoop that leave the gateway alone. *)

\* The trigger's goroutine and the loop start with nothing under way.
LEMMA StartServicesTells ==
  ASSUME Drift, NEW t \in Terms, StartServices(t)
  PROVE  DriftInv'
<1> USE DEF Drift, DriftInv
<1>1. /\ pc[Main(t)] = "start" /\ watch' = "opening"
      /\ pc' = [pc EXCEPT ![Main(t)] = "select",
                          ![Loop(t)] = IF Periodic THEN "wait" ELSE "off"]
      /\ UNCHANGED <<db, feed, gw, plan, ev, held, term, leading, missed>>
  BY DEF StartServices, envVars, runVars
<1>2. pc \in [Threads -> PCs]
  BY DEF PlanInv, TypeInv, TypeOK
<1>3. watch = "none" /\ feed = <<>> /\ held = NoEvent
  BY <1>1 DEF Placed
<1>4. t = term /\ \A u \in Terms : pc[Main(u)] # "off" => u = t
  BY <1>1, ThreadsOfTerms, ThreadParts DEF PlanInv, Exclusive
<1>5. pc[Loop(t)] = "off"
  BY <1>1 DEF PlanInv, Exclusive
<1>6. Placed'
  <2>1. ev[t] = NoEvent
    BY <1>1 DEF Placed
  <2>2. \A u \in Terms : u # t => pc'[Main(u)] = "off"
    BY <1>1, <1>2, <1>4, ThreadsOfTerms, ThreadNames
  <2>3. pc'[Main(t)] = "select"
    BY <1>1, <1>2, ThreadsOfTerms, ThreadNames
  <2>4. \A u \in Terms : ev[u] # NoEvent => u = t
    BY <1>4 DEF Placed
  <2>5. term' # 0
    BY <1>1, <1>4, OrchestratorAssumption DEF Terms
  <2>6. QED
    BY <1>1, <1>3, <2>1, <2>2, <2>3, <2>4, <2>5 DEF Placed, ReconcilePCs
<1>7. \A th \in Threads :
        pc'[th] \in ReconcilePCs \/ pc[th] \in ReconcilePCs => pc'[th] = pc[th]
  BY <1>1, <1>2, <1>5, ThreadsOfTerms, ThreadNames DEF ReconcilePCs
<1>8. Pending' = Pending /\ InHand' = InHand
  BY <1>1, SameWay
<1>9. PlanTells' /\ Removed' /\ NoSilentDrift'
  BY <1>1, <1>7, <1>8, CycleStages
  DEF PlanTells, Removed, NoSilentDrift, Known, RoutedHost, Reconciling,
      ReconcilePCs
<1>10. QED
  BY <1>1, <1>6, <1>9, StandStill DEF OwnHosted

\* main takes the event from the trigger.
LEMMA ReceiveTells ==
  ASSUME Drift, NEW t \in Terms, Receive(t)
  PROVE  DriftInv'
<1> USE DEF Drift, DriftInv
<1>1. /\ pc[Main(t)] = "select" /\ watch = "sending" /\ watch' = "open"
      /\ pc' = [pc EXCEPT ![Main(t)] = "lock"]
      /\ ev' = [ev EXCEPT ![t] = held] /\ held' = NoEvent
      /\ UNCHANGED <<db, feed, gw, plan, term, leading, missed>>
  BY DEF Receive, goto, envVars, runVars
<1>2. pc \in [Threads -> PCs] /\ ev \in [Terms -> Events \cup {NoEvent}]
  BY DEF PlanInv, TypeInv, TypeOK
<1>3. ev[t] = NoEvent /\ ev'[t] = held
  BY <1>1, <1>2 DEF Placed
<1>4. \A u \in Terms : u # t => ev'[u] = ev[u]
  BY <1>1, <1>2
<1>5. \A x : x \in Pending \cup InHand <=> x \in Pending' \cup InHand'
  BY <1>1, <1>3, <1>4, OnTheWay, OnTheWayNext DEF Queued
<1>6. held \in Events /\ held # NoEvent
  BY <1>1, OrchestratorAssumption DEF PlanInv, TypeInv, Consistent
<1>7. \A x : Queued(x)' <=> Queued(x)
  BY <1>1 DEF Queued
<1>8. \A th \in Threads :
        pc'[th] \in ReconcilePCs \/ pc[th] \in ReconcilePCs => pc'[th] = pc[th]
  BY <1>1, <1>2 DEF ReconcilePCs
<1>9. OwnHosted'
  BY <1>1, <1>3, <1>4 DEF OwnHosted
<1>10. Placed'
  BY <1>1, <1>2, <1>4, ThreadsOfTerms, ThreadNames DEF Placed, ReconcilePCs
<1>11. FeedTells' /\ HeldTells'
  BY <1>1 DEF FeedTells, HeldTells, Followed
<1>12. EventTells'
  <2> SUFFICES ASSUME NEW u \in Terms, ev'[u] # NoEvent,
                      ev'[u].id \notin Pending' \cup missed'
               PROVE  ev'[u].host = db'[ev'[u].id]
    BY DEF EventTells
  <2>1. CASE u = t
    BY <1>1, <1>3, <1>7, <2>1, OnTheWayNext DEF HeldTells
  <2>2. CASE u # t
    <3>1. PICK x : x = ev[u].id
      OBVIOUS
    <3>2. CASE held.id = x
      <4>1. pc[Main(u)] # "off" /\ pc[Main(t)] # "off"
        BY <1>1, <1>4, <2>2 DEF Placed
      <4>2. u = t
        BY <4>1, ThreadsOfTerms, ThreadParts DEF PlanInv, Exclusive
      <4>3. QED
        BY <2>2, <4>2
    <3>3. CASE held.id # x
      BY <1>1, <1>4, <1>7, <2>2, <3>1, <3>3, OnTheWay, OnTheWayNext
      DEF EventTells
    <3>4. QED
      BY <3>2, <3>3
  <2>3. QED
    BY <2>1, <2>2
<1>13. PlanTells' /\ Removed' /\ NoSilentDrift'
  BY <1>1, <1>5, <1>8, CycleStages
  DEF PlanTells, Removed, NoSilentDrift, Known, RoutedHost, Reconciling,
      ReconcilePCs
<1>14. QED
  BY <1>9, <1>10, <1>11, <1>12, <1>13

\* Waiting for the mutex, taking it, and giving the trigger up.
LEMMA WaitTells ==
  ASSUME Drift, NEW th \in Threads, NEW label \in PCs,
         UNCHANGED <<db, feed, gw, ev, held, term, leading, missed>>,
         \A x \in Threads : plan'[x].want = plan[x].want,
         pc' = [pc EXCEPT ![th] = label],
         {pc[th], label} \cap {"listActual", "remove", "issue", "add"} = {},
         watch' = watch \/ (watch = "failed" /\ watch' = "gone"),
         th[1] = "main" =>
           \/ label = pc[th]
           \/ pc[th] = "lock" /\ label \in {"certify", "apply"}
           \/ pc[th] = "certify" /\ label = "apply"
  PROVE  DriftInv'
<1> USE DEF Drift, DriftInv
<1>1. pc \in [Threads -> PCs]
  BY DEF PlanInv, TypeInv, TypeOK
<1>2. \A x \in Threads :
        pc'[x] \in {"listActual", "remove", "issue", "add"} \/
        pc[x] \in {"listActual", "remove", "issue", "add"} => pc'[x] = pc[x]
  BY <1>1
<1>3. Pending' = Pending /\ InHand' = InHand
  BY SameWay
<1>4. Placed'
  <2>1. \A t \in Terms :
          \/ pc'[Main(t)] = pc[Main(t)]
          \/ pc[Main(t)] = "lock" /\ pc'[Main(t)] \in {"certify", "apply"}
          \/ pc[Main(t)] = "certify" /\ pc'[Main(t)] = "apply"
    BY <1>1, ThreadsOfTerms, ThreadParts
  <2>2. QED
    BY <2>1 DEF Placed, ReconcilePCs
<1>5. PlanTells' /\ Removed' /\ NoSilentDrift'
  BY <1>2, <1>3, CycleStages
  DEF PlanTells, Removed, NoSilentDrift, Known, RoutedHost, Reconciling,
      ReconcilePCs
<1>6. QED
  BY <1>4, <1>5, StandStill DEF OwnHosted

LEMMA LoopTells ==
  ASSUME Setting, Drift, NEW t \in Terms, LoopStep(t)
  PROVE  DriftInv'
<1>1. /\ UNCHANGED <<db, feed, gw, plan, ev, held, term, leading, missed, watch>>
      /\ \E label \in {"lock", "listDesired", "off"} :
           pc' = [pc EXCEPT ![Loop(t)] = label]
      /\ pc[Loop(t)] \in {"wait", "lock"}
  BY DEF LoopStep, Tick, LockCycle, Exit, goto, envVars, runVars, trigVars
<1>2. PICK label \in {"lock", "listDesired", "off"} :
        pc' = [pc EXCEPT ![Loop(t)] = label]
  BY <1>1
<1>3. label \in PCs
  BY DEF PCs, LockedPCs, ReconcilePCs
<1>4. {pc[Loop(t)], label} \cap {"listActual", "remove", "issue", "add"} = {}
  BY <1>1
<1>5. Loop(t) \in Threads /\ Loop(t)[1] # "main"
  BY ThreadsOfTerms, ThreadParts
<1>6. QED
  BY <1>1, <1>2, <1>3, <1>4, <1>5, WaitTells

\* main takes the mutex for its event, or reads the trigger's error.
LEMMA LockTells ==
  ASSUME Drift, NEW t \in Terms, LockEvent(t) \/ DisableTrigger(t)
  PROVE  DriftInv'
<1>1. CASE LockEvent(t)
  <2>1. /\ UNCHANGED <<db, feed, gw, plan, ev, held, term, leading, missed, watch>>
        /\ pc[Main(t)] = "lock"
    BY <1>1 DEF LockEvent, envVars, runVars, trigVars
  <2>2. PICK label \in {"certify", "apply"} : pc' = [pc EXCEPT ![Main(t)] = label]
    BY <1>1 DEF LockEvent, goto
  <2>3. label \in PCs
    BY DEF PCs, LockedPCs
  <2>4. {pc[Main(t)], label} \cap {"listActual", "remove", "issue", "add"} = {}
    BY <2>1
  <2>5. QED
    BY <2>1, <2>2, <2>3, <2>4, ThreadsOfTerms, WaitTells
<1>2. CASE DisableTrigger(t)
  <2>1. /\ UNCHANGED <<db, feed, gw, plan, ev, held, term, leading, missed, pc>>
        /\ pc[Main(t)] = "select" /\ watch = "failed" /\ watch' = "gone"
    BY <1>2 DEF DisableTrigger, envVars, runVars
  <2>2. "select" \in PCs /\ pc' = [pc EXCEPT ![Main(t)] = "select"]
    BY <2>1 DEF Drift, PlanInv, TypeInv, TypeOK, PCs
  <2>3. {pc[Main(t)], "select"} \cap {"listActual", "remove", "issue", "add"} = {}
    BY <2>1
  <2>4. QED
    BY <2>1, <2>2, <2>3, ThreadsOfTerms, WaitTells
<1>3. QED
  BY <1>1, <1>2

-----------------------------------------------------------------------------
(* The handling of an event. *)

\* Nobody but main is in handleEvent or at work on the gateway.
LEMMA EventAlone ==
  ASSUME Drift, NEW t \in Terms, pc[Main(t)] \in {"certify", "apply"}
  PROVE  /\ \A th \in Threads : pc[th] \notin ReconcilePCs
         /\ \A u \in Terms : ev[u] # NoEvent => u = t
         /\ ev[t] \in Events /\ ev[t] # NoEvent
<1> USE DEF Drift, DriftInv
<1>1. pc[Main(t)] \in LockedPCs
  BY DEF LockedPCs
<1>2. \A th \in Threads : pc[th] \notin ReconcilePCs
  <2>1. \A th \in Threads \ {Main(t)} : pc[th] \notin LockedPCs
    BY <1>1, ThreadsOfTerms, OneAtWork DEF PlanInv
  <2>2. QED
    BY <2>1 DEF LockedPCs, ReconcilePCs
<1>3. \A u \in Terms : ev[u] # NoEvent => u = t
  <2> SUFFICES ASSUME NEW u \in Terms, ev[u] # NoEvent PROVE u = t
    OBVIOUS
  <2>1. pc[Main(u)] # "off" /\ pc[Main(t)] # "off"
    BY DEF Placed
  <2>2. QED
    BY <2>1, ThreadsOfTerms, ThreadParts DEF PlanInv, Exclusive
<1>4. ev[t] \in Events /\ ev[t] # NoEvent
  BY OrchestratorAssumption DEF PlanInv, TypeInv, Consistent
<1>5. QED
  BY <1>2, <1>3, <1>4

\* handleEvent returns, with the route in its place or the loss on record.
LEMMA EventEnds ==
  ASSUME Drift, NEW t \in Terms, pc[Main(t)] \in {"certify", "apply"},
         EndEvent(t), NEW d \in Docs, d = ev[t].id,
         UNCHANGED <<db, feed, held, term, leading, watch>>,
         missed \subseteq missed',
         gw' \in GatewayTable,
         \A id \in RouteIds \ {d} : gw'[id] = gw[id],
         \/ gw' = gw /\ d \in missed'
         \/ RoutedHost(d)' = ev[t].host
  PROVE  DriftInv'
<1> USE DEF Drift, DriftInv
<1>1. /\ pc' = [pc EXCEPT ![Main(t)] = "select"]
      /\ plan' = [plan EXCEPT ![Main(t)] = NoPlan]
      /\ ev' = [ev EXCEPT ![t] = NoEvent]
  BY DEF EndEvent, goto
<1>2. /\ pc \in [Threads -> PCs] /\ plan \in [Threads -> Plan]
      /\ ev \in [Terms -> Events \cup {NoEvent}]
  BY DEF PlanInv, TypeInv, TypeOK
<1>4. \A u \in Terms : ev'[u] = NoEvent
  BY <1>1, <1>2, EventAlone
<1>5. \A th \in Threads : pc'[th] \notin ReconcilePCs
  BY <1>1, <1>2, EventAlone DEF ReconcilePCs
<1>6. OwnHosted'
  <2>1. \A th \in Threads : \A x \in Docs : plan'[th].want[x] \in Carried(x)
    BY <1>1, <1>2 DEF OwnHosted, NoPlan, Carried
  <2>2. \A id \in RouteIds :
          gw'[id] # Unrouted => id \in Docs /\ gw'[id].host \in HostsOf[id]
    <3> SUFFICES ASSUME NEW id \in RouteIds, gw'[id] # Unrouted, gw' # gw
                 PROVE  id \in Docs /\ gw'[id].host \in HostsOf[id]
      BY DEF OwnHosted
    <3>1. CASE id = d
      <4>1. gw'[id].host = ev[t].host
        BY <3>1 DEF RoutedHost
      <4>2. gw'[id].host # Absent
        BY GatewayAssumption DEF GatewayTable, Entry
      <4>3. ev[t].host \in Carried(d)
        BY EventAlone DEF OwnHosted
      <4>4. QED
        BY <3>1, <4>1, <4>2, <4>3 DEF Carried
    <3>2. CASE id # d
      BY <3>2 DEF OwnHosted
    <3>3. QED
      BY <3>1, <3>2
  <2>3. QED
    BY <1>4, <2>1, <2>2 DEF OwnHosted
<1>7. Placed'
  <2>1. \A u \in Terms : pc'[Main(u)] \notin ReconcilePCs \cup {"start"}
    <3> SUFFICES ASSUME NEW u \in Terms, pc'[Main(u)] = "start" PROVE FALSE
      BY <1>5, ThreadsOfTerms
    <3>1. pc[Main(u)] = "start" /\ u # t
      BY <1>1, <1>2, ThreadsOfTerms
    <3>2. u = t
      BY <3>1, ThreadsOfTerms, ThreadParts DEF PlanInv, Exclusive
    <3>3. QED
      BY <3>1, <3>2
  <2>2. QED
    BY <1>4, <2>1 DEF Placed
<1>8. FeedTells' /\ HeldTells' /\ EventTells'
  BY <1>4 DEF FeedTells, HeldTells, EventTells, Queued, Followed
<1>9. NoSilentDrift'
  <2> SUFFICES ASSUME NEW x \in Docs, x \notin Pending', x \notin missed'
               PROVE  RoutedHost(x)' = db[x]
    BY DEF NoSilentDrift
  <2>1. x \notin Pending /\ x \notin missed
    BY DEF Pending
  <2>2. CASE x = d
    BY <2>1, <2>2, EventAlone DEF EventTells
  <2>3. CASE x # d
    <3>1. x \notin InHand
      BY <2>3, EventAlone, OnTheWay
    <3>2. ~Reconciling
      BY EventAlone DEF Reconciling
    <3>3. RoutedHost(x)' = RoutedHost(x)
      BY <2>3 DEF RoutedHost, RouteIds
    <3>4. QED
      BY <2>1, <3>1, <3>2, <3>3 DEF NoSilentDrift
  <2>4. QED
    BY <2>2, <2>3
<1>10. PlanTells' /\ Removed'
  BY <1>5 DEF PlanTells, Removed, ReconcilePCs
<1>11. QED
  BY <1>6, <1>7, <1>8, <1>9, <1>10

LEMMA EventTellsOn ==
  ASSUME Setting, Drift, NEW t \in Terms, Certify(t) \/ Apply(t)
  PROVE  DriftInv'
<1> USE DEF Setting, Drift, DriftInv
<1>1. pc[Main(t)] \in {"certify", "apply"}
  BY DEF Certify, Apply
<1>2. /\ gw \in GatewayTable /\ plan \in [Threads -> Plan]
      /\ pc \in [Threads -> PCs]
  BY DEF PlanInv, TypeInv, TypeOK
<1>3. PICK d \in Docs : d = ev[t].id /\ ev[t].host \in Hosts \cup {Absent}
  BY <1>1, EventAlone, EventFields
<1>4. CASE ProcessEnds
  BY <1>4, ProcessEndsTells
<1>5. CASE Certify(t) /\ ~ProcessEnds
  <2>1. CASE /\ plan' = [plan EXCEPT ![Main(t)].certs = {ev[t].host}]
             /\ goto(Main(t), "apply")
             /\ UNCHANGED <<envVars, gw, issuer, runVars, mu, ev, trigVars,
                            changes, faults, missed>>
    <3>1. \A x \in Threads : plan'[x].want = plan[x].want
      BY <1>2, <2>1 DEF Plan
    <3>2. "apply" \in PCs /\ pc[Main(t)] = "certify"
      BY <1>5 DEF PCs, LockedPCs, Certify
    <3>3. {pc[Main(t)], "apply"} \cap {"listActual", "remove", "issue", "add"} = {}
      BY <3>2
    <3>4. QED
      BY <2>1, <3>1, <3>2, <3>3, ThreadsOfTerms, WaitTells
      DEF goto, envVars, runVars, trigVars
  <2>2. CASE /\ missed' = missed \cup {ev[t].id}
             /\ EndEvent(t)
             /\ UNCHANGED <<envVars, gw, issuer, runVars, trigVars, changes>>
    BY <1>1, <1>2, <1>3, <2>2, EventEnds DEF envVars, runVars, trigVars
  <2>3. QED
    BY <1>5, <2>1, <2>2 DEF Certify
<1>6. CASE Apply(t)
  <2>1. /\ EndEvent(t)
        /\ UNCHANGED <<db, feed, held, term, leading, watch>>
    BY <1>6 DEF Apply, envVars, runVars, trigVars
  <2>2. CASE missed' = missed \cup {ev[t].id} /\ gw' = gw
    BY <1>1, <1>2, <1>3, <2>1, <2>2, EventEnds
  <2>3. CASE /\ gw' = IF ev[t].host = Absent
                        THEN Deprovision(gw, ev[t].id)
                        ELSE Provision(gw, ev[t].id, ev[t].host,
                                       ev[t].host \in plan[Main(t)].certs)
             /\ UNCHANGED <<faults, missed>>
    <3> DEFINE cert == ev[t].host \in plan[Main(t)].certs
    <3>1. cert \in BOOLEAN /\ d \in RouteIds
      BY DEF RouteIds
    <3>2. gw' = IF ev[t].host = Absent THEN Deprovision(gw, d)
                                       ELSE Provision(gw, d, ev[t].host, cert)
      BY <1>3, <2>3
    <3> HIDE DEF cert
    <3>3. CASE ev[t].host = Absent
      <4>1. /\ gw' \in GatewayTable /\ gw'[d] = Unrouted
            /\ \A id \in RouteIds \ {d} : gw'[id] = gw[id]
        BY <1>2, <3>1, <3>2, <3>3 DEF Deprovision, GatewayTable
      <4>2. RoutedHost(d)' = ev[t].host
        BY <3>3, <4>1 DEF RoutedHost
      <4>3. QED
        BY <1>1, <1>3, <2>1, <2>3, <4>1, <4>2, EventEnds
    <3>4. CASE ev[t].host # Absent
      <4>1. ev[t].host \in Hosts
        BY <1>3, <3>4
      <4>2. gw' = [gw EXCEPT ![d] = [host |-> ev[t].host, cert |-> cert]]
        BY <3>2, <3>4 DEF Provision, RouteID
      <4>3. [host |-> ev[t].host, cert |-> cert] \in Entry
        BY <3>1, <4>1 DEF Entry
      <4>4. /\ gw' \in GatewayTable
            /\ gw'[d] = [host |-> ev[t].host, cert |-> cert]
            /\ \A id \in RouteIds \ {d} : gw'[id] = gw[id]
        BY <1>2, <3>1, <4>2, <4>3 DEF GatewayTable
      <4>5. gw'[d] # Unrouted /\ gw'[d].host = ev[t].host
        BY <4>3, <4>4, GatewayAssumption DEF Entry
      <4>6. RoutedHost(d)' = ev[t].host
        BY <4>5 DEF RoutedHost
      <4>7. QED
        BY <1>1, <1>3, <2>1, <2>3, <4>4, <4>6, EventEnds
    <3>5. QED
      BY <3>3, <3>4
  <2>4. QED
    BY <1>6, <2>2, <2>3 DEF Apply
<1>7. QED
  BY <1>4, <1>5, <1>6

-----------------------------------------------------------------------------
(* The steps of a cycle. *)

\* Routes and documents with hosts of their own.
OwnRoutes(g) ==
  \A id \in RouteIds : g[id] # Unrouted => id \in Docs /\ g[id].host \in HostsOf[id]

OwnWant(want) == want \in Source /\ \A d \in Docs : want[d] \in Carried(d)

\* The host g has for d, and that this is no other than want's.
HostIn(g, d) == IF g[d] = Unrouted THEN Absent ELSE g[d].host

Fits(g, want, d) == g[d] = Unrouted \/ g[d].host = want[d]

\* A host of d's that some document asks for is the one that d asks for.
LEMMA WantOwner ==
  ASSUME OwnHost, NEW want, OwnWant(want), NEW d \in Docs, NEW h \in HostsOf[d],
         h \in DesiredHosts(want)
  PROVE  want[d] = h
BY NoneOther DEF OwnWant, DesiredHosts

\* diff removes every route that does not fit,
LEMMA UnfitRemoved ==
  ASSUME OwnHost, NEW want, OwnWant(want), NEW g \in GatewayTable, OwnRoutes(g),
         NEW d \in Docs, d \notin ToRemove(want, g)
  PROVE  Fits(g, want, d)
<1>1. d \in RouteIds
  BY DEF RouteIds
<1>2. QED
  BY <1>1, WantOwner DEF ToRemove, Fits, OwnRoutes

\* and adds those that are not there.
LEMMA MissingAdded ==
  ASSUME OwnHost, NEW want, OwnWant(want), NEW g \in GatewayTable, OwnRoutes(g),
         NEW d \in Docs, Fits(g, want, d), d \notin ToAdd(want, g)
  PROVE  HostIn(g, d) = want[d]
<1> SUFFICES ASSUME g[d] = Unrouted, want[d] # Absent PROVE FALSE
  BY DEF Fits, HostIn
<1>1. want[d] \in HostsOf[d] /\ want[d] \in Hosts
  BY DEF OwnWant, Carried, OwnHost
<1>2. want[d] \in ServedHosts(g)
  BY <1>1 DEF ToAdd
<1>3. PICK id \in RouteIds : g[id] # Unrouted /\ g[id].host = want[d]
  BY <1>2 DEF ServedHosts
<1>4. id \in Docs /\ want[d] \in HostsOf[id]
  BY <1>3 DEF OwnRoutes
<1>5. id = d
  BY <1>1, <1>4, NoneOther DEF Carried
<1>6. QED
  BY <1>3, <1>5

\* What a batch of removals leaves.
LEMMA AfterRemoval ==
  ASSUME NEW g \in GatewayTable, OwnRoutes(g), NEW ids \in SUBSET RouteIds,
         NEW n, n = BatchDeprovision(g, ids)
  PROVE  /\ n \in GatewayTable /\ OwnRoutes(n)
         /\ \A id \in RouteIds : n[id] = IF id \in ids THEN Unrouted ELSE g[id]
BY DEF BatchDeprovision, OwnRoutes, GatewayTable

\* What a batch of additions leaves.
LEMMA AfterAddition ==
  ASSUME Setting, NEW want, OwnWant(want), NEW g \in GatewayTable, OwnRoutes(g),
         NEW ds \in SUBSET Docs, \A d \in ds : want[d] \in Hosts,
         NEW certs, NEW n, n = BatchProvision(g, ds, want, certs)
  PROVE  /\ n \in GatewayTable /\ OwnRoutes(n)
         /\ \A d \in ds : HostIn(n, d) = want[d]
         /\ \A id \in RouteIds \ ds : n[id] = g[id]
<1>1. ~KeyByHost /\ ds \subseteq RouteIds
  BY DEF Setting, RouteIds
<1>2. \A i \in RouteIds : {d \in ds : RouteID(d, want[d]) = i} = {d \in ds : d = i}
  BY <1>1 DEF RouteID
<1>3. n = [i \in RouteIds |->
             IF i \in ds THEN [host |-> want[i], cert |-> want[i] \in certs]
                         ELSE g[i]]
  BY <1>1, <1>2 DEF BatchProvision
<1>4. \A i \in ds : [host |-> want[i], cert |-> want[i] \in certs] \in Entry
  <2> SUFFICES ASSUME NEW i \in ds
               PROVE  [host |-> want[i], cert |-> want[i] \in certs] \in Entry
    OBVIOUS
  <2> DEFINE cert == want[i] \in certs
  <2>1. cert \in BOOLEAN
    OBVIOUS
  <2> HIDE DEF cert
  <2>2. [host |-> want[i], cert |-> cert] \in Entry
    BY <2>1 DEF Entry
  <2>3. QED
    BY <2>2 DEF cert
<1>5. n \in GatewayTable
  BY <1>3, <1>4 DEF GatewayTable
<1>6. \A i \in ds : n[i] \in Entry /\ n[i] # Unrouted /\ n[i].host = want[i]
  <2>1. \A i \in ds : n[i] = [host |-> want[i], cert |-> want[i] \in certs]
    BY <1>1, <1>3
  <2>2. \A i \in ds : n[i] \in Entry
    BY <1>4, <2>1
  <2>3. \A i \in ds : n[i].host = want[i]
    <3> SUFFICES ASSUME NEW i \in ds PROVE n[i].host = want[i]
      OBVIOUS
    <3> DEFINE cert == want[i] \in certs
    <3>1. n[i] = [host |-> want[i], cert |-> cert]
      BY <2>1
    <3> HIDE DEF cert
    <3>2. QED
      BY <3>1
  <2>4. QED
    BY <2>2, <2>3, GatewayAssumption DEF Entry
<1>7. \A id \in RouteIds \ ds : n[id] = g[id]
  BY <1>3
<1>8. \A i \in ds : want[i] \in HostsOf[i]
  BY GatewayAssumption DEF OwnWant, Carried
<1>9. QED
  BY <1>1, <1>5, <1>6, <1>7, <1>8 DEF OwnRoutes, HostIn

\* Nobody else is in a cycle or at work on the gateway.
LEMMA CycleAlone ==
  ASSUME Drift, NEW th \in Threads, pc[th] \in ReconcilePCs
  PROVE  /\ \A x \in Threads \ {th} : pc[x] \notin LockedPCs
         /\ OwnWant(plan[th].want) /\ OwnRoutes(gw) /\ gw \in GatewayTable
         /\ pc \in [Threads -> PCs] /\ plan \in [Threads -> Plan]
<1>1. \A x \in Threads \ {th} : pc[x] \notin LockedPCs
  BY CycleStages, OneAtWork DEF Drift, PlanInv
<1>2. QED
  BY <1>1, PlanFields
  DEF Drift, DriftInv, OwnHosted, OwnWant, OwnRoutes, PlanInv, TypeInv, TypeOK

\* A cycle ends with all routes in place, or the loss on record.
LEMMA CycleEnds ==
  ASSUME Drift, NEW th \in Threads, pc[th] \in ReconcilePCs, EndCycle(th),
         UNCHANGED <<db, feed, held, ev, term, leading, watch>>,
         missed \subseteq missed', OwnRoutes(gw'),
         \A d \in Docs :
           \/ d \in Pending \cup InHand \cup missed'
           \/ HostIn(gw', d) = db[d]
  PROVE  DriftInv'
<1> USE DEF Drift, DriftInv
<1> DEFINE label == IF th[1] = "main" THEN "start" ELSE "wait"
<1>1. /\ pc' = [pc EXCEPT ![th] = label]
      /\ plan' = [plan EXCEPT ![th] = NoPlan]
  BY DEF EndCycle, goto
<1>2. /\ pc \in [Threads -> PCs] /\ plan \in [Threads -> Plan]
      /\ \A x \in Threads \ {th} : pc[x] \notin LockedPCs
  BY CycleAlone
<1>3. label \notin LockedPCs /\ label \in {"start", "wait"}
  BY DEF LockedPCs, ReconcilePCs
<1>4. \A t \in Terms : Main(t) = th => label = "start"
  BY ThreadParts
<1> HIDE DEF label
<1>5. OwnHosted'
  <2>1. \A x \in Threads : \A d \in Docs : plan'[x].want[d] \in Carried(d)
    BY <1>1, <1>2 DEF OwnHosted, NoPlan, Carried
  <2>2. QED
    BY <2>1 DEF OwnHosted, OwnRoutes
<1>6. Placed'
  <2> SUFFICES ASSUME NEW t \in Terms
               PROVE  /\ ev[t] # NoEvent => pc'[Main(t)] \in {"lock", "certify", "apply"}
                      /\ pc'[Main(t)] \in ReconcilePCs \cup {"start"} => watch = "none"
    BY DEF Placed
  <2>1. CASE Main(t) = th
    <3>1. pc'[Main(t)] = "start"
      BY <1>1, <1>2, <1>4, <2>1
    <3>2. ev[t] = NoEvent /\ watch = "none"
      BY <2>1 DEF Placed, ReconcilePCs
    <3>3. QED
      BY <3>1, <3>2
  <2>2. CASE Main(t) # th
    BY <1>1, <1>2, <2>2, ThreadsOfTerms DEF Placed
  <2>3. QED
    BY <2>1, <2>2
<1>7. FeedTells' /\ HeldTells' /\ EventTells'
  <2>1. Pending' = Pending
    BY SameWay
  <2>2. QED
    BY <2>1 DEF FeedTells, HeldTells, EventTells, Queued, Followed
<1>8. \A x \in Threads : pc'[x] \notin LockedPCs
  BY <1>1, <1>2, <1>3
<1>9. PlanTells' /\ Removed'
  BY <1>8 DEF PlanTells, Removed, LockedPCs, ReconcilePCs
<1>10. NoSilentDrift'
  BY SameWay DEF NoSilentDrift, RoutedHost, HostIn
<1>11. QED
  BY <1>5, <1>6, <1>7, <1>9, <1>10

\* A cycle goes on.
LEMMA CycleGoes ==
  ASSUME Drift, NEW th \in Threads, pc[th] \in ReconcilePCs,
         NEW label \in {"listActual", "remove", "issue", "add"},
         goto(th, label),
         UNCHANGED <<db, feed, held, ev, term, leading, watch>>,
         missed \cap (Pending \cup InHand) \subseteq missed',
         OwnRoutes(gw'),
         \A x \in Threads \ {th} : plan'[x] = plan[x],
         OwnWant(plan'[th].want),
         \A d \in Docs :
           \/ d \in Pending \cup InHand \cup missed'
           \/ plan'[th].want[d] = db[d],
         label \in {"issue", "add"} =>
           \A d \in Docs : d \in missed' \/ Fits(gw', plan'[th].want, d)
  PROVE  DriftInv'
<1> USE DEF Drift, DriftInv
<1>1. pc' = [pc EXCEPT ![th] = label]
  BY DEF goto
<1>2. /\ pc \in [Threads -> PCs]
      /\ \A x \in Threads \ {th} : pc[x] \notin LockedPCs
  BY CycleAlone
<1>3. \A x \in Threads \ {th} :
        pc'[x] \notin {"listActual", "remove", "issue", "add"}
  BY <1>1, <1>2 DEF LockedPCs, ReconcilePCs
<1>4. pc'[th] = label
  BY <1>1, <1>2
<1>5. Pending' = Pending /\ InHand' = InHand
  BY SameWay
<1>6. OwnHosted'
  <2>1. \A x \in Threads : \A d \in Docs : plan'[x].want[d] \in Carried(d)
    BY DEF OwnHosted, OwnWant
  <2>2. QED
    BY <2>1 DEF OwnHosted, OwnRoutes
<1>7. Placed'
  <2> SUFFICES ASSUME NEW t \in Terms
               PROVE  /\ ev[t] # NoEvent => pc'[Main(t)] \in {"lock", "certify", "apply"}
                      /\ pc'[Main(t)] \in ReconcilePCs \cup {"start"} => watch = "none"
    BY DEF Placed
  <2>1. CASE Main(t) = th
    BY <2>1 DEF Placed, ReconcilePCs
  <2>2. CASE Main(t) # th
    BY <1>1, <1>2, <2>2, ThreadsOfTerms DEF Placed
  <2>3. QED
    BY <2>1, <2>2
<1>8. FeedTells' /\ HeldTells' /\ EventTells'
  <2>1. \A t \in Terms : ev[t] # NoEvent => ev[t].id \in InHand
    BY OnTheWay
  <2>2. QED
    BY <1>5, <2>1 DEF FeedTells, HeldTells, EventTells, Queued, Followed
<1>9. PlanTells' /\ Removed'
  <2>1. PlanTells'
    BY <1>3, <1>5 DEF PlanTells, Known
  <2>2. Removed'
    <3> SUFFICES ASSUME NEW x \in Threads, pc'[x] \in {"issue", "add"},
                        NEW d \in Docs
                 PROVE  \/ d \in missed' \/ gw'[d] = Unrouted
                        \/ gw'[d].host = plan'[x].want[d]
      BY DEF Removed
    <3>1. x = th /\ label \in {"issue", "add"}
      BY <1>3, <1>4
    <3>2. QED
      BY <3>1 DEF Fits
  <2>3. QED
    BY <2>1, <2>2
<1>10. Reconciling'
  BY <1>4 DEF Reconciling, ReconcilePCs
<1>11. QED
  BY <1>6, <1>7, <1>8, <1>9, <1>10 DEF NoSilentDrift

LEMMA ListDesiredTells ==
  ASSUME Setting, Drift, NEW th \in Threads, ListDesired(th)
  PROVE  DriftInv'
<1> USE DEF Drift, DriftInv
<1>1. /\ pc[th] = "listDesired" /\ pc[th] \in ReconcilePCs
      /\ UNCHANGED <<db, feed, gw, held, ev, term, leading, watch>>
  BY DEF ListDesired, ReconcilePCs, envVars, runVars, trigVars
<1>2. /\ plan \in [Threads -> Plan] /\ OwnRoutes(gw)
      /\ db \in Source /\ \A d \in Docs : db[d] \in Carried(d)
  BY <1>1, CycleAlone DEF PlanInv, TypeInv, TypeOK, OwnHosted
<1>3. CASE /\ goto(th, "listActual")
           /\ plan' = [plan EXCEPT ![th] = [NoPlan EXCEPT !.want = db]]
           /\ missed' = missed \cap (Pending \cup InHand)
  <2>1. /\ plan'[th].want = db
        /\ \A x \in Threads \ {th} : plan'[x] = plan[x]
    BY <1>2, <1>3 DEF NoPlan
  <2>2. QED
    BY <1>1, <1>2, <1>3, <2>1, CycleGoes DEF OwnWant
<1>4. CASE EndCycle(th) /\ missed' = missed
  <2>1. ~Reconciling
    BY <1>1, CycleAlone DEF Reconciling, LockedPCs
  <2>2. \A d \in Docs : d \in Pending \cup InHand \cup missed \/ HostIn(gw, d) = db[d]
    BY <2>1 DEF NoSilentDrift, HostIn, RoutedHost
  <2>3. QED
    BY <1>1, <1>2, <1>4, <2>2, CycleEnds
<1>5. QED
  BY <1>3, <1>4 DEF ListDesired

\* The routes are listed and compared.
LEMMA ListActualTells ==
  ASSUME Setting, Drift, NEW th \in Threads, ListActual(th)
  PROVE  DriftInv'
<1> USE DEF Setting, Drift, DriftInv
<1>1. /\ pc[th] = "listActual" /\ pc[th] \in ReconcilePCs
      /\ UNCHANGED <<db, feed, gw, held, ev, term, leading, watch>>
  BY DEF ListActual, ReconcilePCs, envVars, runVars, trigVars
<1> DEFINE want == plan[th].want
           p == [plan[th] EXCEPT !.add = ToAdd(want, gw),
                                 !.remove = ToRemove(want, gw)]
<1>2. /\ OwnWant(want) /\ OwnRoutes(gw) /\ gw \in GatewayTable
      /\ plan \in [Threads -> Plan]
  BY <1>1, CycleAlone
<1>3. \A d \in Docs :
        d \in Pending \cup InHand \cup missed \/ want[d] = db[d]
  BY <1>1 DEF PlanTells, Known
<1>4. /\ p.want = want /\ p.add = ToAdd(want, gw)
      /\ p.remove = ToRemove(want, gw)
  BY <1>2 DEF Plan
<1>5. CASE /\ p.add = {} /\ p.remove = {}
           /\ EndCycle(th) /\ missed' = missed
  <2>1. \A d \in Docs : HostIn(gw, d) = want[d]
    BY <1>2, <1>4, <1>5, UnfitRemoved, MissingAdded
  <2>2. QED
    BY <1>1, <1>2, <1>3, <1>5, <2>1, CycleEnds
<1>6. CASE /\ goto(th, IF p.remove # {} THEN "remove" ELSE "issue")
           /\ plan' = [plan EXCEPT ![th] = p]
           /\ missed' = missed
  <2>1. /\ plan'[th] = p
        /\ \A x \in Threads \ {th} : plan'[x] = plan[x]
    BY <1>2, <1>6
  <2>2. p.remove = {} => \A d \in Docs : Fits(gw, want, d)
    BY <1>2, <1>4, UnfitRemoved
  <2>3. plan'[th].want = want
    BY <1>4, <2>1
  <2>4. PICK v : v = want
    OBVIOUS
  <2>5. PICK label \in {"remove", "issue"} :
          /\ goto(th, label)
          /\ label = "issue" => \A d \in Docs : Fits(gw, v, d)
    BY <1>6, <2>2, <2>4
  <2>6. OwnWant(plan'[th].want) /\ plan'[th].want = v
    BY <1>2, <2>3, <2>4
  <2>7. QED
    BY <1>1, <1>2, <1>3, <1>6, <2>1, <2>4, <2>5, <2>6, CycleGoes
<1>7. CASE EndCycle(th) /\ missed' = Docs
  <2>1. missed \subseteq Docs
    BY DEF PlanInv, TypeInv, TypeOK
  <2>2. QED
    BY <1>1, <1>2, <1>7, <2>1, CycleEnds
<1>8. QED
  BY <1>5, <1>6, <1>7 DEF ListActual

\* The removals leave routes that fit.
LEMMA RemoveTells ==
  ASSUME Setting, Drift, NEW th \in Threads, Remove(th)
  PROVE  DriftInv'
<1> USE DEF Setting, Drift, DriftInv
<1>1. /\ pc[th] = "remove" /\ pc[th] \in ReconcilePCs
      /\ UNCHANGED <<db, feed, held, ev, term, leading, watch>>
  BY DEF Remove, ReconcilePCs, envVars, runVars, trigVars
<1>2. PICK want : want = plan[th].want
  OBVIOUS
<1>3. /\ OwnWant(want) /\ OwnRoutes(gw) /\ gw \in GatewayTable
      /\ plan \in [Threads -> Plan]
  BY <1>1, <1>2, CycleAlone
<1>4. \A d \in Docs :
        d \in Pending \cup InHand \cup missed \/ want[d] = db[d]
  BY <1>1, <1>2 DEF PlanTells, Known
<1>5. /\ plan[th].add = ToAdd(want, gw)
      /\ plan[th].remove = ToRemove(want, gw)
  BY <1>1, <1>2 DEF PlanInv, PlanCurrent
<1>6. missed \subseteq Docs /\ ToRemove(want, gw) \in SUBSET RouteIds
  BY DEF PlanInv, TypeInv, TypeOK, ToRemove
<1>7. PICK done \in SUBSET plan[th].remove :
        /\ gw' = BatchDeprovision(gw, done)
        /\ \/ done = plan[th].remove /\ missed' = missed
           \/ missed' = Docs
  BY DEF Remove
<1>8. /\ gw' \in GatewayTable /\ OwnRoutes(gw')
      /\ \A id \in RouteIds : gw'[id] = IF id \in done THEN Unrouted ELSE gw[id]
  BY <1>3, <1>5, <1>6, <1>7, AfterRemoval
<1>9. \A d \in Docs : d \in missed' \/ Fits(gw', want, d)
  <2> SUFFICES ASSUME NEW d \in Docs, done = ToRemove(want, gw)
               PROVE  Fits(gw', want, d)
    BY <1>5, <1>7
  <2>1. d \in RouteIds
    BY DEF RouteIds
  <2>2. QED
    BY <1>3, <1>8, <2>1, UnfitRemoved DEF Fits
<1>10. ToAdd(want, gw') = ToAdd(want, gw)
  BY <1>3, <1>5, <1>7, RemovalKeepsAdd DEF OwnWant
<1>11. missed \subseteq missed'
  BY <1>6, <1>7
<1>12. CASE plan[th].add # {}
  <2>1. goto(th, "issue") /\ plan' = plan
    BY <1>12 DEF Remove
  <2>2. QED
    BY <1>1, <1>2, <1>3, <1>4, <1>8, <1>9, <1>11, <2>1, CycleGoes
<1>13. CASE plan[th].add = {}
  <2>1. EndCycle(th)
    BY <1>13 DEF Remove
  <2>2. \A d \in Docs : d \in missed' \/ HostIn(gw', d) = want[d]
    BY <1>3, <1>5, <1>8, <1>9, <1>10, <1>13, MissingAdded
  <2>3. QED
    BY <1>1, <1>4, <1>8, <1>11, <2>1, <2>2, CycleEnds
<1>14. QED
  BY <1>12, <1>13

\* Certificates change no route.
LEMMA IssueTells ==
  ASSUME Setting, Drift, NEW th \in Threads, Issue(th)
  PROVE  DriftInv'
<1> USE DEF Drift, DriftInv
<1>1. CASE ProcessEnds
  BY <1>1, ProcessEndsTells
<1>2. CASE ~ProcessEnds
  <2>1. /\ pc[th] = "issue" /\ pc[th] \in ReconcilePCs /\ goto(th, "add")
        /\ UNCHANGED <<db, feed, gw, held, ev, term, leading, watch, missed>>
        /\ \E S : plan' = [plan EXCEPT ![th].certs = S]
    BY <1>2 DEF Issue, ReconcilePCs, envVars, runVars, trigVars
  <2>2. PICK want : want = plan[th].want
    OBVIOUS
  <2>3. /\ OwnWant(want) /\ OwnRoutes(gw) /\ gw \in GatewayTable
        /\ plan \in [Threads -> Plan]
    BY <2>1, <2>2, CycleAlone
  <2>4. /\ plan'[th].want = want
        /\ \A x \in Threads \ {th} : plan'[x] = plan[x]
    BY <2>1, <2>2, <2>3 DEF Plan
  <2>5. \A d \in Docs :
          /\ d \in Pending \cup InHand \cup missed \/ want[d] = db[d]
          /\ d \in missed \/ Fits(gw, want, d)
    BY <2>1, <2>2 DEF PlanTells, Known, Removed, Fits
  <2>6. QED
    BY <2>1, <2>3, <2>4, <2>5, CycleGoes
<1>3. QED
  BY <1>1, <1>2

\* The additions leave nothing missing.
LEMMA AddTells ==
  ASSUME Setting, Drift, NEW th \in Threads, Add(th)
  PROVE  DriftInv'
<1> USE DEF Setting, Drift, DriftInv
<1>1. /\ pc[th] = "add" /\ pc[th] \in ReconcilePCs /\ EndCycle(th)
      /\ UNCHANGED <<db, feed, held, ev, term, leading, watch>>
  BY DEF Add, ReconcilePCs, envVars, runVars, trigVars
<1>2. PICK want : want = plan[th].want
  OBVIOUS
<1>3. OwnWant(want) /\ OwnRoutes(gw) /\ gw \in GatewayTable
  BY <1>1, <1>2, CycleAlone
<1>4. plan[th].add = ToAdd(want, gw)
  BY <1>1, <1>2 DEF PlanInv, PlanCurrent
<1>5. PICK done \in SUBSET plan[th].add :
        /\ gw' = BatchProvision(gw, done, want, plan[th].certs)
        /\ \/ done = plan[th].add /\ missed' = missed
           \/ missed' = Docs
  BY <1>2 DEF Add
<1>6. done \in SUBSET Docs /\ \A d \in done : want[d] \in Hosts
  BY <1>4, <1>5 DEF ToAdd
<1>7. /\ OwnRoutes(gw')
      /\ \A d \in done : HostIn(gw', d) = want[d]
      /\ \A id \in RouteIds \ done : gw'[id] = gw[id]
  BY <1>3, <1>5, <1>6, AfterAddition
<1>8. missed \subseteq missed'
  BY <1>5 DEF PlanInv, TypeInv, TypeOK
<1>9. \A d \in Docs : d \in Pending \cup InHand \cup missed' \/ HostIn(gw', d) = db[d]
  <2> SUFFICES ASSUME NEW d \in Docs, d \notin Pending \cup InHand \cup missed'
               PROVE  HostIn(gw', d) = db[d]
    OBVIOUS
  <2>1. want[d] = db[d] /\ Fits(gw, want, d)
    BY <1>1, <1>2, <1>8 DEF PlanTells, Known, Removed, Fits
  <2>2. done = ToAdd(want, gw)
    BY <1>4, <1>5
  <2>3. HostIn(gw', d) = want[d]
    <3>1. CASE d \in done
      BY <1>7, <3>1
    <3>2. CASE d \notin done
      BY <1>3, <1>7, <2>1, <2>2, <3>2, MissingAdded DEF HostIn, RouteIds
    <3>3. QED
      BY <3>1, <3>2
  <2>4. QED
    BY <2>1, <2>3
<1>10. QED
  BY <1>1, <1>7, <1>8, <1>9, CycleEnds

-----------------------------------------------------------------------------

\* Everything is on record to begin with.
LEMMA DriftInitially == ASSUME Setting PROVE Init => DriftInv
<1> SUFFICES ASSUME Init PROVE DriftInv
  OBVIOUS
<1>1. OwnHosted
  BY DEF Init, OwnHosted, NoPlan, NoRoutes, Carried
<1>2. Placed
  BY ThreadsOfTerms DEF Init, Placed, ReconcilePCs
<1>3. QED
  BY <1>1, <1>2
  DEF Init, DriftInv, FeedTells, HeldTells, EventTells, PlanTells, Removed,
      NoSilentDrift

\* Every step keeps the invariant.
LEMMA DriftPreserved ==
  ASSUME Setting, Drift, [Next]_vars
  PROVE  Drift'
<1>1. SUFFICES DriftInv'
  BY PlanStep DEF Setting, Drift
<1>2. ASSUME NEW d \in Docs, NEW v \in HostsOf[d] \cup {Absent}, Change(d, v)
      PROVE  DriftInv'
  BY <1>2, ChangeTells
<1>3. ASSUME NEW th \in Threads, Reconcile(th) PROVE DriftInv'
  BY <1>3, ListDesiredTells, ListActualTells, RemoveTells, IssueTells, AddTells
  DEF Reconcile
<1>4. ASSUME NEW t \in Terms, MainStep(t) \/ LoopStep(t) PROVE DriftInv'
  <2>1. ~Return(t)
    BY NeverCancelled, ThreadsOfTerms DEF Return, Drift, PlanInv
  <2>2. QED
    BY <1>4, <2>1, StartServicesTells, ReceiveTells, LockTells, EventTellsOn,
       LoopTells DEF MainStep
<1>5. CASE OpenStream \/ Deliver \/ TriggerFails
  BY <1>5, OpenTells, DeliverTells, TriggerFailsTells
<1>6. CASE StartTerm \/ LoseLeadership \/ Crash
  BY <1>6, StartTermTells, ProcessEndsTells DEF LoseLeadership, Crash, Setting
<1>7. CASE UNCHANGED vars
  <2>1. UNCHANGED <<db, feed, gw, pc, plan, ev, watch, held, term, missed>>
    BY <1>7 DEF vars
  <2>2. Pending' = Pending /\ InHand' = InHand
    BY <2>1, SameWay
  <2>3. OwnHosted' /\ Placed'
    BY <2>1 DEF Drift, DriftInv, OwnHosted, Placed
  <2>4. PlanTells' /\ Removed' /\ NoSilentDrift'
    BY <2>1, <2>2
    DEF Drift, DriftInv, PlanTells, Removed, NoSilentDrift, Known, RoutedHost,
        Reconciling
  <2>5. QED
    BY <2>1, <2>3, <2>4, StandStill DEF DriftInv
<1>8. QED
  BY <1>2, <1>3, <1>4, <1>5, <1>6, <1>7 DEF Next

\* NoSilentDrift holds in every state: without leader election, with routes
\* keyed by document, and documents that have a host and share none.
THEOREM DriftIsAccounted ==
  ASSUME ~Elect, ~KeyByHost, OwnHost
  PROVE  Spec => []NoSilentDrift
<1>1. Setting
  BY DEF Setting
<1>2. Init => Drift
  BY <1>1, TypeInit, ConsistentInit, ExclusiveInit, DriftInitially
  DEF Drift, PlanInv, TypeInv
<1>3. Drift /\ [Next]_vars => Drift'
  BY <1>1, DriftPreserved
<1>4. Drift => NoSilentDrift
  BY DEF Drift, DriftInv
<1>5. QED
  BY <1>2, <1>3, <1>4, PTL DEF Spec
=============================================================================
