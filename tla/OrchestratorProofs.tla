------------------------- MODULE OrchestratorProofs -------------------------
(***************************************************************************)
(* What the diff and the two batches of a reconciliation cycle do to a     *)
(* gateway, for every set of documents and hosts; then type correctness of *)
(* Orchestrator, and that without leader election the mutex keeps every    *)
(* reconciliation plan current, for all constants.                         *)
(***************************************************************************)
EXTENDS Orchestrator, TLAPS

-----------------------------------------------------------------------------
(* A reconciliation cycle. *)

\* The gateway's operations map tables to tables.
LEMMA DeprovisionType ==
  ASSUME NEW g \in GatewayTable, NEW ids
  PROVE  BatchDeprovision(g, ids) \in GatewayTable
BY DEF GatewayTable, BatchDeprovision

\* Deprovision, likewise.
LEMMA DeprovisionOneType ==
  ASSUME NEW g \in GatewayTable, NEW id
  PROVE  Deprovision(g, id) \in GatewayTable
BY DEF GatewayTable, Deprovision

\* Provision, likewise.
LEMMA ProvisionType ==
  ASSUME NEW g \in GatewayTable, NEW d \in Docs, NEW h \in Hosts,
         NEW hasCert \in BOOLEAN
  PROVE  Provision(g, d, h, hasCert) \in GatewayTable
<1>1. [host |-> h, cert |-> hasCert] \in Entry
  BY DEF Entry
<1>2. RouteID(d, h) \in RouteIds
  BY DEF RouteID, RouteIds
<1> QED
  BY <1>1, <1>2 DEF GatewayTable, Provision

\* A batch of routes whose hosts are hosts makes entries of that type.
LEMMA BatchProvisionType ==
  ASSUME NEW g \in GatewayTable, NEW want \in Source, NEW ds \in SUBSET Docs,
         NEW certs, \A d \in ds : want[d] \in Hosts
  PROVE  BatchProvision(g, ds, want, certs) \in GatewayTable
<1> SUFFICES ASSUME NEW id \in RouteIds
             PROVE  BatchProvision(g, ds, want, certs)[id]
                      \in Entry \cup {Unrouted}
  BY DEF BatchProvision, GatewayTable
<1> DEFINE added == {d \in ds : RouteID(d, want[d]) = id}
           host  == IF KeyByHost THEN id ELSE want[id]
<1>1. CASE added = {}
  BY <1>1 DEF BatchProvision, GatewayTable
<1>2. CASE added # {}
  <2>1. PICK d \in ds : RouteID(d, want[d]) = id
    BY <1>2
  <2>2. host \in Hosts
    BY <2>1 DEF RouteID
  <2>3. [host |-> host, cert |-> host \in certs] \in Entry
    BY <2>2 DEF Entry
  <2> QED
    BY <1>2, <2>3 DEF BatchProvision
<1> QED
  BY <1>1, <1>2

\* Removing any part of what the diff found obsolete takes no host away that
\* a document asks for: the rest of the plan stays what diff would compute.
LEMMA RemovalKeepsAdd ==
  ASSUME NEW g \in GatewayTable, NEW want \in Source,
         NEW done \in SUBSET ToRemove(want, g)
  PROVE  ToAdd(want, BatchDeprovision(g, done)) = ToAdd(want, g)
<1> DEFINE g2 == BatchDeprovision(g, done)
<1>1. ASSUME NEW h \in DesiredHosts(want)
      PROVE  h \in ServedHosts(g2) <=> h \in ServedHosts(g)
  <2>1. ASSUME h \in ServedHosts(g2) PROVE h \in ServedHosts(g)
    BY <2>1 DEF ServedHosts, BatchDeprovision
  <2>2. ASSUME h \in ServedHosts(g) PROVE h \in ServedHosts(g2)
    <3>1. PICK id \in RouteIds : g[id] # Unrouted /\ g[id].host = h
      BY <2>2 DEF ServedHosts
    <3>2. id \notin done
      BY <1>1, <3>1 DEF ToRemove
    <3> QED
      BY <3>1, <3>2 DEF ServedHosts, BatchDeprovision
  <2> QED
    BY <2>1, <2>2
<1>2. \A d \in Docs : want[d] \in Hosts => want[d] \in DesiredHosts(want)
  BY DEF DesiredHosts
<1> QED
  BY <1>1, <1>2 DEF ToAdd

(***************************************************************************)
(* One undisturbed cycle without a failure makes a gateway keyed by host   *)
(* serve exactly the hosts that the documents ask for, wherever it starts  *)
(* from (reconciler.go: list desired, list actual, diff, batch-apply).     *)
(***************************************************************************)
THEOREM CycleReconciles ==
  ASSUME NEW g \in GatewayTable, NEW want \in Source, NEW certs,
         KeyByHost, KeyedByHost(g)
  PROVE  ServedHosts(Reconciled(want, g, certs)) = DesiredHosts(want)
<1> DEFINE pruned == BatchDeprovision(g, ToRemove(want, g))
           result == Reconciled(want, g, certs)
<1>1. \A id \in RouteIds :
        result[id] = IF \E d \in ToAdd(want, g) : want[d] = id
                       THEN [host |-> id, cert |-> id \in certs]
                       ELSE pruned[id]
  BY DEF Reconciled, BatchProvision, RouteID
<1>2. \A id \in RouteIds : pruned[id] =
        IF id \in ToRemove(want, g) THEN Unrouted ELSE g[id]
  BY DEF BatchDeprovision
<1> HIDE DEF pruned, result
<1>3. ASSUME NEW d \in ToAdd(want, g)
      PROVE  result[want[d]].host = want[d] /\ result[want[d]] # Unrouted
  <2> DEFINE id == want[d]
             hasCert == id \in certs
  <2>1. id \in Hosts /\ id \in RouteIds
    BY DEF ToAdd, RouteIds
  <2>2. result[id] = [host |-> id, cert |-> hasCert]
    BY <1>1, <2>1
  <2>3. hasCert \in BOOLEAN
    OBVIOUS
  <2> HIDE DEF hasCert, id
  <2>4. [host |-> id, cert |-> hasCert] # Unrouted
    BY <2>1, <2>3, GatewayAssumption
  <2> QED
    BY <2>2, <2>4 DEF id
<1>4. ASSUME NEW h \in ServedHosts(result) PROVE h \in DesiredHosts(want)
  <2>1. PICK id \in RouteIds : result[id] # Unrouted /\ result[id].host = h
    BY <1>4 DEF ServedHosts
  <2>2. CASE \E d \in ToAdd(want, g) : want[d] = id
    <3>1. PICK d \in ToAdd(want, g) : want[d] = id
      BY <2>2
    <3>2. h = id
      BY <1>3, <2>1, <3>1
    <3> QED
      BY <3>1, <3>2 DEF ToAdd, DesiredHosts
  <2>3. CASE ~ \E d \in ToAdd(want, g) : want[d] = id
    BY <1>1, <1>2, <2>1, <2>3 DEF ToRemove
  <2> QED
    BY <2>2, <2>3
<1>5. ASSUME NEW h \in DesiredHosts(want) PROVE h \in ServedHosts(result)
  <2>1. PICK d \in Docs : want[d] = h /\ h \in Hosts
    BY <1>5 DEF DesiredHosts
  <2>2. h \in RouteIds
    BY <2>1 DEF RouteIds
  <2>3. CASE h \in ServedHosts(g)
    <3>1. PICK id \in RouteIds : g[id] # Unrouted /\ g[id].host = h
      BY <2>3 DEF ServedHosts
    <3>2. id = h
      BY <3>1 DEF KeyedByHost
    <3>3. id \notin ToRemove(want, g)
      BY <1>5, <3>1 DEF ToRemove
    <3>4. \A e \in ToAdd(want, g) : want[e] # id
      BY <2>3, <3>2 DEF ToAdd
    <3>5. result[id] = g[id]
      BY <1>1, <1>2, <3>3, <3>4
    <3> QED
      BY <3>1, <3>5 DEF ServedHosts
  <2>4. CASE h \notin ServedHosts(g)
    <3>1. d \in ToAdd(want, g)
      BY <2>1, <2>4 DEF ToAdd
    <3>2. result[h] # Unrouted /\ result[h].host = h
      BY <1>3, <2>1, <3>1
    <3> QED
      BY <2>2, <3>2 DEF ServedHosts
  <2> QED
    BY <2>3, <2>4
<1> QED
  BY <1>4, <1>5 DEF result

-----------------------------------------------------------------------------
(* The orchestrator. *)

\* Every term has its two goroutines.
LEMMA ThreadsOfTerms ==
  \A t \in Terms : Main(t) \in Threads /\ Loop(t) \in Threads
BY DEF Terms, Threads, Main, Loop

\* The locals of a goroutine outside a cycle are a plan.
LEMMA EmptyPlan == NoPlan \in Plan
BY DEF NoPlan, Plan, Source, Values

\* The gateway of a fresh provisioner-log is a table.
LEMMA EmptyTable == NoRoutes \in GatewayTable
BY DEF NoRoutes, GatewayTable

\* A failure takes one of the budget, or none.
LEMMA FailsType ==
  ASSUME NEW th, faults \in 0..MaxFaults, Fails(th)
  PROVE  faults' \in 0..MaxFaults
BY OrchestratorAssumption DEF Fails

\* EndCycle, EndEvent and ProcessEnds leave well-typed goroutines behind.
LEMMA EndCycleType ==
  ASSUME TypeOK, NEW th \in Threads, EndCycle(th)
  PROVE  /\ mu' \in Threads \cup {Free}
         /\ pc' \in [Threads -> PCs]
         /\ plan' \in [Threads -> Plan]
BY EmptyPlan DEF TypeOK, EndCycle, goto, Unlock, PCs

\* EndEvent, likewise.
LEMMA EndEventType ==
  ASSUME TypeOK, NEW t \in Terms, EndEvent(t)
  PROVE  /\ mu' \in Threads \cup {Free}
         /\ pc' \in [Threads -> PCs]
         /\ plan' \in [Threads -> Plan]
         /\ ev' \in [Terms -> Events \cup {NoEvent}]
BY EmptyPlan, ThreadsOfTerms DEF TypeOK, EndEvent, goto, PCs, LockedPCs, ReconcilePCs

\* ProcessEnds, likewise.
LEMMA ProcessEndsType ==
  ASSUME TypeOK, ProcessEnds, faults' \in 0..MaxFaults
  PROVE  TypeOK'
<1>1. gw' \in GatewayTable
  BY EmptyTable DEF TypeOK, ProcessEnds
<1>2. pc' \in [Threads -> PCs] /\ plan' \in [Threads -> Plan]
  BY EmptyPlan DEF ProcessEnds, PCs
<1>3. feed' \in Seq(Changes)
  BY DEF ProcessEnds
<1>4. term' \in 0..MaxTerm
  BY OrchestratorAssumption DEF ProcessEnds
<1> QED
  BY <1>1, <1>2, <1>3, <1>4 DEF TypeOK, ProcessEnds

\* The initial states are well-typed.
LEMMA TypeInit == Init => TypeOK
<1> SUFFICES ASSUME Init PROVE TypeOK
  OBVIOUS
<1>1. db \in Source
  BY DEF Init
<1>2. plan \in [Threads -> Plan]
  BY EmptyPlan DEF Init
<1>3. pc \in [Threads -> PCs]
  BY DEF Init, PCs
<1>4. term \in 0..MaxTerm /\ changes \in 0..MaxChanges /\ faults \in 0..MaxFaults
  BY OrchestratorAssumption DEF Init
<1>5. feed \in Seq(Changes)
  BY DEF Init
<1> QED
  BY <1>1, <1>2, <1>3, <1>4, <1>5, EmptyTable DEF Init, TypeOK

-----------------------------------------------------------------------------
(* TypeOK is not inductive: what a goroutine's locals hold depends on where *)
(* the goroutine is.                                                        *)

Consistent ==
  /\ \A th \in Threads : \A d \in plan[th].add : plan[th].want[d] \in Hosts
  /\ \A t \in Terms :
       /\ pc[Main(t)] \in {"lock", "certify", "apply"} => ev[t] \in Events
       /\ pc[Main(t)] = "certify" => ev[t].host # Absent
  /\ watch = "sending" => held \in Events

TypeInv == TypeOK /\ Consistent

\* And consistent: nothing is in progress.
LEMMA ConsistentInit == Init => Consistent
BY ThreadsOfTerms DEF Init, Consistent, NoPlan

\* What the fields of a goroutine's plan hold.
LEMMA PlanFields ==
  ASSUME TypeOK, NEW th \in Threads
  PROVE  /\ plan[th].want \in Source
         /\ plan[th].add \in SUBSET Docs
         /\ plan[th].remove \in SUBSET RouteIds
         /\ plan[th].certs \in SUBSET Hosts
BY DEF TypeOK, Plan

\* What the fields of the event in hand hold.
LEMMA EventFields ==
  \A e \in Events : e.id \in Docs /\ e.host \in Hosts \cup {Absent}
BY DEF Events

\* Main and Loop name different goroutines, one of each per term.
LEMMA ThreadNames ==
  \A t, u \in Terms : /\ Main(t) # Loop(u)
                      /\ Main(t) = Main(u) => t = u
                      /\ Loop(t) = Loop(u) => t = u
BY DEF Main, Loop

\* The listing of the documents keeps the type invariant.
LEMMA ListDesiredType ==
  ASSUME TypeInv, NEW th \in Threads, ListDesired(th)
  PROVE  TypeInv'
<1>1. UNCHANGED <<db, feed, gw, issuer, term, leading, ev, watch, held, changes>>
  BY DEF ListDesired, envVars, runVars, trigVars
<1>2. CASE /\ goto(th, "listActual")
           /\ plan' = [plan EXCEPT ![th] = [NoPlan EXCEPT !.want = db]]
           /\ missed' = missed \cap (Pending \cup InHand)
           /\ UNCHANGED <<mu, faults>>
  <2>1. [NoPlan EXCEPT !.want = db] \in Plan
    BY EmptyPlan DEF TypeInv, TypeOK, Plan
  <2>2. TypeOK'
    BY <1>1, <1>2, <2>1 DEF TypeInv, TypeOK, goto, PCs, LockedPCs, ReconcilePCs
  <2>3. Consistent'
    BY <1>1, <1>2 DEF TypeInv, TypeOK, Consistent, goto, NoPlan
  <2> QED
    BY <2>2, <2>3 DEF TypeInv
<1>3. CASE Fails(th) /\ EndCycle(th) /\ UNCHANGED missed
  <2>1. TypeOK'
    BY <1>1, <1>3, FailsType, EndCycleType DEF TypeInv, TypeOK
  <2>2. Consistent'
    BY <1>1, <1>3 DEF TypeInv, TypeOK, Consistent, EndCycle, goto, NoPlan
  <2> QED
    BY <2>1, <2>2 DEF TypeInv
<1> QED
  BY <1>2, <1>3 DEF ListDesired

\* The gateway's listing and the diff keep the type invariant.
LEMMA ListActualType ==
  ASSUME TypeInv, NEW th \in Threads, ListActual(th)
  PROVE  TypeInv'
<1> DEFINE p == [plan[th] EXCEPT !.add = ToAdd(plan[th].want, gw),
                                 !.remove = ToRemove(plan[th].want, gw)]
<1>1. UNCHANGED <<db, feed, gw, issuer, term, leading, ev, watch, held, changes>>
  BY DEF ListActual, envVars, runVars, trigVars
<1>2. ASSUME EndCycle(th), faults' \in 0..MaxFaults, missed' \in SUBSET Docs
      PROVE  TypeInv'
  <2>1. TypeOK'
    BY <1>1, <1>2, EndCycleType DEF TypeInv, TypeOK
  <2>2. Consistent'
    BY <1>1, <1>2 DEF TypeInv, TypeOK, Consistent, EndCycle, goto, NoPlan
  <2> QED
    BY <2>1, <2>2 DEF TypeInv
<1>3. ASSUME goto(th, IF p.remove # {} THEN "remove" ELSE "issue"),
             plan' = [plan EXCEPT ![th] = p], UNCHANGED <<mu, faults, missed>>
      PROVE  TypeInv'
  <2>1. /\ p \in Plan
        /\ \A d \in p.add : p.want[d] \in Hosts
    BY PlanFields DEF TypeInv, Plan, ToAdd, ToRemove, TypeOK
  <2> HIDE DEF p
  <2>2. TypeOK'
    BY <1>1, <1>3, <2>1 DEF TypeInv, TypeOK, goto, PCs, LockedPCs, ReconcilePCs
  <2>3. Consistent'
    BY <1>1, <1>3, <2>1 DEF TypeInv, TypeOK, Consistent, goto
  <2> QED
    BY <2>2, <2>3 DEF TypeInv
<1>4. CASE Fails(th) /\ EndCycle(th) /\ missed' = Docs
  BY <1>2, <1>4, FailsType DEF TypeInv, TypeOK
<1>5. CASE EndCycle(th) /\ UNCHANGED <<faults, missed>>
  BY <1>2, <1>5 DEF TypeInv, TypeOK
<1> QED
  BY <1>3, <1>4, <1>5 DEF ListActual

\* BatchDeprovision keeps the type invariant.
LEMMA RemoveType ==
  ASSUME TypeInv, NEW th \in Threads, Remove(th)
  PROVE  TypeInv'
<1>1. UNCHANGED <<db, feed, issuer, term, leading, ev, watch, held, changes>>
  BY DEF Remove, envVars, runVars, trigVars
<1>2. /\ gw' \in GatewayTable
      /\ faults' \in 0..MaxFaults
      /\ missed' \in SUBSET Docs
  <2>1. PICK done \in SUBSET plan[th].remove :
          /\ gw' = BatchDeprovision(gw, done)
          /\ IF done = plan[th].remove
               THEN UNCHANGED <<faults, missed>>
               ELSE Fails(th) /\ missed' = Docs
    BY DEF Remove
  <2>2. gw' \in GatewayTable
    BY <2>1, DeprovisionType DEF TypeInv, TypeOK
  <2> QED
    BY <2>1, <2>2, FailsType DEF TypeInv, TypeOK
<1>3. CASE goto(th, "issue") /\ UNCHANGED <<mu, plan>>
  <2>1. TypeOK'
    BY <1>1, <1>2, <1>3 DEF TypeInv, TypeOK, goto, PCs, LockedPCs, ReconcilePCs
  <2>2. Consistent'
    BY <1>1, <1>3 DEF TypeInv, TypeOK, Consistent, goto
  <2> QED
    BY <2>1, <2>2 DEF TypeInv
<1>4. CASE EndCycle(th)
  <2>1. TypeOK'
    BY <1>1, <1>2, <1>4, EndCycleType DEF TypeInv, TypeOK
  <2>2. Consistent'
    BY <1>1, <1>4 DEF TypeInv, TypeOK, Consistent, EndCycle, goto, NoPlan
  <2> QED
    BY <2>1, <2>2 DEF TypeInv
<1> QED
  BY <1>3, <1>4 DEF Remove

\* The issue loop keeps the type invariant.
LEMMA IssueType ==
  ASSUME TypeInv, NEW th \in Threads, Issue(th)
  PROVE  TypeInv'
<1> DEFINE secure == plan[th].add \cap TLSDocs
<1>1. CASE issuer = "none" /\ ProcessEnds /\ UNCHANGED faults
  <2>1. TypeOK'
    BY <1>1, ProcessEndsType DEF TypeInv, TypeOK
  <2>2. Consistent'
    BY <1>1, ThreadsOfTerms DEF Consistent, ProcessEnds, NoPlan
  <2> QED
    BY <2>1, <2>2 DEF TypeInv
<1>2. CASE /\ \E failed \in SUBSET secure :
                /\ plan' = [plan EXCEPT ![th].certs =
                              {plan[th].want[d] : d \in secure \ failed}]
                /\ IF failed = {} THEN UNCHANGED faults ELSE Fails(th)
           /\ goto(th, "add")
           /\ UNCHANGED <<envVars, gw, issuer, runVars, mu, ev, trigVars,
                          changes, missed>>
  <2>1. PICK failed \in SUBSET secure :
          /\ plan' = [plan EXCEPT ![th].certs =
                        {plan[th].want[d] : d \in secure \ failed}]
          /\ IF failed = {} THEN UNCHANGED faults ELSE Fails(th)
    BY <1>2
  <2>2. {plan[th].want[d] : d \in secure \ failed} \in SUBSET Hosts
    BY DEF TypeInv, Consistent
  <2>3. plan' \in [Threads -> Plan]
    BY <2>1, <2>2, PlanFields DEF TypeInv, TypeOK, Plan
  <2>4. faults' \in 0..MaxFaults
    BY <2>1, FailsType DEF TypeInv, TypeOK
  <2>5. TypeOK'
    BY <1>2, <2>3, <2>4
    DEF TypeInv, TypeOK, goto, PCs, LockedPCs, ReconcilePCs, envVars, runVars, trigVars
  <2>6. \A x \in Threads :
          plan'[x].add = plan[x].add /\ plan'[x].want = plan[x].want
    BY <2>1, <2>2 DEF TypeInv, TypeOK, Plan
  <2>7. Consistent'
    BY <1>2, <2>6 DEF TypeInv, TypeOK, Consistent, goto, trigVars
  <2> QED
    BY <2>5, <2>7 DEF TypeInv
<1> QED
  BY <1>1, <1>2 DEF Issue

\* BatchProvision keeps the type invariant.
LEMMA AddType ==
  ASSUME TypeInv, NEW th \in Threads, Add(th)
  PROVE  TypeInv'
<1>1. UNCHANGED <<db, feed, issuer, term, leading, ev, watch, held, changes>>
  BY DEF Add, envVars, runVars, trigVars
<1>2. PICK done \in SUBSET plan[th].add :
        /\ gw' = BatchProvision(gw, done, plan[th].want, plan[th].certs)
        /\ IF done = plan[th].add
             THEN UNCHANGED <<faults, missed>>
             ELSE Fails(th) /\ missed' = Docs
  BY DEF Add
<1>3. gw' \in GatewayTable
  BY <1>2, PlanFields, BatchProvisionType DEF TypeInv, TypeOK, Consistent
<1>4. faults' \in 0..MaxFaults /\ missed' \in SUBSET Docs
  BY <1>2, FailsType DEF TypeInv, TypeOK
<1>5. EndCycle(th)
  BY DEF Add
<1>6. TypeOK'
  BY <1>1, <1>3, <1>4, <1>5, EndCycleType DEF TypeInv, TypeOK
<1>7. Consistent'
  BY <1>1, <1>5 DEF TypeInv, TypeOK, Consistent, EndCycle, goto, NoPlan
<1> QED
  BY <1>6, <1>7 DEF TypeInv

-----------------------------------------------------------------------------
(* The documents and the trigger. *)

\* Only documents have changes on their way.
LEMMA PendingDocs ==
  ASSUME TypeOK
  PROVE  Pending \in SUBSET Docs
<1>1. \A i \in DOMAIN feed : feed[i] \in Changes
  BY DEF TypeOK
<1>2. \A i \in DOMAIN feed : feed[i].id \in Docs
  BY <1>1 DEF Changes
<1>3. \A e \in {held} \ {NoEvent} : e.id \in Docs
  BY EventFields DEF TypeOK
<1> QED
  BY <1>2, <1>3 DEF Pending

\* A change of a document keeps the type invariant.
LEMMA ChangeType ==
  ASSUME TypeInv, NEW d \in Docs, NEW v \in HostsOf[d] \cup {Absent},
         Change(d, v)
  PROVE  TypeInv'
<1>1. UNCHANGED <<gw, issuer, term, leading, mu, pc, plan, ev, watch, held,
                  faults>>
  BY DEF Change, runVars, trigVars
<1>2. v \in Values
  BY OrchestratorAssumption DEF Values
<1>3. db' \in Source /\ changes' \in 0..MaxChanges
  BY <1>2, OrchestratorAssumption DEF Change, Source, TypeInv, TypeOK
<1>4. feed' \in Seq(Changes) /\ missed' \in SUBSET Docs
  <2>1. PICK op \in {"write", "update", "delete"} :
          IF watch \in {"open", "sending"}
            THEN /\ feed' = Append(feed, [id |-> d, op |-> op, host |-> v])
                 /\ UNCHANGED missed
            ELSE missed' = missed \cup {d} /\ UNCHANGED feed
    BY DEF Change
  <2>2. [id |-> d, op |-> op, host |-> v] \in Changes
    BY <1>2 DEF Changes
  <2> QED
    BY <2>1, <2>2 DEF TypeInv, TypeOK
<1>5. TypeOK'
  BY <1>1, <1>3, <1>4 DEF TypeInv, TypeOK
<1>6. Consistent'
  BY <1>1 DEF TypeInv, Consistent
<1> QED
  BY <1>5, <1>6 DEF TypeInv

\* MapEvent makes an event, or skips the change.
LEMMA MapEventType ==
  ASSUME TypeOK, NEW c \in Changes
  PROVE  MapEvent(c) \in Events \cup {NoEvent}
BY DEF TypeOK, MapEvent, Changes, Events

\* The trigger's steps keep the type invariant.
LEMMA TriggerType ==
  ASSUME TypeInv, OpenStream \/ Deliver \/ TriggerFails
  PROVE  TypeInv'
<1>1. CASE OpenStream
  BY <1>1 DEF TypeInv, TypeOK, Consistent, OpenStream, envVars, runVars
<1>2. CASE Deliver
  <2>1. UNCHANGED <<db, gw, issuer, term, leading, mu, pc, plan, ev, changes,
                    faults, missed>>
    BY <1>2 DEF Deliver, runVars
  <2>2. Head(feed) \in Changes /\ Tail(feed) \in Seq(Changes)
    BY <1>2 DEF Deliver, TypeInv, TypeOK
  <2>3. /\ held' \in Events \cup {NoEvent}
        /\ watch' = IF held' = NoEvent THEN "open" ELSE "sending"
        /\ feed' \in Seq(Changes)
    BY <1>2, <2>2, MapEventType DEF Deliver, TypeInv
  <2>4. TypeOK'
    BY <2>1, <2>3 DEF TypeInv, TypeOK
  <2>5. Consistent'
    BY <2>1, <2>3 DEF TypeInv, Consistent
  <2> QED
    BY <2>4, <2>5 DEF TypeInv
<1>3. CASE TriggerFails
  <2>1. UNCHANGED <<db, gw, issuer, term, leading, mu, pc, plan, ev, held,
                    changes>>
    BY <1>3 DEF TriggerFails, runVars
  <2>2. /\ faults' \in 0..MaxFaults
        /\ feed' \in Seq(Changes)
        /\ missed' \in SUBSET Docs
        /\ watch' = "failed"
    BY <1>3, PendingDocs, OrchestratorAssumption
    DEF TriggerFails, TypeInv, TypeOK
  <2>3. TypeOK'
    BY <2>1, <2>2 DEF TypeInv, TypeOK
  <2>4. Consistent'
    BY <2>1, <2>2 DEF TypeInv, Consistent
  <2> QED
    BY <2>3, <2>4 DEF TypeInv
<1> QED
  BY <1>1, <1>2, <1>3

-----------------------------------------------------------------------------
(* main and the loop. *)

\* The start of trigger and loop keeps the type invariant.
LEMMA StartServicesType ==
  ASSUME TypeInv, NEW t \in Terms, StartServices(t)
  PROVE  TypeInv'
<1>1. UNCHANGED <<db, feed, gw, issuer, term, leading, mu, plan, ev, held,
                  changes, faults, missed>>
  BY DEF StartServices, envVars, runVars
<1>2. /\ pc' = [pc EXCEPT ![Main(t)] = "select",
                          ![Loop(t)] = IF Periodic THEN "wait" ELSE "off"]
      /\ watch' = "opening"
  BY DEF StartServices
<1>3. TypeOK'
  BY <1>1, <1>2, ThreadsOfTerms DEF TypeInv, TypeOK, PCs
<1>4. Consistent'
  BY <1>1, <1>2, ThreadsOfTerms, ThreadNames DEF TypeInv, TypeOK, Consistent
<1> QED
  BY <1>3, <1>4 DEF TypeInv

\* The receipt of an event keeps the type invariant.
LEMMA ReceiveType ==
  ASSUME TypeInv, NEW t \in Terms, Receive(t)
  PROVE  TypeInv'
<1>1. UNCHANGED <<db, feed, gw, issuer, term, leading, mu, plan, changes,
                  faults, missed>>
  BY DEF Receive, envVars, runVars
<1>2. /\ pc' = [pc EXCEPT ![Main(t)] = "lock"]
      /\ ev' = [ev EXCEPT ![t] = held]
      /\ held' = NoEvent
      /\ watch' = "open"
      /\ held \in Events
  BY DEF Receive, goto, TypeInv, Consistent
<1>3. TypeOK'
  BY <1>1, <1>2, ThreadsOfTerms DEF TypeInv, TypeOK, PCs
<1>4. Consistent'
  BY <1>1, <1>2, ThreadsOfTerms, ThreadNames DEF TypeInv, TypeOK, Consistent
<1> QED
  BY <1>3, <1>4 DEF TypeInv

\* The ends of the trigger and of run keep the type invariant.
LEMMA ReturnType ==
  ASSUME TypeInv, NEW t \in Terms, DisableTrigger(t) \/ Return(t)
  PROVE  TypeInv'
<1>1. CASE DisableTrigger(t)
  BY <1>1 DEF TypeInv, TypeOK, Consistent, DisableTrigger, envVars, runVars
<1>2. CASE Return(t)
  <2>1. UNCHANGED <<db, gw, issuer, term, leading, mu, plan, ev, changes,
                    faults>>
    BY <1>2 DEF Return, runVars
  <2>2. /\ pc' = [pc EXCEPT ![Main(t)] = "returned"]
        /\ watch' = "none"
        /\ held' = NoEvent
        /\ feed' \in Seq(Changes)
        /\ missed' \in SUBSET Docs
    BY <1>2, PendingDocs DEF Return, goto, TypeInv, TypeOK
  <2>3. TypeOK'
    BY <2>1, <2>2, ThreadsOfTerms DEF TypeInv, TypeOK, PCs
  <2>4. Consistent'
    BY <2>1, <2>2, ThreadsOfTerms, ThreadNames DEF TypeInv, TypeOK, Consistent
  <2> QED
    BY <2>3, <2>4 DEF TypeInv
<1> QED
  BY <1>1, <1>2

\* Taking the mutex for an event keeps the type invariant.
LEMMA LockEventType ==
  ASSUME TypeInv, NEW t \in Terms, LockEvent(t)
  PROVE  TypeInv'
<1>1. UNCHANGED <<db, feed, gw, issuer, term, leading, plan, ev, watch, held,
                  changes, faults, missed>>
  BY DEF LockEvent, envVars, runVars, trigVars
<1>2. /\ pc[Main(t)] = "lock"
      /\ mu' = Main(t)
      /\ pc' = [pc EXCEPT ![Main(t)] =
                  IF ev[t].host # Absent /\ ev[t].id \in TLSDocs
                    THEN "certify" ELSE "apply"]
  BY DEF LockEvent, goto
<1>3. TypeOK'
  BY <1>1, <1>2, ThreadsOfTerms DEF TypeInv, TypeOK, PCs, LockedPCs
<1>4. Consistent'
  BY <1>1, <1>2, ThreadsOfTerms, ThreadNames DEF TypeInv, TypeOK, Consistent
<1> QED
  BY <1>3, <1>4 DEF TypeInv

\* What is left when main is back in its select loop.
LEMMA EndEventInv ==
  ASSUME TypeInv, NEW t \in Terms, EndEvent(t),
         UNCHANGED <<db, feed, issuer, term, leading, watch, held, changes>>,
         gw' \in GatewayTable, faults' \in 0..MaxFaults,
         missed' \in SUBSET Docs
  PROVE  TypeInv'
<1>1. TypeOK'
  BY EndEventType DEF TypeInv, TypeOK
<1>2. Consistent'
  BY ThreadsOfTerms, ThreadNames
  DEF TypeInv, TypeOK, Consistent, EndEvent, goto, NoPlan
<1> QED
  BY <1>1, <1>2 DEF TypeInv

\* Issuing for an event keeps the type invariant.
LEMMA CertifyType ==
  ASSUME TypeInv, NEW t \in Terms, Certify(t)
  PROVE  TypeInv'
<1>1. ev[t] \in Events /\ ev[t].host \in Hosts /\ ev[t].id \in Docs
  BY EventFields DEF Certify, TypeInv, Consistent
<1>2. CASE /\ plan' = [plan EXCEPT ![Main(t)].certs = {ev[t].host}]
           /\ goto(Main(t), "apply")
           /\ UNCHANGED <<envVars, gw, issuer, runVars, mu, ev, trigVars,
                          changes, faults, missed>>
  <2>1. plan' \in [Threads -> Plan]
    BY <1>1, <1>2, PlanFields, ThreadsOfTerms DEF TypeInv, TypeOK, Plan
  <2>2. TypeOK'
    BY <1>2, <2>1, ThreadsOfTerms
    DEF TypeInv, TypeOK, goto, PCs, LockedPCs, envVars, runVars, trigVars
  <2>3. \A x \in Threads :
          plan'[x].add = plan[x].add /\ plan'[x].want = plan[x].want
    BY <1>2 DEF TypeInv, TypeOK, Plan
  <2>4. Consistent'
    BY <1>1, <1>2, <2>3, ThreadsOfTerms, ThreadNames
    DEF TypeInv, TypeOK, Consistent, goto, trigVars
  <2> QED
    BY <2>2, <2>4 DEF TypeInv
<1>3. CASE /\ Fails(Main(t))
           /\ missed' = missed \cup {ev[t].id}
           /\ EndEvent(t)
           /\ UNCHANGED <<envVars, gw, issuer, runVars, trigVars, changes>>
  <2>1. faults' \in 0..MaxFaults
    BY <1>3, FailsType DEF TypeInv, TypeOK
  <2>2. missed' \in SUBSET Docs /\ gw' \in GatewayTable
    BY <1>1, <1>3 DEF TypeInv, TypeOK
  <2> QED
    BY <1>3, <2>1, <2>2, EndEventInv DEF envVars, runVars, trigVars
<1>4. CASE ProcessEnds /\ UNCHANGED faults
  <2>1. TypeOK'
    BY <1>4, ProcessEndsType DEF TypeInv, TypeOK
  <2>2. Consistent'
    BY <1>4, ThreadsOfTerms DEF Consistent, ProcessEnds, NoPlan
  <2> QED
    BY <2>1, <2>2 DEF TypeInv
<1> QED
  BY <1>2, <1>3, <1>4 DEF Certify

\* Provision and Deprovision of an event keep the type invariant.
LEMMA ApplyType ==
  ASSUME TypeInv, NEW t \in Terms, Apply(t)
  PROVE  TypeInv'
<1>1. ev[t] \in Events /\ ev[t].host \in Hosts \cup {Absent} /\ ev[t].id \in Docs
  BY EventFields DEF Apply, TypeInv, Consistent
<1>2. gw' \in GatewayTable
  <2> DEFINE hasCert == ev[t].host \in plan[Main(t)].certs
  <2>1. hasCert \in BOOLEAN
    OBVIOUS
  <2>2. \/ gw' = gw
        \/ gw' = Deprovision(gw, ev[t].id)
        \/ /\ ev[t].host # Absent
           /\ gw' = Provision(gw, ev[t].id, ev[t].host, hasCert)
    BY DEF Apply
  <2> HIDE DEF hasCert
  <2> QED
    BY <1>1, <2>1, <2>2, DeprovisionOneType, ProvisionType
    DEF TypeInv, TypeOK
<1>3. faults' \in 0..MaxFaults /\ missed' \in SUBSET Docs
  BY <1>1, FailsType DEF Apply, TypeInv, TypeOK
<1> QED
  BY <1>2, <1>3, EndEventInv DEF Apply, envVars, runVars, trigVars

\* reconcileLoop keeps the type invariant.
LEMMA LoopType ==
  ASSUME TypeInv, NEW t \in Terms, LoopStep(t)
  PROVE  TypeInv'
<1>1. UNCHANGED <<db, feed, gw, issuer, term, leading, plan, ev, watch, held,
                  changes, faults, missed>>
  BY DEF LoopStep, Tick, LockCycle, Exit, envVars, runVars, trigVars
<1>2. /\ mu' \in {mu, Loop(t)}
      /\ \E label \in {"lock", "listDesired", "off"} :
           pc' = [pc EXCEPT ![Loop(t)] = label]
  BY DEF LoopStep, Tick, LockCycle, Exit, goto
<1>3. TypeOK'
  BY <1>1, <1>2, ThreadsOfTerms
  DEF TypeInv, TypeOK, PCs, LockedPCs, ReconcilePCs
<1>4. Consistent'
  BY <1>1, <1>2, ThreadsOfTerms, ThreadNames DEF TypeInv, TypeOK, Consistent
<1> QED
  BY <1>3, <1>4 DEF TypeInv

-----------------------------------------------------------------------------
(* The process. *)

\* Elections, starts and crashes keep the type invariant.
LEMMA ProcessType ==
  ASSUME TypeInv, StartTerm \/ LoseLeadership \/ Crash
  PROVE  TypeInv'
<1>1. CASE StartTerm
  <2>1. UNCHANGED <<db, feed, gw, issuer, mu, plan, ev, watch, held, changes,
                    faults, missed>>
    BY <1>1 DEF StartTerm, envVars, trigVars
  <2>2. term + 1 \in Terms /\ term' \in 0..MaxTerm
    BY <1>1, OrchestratorAssumption DEF StartTerm, Terms, TypeInv, TypeOK
  <2>3. /\ pc' = [pc EXCEPT ![Main(term + 1)] = "listDesired"]
        /\ leading' = TRUE
    BY <1>1 DEF StartTerm, goto
  <2>4. TypeOK'
    BY <2>1, <2>2, <2>3, ThreadsOfTerms
    DEF TypeInv, TypeOK, PCs, LockedPCs, ReconcilePCs
  <2>5. Consistent'
    BY <2>1, <2>2, <2>3, ThreadsOfTerms, ThreadNames
    DEF TypeInv, TypeOK, Consistent
  <2> QED
    BY <2>4, <2>5 DEF TypeInv
<1>2. CASE LoseLeadership
  BY <1>2 DEF TypeInv, TypeOK, Consistent, LoseLeadership, envVars, trigVars
<1>3. CASE Crash
  <2>1. faults' \in 0..MaxFaults /\ ProcessEnds
    BY <1>3, OrchestratorAssumption DEF Crash, TypeInv, TypeOK
  <2>2. TypeOK'
    BY <2>1, ProcessEndsType DEF TypeInv
  <2>3. Consistent'
    BY <2>1, ThreadsOfTerms DEF Consistent, ProcessEnds, NoPlan
  <2> QED
    BY <2>2, <2>3 DEF TypeInv
<1> QED
  BY <1>1, <1>2, <1>3

\* Every step keeps the type invariant.
LEMMA TypeStep == TypeInv /\ [Next]_vars => TypeInv'
<1> SUFFICES ASSUME TypeInv, [Next]_vars PROVE TypeInv'
  OBVIOUS
<1>1. ASSUME NEW d \in Docs, NEW v \in HostsOf[d] \cup {Absent}, Change(d, v)
      PROVE  TypeInv'
  BY <1>1, ChangeType
<1>2. CASE OpenStream \/ Deliver \/ TriggerFails
  BY <1>2, TriggerType
<1>3. ASSUME NEW th \in Threads, Reconcile(th) PROVE TypeInv'
  BY <1>3, ListDesiredType, ListActualType, RemoveType, IssueType, AddType
  DEF Reconcile
<1>4. ASSUME NEW t \in Terms, MainStep(t) PROVE TypeInv'
  BY <1>4, StartServicesType, ReceiveType, ReturnType, LockEventType,
     CertifyType, ApplyType DEF MainStep
<1>5. ASSUME NEW t \in Terms, LoopStep(t) PROVE TypeInv'
  BY <1>5, LoopType
<1>6. CASE StartTerm \/ LoseLeadership \/ Crash
  BY <1>6, ProcessType
<1>7. CASE UNCHANGED vars
  BY <1>7 DEF TypeInv, TypeOK, Consistent, vars
<1> QED
  BY <1>1, <1>2, <1>3, <1>4, <1>5, <1>6, <1>7 DEF Next

\* The variables keep their types, and with them what a goroutine's locals
\* hold fits the place where the goroutine is.
THEOREM TypesAlways == Spec => [](TypeOK /\ Consistent)
<1>1. Init => TypeInv
  BY TypeInit, ConsistentInit DEF TypeInv
<1>2. TypeInv => TypeOK /\ Consistent
  BY DEF TypeInv
<1> QED
  BY <1>1, <1>2, TypeStep, PTL DEF Spec

-----------------------------------------------------------------------------
(***************************************************************************)
(* Without leader election there is one term per process, its loop starts  *)
(* after the initial cycle, and from then on whoever works on the gateway  *)
(* holds the mutex.                                                        *)
(***************************************************************************)

Exclusive ==
  /\ \A th \in Threads :
       pc[th] # "off" => th[2] = term /\ leading /\ pc[th] # "returned"
  /\ \A t \in Terms :
       /\ pc[Main(t)] \in ReconcilePCs \cup {"start"} => pc[Loop(t)] = "off"
       /\ pc[Main(t)] \in {"certify", "apply"} => mu = Main(t)
       /\ pc[Loop(t)] \in ReconcilePCs => mu = Loop(t)
       /\ pc[Loop(t)] \notin {"certify", "apply"}

PlanInv == TypeInv /\ Exclusive /\ PlanCurrent

\* A goroutine is main or the loop of a term.
LEMMA ThreadCases ==
  ASSUME NEW th \in Threads
  PROVE  \E t \in Terms : /\ th[2] = t
                          /\ \/ th = Main(t) /\ th[1] = "main"
                             \/ th = Loop(t) /\ th[1] = "loop"
BY DEF Threads, Main, Loop

\* The parts of a goroutine's name.
LEMMA ThreadParts ==
  \A t \in Terms : /\ Main(t)[1] = "main" /\ Main(t)[2] = t
                   /\ Loop(t)[1] = "loop" /\ Loop(t)[2] = t
BY DEF Main, Loop

\* Two goroutines never work on the gateway at once.
LEMMA OneAtWork ==
  ASSUME Exclusive, NEW a \in Threads, NEW b \in Threads, a # b,
         pc[a] \in LockedPCs
  PROVE  pc[b] \notin LockedPCs
<1> SUFFICES ASSUME pc[b] \in LockedPCs PROVE FALSE
  OBVIOUS
<1>1. PICK t \in Terms : /\ a[2] = t
                         /\ \/ a = Main(t) /\ a[1] = "main"
                            \/ a = Loop(t) /\ a[1] = "loop"
  BY ThreadCases
<1>2. PICK u \in Terms : /\ b[2] = u
                         /\ \/ b = Main(u) /\ b[1] = "main"
                            \/ b = Loop(u) /\ b[1] = "loop"
  BY ThreadCases
<1>3. pc[a] # "off" /\ pc[b] # "off"
  BY DEF LockedPCs, ReconcilePCs
<1>4. t = u
  BY <1>1, <1>2, <1>3 DEF Exclusive
<1>5. CASE a = Main(t) /\ b = Loop(t)
  BY <1>3, <1>5, ThreadNames DEF Exclusive, LockedPCs
<1>6. CASE a = Loop(t) /\ b = Main(t)
  BY <1>3, <1>6, ThreadNames DEF Exclusive, LockedPCs
<1> QED
  BY <1>1, <1>2, <1>4, <1>5, <1>6

\* Nothing is at work initially.
LEMMA ExclusiveInit == Init => Exclusive /\ PlanCurrent
BY ThreadsOfTerms DEF Init, Exclusive, PlanCurrent, ReconcilePCs

\* Nothing is at work in a process that has died.
LEMMA ProcessEndsExclusive ==
  ASSUME ProcessEnds
  PROVE  Exclusive' /\ PlanCurrent'
BY ThreadsOfTerms DEF ProcessEnds, Exclusive, PlanCurrent, ReconcilePCs

\* A cycle that ends: the initial one before the loop starts, or the loop's.
LEMMA EndCycleExclusive ==
  ASSUME PlanInv, NEW th \in Threads, pc[th] \in ReconcilePCs, EndCycle(th),
         UNCHANGED <<term, leading>>
  PROVE  Exclusive'
<1>1. PICK t \in Terms : /\ th[2] = t
                         /\ \/ th = Main(t) /\ th[1] = "main"
                            \/ th = Loop(t) /\ th[1] = "loop"
  BY ThreadCases
<1>2. pc[th] # "off"
  BY DEF ReconcilePCs
<1>3. CASE th = Main(t) /\ th[1] = "main"
  BY <1>1, <1>2, <1>3, ThreadsOfTerms, ThreadNames
  DEF PlanInv, TypeInv, TypeOK, Exclusive, EndCycle, goto, Unlock, ReconcilePCs
<1>4. CASE th = Loop(t) /\ th[1] = "loop"
  BY <1>1, <1>2, <1>4, ThreadsOfTerms, ThreadNames
  DEF PlanInv, TypeInv, TypeOK, Exclusive, EndCycle, goto, Unlock, ReconcilePCs
<1> QED
  BY <1>1, <1>3, <1>4

\* The end of a cycle leaves no plan of its own, and nobody else has one.
LEMMA EndCyclePlans ==
  ASSUME PlanInv, NEW th \in Threads, pc[th] \in ReconcilePCs, EndCycle(th)
  PROVE  PlanCurrent'
<1>1. pc[th] \in LockedPCs
  BY DEF LockedPCs
<1>2. \A x \in Threads : pc'[x] \notin {"remove", "issue", "add"}
  <2> SUFFICES ASSUME NEW x \in Threads
               PROVE  pc'[x] \notin {"remove", "issue", "add"}
    OBVIOUS
  <2>1. CASE x = th
    BY <2>1 DEF EndCycle, goto, PlanInv, TypeInv, TypeOK
  <2>2. CASE x # th
    BY <1>1, <2>2, OneAtWork
    DEF EndCycle, goto, PlanInv, TypeInv, TypeOK, LockedPCs, ReconcilePCs
  <2> QED
    BY <2>1, <2>2
<1> QED
  BY <1>2 DEF PlanCurrent

\* A step of a cycle to the next one disturbs no other goroutine.
LEMMA CycleStepExclusive ==
  ASSUME PlanInv, NEW th \in Threads, pc[th] \in ReconcilePCs,
         NEW label \in ReconcilePCs, goto(th, label),
         UNCHANGED <<term, leading, mu>>
  PROVE  Exclusive'
<1>1. PICK t \in Terms : /\ th[2] = t
                         /\ \/ th = Main(t) /\ th[1] = "main"
                            \/ th = Loop(t) /\ th[1] = "loop"
  BY ThreadCases
<1>2. pc[th] # "off"
  BY DEF ReconcilePCs
<1>3. CASE th = Main(t)
  BY <1>1, <1>2, <1>3, ThreadsOfTerms, ThreadNames
  DEF PlanInv, TypeInv, TypeOK, Exclusive, goto, ReconcilePCs
<1>4. CASE th = Loop(t)
  BY <1>1, <1>2, <1>4, ThreadsOfTerms, ThreadNames
  DEF PlanInv, TypeInv, TypeOK, Exclusive, goto, ReconcilePCs
<1> QED
  BY <1>1, <1>3, <1>4

\* A step of a cycle keeps every plan current.
LEMMA ReconcileKeepsPlans ==
  ASSUME PlanInv, NEW th \in Threads, Reconcile(th)
  PROVE  Exclusive' /\ PlanCurrent'
<1>1. pc[th] \in ReconcilePCs /\ pc[th] \in LockedPCs
  BY DEF Reconcile, ListDesired, ListActual, Remove, Issue, Add, ReconcilePCs,
         LockedPCs
<1>2. \A x \in Threads \ {th} : pc[x] \notin {"remove", "issue", "add"}
  BY <1>1, OneAtWork DEF PlanInv, LockedPCs, ReconcilePCs
<1>3. CASE EndCycle(th) /\ UNCHANGED <<term, leading>>
  BY <1>1, <1>3, EndCycleExclusive, EndCyclePlans
<1>4. CASE ListDesired(th) /\ goto(th, "listActual") /\ UNCHANGED mu
  <2>1. Exclusive'
    BY <1>1, <1>4, CycleStepExclusive DEF ListDesired, runVars, ReconcilePCs
  <2>2. PlanCurrent'
    BY <1>2, <1>4 DEF PlanCurrent, goto, PlanInv, TypeInv, TypeOK
  <2> QED
    BY <2>1, <2>2
<1>5. CASE ListActual(th) /\ ~EndCycle(th)
  <2> DEFINE p == [plan[th] EXCEPT !.add = ToAdd(plan[th].want, gw),
                                   !.remove = ToRemove(plan[th].want, gw)]
             label == IF p.remove # {} THEN "remove" ELSE "issue"
  <2>1. /\ goto(th, label)
        /\ plan' = [plan EXCEPT ![th] = p]
        /\ UNCHANGED <<gw, term, leading, mu>>
    BY <1>5 DEF ListActual, runVars
  <2>2. label \in ReconcilePCs
    BY DEF ReconcilePCs
  <2>3. /\ p.want = plan[th].want
        /\ p.add = ToAdd(p.want, gw)
        /\ p.remove = ToRemove(p.want, gw)
    BY PlanFields DEF PlanInv, TypeInv, TypeOK, Plan
  <2> HIDE DEF p, label
  <2>4. Exclusive'
    BY <1>1, <2>1, <2>2, CycleStepExclusive
  <2>5. PlanCurrent'
    BY <1>2, <2>1, <2>3 DEF PlanCurrent, goto, PlanInv, TypeInv, TypeOK
  <2> QED
    BY <2>4, <2>5
<1>6. CASE Remove(th) /\ ~EndCycle(th)
  <2>1. goto(th, "issue") /\ UNCHANGED <<mu, plan, term, leading>>
    BY <1>6 DEF Remove, runVars
  <2>2. Exclusive'
    BY <1>1, <2>1, CycleStepExclusive DEF ReconcilePCs
  <2>3. PICK done \in SUBSET plan[th].remove : gw' = BatchDeprovision(gw, done)
    BY <1>6 DEF Remove
  <2>4. /\ pc[th] = "remove"
        /\ plan[th].add = ToAdd(plan[th].want, gw)
        /\ plan[th].remove = ToRemove(plan[th].want, gw)
    BY <1>6 DEF Remove, PlanInv, PlanCurrent
  <2>5. plan[th].add = ToAdd(plan[th].want, gw')
    BY <2>3, <2>4, PlanFields, RemovalKeepsAdd DEF PlanInv, TypeInv, TypeOK
  <2>6. PlanCurrent'
    BY <1>2, <2>1, <2>5 DEF PlanCurrent, goto, PlanInv, TypeInv, TypeOK
  <2> QED
    BY <2>2, <2>6
<1>7. CASE Issue(th)
  <2>1. CASE ProcessEnds
    BY <2>1, ProcessEndsExclusive
  <2>2. CASE goto(th, "add") /\ ~ProcessEnds
    <3>1. /\ UNCHANGED <<gw, term, leading, mu>>
          /\ \E S : plan' = [plan EXCEPT ![th].certs = S]
          /\ pc[th] = "issue"
      BY <1>7, <2>2 DEF Issue, runVars
    <3>2. \A x \in Threads :
            plan'[x].add = plan[x].add /\ plan'[x].want = plan[x].want
      BY <3>1 DEF PlanInv, TypeInv, TypeOK, Plan
    <3>3. Exclusive'
      BY <1>1, <2>2, <3>1, CycleStepExclusive DEF ReconcilePCs
    <3>4. PlanCurrent'
      BY <1>2, <2>2, <3>1, <3>2
      DEF PlanCurrent, goto, PlanInv, TypeInv, TypeOK
    <3> QED
      BY <3>3, <3>4
  <2> QED
    BY <1>7, <2>1, <2>2 DEF Issue
<1>8. CASE Add(th)
  BY <1>3, <1>8 DEF Add, runVars
<1> QED
  BY <1>3, <1>4, <1>5, <1>6, <1>7, <1>8
  DEF Reconcile, ListDesired, ListActual, Remove, runVars

\* No goroutine of this process sees a cancelled context.
LEMMA NeverCancelled ==
  ASSUME Exclusive, NEW th \in Threads, pc[th] # "off"
  PROVE  ~Cancelled(th)
BY DEF Exclusive, Cancelled

\* The rest of run and handleEvent keep every plan current.
LEMMA MainKeepsPlans ==
  ASSUME PlanInv, NEW t \in Terms, MainStep(t)
  PROVE  Exclusive' /\ PlanCurrent'
<1>1. CASE StartServices(t)
  <2>1. /\ pc[Main(t)] = "start"
        /\ pc' = [pc EXCEPT ![Main(t)] = "select",
                            ![Loop(t)] = IF Periodic THEN "wait" ELSE "off"]
        /\ UNCHANGED <<gw, term, leading, mu, plan>>
    BY <1>1 DEF StartServices, runVars
  <2>2. Main(t)[2] = term /\ leading
    BY <2>1, ThreadsOfTerms DEF PlanInv, Exclusive
  <2>3. Exclusive'
    BY <2>1, <2>2, ThreadsOfTerms, ThreadNames, ThreadParts
    DEF PlanInv, TypeInv, TypeOK, Exclusive, ReconcilePCs
  <2>4. PlanCurrent'
    BY <2>1 DEF PlanInv, TypeInv, TypeOK, PlanCurrent
  <2> QED
    BY <2>3, <2>4
<1>2. CASE Receive(t) \/ DisableTrigger(t)
  <2>1. /\ \/ pc' = pc
           \/ pc[Main(t)] = "select" /\ pc' = [pc EXCEPT ![Main(t)] = "lock"]
        /\ UNCHANGED <<gw, term, leading, mu, plan>>
    BY <1>2 DEF Receive, DisableTrigger, goto, runVars
  <2>2. Exclusive'
    BY <2>1, ThreadsOfTerms, ThreadNames
    DEF PlanInv, TypeInv, TypeOK, Exclusive, ReconcilePCs
  <2>3. PlanCurrent'
    BY <2>1 DEF PlanInv, TypeInv, TypeOK, PlanCurrent
  <2> QED
    BY <2>2, <2>3
<1>3. CASE Return(t)
  BY <1>3, NeverCancelled, ThreadsOfTerms DEF Return, PlanInv
<1>4. CASE LockEvent(t)
  <2>1. /\ pc[Main(t)] = "lock"
        /\ mu = Free /\ mu' = Main(t)
        /\ \E label \in {"certify", "apply"} :
             pc' = [pc EXCEPT ![Main(t)] = label]
        /\ UNCHANGED <<gw, term, leading, plan>>
    BY <1>4 DEF LockEvent, goto, runVars
  <2>2. \A u \in Terms : mu # Main(u) /\ mu # Loop(u)
    BY <2>1, ThreadsOfTerms, OrchestratorAssumption
  <2>3. Exclusive'
    BY <2>1, <2>2, ThreadsOfTerms, ThreadNames
    DEF PlanInv, TypeInv, TypeOK, Exclusive, ReconcilePCs
  <2>4. PlanCurrent'
    BY <2>1 DEF PlanInv, TypeInv, TypeOK, PlanCurrent
  <2> QED
    BY <2>3, <2>4
<1>5. CASE ProcessEnds
  BY <1>5, ProcessEndsExclusive
<1>6. CASE Certify(t) /\ goto(Main(t), "apply") /\ ~ProcessEnds
  <2>1. /\ pc[Main(t)] = "certify"
        /\ pc' = [pc EXCEPT ![Main(t)] = "apply"]
        /\ UNCHANGED <<gw, term, leading, mu>>
    BY <1>6, ThreadsOfTerms
    DEF Certify, goto, runVars, EndEvent, PlanInv, TypeInv, TypeOK
  <2>2. /\ \E S : plan' = [plan EXCEPT ![Main(t)].certs = S]
        /\ pc'[Main(t)] = "apply"
    BY <1>6, <2>1, ThreadsOfTerms
    DEF Certify, goto, EndEvent, PlanInv, TypeInv, TypeOK
  <2>3. Exclusive'
    BY <2>1, ThreadsOfTerms, ThreadNames
    DEF PlanInv, TypeInv, TypeOK, Exclusive, ReconcilePCs
  <2>4. \A x \in Threads :
          /\ plan'[x].add = plan[x].add
          /\ plan'[x].want = plan[x].want
          /\ plan'[x].remove = plan[x].remove
    BY <2>2 DEF PlanInv, TypeInv, TypeOK, Plan
  <2>5. PlanCurrent'
    BY <2>1, <2>4 DEF PlanInv, TypeInv, TypeOK, PlanCurrent
  <2> QED
    BY <2>3, <2>5
<1>7. CASE (Certify(t) \/ Apply(t)) /\ EndEvent(t) /\ ~ProcessEnds
  <2>1. /\ pc[Main(t)] \in {"certify", "apply"}
        /\ pc' = [pc EXCEPT ![Main(t)] = "select"]
        /\ mu' = Free
        /\ UNCHANGED <<term, leading>>
    BY <1>7 DEF Certify, Apply, EndEvent, goto, runVars
  <2>2. pc[Main(t)] \in LockedPCs /\ pc[Main(t)] # "off"
    BY <2>1 DEF LockedPCs
  <2>3. \A x \in Threads \ {Main(t)} : pc[x] \notin LockedPCs
    BY <2>2, ThreadsOfTerms, OneAtWork DEF PlanInv
  <2>4. Exclusive'
    BY <2>1, <2>2, <2>3, ThreadsOfTerms, ThreadNames
    DEF PlanInv, TypeInv, TypeOK, Exclusive, ReconcilePCs, LockedPCs
  <2>5. \A x \in Threads : pc'[x] \notin {"remove", "issue", "add"}
    BY <2>1, <2>3, ThreadsOfTerms
    DEF PlanInv, TypeInv, TypeOK, LockedPCs, ReconcilePCs
  <2>6. PlanCurrent'
    BY <2>5 DEF PlanCurrent
  <2> QED
    BY <2>4, <2>6
<1> QED
  BY <1>1, <1>2, <1>3, <1>4, <1>5, <1>6, <1>7 DEF MainStep, Certify, Apply

\* reconcileLoop keeps every plan current.
LEMMA LoopKeepsPlans ==
  ASSUME PlanInv, NEW t \in Terms, LoopStep(t)
  PROVE  Exclusive' /\ PlanCurrent'
<1>1. CASE Tick(t)
  <2>1. /\ pc[Loop(t)] = "wait"
        /\ pc' = [pc EXCEPT ![Loop(t)] = "lock"]
        /\ UNCHANGED <<gw, term, leading, mu, plan>>
    BY <1>1 DEF Tick, goto, runVars
  <2>2. Exclusive'
    BY <2>1, ThreadsOfTerms, ThreadNames
    DEF PlanInv, TypeInv, TypeOK, Exclusive, ReconcilePCs
  <2>3. PlanCurrent'
    BY <2>1 DEF PlanInv, TypeInv, TypeOK, PlanCurrent
  <2> QED
    BY <2>2, <2>3
<1>2. CASE LockCycle(t)
  <2>1. /\ pc[Loop(t)] = "lock"
        /\ mu = Free /\ mu' = Loop(t)
        /\ pc' = [pc EXCEPT ![Loop(t)] = "listDesired"]
        /\ UNCHANGED <<gw, term, leading, plan>>
    BY <1>2 DEF LockCycle, goto, runVars
  <2>2. \A u \in Terms : mu # Main(u) /\ mu # Loop(u)
    BY <2>1, ThreadsOfTerms, OrchestratorAssumption
  <2>3. Exclusive'
    BY <2>1, <2>2, ThreadsOfTerms, ThreadNames
    DEF PlanInv, TypeInv, TypeOK, Exclusive, ReconcilePCs
  <2>4. PlanCurrent'
    BY <2>1 DEF PlanInv, TypeInv, TypeOK, PlanCurrent
  <2> QED
    BY <2>3, <2>4
<1>3. CASE Exit(t)
  BY <1>3, NeverCancelled, ThreadsOfTerms DEF Exit, PlanInv
<1> QED
  BY <1>1, <1>2, <1>3 DEF LoopStep

\* Every step of a process that is elected once keeps every plan current.
LEMMA PlanStep ==
  ASSUME ~Elect, PlanInv, [Next]_vars
  PROVE  PlanInv'
<1>1. TypeInv'
  BY TypeStep DEF PlanInv
<1>2. CASE \/ \E d \in Docs : \E v \in HostsOf[d] \cup {Absent} : Change(d, v)
           \/ OpenStream \/ Deliver \/ TriggerFails
           \/ UNCHANGED vars
  <2>1. UNCHANGED <<gw, term, leading, mu, pc, plan>>
    BY <1>2 DEF Change, OpenStream, Deliver, TriggerFails, vars, runVars
  <2>2. Exclusive' /\ PlanCurrent'
    BY <2>1 DEF PlanInv, Exclusive, PlanCurrent
  <2> QED
    BY <1>1, <2>2 DEF PlanInv
<1>3. ASSUME NEW th \in Threads, Reconcile(th) PROVE PlanInv'
  BY <1>1, <1>3, ReconcileKeepsPlans DEF PlanInv
<1>4. ASSUME NEW t \in Terms, MainStep(t) \/ LoopStep(t) PROVE PlanInv'
  BY <1>1, <1>4, MainKeepsPlans, LoopKeepsPlans DEF PlanInv
<1>5. CASE StartTerm
  <2>1. pc[Main(term)] # "returned" \/ term \notin Terms
    BY ThreadsOfTerms DEF PlanInv, Exclusive
  <2>2. term = 0 /\ term' = 1 /\ leading' = TRUE
    BY <1>5, <2>1 DEF StartTerm, Terms, PlanInv, TypeInv, TypeOK
  <2>3. 1 \in Terms /\ 0 \notin Terms
    BY OrchestratorAssumption DEF Terms
  <2>4. \A th \in Threads : pc[th] = "off"
    BY <2>2, <2>3, ThreadCases DEF PlanInv, Exclusive
  <2>5. /\ pc' = [pc EXCEPT ![Main(1)] = "listDesired"]
        /\ UNCHANGED <<gw, mu, plan>>
    BY <1>5, <2>2 DEF StartTerm, goto
  <2>6. Exclusive'
    BY <2>2, <2>3, <2>4, <2>5, ThreadsOfTerms, ThreadNames, ThreadParts
    DEF PlanInv, TypeInv, TypeOK, Exclusive, ReconcilePCs
  <2>7. PlanCurrent'
    BY <2>3, <2>4, <2>5 DEF PlanInv, TypeInv, TypeOK, PlanCurrent
  <2> QED
    BY <1>1, <2>6, <2>7 DEF PlanInv
<1>6. CASE LoseLeadership
  BY <1>6 DEF LoseLeadership
<1>7. CASE Crash
  BY <1>1, <1>7, ProcessEndsExclusive DEF Crash, PlanInv
<1> QED
  BY <1>2, <1>3, <1>4, <1>5, <1>6, <1>7 DEF Next

\* Without leader election the mutex, and the order in which run starts its
\* goroutines, keep the plan of every cycle the true difference between the
\* documents it listed and the gateway, from the listing to the last batch.
THEOREM PlansStayCurrent ==
  ASSUME ~Elect
  PROVE  Spec => []PlanCurrent
<1>1. Init => PlanInv
  BY TypeInit, ConsistentInit, ExclusiveInit DEF PlanInv, TypeInv
<1>2. PlanInv /\ [Next]_vars => PlanInv'
  BY PlanStep
<1>3. PlanInv => PlanCurrent
  BY DEF PlanInv
<1> QED
  BY <1>1, <1>2, <1>3, PTL DEF Spec
=============================================================================
