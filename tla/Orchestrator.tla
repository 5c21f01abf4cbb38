---------------------------- MODULE Orchestrator ----------------------------
(***************************************************************************)
(* One instance of the program: core/orchestrator with the reconciler, the *)
(* change-stream trigger, the document source and the gateway it drives.   *)
(*                                                                         *)
(* Every call of Orchestrator.run is a term.  A term has two goroutines    *)
(* that touch the gateway: "main" runs the initial reconciliation and then *)
(* the select loop over the trigger's events, "loop" is reconcileLoop.     *)
(* Nothing waits for the loop of an old term: after a lost leadership it   *)
(* may still be at work when the next term begins.  The trigger's          *)
(* goroutine only sends to its own term's channel, so the one of the       *)
(* current term is all there is to model.                                  *)
(*                                                                         *)
(* Calls to the source, the issuer and the gateway are separate steps, and *)
(* everything else may happen between them.                                *)
(***************************************************************************)
EXTENDS Reconciler, Integers, Sequences

CONSTANTS
  TLSDocs,     \* documents of the collections whose mapper sets TLS
  HostsOf,     \* HostsOf[d]: the hosts (or Blank) that d may carry
  Issuers,     \* the kinds of issuer a deployment may configure
  Periodic,    \* reconcileInterval > 0
  Elect,       \* WithLeaderElection is set
  MaxTerm,     \* bound: terms of one process
  MaxChanges,  \* bound: changes of documents
  MaxFaults,   \* bound: failed calls, stream errors and crashes
  NoEvent,     \* "no event here"
  Free         \* "nobody holds the mutex"

Terms   == 1..MaxTerm
Threads == {"main", "loop"} \X Terms
Events  == [id : Docs, host : Hosts \cup {Absent}]
Changes == [id : Docs, op : {"write", "update", "delete"}, host : Values]

ASSUME OrchestratorAssumption ==
  /\ TLSDocs \subseteq Docs
  /\ HostsOf \in [Docs -> SUBSET (Hosts \cup {Blank})]
  /\ Issuers \subseteq {"real", "none"}
  /\ Periodic \in BOOLEAN
  /\ Elect \in BOOLEAN
  /\ MaxTerm \in Nat \ {0}
  /\ MaxChanges \in Nat
  /\ MaxFaults \in Nat
  /\ NoEvent \notin Events
  /\ Free \notin Threads

VARIABLES
  db,       \* the documents
  feed,     \* changes the open change stream has not delivered yet
  gw,       \* the gateway's routes
  issuer,   \* the configured kind of issuer
  term,     \* the current term, 0 while the process is down
  leading,  \* the context of the current term is not cancelled
  mu,       \* holder of the orchestrator's mutex
  pc,       \* pc[th]: the next step of a goroutine
  plan,     \* plan[th]: the locals of Reconcile, or of provisionRoute
  ev,       \* ev[t]: the event that main of term t is handling
  watch,    \* where the trigger of the current term is
  held,     \* the event it blocks on sending
  changes,  \* changes of documents still to come
  faults,   \* failures still to come
  missed    \* history: documents that a change or a plan was lost of

envVars  == <<db, feed>>
runVars  == <<term, leading>>
trigVars == <<watch, held>>
vars == <<db, feed, gw, issuer, term, leading, mu, pc, plan, ev, watch, held,
          changes, faults, missed>>

Main(t) == <<"main", t>>
Loop(t) == <<"loop", t>>

ReconcilePCs == {"listDesired", "listActual", "remove", "issue", "add"}
LockedPCs    == ReconcilePCs \cup {"certify", "apply"}
PCs == {"off", "start", "select", "wait", "lock", "returned"} \cup LockedPCs

-----------------------------------------------------------------------------
(* Helpers. *)

\* The context of the term that th belongs to is cancelled.
Cancelled(th) == th[2] # term \/ ~leading

\* Once its context is cancelled a call fails or not, whatever the budget.
Fails(th) == IF Cancelled(th) THEN UNCHANGED faults
                              ELSE faults > 0 /\ faults' = faults - 1

goto(th, label) == pc' = [pc EXCEPT ![th] = label]

Unlock(th) == mu' = IF mu = th THEN Free ELSE mu

\* Documents with a change on its way from the stream to the gateway.
Pending == {feed[i].id : i \in DOMAIN feed}
             \cup {e.id : e \in {held} \ {NoEvent}}
InHand  == {e.id : e \in {ev[t] : t \in Terms} \ {NoEvent}}

\* Reconcile returns: run starts the trigger, reconcileLoop unlocks and waits.
EndCycle(th) ==
  /\ goto(th, IF th[1] = "main" THEN "start" ELSE "wait")
  /\ Unlock(th)
  /\ plan' = [plan EXCEPT ![th] = NoPlan]

\* handleEvent returns.
EndEvent(t) ==
  /\ goto(Main(t), "select")
  /\ mu' = Free
  /\ plan' = [plan EXCEPT ![Main(t)] = NoPlan]
  /\ ev' = [ev EXCEPT ![t] = NoEvent]

\* The process dies with everything it has in memory, the routes of
\* provisioner-log (the provisioner keyed by document) among it.
ProcessEnds ==
  /\ term' = 0
  /\ leading' = FALSE
  /\ mu' = Free
  /\ pc' = [th \in Threads |-> "off"]
  /\ plan' = [th \in Threads |-> NoPlan]
  /\ ev' = [t \in Terms |-> NoEvent]
  /\ watch' = "none"
  /\ held' = NoEvent
  /\ feed' = <<>>
  /\ gw' = IF KeyByHost THEN gw ELSE NoRoutes
  /\ missed' = Docs
  /\ UNCHANGED <<db, issuer, changes>>

-----------------------------------------------------------------------------
(* The documents change.  The change stream, once open, records it. *)

Change(d, v) ==
  /\ changes > 0
  /\ v # db[d]
  /\ changes' = changes - 1
  /\ db' = [db EXCEPT ![d] = v]
  /\ \E op \in {"write", "update", "delete"} :
       /\ op = "delete" <=> v = Absent
       /\ op = "update" => db[d] # Absent
       /\ IF watch \in {"open", "sending"}
            THEN /\ feed' = Append(feed, [id |-> d, op |-> op, host |-> v])
                 /\ UNCHANGED missed
            ELSE /\ missed' = missed \cup {d}
                 /\ UNCHANGED feed
  /\ UNCHANGED <<gw, issuer, runVars, mu, pc, plan, ev, trigVars, faults>>

-----------------------------------------------------------------------------
(* The trigger: MongoTrigger.Start. *)

OpenStream ==
  /\ watch = "opening"
  /\ watch' = "open"
  /\ UNCHANGED <<envVars, gw, issuer, runVars, mu, pc, plan, ev, held,
                 changes, faults, missed>>

\* Mutant: nothing is skipped, and a
\* delete is a document without a host.
MapEventMutant(c) ==
  [id |-> c.id, host |-> IF c.op = "update" THEN db[c.id]
                         ELSE IF c.op = "delete" THEN Blank ELSE c.host]

(***************************************************************************)
(* MapEvent of the next change.  An insert or a replace carries the        *)
(* document as written, an update is looked up when it is delivered, and a *)
(* delete carries the id alone.  A document without a usable host, and an  *)
(* update of a document that is gone, are skipped.                         *)
(***************************************************************************)
MapEvent(c) ==
  LET host == IF c.op = "update" THEN db[c.id] ELSE c.host
  IN  IF c.op = "delete" THEN [id |-> c.id, host |-> Absent]
      ELSE IF host \in Hosts THEN [id |-> c.id, host |-> host]
      ELSE NoEvent

Deliver ==
  /\ watch = "open"
  /\ feed # <<>>
  /\ feed' = Tail(feed)
  /\ held' = MapEvent(Head(feed))
  /\ watch' = IF held' = NoEvent THEN "open" ELSE "sending"
  /\ UNCHANGED <<db, gw, issuer, runVars, mu, pc, plan, ev, changes, faults,
                 missed>>

\* The stream cannot be opened, breaks, or holds a change that MapEvent
\* refuses.  Start returns, and the error waits in triggerErrCh.
TriggerFails ==
  /\ watch \in {"opening", "open"}
  /\ IF leading THEN faults > 0 /\ faults' = faults - 1 ELSE UNCHANGED faults
  /\ watch' = "failed"
  /\ feed' = <<>>
  /\ missed' = missed \cup Pending
  /\ UNCHANGED <<db, gw, issuer, runVars, mu, pc, plan, ev, held, changes>>

-----------------------------------------------------------------------------
(* Reconciler.Reconcile, by main of a new term or by a loop. *)

ListDesired(th) ==
  /\ pc[th] = "listDesired"
  /\ \/ /\ goto(th, "listActual")
        /\ plan' = [plan EXCEPT ![th] = [NoPlan EXCEPT !.want = db]]
        /\ missed' = missed \cap (Pending \cup InHand)
        /\ UNCHANGED <<mu, faults>>
     \/ /\ Fails(th)
        /\ EndCycle(th)
        /\ UNCHANGED missed
  /\ UNCHANGED <<envVars, gw, issuer, runVars, ev, trigVars, changes>>

\* The gateway's List, and diff on the two listings.
ListActual(th) ==
  /\ pc[th] = "listActual"
  /\ \/ LET p == [plan[th] EXCEPT !.add = ToAdd(plan[th].want, gw),
                                  !.remove = ToRemove(plan[th].want, gw)]
        IN  /\ IF p.add = {} /\ p.remove = {}
                 THEN EndCycle(th)
                 ELSE /\ goto(th, IF p.remove # {} THEN "remove" ELSE "issue")
                      /\ plan' = [plan EXCEPT ![th] = p]
                      /\ UNCHANGED mu
            /\ UNCHANGED <<faults, missed>>
     \/ /\ Fails(th)
        /\ EndCycle(th)
        /\ missed' = Docs
  /\ UNCHANGED <<envVars, gw, issuer, runVars, ev, trigVars, changes>>

\* BatchDeprovision.  An error, after any part of the batch, is only logged.
Remove(th) ==
  /\ pc[th] = "remove"
  /\ \E done \in SUBSET plan[th].remove :
       /\ gw' = BatchDeprovision(gw, done)
       /\ IF done = plan[th].remove
            THEN UNCHANGED <<faults, missed>>
            ELSE Fails(th) /\ missed' = Docs
  /\ IF plan[th].add # {}
       THEN goto(th, "issue") /\ UNCHANGED <<mu, plan>>
       ELSE EndCycle(th)
  /\ UNCHANGED <<envVars, issuer, runVars, ev, trigVars, changes>>

(***************************************************************************)
(* Issue for every TLS route to add.  A route whose certificate cannot be  *)
(* had stays in the batch.  An issuer that returns no certificate and no   *)
(* error ends the process: the log line reads cert.IssuerName.             *)
(***************************************************************************)
Issue(th) ==
  /\ pc[th] = "issue"
  /\ LET secure == plan[th].add \cap TLSDocs
     IN  \/ /\ secure = {} \/ issuer = "real"
            /\ \E failed \in SUBSET secure :
                 /\ plan' = [plan EXCEPT ![th].certs =
                               {plan[th].want[d] : d \in secure \ failed}]
                 /\ IF failed = {} THEN UNCHANGED faults ELSE Fails(th)
            /\ goto(th, "add")
            /\ UNCHANGED <<envVars, gw, issuer, runVars, mu, ev, trigVars,
                           changes, missed>>
         \/ /\ secure # {} /\ issuer = "none"
            /\ ProcessEnds
            /\ UNCHANGED faults

\* BatchProvision, of which an error may leave any part undone.
Add(th) ==
  /\ pc[th] = "add"
  /\ \E done \in SUBSET plan[th].add :
       /\ gw' = BatchProvision(gw, done, plan[th].want, plan[th].certs)
       /\ IF done = plan[th].add
            THEN UNCHANGED <<faults, missed>>
            ELSE Fails(th) /\ missed' = Docs
  /\ EndCycle(th)
  /\ UNCHANGED <<envVars, issuer, runVars, ev, trigVars, changes>>

Reconcile(th) ==
  ListDesired(th) \/ ListActual(th) \/ Remove(th) \/ Issue(th) \/ Add(th)

-----------------------------------------------------------------------------
(* main: the rest of Orchestrator.run, and handleEvent. *)

\* The trigger's goroutine and reconcileLoop are started.
StartServices(t) ==
  /\ pc[Main(t)] = "start"
  /\ pc' = [pc EXCEPT ![Main(t)] = "select",
                      ![Loop(t)] = IF Periodic THEN "wait" ELSE "off"]
  /\ watch' = "opening"
  /\ UNCHANGED <<envVars, gw, issuer, runVars, mu, plan, ev, held, changes,
                 faults, missed>>

Receive(t) ==
  /\ pc[Main(t)] = "select"
  /\ watch = "sending"
  /\ goto(Main(t), "lock")
  /\ ev' = [ev EXCEPT ![t] = held]
  /\ held' = NoEvent
  /\ watch' = "open"
  /\ UNCHANGED <<envVars, gw, issuer, runVars, mu, plan, changes, faults,
                 missed>>

\* Reconciliation only from here on: the trigger is not started again.
DisableTrigger(t) ==
  /\ pc[Main(t)] = "select"
  /\ watch = "failed"
  /\ watch' = "gone"
  /\ UNCHANGED <<envVars, gw, issuer, runVars, mu, pc, plan, ev, held, changes,
                 faults, missed>>

Return(t) ==
  /\ pc[Main(t)] = "select"
  /\ Cancelled(Main(t))
  /\ goto(Main(t), "returned")
  /\ watch' = "none"
  /\ held' = NoEvent
  /\ feed' = <<>>
  /\ missed' = missed \cup Pending
  /\ UNCHANGED <<db, gw, issuer, runVars, mu, plan, ev, changes, faults>>

\* Mutant: the event is handled without the mutex.
LockEventMutant(t) ==
  /\ pc[Main(t)] = "lock"
  /\ mu' = Main(t)
  /\ goto(Main(t), IF ev[t].host # Absent /\ ev[t].id \in TLSDocs
                     THEN "certify" ELSE "apply")
  /\ UNCHANGED <<envVars, gw, issuer, runVars, plan, ev, trigVars, changes,
                 faults, missed>>

LockEvent(t) ==
  /\ pc[Main(t)] = "lock"
  /\ mu = Free
  /\ mu' = Main(t)
  /\ goto(Main(t), IF ev[t].host # Absent /\ ev[t].id \in TLSDocs
                     THEN "certify" ELSE "apply")
  /\ UNCHANGED <<envVars, gw, issuer, runVars, plan, ev, trigVars, changes,
                 faults, missed>>

\* An event whose certificate cannot be issued is dropped; a nil
\* certificate without an error ends the process, as in Issue.
Certify(t) ==
  /\ pc[Main(t)] = "certify"
  /\ \/ /\ issuer = "real"
        /\ plan' = [plan EXCEPT ![Main(t)].certs = {ev[t].host}]
        /\ goto(Main(t), "apply")
        /\ UNCHANGED <<envVars, gw, issuer, runVars, mu, ev, trigVars,
                       changes, faults, missed>>
     \/ /\ issuer = "real"
        /\ Fails(Main(t))
        /\ missed' = missed \cup {ev[t].id}
        /\ EndEvent(t)
        /\ UNCHANGED <<envVars, gw, issuer, runVars, trigVars, changes>>
     \/ /\ issuer = "none"
        /\ ProcessEnds
        /\ UNCHANGED faults

\* Provision, or for a delete Deprovision with the document's id.
Apply(t) ==
  /\ pc[Main(t)] = "apply"
  /\ \/ /\ gw' = IF ev[t].host = Absent
                   THEN Deprovision(gw, ev[t].id)
                   ELSE Provision(gw, ev[t].id, ev[t].host,
                                  ev[t].host \in plan[Main(t)].certs)
        /\ UNCHANGED <<faults, missed>>
     \/ /\ Fails(Main(t))
        /\ missed' = missed \cup {ev[t].id}
        /\ UNCHANGED gw
  /\ EndEvent(t)
  /\ UNCHANGED <<envVars, issuer, runVars, trigVars, changes>>

-----------------------------------------------------------------------------
(* reconcileLoop. *)

\* With a cancelled context the select may still choose the ticker.
Tick(t) ==
  /\ pc[Loop(t)] = "wait"
  /\ goto(Loop(t), "lock")
  /\ UNCHANGED <<envVars, gw, issuer, runVars, mu, plan, ev, trigVars, changes,
                 faults, missed>>

\* Mutant: the cycle does not wait for the mutex.
LockCycleMutant(t) ==
  /\ pc[Loop(t)] = "lock"
  /\ mu' = Loop(t)
  /\ goto(Loop(t), "listDesired")
  /\ UNCHANGED <<envVars, gw, issuer, runVars, plan, ev, trigVars, changes,
                 faults, missed>>

LockCycle(t) ==
  /\ pc[Loop(t)] = "lock"
  /\ mu = Free
  /\ mu' = Loop(t)
  /\ goto(Loop(t), "listDesired")
  /\ UNCHANGED <<envVars, gw, issuer, runVars, plan, ev, trigVars, changes,
                 faults, missed>>

Exit(t) ==
  /\ pc[Loop(t)] = "wait"
  /\ Cancelled(Loop(t))
  /\ goto(Loop(t), "off")
  /\ UNCHANGED <<envVars, gw, issuer, runVars, mu, plan, ev, trigVars, changes,
                 faults, missed>>

-----------------------------------------------------------------------------
(* The process, and its leadership. *)

\* Run calls run: the process starts, or the elector acquires the lease
\* again, which it does not try before run has returned.
StartTerm ==
  /\ \/ term = 0
     \/ term > 0 /\ term < MaxTerm /\ pc[Main(term)] = "returned"
  /\ term' = term + 1
  /\ leading' = TRUE
  /\ goto(Main(term + 1), "listDesired")
  /\ UNCHANGED <<envVars, gw, issuer, mu, plan, ev, trigVars, changes, faults,
                 missed>>

\* The elector cancels the leader's context.
LoseLeadership ==
  /\ Elect
  /\ leading
  /\ term < MaxTerm
  /\ leading' = FALSE
  /\ UNCHANGED <<envVars, gw, issuer, term, mu, pc, plan, ev, trigVars, changes,
                 faults, missed>>

Crash ==
  /\ term > 0
  /\ faults > 0
  /\ faults' = faults - 1
  /\ ProcessEnds

-----------------------------------------------------------------------------

Init ==
  /\ db \in {f \in Source : \A d \in Docs : f[d] \in HostsOf[d] \cup {Absent}}
  /\ feed = <<>>
  /\ gw = NoRoutes
  /\ issuer \in Issuers
  /\ term = 0
  /\ leading = FALSE
  /\ mu = Free
  /\ pc = [th \in Threads |-> "off"]
  /\ plan = [th \in Threads |-> NoPlan]
  /\ ev = [t \in Terms |-> NoEvent]
  /\ watch = "none"
  /\ held = NoEvent
  /\ changes = MaxChanges
  /\ faults = MaxFaults
  /\ missed = Docs

MainStep(t) ==
  \/ StartServices(t) \/ Receive(t) \/ DisableTrigger(t) \/ Return(t)
  \/ LockEvent(t) \/ Certify(t) \/ Apply(t)

LoopStep(t) == Tick(t) \/ LockCycle(t) \/ Exit(t)

Next ==
  \/ \E d \in Docs : \E v \in HostsOf[d] \cup {Absent} : Change(d, v)
  \/ OpenStream \/ Deliver \/ TriggerFails
  \/ \E th \in Threads : Reconcile(th)
  \/ \E t \in Terms : MainStep(t) \/ LoopStep(t)
  \/ StartTerm \/ LoseLeadership \/ Crash

Spec == Init /\ [][Next]_vars

-----------------------------------------------------------------------------
(***************************************************************************)
(* Fairness: the scheduler runs every goroutine, every call returns, the   *)
(* ticker fires, and a process that died is started again.  Go's mutex     *)
(* does not starve a waiter, so a goroutine that finds the mutex free      *)
(* again and again gets it: strong fairness, of the goroutine's one next   *)
(* step.  Nothing makes a loop choose its cancelled context over its       *)
(* ticker; documents, faults and elections are free to stop.               *)
(***************************************************************************)
Fairness ==
  /\ \A t \in Terms :
       /\ SF_vars(Reconcile(Main(t)) \/ MainStep(t))
       /\ SF_vars(Reconcile(Loop(t)) \/ LoopStep(t))
  /\ WF_vars(OpenStream \/ Deliver)
  /\ WF_vars(StartTerm)

FairSpec == Spec /\ Fairness

-----------------------------------------------------------------------------
(* Properties. *)

TypeOK ==
  /\ db \in Source
  /\ feed \in Seq(Changes)
  /\ gw \in GatewayTable
  /\ issuer \in Issuers
  /\ term \in 0..MaxTerm
  /\ leading \in BOOLEAN
  /\ mu \in Threads \cup {Free}
  /\ pc \in [Threads -> PCs]
  /\ plan \in [Threads -> Plan]
  /\ ev \in [Terms -> Events \cup {NoEvent}]
  /\ watch \in {"none", "opening", "open", "sending", "failed", "gone"}
  /\ held \in Events \cup {NoEvent}
  /\ changes \in 0..MaxChanges
  /\ faults \in 0..MaxFaults
  /\ missed \in SUBSET Docs

\* The mutex does what it is for: from the gateway's listing to the last
\* batch of a cycle, the plan of Reconcile is the diff between the documents
\* as it listed them and the gateway as it is now, whatever events and other
\* cycles do in the meantime (orchestrator.go, the comment on mu).  Without
\* leader election only: see InitialReconcileAlone.
PlanCurrent ==
  \A th \in Threads :
    /\ pc[th] \in {"remove", "issue", "add"} =>
         plan[th].add = ToAdd(plan[th].want, gw)
    /\ pc[th] = "remove" =>
         plan[th].remove = ToRemove(plan[th].want, gw)

\* The host the gateway has for d, for a provisioner keyed by document.
RoutedHost(d) == IF gw[d] = Unrouted THEN Absent ELSE gw[d].host

Reconciling ==
  \E th \in Threads : pc[th] \in ReconcilePCs \ {"listDesired"}

\* Nothing is lost between the change stream, the reconciler and the mutex:
\* a route that differs from its document has a change of that document on
\* its way to the gateway, or a cycle at work that has listed the documents,
\* or was touched by a failure (or by a change no stream saw) since the
\* documents were last listed.  For provisioner-log and documents that do
\* not exchange hosts.
NoSilentDrift ==
  \A d \in Docs :
    RoutedHost(d) # db[d] =>
      \/ d \in Pending \cup InHand
      \/ Reconciling
      \/ d \in missed

\* orchestrator.go:104, of the initial reconciliation: "no lock needed -
\* nothing else running yet".
InitialReconcileAlone ==
  \A t \in Terms :
    pc[Main(t)] \in ReconcilePCs =>
      \A th \in Threads \ {Main(t)} : pc[th] \notin ReconcilePCs

\* Once documents, faults and elections have come to rest, the gateway serves
\* exactly the hosts that the documents ask for, and keeps doing so: periodic
\* reconciliation repairs what crashes, lost events, failed batches, the
\* cycles of an old term and deletes without a host have left behind.
Converges == <>[](ServedHosts(gw) = DesiredHosts(db))

\* README.md:31, of the reconciler: "handles drift".  A route that asks for
\* TLS ends up with a certificate.
CertificatesConverge ==
  <>[](\A d \in TLSDocs : db[d] \in Hosts =>
         \E id \in RouteIds : gw[id] = [host |-> db[d], cert |-> TRUE])
=============================================================================
