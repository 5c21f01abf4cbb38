------------------------------ MODULE Sources ------------------------------
(***************************************************************************)
(* The datasource of a deployment, as main's switch configures it: the     *)
(* HTTP source, or the MongoDB collections under their composites, driven  *)
(* by the terms and cycles of the orchestrator.                            *)
(***************************************************************************)
EXTENDS HTTPSource, CompositeTrigger

vars == <<consumerVars, httpVars, compositeVars>>

\* Hosts with a change on its way to the gateway.
Pending == IF provider = "http" THEN HTTPPending ELSE CompositePending

-----------------------------------------------------------------------------

\* Reconciliation, which asks the source for its routes.
Cycle ==
  /\ List(Pending) \/ ListFails \/ Reconcile
  /\ UNCHANGED <<httpVars, compositeVars>>

NewTerm == StartTerm /\ UNCHANGED <<httpVars, compositeVars>>

Demoted == LoseLeadership /\ UNCHANGED <<httpVars, compositeVars>>

\* The children of the term, which only send to its channel, are done with;
\* the Start of an HTTP source goes on.
TermOver ==
  /\ Return(Pending)
  /\ CompositeEnds
  /\ UNCHANGED httpVars

Dies == Crash /\ HTTPEnds /\ CompositeEnds

Init == ConsumerInit /\ HTTPIdle /\ CompositeIdle

Next ==
  \/ Cycle \/ NewTerm \/ Demoted \/ TermOver \/ Dies
  \/ HTTPNext /\ UNCHANGED compositeVars
  \/ CompositeNext /\ UNCHANGED httpVars

Spec == Init /\ [][Next]_vars

(***************************************************************************)
(* Fairness: cycles go on, a process that died is started again, and the   *)
(* goroutines of a trigger run until they block.  main can leave at any    *)
(* time once its context is cancelled; that its term waits for the end of  *)
(* a cycle is this model's doing, hence strong fairness.  Changes, faults  *)
(* and elections are free to stop, and no event need ever be delivered.    *)
(***************************************************************************)
Fairness ==
  /\ WF_vars(Cycle)
  /\ SF_vars(TermOver)
  /\ WF_vars(NewTerm)
  /\ \A c \in Children : WF_vars(ChildStops(c) /\ UNCHANGED httpVars)
  /\ WF_vars(CompositeReturns /\ UNCHANGED httpVars)
  /\ WF_vars(DisableTrigger /\ UNCHANGED httpVars)

FairSpec == Spec /\ Fairness

-----------------------------------------------------------------------------
(* Properties. *)

TypeOK == ConsumerTypes /\ HTTPTypes /\ CompositeTypes

\* The newest of the values in a queue of events for h, or what the cycle at
\* work makes of the route.
Settled(h) ==
  LET about == {i \in DOMAIN Queue : Queue[i].host = h}
  IN  IF about = {} THEN Planned(h)
      ELSE Queue[CHOOSE i \in about : \A j \in about : j <= i].to

\* A handler of h has still to send, or a stream or a child has a change of h.
Coming(h) ==
  IF provider = "http" THEN \E r \in InFlight : req[r].event.host = h
                       ELSE h \in CompositePending

\* No change of a desired route is lost unnoticed, between the store and the
\* channel of POST /events, between two listings of a composite, or between a
\* listing and the events around it: the gateway has the route as the source
\* has it, or will have it once the events sent so far are handled in the
\* order they were sent, or an event is about to be sent, or one of the
\* losses that the code accepts has happened to the host - an event sent to
\* nobody, to a full channel, to a channel that its Start reads no more,
\* after a later one, or with a child that failed.  (source.go, "Keep desired
\* state in sync with events".)
Accounted ==
  \A h \in Hosts :
    \/ h \in missed
    \/ routes[h] = Refused
    \/ Coming(h)
    \/ Settled(h) = routes[h]

\* Once changes, faults and elections have come to rest, the gateway serves
\* the hosts of the source and no others, whatever events were lost,
\* overtaken or handled late - unless a single document is refused, in any of
\* the collections, which stops the repair of all of them.
HostsConverge ==
  <>[](\/ \E h \in Hosts : routes[h] = Refused
       \/ \A h \in Hosts : served[h] = Absent <=> routes[h] = Absent)

\* composite.go:35-37: the first child that fails takes the others with it,
\* so that the orchestrator hears of it and goes on with reconciliation only,
\* instead of waiting for the rest of the term for a trigger half dead.
FailsTogether ==
  firstErr ~> (trigger = "gone" \/ main \in {"returned", "down"})
=============================================================================
