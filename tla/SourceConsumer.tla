--------------------------- MODULE SourceConsumer ---------------------------
(***************************************************************************)
(* What a source of routes deals with: the orchestrator as a source sees   *)
(* it.  It lists the desired routes, first of all in a new term and from   *)
(* time to time after that, and in between it takes the events that the    *)
(* source's trigger sends on the term's channel.  Orchestrator has what    *)
(* happens behind that; here the part of a cycle that deals with the       *)
(* gateway and the handling of an event are one step each, and a cycle is  *)
(* over before its term ends.  The gateway is the one of provisioner-log:  *)
(* in memory, with one route for the host of each document.                *)
(*                                                                         *)
(* HTTPSource and CompositeTrigger extend this module with the two kinds   *)
(* of source that main configures, Sources puts them together.             *)
(***************************************************************************)
EXTENDS Naturals, Sequences, FiniteSets

CONSTANTS
  Hosts,
  Contents,     \* what a route may be besides its host
  Absent,       \* "no such route"
  Refused,      \* "a document with a url that MapDocument refuses"
  Collections,  \* how many collections are configured
  CollectionOf, \* CollectionOf[h]: the collection with the document of a host
  Providers,    \* the kinds of datasource a deployment may configure
  MaxTerm,      \* bound: terms of one process
  MaxChanges,   \* bound: changes of the desired routes
  MaxFaults,    \* bound: failures and crashes
  NoEvent       \* "no event here"

Terms  == 1 .. MaxTerm
Routes == Contents \cup {Absent}
Events == [host : Hosts, to : Routes]

ASSUME ConsumerAssumption ==
  /\ Absent \notin Contents
  /\ Refused \notin Routes
  /\ Collections \in Nat \ {0}
  /\ CollectionOf \in [Hosts -> 1 .. Collections]
  /\ Providers \subseteq {"http", "mongodb"}
  /\ MaxTerm \in Nat \ {0}
  /\ MaxChanges \in Nat /\ MaxFaults \in Nat
  /\ NoEvent \notin Events

VARIABLES
  provider,  \* the configured kind of datasource
  routes,    \* the desired routes: HTTPSource.routes, or the documents
  served,    \* the gateway's routes
  term,      \* the current term, 0 while the process is down
  live,      \* its context is not cancelled
  main,      \* where run is: "down", "first", "select" or "returned"
  read,      \* how many providers the cycle at work has listed
  listed,    \* what they returned
  changes,   \* changes still to come
  faults,    \* failures still to come
  missed     \* history: hosts of which no event will tell

consumerVars == <<provider, routes, served, term, live, main, read, listed,
                  changes, faults, missed>>

NothingListed == [h \in Hosts |-> Absent]

-----------------------------------------------------------------------------
(* Helpers. *)

\* A composite desired state asks the providers of its collections in turn,
\* an HTTP source is its own only one.
Parts == IF provider = "http" THEN 1 ELSE Collections

PartOf(h) == IF provider = "http" THEN 1 ELSE CollectionOf[h]

\* Mutant: routes that are not desired stay.
RepairedMutant(is, want) == IF is = Absent THEN want ELSE is

\* What a cycle makes of a route: diff compares hosts, not contents.
Repaired(is, want) ==
  IF want = Absent THEN Absent ELSE IF is = Absent THEN want ELSE is

\* The route of a host once the cycle at work is through.
Planned(h) ==
  IF PartOf(h) <= read THEN Repaired(served[h], listed[h]) ELSE served[h]

\* Once its context is cancelled a call fails or not, whatever the budget.
Fault == IF live THEN faults > 0 /\ faults' = faults - 1 ELSE UNCHANGED faults

\* Reconcile returns.
EndCycle ==
  /\ read' = 0
  /\ listed' = NothingListed
  /\ main' = "select"

-----------------------------------------------------------------------------
(* A cycle, given the hosts with an event under way. *)

Ready == main \in {"first", "select"}

\* One provider's List.
List(pending) ==
  LET part == {h \in Hosts : PartOf(h) = read + 1}
  IN  /\ Ready
      /\ read < Parts
      /\ \A h \in part : routes[h] # Refused
      /\ read' = read + 1
      /\ listed' = [h \in Hosts |-> IF h \in part THEN routes[h] ELSE listed[h]]
      /\ missed' = missed \ {h \in part \ pending :
                               Repaired(served[h], routes[h]) = routes[h]}
      /\ UNCHANGED <<provider, routes, served, term, live, main, changes,
                     faults>>

\* One provider fails, and with it the cycle.  An HTTP source does not.
ListFails ==
  /\ Ready
  /\ provider = "mongodb"
  /\ read < Parts
  /\ \/ \E h \in Hosts :
          PartOf(h) = read + 1 /\ routes[h] = Refused /\ UNCHANGED faults
     \/ Fault
  /\ EndCycle
  /\ missed' = Hosts
  /\ UNCHANGED <<provider, routes, served, term, live, changes>>

\* The gateway's listing, the diff and the batches.
Reconcile ==
  /\ read = Parts
  /\ served' = [h \in Hosts |-> Planned(h)]
  /\ EndCycle
  /\ UNCHANGED <<provider, routes, term, live, changes, faults, missed>>

-----------------------------------------------------------------------------
(* Terms and events. *)

StartTerm ==
  /\ \/ term = 0
     \/ main = "returned" /\ term < MaxTerm
  /\ term' = term + 1
  /\ live' = TRUE
  /\ main' = "first"
  /\ missed' = Hosts
  /\ UNCHANGED <<provider, routes, served, read, listed, changes, faults>>

LoseLeadership ==
  /\ live
  /\ term < MaxTerm
  /\ live' = FALSE
  /\ UNCHANGED <<provider, routes, served, term, main, read, listed, changes,
                 faults, missed>>

\* Nobody receives what is under way any more.
Return(pending) ==
  /\ main = "select"
  /\ ~live
  /\ read = 0
  /\ main' = "returned"
  /\ missed' = missed \cup pending
  /\ UNCHANGED <<provider, routes, served, term, live, read, listed, changes,
                 faults>>

\* The gateway is in memory, and so are the desired routes of an HTTP source.
Crash ==
  /\ term > 0
  /\ faults > 0
  /\ faults' = faults - 1
  /\ term' = 0
  /\ live' = FALSE
  /\ main' = "down"
  /\ read' = 0
  /\ listed' = NothingListed
  /\ served' = NothingListed
  /\ routes' = IF provider = "http" THEN NothingListed ELSE routes
  /\ missed' = Hosts
  /\ UNCHANGED <<provider, changes>>

\* run takes an event from its channel and handles it under the mutex.
Handles(e) ==
  /\ main = "select"
  /\ read = 0
  /\ served' = [served EXCEPT ![e.host] = e.to]

ConsumerInit ==
  /\ provider \in Providers
  /\ IF provider = "http" THEN routes = NothingListed
                          ELSE routes \in [Hosts -> Routes]
  /\ served = NothingListed
  /\ term = 0
  /\ live = FALSE
  /\ main = "down"
  /\ read = 0
  /\ listed = NothingListed
  /\ changes = MaxChanges
  /\ faults = MaxFaults
  /\ missed = Hosts

ConsumerTypes ==
  /\ provider \in Providers
  /\ routes \in [Hosts -> Routes \cup {Refused}]
  /\ served \in [Hosts -> Routes]
  /\ term \in 0 .. MaxTerm
  /\ live \in BOOLEAN
  /\ main \in {"down", "first", "select", "returned"}
  /\ read \in 0 .. Parts
  /\ listed \in [Hosts -> Routes]
  /\ changes \in 0 .. MaxChanges
  /\ faults \in 0 .. MaxFaults
  /\ missed \in SUBSET Hosts
=============================================================================
