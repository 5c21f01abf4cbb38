----------------------------- MODULE Reconciler -----------------------------
(***************************************************************************)
(* core/reconciler: the diff between the desired routes and the routes of  *)
(* the gateway, and the plan a cycle of Reconcile carries from its two     *)
(* listings to its two batches.  The steps of the cycle, which interleave  *)
(* with everything else, are actions of Orchestrator.                      *)
(***************************************************************************)
EXTENDS Gateway

\* Routes whose host the gateway does not serve.
ToAdd(want, g) == {d \in Docs : want[d] \in Hosts \ ServedHosts(g)}

\* Mutant: the diff only removes routes that have a document's id.
ToRemoveMutant(want, g) ==
  {id \in Docs : g[id] # Unrouted /\ g[id].host \notin DesiredHosts(want)}

\* Ids of the routes whose host no document asks for.
ToRemove(want, g) ==
  {id \in RouteIds : g[id] # Unrouted /\ g[id].host \notin DesiredHosts(want)}

(***************************************************************************)
(* want: the documents as listed; add, remove: the diff; certs: the hosts  *)
(* with a certificate in the map the cycle passes to BatchProvision.       *)
(***************************************************************************)
Plan == [want : Source, add : SUBSET Docs, remove : SUBSET RouteIds,
         certs : SUBSET Hosts]

NoPlan == [want |-> [d \in Docs |-> Absent], add |-> {}, remove |-> {},
           certs |-> {}]

\* One undisturbed cycle without a failure.
Reconciled(want, g, certs) ==
  BatchProvision(BatchDeprovision(g, ToRemove(want, g)), ToAdd(want, g),
                 want, certs)
=============================================================================
