------------------------ MODULE NetscalerProvisioner ------------------------
(***************************************************************************)
(* impl/provisioner-netscaler with the mapper of the program, driven by    *)
(* the events of the orchestrator and the cycles of the reconciler.  They  *)
(* take turns on the mutex; what happens where cycles of two terms overlap *)
(* is left to IngressProvisioner.                                          *)
(*                                                                         *)
(* A route is a handful of objects on the appliance that refer to each     *)
(* other.  An event's operations are requests of their own; a batch is one *)
(* request with the operations of all its routes.                          *)
(*                                                                         *)
(* Of the appliance the repository says that adding a name in use is       *)
(* refused (nitro_test.go:153) and that a virtual server takes its         *)
(* bindings with it (netscaler_mapper.go:163).  An object whose parts are  *)
(* missing is refused as well.  Where nothing is known it does either.     *)
(***************************************************************************)
EXTENDS Naturals, Sequences, FiniteSets, SequencesExt

CONSTANTS
  Hosts,
  TLSHosts,    \* hosts whose route asks for TLS
  BackendsOf,  \* BackendsOf[h]: how many backends the route of h has
  MaxChanges,  \* bound: changes of the desired routes
  MaxFaults    \* bound: requests that fail for a reason outside the model

ASSUME NetscalerAssumption ==
  /\ IsFiniteSet(Hosts)
  /\ TLSHosts \subseteq Hosts
  /\ BackendsOf \in [Hosts -> Nat]
  /\ MaxChanges \in Nat
  /\ MaxFaults \in Nat

Kinds == {"crt", "key", "sslcertkey", "lbvserver", "service",
          "service_binding", "sslcertkey_binding"}

\* host stands for the route id, n is the number of a service.
Object(kind, h, n) == [kind |-> kind, host |-> h, n |-> n]

Numbers(h) == 0 .. BackendsOf[h] - 1

Numbered(o) == o.kind \in {"service", "service_binding"}

Objects ==
  {o \in {Object(k, h, n) : k \in Kinds, h \in Hosts,
                            n \in {0} \cup UNION {Numbers(h) : h \in Hosts}} :
     IF Numbered(o) THEN o.n \in Numbers(o.host) ELSE o.n = 0}

Actions == {"add", "bind", "unbind", "delete"}

Op(action, kind, h, n) == [action |-> action, obj |-> Object(kind, h, n)]

Kind == {"idle", "event", "cycle"}

VARIABLES
  want,      \* the hosts of the desired routes
  config,    \* the objects on the appliance
  job,       \* the call of the orchestrator or the reconciler in progress
  requests,  \* the requests it has still to make, sequences of operations
  changes,   \* changes still to come
  faults     \* faults still to come

vars == <<want, config, job, requests, changes, faults>>

Idle == [kind |-> "idle", add |-> {}, remove |-> {}, certs |-> {}, ok |-> TRUE]

-----------------------------------------------------------------------------
(* NetscalerMapper. *)

Upload(h)   == <<Op("add", "crt", h, 0), Op("add", "key", h, 0),
                 Op("add", "sslcertkey", h, 0)>>
BindCert(h) == <<Op("bind", "sslcertkey_binding", h, 0)>>

\* Mutant: the services are numbered from one.
BackendsMutant(h) ==
  [i \in 1 .. 2 * BackendsOf[h] |->
     IF i % 2 = 1 THEN Op("add", "service", h, i \div 2 + 1)
                  ELSE Op("bind", "service_binding", h, i \div 2)]

\* Operations 2n-1 and 2n are those of backend n-1.
Backends(h) ==
  [i \in 1 .. 2 * BackendsOf[h] |->
     IF i % 2 = 1 THEN Op("add", "service", h, i \div 2)
                  ELSE Op("bind", "service_binding", h, i \div 2 - 1)]

MapProvision(h, hasCert) ==
  LET route == <<Op("add", "lbvserver", h, 0)>> \o Backends(h)
  IN  IF hasCert THEN Upload(h) \o route \o BindCert(h) ELSE route

\* Mutant: the certificate goes before the virtual server.
MapDeprovisionMutant(h) ==
  <<Op("delete", "sslcertkey", h, 0), Op("delete", "lbvserver", h, 0),
    Op("delete", "crt", h, 0), Op("delete", "key", h, 0)>>

\* Whether the route has a certificate is not known; its services stay.
MapDeprovision(h) ==
  <<Op("unbind", "sslcertkey_binding", h, 0), Op("delete", "lbvserver", h, 0),
    Op("delete", "sslcertkey", h, 0),
    Op("delete", "crt", h, 0), Op("delete", "key", h, 0)>>

MapBatchProvision(hs, certs) ==
  FlattenSeq([i \in DOMAIN hs |-> MapProvision(hs[i], hs[i] \in certs)])

MapBatchDeprovision(hs) ==
  FlattenSeq([i \in DOMAIN hs |-> MapDeprovision(hs[i])])

-----------------------------------------------------------------------------
(* NitroClient. *)

\* Execute posts an unbinding to where it posts a binding.
Execute(op) ==
  IF op.action = "unbind" THEN <<[op EXCEPT !.action = "bind"]>> ELSE <<op>>

Singly(ops) == [i \in DOMAIN ops |-> Execute(ops[i])]

\* BatchExecute makes no request for an empty batch.
Batch(ops) == IF ops = <<>> THEN <<>> ELSE <<ops>>

-----------------------------------------------------------------------------
(* The appliance. *)

\* What an object refers to.
Needs(o) ==
  CASE o.kind = "sslcertkey" ->
         {Object("crt", o.host, 0), Object("key", o.host, 0)}
    [] o.kind = "service_binding" ->
         {Object("lbvserver", o.host, 0), Object("service", o.host, o.n)}
    [] o.kind = "sslcertkey_binding" ->
         {Object("lbvserver", o.host, 0), Object("sslcertkey", o.host, 0)}
    [] OTHER -> {}

InUse(c, o) == \E p \in c : o \in Needs(p)

Accepts(c, op) ==
  CASE op.action = "add"  -> op.obj \notin c /\ Needs(op.obj) \subseteq c
    [] op.action = "bind" -> Needs(op.obj) \subseteq c
    [] OTHER              -> TRUE

\* Binding twice; deleting what is not there, what is in use, or a file,
\* whose location the request does not name.
MayRefuse(c, op) ==
  \/ ~Accepts(c, op)
  \/ op.action = "bind" /\ op.obj \in c
  \/ op.action \in {"unbind", "delete"} /\ op.obj \notin c
  \/ /\ op.action = "delete"
     /\ op.obj.kind \in {"crt", "key"} \/ InUse(c, op.obj)

Bindings(o) ==
  {p \in Objects : p.kind \in {"service_binding", "sslcertkey_binding"}
                     /\ p.host = o.host}

After(c, op) ==
  IF op.action \in {"add", "bind"} THEN c \cup {op.obj}
  ELSE IF op.obj.kind = "lbvserver" THEN c \ (Bindings(op.obj) \cup {op.obj})
  ELSE c \ {op.obj}

\* Through(ops)[k]: the configuration after the first k operations.
Through(ops) ==
  LET state[k \in 0 .. Len(ops)] ==
        IF k = 0 THEN config ELSE After(state[k - 1], ops[k])
  IN  state

Accepted(ops, k) == \A j \in 1 .. k : Accepts(Through(ops)[j - 1], ops[j])

\* Mutant: an answer of 400 or more is taken for a success.
FailMutant ==
  /\ requests' = Tail(requests)
  /\ UNCHANGED job

\* An error ends an event; a cycle goes on after its failed removal.
Fail ==
  /\ requests' = IF job.kind = "cycle" THEN Tail(requests) ELSE <<>>
  /\ job' = [job EXCEPT !.ok = FALSE]

Serve ==
  LET ops == Head(requests)
  IN  /\ requests # <<>>
      /\ Accepted(ops, Len(ops))
      /\ config' = Through(ops)[Len(ops)]
      /\ requests' = Tail(requests)
      /\ UNCHANGED <<want, job, changes, faults>>

\* A batch that is refused at one of its operations is rolled back or not.
Refuse ==
  LET ops == Head(requests)
  IN  /\ requests # <<>>
      /\ \E k \in DOMAIN ops :
           /\ Accepted(ops, k - 1) /\ MayRefuse(Through(ops)[k - 1], ops[k])
           /\ config' \in {config, Through(ops)[k - 1]}
      /\ Fail
      /\ UNCHANGED <<want, changes, faults>>

\* A request fails, times out or dies with the process, with any part done.
Fault ==
  LET ops == Head(requests)
  IN  /\ requests # <<>>
      /\ faults > 0 /\ faults' = faults - 1
      /\ \E k \in 0 .. Len(ops) :
           Accepted(ops, k) /\ config' = Through(ops)[k]
      /\ Fail
      /\ UNCHANGED <<want, changes>>

-----------------------------------------------------------------------------
(* The calls of the orchestrator and the reconciler. *)

Change ==
  /\ changes > 0 /\ changes' = changes - 1
  /\ want' \in SUBSET Hosts \ {want}
  /\ UNCHANGED <<config, job, requests, faults>>

Begin(kind, add, remove, certs, rs) ==
  /\ job.kind = "idle"
  /\ job' = [kind |-> kind, add |-> add, remove |-> remove, certs |-> certs,
             ok |-> TRUE]
  /\ requests' = rs
  /\ UNCHANGED <<want, config, changes, faults>>

\* The event may be older than the desired routes are.
Provision(h) ==
  Begin("event", {h}, {}, {h} \cap TLSHosts,
        Singly(MapProvision(h, h \in TLSHosts)))

\* For a source whose ids are route ids.  Any other id names nothing, and the
\* first operation is refused.
Deprovision(h) ==
  Begin("event", {}, {h}, {}, Singly(MapDeprovision(h)))

\* List gives the virtual servers' names and no hosts.
Listed == {o.host : o \in {p \in config : p.kind = "lbvserver"}}

\* The diff compares hosts, so it removes every route and adds every route.
\* Any certificate may have failed to be issued.
Cycle ==
  \E certs \in SUBSET (want \cap TLSHosts) :
  \E adds \in SetToSeqs(want), removes \in SetToSeqs(Listed) :
    Begin("cycle", want, Listed, certs,
          Batch(MapBatchDeprovision(removes)) \o
          Batch(MapBatchProvision(adds, certs)))

Return ==
  /\ job.kind # "idle" /\ requests = <<>>
  /\ job' = Idle
  /\ UNCHANGED <<want, config, requests, changes, faults>>

-----------------------------------------------------------------------------

Init ==
  /\ want \in SUBSET Hosts
  /\ config = {}
  /\ job = Idle
  /\ requests = <<>>
  /\ changes = MaxChanges
  /\ faults = MaxFaults

Next ==
  \/ Change \/ Cycle \/ Serve \/ Refuse \/ Fault \/ Return
  \/ \E h \in Hosts : Provision(h) \/ Deprovision(h)

Spec == Init /\ [][Next]_vars

-----------------------------------------------------------------------------
(* Properties. *)

TypeOK ==
  /\ want \subseteq Hosts
  /\ config \subseteq Objects
  /\ job \in [kind : Kind, add : SUBSET Hosts, remove : SUBSET Hosts,
              certs : SUBSET Hosts, ok : BOOLEAN]
  /\ requests \in Seq(Seq([action : Actions, obj : Objects]))
  /\ changes \in 0 .. MaxChanges
  /\ faults \in 0 .. MaxFaults

\* The order of the mapper's operations is such that nothing on the appliance
\* ever refers to something that is gone or not yet there, wherever a sequence
\* stops, and although deletions are not checked.
NoDangling == \A o \in config : Needs(o) \subseteq config

\* The objects of a route that is in place.
InPlace(h, hasCert) ==
  LET ops == MapProvision(h, hasCert) IN {ops[i].obj : i \in DOMAIN ops}

\* A call without an error has done what it was made for: the routes to add
\* are in place with all their objects, and of the routes to remove nothing is
\* left but their services.
DoneAsAsked ==
  job.kind # "idle" /\ requests = <<>> /\ job.ok =>
    /\ \A h \in job.add : InPlace(h, h \in job.certs) \subseteq config
    /\ \A o \in config :
         o.host \in job.remove \ job.add => o.kind = "service"

\* reconciler.go:97-98, "routes to add (in desired, not in actual) and route
\* IDs to remove (in actual, not in desired)": a cycle leaves a route alone
\* that is in place and desired.
CyclesKeepRoutes ==
  [][job.kind = "cycle" =>
       \A h \in want : InPlace(h, FALSE) \subseteq config =>
                         InPlace(h, FALSE) \subseteq config']_vars
=============================================================================
