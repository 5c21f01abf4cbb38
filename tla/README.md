# Verification of dynamic-routes-provisioner

`dynamic-routes-provisioner` keeps a gateway's routes (Ingress rules, NetScaler
virtual servers) equal to what the documents of a database ask for. It hears of
changes through a change stream, lists everything from time to time and repairs
the difference, gets a certificate for routes that want TLS, and elects one
active instance among several. This directory holds TLA+ models of that
program, the TLC configurations that check them, and TLAPS proofs.

`PROJECT.json` lists the runs, which source lines every definition stands for,
the hazards and which property covers them, the findings, and the theorems.

## 1. The system

### Components

| component | state it keeps | operations | modelled in |
|---|---|---|---|
| `core/orchestrator` | a mutex, the goroutines of a term of leadership | `Run`, `run`, `reconcileLoop`, `handleEvent` | `Orchestrator` |
| `core/reconciler` | none; locals of a cycle | `Reconcile`, `diff` | `Reconciler`, and the steps of a cycle in `Orchestrator` |
| `impl/provisioner-log` | a map of routes by route id, in memory | `Provision`, `Deprovision`, `Batch…`, `List` | `Gateway` |
| `impl/provisioner-ingress` | none; Ingress resources in Kubernetes | the same five | `IngressProvisioner`; `Gateway` for the orchestrator's view |
| `impl/provisioner-netscaler` | none; Nitro objects on the appliance | the same five | `NetscalerProvisioner` |
| `impl/source-mongo` | one change stream | trigger `Start`, desired state `List`, mappers | `Orchestrator` (`OpenStream`, `Deliver`, `MapEvent`, `ListDesired`) |
| `impl/source-http` | routes by id, events, a channel of 64 | `Start`, `List`, five handlers | `HTTPSource` |
| `core/trigger`, `core/desired` composites | none | fan-in of triggers, concatenation of listings | `CompositeTrigger`, and the listings in `SourceConsumer` |
| `impl/lease-mongo` | one document of a collection; timers | `Run`, `tryAcquire`, `renewLoop`, `tryRenew`, `release` | `MongoLease`, abstractly `LeaderLease` |
| `impl/lease-kube` | a Kubernetes Lease | `Run` | not modelled: client-go's elector with callbacks |
| `impl/cert-none`, `-selfsigned`, `-vault` | none | `Issue`, `Revoke` | as outcomes of `Issue` and `Certify` in `Orchestrator`; the last two in `Issuers` |
| `impl/cert-acme-http`, `-dns`, challenge server | an account key, tokens, a server | `Issue`, `Present`, `Cleanup`, serving tokens | `Issuers` |
| `impl/certstore-file`, `-kube`, `-vault` | stored certificates | `Issue`, `Revoke` | `CertStore` |
| configuration, logging, `main.go` | none | wiring, shutdown | constants and the initial states of `Sources` and `Issuers`; signals in `MongoLease` |

### How they interact

`main` builds one issuer (often a certificate store around another issuer), one
provisioner, one trigger and one desired state, and calls `Orchestrator.Run`.
With leader election, `Run` hands a callback to the elector, which starts it with
a context of its own whenever it acquires the lease and cancels that context
when it loses it. The callback, `run`, is what these documents call a *term*:

1. `Reconcile` once, *without* the mutex;
2. start the trigger's goroutine, which sends events on an unbuffered channel;
3. start `reconcileLoop`, which takes the mutex for every cycle;
4. select: handle events one at a time, under the mutex; give up the trigger
   after an error; return when the context is cancelled.

A cycle lists the documents, lists the gateway, compares the *hosts*, and calls
`BatchDeprovision`, `Issue` for each TLS route to add, and `BatchProvision`. An
error of a listing ends the cycle; all the others are logged and the cycle goes
on. An event leads to one `Issue` and one `Provision`, or one `Deprovision`.

Everything shared is shared through the mutex, the gateway, the source and the
lease document. Nothing joins `reconcileLoop` when a term ends.

### What is hard about it

* Events and cycles write to the same gateway from two views of the documents
  with different ages, and the mutex is all that orders them.
* The change stream loses what happens while it is not open, and what is in
  flight when it breaks or the term ends.
* Any call may fail in the middle of a batch; the process may die between
  removal and addition.
* Terms overlap: the loop of an old one is still at work when the next begins.
* A lease is only as good as its timing: slow calls, slow callbacks, clocks.
* The Ingress provisioner edits two parallel lists by index, from a listing that
  was taken earlier, and packs batches by hand.
* The HTTP source stores under a lock and sends without it, drops events when its
  channel is full, and its goroutine of an old term shares a field with the one of
  the new term.
* The triggers of several collections live and die together, or should.
* ACME issuance is a conversation of many calls about something that outlives it:
  an authorization that the server hands out again, and the response to it, which
  whoever finishes first takes away.

### What makes the components correct

* Orchestrator: a plan made under the mutex stays current; nothing drifts
  without something under way that will repair it; in the end the gateway serves
  what the documents ask for; a term's first reconciliation is alone.
* Reconciler: an undisturbed cycle ends with exactly the desired hosts.
* Lease: at most one instance runs the callback, it holds an unexpired lease
  while it does, and some instance leads in the end.
* Certificate stores: a certificate with its own key, for the host asked for,
  whatever a crash has left; what is usable stays so.
* Sources: no change of a desired route is lost except in the ways the code accepts,
  whatever is lost is repaired as far as `diff` sees it, and a composite fails as one.
* ACME issuers: a response can be found while it is looked for, is taken away in the
  end, and every `Issue` returns.
* Ingress provisioner: no Ingress over its capacity or without a rule; TLS
  entries in step with rules; success means done; nothing else is removed; a new
  Ingress gets a free name.

## 2. The modules

```
Gateway ──> Reconciler ──> Orchestrator ──> MCOrchestrator
                                └──> OrchestratorProofs ──> DriftProofs
LeaderLease <··(refines)·· MongoLease ──> MCMongoLease
                               └──> MongoLeaseProofs
IngressProvisioner ──> MCIngressProvisioner
       └──> IngressProofs
NetscalerProvisioner ──> MCNetscalerProvisioner
       └──> NetscalerProofs
CertStore ──> MCCertStore
    └──> CertStoreProofs
SourceConsumer ──> HTTPSource ──────> Sources ──> MCSources
       └─────────> CompositeTrigger ─────┘  └──> SourcesProofs
Issuers ──> MCIssuers
   └──> IssuersProofs
```

### Gateway and Reconciler

A document holds a host, nothing usable (`Blank`: the mapper skips it), or does
not exist (`Absent`). The gateway is a table from route ids to a host and
whether a certificate came with it. The provisioners differ in one thing that
matters here: `provisioner-log` keeps routes under the *document's* id, the
mappers of the other two derive the id from the *host*. (`provisioner-netscaler`
differs in its listing as well, which names no hosts; what follows from that is in
`NetscalerProvisioner`, and `Gateway` stands for the other two.) `KeyByHost` says which;
under it a delete event, which carries the document's id, deletes nothing.
`ToAdd` and `ToRemove` are `diff`: sets of hosts compared, nothing else of a
route looked at.

### Orchestrator

| code | model |
|---|---|
| a call of `run` | a term `t`; goroutines `<<"main", t>>` and `<<"loop", t>>` with a program counter each |
| `o.mu` | `mu` |
| locals of `Reconcile` / `provisionRoute` | `plan[th]` |
| the event in `handleEvent` | `ev[t]` |
| MongoTrigger.Start: opening, waiting for a change, blocked on the send, returned with an error, that error read | `watch`: `opening`, `open`, `sending`, `failed`, `gone`; `held` is the event it blocks on |
| the server's side of the stream | `feed` |
| `Reconcile` | `ListDesired`, `ListActual`, `Remove`, `Issue`, `Add`: one step per call to the outside |
| `run` after the first cycle | `StartServices`, `Receive`, `DisableTrigger`, `Return` |
| `handleEvent` | `LockEvent`, `Certify`, `Apply` |
| `reconcileLoop` | `Tick`, `LockCycle`, `Exit` |
| the elector's callbacks | `StartTerm`, `LoseLeadership` |

Between two steps of a goroutine anything else may happen: documents change,
other goroutines go on, leadership is lost, the process dies. A batch may fail
with any part of it done. When a term's context is cancelled, its calls may fail
without being counted as faults. An insert or replace carries the document as it
was written; an update is looked up when it is *delivered*, so it may carry a
newer document than the change it stands for.

`missed` is a history variable: the documents whose change or plan has been lost
(by a fault, or because no stream was open) since the documents were last listed
by a cycle that was then able to act on them. It is read by `NoSilentDrift` only.

### MongoLease and LeaderLease

Time is discrete; every timer is kept as what is left of it and the document's
`expiresAt` as its distance `ttl` from the true time, so that nothing grows. An
instance's clock is ahead by `skew[i]`, and the reading that a request carries is
`age[i]` ticks old when the server executes it. `Tick` is held up when a call has
taken `MaxCall`, a callback `MaxDrain`, or a ticker is due: these three, and
`MaxSkew`, are assumptions about the environment, since the code sets no timeout
at all. A failed call may or may not have taken effect (`Fault` in
`ServeAcquire` and `ServeRenew`). Releases, refused acquisitions, errors (which
end `Run`, and with it the process), signals, crashes and restarts are all there.

`LeaderLease` is the promise in `core/lease/lease.go`: a set of leaders, empty or
a singleton, that changes only by one joining the empty set or leaving it.

"Leading" means that the callback `OnStartedLeading` has not returned. The
`reconcileLoop` it leaves behind is not covered by any property of the lease (see
the finding on `InitialReconcileAlone`).

### IngressProvisioner

Every operation lists the managed Ingresses once (taken as one step with the
computation that follows it) and derives from this listing the calls it makes:
`create`, `delete`, and the JSON patches `add`, `remove`, `update`, `replace`
with the indices they name. `Serve` lets the API server execute the next call if
it is acceptable, `Refuse` refuses it, `Fault` fails it before or after its
effect; after either the operation ends with an error, as in the code. A patch
refers to indices of a listing that may be out of date.

A rule is the host it serves and a TLS entry names one host, as `buildRule` and
`buildTLS` make them. The sort of `BatchProvision` by number of rules is not
stable, so any permutation sorted by length is allowed. `replace` of a `/spec/tls`
that is not there is accepted by some JSON Patch libraries and refused by others:
the model allows both. Ingresses are listed in the order of their names; the
model orders them by index, which is the same up to `routes-9`.

The orchestrator determines who may overlap: event handling is alone under the
mutex, while two batch operations, of an old term's loop and a new term's first
cycle, may be under way together (`Writers`; the run has one of them, see the
findings). The inputs of the batches are those the
reconciler makes: hosts not served so far, ids that `List` returned.

### NetscalerProvisioner

A route is up to seven kinds of objects on the appliance, `config`, that refer to
each other: certificate and key file, their certkey, the virtual server, services,
and the bindings. `MapProvision` and `MapDeprovision` are the sequences of
operations of the program's mapper; an event sends them one by one (`Singly`, with
`Execute` sending an unbinding as a binding, as the code does) and stops at the
first error; a cycle sends the operations of all its routes as one batch. `Cycle`
is `Reconcile` with this provisioner's `List`, which returns names without hosts:
all listed routes are to be removed and all desired ones to be added.

The appliance is external. It refuses to add a name in use (`nitro_test.go`
answers so) or something whose parts are missing; the bindings of a virtual server
go with it. For whatever else might be refused (binding twice, deleting what is
not there, is in use, or is a file whose location the request leaves out) the
model lets it accept or refuse, and a refused batch is rolled back or left with
its first operations done.

### CertStore

An issuer in front of another one: `Issue` looks up what is kept for a host
(`Get`, `Check`), returns it if it is further than `renewBefore` from its expiry,
and has a new certificate issued and kept otherwise (`Inner`, then `Look` and
`Put` for a Secret, `Put` alone for Vault, `WriteFile` three times for a
directory, `meta.json` last). A failure to keep it is only logged. `Revoke` is
there, although nothing in the program calls it.

Certificates are serial numbers, and what a place of the store holds is a
certificate, a key and the data about them, each with the serial it belongs to;
`fresh` are the serials not near their expiry. A file that was being written when
a write failed or the process died may be `Torn`: the code reads it as it is,
unless it is `meta.json`.

What the properties do not claim, because it is not so:

* A directory used by two goroutines at a time, of an old term's loop and a new
  term, may end up with the certificate of one and the key of the other. `Alone`
  names the stores for which one goroutine at a time is assumed; taking `"file"`
  out of it breaks `PairsMatch` and `KeepsUsable` without any fault.
* When files could not be read, or not all be removed, although their `meta.json`
  is not near its expiry, new files are written under an old `meta.json` that
  vouches for them. The history variable `overlaid` records such places until the
  new `meta.json` is there, and `PairsMatch` and `KeepsUsable` except them.
* Hosts that differ in `.` and `-` only have one Secret or Vault entry, and `Issue`
  never compares the host of what it finds. `PlaceOf` is a parameter; with one
  place for two hosts `OwnCertificate` fails.

`NearExpiry` leaves a certificate alone while it is on its way into the store:
validity is counted in days, and longer than `renewBefore`.

### SourceConsumer, HTTPSource, CompositeTrigger, Sources

`Sources` is one deployment with the datasource that main's switch picks: the HTTP
source, or several MongoDB collections behind the composites. `SourceConsumer` is
the orchestrator as a source sees it. `Orchestrator` has what happens to the
gateway in detail; here a provider's `List` is a step of its own, the gateway part
of a cycle and the handling of an event are one step each, and a term does not end
before the cycle that is at work. What is added in turn is a route's *content*,
since an event brings it and `diff` does not look at it. The gateway is that of
`provisioner-log`.

| code | model |
|---|---|
| `HTTPSource.routes`; the documents | `routes` |
| `HTTPSource.eventC` | `eventC`, the term whose channel it is |
| a channel made by `Start` | `chans[t]` |
| `Start`: loop, the `select` with the channel it has evaluated, forwarding, the deferred reset | `start[t]`, `sel[t]`, `fwd[t]`; `SelectOn`, `TakeEvent`, `Forward`, `Leave`, `Unset` |
| `handlePostEvent` under the lock and after it | `Post`, `Send`; `req[r]` in between |
| `handlePostRoute`, `handleDeleteRoute` | `ChangeRoute` |
| `CompositeTrigger.Start`, its children and their derived context | `trigger`, `watch`, `firstErr` |
| `CompositeDesiredState.List` | `List` for one provider after another, `read` and `listed` |

Two things can be seen there that no property claims away. `Start` reads `eventC`
in every turn and resets it on its way out, without the lock and in a goroutine
that nothing waits for: when the `Start` of an old term leaves late, the new term's
never hears of an event again, and only the cycles are left. And a child trigger
that returns `nil` ends without anybody noticing. `missed` is a history variable of
the hosts whose event was lost in such a way, was sent to a full channel or to
nobody, or was overtaken; `Accounted` says that nothing else is ever out of step.

Requests carry a host and an event type that the program knows; what it refuses
changes nothing. The list of events behind `GET /events` is left out: nothing else
reads it.

### Issuers

`Issue` of the ACME issuers, call by call, for several goroutines: `run`'s first
cycle is not under the mutex. The ACME server is external, modelled by what the
calls of `golang.org/x/crypto/acme` promise: it may hand out an authorization of
the account that is pending, being looked at or valid; `Accept` of a failed one is
an error; `WaitAuthorization` asks until there is a verdict; and the verdict is
whether it found the response (`Served`).

| code | model |
|---|---|
| `Issue` up to `AuthorizeOrder` | `Order` |
| `fulfillAuthorization` | `GetAuthorization`, `Present` and `EnsureRunning`, or `PresentRecord`, `Accept`, `WaitAuthorization`, `Cleanup` |
| `WaitOrder`, `CreateOrderCert` | `Finalize` |
| `ChallengeServer.tokens`, `.server`, its listener | `responses`, `server`, `listening` |
| `cert-vault`, `cert-selfsigned` | `VaultIssue`, `SelfSign` |

A token belongs to one authorization; a TXT record has one name per domain, so that
`Cleanup` removes the records of all its challenges (`Shared`). `spoiled` is a
history variable: authorizations whose response went away while the ACME server was
not done with them. The account key is made anew with every process, and with it
everything that the server knows (`Crash`). `Auths` bounds the authorizations that
matter at a time: `Order` gives the place of one that nobody asks for to a new one.

What the properties except, because the code does it:

* `ensureRunning` sets `server` before it listens. If the port is taken, one
  `Present` fails, all later ones succeed, and nobody ever listens: every
  validation of this process fails (`Deaf`). The token of the call that failed
  stays, as `Cleanup` is deferred after `Present` only.
* Two overlapping calls for one host, or one after another that failed while the
  server was looking, use one authorization; the first `Cleanup` spoils it.
* `cert-acme-dns` hands its own context to `Cleanup`; once it is cancelled the
  record may stay.

The `DNSProvider` is external: `main` has a TODO in its place and passes a nil
interface, so that today `Present` of a deployment with `acme-dns` panics
(`main.go:157-168`).

## 3. The runs

| run | what it asks | result |
|---|---|---|
| `orch_serial` | events and periodic cycles of one process against `provisioner-log`, with failing calls, a breaking stream and crashes: `PlanCurrent`, `NoSilentDrift` | holds |
| `orch_converge` | two terms that overlap, shared hosts, host-keyed gateway, faults, fair scheduling: `Converges` | holds |
| `orch_reelect` | is a term's first reconciliation alone? | violated |
| `orch_certless` | does a TLS route get its certificate in the end, if one issuance failed? | violated |
| `lease` | two instances, a lease exactly as long as `LeaseMargin` asks: exclusion, a leader holds an unexpired lease, refinement of `LeaderLease`, `StableLeader` | holds |
| `ingress` | all sequences of operations of one goroutine with a failing call: `WithinCapacity`, `TLSMatchesRules`, `DoneAsAsked`, `RemovesOnlyAsked` | holds |
| `ingress_names` | is the name of a new Ingress free? | violated |
| `netscaler` | events and cycles with refused, partly executed and failing requests: `NoDangling`, `DoneAsAsked` | holds |
| `netscaler_churn` | does a cycle leave alone a route that is in place and desired? | violated |
| `certs` | file, Secret and Vault stores with failing calls, crashes and torn files: `PairsMatch`, `OwnCertificate`, `KeepsUsable` | holds |
| `sources` | both kinds of datasource over two terms, with late goroutines, full channels, overtaken and lost events, refused documents, failing children and crashes: `Accounted`, `HostsConverge`, `FailsTogether` | holds |
| `acme` | two overlapping issuances with failing and cancelled calls and crashes: `Reachable`, `NoLeftovers`, `RefusedForCause`, `Returns` | holds |

### Bounds

* `orch_serial`: two documents (one with TLS), one of which can move between two
  hosts; three changes of documents (create, change and delete of one document, or
  an interleaving over both) and two faults, so that a fault may strike while
  another one is being repaired. One term per process life: without election there
  is no second one, but a crash starts the process again. 667 thousand states.
* `orch_converge`: two terms are enough for an old loop to meet a new first cycle;
  two documents and two hosts make both documents ask for one host; a change and
  two faults may fall anywhere. 404 thousand states.
* `lease`: two instances are enough to break exclusion; all durations are as short
  as they can be while `LeaseDuration` equals the margin, where a tick less breaks
  it; three faults cover a lost answer, a crash and a shutdown in one behaviour.
* `ingress`: capacity 2 and three hosts, two of them with TLS, reach a full Ingress
  next to one with room, overflow into a new one, mixed rules, and one host twice.
  A batch has up to three routes, one more than an Ingress holds.
* `netscaler`: a route with TLS and two backends and one without and a single backend
  have every kind of object and every order of two routes in a batch; with two
  changes of the desired routes and a fault, sequences stop anywhere and are tried
  again over what they left. 92 thousand states.
* `certs`: three certificates let one be renewed twice, or once for each of two
  hosts; two faults can cut a write short and spoil the reading of what it left.
  969 thousand states.
* `sources`: two terms are enough for an old `Start` to meet a new one, two handlers for
  one to overtake the other, a channel of one for it to be full; two collections of one
  document each make a composite whose listing can fail half way. Two changes of
  two hosts with two contents, and a fault. 1.1 million states.
* `acme`: two callers and two hosts, so that the calls may be about one host or two,
  two authorizations, so that one can be handed out again or its place be taken, and
  three faults: a failing call, a cancelled one and a crash, in any combination. 585
  thousand states.
* `MaxTerm`, `MaxChanges`, `MaxFaults`, `MaxBatch`, `MaxIngresses`, `MaxSerial`,
  `Requests`, `ChanSize` and `Auths` are all the bounds there are; each is named in the guard that it limits.

Deadlock is checked in every run; no model stops.

### Fairness

*Orchestrator.* The scheduler runs each goroutine, calls return, and the ticker
fires. Strong fairness of each goroutine's steps is needed where two goroutines
take turns on the mutex: Go's mutex goes into starvation mode after a
millisecond and hands itself to the first waiter, so a goroutine that finds it
free again and again does get it. A stream is opened and delivers (weak
fairness), and a process that ended is started again by its supervisor. There is
no fairness for `Exit`: a `select` with a cancelled context and a fired ticker may
choose either. Documents, faults and losses of leadership come to rest because
they are bounded; that is the sense of "once things have come to rest" in the
liveness properties.

*MongoLease.* Time passes and every `Run` takes its next step. Nothing is assumed
about who wins an acquisition.

*Sources.* A cycle goes on and the ticker fires, a process that died is started
again, the children of a cancelled context return, and main reads their error.
Strong fairness of `TermOver` makes up for a simplification: the term waits for the
end of a cycle here, and in the code main can leave at once. No event need ever be
delivered.

*Issuers.* A goroutine in `Issue` goes on, every request returns, and the ACME server
comes to a verdict about what it is looking at. The code has no timeout of its own
around any of these.

### Findings

All are disagreements between what the repository says and what its code does;
`PROJECT.json` quotes both.

* `orch_reelect`: the first reconciliation of a term runs without the mutex,
  "nothing else running yet", while the loop of the last term may be in a cycle.
* `orch_certless`: a route provisioned without its certificate is not repaired,
  because `diff` looks at hosts alone.
* `ingress_names`: after the deletion of a middle Ingress the next new one takes a
  name in use and is refused, on every retry until the numbers fit again.
* `netscaler_churn`: every cycle removes all NetScaler routes and adds them again,
  because `List` returns no hosts. As `MapDeprovision` leaves the services, the
  batch that follows then adds names in use.

Not findings of a run, but met on the way:

* The assumption that `lease` needs: the renew interval is 5s whatever
  `lease_duration` is set to, and no call has a timeout tied to the lease. With a
  lease shorter than `LeaseMargin` says, two instances lead.
* `cert.IssuerName` (`orchestrator.go:203`) is read from the nil certificate that
  `cert-none` returns on purpose (`cert-none/issuer.go:26`): with it a TLS route ends
  the process, in an event's `Certify` and a cycle's `Issue` of `Orchestrator` as
  in the code.
* Two batches from one listing, in the overlap that `orch_reelect` shows, fill an
  Ingress beyond its maximum: `ingress` with two `Writers` breaks `WithinCapacity`.
* The challenge server that is set up and does not listen, and the `Start` of an old
  term that disconnects the new one, both described in section 2.

## 4. The proofs

| theorem | statement | assumptions |
|---|---|---|
| `TypesAlways` | `Spec => [](TypeOK /\ Consistent)` of `Orchestrator` | those on the constants |
| `PlansStayCurrent` | `Spec => []PlanCurrent` | `~Elect` |
| `DriftIsAccounted` | `Spec => []NoSilentDrift` | `~Elect`, `~KeyByHost`, `OwnHost`: every document has hosts of its own |
| `CycleReconciles` | an undisturbed cycle ends with the gateway serving exactly the desired hosts | `KeyByHost`, a gateway keyed by host |
| `IssuerTypes` | `Spec => []TypeOK` of `Issuers` | those on the constants |
| `ResponsesReachable` | `Spec => []Reachable` | those on the constants |
| `RefusalsHaveCause` | `Spec => []RefusedForCause` | those on the constants |
| `TokensCleaned` | `Spec => []NoLeftovers` | those on the constants |
| `SourceTypes` | `Spec => []TypeOK` of `Sources` | those on the constants |
| `ChangesAccounted` | `Spec => []Accounted` | those on the constants |
| `StoreTypes` | `Spec => []TypeOK` of `CertStore` | those on the constants |
| `CertificateHasItsKey` | `Spec => []PairsMatch` | `"file" \in Alone` |
| `CertificatesAreOwn` | `Spec => []OwnCertificate` | no two hosts share a place |
| `UsableStays` | `Spec => KeepsUsable` | `"file" \in Alone` |
| `ApplianceTypes` | `Spec => []TypeOK` of `NetscalerProvisioner` | those on the constants |
| `NothingDangles` | `Spec => []NoDangling` | those on the constants |
| `ApplianceDone` | `Spec => []DoneAsAsked` | those on the constants |
| `IngressTypes` | `Spec => []TypeOK` of `IngressProvisioner` | those on the constants |
| `TLSInStep` | `Spec => []TLSMatchesRules` | `IdsDiffer` |
| `CapacityKept` | `Spec => []WithinCapacity` | `OneWriter` |
| `RemovalAsked` | `Spec => RemovesOnlyAsked` | `OneWriter`, `IdsDiffer` |
| `OperationDone` | `Spec => []DoneAsAsked` | `OneWriter`, `IdsDiffer` |
| `LeaseTypes` | `Spec => []TypeOK` of `MongoLease` | those on the constants |
| `OneLeader` | `Spec => [](MutualExclusion /\ LeaderHoldsLease)` | `LeaseMargin` |
| `LeaderKeepsLease` | `Spec => []LeaderHoldsLease` | `LeaseMargin` |
| `LeaseRefinement` | `Spec => ImplementsLeaderLease` | `LeaseMargin` |

**Orchestrator.** `TypeOK` alone is not inductive: `Apply` reads the event that
main is handling and `Remove` indexes the documents by the plan. `Consistent`
adds that a goroutine's place fits its locals (main past `Receive` has an event,
the trigger in `sending` holds one, ...). For `PlanCurrent` the strengthening is
`Exclusive`: with one term at a time, whoever is in a cycle or in `Certify` or
`Apply` is main before the services of the term were started, or holds the mutex.
So at most one goroutine is at a step that writes to the gateway (`OneAtWork`),
and the only write that a plan has to survive is its own `Remove`:
`RemovalKeepsAdd` shows that taking away routes with
undesired hosts does not change which hosts are to be added. With election the
theorem is false, as `orch_reelect` shows, hence `~Elect`.

**NoSilentDrift.** Its invariant follows a change from the collection to the gateway.
The last thing said of a document on its way tells what the document is, whether it
is in the feed (`FeedTells`), past it with the trigger (`HeldTells`) or the event that
main has in hand (`EventTells`). A plan is current for every document that is
not known to have changed since its listing (`PlanTells`), and after the removals of a
cycle no route has another host than its document's (`Removed`), so its additions
leave everything in place that they reach. Where none of these says anything
there is a loss on record. The theorem is for routes keyed by document, and for
documents with hosts of their own (`OwnHost`): `diff` compares hosts, so of two documents with
one host the route of the first stands for the second, and a loss of the second is
not made good by a cycle.

**MongoLease.** `MutualExclusion` follows from how much of the lease is left.
The inductive invariant gives, for every place in `Run`, a lower bound of the
`ttl` of the lease that an instance holds there, and the bound at each place is
what is spent from there to the end of the callback in the worst case: renew
interval or what is left of it, a call, a drain, the skew. Every step but `Tick`
passes from one place to one with no more to spend, `Tick` spends one of both
sides, and acquiring starts with `LeaseDuration`, which `LeaseMargin` makes
enough. A `ttl` of at least `MaxSkew` is past on no clock, so nobody else's filter
matches (`OthersRefused`). Refinement follows step by step: only `StartLeading`
and the steps that leave the callback change the set of leaders, and exclusion
makes that set empty or a singleton.

**Sources.** Only one kind of source is ever at work (`OneSource`), and each has its
part of the invariant. For HTTP, a handler that has not been overtaken has in hand
what is in the store (`InFlightTells`), and once no handler is left for a host, the
newest event about it in the queue says what the store has, or the cycle at work does
if the queue is silent (`QueueTells`). What `Start` does to the queue is to move its
head, to put another channel's event in front of it or to lose it, and lemmas on
queues (`AppendTells`, `FrontTells`) say what each does to the newest event about a
host. For the composite, the last change of a document in a stream is what the
document is (`FeedTells`), and so is the event that a child blocks on unless more
follows (`HeldTells`). An update that is looked up and found gone can be skipped for
that reason alone: its stream has the removal as well, as one that is looked up was
no removal. That a listing clears `missed` needs that `diff` leaves alone what fits
(`ListPlans`).

**Issuers.** `Reachable` speaks of the callers at work, and a refusal may come from
what an earlier call has left: the call that accepted a challenge is gone, and the
next one gets the same authorization. The inductive invariant therefore says the
same of authorizations: the response to any that the ACME server is looking at can
be found, unless it is spoiled or nobody listens (`Found`), and for any that it has
refused the same was so (`Blamed`). That nobody listens is for good (`DeafStays`),
`Cleanup` marks what it takes from under a pending authorization, and `Order` takes
no place that a caller is at, so nothing recorded of one authorization is believed
of another. `Serving` gives the challenge server that goes with every challenge.
For `NoLeftovers` the invariant names the one token that may be left (`OneStray`).

**CertStore.** What a lookup returns was written by another call, so the invariant
speaks of the store. Nothing in it was never issued (`AllReal`), and a Secret or an
entry of Vault is one certificate's or not there (`AllWhole`), which is `PairsMatch`
for these two. A directory may hold any mixture; there the invariant says that a
`meta.json` not near its expiry vouches for no certificate and key but its own
(`AllVouch`, outside `overlaid`). This survives the writing of files one by one
because nothing vouches for them meanwhile (`Unvouched`) and `meta.json` is the last
(`InOrder`), and it reaches the caller because nobody writes between `Get` and
`Check` (`AsRead`, by `OneByOne`, for which `"file" \in Alone` is needed). `AsIssued`
says that what is being stored is new: writing it makes nothing unusable, which is
`KeepsUsable` for Secrets and Vault. `OwnCertificate` needs none of this, only that
what a place holds was issued for a host with that place (`InPlace`).

**NetscalerProvisioner.** Additions and bindings need what they refer to, so they
cannot leave a reference to nothing. Deletions are not checked, so the invariant says
that every deletion to come finds gone what referred to its object (`Ready`): either
nothing can (`Free`), or the operation before it saw to that (`Follows`: virtual
server, pair, certificate, key). `Orderly` is this for a whole request, and `InOrder`
for the requests still to come, one after the other. An event ends with its first
failure. A cycle goes on, but its two batches begin with operations that are `Free`,
so the second depends on nothing that the first was to do. The lemmas on the mapper
(`ProvisionIs`, `DeprovisionIs`, `Flattened`) show that all it makes is of this form,
for any number of backends and routes. `Through` and the library's `FlattenSeq` are
recursive functions; what they compute (`ThroughSteps`, `FlattenSteps`) and that all
configurations on the way are closed (`Chain`) is proved by induction as a property
of sets of numbers (`UpTo`, from the library's minimum of a well-founded relation).
For `DoneAsAsked` the invariant is what the requests to come will do (`AsPlanned`), while
none has failed: a part of a route to add is there, or some request names it, and from
then on there are only additions (`WillBe`); a part of a route to remove is gone, or some
request takes it, itself or with its virtual server, and none from then on puts it back
(`WillGo`, which allows for the unbinding that is posted as a binding, as the virtual
server is deleted after it). That the batches contain all this is that a flattened
sequence has what its parts have (`FlattenedHas`) and that the order of a batch names
every route (`ListingNames`).

**IngressProvisioner.** An operation works from one listing, and its calls name Ingresses
and indices of that listing. So the invariant says of every call still to come that it
still means what it meant when it was worked out, for each property in its own terms.
`TLSInv` (for `TLSMatchesRules`): a call that brings whole rules brings their entries
(`Sound`), and an edit by index, which names a rule and an entry one by one, is the only
call of an operation at work alone (`Alone`: a single operation excludes every other,
batches may overlap), so its indices are those of the Ingress as it is (`Current`). Any
number of writers may be at work. `CapInv` (for `WithinCapacity`): a call that adds to
an Ingress leaves it within capacity (`Fits`), and no two calls of an operation write
the same existing Ingress (`Apart`), so none takes the room that another was promised.
`AskInv` (for `RemovesOnlyAsked`): what a call takes away has an id that the job is to
remove (`Asked`). `DoneInv` (for `DoneAsAsked`): while nothing has failed, whatever was
asked for is done or is what a call to come does (`Due`, by `Gives` and `Clears`), and
where no two routes share a host, no host has two rules (`OneRule`), so the one rule
that a single `Deprovision` takes away was the only one. The lemmas on the packing say
that it loses no route and gives none twice, in whatever order it takes the Ingresses.

The two assumptions: `OneWriter` is one operation at a time, which the mutex and the
order of `run` give while nobody elects leaders (`OneAtWork` in `OrchestratorProofs`);
with two operations under way two batches add to the same Ingress by the same listing
and neither `WithinCapacity` nor `DoneAsAsked` holds. `IdsDiffer` is that no two hosts
have one route id, that is, differ in dots and dashes alone: by the id
`Deprovision` finds the rule, so it takes `a.b` for `a-b`.

**Only model-checked.** Liveness (`Converges`, `StableLeader`, `HostsConverge`,
`FailsTogether`, `Returns`) is out of reach of the prover. Every invariant and
every other action property of the passing runs is a theorem.

## 5. What is left out

* `impl/lease-kube`. Its `Run` sets up client-go's leader election and returns what
  that returns; the algorithm is client-go's, and the code around it is a callback
  in each direction. Its one fault is known without a model: it returns when the
  lease is lost, although its comment says that it blocks until the context is
  cancelled, so the process ends, without an error.
* What a route is besides its host and whether a certificate came with it, everywhere
  but in `Sources`: backends, paths, annotations, classes. `diff` does not see them
  either, which is listed as a hazard.
* The cursor behind a listing, which may see part of a concurrent change.
* Resume tokens, which the program has an option for and never sets.
* Two instances with one identity: the elector takes them for one.
* What is in a certificate, the CA chain kept with it (a store that is given none
  leaves an old `ca.pem` in place), logging, and the parsing of the configuration.
* `GET` handlers of the HTTP source and the requests it refuses.

## 6. Plan

What remains, in this order:

1. A refinement of `Gateway` by `IngressProvisioner` for operations that succeed.
2. Content of routes in `Gateway` and `Orchestrator`, to follow a content that
   `diff` does not see over the provisioners with a gateway of their own.
3. `lease-kube` as a second refinement of `LeaderLease`.
