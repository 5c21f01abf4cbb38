------------------------- MODULE IngressProvisioner -------------------------
(***************************************************************************)
(* impl/provisioner-ingress: routes packed as rules into a row of managed  *)
(* Ingress resources, through the Kubernetes API.                          *)
(*                                                                         *)
(* Every operation lists the managed Ingresses once and works out from     *)
(* that listing the calls it is going to make: creations, deletions and    *)
(* JSON patches by index, none of them conditional on a resource version.  *)
(* The calls are then made one at a time, and the first one that fails     *)
(* ends the operation.                                                     *)
(*                                                                         *)
(* A rule is the host it serves, a TLS entry the one host it names.  Which *)
(* backend a rule has is left out.                                         *)
(***************************************************************************)
EXTENDS Naturals, Sequences, FiniteSets, SequencesExt

CONSTANTS
  Hosts,
  TLSHosts,      \* hosts whose route asks for TLS
  IdOf,          \* IdOf[h]: RouteID of a request, ExtractRouteID of a rule
  MaxRoutes,     \* maxRoutesPerIngress
  Writers,       \* goroutines that may use the provisioner at the same time
  SharedHosts,   \* TRUE: two documents may ask for the same host
  MaxBatch,      \* bound: routes in a batch
  MaxIngresses,  \* bound: Ingress resources
  MaxFaults,     \* bound: calls that fail for a reason outside the model
  NoIngress,     \* "no Ingress of this name"
  Idle           \* "this writer is in no operation"

Ids     == {IdOf[h] : h \in Hosts}
Indices == 0 .. MaxIngresses - 1

Ingress == [rules : Seq(Hosts), tls : Seq(Hosts)]

Ops == {"create", "delete", "add", "remove", "update", "replace"}

\* rule, entry: the indices a patch names, 0 for none.
Call == [op : Ops, name : Indices, rules : Seq(Hosts), tls : Seq(Hosts),
         rule : Nat, entry : Nat]

\* What an operation is to achieve, and whether every call so far succeeded.
Job == [add : SUBSET Hosts, remove : SUBSET Ids, batch : BOOLEAN, ok : BOOLEAN]

ASSUME IngressAssumption ==
  /\ TLSHosts \subseteq Hosts
  /\ DOMAIN IdOf = Hosts
  /\ MaxRoutes \in Nat \ {0}
  /\ MaxBatch \in Nat /\ MaxIngresses \in Nat /\ MaxFaults \in Nat
  /\ SharedHosts \in BOOLEAN
  /\ NoIngress \notin Ingress
  /\ Idle \notin Job

VARIABLES
  ingresses,  \* ingresses[n]: the managed Ingress named routes-<n>
  job,        \* job[w]: the operation that w is in
  calls,      \* calls[w]: the calls it has still to make
  faults      \* faults still to come

vars == <<ingresses, job, calls, faults>>

-----------------------------------------------------------------------------
(* The listing.  Its order is the names' (up to routes-9 the indices'). *)

Listed   == {n \in Indices : ingresses[n] # NoIngress}
Rules(n) == ingresses[n].rules
Served   == UNION {ToSet(Rules(n)) : n \in Listed}

\* The elements of s that are in S, in their order.
Among(s, S) ==
  LET among[i \in 0 .. Len(s)] ==
        IF i = 0 THEN <<>>
        ELSE IF s[i] \in S THEN Append(among[i - 1], s[i]) ELSE among[i - 1]
  IN  among[Len(s)]

\* How often h is in s.
Times(s, h) == Len(Among(s, {h}))

TLSOf(hs) == Among(hs, TLSHosts)

\* The index of the first rule with that id, 0 if there is none.
RuleIndex(n, id) == SelectInSeq(Rules(n), LAMBDA h : IdOf[h] = id)

\* Mutant: the index counts from zero.
EntryIndexMutant(n, j) ==
  SelectInSeq(ingresses[n].tls, LAMBDA h : h = Rules(n)[j]) - 1

\* The index of the TLS entry of the host of rule j.
EntryIndex(n, j) ==
  SelectInSeq(ingresses[n].tls, LAMBDA h : h = Rules(n)[j])

With(id) == {n \in Listed : RuleIndex(n, id) # 0}

\* Mutant: an Ingress with maxRoutesPerIngress rules has capacity.
WithCapacityMutant == {n \in Listed : Len(Rules(n)) <= MaxRoutes}

\* findWithCapacity takes the first of these.
WithCapacity == {n \in Listed : Len(Rules(n)) < MaxRoutes}

-----------------------------------------------------------------------------
(* The calls. *)

WriteRules(op, n, hs, tls) ==
  [op |-> op, name |-> n, rules |-> hs, tls |-> tls, rule |-> 0, entry |-> 0]

EditRule(op, n, j, hs) ==
  [op |-> op, name |-> n, rules |-> hs, tls |-> TLSOf(hs), rule |-> j,
   entry |-> EntryIndex(n, j)]

CreateIngress(n, hs)  == WriteRules("create", n, hs, TLSOf(hs))
DeleteIngress(n)      == WriteRules("delete", n, <<>>, <<>>)
PatchAddRules(n, hs)  == WriteRules("add", n, hs, TLSOf(hs))
PatchRemoveRule(n, j) == EditRule("remove", n, j, <<>>)
UpdateRule(n, j, h)   == EditRule("update", n, j, <<h>>)

ProvisionCalls(h) ==
  LET hit == With(IdOf[h])
  IN  IF hit # {} THEN
        LET n == Min(hit) IN <<UpdateRule(n, RuleIndex(n, IdOf[h]), h)>>
      ELSE IF WithCapacity # {} THEN
        <<PatchAddRules(Min(WithCapacity), <<h>>)>>
      ELSE <<CreateIngress(Cardinality(Listed), <<h>>)>>

\* Mutant: the Ingress goes with the first rule that is removed.
DeprovisionCallsMutant(id) ==
  IF With(id) = {} THEN <<>> ELSE <<DeleteIngress(Min(With(id)))>>

\* The first rule with that id goes, and its Ingress if it was the only one.
DeprovisionCalls(id) ==
  IF With(id) = {} THEN <<>>
  ELSE LET n == Min(With(id))
       IN  IF Len(Rules(n)) = 1 THEN <<DeleteIngress(n)>>
           ELSE <<PatchRemoveRule(n, RuleIndex(n, id))>>

\* The emptiest Ingress first.
PackingOrders ==
  {o \in SetToSeqs(Listed) :
     \A i, j \in DOMAIN o : i < j => Len(Rules(o[i])) <= Len(Rules(o[j]))}

Room(n) == IF n \in WithCapacity THEN MaxRoutes - Len(Rules(n)) ELSE 0

\* The routes from the cursor on, as many as fit into room.
Slice(hs, cursor, room) ==
  SubSeq(hs, cursor + 1, Min({cursor + room, Len(hs)}))

\* Fill(o)[i]: how many routes the first i Ingresses of o take.
Fill(o) ==
  LET taken[i \in 0 .. Len(o)] ==
        IF i = 0 THEN 0 ELSE taken[i - 1] + Room(o[i])
  IN  taken

\* Mutant: the batch ends with the room in the existing Ingresses.
OverflowMutant(hs, cursor) == <<>>

\* New Ingresses for the routes from the cursor on.
Overflow(hs, cursor) ==
  LET left == IF cursor < Len(hs) THEN Len(hs) - cursor ELSE 0
  IN  [k \in 1 .. (left + MaxRoutes - 1) \div MaxRoutes |->
         CreateIngress(Cardinality(Listed) + k - 1,
                       Slice(hs, cursor + (k - 1) * MaxRoutes, MaxRoutes))]

\* All creations come before the first patch.
BatchProvisionCalls(hs, o) ==
  LET patches == [i \in DOMAIN o |->
                    PatchAddRules(o[i], Slice(hs, Fill(o)[i - 1], Room(o[i])))]
  IN  Overflow(hs, Fill(o)[Len(o)])
        \o Among(patches, {c \in ToSet(patches) : c.rules # <<>>})

\* Mutant: the TLS entries of removed hosts are kept.
PatchReplaceSpecMutant(n, ids) ==
  WriteRules("replace", n, Among(Rules(n), {h \in Hosts : IdOf[h] \notin ids}),
             ingresses[n].tls)

PatchReplaceSpec(n, ids) ==
  LET kept == {h \in Hosts : IdOf[h] \notin ids}
  IN  WriteRules("replace", n, Among(Rules(n), kept),
                 Among(ingresses[n].tls, kept))

BatchDeprovisionCalls(ids) ==
  LET changed == {n \in Listed : \E id \in ids : n \in With(id)}
      names   == Among([i \in 1 .. MaxIngresses |-> i - 1], changed)
  IN  [i \in DOMAIN names |->
         LET kept == PatchReplaceSpec(names[i], ids)
         IN  IF kept.rules = <<>> THEN DeleteIngress(names[i]) ELSE kept]

-----------------------------------------------------------------------------
(* What the API server does with a call. *)

\* A pointer into tls resolves only if there is a list to point into, and an
\* Ingress without a rule is not valid.
PatchApplies(ing, c) ==
  CASE c.op = "add"    -> c.tls # <<>> => ing.tls # <<>>
    [] c.op = "remove" -> /\ c.rule \in DOMAIN ing.rules
                          /\ c.entry \in {0} \cup DOMAIN ing.tls
                          /\ Len(ing.rules) > 1
    [] c.op = "update" -> /\ c.rule \in DOMAIN ing.rules
                          /\ c.tls # <<>> =>
                               IF c.entry = 0 THEN ing.tls # <<>>
                               ELSE c.entry \in DOMAIN ing.tls
    [] OTHER           -> TRUE

Accepts(c) ==
  CASE c.op = "create" -> ingresses[c.name] = NoIngress
    [] c.op = "delete" -> TRUE
    [] OTHER           -> /\ ingresses[c.name] # NoIngress
                          /\ PatchApplies(ingresses[c.name], c)

\* Whether "replace" of a missing /spec/tls is an error is up to the server's
\* JSON Patch library.
MayRefuse(c) ==
  Accepts(c) => c.op = "replace" /\ ingresses[c.name].tls = <<>>

Patched(ing, c) ==
  CASE c.op = "add" ->
         [rules |-> ing.rules \o c.rules, tls |-> ing.tls \o c.tls]
    [] c.op = "remove" ->
         [rules |-> RemoveAt(ing.rules, c.rule),
          tls   |-> IF c.entry = 0 THEN ing.tls ELSE RemoveAt(ing.tls, c.entry)]
    [] c.op = "update" ->
         [rules |-> ReplaceAt(ing.rules, c.rule, c.rules[1]),
          tls   |-> IF c.tls = <<>> THEN ing.tls
                    ELSE IF c.entry = 0 THEN ing.tls \o c.tls
                    ELSE ReplaceAt(ing.tls, c.entry, c.tls[1])]
    [] OTHER -> [rules |-> c.rules, tls |-> c.tls]

After(c) ==
  [ingresses EXCEPT ![c.name] =
     IF c.op = "delete" THEN NoIngress ELSE Patched(@, c)]

Serve(w) ==
  LET c == Head(calls[w])
  IN  /\ calls[w] # <<>>
      /\ Accepts(c)
      /\ ingresses' = After(c)
      /\ calls' = [calls EXCEPT ![w] = Tail(@)]
      /\ UNCHANGED <<job, faults>>

\* The operation returns the error.
Fail(w) ==
  /\ calls' = [calls EXCEPT ![w] = <<>>]
  /\ job' = [job EXCEPT ![w].ok = FALSE]

Refuse(w) ==
  /\ calls[w] # <<>>
  /\ MayRefuse(Head(calls[w]))
  /\ Fail(w)
  /\ UNCHANGED <<ingresses, faults>>

\* A call fails, times out or dies with the process, before or after it took
\* effect.
Fault(w) ==
  /\ calls[w] # <<>>
  /\ faults > 0 /\ faults' = faults - 1
  /\ \/ UNCHANGED ingresses
     \/ Accepts(Head(calls[w])) /\ ingresses' = After(Head(calls[w]))
  /\ Fail(w)

-----------------------------------------------------------------------------
(* The operations of RouteProvisioner. *)

\* handleEvent works alone, under the orchestrator's mutex.  Two cycles, which
\* call the batch operations, may overlap: the one of an old term and the
\* initial one of the next.
Start(w, add, remove, batch, cs) ==
  /\ job[w] = Idle
  /\ \A v \in Writers : job[v] # Idle => batch /\ job[v].batch
  /\ \A i \in DOMAIN cs : cs[i].name \in Indices
  /\ job' = [job EXCEPT ![w] = [add |-> add, remove |-> remove,
                                batch |-> batch, ok |-> TRUE]]
  /\ calls' = [calls EXCEPT ![w] = cs]
  /\ UNCHANGED <<ingresses, faults>>

Provision(w, h) == Start(w, {h}, {}, FALSE, ProvisionCalls(h))

Deprovision(w, id) == Start(w, {}, {id}, FALSE, DeprovisionCalls(id))

\* The reconciler adds routes whose hosts the gateway does not serve, and a
\* host as often as there are documents that ask for it.
BatchProvision(w, hs) ==
  /\ ToSet(hs) \cap Served = {}
  /\ SharedHosts \/ IsInjective(hs)
  /\ \E o \in PackingOrders :
       Start(w, ToSet(hs), {}, TRUE, BatchProvisionCalls(hs, o))

\* And it removes routes by the ids that List gave it.
BatchDeprovision(w, ids) ==
  /\ ids \subseteq {IdOf[h] : h \in Served}
  /\ Start(w, {}, ids, TRUE, BatchDeprovisionCalls(ids))

Return(w) ==
  /\ job[w] # Idle /\ calls[w] = <<>>
  /\ job' = [job EXCEPT ![w] = Idle]
  /\ UNCHANGED <<ingresses, calls, faults>>

-----------------------------------------------------------------------------

Init ==
  /\ ingresses = [n \in Indices |-> NoIngress]
  /\ job = [w \in Writers |-> Idle]
  /\ calls = [w \in Writers |-> <<>>]
  /\ faults = MaxFaults

Next ==
  \E w \in Writers :
    \/ \E h \in Hosts : Provision(w, h)
    \/ \E id \in Ids : Deprovision(w, id)
    \/ \E hs \in BoundedSeq(Hosts, MaxBatch) \ {<<>>} : BatchProvision(w, hs)
    \/ \E ids \in SUBSET Ids \ {{}} : BatchDeprovision(w, ids)
    \/ Serve(w) \/ Refuse(w) \/ Fault(w) \/ Return(w)

Spec == Init /\ [][Next]_vars

-----------------------------------------------------------------------------
(* Properties. *)

TypeOK ==
  /\ ingresses \in [Indices -> Ingress \cup {NoIngress}]
  /\ job \in [Writers -> Job \cup {Idle}]
  /\ calls \in [Writers -> Seq(Call)]
  /\ faults \in 0 .. MaxFaults

\* options.go:28-29: maxRoutesPerIngress is the maximum number of rules of an
\* Ingress; and none is left without a rule.
WithinCapacity == \A n \in Listed : Len(Rules(n)) \in 1 .. MaxRoutes

\* Rules and TLS entries are kept in step, although they are edited by two
\* separate indices: an Ingress has for every rule of a host that asks for
\* TLS one entry, and no other.
TLSMatchesRules ==
  \A n \in Listed : \A h \in Hosts :
    Times(ingresses[n].tls, h) =
      IF h \in TLSHosts THEN Times(Rules(n), h) ELSE 0

\* An operation that returns without an error has done all that it was asked
\* for: every route of a batch found its place, and no rule of a removed route
\* is left in any Ingress.  (A single Deprovision stops at the first rule it
\* finds, which is enough while no two documents share a host.)
DoneAsAsked ==
  \A w \in Writers :
    job[w] # Idle /\ calls[w] = <<>> /\ job[w].ok =>
      /\ job[w].add \subseteq Served
      /\ job[w].batch \/ ~SharedHosts =>
           \A h \in Served : IdOf[h] \notin job[w].remove

\* No call takes away a host that its operation was not asked to remove,
\* whether it succeeds, is refused, or fails half-way.
RemovesOnlyAsked ==
  [][\A h \in Served \ Served' :
       \E w \in Writers : job[w] # Idle /\ IdOf[h] \in job[w].remove]_vars

\* provisioner.go:64-65, "If all existing Ingresses are at capacity a new one
\* is created": the name chosen for a new Ingress is free.
NewNamesAreFree ==
  \A w \in Writers :
    calls[w] # <<>> /\ Head(calls[w]).op = "create" =>
      ingresses[Head(calls[w]).name] = NoIngress
=============================================================================
