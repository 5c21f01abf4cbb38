------------------------------ MODULE Gateway ------------------------------
(***************************************************************************)
(* The routing tables of the two ends of the program, and what the calls   *)
(* of core/provisioner.RouteProvisioner do to the gateway's one.           *)
(*                                                                         *)
(* A document of the source carries at most one host.  A gateway is a      *)
(* table of routes indexed by route id.  What the route id is depends on   *)
(* the provisioner: provisioner-log takes the document's id, the mappers   *)
(* of provisioner-ingress and provisioner-netscaler derive it from the     *)
(* host (KeyByHost).                                                       *)
(***************************************************************************)
EXTENDS FiniteSets

CONSTANTS
  Docs,       \* the documents' ids
  Hosts,      \* the hosts a document may ask for
  Absent,     \* "there is no such document"
  Blank,      \* "the document has no usable url": the mapper skips it
  Unrouted,   \* "there is no such route on the gateway"
  KeyByHost   \* TRUE: RouteID is a function of the host; FALSE: of the document

ASSUME GatewayAssumption ==
  /\ Docs \cap Hosts = {}
  /\ {Absent, Blank} \cap Hosts = {}
  /\ Absent # Blank
  /\ KeyByHost \in BOOLEAN
  /\ Unrouted \notin [host : Hosts, cert : BOOLEAN]

Values == Hosts \cup {Absent, Blank}

\* What a document source holds: a host, nothing usable, or no document.
Source == [Docs -> Values]

DesiredHosts(want) == {want[d] : d \in Docs} \cap Hosts

RouteIds == Docs \cup Hosts

RouteID(d, h) == IF KeyByHost THEN h ELSE d

\* cert: a certificate was handed to Provision with the route.
Entry == [host : Hosts, cert : BOOLEAN]

GatewayTable == [RouteIds -> Entry \cup {Unrouted}]

NoRoutes == [id \in RouteIds |-> Unrouted]

\* Every route sits under the id that RouteID gives its host.
KeyedByHost(g) == \A id \in RouteIds : g[id] # Unrouted => g[id].host = id

ServedHosts(g) == {g[id].host : id \in {i \in RouteIds : g[i] # Unrouted}}

-----------------------------------------------------------------------------

Provision(g, d, h, hasCert) ==
  [g EXCEPT ![RouteID(d, h)] = [host |-> h, cert |-> hasCert]]

\* Deprovisioning an id the gateway does not know is a success without effect.
Deprovision(g, id) ==
  [i \in RouteIds |-> IF i = id THEN Unrouted ELSE g[i]]

BatchDeprovision(g, ids) ==
  [i \in RouteIds |-> IF i \in ids THEN Unrouted ELSE g[i]]

(***************************************************************************)
(* The routes of the documents in ds, with the hosts that want gives them, *)
(* each with the certificate that certs holds for its host.  Two documents *)
(* with one host make the same entry when routes are keyed by host.        *)
(***************************************************************************)
BatchProvision(g, ds, want, certs) ==
  [i \in RouteIds |->
     LET added == {d \in ds : RouteID(d, want[d]) = i}
         host  == IF KeyByHost THEN i ELSE want[i]
     IN  IF added = {} THEN g[i]
         ELSE [host |-> host, cert |-> host \in certs]]
=============================================================================
