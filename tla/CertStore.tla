----------------------------- MODULE CertStore -----------------------------
(***************************************************************************)
(* impl/certstore-file, -kube and -vault: issuers that keep what another   *)
(* issuer issues, and issue from what they keep until it nears its expiry. *)
(*                                                                         *)
(* A certificate is a serial number.  A place of the store holds a         *)
(* certificate, a key and the data that say whose they are and when they   *)
(* expire (annotations of a Secret, fields of a KV entry, meta.json), each *)
(* named by the serial of the certificate it belongs to.  Secrets and KV   *)
(* entries are written at once, the files of a directory one by one.       *)
(*                                                                         *)
(* The calls come from the goroutines that use the orchestrator's issuer:  *)
(* of one term under the mutex, of two terms possibly at the same time.    *)
(***************************************************************************)
EXTENDS Naturals, Sequences, FiniteSets

CONSTANTS
  Hosts,
  PlaceOf,     \* PlaceOf[h]: secretName, secretPath or hostDir of a host
  Stores,      \* the kinds of store a deployment may configure
  Alone,       \* those that one goroutine at a time is assumed to use
  Writers,     \* the goroutines that call the issuer
  MaxSerial,   \* bound: certificates issued
  MaxFaults,   \* bound: failed calls and crashes
  NoHost,      \* "this goroutine is not in Issue"
  Missing,     \* "no such file, field or entry"
  Torn         \* "a file that was cut short"

Serials == 1 .. MaxSerial
Places  == {PlaceOf[h] : h \in Hosts}
Content == Serials \cup {Missing, Torn}
Files   == {"cert", "key", "meta"}
Entry   == [Files -> Content]

ASSUME CertStoreAssumption ==
  /\ DOMAIN PlaceOf = Hosts
  /\ Stores \subseteq {"file", "kube", "vault"} /\ Alone \subseteq Stores
  /\ NoHost \notin Hosts
  /\ MaxSerial \in Nat /\ MaxFaults \in Nat
  /\ {Missing, Torn} \cap Nat = {} /\ Missing # Torn

VARIABLES
  store,   \* the configured kind of store
  kept,    \* kept[p]: what is in a place of the store
  issued,  \* issued[n]: the host of the certificate with serial n
  fresh,   \* serials further than renewBefore from their expiry
  pc,      \* pc[w]: where Issue is
  host,    \* host[w]: the host it was called for
  got,     \* got[w]: what it has read, or had issued
  faults,  \* faults still to come
  overlaid \* history: places written to although their data say: not yet

vars == <<store, kept, issued, fresh, pc, host, got, faults, overlaid>>

None  == [f \in Files |-> Missing]
All(n) == [f \in Files |-> n]

PCs == {"idle", "get", "check", "inner", "look", "create", "update", "done"}
         \cup Files

-----------------------------------------------------------------------------
(* Helpers. *)

\* Mutant: the name is cut down to what all hosts share.
PlaceMutant(w) == CHOOSE p \in Places : TRUE

Place(w) == PlaceOf[host[w]]

\* A certificate, its key and its data, not near their expiry.
Usable(p) == \E n \in fresh : kept[p] = All(n)

goto(w, label) == pc' = [pc EXCEPT ![w] = label]

\* Issue returns.
Leave(w) ==
  /\ goto(w, "idle")
  /\ host' = [host EXCEPT ![w] = NoHost]
  /\ got' = [got EXCEPT ![w] = None]

\* Nothing in the code keeps goroutines from calling at the same time: Alone is
\* an assumption about who uses the store.
Permitted == store \in Alone => \A v \in Writers : pc[v] = "idle"

Fault == faults > 0 /\ faults' = faults - 1

\* Mutant: meta.json is written before the key.
NextFileMutant(f) ==
  CASE f = "cert" -> "meta" [] f = "meta" -> "key" [] f = "key" -> "done"

\* The order in which the file store writes.
NextFile(f) ==
  CASE f = "cert" -> "key" [] f = "key" -> "meta" [] f = "meta" -> "done"

FirstWrite ==
  CASE store = "file" -> "cert" [] store = "kube" -> "look"
    [] store = "vault" -> "update"

-----------------------------------------------------------------------------
(* Issue: what is kept. *)

Call(w, h) ==
  /\ pc[w] = "idle"
  /\ Permitted
  /\ goto(w, "get")
  /\ host' = [host EXCEPT ![w] = h]
  /\ UNCHANGED <<store, kept, issued, fresh, got, faults, overlaid>>

Get(w) ==
  /\ pc[w] = "get"
  /\ got' = [got EXCEPT ![w] = kept[Place(w)]]
  /\ goto(w, "check")
  /\ UNCHANGED <<store, kept, issued, fresh, host, faults, overlaid>>

\* kube gives up, the others go on as if nothing was kept.
GetFails(w) ==
  /\ pc[w] = "get"
  /\ Fault
  /\ IF store = "kube" THEN Leave(w)
                       ELSE goto(w, "inner") /\ UNCHANGED <<host, got>>
  /\ UNCHANGED <<store, kept, issued, fresh, overlaid>>

\* A missing file, or data that do not parse, count as nothing kept; the
\* contents of the certificate and its key are not looked at.
Check(w) ==
  /\ pc[w] = "check"
  /\ LET hit == /\ got[w].meta \in fresh
               /\ Missing \notin {got[w].cert, got[w].key}
     IN  goto(w, IF hit THEN "done" ELSE "inner")
  /\ UNCHANGED <<store, kept, issued, fresh, host, got, faults, overlaid>>

-----------------------------------------------------------------------------
(* Issue: a new certificate, and keeping it. *)

\* Mutant: the certificate of one call and the key of the next.
InnerMutant(w) ==
  /\ pc[w] = "inner"
  /\ Len(issued) < MaxSerial
  /\ LET n == Len(issued) + 1
     IN  /\ issued' = Append(issued, host[w])
         /\ fresh' = fresh \cup {n}
         /\ got' = [got EXCEPT ![w] = [All(n) EXCEPT !.key = n + 1]]
  /\ goto(w, FirstWrite)
  /\ UNCHANGED <<store, kept, host, faults, overlaid>>

Inner(w) ==
  /\ pc[w] = "inner"
  /\ Len(issued) < MaxSerial
  /\ LET n == Len(issued) + 1
     IN  /\ issued' = Append(issued, host[w])
         /\ fresh' = fresh \cup {n}
         /\ got' = [got EXCEPT ![w] = All(n)]
  /\ goto(w, FirstWrite)
  /\ overlaid' = IF kept[Place(w)].meta \in fresh
                   THEN overlaid \cup {Place(w)} ELSE overlaid
  /\ UNCHANGED <<store, kept, host, faults>>

\* The bound stands for an issuer that refuses from then on.
InnerFails(w) ==
  /\ pc[w] = "inner"
  /\ \/ Len(issued) = MaxSerial /\ UNCHANGED faults
     \/ Fault
  /\ Leave(w)
  /\ UNCHANGED <<store, kept, issued, fresh, overlaid>>

\* Mutant: the old Secret is deleted before the new one is created.
LookMutant(w) ==
  /\ pc[w] = "look"
  /\ kept' = [kept EXCEPT ![Place(w)] = None]
  /\ goto(w, "create")
  /\ UNCHANGED <<store, issued, fresh, host, got, faults, overlaid>>

\* storeCert of the Kubernetes store looks first.
Look(w) ==
  /\ pc[w] = "look"
  /\ goto(w, IF kept[Place(w)] = None THEN "create" ELSE "update")
  /\ UNCHANGED <<store, kept, issued, fresh, host, got, faults, overlaid>>

\* A Secret is only created where there is none, and only updated where there
\* is one; no resource version is compared.
Put(w) ==
  LET there == kept[Place(w)] # None
      does  == CASE pc[w] = "create" -> ~there
                 [] pc[w] = "update" -> there \/ store = "vault"
  IN  /\ pc[w] \in {"create", "update"}
      /\ kept' = IF does THEN [kept EXCEPT ![Place(w)] = got[w]] ELSE kept
      /\ overlaid' = IF does THEN overlaid \ {Place(w)} ELSE overlaid
      /\ goto(w, "done")
      /\ UNCHANGED <<store, issued, fresh, host, got, faults>>

WriteFile(w) ==
  /\ pc[w] \in Files
  /\ kept' = [kept EXCEPT ![Place(w)][pc[w]] = got[w][pc[w]]]
  /\ goto(w, NextFile(pc[w]))
  /\ overlaid' = IF NextFile(pc[w]) = "done"
                   THEN overlaid \ {Place(w)} ELSE overlaid
  /\ UNCHANGED <<store, issued, fresh, host, got, faults>>

\* A file is emptied before it is written.
CutShort(w) ==
  kept' \in {kept} \cup
    {[kept EXCEPT ![Place(w)][f] = Torn] : f \in {pc[w]} \cap Files}

\* Only logged: the certificate is returned all the same.
PutFails(w) ==
  /\ pc[w] \in Files \cup {"look", "create", "update"}
  /\ Fault
  /\ CutShort(w)
  /\ goto(w, "done")
  /\ UNCHANGED <<store, issued, fresh, host, got, overlaid>>

Return(w) ==
  /\ pc[w] = "done"
  /\ Leave(w)
  /\ UNCHANGED <<store, kept, issued, fresh, faults, overlaid>>

-----------------------------------------------------------------------------
(* Revoke, time, and crashes. *)

\* Nothing in the program calls it.  Of a directory any part may be left.
Revoke(h) ==
  /\ Permitted
  /\ \/ /\ kept' = [kept EXCEPT ![PlaceOf[h]] = None]
        /\ UNCHANGED faults
     \/ /\ Fault
        /\ \E left \in IF store = "file" THEN SUBSET Files ELSE {Files} :
             kept' = [kept EXCEPT ![PlaceOf[h]] =
                        [f \in Files |-> IF f \in left THEN @[f] ELSE Missing]]
  /\ UNCHANGED <<store, issued, fresh, pc, host, got, overlaid>>

\* Validity is counted in days, so that no certificate nears its expiry on
\* its way into the store.
NearExpiry(n) ==
  /\ n \in fresh
  /\ \A w \in Writers : got[w].cert = n => pc[w] = "done"
  /\ fresh' = fresh \ {n}
  /\ UNCHANGED <<store, kept, issued, pc, host, got, faults, overlaid>>

Crash(w) ==
  /\ pc[w] # "idle"
  /\ Fault
  /\ CutShort(w)
  /\ Leave(w)
  /\ UNCHANGED <<store, issued, fresh, overlaid>>

-----------------------------------------------------------------------------

Init ==
  /\ store \in Stores
  /\ kept = [p \in Places |-> None]
  /\ issued = <<>>
  /\ fresh = {}
  /\ pc = [w \in Writers |-> "idle"]
  /\ host = [w \in Writers |-> NoHost]
  /\ got = [w \in Writers |-> None]
  /\ faults = MaxFaults
  /\ overlaid = {}

Step(w) ==
  \/ \E h \in Hosts : Call(w, h)
  \/ Get(w) \/ GetFails(w) \/ Check(w)
  \/ Inner(w) \/ InnerFails(w)
  \/ Look(w) \/ Put(w) \/ WriteFile(w) \/ PutFails(w)
  \/ Return(w) \/ Crash(w)

Next ==
  \/ \E w \in Writers : Step(w)
  \/ \E h \in Hosts : Revoke(h)
  \/ \E n \in Serials : NearExpiry(n)

Spec == Init /\ [][Next]_vars

-----------------------------------------------------------------------------
(* Properties. *)

TypeOK ==
  /\ store \in Stores
  /\ kept \in [Places -> Entry]
  /\ issued \in Seq(Hosts) /\ Len(issued) <= MaxSerial
  /\ fresh \subseteq DOMAIN issued
  /\ pc \in [Writers -> PCs]
  /\ host \in [Writers -> Hosts \cup {NoHost}]
  /\ got \in [Writers -> Entry]
  /\ faults \in 0 .. MaxFaults
  /\ overlaid \subseteq Places

\* Issue returns a certificate with its own key, whatever crash or failed write
\* the store has been through and whoever else uses it.  The one exception is
\* the file store when it writes over files whose meta.json is not near its
\* expiry, after it failed to read them or to remove them all: until the new
\* meta.json is written, the old one vouches for new files.
PairsMatch ==
  \A w \in Writers :
    pc[w] = "done" /\ ~(store = "file" /\ Place(w) \in overlaid) =>
      got[w].cert = got[w].key /\ got[w].cert \in DOMAIN issued

\* certstore-kube/issuer.go:31-32: "On subsequent Issue calls for the same
\* host, it returns the cached certificate": what Issue returns was issued for
\* the host it was asked for.
OwnCertificate ==
  \A w \in Writers :
    pc[w] = "done" /\ got[w].cert \in DOMAIN issued =>
      issued[got[w].cert] = host[w]

\* README.md:28, "avoids unnecessary reissuance after gateway restarts": a
\* usable certificate that is kept stays usable until it nears its expiry or
\* is revoked, through crashes, failed writes and other goroutines (but for
\* the exception above).
KeepsUsable ==
  [][\A p \in Places :
       Usable(p) /\ ~Usable(p)' =>
         \/ fresh' # fresh
         \/ \E h \in Hosts : Revoke(h)
         \/ store = "file" /\ p \in overlaid]_vars
=============================================================================
