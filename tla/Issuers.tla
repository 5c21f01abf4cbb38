------------------------------ MODULE Issuers ------------------------------
(***************************************************************************)
(* The certificate issuers of one process: cert-acme-http with the         *)
(* challenge server that main gives it, cert-acme-dns with a DNSProvider,  *)
(* and next to them cert-vault and cert-selfsigned, whose Issue is a       *)
(* single call or none.                                                    *)
(*                                                                         *)
(* An Issue of the ACME issuers orders a certificate, and unless the ACME  *)
(* server knows a valid authorization for the host, it presents the        *)
(* response to a challenge, has the server look for it, waits for the      *)
(* verdict and cleans up.  The server may hand out one authorization to    *)
(* several orders of an account.  The process makes a new account whenever *)
(* it starts.  Issue is called under the orchestrator's mutex; but for the *)
(* initial reconciliation of a new term, so that calls of two terms may    *)
(* overlap, for one host too.                                              *)
(*                                                                         *)
(* A response is a token of the challenge server or a TXT record, and is   *)
(* named by the authorization it is for.                                   *)
(***************************************************************************)
EXTENDS Naturals, FiniteSets

CONSTANTS
  Callers,    \* goroutines that may be in Issue at a time
  Hosts,
  Auths,      \* bound: authorizations that matter at a time
  Kinds,      \* the kinds of issuer a deployment may configure
  MaxFaults,  \* bound: failures, cancelled contexts and crashes
  NoHost,     \* "no authorization": a free place in Auths
  NoAuth      \* "the caller has no authorization"

ASSUME IssuersAssumption ==
  /\ Kinds \subseteq {"http", "dns", "vault", "selfsigned"}
  /\ MaxFaults \in Nat
  /\ NoHost \notin Hosts
  /\ NoAuth \notin Auths

VARIABLES
  kind,       \* the configured issuer
  pc,         \* pc[g]: the next step of a caller's Issue
  auth,       \* auth[g]: the authorization it is at
  outcome,    \* outcome[g]: of its call so far: "none", "certificate",
              \* "refused" by the ACME server, or "fault"
  cancelled,  \* cancelled[g]: its context is
  known,      \* known[a]: the ACME server's authorization a
  responses,  \* ChallengeServer.tokens, or the TXT records
  server,     \* ChallengeServer.server # nil
  listening,  \* somebody serves on the challenge port
  faults,     \* failures still to come
  spoiled     \* history: authorizations of which a response was cleaned up
              \* before the ACME server was done with them

callVars  == <<pc, auth, outcome, cancelled>>
acmeVars  == <<known, spoiled>>
serveVars == <<responses, server, listening>>
vars == <<kind, callVars, acmeVars, serveVars, faults>>

ACME == kind \in {"http", "dns"}

Final == {"valid", "invalid", "lost"}

\* What the ACME server makes of an authorization; "lost" are the ones of an
\* account whose key is gone.
Authorization == [host : Hosts \cup {NoHost},
                  status : {"pending", "processing"} \cup Final]

Unknown == [host |-> NoHost, status |-> "lost"]

-----------------------------------------------------------------------------
(* Helpers. *)

Status(g) == known[auth[g]].status

\* Authorizations with a challenge between Present and Cleanup.
InUse == {auth[g] : g \in {c \in Callers :
                             pc[c] \in {"listen", "accept", "wait", "cleanup"}}}

\* Nobody asks for them any more.  A TXT record of one is of no consequence,
\* a token still is in the way.
Forgotten ==
  {a \in Auths : /\ known[a].status \in {"invalid", "lost"}
                 /\ a \in responses => kind = "dns"
                 /\ \A g \in Callers : auth[g] # a}

\* The ACME server finds the response.
Served(a) == a \in responses /\ (kind = "http" => listening)

\* The challenge server is set up, and nobody listens.
Deaf == server /\ ~listening

\* The challenges that share their response with the one of g: a token is
\* the one of an authorization, the record of a domain is one for all.
Shared(g) ==
  IF kind = "http" THEN {auth[g]}
  ELSE {a \in Auths : known[a].host = known[auth[g]].host}

\* Mutant: all tokens go.
CleansMutant(g) == responses

\* Mutant: nothing is cleaned up after a failure.
CleansOnSuccess(g) == IF outcome[g] = "none" THEN Shared(g) ELSE {}

\* What Cleanup removes: the token of the challenge, or the record of the
\* domain, whichever value it has.
Cleans(g) == Shared(g)

\* A call fails; once its context is cancelled, whatever the budget.
Fault(g) ==
  IF cancelled[g] THEN UNCHANGED faults ELSE faults > 0 /\ faults' = faults - 1

goto(g, label) == pc' = [pc EXCEPT ![g] = label]

\* Mutant: the locals survive the call.
ReturnMutant(g, result) ==
  /\ goto(g, "idle")
  /\ outcome' = [outcome EXCEPT ![g] = result]
  /\ UNCHANGED <<auth, cancelled>>

\* Issue returns.
Return(g, result) ==
  /\ goto(g, "idle")
  /\ outcome' = [outcome EXCEPT ![g] = result]
  /\ auth' = [auth EXCEPT ![g] = NoAuth]
  /\ cancelled' = [cancelled EXCEPT ![g] = FALSE]

-----------------------------------------------------------------------------
(* Issue of the ACME issuers. *)

(***************************************************************************)
(* Register, and AuthorizeOrder.  The server may reuse an authorization of *)
(* the account.  If either call fails nothing has happened yet.  A new one *)
(* takes the place of any that nobody asks for.                            *)
(***************************************************************************)
Order(g, h) ==
  /\ ACME
  /\ pc[g] = "idle"
  /\ \E a \in Auths :
       /\ \/ /\ known[a].host = h
             /\ known[a].status \in {"pending", "processing", "valid"}
             /\ UNCHANGED <<acmeVars, responses>>
          \/ /\ Forgotten # {}
             /\ a = CHOOSE b \in Forgotten : TRUE
             /\ known' = [known EXCEPT ![a] = [host |-> h, status |-> "pending"]]
             /\ spoiled' = spoiled \ {a}
             /\ responses' = responses \ {a}
       /\ auth' = [auth EXCEPT ![g] = a]
  /\ goto(g, "authorize")
  /\ outcome' = [outcome EXCEPT ![g] = "none"]
  /\ UNCHANGED <<kind, cancelled, server, listening, faults>>

\* fulfillAuthorization: GetAuthorization.  Only a valid one needs no
\* challenge; that the server offers none of the issuer's kind is a failure.
GetAuthorization(g) ==
  /\ pc[g] = "authorize"
  /\ \/ /\ goto(g, IF Status(g) = "valid" THEN "finalize" ELSE "present")
        /\ UNCHANGED <<auth, outcome, cancelled, faults>>
     \/ Fault(g) /\ Return(g, "fault")
  /\ UNCHANGED <<kind, acmeVars, serveVars>>

\* There is a response again where there may have been none.
Presented(g) ==
  /\ responses' = responses \cup {auth[g]}
  /\ spoiled' = IF Status(g) \in Final THEN spoiled ELSE spoiled \ {auth[g]}

\* ChallengeServer.Present stores the token.
Present(g) ==
  /\ pc[g] = "present"
  /\ kind = "http"
  /\ Presented(g)
  /\ goto(g, "listen")
  /\ UNCHANGED <<kind, auth, outcome, cancelled, known, server, listening,
                 faults>>

(***************************************************************************)
(* ChallengeServer.ensureRunning, under the mutex.  The server is set      *)
(* before the port is known to be free; if it is not, Present fails, and   *)
(* nobody cleans up.                                                       *)
(***************************************************************************)
EnsureRunning(g) ==
  /\ pc[g] = "listen"
  /\ server' = TRUE
  /\ \/ /\ listening' = (listening \/ ~server)
        /\ goto(g, "accept")
        /\ UNCHANGED <<auth, outcome, cancelled, faults>>
     \/ /\ ~server
        /\ faults > 0 /\ faults' = faults - 1
        /\ Return(g, "fault")
        /\ UNCHANGED listening
  /\ UNCHANGED <<kind, acmeVars, responses>>

\* DNSProvider.Present; a failure may leave a record, which nobody removes.
PresentRecord(g) ==
  /\ pc[g] = "present"
  /\ kind = "dns"
  /\ \/ /\ Presented(g)
        /\ goto(g, "accept")
        /\ UNCHANGED <<auth, outcome, cancelled, faults>>
     \/ /\ Fault(g)
        /\ Presented(g) \/ UNCHANGED <<responses, spoiled>>
        /\ Return(g, "fault")
  /\ UNCHANGED <<kind, known, server, listening>>

\* The ACME server has been told to look for the response.
Accepted(g) ==
  IF Status(g) = "pending"
    THEN [known EXCEPT ![auth[g]].status = "processing"]
    ELSE known

\* Accept, which fails for a challenge that has failed before.  A failure
\* may come after the server has taken notice.
Accept(g) ==
  /\ pc[g] = "accept"
  /\ \/ /\ Status(g) # "invalid"
        /\ known' = Accepted(g)
        /\ goto(g, "wait")
        /\ UNCHANGED <<outcome, faults>>
     \/ /\ Status(g) = "invalid"
        /\ goto(g, "cleanup")
        /\ outcome' = [outcome EXCEPT ![g] = "refused"]
        /\ UNCHANGED <<known, faults>>
     \/ /\ Fault(g)
        /\ known' \in {known, Accepted(g)}
        /\ goto(g, "cleanup")
        /\ outcome' = [outcome EXCEPT ![g] = "fault"]
  /\ UNCHANGED <<kind, auth, cancelled, serveVars, spoiled>>

\* Mutant: the first answer is the verdict.
VerdictMutant == Final \cup {"processing"}

\* Until then WaitAuthorization goes on asking.
Verdict == Final

WaitAuthorization(g) ==
  /\ pc[g] = "wait"
  /\ \/ /\ Status(g) \in Verdict
        /\ outcome' = [outcome EXCEPT ![g] =
                         IF Status(g) = "valid" THEN "none" ELSE "refused"]
        /\ UNCHANGED faults
     \/ /\ Fault(g)
        /\ outcome' = [outcome EXCEPT ![g] = "fault"]
  /\ goto(g, "cleanup")
  /\ UNCHANGED <<kind, auth, cancelled, acmeVars, serveVars>>

\* Mutant: a refused challenge is tried again.
GiveUpMutant(g) ==
  IF outcome[g] = "refused"
    THEN /\ goto(g, "authorize")
         /\ outcome' = [outcome EXCEPT ![g] = "none"]
         /\ UNCHANGED <<auth, cancelled>>
    ELSE Return(g, outcome[g])

\* fulfillAuthorization returns an error, and so does Issue.
GiveUp(g) == Return(g, outcome[g])

(***************************************************************************)
(* The deferred Cleanup.  A DNSProvider gets the call's context, and what  *)
(* it returns is dropped; the challenge server does not look at it.        *)
(***************************************************************************)
Cleanup(g) ==
  /\ pc[g] = "cleanup"
  /\ \/ /\ responses' = responses \ Cleans(g)
        /\ spoiled' = spoiled \cup {a \in Shared(g) \cap responses :
                                      known[a].status \notin Final}
        /\ UNCHANGED faults
     \/ /\ kind = "dns"
        /\ Fault(g)
        /\ UNCHANGED <<responses, spoiled>>
  /\ IF outcome[g] = "none"
       THEN goto(g, "finalize") /\ UNCHANGED <<auth, outcome, cancelled>>
       ELSE GiveUp(g)
  /\ UNCHANGED <<kind, known, server, listening>>

\* WaitOrder, CreateOrderCert and what is made of the chain.
Finalize(g) ==
  /\ pc[g] = "finalize"
  /\ \/ /\ Status(g) = "valid"
        /\ Return(g, "certificate")
        /\ UNCHANGED faults
     \/ Fault(g) /\ Return(g, "fault")
  /\ UNCHANGED <<kind, acmeVars, serveVars>>

-----------------------------------------------------------------------------
(* Issue of the other issuers. *)

\* cert-vault: one request.  An answer without certificate or key is a
\* failure.
VaultIssue(g) ==
  /\ kind = "vault"
  /\ \/ Return(g, "certificate") /\ UNCHANGED faults
     \/ Fault(g) /\ Return(g, "fault")
  /\ UNCHANGED <<kind, acmeVars, serveVars>>

\* cert-selfsigned: no request at all, and no look at the context.
SelfSign(g) ==
  /\ kind = "selfsigned"
  /\ Return(g, "certificate")
  /\ UNCHANGED <<kind, acmeVars, serveVars, faults>>

-----------------------------------------------------------------------------
(* The surroundings. *)

\* The ACME server looks for the response: handleChallenge, or a DNS query.
Validate(a) ==
  /\ known[a].status = "processing"
  /\ known' = [known EXCEPT ![a].status = IF Served(a) THEN "valid" ELSE "invalid"]
  /\ UNCHANGED <<kind, callVars, serveVars, faults, spoiled>>

\* Leadership is lost, or the process is told to stop.
Cancel(g) ==
  /\ ~cancelled[g]
  /\ pc[g] # "idle"
  /\ faults > 0 /\ faults' = faults - 1
  /\ cancelled' = [cancelled EXCEPT ![g] = TRUE]
  /\ UNCHANGED <<kind, pc, auth, outcome, acmeVars, serveVars>>

\* The process dies, with its tokens and its account key, and starts again.
Crash ==
  /\ faults > 0 /\ faults' = faults - 1
  /\ pc' = [g \in Callers |-> "idle"]
  /\ auth' = [g \in Callers |-> NoAuth]
  /\ outcome' = [g \in Callers |-> "none"]
  /\ cancelled' = [g \in Callers |-> FALSE]
  /\ known' = [a \in Auths |-> [known[a] EXCEPT !.status = "lost"]]
  /\ responses' = IF kind = "http" THEN {} ELSE responses
  /\ server' = FALSE
  /\ listening' = FALSE
  /\ UNCHANGED <<kind, spoiled>>

-----------------------------------------------------------------------------

Init ==
  /\ kind \in Kinds
  /\ pc = [g \in Callers |-> "idle"]
  /\ auth = [g \in Callers |-> NoAuth]
  /\ outcome = [g \in Callers |-> "none"]
  /\ cancelled = [g \in Callers |-> FALSE]
  /\ known = [a \in Auths |-> Unknown]
  /\ responses = {}
  /\ server = FALSE
  /\ listening = FALSE
  /\ faults = MaxFaults
  /\ spoiled = {}

Step(g) ==
  \/ GetAuthorization(g) \/ Present(g) \/ EnsureRunning(g) \/ PresentRecord(g)
  \/ Accept(g) \/ WaitAuthorization(g) \/ Cleanup(g) \/ Finalize(g)

Next ==
  \/ \E g \in Callers :
       \/ Step(g) \/ Cancel(g) \/ VaultIssue(g) \/ SelfSign(g)
       \/ \E h \in Hosts : Order(g, h)
  \/ \E a \in Auths : Validate(a)
  \/ Crash

Spec == Init /\ [][Next]_vars

\* Fairness: callers go on, every request returns, and the ACME server comes
\* to a verdict.
Fairness ==
  /\ \A g \in Callers : WF_vars(Step(g))
  /\ \A a \in Auths : WF_vars(Validate(a))

FairSpec == Spec /\ Fairness

-----------------------------------------------------------------------------
(* Properties. *)

TypeOK ==
  /\ kind \in Kinds
  /\ pc \in [Callers -> {"idle", "authorize", "present", "listen", "accept",
                         "wait", "cleanup", "finalize"}]
  /\ auth \in [Callers -> Auths \cup {NoAuth}]
  /\ \A g \in Callers : pc[g] = "idle" <=> auth[g] = NoAuth
  /\ outcome \in [Callers -> {"none", "certificate", "refused", "fault"}]
  /\ cancelled \in [Callers -> BOOLEAN]
  /\ known \in [Auths -> Authorization]
  /\ responses \subseteq Auths
  /\ server \in BOOLEAN
  /\ listening \in BOOLEAN
  /\ faults \in 0 .. MaxFaults
  /\ spoiled \subseteq Auths

\* solver.go:14-16: Present "must block until the response is ready to be
\* served".  From then on, and until its verdict, the ACME server finds the
\* response of a challenge, unless another call for the same authorization
\* (cert-acme-dns: for the same host) has cleaned up in the meantime, or the
\* first Listen of this process failed, which later calls do not notice.
Reachable ==
  \A g \in Callers :
    pc[g] \in {"accept", "wait"} =>
      \/ Status(g) \in Final
      \/ Served(auth[g])
      \/ auth[g] \in spoiled
      \/ Deaf

\* solver.go:18-20: Cleanup "is always called, even if validation failed".
\* The challenge server has no tokens but those of the challenges at work,
\* whatever failed or was cancelled; except for one, of the call whose Listen
\* failed.
NoLeftovers ==
  kind = "http" =>
    Cardinality(responses \ InUse) <= (IF Deaf THEN 1 ELSE 0)

\* The issuers do their part: the ACME server refuses a challenge only when
\* its response was cleaned up too early, by an overlapping call or by an
\* earlier one that failed while the server was still looking, or when
\* nobody listens.
RefusedForCause ==
  \A g \in Callers :
    outcome[g] = "refused" /\ pc[g] = "cleanup" =>
      auth[g] \in spoiled \/ Deaf

\* Every Issue returns, whatever fails, overlaps or is cancelled: the mutex
\* that the orchestrator holds meanwhile is released.
Returns == \A g \in Callers : pc[g] # "idle" ~> pc[g] = "idle"
=============================================================================
