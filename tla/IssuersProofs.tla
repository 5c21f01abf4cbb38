--------------------------- MODULE IssuersProofs ---------------------------
(***************************************************************************)
(* Proofs about Issuers, for any number of callers, hosts, authorizations  *)
(* and faults.                                                             *)
(*                                                                         *)
(* Whether a response can be found is a matter of the authorization: what  *)
(* is said of a caller in Accept or WaitAuthorization (Reachable) follows  *)
(* every authorization that the ACME server is looking at, past the end of *)
(* the call (Found), and every one that it has refused (Blamed).           *)
(***************************************************************************)
EXTENDS Issuers, FiniteSetTheorems, TLAPS

-----------------------------------------------------------------------------
(* The inductive invariant. *)

\* Nobody is at an authorization of an account whose key is gone.
NotLost == \A g \in Callers : pc[g] # "idle" => Status(g) # "lost"

\* No challenge without a challenge server.
Serving ==
  kind = "http" =>
    /\ \A g \in Callers : pc[g] \in {"accept", "wait", "cleanup"} => server
    /\ \A a \in Auths : known[a].status \in {"processing", "invalid"} => server
    /\ listening => server

\* The others' Issue is one call.
AtOnce == ~ACME => \A g \in Callers : pc[g] = "idle"

\* Between storing the token and ensureRunning.
Stored ==
  \A g \in Callers :
    pc[g] = "listen" =>
      \/ Status(g) \in Final
      \/ auth[g] \in responses
      \/ auth[g] \in spoiled

\* The response of what the ACME server looks at.
Found ==
  \A a \in Auths :
    known[a].status = "processing" => Served(a) \/ a \in spoiled \/ Deaf

Blamed ==
  \A a \in Auths : known[a].status = "invalid" => a \in spoiled \/ Deaf

Refused ==
  \A g \in Callers :
    outcome[g] = "refused" /\ pc[g] = "cleanup" => Status(g) = "invalid"

\* NoLeftovers without numbers.
OneStray ==
  kind = "http" =>
    \E a \in Auths \cup {NoAuth} :
      responses \subseteq InUse \cup (IF Deaf THEN {a} ELSE {})

IInv ==
  /\ NotLost /\ Serving /\ Stored
  /\ Reachable /\ Found /\ Blamed /\ Refused
  /\ OneStray

-----------------------------------------------------------------------------
(* Type correctness: what a call has to itself, and the rest. *)

Inside == {"authorize", "present", "listen", "accept", "wait", "cleanup",
           "finalize"}

CallsTyped ==
  /\ pc \in [Callers -> Inside \cup {"idle"}]
  /\ auth \in [Callers -> Auths \cup {NoAuth}]
  /\ \A g \in Callers : pc[g] = "idle" <=> auth[g] = NoAuth
  /\ outcome \in [Callers -> {"none", "certificate", "refused", "fault"}]
  /\ cancelled \in [Callers -> BOOLEAN]

RestTyped ==
  /\ kind \in Kinds
  /\ known \in [Auths -> Authorization]
  /\ responses \subseteq Auths
  /\ server \in BOOLEAN
  /\ listening \in BOOLEAN
  /\ spoiled \subseteq Auths

LEMMA TypesSplit ==
  TypeOK <=> CallsTyped /\ RestTyped /\ faults \in 0 .. MaxFaults
<1>1. Inside \cup {"idle"} = {"idle", "authorize", "present", "listen",
                              "accept", "wait", "cleanup", "finalize"}
  BY DEF Inside
<1>2. QED
  BY <1>1 DEF TypeOK, CallsTyped, RestTyped

LEMMA TypesJoin ==
  CallsTyped' /\ RestTyped' /\ faults' \in 0 .. MaxFaults => TypeOK'
<1>1. Inside \cup {"idle"} = {"idle", "authorize", "present", "listen",
                              "accept", "wait", "cleanup", "finalize"}
  BY DEF Inside
<1>2. QED
  BY <1>1 DEF TypeOK, CallsTyped, RestTyped

\* A call returns.
LEMMA CallReturns ==
  ASSUME CallsTyped, NEW g \in Callers,
         NEW result \in {"none", "certificate", "refused", "fault"},
         Return(g, result)
  PROVE  CallsTyped'
<1> USE DEF CallsTyped, Return, goto
<1>1. pc' \in [Callers -> Inside \cup {"idle"}]
  OBVIOUS
<1>2. auth' \in [Callers -> Auths \cup {NoAuth}]
  OBVIOUS
<1>3. \A c \in Callers : pc'[c] = "idle" <=> auth'[c] = NoAuth
  OBVIOUS
<1>4. outcome' \in [Callers -> {"none", "certificate", "refused", "fault"}]
  OBVIOUS
<1>5. cancelled' \in [Callers -> BOOLEAN]
  OBVIOUS
<1>6. QED
  BY <1>1, <1>2, <1>3, <1>4, <1>5

\* A call goes on.
LEMMA CallGoesOn ==
  ASSUME CallsTyped, NEW g \in Callers, pc[g] # "idle",
         NEW label \in Inside, goto(g, label),
         UNCHANGED <<auth, cancelled>>,
         NEW result \in {"none", "certificate", "refused", "fault"},
         \/ UNCHANGED outcome
         \/ outcome' = [outcome EXCEPT ![g] = result]
  PROVE  CallsTyped'
<1> USE DEF CallsTyped, goto
<1>1. pc' \in [Callers -> Inside \cup {"idle"}]
  OBVIOUS
<1>2. \A c \in Callers : pc'[c] = "idle" <=> auth'[c] = NoAuth
  BY DEF Inside
<1>3. outcome' \in [Callers -> {"none", "certificate", "refused", "fault"}]
  OBVIOUS
<1>4. QED
  BY <1>1, <1>2, <1>3

LEMMA BudgetTyped ==
  ASSUME faults \in 0 .. MaxFaults,
         NEW g, Fault(g) \/ UNCHANGED faults \/ (faults > 0 /\ faults' = faults - 1)
  PROVE  faults' \in 0 .. MaxFaults
BY IssuersAssumption DEF Fault

\* Order takes the place of an authorization that nobody asks for.
LEMMA ChosenForgotten ==
  ASSUME Forgotten # {}
  PROVE  (CHOOSE b \in Forgotten : TRUE) \in Forgotten
OBVIOUS

LEMMA TypesOrder ==
  ASSUME TypeOK, NEW g \in Callers, NEW h \in Hosts, Order(g, h)
  PROVE  TypeOK'
<1> USE TypesSplit
<1>1. PICK a \in Auths :
        /\ auth' = [auth EXCEPT ![g] = a]
        /\ \/ known' = known /\ spoiled' = spoiled /\ responses' = responses
           \/ /\ known' = [known EXCEPT ![a] = [host |-> h, status |-> "pending"]]
              /\ spoiled' = spoiled \ {a}
              /\ responses' = responses \ {a}
  BY DEF Order, acmeVars
<1>2. CallsTyped'
  <2> USE DEF CallsTyped, Order, goto
  <2>1. pc' \in [Callers -> Inside \cup {"idle"}]
    BY DEF Inside
  <2>2. auth' \in [Callers -> Auths \cup {NoAuth}]
    BY <1>1
  <2>3. \A c \in Callers : pc'[c] = "idle" <=> auth'[c] = NoAuth
    BY <1>1, IssuersAssumption
  <2>4. outcome' \in [Callers -> {"none", "certificate", "refused", "fault"}]
    OBVIOUS
  <2>5. QED
    BY <2>1, <2>2, <2>3, <2>4
<1>3. known' \in [Auths -> Authorization]
  BY <1>1 DEF RestTyped, Authorization
<1>4. RestTyped' /\ faults' \in 0 .. MaxFaults
  BY <1>1, <1>3 DEF RestTyped, Order
<1>5. QED
  BY <1>2, <1>4, TypesJoin

\* What each step of a call does to its own variables.
LEMMA StepTypesCalls ==
  ASSUME CallsTyped, NEW g \in Callers, Step(g)
  PROVE  CallsTyped'
<1>1. CASE GetAuthorization(g)
  BY <1>1, CallReturns, CallGoesOn DEF GetAuthorization, Inside
<1>2. CASE Present(g)
  BY <1>2, CallGoesOn DEF Present, Inside
<1>3. CASE EnsureRunning(g)
  BY <1>3, CallReturns, CallGoesOn DEF EnsureRunning, Inside
<1>4. CASE PresentRecord(g)
  BY <1>4, CallReturns, CallGoesOn DEF PresentRecord, Inside
<1>5. CASE Accept(g)
  BY <1>5, CallGoesOn DEF Accept, Inside
<1>6. CASE WaitAuthorization(g)
  <2>1. PICK result \in {"none", "refused", "fault"} :
          outcome' = [outcome EXCEPT ![g] = result]
    BY <1>6 DEF WaitAuthorization
  <2>2. QED
    BY <1>6, <2>1, CallGoesOn DEF WaitAuthorization, Inside
<1>7. CASE Cleanup(g)
  <2>1. outcome[g] \in {"none", "certificate", "refused", "fault"}
    BY DEF CallsTyped
  <2>2. QED
    BY <1>7, <2>1, CallReturns, CallGoesOn DEF Cleanup, GiveUp, Inside
<1>8. CASE Finalize(g)
  BY <1>8, CallReturns DEF Finalize
<1>9. QED
  BY <1>1, <1>2, <1>3, <1>4, <1>5, <1>6, <1>7, <1>8 DEF Step

\* And to the others.
LEMMA StepTypesRest ==
  ASSUME RestTyped, NEW g \in Callers, auth[g] \in Auths, Step(g)
  PROVE  RestTyped'
<1> USE DEF RestTyped, acmeVars, serveVars
<1>1. CASE GetAuthorization(g)
  BY <1>1 DEF GetAuthorization
<1>2. CASE Present(g)
  BY <1>2 DEF Present, Presented
<1>3. CASE EnsureRunning(g)
  BY <1>3 DEF EnsureRunning
<1>4. CASE PresentRecord(g)
  BY <1>4 DEF PresentRecord, Presented
<1>5. CASE Accept(g)
  <2>1. known' \in {known, Accepted(g)}
    BY <1>5 DEF Accept
  <2>2. Accepted(g) \in [Auths -> Authorization]
    BY DEF Accepted, Authorization
  <2>3. QED
    BY <1>5, <2>1, <2>2 DEF Accept
<1>6. CASE WaitAuthorization(g)
  BY <1>6 DEF WaitAuthorization
<1>7. CASE Cleanup(g)
  <2>1. spoiled' \subseteq Auths
    BY <1>7 DEF Cleanup
  <2>2. QED
    BY <1>7, <2>1 DEF Cleanup
<1>8. CASE Finalize(g)
  BY <1>8 DEF Finalize
<1>9. QED
  BY <1>1, <1>2, <1>3, <1>4, <1>5, <1>6, <1>7, <1>8 DEF Step

LEMMA TypesStep ==
  ASSUME TypeOK, NEW g \in Callers, Step(g)
  PROVE  TypeOK'
<1>1. CallsTyped /\ RestTyped /\ faults \in 0 .. MaxFaults
  BY TypesSplit
<1>2. pc[g] # "idle"
  BY DEF Step, GetAuthorization, Present, EnsureRunning, PresentRecord, Accept,
         WaitAuthorization, Cleanup, Finalize
<1>3. auth[g] \in Auths
  BY <1>1, <1>2 DEF CallsTyped
<1>4. Fault(g) \/ UNCHANGED faults \/ (faults > 0 /\ faults' = faults - 1)
  BY DEF Step, GetAuthorization, Present, EnsureRunning, PresentRecord, Accept,
         WaitAuthorization, Cleanup, Finalize
<1>5. QED
  BY <1>1, <1>3, <1>4, StepTypesCalls, StepTypesRest, BudgetTyped, TypesJoin

\* The issuers without a challenge, and what happens around the calls.
LEMMA TypesAround ==
  ASSUME TypeOK,
         \/ \E g \in Callers : Cancel(g) \/ VaultIssue(g) \/ SelfSign(g)
         \/ \E a \in Auths : Validate(a)
         \/ Crash
  PROVE  TypeOK'
<1>0. CallsTyped /\ RestTyped /\ faults \in 0 .. MaxFaults
  BY TypesSplit
<1> USE DEF callVars, acmeVars, serveVars
<1>1. ASSUME NEW g \in Callers, Cancel(g)
      PROVE  TypeOK'
  <2>1. cancelled' \in [Callers -> BOOLEAN]
    BY <1>0, <1>1 DEF CallsTyped, Cancel
  <2>2. CallsTyped' /\ RestTyped'
    BY <1>0, <1>1, <2>1 DEF CallsTyped, RestTyped, Cancel
  <2>3. faults' \in 0 .. MaxFaults
    BY <1>0, <1>1, BudgetTyped DEF Cancel
  <2>4. QED
    BY <2>2, <2>3, TypesJoin
<1>2. ASSUME NEW g \in Callers, VaultIssue(g) \/ SelfSign(g)
      PROVE  TypeOK'
  <2>1. CallsTyped'
    BY <1>0, <1>2, CallReturns DEF VaultIssue, SelfSign
  <2>2. RestTyped'
    BY <1>0, <1>2 DEF RestTyped, VaultIssue, SelfSign
  <2>3. faults' \in 0 .. MaxFaults
    BY <1>0, <1>2, BudgetTyped DEF VaultIssue, SelfSign
  <2>4. QED
    BY <2>1, <2>2, <2>3, TypesJoin
<1>3. ASSUME NEW a \in Auths, Validate(a)
      PROVE  TypeOK'
  <2>1. known' \in [Auths -> Authorization]
    BY <1>0, <1>3 DEF Validate, RestTyped, Authorization, Final
  <2>2. CallsTyped' /\ RestTyped' /\ faults' = faults
    BY <1>0, <1>3, <2>1 DEF Validate, CallsTyped, RestTyped
  <2>3. QED
    BY <1>0, <2>2, TypesJoin
<1>4. CASE Crash
  <2> USE DEF Crash
  <2>1. known' \in [Auths -> Authorization]
    BY <1>0, <1>4 DEF RestTyped, Authorization, Final
  <2>2. RestTyped'
    BY <1>0, <1>4, <2>1 DEF RestTyped
  <2>3. CallsTyped'
    <3>1. pc' \in [Callers -> Inside \cup {"idle"}]
      BY <1>4
    <3>2. auth' \in [Callers -> Auths \cup {NoAuth}]
      BY <1>4
    <3>3. outcome' \in [Callers -> {"none", "certificate", "refused", "fault"}]
      BY <1>4
    <3>4. cancelled' \in [Callers -> BOOLEAN]
      BY <1>4
    <3>5. QED
      BY <1>4, <3>1, <3>2, <3>3, <3>4 DEF CallsTyped
  <2>4. faults' \in 0 .. MaxFaults
    BY <1>0, <1>4, IssuersAssumption
  <2>5. QED
    BY <2>2, <2>3, <2>4, TypesJoin
<1>5. QED
  BY <1>1, <1>2, <1>3, <1>4

LEMMA TypesInitially == Init => TypeOK
<1> SUFFICES ASSUME Init PROVE TypeOK
  OBVIOUS
<1> USE DEF Init
<1>1. known \in [Auths -> Authorization]
  BY DEF Unknown, Authorization, Final
<1>2. RestTyped
  BY <1>1 DEF RestTyped
<1>3. CallsTyped
  <2>1. pc \in [Callers -> Inside \cup {"idle"}]
    OBVIOUS
  <2>2. auth \in [Callers -> Auths \cup {NoAuth}]
    OBVIOUS
  <2>3. outcome \in [Callers -> {"none", "certificate", "refused", "fault"}]
    OBVIOUS
  <2>4. cancelled \in [Callers -> BOOLEAN]
    OBVIOUS
  <2>5. QED
    BY <2>1, <2>2, <2>3, <2>4 DEF CallsTyped
<1>4. faults \in 0 .. MaxFaults
  BY IssuersAssumption
<1>5. QED
  BY <1>2, <1>3, <1>4, TypesSplit

LEMMA TypesPreserved == TypeOK /\ [Next]_vars => TypeOK'
<1> SUFFICES ASSUME TypeOK, [Next]_vars PROVE TypeOK'
  OBVIOUS
<1>1. CASE UNCHANGED vars
  <2>1. CallsTyped' = CallsTyped /\ RestTyped' = RestTyped /\ faults' = faults
    BY <1>1 DEF CallsTyped, RestTyped, vars, callVars, acmeVars, serveVars
  <2>2. QED
    BY <2>1, TypesSplit, TypesJoin
<1>2. CASE Next
  BY <1>2, TypesOrder, TypesStep, TypesAround DEF Next
<1>3. QED
  BY <1>1, <1>2

\* TypeOK holds in every state: in particular a caller has an authorization
\* exactly while it is in Issue.
THEOREM IssuerTypes == Spec => []TypeOK
BY TypesInitially, TypesPreserved, PTL DEF Spec

-----------------------------------------------------------------------------
(* Reachability. *)

\* Once nobody listens, nobody will.
LEMMA DeafStays ==
  ASSUME NEW g, EnsureRunning(g), Deaf
  PROVE  Deaf'
BY DEF EnsureRunning, Deaf

\* What leaves the responses, the server and the ACME server's books alone,
\* and takes no call past Present.
LEMMA QuietKeeps ==
  ASSUME IInv, UNCHANGED <<kind, known, spoiled, responses, server, listening>>,
         \A c \in Callers :
           \/ pc'[c] = "idle" /\ pc[c] \notin {"listen", "accept", "wait", "cleanup"}
           \/ /\ pc[c] = "authorize" /\ pc'[c] \in {"present", "finalize"}
              /\ auth'[c] = auth[c]
           \/ pc'[c] = pc[c] /\ auth'[c] = auth[c] /\ outcome'[c] = outcome[c]
  PROVE  IInv'
<1> USE DEF IInv
<1>1. Deaf' = Deaf /\ \A a : Served(a)' = Served(a)
  BY DEF Deaf, Served
<1>2. NotLost'
  BY DEF NotLost, Status
<1>3. Serving'
  BY DEF Serving
<1>4. Stored'
  BY DEF Stored, Status
<1>5. Reachable'
  BY <1>1 DEF Reachable, Status
<1>6. Found' /\ Blamed'
  BY <1>1 DEF Found, Blamed
<1>7. Refused'
  BY DEF Refused, Status
<1>8. OneStray'
  <2>1. InUse \subseteq InUse'
    BY DEF InUse
  <2>2. QED
    BY <1>1, <2>1 DEF OneStray
<1>9. QED
  BY <1>2, <1>3, <1>4, <1>5, <1>6, <1>7, <1>8

\* The authorization that Order takes the place of is nobody's.
LEMMA OrderKeeps ==
  ASSUME TypeOK, IInv, NEW g \in Callers, NEW h \in Hosts, Order(g, h)
  PROVE  IInv'
<1> USE DEF IInv
<1>1. PICK a \in Auths :
        /\ auth' = [auth EXCEPT ![g] = a]
        /\ \/ /\ known[a].status \in {"pending", "processing", "valid"}
              /\ known' = known /\ spoiled' = spoiled /\ responses' = responses
           \/ /\ a \in Forgotten
              /\ known' = [known EXCEPT ![a] = [host |-> h, status |-> "pending"]]
              /\ spoiled' = spoiled \ {a}
              /\ responses' = responses \ {a}
  BY ChosenForgotten DEF Order, acmeVars
<1>2. /\ pc[g] = "idle"
      /\ pc' = [pc EXCEPT ![g] = "authorize"]
      /\ outcome' = [outcome EXCEPT ![g] = "none"]
      /\ kind' = kind /\ server' = server /\ listening' = listening
  BY DEF Order, goto
<1>3. \A c \in Callers \ {g} :
        /\ pc'[c] = pc[c] /\ outcome'[c] = outcome[c] /\ auth'[c] = auth[c]
        /\ pc[c] # "idle" =>
             /\ known'[auth[c]] = known[auth[c]]
             /\ auth[c] \in spoiled' <=> auth[c] \in spoiled
             /\ auth[c] \in responses' <=> auth[c] \in responses
  BY <1>1, <1>2 DEF TypeOK, Forgotten
<1>4. /\ pc'[g] = "authorize" /\ auth'[g] = a
      /\ known'[a].status \in {"pending", "processing", "valid"}
  BY <1>1, <1>2 DEF TypeOK
<1>5. \A b \in Auths : known'[b].status \in {"processing", "invalid"} =>
        /\ known'[b] = known[b]
        /\ b \in spoiled' <=> b \in spoiled
        /\ b \in responses' <=> b \in responses
  BY <1>1 DEF TypeOK
<1>6. Deaf' = Deaf
  BY <1>2 DEF Deaf
<1>7. NotLost'
  BY <1>3, <1>4 DEF NotLost, Status
<1>8. Serving'
  BY <1>2, <1>3, <1>4, <1>5 DEF Serving
<1>9. Stored'
  BY <1>3, <1>4 DEF Stored, Status
<1>10. Reachable'
  BY <1>2, <1>3, <1>4, <1>6 DEF Reachable, Served, Status
<1>11. Found' /\ Blamed'
  BY <1>2, <1>5, <1>6 DEF Found, Blamed, Served
<1>12. Refused'
  BY <1>3, <1>4 DEF Refused, Status
<1>13. OneStray'
  <2>1. responses' \subseteq responses
    BY <1>1
  <2>2. InUse \subseteq InUse'
    BY <1>2, <1>3 DEF InUse
  <2>3. QED
    BY <1>2, <1>6, <2>1, <2>2 DEF OneStray
<1>14. QED
  BY <1>7, <1>8, <1>9, <1>10, <1>11, <1>12, <1>13

\* A response more, on a challenge server that runs for whoever needs it.
LEMMA PresentKeeps ==
  ASSUME TypeOK, IInv, NEW g \in Callers, Present(g)
  PROVE  IInv'
<1> USE DEF IInv
<1>1. /\ pc[g] = "present" /\ kind = "http" /\ pc' = [pc EXCEPT ![g] = "listen"]
      /\ UNCHANGED <<kind, auth, outcome, known, server, listening>>
      /\ responses' = responses \cup {auth[g]}
      /\ spoiled' = IF Status(g) \in Final THEN spoiled ELSE spoiled \ {auth[g]}
  BY DEF Present, Presented, goto
<1>2. pc'[g] = "listen" /\ \A c \in Callers \ {g} : pc'[c] = pc[c]
  BY <1>1 DEF TypeOK
<1>3. Deaf' = Deaf
  BY <1>1 DEF Deaf
<1>4. \A a : a \in spoiled => a \in spoiled' \/ a \in responses'
  BY <1>1
<1>5. \A a \in Auths :
        server /\ (Served(a) \/ a \in spoiled \/ Deaf)
          => Served(a)' \/ a \in spoiled' \/ Deaf'
  BY <1>1, <1>3, <1>4 DEF Served, Deaf
<1>6. NotLost'
  BY <1>1, <1>2 DEF NotLost, Status
<1>7. Serving'
  BY <1>1, <1>2 DEF Serving
<1>8. Stored'
  BY <1>1, <1>2, <1>4 DEF Stored, Status
<1>9. Reachable'
  <2>1. ASSUME NEW c \in Callers, pc'[c] \in {"accept", "wait"},
               Status(c)' \notin Final
        PROVE  Served(auth[c])' \/ auth'[c] \in spoiled' \/ Deaf'
    <3>1. pc[c] = pc'[c] /\ auth'[c] = auth[c] /\ Status(c) \notin Final
      BY <1>1, <1>2, <2>1 DEF Status
    <3>2. server /\ auth[c] \in Auths
      BY <1>1, <2>1, <3>1, IssuersAssumption DEF Serving, TypeOK
    <3>3. Served(auth[c]) \/ auth[c] \in spoiled \/ Deaf
      BY <2>1, <3>1 DEF Reachable
    <3>4. QED
      BY <1>1, <1>5, <3>1, <3>2, <3>3 DEF Served
  <2>2. QED
    BY <2>1 DEF Reachable
<1>10. Found'
  BY <1>1, <1>5 DEF Found, Serving
<1>11. Blamed'
  BY <1>1, <1>3 DEF Blamed, Status, Final
<1>12. Refused'
  BY <1>1, <1>2 DEF Refused, Status
<1>13. OneStray'
  <2>1. InUse \cup {auth[g]} \subseteq InUse'
    BY <1>1, <1>2 DEF InUse
  <2>2. QED
    BY <1>1, <1>3, <2>1 DEF OneStray
<1>14. QED
  BY <1>6, <1>7, <1>8, <1>9, <1>10, <1>11, <1>12, <1>13

\* Listen succeeds, has succeeded before, or failed and goes unnoticed; or it
\* fails now, and leaves a server that nobody reaches.
LEMMA EnsureRunningKeeps ==
  ASSUME TypeOK, IInv, NEW g \in Callers, EnsureRunning(g)
  PROVE  IInv'
<1> USE DEF IInv
<1>1. /\ pc[g] = "listen" /\ server' = TRUE
      /\ UNCHANGED <<kind, known, spoiled, responses>>
  BY DEF EnsureRunning, acmeVars
<1>2. \A c \in Callers \ {g} :
        pc'[c] = pc[c] /\ auth'[c] = auth[c] /\ outcome'[c] = outcome[c]
  BY DEF EnsureRunning, Return, goto, TypeOK
<1>3. \/ /\ pc'[g] = "accept" /\ auth' = auth /\ outcome' = outcome
         /\ listening' = (listening \/ ~server)
      \/ /\ pc'[g] = "idle" /\ auth' = [auth EXCEPT ![g] = NoAuth]
         /\ ~server /\ listening' = listening
  BY DEF EnsureRunning, Return, goto, TypeOK
<1>4. listening => listening'
  BY <1>3
<1>5. \A a : Served(a) => Served(a)'
  BY <1>1, <1>4 DEF Served
<1>6. NotLost'
  BY <1>1, <1>2, <1>3 DEF NotLost, Status
<1>7. Serving'
  BY <1>1 DEF Serving
<1>8. Stored'
  BY <1>1, <1>2, <1>3 DEF Stored, Status
<1>9. Reachable'
  <2>1. ASSUME pc'[g] = "accept"
        PROVE  \/ Status(g)' \in Final
               \/ Served(auth[g])'
               \/ auth'[g] \in spoiled'
               \/ Deaf'
    <3>1. Status(g) \in Final \/ auth[g] \in responses \/ auth[g] \in spoiled
      BY <1>1 DEF Stored
    <3>2. listening' \/ Deaf'
      BY <1>1 DEF Deaf
    <3>3. auth' = auth
      BY <1>3, <2>1
    <3>4. QED
      BY <1>1, <3>1, <3>2, <3>3 DEF Served, Status
  <2>2. ASSUME NEW c \in Callers \ {g}, pc'[c] \in {"accept", "wait"}
        PROVE  \/ Status(c)' \in Final
               \/ Served(auth[c])'
               \/ auth'[c] \in spoiled'
               \/ Deaf'
    BY <1>1, <1>2, <1>5, <2>2, DeafStays DEF Reachable, Served, Status
  <2>3. QED
    BY <1>3, <2>1, <2>2 DEF Reachable
<1>10. Found' /\ Blamed'
  BY <1>1, <1>5, DeafStays DEF Found, Blamed
<1>11. Refused'
  BY <1>1, <1>2, <1>3 DEF Refused, Status
<1>12. OneStray'
  <2>1. SUFFICES ASSUME kind = "http" PROVE OneStray'
    BY <1>1 DEF OneStray
  <2>2. CASE pc'[g] = "accept"
    <3>1. InUse \subseteq InUse'
      BY <1>1, <1>2, <1>3, <2>2 DEF InUse
    <3>2. QED
      BY <1>1, <2>1, <3>1, DeafStays DEF OneStray
  <2>3. CASE pc'[g] = "idle"
    <3>1. ~Deaf /\ Deaf'
      BY <1>1, <1>3, <2>1, <2>3 DEF Deaf, Serving
    <3>2. responses \subseteq InUse
      BY <2>1, <3>1 DEF OneStray
    <3>3. InUse \subseteq InUse' \cup {auth[g]}
      BY <1>2 DEF InUse
    <3>4. auth[g] \in Auths
      BY <1>1 DEF TypeOK
    <3>5. responses' \subseteq InUse' \cup (IF Deaf' THEN {auth[g]} ELSE {})
      BY <1>1, <3>1, <3>2, <3>3
    <3>6. QED
      BY <3>4, <3>5 DEF OneStray
  <2>4. QED
    BY <1>3, <2>2, <2>3
<1>13. QED
  BY <1>6, <1>7, <1>8, <1>9, <1>10, <1>11, <1>12

\* The record is there, or Present has failed.
LEMMA PresentRecordKeeps ==
  ASSUME TypeOK, IInv, NEW g \in Callers, PresentRecord(g)
  PROVE  IInv'
<1> USE DEF IInv
<1>1. /\ pc[g] = "present" /\ kind = "dns"
      /\ UNCHANGED <<kind, known, server, listening>>
      /\ \/ /\ responses' = responses \cup {auth[g]}
            /\ spoiled' = IF Status(g) \in Final THEN spoiled
                                                 ELSE spoiled \ {auth[g]}
            /\ pc'[g] = "accept" /\ auth' = auth
         \/ /\ responses' = responses \cup {auth[g]}
            /\ spoiled' = IF Status(g) \in Final THEN spoiled
                                                 ELSE spoiled \ {auth[g]}
            /\ pc'[g] = "idle"
         \/ responses' = responses /\ spoiled' = spoiled /\ pc'[g] = "idle"
  BY DEF PresentRecord, Presented, Return, goto, TypeOK
<1>2. \A c \in Callers \ {g} :
        pc'[c] = pc[c] /\ auth'[c] = auth[c] /\ outcome'[c] = outcome[c]
  BY DEF PresentRecord, Return, goto, TypeOK
<1>3. \A a : a \in responses \cup spoiled => a \in responses' \cup spoiled'
  BY <1>1
<1>4. \A a : /\ Served(a) <=> a \in responses
             /\ Served(a)' <=> a \in responses'
  BY <1>1 DEF Served
<1>5. Deaf' = Deaf
  BY <1>1 DEF Deaf
<1>6. NotLost'
  BY <1>1, <1>2 DEF NotLost, Status
<1>7. Serving' /\ OneStray'
  BY <1>1 DEF Serving, OneStray
<1>8. Stored'
  BY <1>1, <1>2, <1>3 DEF Stored, Status
<1>9. Reachable'
  <2>1. ASSUME NEW c \in Callers, pc'[c] \in {"accept", "wait"},
               Status(c)' \notin Final
        PROVE  auth'[c] \in responses' \cup spoiled' \/ Deaf'
    <3>1. CASE c = g
      BY <1>1, <2>1, <3>1
    <3>2. CASE c # g
      BY <1>1, <1>2, <1>3, <1>4, <1>5, <2>1, <3>2 DEF Reachable, Status
    <3>3. QED
      BY <3>1, <3>2
  <2>2. \A c \in Callers : Served(auth[c])' <=> auth'[c] \in responses'
    BY <1>1 DEF Served
  <2>3. QED
    BY <2>1, <2>2 DEF Reachable
<1>10. Found'
  BY <1>1, <1>3, <1>4, <1>5 DEF Found
<1>11. Blamed'
  BY <1>1, <1>5 DEF Blamed, Status, Final
<1>12. Refused'
  BY <1>1, <1>2 DEF Refused, Status
<1>13. QED
  BY <1>6, <1>7, <1>8, <1>9, <1>10, <1>11, <1>12

\* What the ACME server is told to look for is there.
LEMMA AcceptKeeps ==
  ASSUME TypeOK, IInv, NEW g \in Callers, Accept(g)
  PROVE  IInv'
<1> USE DEF IInv
<1>1. /\ pc[g] = "accept" /\ auth[g] \in Auths
      /\ UNCHANGED <<kind, auth, spoiled, responses, server, listening>>
      /\ \/ pc'[g] = "wait" /\ outcome' = outcome
         \/ pc'[g] = "cleanup" /\ outcome'[g] = "refused" /\ Status(g) = "invalid"
                               /\ known' = known
         \/ pc'[g] = "cleanup" /\ outcome'[g] = "fault"
      /\ \A c \in Callers \ {g} : pc'[c] = pc[c] /\ outcome'[c] = outcome[c]
  BY IssuersAssumption DEF Accept, goto, TypeOK, serveVars
<1>2. \/ known' = known
      \/ /\ Status(g) = "pending"
         /\ known' = [known EXCEPT ![auth[g]].status = "processing"]
  BY DEF Accept, Accepted
<1>3. \A a \in Auths :
        \/ known'[a].status = known[a].status
        \/ /\ a = auth[g] /\ known[a].status = "pending"
           /\ known'[a].status = "processing"
  BY <1>1, <1>2 DEF TypeOK, Authorization, Status
<1>4. \A c \in Callers : pc[c] # "idle" => auth[c] \in Auths
  BY DEF TypeOK
<1>5. Deaf' = Deaf /\ \A a : Served(a)' = Served(a)
  BY <1>1 DEF Deaf, Served
<1>6. \A c \in Callers : Status(c)' = known'[auth[c]].status
  BY <1>1 DEF Status
<1>7. \A c \in Callers : pc'[c] # "idle" =>
        /\ pc[c] # "idle"
        /\ Status(c) \in Final => Status(c)' = Status(c)
        /\ Status(c) \notin Final => Status(c)' \notin Final
  BY <1>1, <1>3, <1>4, <1>6 DEF Status, Final
<1>8. NotLost'
  BY <1>7 DEF NotLost, Final
<1>9. Serving'
  BY <1>1, <1>3 DEF Serving
<1>10. Stored'
  BY <1>1, <1>7 DEF Stored
<1>11. Reachable'
  BY <1>1, <1>5, <1>7 DEF Reachable
<1>12. Found' /\ Blamed'
  <2>1. \/ Status(g) \in Final
        \/ Served(auth[g]) \/ auth[g] \in spoiled \/ Deaf
    BY <1>1 DEF Reachable
  <2>2. QED
    BY <1>1, <1>3, <1>5, <2>1 DEF Found, Blamed, Status, Final
<1>13. Refused'
  BY <1>1, <1>7 DEF Refused, Final
<1>14. OneStray'
  <2>1. InUse' = InUse
    BY <1>1 DEF InUse
  <2>2. QED
    BY <1>1, <1>5, <2>1 DEF OneStray
<1>15. QED
  BY <1>8, <1>9, <1>10, <1>11, <1>12, <1>13, <1>14

\* The verdict becomes the outcome.
LEMMA WaitAuthorizationKeeps ==
  ASSUME TypeOK, IInv, NEW g \in Callers, WaitAuthorization(g)
  PROVE  IInv'
<1> USE DEF IInv
<1>1. /\ pc[g] = "wait" /\ pc'[g] = "cleanup"
      /\ UNCHANGED <<kind, auth, known, spoiled, responses, server, listening>>
      /\ outcome'[g] = "refused" => Status(g) \in Final \ {"valid"}
      /\ \A c \in Callers \ {g} : pc'[c] = pc[c] /\ outcome'[c] = outcome[c]
  BY DEF WaitAuthorization, Verdict, goto, TypeOK, acmeVars, serveVars
<1>2. Deaf' = Deaf /\ \A a : Served(a)' = Served(a)
  BY <1>1 DEF Deaf, Served
<1>3. NotLost' /\ Stored'
  BY <1>1 DEF NotLost, Stored, Status
<1>4. Serving'
  BY <1>1 DEF Serving
<1>5. Reachable'
  BY <1>1, <1>2 DEF Reachable, Status
<1>6. Found' /\ Blamed'
  BY <1>1, <1>2 DEF Found, Blamed
<1>7. Refused'
  <2>1. Status(g) # "lost"
    BY <1>1 DEF NotLost
  <2>2. QED
    BY <1>1, <2>1 DEF Refused, Status, Final
<1>8. OneStray'
  <2>1. InUse' = InUse
    BY <1>1 DEF InUse
  <2>2. QED
    BY <1>1, <1>2, <2>1 DEF OneStray
<1>9. QED
  BY <1>3, <1>4, <1>5, <1>6, <1>7, <1>8

\* What goes away under the eyes of the ACME server is spoiled.
LEMMA CleanupKeeps ==
  ASSUME TypeOK, IInv, NEW g \in Callers, Cleanup(g)
  PROVE  IInv'
<1> USE DEF IInv
<1>1. /\ pc[g] = "cleanup" /\ auth[g] \in Auths
      /\ UNCHANGED <<kind, known, server, listening>>
      /\ \/ pc'[g] = "finalize" /\ auth'[g] = auth[g]
         \/ pc'[g] = "idle"
      /\ \A c \in Callers \ {g} :
           pc'[c] = pc[c] /\ auth'[c] = auth[c] /\ outcome'[c] = outcome[c]
  BY IssuersAssumption DEF Cleanup, GiveUp, Return, goto, TypeOK
<1>2. \/ /\ responses' = responses \ Shared(g)
         /\ spoiled' = spoiled \cup {a \in Shared(g) \cap responses :
                                       known[a].status \notin Final}
      \/ kind = "dns" /\ responses' = responses /\ spoiled' = spoiled
  BY DEF Cleanup, Cleans
<1>3. /\ spoiled \subseteq spoiled'
      /\ \A a : a \in responses =>
           a \in responses' \/ a \in spoiled' \/ known[a].status \in Final
  BY <1>2
<1>4. Deaf' = Deaf
  BY <1>1 DEF Deaf
<1>5. \A a : Served(a) =>
        Served(a)' \/ a \in spoiled' \/ known[a].status \in Final
  BY <1>1, <1>3 DEF Served
<1>6. NotLost'
  BY <1>1 DEF NotLost, Status
<1>7. Serving'
  BY <1>1 DEF Serving
<1>8. Stored'
  BY <1>1, <1>3 DEF Stored, Status
<1>9. Reachable'
  <2>1. ASSUME NEW c \in Callers, pc'[c] \in {"accept", "wait"}
        PROVE  \/ Status(c)' \in Final
               \/ Served(auth[c])'
               \/ auth'[c] \in spoiled'
               \/ Deaf'
    <3>1. /\ c # g /\ pc[c] = pc'[c] /\ auth'[c] = auth[c]
          /\ Status(c)' = Status(c)
      BY <1>1, <2>1 DEF Status
    <3>2. Status(c) \in Final \/ Served(auth[c]) \/ auth[c] \in spoiled \/ Deaf
      BY <2>1, <3>1 DEF Reachable
    <3>3. Served(auth[c])' \/ auth[c] \in spoiled' \/ Deaf' \/ Status(c) \in Final
      BY <1>1, <1>3, <1>4, <3>1, <3>2 DEF Served, Status
    <3>4. QED
      BY <3>1, <3>3
  <2>2. QED
    BY <2>1 DEF Reachable
<1>10. Found' /\ Blamed'
  BY <1>1, <1>3, <1>4, <1>5 DEF Found, Blamed, Final
<1>11. Refused'
  BY <1>1 DEF Refused, Status
<1>12. OneStray'
  <2>1. InUse \subseteq InUse' \cup {auth[g]}
    BY <1>1 DEF InUse
  <2>2. kind = "http" => responses' = responses \ {auth[g]}
    BY <1>2 DEF Shared
  <2>3. QED
    BY <1>1, <1>4, <2>1, <2>2 DEF OneStray
<1>13. QED
  BY <1>6, <1>7, <1>8, <1>9, <1>10, <1>11, <1>12

\* Neither what the ACME server refuses nor a crash puts the blame on a call.
LEMMA ValidateKeeps ==
  ASSUME TypeOK, IInv, NEW a \in Auths, Validate(a)
  PROVE  IInv'
<1> USE DEF IInv
<1>1. /\ known[a].status = "processing"
      /\ known' = [known EXCEPT ![a].status =
                     IF Served(a) THEN "valid" ELSE "invalid"]
      /\ UNCHANGED <<kind, pc, auth, outcome, responses, server, listening,
                     spoiled>>
  BY DEF Validate, callVars, serveVars
<1>2. /\ known'[a].status = IF Served(a) THEN "valid" ELSE "invalid"
      /\ \A b \in Auths \ {a} : known'[b].status = known[b].status
  BY <1>1 DEF TypeOK, Authorization
<1>3. Deaf' = Deaf /\ \A b : Served(b)' = Served(b)
  BY <1>1 DEF Deaf, Served
<1>4. \A c \in Callers : pc[c] # "idle" => auth[c] \in Auths
  BY DEF TypeOK
<1>5. \A c \in Callers : pc[c] # "idle" =>
        \/ Status(c)' \in {"valid", "invalid"} /\ Status(c) \notin Final
        \/ Status(c)' = Status(c)
  BY <1>1, <1>2, <1>4 DEF Status, Final
<1>6. NotLost'
  BY <1>1, <1>5 DEF NotLost
<1>7. Serving'
  BY <1>1, <1>2 DEF Serving
<1>8. Stored'
  BY <1>1, <1>5 DEF Stored, Final
<1>9. Reachable'
  BY <1>1, <1>3, <1>5 DEF Reachable, Final
<1>10. Found' /\ Blamed'
  <2>1. Served(a) \/ a \in spoiled \/ Deaf
    BY <1>1 DEF Found
  <2>2. QED
    BY <1>1, <1>2, <1>3, <2>1 DEF Found, Blamed
<1>11. Refused'
  BY <1>1, <1>5 DEF Refused, Final
<1>12. OneStray'
  <2>1. InUse' = InUse
    BY <1>1 DEF InUse
  <2>2. QED
    BY <1>1, <1>3, <2>1 DEF OneStray
<1>13. QED
  BY <1>6, <1>7, <1>8, <1>9, <1>10, <1>11, <1>12

LEMMA CrashKeeps ==
  ASSUME TypeOK, Crash
  PROVE  IInv'
<1>1. /\ \A g \in Callers : pc'[g] = "idle"
      /\ \A a \in Auths : known'[a].status = "lost"
      /\ listening' = FALSE
      /\ kind' = kind
      /\ kind = "http" => responses' = {}
  BY DEF Crash, TypeOK, Authorization
<1>2. NotLost' /\ Stored' /\ Reachable' /\ Refused'
  BY <1>1 DEF NotLost, Stored, Reachable, Refused
<1>3. Serving' /\ Found' /\ Blamed' /\ OneStray'
  BY <1>1 DEF Serving, Found, Blamed, OneStray
<1>4. QED
  BY <1>2, <1>3 DEF IInv

LEMMA IInvInitially == Init => IInv
<1> SUFFICES ASSUME Init PROVE IInv
  OBVIOUS
<1>1. /\ \A g \in Callers : pc[g] = "idle"
      /\ \A a \in Auths : known[a].status = "lost"
      /\ listening = FALSE /\ responses = {}
  BY DEF Init, Unknown
<1>2. NotLost /\ Stored /\ Reachable /\ Refused
  BY <1>1 DEF NotLost, Stored, Reachable, Refused
<1>3. Serving /\ Found /\ Blamed /\ OneStray
  BY <1>1 DEF Serving, Found, Blamed, OneStray
<1>4. QED
  BY <1>2, <1>3 DEF IInv

LEMMA AtOncePreserved == TypeOK /\ AtOnce /\ [Next]_vars => AtOnce'
<1> SUFFICES ASSUME TypeOK, AtOnce, [Next]_vars PROVE AtOnce'
  OBVIOUS
<1>0. kind' = kind
  BY DEF Next, Step, GetAuthorization, Present, EnsureRunning, PresentRecord,
         Accept, WaitAuthorization, Cleanup, Finalize, Cancel, Order,
         VaultIssue, SelfSign, Validate, Crash, vars
<1> SUFFICES ASSUME ~ACME
             PROVE  kind' = kind /\ \A c \in Callers : pc'[c] = "idle"
  BY <1>0 DEF AtOnce, ACME
<1> USE DEF vars, callVars, acmeVars, serveVars
<1>1. \A c \in Callers : pc[c] = "idle"
  BY DEF AtOnce
<1>2. \A g \in Callers : ~Step(g) /\ ~Cancel(g) /\ \A h \in Hosts : ~Order(g, h)
  BY <1>1 DEF Step, GetAuthorization, Present, EnsureRunning, PresentRecord,
              Accept, WaitAuthorization, Cleanup, Finalize, Cancel, Order
<1>3. ASSUME NEW g \in Callers, VaultIssue(g) \/ SelfSign(g)
      PROVE  kind' = kind /\ \A c \in Callers : pc'[c] = "idle"
  BY <1>1, <1>3 DEF VaultIssue, SelfSign, Return, goto, TypeOK
<1>4. ASSUME NEW a \in Auths, Validate(a)
      PROVE  kind' = kind /\ \A c \in Callers : pc'[c] = "idle"
  BY <1>1, <1>4 DEF Validate
<1>5. CASE Crash
  BY <1>5 DEF Crash
<1>6. CASE UNCHANGED vars
  BY <1>1, <1>6
<1>7. QED
  BY <1>2, <1>3, <1>4, <1>5, <1>6 DEF Next

LEMMA IInvPreserved == TypeOK /\ AtOnce /\ IInv /\ [Next]_vars => IInv'
<1> SUFFICES ASSUME TypeOK, AtOnce, IInv, [Next]_vars PROVE IInv'
  OBVIOUS
<1> USE DEF callVars, acmeVars, serveVars
<1>1. CASE UNCHANGED vars
  BY <1>1, QuietKeeps DEF vars
<1>2. ASSUME NEW g \in Callers, Step(g)
      PROVE  IInv'
  <2>1. CASE GetAuthorization(g)
    BY <2>1, QuietKeeps DEF GetAuthorization, Return, goto, TypeOK
  <2>2. CASE Finalize(g)
    BY <2>2, QuietKeeps DEF Finalize, Return, goto, TypeOK
  <2>3. QED
    BY <1>2, <2>1, <2>2, PresentKeeps, EnsureRunningKeeps, PresentRecordKeeps,
       AcceptKeeps, WaitAuthorizationKeeps, CleanupKeeps DEF Step
<1>3. ASSUME NEW g \in Callers, Cancel(g)
      PROVE  IInv'
  BY <1>3, QuietKeeps DEF Cancel
<1>4. ASSUME NEW g \in Callers, VaultIssue(g) \/ SelfSign(g)
      PROVE  IInv'
  <2>1. \A c \in Callers : pc[c] = "idle" /\ pc'[c] = "idle"
    BY <1>4 DEF AtOnce, ACME, VaultIssue, SelfSign, Return, goto, TypeOK
  <2>2. QED
    BY <1>4, <2>1, QuietKeeps DEF VaultIssue, SelfSign
<1>5. QED
  BY <1>1, <1>2, <1>3, <1>4, OrderKeeps, ValidateKeeps, CrashKeeps DEF Next

LEMMA Invariants == Spec => [](IInv /\ AtOnce)
<1>1. Init => IInv /\ AtOnce
  BY IInvInitially DEF Init, AtOnce
<1>2. TypeOK /\ (IInv /\ AtOnce) /\ [Next]_vars => (IInv /\ AtOnce)'
  BY IInvPreserved, AtOncePreserved
<1>3. QED
  BY <1>1, <1>2, IssuerTypes, PTL DEF Spec

\* Reachable holds in every state: from Present to the verdict the response
\* to a challenge can be found, up to the exceptions it names.
THEOREM ResponsesReachable == Spec => []Reachable
BY Invariants, PTL DEF IInv

\* RefusedForCause holds in every state: it follows from what the ACME server
\* has refused so far (Blamed) that no caller is refused without one of the
\* exceptions.
THEOREM RefusalsHaveCause == Spec => []RefusedForCause
<1>1. TypeOK /\ IInv => RefusedForCause
  <2> SUFFICES ASSUME TypeOK, IInv, NEW g \in Callers,
                      outcome[g] = "refused", pc[g] = "cleanup"
               PROVE  auth[g] \in spoiled \/ Deaf
    BY DEF RefusedForCause
  <2>1. auth[g] \in Auths
    BY DEF TypeOK
  <2>2. known[auth[g]].status = "invalid"
    BY DEF IInv, Refused, Status
  <2>3. QED
    BY <2>1, <2>2 DEF IInv, Blamed
<1>2. QED
  BY <1>1, Invariants, IssuerTypes, PTL

\* NoLeftovers holds in every state: the challenge server keeps no token past
\* its challenge, but the one of the call whose Listen failed.
THEOREM TokensCleaned == Spec => []NoLeftovers
<1>1. IInv => NoLeftovers
  <2> SUFFICES ASSUME IInv, kind = "http"
               PROVE  Cardinality(responses \ InUse) <= (IF Deaf THEN 1 ELSE 0)
    BY DEF NoLeftovers
  <2>1. PICK a : responses \subseteq InUse \cup (IF Deaf THEN {a} ELSE {})
    BY DEF IInv, OneStray
  <2>2. \/ responses \ InUse = {}
        \/ Deaf /\ responses \ InUse = {a}
    BY <2>1
  <2>3. Cardinality({}) = 0 /\ Cardinality({a}) = 1
    BY FS_EmptySet, FS_Singleton
  <2>4. CASE responses \ InUse = {}
    BY <2>3, <2>4
  <2>5. CASE Deaf /\ responses \ InUse = {a}
    BY <2>3, <2>5
  <2>6. QED
    BY <2>2, <2>4, <2>5
<1>2. QED
  BY <1>1, Invariants, PTL
=============================================================================
