----------------------------- MODULE MongoLease -----------------------------
(***************************************************************************)
(* impl/lease-mongo: instances of the program that elect a leader through  *)
(* one document of a MongoDB collection.                                   *)
(*                                                                         *)
(* Time is discrete and kept as what is left of every timer, so that       *)
(* nothing grows.  The document's expiresAt is kept as ttl, its distance   *)
(* from the true time.  An instance reads its own clock, which is ahead of *)
(* the true time by its skew, before it sends a request; by the time the   *)
(* server looks at the request the reading is age ticks old.               *)
(*                                                                         *)
(* The code sets no timeout on a call and none on the callback's return,   *)
(* so MaxCall and MaxDrain describe the environment, as MaxSkew does.  A   *)
(* goroutine that waits for the processor counts as part of a slow call.   *)
(***************************************************************************)
EXTENDS Integers

CONSTANTS
  Instances,
  LeaseDuration, RenewInterval, RetryInterval,
  MaxCall,    \* bound: ticks from reading the clock to acting on the answer
  MaxDrain,   \* bound: ticks from cancelLeader to the callback's return
  MaxSkew,    \* bound: how far two clocks are apart
  MaxFaults,  \* bound: failed calls, crashes and shutdowns
  NoLease     \* "the lease document does not exist"

ASSUME MongoLeaseAssumption ==
  /\ LeaseDuration \in Nat \ {0}
  /\ RenewInterval \in Nat \ {0}
  /\ RetryInterval \in Nat \ {0}
  /\ MaxCall \in Nat
  /\ MaxDrain \in Nat
  /\ MaxSkew \in Nat
  /\ MaxFaults \in Nat
  /\ NoLease \notin [holder : Instances, ttl : Int]

VARIABLES
  lease,     \* the lease document
  pc,        \* pc[i]: where Run of instance i is
  age,       \* age[i]: ticks since i read its clock, or since cancelLeader
  due,       \* due[i]: ticks until the renew ticker or the retry timer fires
  stopping,  \* stopping[i]: the context of Run is cancelled
  skew,      \* skew[i]: how far the clock of i is ahead
  faults     \* faults still to come

vars == <<lease, pc, age, due, stopping, skew, faults>>

Acquiring == {"acquiring", "acquired", "refused", "failed"}
Renewing  == {"renewing", "renewed", "unrenewed"}
PCs == {"retry", "leading", "draining", "releasing", "down"}
         \cup Acquiring \cup Renewing

\* The callback OnStartedLeading of i has not returned.  (A reconcileLoop that
\* it leaves behind in a cycle is not part of it.)
Running(i) == pc[i] \in {"leading", "draining"} \cup Renewing

\* Below this a ttl is past for every reading of every clock.
Expired == -(MaxCall + 1)

Held(i) == lease # NoLease /\ lease.holder = i

\* Mutant: $gt for $lt in the filter.
FreeMutant(i) ==
  lease # NoLease => lease.ttl > skew[i] - age[i] \/ lease.holder = i

\* The filter of tryAcquire matches, or there is no document and the upsert
\* inserts one; otherwise the upsert runs into a duplicate key.
Free(i) ==
  lease # NoLease => lease.ttl < skew[i] - age[i] \/ lease.holder = i

\* Mutant: the update does not set the holder.
ExtendedMutant(i) ==
  [holder |-> NoLease, ttl |-> LeaseDuration + skew[i] - age[i]]

\* expiresAt := the clock as i read it + leaseDuration.
Extended(i) == [holder |-> i, ttl |-> LeaseDuration + skew[i] - age[i]]

\* A call may fail at any time, and does not count once Run is cancelled.
Fault(i) == IF stopping[i] THEN UNCHANGED faults
                           ELSE faults > 0 /\ faults' = faults - 1

goto(i, label) == pc' = [pc EXCEPT ![i] = label]

-----------------------------------------------------------------------------
(* tryAcquire. *)

Acquire(i) ==
  /\ pc[i] = "retry"
  /\ due[i] = 0 /\ ~stopping[i]
  /\ goto(i, "acquiring")
  /\ UNCHANGED <<lease, age, due, stopping, skew, faults>>

\* Mutant: a duplicate key counts as acquired.
ServeAcquireMutant(i) ==
  /\ pc[i] = "acquiring"
  /\ goto(i, "acquired")
  /\ lease' = IF Free(i) THEN Extended(i) ELSE lease
  /\ UNCHANGED <<age, due, stopping, skew, faults>>

ServeAcquire(i) ==
  /\ pc[i] = "acquiring"
  /\ \/ /\ Free(i)
        /\ lease' = Extended(i)
        /\ goto(i, "acquired")
        /\ UNCHANGED faults
     \/ /\ ~Free(i)
        /\ goto(i, "refused")
        /\ UNCHANGED <<lease, faults>>
     \/ /\ Fault(i)
        /\ lease' \in {lease} \cup {l \in {Extended(i)} : Free(i)}
        /\ goto(i, "failed")
  /\ UNCHANGED <<age, due, stopping, skew>>

StartLeading(i) ==
  /\ pc[i] = "acquired"
  /\ goto(i, "leading")
  /\ age' = [age EXCEPT ![i] = 0]
  /\ due' = [due EXCEPT ![i] = RenewInterval]
  /\ UNCHANGED <<lease, stopping, skew, faults>>

Refused(i) ==
  /\ pc[i] = "refused"
  /\ goto(i, "retry")
  /\ age' = [age EXCEPT ![i] = 0]
  /\ due' = [due EXCEPT ![i] = RetryInterval]
  /\ UNCHANGED <<lease, stopping, skew, faults>>

\* Run returns the error, and main exits.
AcquireFailed(i) ==
  /\ pc[i] = "failed"
  /\ goto(i, "down")
  /\ age' = [age EXCEPT ![i] = 0]
  /\ stopping' = [stopping EXCEPT ![i] = FALSE]
  /\ UNCHANGED <<lease, due, skew, faults>>

-----------------------------------------------------------------------------
(* renewLoop. *)

\* A tick that fired during a call is kept, those after it are dropped, and
\* the ticker stays on its multiples of renewInterval.
StartRenew(i) ==
  /\ pc[i] = "leading"
  /\ due[i] <= 0
  /\ goto(i, "renewing")
  /\ due' = [due EXCEPT ![i] = ((due[i] - 1) % RenewInterval) + 1]
  /\ UNCHANGED <<lease, age, stopping, skew, faults>>

ServeRenew(i) ==
  /\ pc[i] = "renewing"
  /\ \/ /\ Held(i)
        /\ lease' = Extended(i)
        /\ goto(i, "renewed")
        /\ UNCHANGED faults
     \/ /\ ~Held(i)
        /\ goto(i, "unrenewed")
        /\ UNCHANGED <<lease, faults>>
     \/ /\ Fault(i)
        /\ lease' \in {lease} \cup {l \in {Extended(i)} : Held(i)}
        /\ goto(i, "unrenewed")
  /\ UNCHANGED <<age, due, stopping, skew>>

\* Mutant: renewLoop returns after one renewal.
RenewedMutant(i) ==
  /\ pc[i] = "renewed"
  /\ goto(i, "draining")
  /\ age' = [age EXCEPT ![i] = 0]
  /\ due' = [due EXCEPT ![i] = 0]
  /\ UNCHANGED <<lease, stopping, skew, faults>>

Renewed(i) ==
  /\ pc[i] = "renewed"
  /\ goto(i, "leading")
  /\ age' = [age EXCEPT ![i] = 0]
  /\ UNCHANGED <<lease, due, stopping, skew, faults>>

\* cancelLeader, because the lease is lost or Run is cancelled.
CancelLeader(i) ==
  /\ \/ pc[i] = "unrenewed"
     \/ pc[i] = "leading" /\ stopping[i]
  /\ goto(i, "draining")
  /\ age' = [age EXCEPT ![i] = 0]
  /\ due' = [due EXCEPT ![i] = 0]
  /\ UNCHANGED <<lease, stopping, skew, faults>>

\* The callback has returned.
Drained(i) ==
  /\ pc[i] = "draining"
  /\ goto(i, "releasing")
  /\ age' = [age EXCEPT ![i] = 0]
  /\ UNCHANGED <<lease, due, stopping, skew, faults>>

\* Mutant: the filter of release names no holder.
ReleaseMutant(i) ==
  /\ pc[i] = "releasing"
  /\ lease' = NoLease
  /\ goto(i, "retry")
  /\ due' = [due EXCEPT ![i] = IF stopping[i] THEN 0 ELSE RetryInterval]
  /\ UNCHANGED <<age, stopping, skew, faults>>

\* Best effort, on a context that is not cancelled; then Run waits or returns.
Release(i) ==
  /\ pc[i] = "releasing"
  /\ \/ lease' = (IF Held(i) THEN NoLease ELSE lease) /\ UNCHANGED faults
     \/ faults > 0 /\ faults' = faults - 1 /\ UNCHANGED lease
  /\ goto(i, "retry")
  /\ due' = [due EXCEPT ![i] = IF stopping[i] THEN 0 ELSE RetryInterval]
  /\ UNCHANGED <<age, stopping, skew>>

-----------------------------------------------------------------------------
(* The process. *)

\* main's context is cancelled by a signal.
Shutdown(i) ==
  /\ pc[i] # "down" /\ ~stopping[i]
  /\ faults > 0 /\ faults' = faults - 1
  /\ stopping' = [stopping EXCEPT ![i] = TRUE]
  /\ UNCHANGED <<lease, pc, age, due, skew>>

\* Run sees the cancelled context while it does not lead.
Return(i) ==
  /\ pc[i] = "retry" /\ stopping[i]
  /\ goto(i, "down")
  /\ due' = [due EXCEPT ![i] = 0]
  /\ stopping' = [stopping EXCEPT ![i] = FALSE]
  /\ UNCHANGED <<lease, age, skew, faults>>

Crash(i) ==
  /\ pc[i] # "down"
  /\ faults > 0 /\ faults' = faults - 1
  /\ goto(i, "down")
  /\ age' = [age EXCEPT ![i] = 0]
  /\ due' = [due EXCEPT ![i] = 0]
  /\ stopping' = [stopping EXCEPT ![i] = FALSE]
  /\ UNCHANGED <<lease, skew>>

Restart(i) ==
  /\ pc[i] = "down"
  /\ goto(i, "retry")
  /\ UNCHANGED <<lease, age, due, stopping, skew, faults>>

-----------------------------------------------------------------------------
(* Time passes, unless a call, a callback or a ticker is at its bound. *)

Tick ==
  /\ \A i \in Instances :
       /\ pc[i] \in Acquiring \cup Renewing => age[i] < MaxCall
       /\ pc[i] = "draining" => age[i] < MaxDrain
       /\ pc[i] = "leading" => due[i] > 0
  /\ lease' = IF lease # NoLease /\ lease.ttl > Expired
              THEN [lease EXCEPT !.ttl = @ - 1] ELSE lease
  /\ age' = [i \in Instances |->
               IF pc[i] \in Acquiring \cup Renewing \cup {"draining"}
                 THEN age[i] + 1 ELSE age[i]]
  /\ due' = [i \in Instances |->
               IF pc[i] \in Renewing \cup {"leading"} THEN due[i] - 1
               ELSE IF due[i] > 0 THEN due[i] - 1 ELSE due[i]]
  /\ UNCHANGED <<pc, stopping, skew, faults>>

-----------------------------------------------------------------------------

Init ==
  /\ lease = NoLease
  /\ pc = [i \in Instances |-> "retry"]
  /\ age = [i \in Instances |-> 0]
  /\ due = [i \in Instances |-> 0]
  /\ stopping = [i \in Instances |-> FALSE]
  /\ skew \in [Instances -> 0..MaxSkew]
  /\ faults = MaxFaults

RunStep(i) ==
  \/ Acquire(i) \/ ServeAcquire(i) \/ StartLeading(i) \/ Refused(i)
  \/ AcquireFailed(i) \/ StartRenew(i) \/ ServeRenew(i) \/ Renewed(i)
  \/ CancelLeader(i) \/ Drained(i) \/ Release(i) \/ Return(i) \/ Restart(i)

Next ==
  \/ \E i \in Instances : RunStep(i) \/ Shutdown(i) \/ Crash(i)
  \/ Tick

Spec == Init /\ [][Next]_vars

\* Run goes on as long as it has something to do, a process that exited is
\* started again, and the clock does not stop.
FairSpec == Spec /\ WF_vars(Tick) /\ \A i \in Instances : WF_vars(RunStep(i))

-----------------------------------------------------------------------------
(* Properties. *)

TypeOK ==
  /\ lease \in [holder : Instances, ttl : Int] \cup {NoLease}
  /\ pc \in [Instances -> PCs]
  /\ age \in [Instances -> Nat]
  /\ due \in [Instances -> Int]
  /\ stopping \in [Instances -> BOOLEAN]
  /\ skew \in [Instances -> 0..MaxSkew]
  /\ faults \in 0..MaxFaults

\* What a deployment has to grant for the lease to do its work: it outlives
\* the slowest acquisition, a renew interval, the slowest failing renewal and
\* the slowest callback, on the clock that is furthest ahead.
LeaseMargin ==
  LeaseDuration >= RenewInterval + 2 * MaxCall + MaxDrain + MaxSkew

\* lease.go:6-7 and README.md:32: one instance at a time runs the event loop
\* and the reconciliation.
MutualExclusion ==
  \A i, j \in Instances : Running(i) /\ Running(j) => i = j

\* Whoever runs the callback is the document's holder, and on no clock has the
\* lease expired: a leader never outlives its lease.
LeaderHoldsLease ==
  \A i \in Instances : Running(i) => Held(i) /\ lease.ttl >= MaxSkew

\* The elector does what LeaderLease promises.
Abstract ==
  INSTANCE LeaderLease WITH leaders <- {i \in Instances : Running(i)}
ImplementsLeaderLease == Abstract!Spec

\* Once the faults are over, some instance becomes the leader and stays it.
StableLeader == \E i \in Instances : <>[]Running(i)
=============================================================================
