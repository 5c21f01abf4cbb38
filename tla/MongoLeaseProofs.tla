-------------------------- MODULE MongoLeaseProofs --------------------------
(***************************************************************************)
(* MongoLease: under LeaseMargin the elector keeps its promise, for every  *)
(* set of instances and every choice of the durations.                     *)
(***************************************************************************)
EXTENDS MongoLease, TLAPS

\* i is the holder, and for n more ticks.
HoldsFor(i, n) == Held(i) /\ lease.ttl >= n

\* What a leader needs to get its callback stopped by the lease's end, once
\* its ticker has fired and the renewal is about to fail.
Reserve == MaxCall + MaxDrain + MaxSkew

\* How long i still holds the lease, by where it is.
Cover(i) ==
  /\ pc[i] \in Acquiring \cup Renewing => age[i] <= MaxCall
  /\ pc[i] = "draining" => age[i] <= MaxDrain
  /\ pc[i] \notin Acquiring \cup Renewing \cup {"draining"} => age[i] = 0
  /\ pc[i] \in {"acquired", "renewed"} => HoldsFor(i, LeaseDuration - age[i])
  /\ pc[i] \in Renewing => due[i] <= RenewInterval - age[i]
  /\ pc[i] = "leading" => /\ due[i] <= RenewInterval
                          /\ HoldsFor(i, Reserve)
                          /\ HoldsFor(i, Reserve + due[i])
  /\ pc[i] \in {"renewing", "unrenewed"} => HoldsFor(i, Reserve - age[i])
  /\ pc[i] = "draining" => HoldsFor(i, MaxDrain + MaxSkew - age[i])

Covers == \A i \in Instances : Cover(i)

Inv == TypeOK /\ Covers

\* The instances that count on the lease.
Secured(i) == Running(i) \/ pc[i] = "acquired"

-----------------------------------------------------------------------------
(* Facts about one state. *)

\* The ticker's next fire is at most a renew interval away.
LEMMA NextFire ==
  ASSUME NEW n \in Int
  PROVE  (n % RenewInterval) + 1 \in 1..RenewInterval
  <1>1. RenewInterval \in Nat \ {0}  BY MongoLeaseAssumption
  <1>. QED  BY <1>1

\* Who runs the callback, or is about to, is the holder, and its lease is not
\* past on any clock.
LEMMA SecuredHolds ==
  ASSUME Inv, LeaseMargin, NEW i \in Instances, Secured(i)
  PROVE  Held(i) /\ lease.ttl >= MaxSkew
  <1>1. Cover(i)  BY DEF Inv, Covers
  <1>2. age[i] \in Nat /\ due[i] \in Int  BY DEF Inv, TypeOK
  <1>3. Held(i) => lease.ttl \in Int  BY DEF Inv, TypeOK, Held
  <1>. USE MongoLeaseAssumption, <1>1, <1>2, <1>3
  <1>4. CASE pc[i] \in {"acquired", "renewed"}
    <2>1. age[i] <= MaxCall /\ HoldsFor(i, LeaseDuration - age[i])
      BY <1>4 DEF Cover, Acquiring, Renewing
    <2>. QED  BY <2>1 DEF HoldsFor, LeaseMargin
  <1>5. CASE pc[i] \in {"renewing", "unrenewed"}
    <2>1. age[i] <= MaxCall /\ HoldsFor(i, Reserve - age[i])
      BY <1>5 DEF Cover, Renewing
    <2>. QED  BY <2>1 DEF HoldsFor, Reserve
  <1>6. CASE pc[i] = "leading"
    <2>1. HoldsFor(i, Reserve)  BY <1>6 DEF Cover
    <2>. QED  BY <2>1 DEF HoldsFor, Reserve
  <1>7. CASE pc[i] = "draining"
    <2>1. age[i] <= MaxDrain /\ HoldsFor(i, MaxDrain + MaxSkew - age[i])
      BY <1>7 DEF Cover
    <2>. QED  BY <2>1 DEF HoldsFor
  <1>. QED  BY <1>4, <1>5, <1>6, <1>7 DEF Secured, Running, Renewing

\* Then nobody else can take the lease, renew it or delete it.
LEMMA OthersRefused ==
  ASSUME Inv, LeaseMargin,
         NEW i \in Instances, Secured(i),
         NEW j \in Instances, j # i
  PROVE  ~Free(j) /\ ~Held(j)
  <1>1. Held(i) /\ lease.ttl >= MaxSkew  BY SecuredHolds
  <1>2. age[j] \in Nat /\ skew[j] \in Int /\ skew[j] <= MaxSkew
    BY MongoLeaseAssumption DEF Inv, TypeOK
  <1>3. lease.ttl \in Int  BY <1>1 DEF Inv, TypeOK, Held
  <1>4. ~(lease.ttl < skew[j] - age[j])
    BY <1>1, <1>2, <1>3, MongoLeaseAssumption
  <1>. QED  BY <1>1, <1>4 DEF Held, Free

\* The invariant contains mutual exclusion and the leader's hold.
LEMMA InvImplies ==
  ASSUME Inv, LeaseMargin
  PROVE  MutualExclusion /\ LeaderHoldsLease
  <1>1. \A i \in Instances : Running(i) => Held(i) /\ lease.ttl >= MaxSkew
    BY SecuredHolds DEF Secured
  <1>. QED  BY <1>1 DEF MutualExclusion, LeaderHoldsLease, Held

-----------------------------------------------------------------------------
(* The types. *)

\* The document an instance writes is well-typed.
LEMMA ExtendedType ==
  ASSUME TypeOK, NEW i \in Instances
  PROVE  /\ Extended(i) \in [holder : Instances, ttl : Int]
         /\ Extended(i) # NoLease
         /\ Extended(i).holder = i
         /\ Extended(i).ttl = LeaseDuration + skew[i] - age[i]
  BY MongoLeaseAssumption DEF TypeOK, Extended

\* Every step keeps the types.
LEMMA TypeStep ==
  ASSUME TypeOK, [Next]_vars
  PROVE  TypeOK'
  <1>. USE MongoLeaseAssumption
  <1>1. CASE UNCHANGED vars  BY <1>1 DEF TypeOK, vars
  <1>2. CASE Tick
    <2>1. lease' \in [holder : Instances, ttl : Int] \cup {NoLease}
      BY <1>2 DEF TypeOK, Tick, Expired
    <2>2. age' \in [Instances -> Nat] /\ due' \in [Instances -> Int]
      BY <1>2 DEF TypeOK, Tick
    <2>. QED  BY <1>2, <2>1, <2>2 DEF TypeOK, Tick
  <1>3. ASSUME NEW i \in Instances, RunStep(i) \/ Shutdown(i) \/ Crash(i)
        PROVE  TypeOK'
    <2>. USE DEF TypeOK, goto
    <2>1. CASE Acquire(i)
      BY <2>1 DEF Acquire, PCs, Acquiring
    <2>2. CASE ServeAcquire(i)
      BY <2>2, ExtendedType DEF ServeAcquire, PCs, Acquiring, Fault
    <2>3. CASE StartLeading(i) \/ Refused(i) \/ AcquireFailed(i)
      <3>1. CASE StartLeading(i)  BY <3>1 DEF StartLeading, PCs
      <3>2. CASE Refused(i)  BY <3>2 DEF Refused, PCs
      <3>3. CASE AcquireFailed(i)  BY <3>3 DEF AcquireFailed, PCs
      <3>. QED  BY <2>3, <3>1, <3>2, <3>3
    <2>4. CASE StartRenew(i)
      <3>1. ((due[i] - 1) % RenewInterval) + 1 \in Int
        BY NextFire
      <3>. QED  BY <2>4, <3>1 DEF StartRenew, PCs, Renewing
    <2>5. CASE ServeRenew(i)
      BY <2>5, ExtendedType DEF ServeRenew, PCs, Renewing, Fault
    <2>6. CASE Renewed(i) \/ CancelLeader(i) \/ Drained(i)
      BY <2>6 DEF Renewed, CancelLeader, Drained, PCs
    <2>7. CASE Release(i)
      BY <2>7 DEF Release, PCs
    <2>8. CASE Return(i) \/ Restart(i)
      <3>1. CASE Return(i)  BY <3>1 DEF Return, PCs
      <3>2. CASE Restart(i)  BY <3>2 DEF Restart, PCs
      <3>. QED  BY <2>8, <3>1, <3>2
    <2>9. CASE Shutdown(i) \/ Crash(i)
      <3>1. CASE Shutdown(i)  BY <3>1 DEF Shutdown, PCs
      <3>2. CASE Crash(i)  BY <3>2 DEF Crash, PCs
      <3>. QED  BY <2>9, <3>1, <3>2
    <2>. QED
      BY <1>3, <2>1, <2>2, <2>3, <2>4, <2>5, <2>6, <2>7, <2>8, <2>9
      DEF RunStep
  <1>. QED  BY <1>1, <1>2, <1>3 DEF Next

-----------------------------------------------------------------------------
(* The invariant. *)

\* An instance that is not touched keeps its cover, as long as the lease it
\* counts on is not touched either.
LEMMA CoverFrame ==
  ASSUME NEW j \in Instances, Cover(j),
         pc'[j] = pc[j], age'[j] = age[j], due'[j] = due[j],
         Secured(j) => lease' = lease
  PROVE  Cover(j)'
  <1>1. CASE Secured(j)  BY <1>1 DEF Cover, HoldsFor, Held
  <1>2. CASE ~Secured(j)
    BY <1>2 DEF Cover, Secured, Running, Acquiring, Renewing
  <1>. QED  BY <1>1, <1>2

\* Only the holder, or an instance that finds the lease free, changes it.
LEMMA LeaseWrites ==
  ASSUME NEW i \in Instances, RunStep(i) \/ Shutdown(i) \/ Crash(i),
         ~Free(i), ~Held(i)
  PROVE  lease' = lease
  <1>1. CASE ServeAcquire(i)  BY <1>1 DEF ServeAcquire
  <1>2. CASE ServeRenew(i)  BY <1>2 DEF ServeRenew
  <1>3. CASE Release(i)  BY <1>3 DEF Release
  <1>. QED
    BY <1>1, <1>2, <1>3 DEF RunStep, Acquire, StartLeading, Refused,
       AcquireFailed, StartRenew, Renewed, CancelLeader, Drained, Return,
       Restart, Shutdown, Crash

\* A step of i leaves the other instances where they are.
LEMMA StepFrame ==
  ASSUME TypeOK,
         NEW i \in Instances, RunStep(i) \/ Shutdown(i) \/ Crash(i),
         NEW j \in Instances, j # i
  PROVE  pc'[j] = pc[j] /\ age'[j] = age[j] /\ due'[j] = due[j]
  BY DEF TypeOK, goto, RunStep, Acquire, ServeAcquire, StartLeading, Refused,
     AcquireFailed, StartRenew, ServeRenew, Renewed, CancelLeader, Drained,
     Release, Return, Restart, Shutdown, Crash

\* So it takes nobody else's cover.
LEMMA OthersCovered ==
  ASSUME Inv, LeaseMargin,
         NEW i \in Instances, RunStep(i) \/ Shutdown(i) \/ Crash(i),
         NEW j \in Instances, j # i
  PROVE  Cover(j)'
  <1>1. pc'[j] = pc[j] /\ age'[j] = age[j] /\ due'[j] = due[j]
    BY StepFrame DEF Inv
  <1>2. ASSUME Secured(j)  PROVE lease' = lease
    <2>1. ~Free(i) /\ ~Held(i)  BY <1>2, OthersRefused
    <2>. QED  BY <2>1, LeaseWrites
  <1>3. Cover(j)  BY DEF Inv, Covers
  <1>. QED  BY <1>1, <1>2, <1>3, CoverFrame

\* An acquisition: the lease is at most age ticks shorter than LeaseDuration.
LEMMA AcquireCovered ==
  ASSUME Inv, LeaseMargin, NEW i \in Instances,
         \/ Acquire(i) \/ ServeAcquire(i) \/ StartLeading(i)
         \/ Refused(i) \/ AcquireFailed(i)
  PROVE  Cover(i)'
  <1>. USE MongoLeaseAssumption
  <1>1. Cover(i) /\ TypeOK  BY DEF Inv, Covers
  <1>2. CASE Acquire(i)
    <2>1. pc'[i] = "acquiring" /\ age'[i] = 0
      BY <1>1, <1>2 DEF Acquire, TypeOK, goto, Cover, Acquiring, Renewing
    <2>. QED  BY <2>1 DEF Cover, Acquiring, Renewing
  <1>3. CASE ServeAcquire(i)
    <2>1. age' = age /\ age[i] <= MaxCall /\ age[i] \in Nat
      BY <1>1, <1>3 DEF ServeAcquire, Cover, TypeOK, Acquiring
    <2>2. pc'[i] \in {"refused", "failed"} \/ pc'[i] = "acquired"
      BY <1>1, <1>3 DEF ServeAcquire, TypeOK, goto
    <2>3. ASSUME pc'[i] = "acquired"
          PROVE  HoldsFor(i, LeaseDuration - age[i])'
      <3>1. lease' = Extended(i)
        BY <1>1, <1>3, <2>3 DEF ServeAcquire, TypeOK, goto
      <3>2. skew[i] \in Nat  BY <1>1 DEF TypeOK
      <3>. QED  BY <1>1, <2>1, <3>1, <3>2, ExtendedType DEF HoldsFor, Held
    <2>. QED  BY <2>1, <2>2, <2>3 DEF Cover, Acquiring, Renewing
  <1>4. CASE StartLeading(i)
    <2>1. pc'[i] = "leading" /\ age'[i] = 0 /\ due'[i] = RenewInterval
          /\ lease' = lease
      BY <1>1, <1>4 DEF StartLeading, TypeOK, goto
    <2>2. age[i] <= MaxCall /\ HoldsFor(i, LeaseDuration - age[i])
      BY <1>1, <1>4 DEF StartLeading, Cover, Acquiring
    <2>3. age[i] \in Nat /\ lease.ttl \in Int
      BY <1>1, <2>2 DEF TypeOK, HoldsFor, Held
    <2>4. HoldsFor(i, Reserve) /\ HoldsFor(i, Reserve + RenewInterval)
      BY <2>2, <2>3 DEF HoldsFor, Reserve, LeaseMargin
    <2>5. HoldsFor(i, Reserve)' /\ HoldsFor(i, Reserve + due[i])'
      BY <2>1, <2>4 DEF HoldsFor, Held
    <2>. QED  BY <2>1, <2>5 DEF Cover, Acquiring, Renewing
  <1>5. CASE Refused(i) \/ AcquireFailed(i)
    <2>1. pc'[i] \in {"retry", "down"} /\ age'[i] = 0
      BY <1>1, <1>5 DEF Refused, AcquireFailed, TypeOK, goto
    <2>. QED  BY <2>1 DEF Cover, Acquiring, Renewing
  <1>. QED  BY <1>2, <1>3, <1>4, <1>5

\* A renewal, from the tick to the call's answer: what the leader held in
\* reserve pays for the call.
LEMMA RenewCovered ==
  ASSUME Inv, LeaseMargin, NEW i \in Instances,
         StartRenew(i) \/ ServeRenew(i) \/ Renewed(i)
  PROVE  Cover(i)'
  <1>. USE MongoLeaseAssumption
  <1>1. Cover(i) /\ TypeOK  BY DEF Inv, Covers
  <1>2. CASE StartRenew(i)
    <2>1. pc'[i] = "renewing" /\ age'[i] = 0 /\ lease' = lease
      BY <1>1, <1>2 DEF StartRenew, TypeOK, goto, Cover, Acquiring, Renewing
    <2>2. due'[i] \in 1..RenewInterval
      <3>1. due'[i] = ((due[i] - 1) % RenewInterval) + 1
        BY <1>1, <1>2 DEF StartRenew, TypeOK
      <3>2. due[i] - 1 \in Int  BY <1>1 DEF TypeOK
      <3>. QED  BY <3>1, <3>2, NextFire
    <2>3. HoldsFor(i, Reserve)  BY <1>1, <1>2 DEF StartRenew, Cover
    <2>4. HoldsFor(i, Reserve - age[i])'
      BY <2>1, <2>3 DEF HoldsFor, Held, Reserve
    <2>. QED  BY <2>1, <2>2, <2>4 DEF Cover, Acquiring, Renewing
  <1>3. CASE ServeRenew(i)
    <2>1. /\ age' = age /\ due' = due /\ age[i] \in Nat /\ due[i] \in Int
          /\ age[i] <= MaxCall /\ due[i] <= RenewInterval - age[i]
          /\ HoldsFor(i, Reserve - age[i])
      BY <1>1, <1>3 DEF ServeRenew, Cover, TypeOK, Renewing
    <2>2. lease' = lease \/ lease' = Extended(i)
      BY <1>3 DEF ServeRenew
    <2>3. skew[i] \in Nat  BY <1>1 DEF TypeOK
    <2>4. HoldsFor(i, Reserve - age[i])'
      <3>1. CASE lease' = lease  BY <2>1, <3>1 DEF HoldsFor, Held, Reserve
      <3>2. CASE lease' = Extended(i)
        BY <1>1, <2>1, <2>3, <3>2, ExtendedType
        DEF HoldsFor, Held, Reserve, LeaseMargin
      <3>. QED  BY <2>2, <3>1, <3>2
    <2>5. CASE pc'[i] = "renewed"
      <3>1. lease' = Extended(i)
        BY <1>1, <1>3, <2>5 DEF ServeRenew, TypeOK, goto
      <3>2. HoldsFor(i, LeaseDuration - age[i])'
        BY <1>1, <2>1, <2>3, <3>1, ExtendedType DEF HoldsFor, Held
      <3>. QED  BY <2>1, <2>5, <3>2 DEF Cover, Acquiring, Renewing
    <2>6. CASE pc'[i] = "unrenewed"
      BY <2>1, <2>4, <2>6 DEF Cover, Acquiring, Renewing
    <2>7. pc'[i] \in {"renewed", "unrenewed"}
      BY <1>1, <1>3 DEF ServeRenew, TypeOK, goto
    <2>. QED  BY <2>5, <2>6, <2>7
  <1>4. CASE Renewed(i)
    <2>1. pc'[i] = "leading" /\ age'[i] = 0 /\ due' = due /\ lease' = lease
      BY <1>1, <1>4 DEF Renewed, TypeOK, goto
    <2>2. /\ age[i] \in Nat /\ due[i] \in Int /\ age[i] <= MaxCall
          /\ due[i] <= RenewInterval - age[i]
          /\ HoldsFor(i, LeaseDuration - age[i])
      BY <1>1, <1>4 DEF Renewed, Cover, TypeOK, Renewing
    <2>3. lease.ttl \in Int  BY <1>1, <2>2 DEF TypeOK, HoldsFor, Held
    <2>4. HoldsFor(i, Reserve) /\ HoldsFor(i, Reserve + due[i])
      BY <2>2, <2>3 DEF HoldsFor, Reserve, LeaseMargin
    <2>5. HoldsFor(i, Reserve)' /\ HoldsFor(i, Reserve + due[i])'
      BY <2>1, <2>4 DEF HoldsFor, Held
    <2>. QED  BY <2>1, <2>2, <2>5 DEF Cover, Acquiring, Renewing
  <1>. QED  BY <1>2, <1>3, <1>4

\* The end of a term and of a process: cancelLeader finds the reserve left.
LEMMA EndCovered ==
  ASSUME Inv, NEW i \in Instances,
         \/ CancelLeader(i) \/ Drained(i) \/ Release(i) \/ Return(i)
         \/ Restart(i) \/ Shutdown(i) \/ Crash(i)
  PROVE  Cover(i)'
  <1>. USE MongoLeaseAssumption
  <1>1. Cover(i) /\ TypeOK  BY DEF Inv, Covers
  <1>2. CASE CancelLeader(i)
    <2>1. pc'[i] = "draining" /\ age'[i] = 0 /\ lease' = lease
      BY <1>1, <1>2 DEF CancelLeader, TypeOK, goto
    <2>2. HoldsFor(i, MaxDrain + MaxSkew)
      <3>1. CASE pc[i] = "unrenewed"
        <4>1. age[i] \in Nat /\ age[i] <= MaxCall
              /\ HoldsFor(i, Reserve - age[i])
          BY <1>1, <3>1 DEF Cover, TypeOK, Renewing
        <4>2. lease.ttl \in Int  BY <1>1, <4>1 DEF TypeOK, HoldsFor, Held
        <4>. QED  BY <4>1, <4>2 DEF HoldsFor, Reserve
      <3>2. CASE pc[i] = "leading"
        <4>1. HoldsFor(i, Reserve)  BY <1>1, <3>2 DEF Cover
        <4>2. lease.ttl \in Int  BY <1>1, <4>1 DEF TypeOK, HoldsFor, Held
        <4>. QED  BY <4>1, <4>2 DEF HoldsFor, Reserve
      <3>. QED  BY <1>2, <3>1, <3>2 DEF CancelLeader
    <2>3. HoldsFor(i, MaxDrain + MaxSkew - age[i])'
      BY <2>1, <2>2 DEF HoldsFor, Held
    <2>. QED  BY <2>1, <2>3 DEF Cover, Acquiring, Renewing
  <1>3. CASE Shutdown(i)
    BY <1>1, <1>3, CoverFrame DEF Shutdown
  <1>4. CASE Drained(i) \/ Crash(i)
    <2>1. pc'[i] \in {"releasing", "down"} /\ age'[i] = 0
      BY <1>1, <1>4 DEF Drained, Crash, TypeOK, goto
    <2>. QED  BY <2>1 DEF Cover, Acquiring, Renewing
  <1>5. CASE Release(i) \/ Return(i) \/ Restart(i)
    <2>1. pc[i] \in {"releasing", "retry", "down"} /\ age' = age
          /\ pc'[i] \in {"retry", "down"}
      BY <1>1, <1>5 DEF Release, Return, Restart, TypeOK, goto
    <2>2. age[i] = 0  BY <1>1, <2>1 DEF Cover, Acquiring, Renewing
    <2>. QED  BY <2>1, <2>2 DEF Cover, Acquiring, Renewing
  <1>. QED  BY <1>2, <1>3, <1>4, <1>5

\* Time passing shortens the lease and what is left to cover alike.
LEMMA TickCovered ==
  ASSUME Inv, LeaseMargin, Tick, NEW i \in Instances
  PROVE  Cover(i)'
  <1>. USE MongoLeaseAssumption
  <1>1. Cover(i) /\ TypeOK  BY DEF Inv, Covers
  <1>2. pc' = pc /\ age[i] \in Nat /\ due[i] \in Int
    BY <1>1 DEF Tick, TypeOK
  <1>3. ASSUME HoldsFor(i, 0)
        PROVE  /\ Held(i)' /\ lease'.ttl = lease.ttl - 1
               /\ lease.ttl \in Int
    <2>1. lease \in [holder : Instances, ttl : Int] /\ lease # NoLease
          /\ lease.ttl >= 0 /\ lease.holder = i
      BY <1>1, <1>3 DEF TypeOK, HoldsFor, Held
    <2>2. lease' = [lease EXCEPT !.ttl = @ - 1]
      BY <1>3, <2>1 DEF Tick, Expired
    <2>3. lease'.ttl = lease.ttl - 1 /\ lease'.holder = i
          /\ lease' \in [holder : Instances, ttl : Int]
      BY <2>1, <2>2
    <2>. QED  BY <1>3, <2>1, <2>3 DEF HoldsFor, Held
  <1>4. CASE pc[i] \in Acquiring \cup Renewing
    <2>1. age'[i] = age[i] + 1 /\ age[i] < MaxCall
      BY <1>1, <1>4 DEF Tick, TypeOK, Acquiring, Renewing
    <2>2. ASSUME pc[i] \in {"acquired", "renewed"}
          PROVE  HoldsFor(i, LeaseDuration - age[i])'
      <3>1. HoldsFor(i, LeaseDuration - age[i])  BY <1>1, <2>2 DEF Cover
      <3>2. lease.ttl \in Int  BY <1>1, <3>1 DEF TypeOK, HoldsFor, Held
      <3>3. HoldsFor(i, 0)
        BY <1>2, <2>1, <3>1, <3>2 DEF HoldsFor, LeaseMargin
      <3>. QED  BY <1>2, <1>3, <2>1, <3>1, <3>3 DEF HoldsFor
    <2>3. ASSUME pc[i] \in {"renewing", "unrenewed"}
          PROVE  HoldsFor(i, Reserve - age[i])'
      <3>1. HoldsFor(i, Reserve - age[i])  BY <1>1, <2>3 DEF Cover
      <3>2. lease.ttl \in Int  BY <1>1, <3>1 DEF TypeOK, HoldsFor, Held
      <3>3. HoldsFor(i, 0)
        BY <1>2, <2>1, <3>1, <3>2 DEF HoldsFor, Reserve
      <3>. QED  BY <1>2, <1>3, <2>1, <3>1, <3>3 DEF HoldsFor, Reserve
    <2>4. ASSUME pc[i] \in Renewing
          PROVE  due'[i] <= RenewInterval - age'[i]
      <3>1. due'[i] = due[i] - 1  BY <1>1, <2>4 DEF Tick, TypeOK
      <3>2. due[i] <= RenewInterval - age[i]  BY <1>1, <2>4 DEF Cover
      <3>. QED  BY <1>2, <2>1, <3>1, <3>2
    <2>. QED
      BY <1>2, <1>4, <2>1, <2>2, <2>3, <2>4 DEF Cover, Acquiring, Renewing
  <1>5. CASE pc[i] = "leading"
    <2>1. age'[i] = age[i] /\ due'[i] = due[i] - 1 /\ due[i] > 0
      BY <1>1, <1>5 DEF Tick, TypeOK, Acquiring, Renewing
    <2>2. /\ HoldsFor(i, Reserve) /\ HoldsFor(i, Reserve + due[i])
          /\ due[i] <= RenewInterval /\ age[i] = 0
      BY <1>1, <1>5 DEF Cover, Acquiring, Renewing
    <2>3. HoldsFor(i, 0)
      <3>1. lease.ttl \in Int  BY <1>1, <2>2 DEF TypeOK, HoldsFor, Held
      <3>. QED  BY <2>2, <3>1 DEF HoldsFor, Reserve
    <2>4. HoldsFor(i, Reserve)' /\ HoldsFor(i, Reserve + due[i])'
      BY <1>2, <1>3, <2>1, <2>2, <2>3 DEF HoldsFor, Reserve
    <2>. QED  BY <1>2, <1>5, <2>1, <2>2, <2>4 DEF Cover, Acquiring, Renewing
  <1>6. CASE pc[i] = "draining"
    <2>1. age'[i] = age[i] + 1 /\ age[i] < MaxDrain
      BY <1>1, <1>6 DEF Tick, TypeOK
    <2>2. HoldsFor(i, MaxDrain + MaxSkew - age[i])
      BY <1>1, <1>6 DEF Cover
    <2>3. HoldsFor(i, 0)
      <3>1. lease.ttl \in Int  BY <1>1, <2>2 DEF TypeOK, HoldsFor, Held
      <3>. QED  BY <1>2, <2>1, <2>2, <3>1 DEF HoldsFor
    <2>4. HoldsFor(i, MaxDrain + MaxSkew - age[i])'
      BY <1>2, <1>3, <2>1, <2>2, <2>3 DEF HoldsFor
    <2>. QED  BY <1>2, <1>6, <2>1, <2>4 DEF Cover, Acquiring, Renewing
  <1>7. CASE pc[i] \notin Acquiring \cup Renewing \cup {"leading", "draining"}
    <2>1. age'[i] = age[i]  BY <1>1, <1>7 DEF Tick, TypeOK
    <2>. QED  BY <1>1, <1>2, <1>7, <2>1 DEF Cover, Acquiring, Renewing
  <1>. QED  BY <1>4, <1>5, <1>6, <1>7

\* Inv is inductive.
LEMMA InvStep ==
  ASSUME Inv, LeaseMargin, [Next]_vars
  PROVE  Inv'
  <1>1. TypeOK'  BY TypeStep DEF Inv
  <1>2. Covers'
    <2>1. CASE UNCHANGED vars
      BY <2>1 DEF Inv, Covers, Cover, HoldsFor, Held, vars
    <2>2. CASE Tick  BY <2>2, TickCovered DEF Covers
    <2>3. ASSUME NEW i \in Instances, RunStep(i) \/ Shutdown(i) \/ Crash(i)
          PROVE  Covers'
      <3>1. Cover(i)'
        BY <2>3, AcquireCovered, RenewCovered, EndCovered DEF RunStep
      <3>2. \A j \in Instances \ {i} : Cover(j)'
        BY <2>3, OthersCovered
      <3>. QED  BY <3>1, <3>2 DEF Covers
    <2>. QED  BY <2>1, <2>2, <2>3 DEF Next
  <1>. QED  BY <1>1, <1>2 DEF Inv

\* It holds initially.
LEMMA InvInit ==
  ASSUME Init
  PROVE  Inv
  <1>1. TypeOK  BY MongoLeaseAssumption DEF Init, TypeOK, PCs
  <1>2. Covers  BY DEF Init, Covers, Cover, Acquiring, Renewing
  <1>. QED  BY <1>1, <1>2 DEF Inv

-----------------------------------------------------------------------------
(* The results. *)

\* The variables of the elector are well-typed, whatever the durations.
THEOREM LeaseTypes == Spec => []TypeOK
  <1>1. Init => TypeOK  BY InvInit DEF Inv
  <1>2. TypeOK /\ [Next]_vars => TypeOK'  BY TypeStep
  <1>. QED  BY <1>1, <1>2, PTL DEF Spec

\* With a lease that covers a renew interval, the slowest calls, the slowest
\* callback and the clock skew, no two instances run the callback of
\* lease-mongo at the same time, and its runner's lease is past on no clock.
THEOREM OneLeader ==
  ASSUME LeaseMargin
  PROVE  Spec => [](MutualExclusion /\ LeaderHoldsLease)
  <1>1. Init => Inv  BY InvInit
  <1>2. Inv /\ [Next]_vars => Inv'  BY InvStep
  <1>3. Inv => MutualExclusion /\ LeaderHoldsLease  BY InvImplies
  <1>. QED  BY <1>1, <1>2, <1>3, PTL DEF Spec

\* In particular nobody may take the lease under a running leader, however
\* late its next renewal: Run cancels the callback before the lease expires
\* on anybody's clock.
THEOREM LeaderKeepsLease ==
  ASSUME LeaseMargin
  PROVE  Spec => []LeaderHoldsLease
  <1>1. Spec => [](MutualExclusion /\ LeaderHoldsLease)  BY OneLeader
  <1>. QED  BY <1>1, PTL

\* The refinement mapping.
Leaders == {i \in Instances : Running(i)}

\* A callback starts when no other is running, and the one that stops was the
\* only one.
LEMMA LeaderStep ==
  ASSUME Inv, LeaseMargin, [Next]_vars
  PROVE  [Abstract!Next]_Leaders
  <1>. USE DEF Leaders
  <1>. TypeOK  BY DEF Inv
  <1>1. CASE UNCHANGED vars \/ Tick
    BY <1>1 DEF vars, Tick, Running
  <1>2. ASSUME NEW i \in Instances, RunStep(i) \/ Shutdown(i) \/ Crash(i)
        PROVE  [Abstract!Next]_Leaders
    <2>1. \A j \in Instances \ {i} : Running(j)' = Running(j)
      BY <1>2, StepFrame DEF Running
    <2>2. ASSUME Secured(i)  PROVE \A j \in Instances \ {i} : ~Running(j)
      BY <2>2, SecuredHolds DEF Secured, Held
    <2>3. CASE StartLeading(i)
      <3>1. Secured(i) /\ ~Running(i) /\ Running(i)'
        BY <2>3 DEF StartLeading, Secured, Running, Renewing, TypeOK, goto
      <3>2. Leaders = {} /\ Leaders' = {i}  BY <2>1, <2>2, <3>1
      <3>. QED  BY <3>2 DEF Abstract!Next, Abstract!StartLeading
    <2>4. CASE Running(i) /\ ~Running(i)'
      <3>1. Leaders = {i} /\ Leaders' = {}
        BY <2>1, <2>2, <2>4 DEF Secured
      <3>. QED  BY <3>1 DEF Abstract!Next, Abstract!StopLeading
    <2>5. ASSUME ~StartLeading(i), ~Running(i)  PROVE ~Running(i)'
      BY <1>2, <2>5 DEF RunStep, Acquire, ServeAcquire, Refused,
         AcquireFailed, StartRenew, ServeRenew, Renewed, CancelLeader,
         Drained, Release, Return, Restart, Shutdown, Crash, Running,
         Renewing, TypeOK, goto
    <2>6. CASE Running(i)' = Running(i)
      <3>1. Leaders' = Leaders  BY <2>1, <2>6
      <3>. QED  BY <3>1
    <2>. QED  BY <2>3, <2>4, <2>5, <2>6 DEF Running
  <1>. QED  BY <1>1, <1>2 DEF Next

\* Under the same margin lease-mongo implements what core/lease promises.
THEOREM LeaseRefinement ==
  ASSUME LeaseMargin
  PROVE  Spec => ImplementsLeaderLease
  <1>1. Init => Inv  BY InvInit
  <1>2. Inv /\ [Next]_vars => Inv'  BY InvStep
  <1>3. Init => Abstract!Init
    BY DEF Init, Abstract!Init, Running, Renewing
  <1>4. Inv /\ [Next]_vars => [Abstract!Next]_Leaders  BY LeaderStep
  <1>. QED
    BY <1>1, <1>2, <1>3, <1>4, PTL
    DEF Spec, ImplementsLeaderLease, Abstract!Spec, Leaders
=============================================================================
