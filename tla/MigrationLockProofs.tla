------------------------ MODULE MigrationLockProofs ------------------------
(***************************************************************************)
(* Proofs about MigrationLock, for any processes, number of migrations and *)
(* faults.  Mutual exclusion rests on the lock outliving the deadline of   *)
(* its holder, which is TTL >= Timeout; the defaults are 1m and 5s.        *)
(***************************************************************************)
EXTENDS MigrationLock, TLAPS

\* The parts of the inductive invariant.

\* A process on its way to the lock has a deadline at most Timeout after the
\* time it read.
Punctual ==
  \A p \in Processes :
    /\ pc[p] = "clock" => deadline[p] <= clock + Timeout
    /\ pc[p] \in {"update", "insert"} =>
         now[p] <= clock /\ deadline[p] <= now[p] + Timeout

\* A process that is about to write a marker is inside its loop.
InLoop == \A p \in Processes : pc[p] = "mark" => at[p] \in Migrations

Typed == TypeOK /\ Punctual /\ InLoop

\* A process that migrates before its deadline owns a lock that lasts until then.
Holding ==
  \A p \in Processes :
    pc[p] \in Migrating /\ Live(p) =>
      lock # NoLock /\ lock.owner = p /\ deadline[p] <= lock.until

\* What lies behind a process in its loop is applied.
Progressed ==
  \A p \in Processes :
    /\ seen[p] \subseteq applied
    /\ pc[p] \in {"up", "mark"} => 1..(at[p] - 1) \subseteq applied
    /\ pc[p] = "mark" => at[p] \in indexes

\* Of what lies ahead, a process that can still migrate has read all markers.
Informed ==
  \A p \in Processes :
    /\ pc[p] \in {"up", "mark"} /\ Live(p) =>
         \A m \in applied : m >= at[p] => m \in seen[p]
    /\ pc[p] = "mark" => ~Skip(p)

\* An engine gives the lock back only when all migrations are applied.
Finished ==
  \A p \in Engines : pc[p] = "release" => Migrations \subseteq applied

-----------------------------------------------------------------------------
(* Types and times *)

\* The clocks and counters start within their types.
LEMMA TypeInit == Init => Typed
<1> SUFFICES ASSUME Init PROVE Typed
  OBVIOUS
<1>1. TypeOK
  BY MigrationLockAssumption DEF Init, TypeOK, Steps, Migrations
<1>2. Punctual /\ InLoop
  BY DEF Init, Punctual, InLoop
<1> QED BY <1>1, <1>2 DEF Typed

\* Every step keeps the types, and the bounds on the deadlines.
LEMMA TypeStep == Typed /\ [Next]_vars => Typed'
<1> SUFFICES ASSUME TypeOK, Punctual, InLoop, [Next]_vars PROVE Typed'
  BY DEF Typed
<1> USE MigrationLockAssumption DEF TypeOK, Punctual, InLoop, Typed, Migrating
<1>0. \A p \in Processes : at[p] <= Count <=> at[p] \in Migrations
  BY DEF Migrations
<1>a. \A m \in Migrations : m \in Nat /\ m + 1 \in 1..(Count + 1)
  BY DEF Migrations
<1>1. CASE Tick
  BY <1>1 DEF Tick
<1>2. ASSUME NEW p \in Processes, Start(p) PROVE Typed'
  BY <1>2 DEF Start, Goto, Steps
<1>3. ASSUME NEW p \in Processes, ReadClock(p) PROVE Typed'
  BY <1>3 DEF ReadClock, Goto, Steps
<1>4. ASSUME NEW p \in Processes, Update(p) PROVE Typed'
  BY <1>4 DEF Update, Goto, Locked, Steps
<1>5. ASSUME NEW p \in Processes, Insert(p) PROVE Typed'
  BY <1>5 DEF Insert, Goto, Locked, Steps
<1>6. ASSUME NEW p \in Processes, ReadApplied(p) PROVE Typed'
  <2>1. seen' \in [Processes -> SUBSET Migrations]
    BY <1>6 DEF ReadApplied
  <2>2. at' \in [Processes -> 1..(Count + 1)]
    BY <1>6 DEF ReadApplied
  <2>3. pc' \in [Processes -> Steps]
    BY <1>6 DEF ReadApplied, Goto, Steps
  <2>4. Punctual' /\ InLoop'
    BY <1>6 DEF ReadApplied, Goto, Steps
  <2>5. UNCHANGED <<clock, lock, applied, indexes, deadline, now, early>>
    BY <1>6 DEF ReadApplied
  <2> QED BY <2>1, <2>2, <2>3, <2>4, <2>5
<1>7. ASSUME NEW p \in Processes, Up(p) PROVE Typed'
  <2>1. indexes' \subseteq Migrations
    BY <1>7, <1>0 DEF Up
  <2>2. at' \in [Processes -> 1..(Count + 1)]
    BY <1>7 DEF Up
  <2>3. pc' \in [Processes -> Steps]
    BY <1>7 DEF Up, Goto, Steps
  <2>4. Punctual'
    BY <1>7 DEF Up, Goto, Steps
  <2>5. InLoop'
    BY <1>7, <1>0 DEF Up, Goto, Steps
  <2>6. UNCHANGED <<clock, lock, applied, deadline, now, seen, early>>
    BY <1>7 DEF Up
  <2> QED BY <2>1, <2>2, <2>3, <2>4, <2>5, <2>6
<1>8. ASSUME NEW p \in Processes, MarkApplied(p) PROVE Typed'
  <2>1. applied' \subseteq Migrations
    BY <1>8 DEF MarkApplied
  <2>2. at' \in [Processes -> 1..(Count + 1)]
    BY <1>8, <1>a DEF MarkApplied
  <2>3. pc' \in [Processes -> Steps]
    BY <1>8 DEF MarkApplied, Goto, Steps
  <2>4. Punctual' /\ InLoop'
    BY <1>8 DEF MarkApplied, Goto, Steps
  <2>5. UNCHANGED <<clock, lock, indexes, deadline, now, seen, early>>
    BY <1>8 DEF MarkApplied
  <2> QED BY <2>1, <2>2, <2>3, <2>4, <2>5
<1>9. ASSUME NEW p \in Processes, ReleaseLock(p) PROVE Typed'
  <2>1. lock' \in {lock, NoLock}
    BY <1>9 DEF ReleaseLock
  <2>2. pc' \in [Processes -> Steps]
    BY <1>9 DEF ReleaseLock, Goto, Steps
  <2>3. Punctual' /\ InLoop'
    BY <1>9 DEF ReleaseLock, Goto, Steps
  <2>4. UNCHANGED <<clock, applied, indexes, deadline, now, seen, at>>
    BY <1>9 DEF ReleaseLock
  <2>5. early' \subseteq Processes
    BY <1>9 DEF ReleaseLock
  <2> QED BY <2>1, <2>2, <2>3, <2>4, <2>5
<1>10. ASSUME NEW p \in Processes, Fail(p) PROVE Typed'
  <2>1. lock' = lock \/ (pc[p] \in {"update", "insert"} /\ lock' = Locked(p))
    BY <1>10 DEF Fail
  <2>2. lock' \in [owner : Processes, until : 0..(clock + TTL)] \union {NoLock}
    BY <2>1 DEF Locked
  <2>3. applied' \subseteq Migrations /\ indexes' \subseteq Migrations
    <3>1. CASE UNCHANGED <<applied, indexes>>
      BY <3>1
    <3>2. CASE /\ pc[p] = "up"
               /\ indexes' = indexes \union {at[p]}
               /\ applied' = applied
      BY <1>0, <1>10, <3>2 DEF Fail, Calling
    <3>3. CASE /\ pc[p] = "mark"
               /\ applied' = applied \union {at[p]}
               /\ indexes' = indexes
      BY <3>3
    <3> QED BY <1>10, <3>1, <3>2, <3>3 DEF Fail
  <2>4. pc' \in [Processes -> Steps]
    BY <1>10 DEF Fail, Goto, AfterFailure, Steps
  <2>5. Punctual' /\ InLoop'
    BY <1>10 DEF Fail, Goto, AfterFailure, Steps
  <2>6. UNCHANGED <<clock, deadline, now, seen, at, early>>
    BY <1>10 DEF Fail
  <2> QED BY <2>2, <2>3, <2>4, <2>5, <2>6
<1>11. ASSUME NEW p \in Processes, Crash(p) PROVE Typed'
  BY <1>11 DEF Crash, Goto, Steps
<1>12. ASSUME NEW p \in Processes, Restart(p) PROVE Typed'
  <2>1. seen' \in [Processes -> SUBSET Migrations]
    BY <1>12 DEF Restart
  <2>2. /\ at' \in [Processes -> 1..(Count + 1)]
        /\ deadline' \in [Processes -> Nat]
        /\ now' \in [Processes -> Nat]
    BY <1>12 DEF Restart
  <2>3. pc' \in [Processes -> Steps]
    BY <1>12 DEF Restart, Goto, Steps
  <2>4. Punctual' /\ InLoop'
    BY <1>12 DEF Restart, Goto, Steps
  <2>5. UNCHANGED <<clock, lock, applied, indexes, early>>
    BY <1>12 DEF Restart
  <2> QED BY <2>1, <2>2, <2>3, <2>4, <2>5
<1>13. CASE UNCHANGED vars
  BY <1>13 DEF vars
<1> QED
  BY <1>1, <1>2, <1>3, <1>4, <1>5, <1>6, <1>7, <1>8, <1>9, <1>10, <1>11, <1>12,
     <1>13 DEF Next

\* The type invariant holds: in particular no process ever leaves a lock that
\* lasts for more than MONGO_MIGRATE_LOCK_TTL.
THEOREM TypeCorrect == Spec => []TypeOK
<1>1. Init => Typed
  BY TypeInit
<1>2. Typed /\ [Next]_vars => Typed'
  BY TypeStep
<1>3. Typed => TypeOK
  BY DEF Typed
<1> QED BY <1>1, <1>2, <1>3, PTL DEF Spec
-----------------------------------------------------------------------------
(* Mutual exclusion *)

\* A process that finds the lock expired, or absent, finds nobody at work.
LEMMA Vacant ==
  ASSUME Typed, Holding, NEW q \in Processes,
         \/ pc[q] = "update" /\ Expired(q)
         \/ lock = NoLock
  PROVE  \A p \in Processes : ~(pc[p] \in Migrating /\ Live(p))
<1> SUFFICES ASSUME NEW p \in Processes, pc[p] \in Migrating, Live(p)
             PROVE  FALSE
  OBVIOUS
<1>1. lock # NoLock /\ deadline[p] <= lock.until
  BY DEF Holding
<1>2. lock.until < now[q] /\ now[q] <= clock
  BY <1>1 DEF Expired, Typed, Punctual
<1>3. clock <= deadline[p]
  BY DEF Live
<1>4. /\ clock \in Nat /\ now[q] \in Nat /\ deadline[p] \in Nat
      /\ lock.until \in 0..(clock + TTL)
  BY <1>1 DEF Typed, TypeOK
<1>5. clock + TTL \in Nat
  BY <1>4, MigrationLockAssumption
<1> QED BY <1>1, <1>2, <1>3, <1>4, <1>5

\* A process that takes the lock takes it for longer than its deadline.
LEMMA Suffices ==
  ASSUME TTL >= Timeout, Typed, NEW p \in Processes,
         pc[p] \in {"update", "insert"}
  PROVE  /\ Locked(p) # NoLock
         /\ Locked(p).owner = p
         /\ deadline[p] <= Locked(p).until
<1>1. deadline[p] <= now[p] + Timeout
  BY DEF Typed, Punctual
<1>2. now[p] \in Nat /\ deadline[p] \in Nat
  BY DEF Typed, TypeOK
<1> QED BY <1>1, <1>2, MigrationLockAssumption DEF Locked

\* Every step keeps the holders in possession of the lock.
LEMMA HoldingStep ==
  ASSUME TTL >= Timeout, Typed, Holding, [Next]_vars
  PROVE  Holding'
<1> USE MigrationLockAssumption DEF Migrating, Live
<1>0. pc \in [Processes -> Steps] /\ deadline \in [Processes -> Nat] /\ clock \in Nat
  BY DEF Typed, TypeOK
<1>1. CASE Tick
  BY <1>0, <1>1 DEF Tick, Holding
<1>2. ASSUME NEW p \in Processes, Start(p) PROVE Holding'
  BY <1>0, <1>2 DEF Start, Goto, Holding
<1>3. ASSUME NEW p \in Processes, ReadClock(p) PROVE Holding'
  BY <1>0, <1>3 DEF ReadClock, Goto, Holding
<1>4. ASSUME NEW p \in Processes, Update(p) PROVE Holding'
  <2>1. CASE Expired(p)
    <3>1. \A r \in Processes : ~(pc[r] \in Migrating /\ Live(r))
      BY <1>4, <2>1, Vacant DEF Update
    <3>2. lock' = Locked(p) /\ pc' = [pc EXCEPT ![p] = "read"]
      BY <1>4, <2>1 DEF Update, Goto
    <3>3. UNCHANGED <<clock, deadline>>
      BY <1>4 DEF Update
    <3>4. /\ Locked(p) # NoLock
          /\ Locked(p).owner = p
          /\ deadline[p] <= Locked(p).until
      BY <1>4, Suffices DEF Update
    <3> QED BY <1>0, <3>1, <3>2, <3>3, <3>4 DEF Holding
  <2>2. CASE ~Expired(p)
    BY <1>0, <1>4, <2>2 DEF Update, Goto, Holding
  <2> QED BY <2>1, <2>2
<1>5. ASSUME NEW p \in Processes, Insert(p) PROVE Holding'
  <2>1. CASE lock = NoLock
    <3>1. \A r \in Processes : ~(pc[r] \in Migrating /\ Live(r))
      BY <2>1, Vacant
    <3>2. lock' = Locked(p) /\ pc' = [pc EXCEPT ![p] = "read"]
      BY <1>5, <2>1 DEF Insert, Goto
    <3>3. UNCHANGED <<clock, deadline>>
      BY <1>5 DEF Insert
    <3>4. /\ Locked(p) # NoLock
          /\ Locked(p).owner = p
          /\ deadline[p] <= Locked(p).until
      BY <1>5, Suffices DEF Insert
    <3> QED BY <1>0, <3>1, <3>2, <3>3, <3>4 DEF Holding
  <2>2. CASE lock # NoLock
    BY <1>0, <1>5, <2>2 DEF Insert, Goto, Holding
  <2> QED BY <2>1, <2>2
<1>6. ASSUME NEW p \in Processes, ReadApplied(p) PROVE Holding'
  BY <1>0, <1>6 DEF ReadApplied, Goto, Holding
<1>7. ASSUME NEW p \in Processes, Up(p) PROVE Holding'
  BY <1>0, <1>7 DEF Up, Goto, Holding
<1>8. ASSUME NEW p \in Processes, MarkApplied(p) PROVE Holding'
  BY <1>0, <1>8 DEF MarkApplied, Goto, Holding
<1>9. ASSUME NEW p \in Processes, ReleaseLock(p) PROVE Holding'
  BY <1>0, <1>9 DEF ReleaseLock, Goto, Mine, Holding
<1>10. ASSUME NEW p \in Processes, Fail(p) PROVE Holding'
  <2>1. pc' = [pc EXCEPT ![p] = AfterFailure(p)] /\ UNCHANGED <<clock, deadline>>
    BY <1>10 DEF Fail, Goto
  <2>2. AfterFailure(p) \in {"release", "dead"}
    BY DEF AfterFailure
  <2>3. CASE lock' = lock
    BY <1>0, <2>1, <2>2, <2>3 DEF Holding
  <2>4. CASE lock' # lock
    <3>1. (pc[p] = "update" /\ Expired(p)) \/ lock = NoLock
      BY <1>10, <2>4 DEF Fail
    <3>2. \A r \in Processes : ~(pc[r] \in Migrating /\ Live(r))
      BY <3>1, Vacant
    <3> QED BY <1>0, <2>1, <2>2, <3>2 DEF Holding
  <2> QED BY <2>3, <2>4
<1>11. ASSUME NEW p \in Processes, Crash(p) PROVE Holding'
  BY <1>0, <1>11 DEF Crash, Goto, Holding
<1>12. ASSUME NEW p \in Processes, Restart(p) PROVE Holding'
  BY <1>0, <1>12 DEF Restart, Goto, Holding
<1>13. CASE UNCHANGED vars
  BY <1>13 DEF vars, Holding
<1> QED
  BY <1>1, <1>2, <1>3, <1>4, <1>5, <1>6, <1>7, <1>8, <1>9, <1>10, <1>11, <1>12,
     <1>13 DEF Next

\* Those who hold the lock are one.
LEMMA HoldersAreOne == Holding => OneMigrator
  BY DEF Holding, OneMigrator

\* If the lock is taken for at least as long as the context lasts, two processes
\* never migrate at the same time, whatever fails or is killed and started again.
THEOREM MigratorsExclude ==
  ASSUME TTL >= Timeout
  PROVE  Spec => []OneMigrator
<1>1. Init => Typed /\ Holding
  BY TypeInit DEF Init, Holding, Migrating
<1>2. Typed /\ Holding /\ [Next]_vars => Typed' /\ Holding'
  BY TypeStep, HoldingStep
<1>3. Holding => OneMigrator
  BY HoldersAreOne
<1> QED BY <1>1, <1>2, <1>3, PTL DEF Spec
-----------------------------------------------------------------------------
(* The order of migrations *)

\* Markers and indexes only grow, and a marker is written for the migration its
\* writer is at.
LEMMA Growth ==
  ASSUME Typed, Progressed, AppliedInOrder, [Next]_vars
  PROVE  /\ applied \subseteq applied'
         /\ indexes \subseteq indexes'
         /\ AppliedInOrder'
<1> USE DEF AppliedInOrder
<1>1. ASSUME NEW p \in Processes, pc[p] = "mark",
             applied' = applied \union {at[p]}, UNCHANGED indexes
      PROVE  AppliedInOrder'
  <2>1. at[p] \in indexes /\ 1..(at[p] - 1) \subseteq applied
    BY <1>1 DEF Progressed
  <2> QED BY <1>1, <2>1
<1>2. ASSUME NEW p \in Processes, ReadApplied(p) \/ Up(p) \/ MarkApplied(p)
      PROVE  applied \subseteq applied' /\ indexes \subseteq indexes' /\ AppliedInOrder'
  BY <1>1, <1>2 DEF ReadApplied, Up, MarkApplied
<1>3. ASSUME NEW p \in Processes, Fail(p)
      PROVE  applied \subseteq applied' /\ indexes \subseteq indexes' /\ AppliedInOrder'
  <2>1. CASE UNCHANGED applied
    BY <1>3, <2>1 DEF Fail
  <2>2. CASE applied' # applied
    BY <1>1, <1>3, <2>2 DEF Fail
  <2> QED BY <2>1, <2>2
<1>4. ASSUME NEW p \in Processes,
             \/ Start(p) \/ ReadClock(p) \/ Update(p) \/ Insert(p)
             \/ ReleaseLock(p) \/ Crash(p) \/ Restart(p)
      PROVE  UNCHANGED <<applied, indexes>>
  BY <1>4 DEF Start, ReadClock, Update, Insert, ReleaseLock, Crash, Restart
<1>5. CASE Tick \/ UNCHANGED vars
  BY <1>5 DEF Tick, vars
<1> QED BY <1>2, <1>3, <1>4, <1>5 DEF Next

\* Every step keeps what lies behind each process applied.
LEMMA ProgressStep ==
  ASSUME Typed, Progressed, AppliedInOrder, [Next]_vars
  PROVE  Progressed'
<1> USE DEF Progressed
<1>0. /\ pc \in [Processes -> Steps] /\ at \in [Processes -> 1..(Count + 1)]
      /\ seen \in [Processes -> SUBSET Migrations]
  BY DEF Typed, TypeOK
<1>a. applied \subseteq applied' /\ indexes \subseteq indexes'
  BY Growth
<1>b. Count \in Nat
  BY MigrationLockAssumption
<1>1. CASE Tick
  BY <1>1 DEF Tick
<1>2. ASSUME NEW p \in Processes, Start(p) PROVE Progressed'
  BY <1>0, <1>2 DEF Start, Goto
<1>3. ASSUME NEW p \in Processes, ReadClock(p) PROVE Progressed'
  BY <1>0, <1>3 DEF ReadClock, Goto
<1>4. ASSUME NEW p \in Processes, Update(p) PROVE Progressed'
  BY <1>0, <1>4 DEF Update, Goto
<1>5. ASSUME NEW p \in Processes, Insert(p) PROVE Progressed'
  BY <1>0, <1>5 DEF Insert, Goto
<1>6. ASSUME NEW p \in Processes, ReadApplied(p) PROVE Progressed'
  BY <1>0, <1>6 DEF ReadApplied, Goto
<1>7. ASSUME NEW p \in Processes, Up(p) PROVE Progressed'
  <2>1. CASE at[p] > Count
    BY <1>0, <1>7, <2>1, <1>b DEF Up, Goto
  <2>2. CASE at[p] <= Count /\ Skip(p)
    <3>1. /\ at' = [at EXCEPT ![p] = @ + 1] /\ pc[p] = "up"
          /\ UNCHANGED <<pc, seen, applied, indexes>>
      BY <1>0, <1>7, <2>2, <1>b DEF Up
    <3>2. at[p] \in applied
      BY <2>2 DEF Skip
    <3>3. 1..(at[p] + 1 - 1) \subseteq applied
      BY <1>0, <1>b, <3>1, <3>2
    <3> QED BY <1>0, <1>b, <3>1, <3>3
  <2>3. CASE at[p] <= Count /\ ~Skip(p)
    BY <1>0, <1>7, <2>3, <1>b DEF Up, Goto
  <2> QED BY <1>0, <1>b, <2>1, <2>2, <2>3
<1>8. ASSUME NEW p \in Processes, MarkApplied(p) PROVE Progressed'
  <2>1. /\ at' = [at EXCEPT ![p] = @ + 1] /\ applied' = applied \union {at[p]}
        /\ pc[p] = "mark" /\ pc' = [pc EXCEPT ![p] = "up"]
        /\ UNCHANGED <<seen, indexes>>
    BY <1>8 DEF MarkApplied, Goto
  <2>2. 1..(at[p] + 1 - 1) \subseteq applied'
    BY <1>0, <1>b, <2>1
  <2> QED BY <1>0, <1>a, <1>b, <2>1, <2>2
<1>9. ASSUME NEW p \in Processes, ReleaseLock(p) PROVE Progressed'
  BY <1>0, <1>9 DEF ReleaseLock, Goto
<1>10. ASSUME NEW p \in Processes, Fail(p) PROVE Progressed'
  <2>1. /\ pc' = [pc EXCEPT ![p] = AfterFailure(p)]
        /\ UNCHANGED <<at, seen>>
    BY <1>10 DEF Fail, Goto
  <2>2. AfterFailure(p) \in {"release", "dead"}
    BY DEF AfterFailure
  <2> QED BY <1>0, <1>a, <2>1, <2>2
<1>11. ASSUME NEW p \in Processes, Crash(p) PROVE Progressed'
  BY <1>0, <1>11 DEF Crash, Goto
<1>12. ASSUME NEW p \in Processes, Restart(p) PROVE Progressed'
  BY <1>0, <1>12 DEF Restart, Goto
<1>13. CASE UNCHANGED vars
  BY <1>13 DEF vars
<1> QED
  BY <1>1, <1>2, <1>3, <1>4, <1>5, <1>6, <1>7, <1>8, <1>9, <1>10, <1>11, <1>12,
     <1>13 DEF Next

\* Whatever fails and wherever, a marker means that its migration and those
\* before it are in place; this does not need the lock.
THEOREM AppliesInOrder == Spec => []AppliedInOrder
<1>1. Init => Typed /\ Progressed /\ AppliedInOrder
  BY TypeInit DEF Init, Progressed, AppliedInOrder
<1>2. Typed /\ Progressed /\ AppliedInOrder /\ [Next]_vars
        => Typed' /\ Progressed' /\ AppliedInOrder'
  BY TypeStep, Growth, ProgressStep
<1> QED BY <1>1, <1>2, PTL DEF Spec
-----------------------------------------------------------------------------
(* Each migration once *)

\* Only a process that can still migrate writes a marker, that of the migration
\* it is at.
LEMMA Writer ==
  ASSUME [Next]_vars, applied' # applied
  PROVE  \E q \in Processes :
           /\ pc[q] = "mark" /\ Live(q)
           /\ applied' = applied \union {at[q]}
           /\ MarkApplied(q) \/ Fail(q)
<1>1. ASSUME NEW q \in Processes, MarkApplied(q) \/ Fail(q)
      PROVE  pc[q] = "mark" /\ Live(q) /\ applied' = applied \union {at[q]}
  BY <1>1 DEF MarkApplied, Fail
<1>2. ASSUME NEW q \in Processes,
             \/ Start(q) \/ ReadClock(q) \/ Update(q) \/ Insert(q)
             \/ ReadApplied(q) \/ Up(q)
             \/ ReleaseLock(q) \/ Crash(q) \/ Restart(q)
      PROVE  FALSE
  BY <1>2 DEF Start, ReadClock, Update, Insert, ReadApplied, Up, ReleaseLock,
     Crash, Restart
<1>3. CASE Tick \/ UNCHANGED vars
  BY <1>3 DEF Tick, vars
<1> QED BY <1>1, <1>2, <1>3 DEF Next

\* Every step keeps what a process that can still migrate has read up to date.
LEMMA InformedStep ==
  ASSUME Typed, OneMigrator, Informed, [Next]_vars
  PROVE  Informed'
<1> USE DEF Informed, Skip, Live
<1>0. /\ pc \in [Processes -> Steps] /\ at \in [Processes -> 1..(Count + 1)]
      /\ seen \in [Processes -> SUBSET Migrations]
      /\ deadline \in [Processes -> Nat] /\ clock \in Nat
      /\ applied \subseteq Migrations
  BY DEF Typed, TypeOK
<1>a. \A m \in Migrations : m \in Nat
  BY DEF Migrations
<1>b. Count \in Nat
  BY MigrationLockAssumption
<1>c. CASE applied' # applied
  <2>1. PICK q \in Processes :
          /\ pc[q] = "mark" /\ Live(q)
          /\ applied' = applied \union {at[q]}
          /\ MarkApplied(q) \/ Fail(q)
    BY <1>c, Writer
  <2>2. \A p \in Processes : pc[p] \in {"up", "mark"} /\ Live(p) => p = q
    BY <2>1 DEF OneMigrator, Migrating
  <2>3. CASE MarkApplied(q)
    <3>1. /\ at' = [at EXCEPT ![q] = @ + 1] /\ pc' = [pc EXCEPT ![q] = "up"]
          /\ UNCHANGED <<seen, clock, deadline>>
      BY <2>3 DEF MarkApplied, Goto
    <3>2. \A m \in applied' : m >= at[q] + 1 => m \in seen[q]
      BY <1>0, <1>a, <1>b, <2>1
    <3> QED BY <1>0, <2>1, <2>2, <3>1, <3>2
  <2>4. CASE Fail(q)
    <3>1. /\ pc' = [pc EXCEPT ![q] = AfterFailure(q)]
          /\ UNCHANGED <<at, seen, clock, deadline>>
      BY <2>4 DEF Fail, Goto
    <3>2. AfterFailure(q) \in {"release", "dead"}
      BY DEF AfterFailure
    <3> QED BY <1>0, <2>2, <3>1, <3>2
  <2> QED BY <2>1, <2>3, <2>4
<1>d. CASE applied' = applied
  <2> USE <1>d
  <2>1. CASE Tick
    BY <1>0, <2>1 DEF Tick
  <2>2. ASSUME NEW p \in Processes, Start(p) PROVE Informed'
    BY <1>0, <2>2 DEF Start, Goto
  <2>3. ASSUME NEW p \in Processes, ReadClock(p) PROVE Informed'
    BY <1>0, <2>3 DEF ReadClock, Goto
  <2>4. ASSUME NEW p \in Processes, Update(p) PROVE Informed'
    BY <1>0, <2>4 DEF Update, Goto
  <2>5. ASSUME NEW p \in Processes, Insert(p) PROVE Informed'
    BY <1>0, <2>5 DEF Insert, Goto
  <2>6. ASSUME NEW p \in Processes, ReadApplied(p) PROVE Informed'
    BY <1>0, <2>6 DEF ReadApplied, Goto
  <2>7. ASSUME NEW p \in Processes, Up(p) PROVE Informed'
    <3>1. CASE at[p] > Count
      BY <1>0, <1>b, <2>7, <3>1 DEF Up, Goto
    <3>2. CASE at[p] <= Count /\ Skip(p)
      <4>1. /\ at' = [at EXCEPT ![p] = @ + 1] /\ pc[p] = "up"
            /\ UNCHANGED <<pc, seen, applied, clock, deadline>>
        BY <1>0, <1>b, <2>7, <3>2 DEF Up
      <4>2. \A m \in applied : m >= at[p] + 1 => m >= at[p]
        BY <1>0, <1>a
      <4> QED BY <1>0, <4>1, <4>2
    <3>3. CASE at[p] <= Count /\ ~Skip(p)
      BY <1>0, <1>b, <2>7, <3>3 DEF Up, Goto
    <3> QED BY <1>0, <1>b, <3>1, <3>2, <3>3
  <2>8. ASSUME NEW p \in Processes, MarkApplied(p) PROVE Informed'
    BY <2>8 DEF MarkApplied
  <2>9. ASSUME NEW p \in Processes, ReleaseLock(p) PROVE Informed'
    BY <1>0, <2>9 DEF ReleaseLock, Goto
  <2>10. ASSUME NEW p \in Processes, Fail(p) PROVE Informed'
    <3>1. /\ pc' = [pc EXCEPT ![p] = AfterFailure(p)]
          /\ UNCHANGED <<at, seen, clock, deadline>>
      BY <2>10 DEF Fail, Goto
    <3>2. AfterFailure(p) \in {"release", "dead"}
      BY DEF AfterFailure
    <3> QED BY <1>0, <3>1, <3>2
  <2>11. ASSUME NEW p \in Processes, Crash(p) PROVE Informed'
    BY <1>0, <2>11 DEF Crash, Goto
  <2>12. ASSUME NEW p \in Processes, Restart(p) PROVE Informed'
    BY <1>0, <2>12 DEF Restart, Goto
  <2>13. CASE UNCHANGED vars
    BY <2>13 DEF vars
  <2> QED
    BY <2>1, <2>2, <2>3, <2>4, <2>5, <2>6, <2>7, <2>8, <2>9, <2>10, <2>11,
       <2>12, <2>13 DEF Next
<1> QED BY <1>c, <1>d

\* If the lock outlives the context, nobody who can still write a marker finds it
\* written: no migration is applied by two.
THEOREM MarksOnce ==
  ASSUME TTL >= Timeout
  PROVE  Spec => []MarkedOnce
<1>1. Init => Typed /\ Holding /\ Informed
  BY TypeInit DEF Init, Holding, Informed, Migrating
<1>2. Typed /\ Holding /\ Informed /\ [Next]_vars => Typed' /\ Holding' /\ Informed'
  BY TypeStep, HoldingStep, InformedStep, HoldersAreOne
<1>3. Typed /\ Informed => MarkedOnce
  <2>1. Typed => \A p \in Processes : at[p] >= at[p]
    BY MigrationLockAssumption DEF Typed, TypeOK
  <2> QED BY <2>1 DEF Informed, MarkedOnce, Skip
<1> QED BY <1>1, <1>2, <1>3, PTL DEF Spec

-----------------------------------------------------------------------------
(* Engines that serve without the migrations *)

\* Every step keeps an engine from giving the lock back too early, and the lock
\* behind which others went on without migrating.
LEMMA ServingStep ==
  ASSUME Typed, Progressed, AppliedInOrder, Finished, ServingExplained, [Next]_vars
  PROVE  Finished' /\ ServingExplained'
<1> USE MigrationLockAssumption DEF Finished, ServingExplained
<1>0. pc \in [Processes -> Steps]
  BY DEF Typed, TypeOK
<1>a. applied \subseteq applied'
  BY Growth
<1>b. \A p \in Processes : Locked(p) # NoLock
  BY MigrationLockAssumption DEF Typed, TypeOK, Locked
<1>1. CASE Tick \/ UNCHANGED vars
  BY <1>1 DEF Tick, vars
<1>2. ASSUME NEW p \in Processes, Start(p) PROVE Finished' /\ ServingExplained'
  BY <1>0, <1>2 DEF Start, Goto
<1>3. ASSUME NEW p \in Processes, ReadClock(p) PROVE Finished' /\ ServingExplained'
  BY <1>0, <1>3 DEF ReadClock, Goto
<1>4. ASSUME NEW p \in Processes, Update(p) PROVE Finished' /\ ServingExplained'
  BY <1>0, <1>b, <1>4 DEF Update, Goto
<1>5. ASSUME NEW p \in Processes, Insert(p) PROVE Finished' /\ ServingExplained'
  BY <1>0, <1>b, <1>5 DEF Insert, Goto
<1>6. ASSUME NEW p \in Processes, ReadApplied(p) PROVE Finished' /\ ServingExplained'
  BY <1>0, <1>6 DEF ReadApplied, Goto
<1>7. ASSUME NEW p \in Processes, Up(p) PROVE Finished' /\ ServingExplained'
  <2>1. at[p] > Count /\ pc[p] = "up" => Migrations \subseteq applied
    BY MigrationLockAssumption DEF Progressed, Typed, TypeOK, Migrations
  <2> QED BY <1>0, <1>7, <2>1 DEF Up, Goto
<1>8. ASSUME NEW p \in Processes, MarkApplied(p) PROVE Finished' /\ ServingExplained'
  BY <1>0, <1>a, <1>8 DEF MarkApplied, Goto
<1>9. ASSUME NEW p \in Processes, ReleaseLock(p) PROVE Finished' /\ ServingExplained'
  <2>1. Finished'
    BY <1>0, <1>9 DEF ReleaseLock, Goto
  <2>2. CASE Migrations \subseteq applied
    BY <1>a, <2>2
  <2>3. CASE ~(Migrations \subseteq applied)
    <3>1. p \notin Engines /\ p \in early'
      BY <1>9, <2>3 DEF ReleaseLock
    <3> QED BY <2>1, <3>1
  <2> QED BY <2>1, <2>2, <2>3
<1>10. ASSUME NEW p \in Processes, Fail(p) PROVE Finished' /\ ServingExplained'
  <2>1. pc' = [pc EXCEPT ![p] = AfterFailure(p)] /\ early' = early
    BY <1>10 DEF Fail, Goto
  <2>2. AfterFailure(p) # "serving" /\ (p \in Engines => AfterFailure(p) = "dead")
    BY DEF AfterFailure
  <2>3. lock' \in {lock, Locked(p)}
    BY <1>10 DEF Fail
  <2> QED BY <1>0, <1>a, <1>b, <2>1, <2>2, <2>3
<1>11. ASSUME NEW p \in Processes, Crash(p) PROVE Finished' /\ ServingExplained'
  BY <1>0, <1>11 DEF Crash, Goto
<1>12. ASSUME NEW p \in Processes, Restart(p) PROVE Finished' /\ ServingExplained'
  BY <1>0, <1>12 DEF Restart, Goto
<1> QED
  BY <1>1, <1>2, <1>3, <1>4, <1>5, <1>6, <1>7, <1>8, <1>9, <1>10, <1>11, <1>12
  DEF Next

\* An engine that serves without the migrations always has the lock of another,
\* at work or gone, or a migrate command that failed, as the reason.
THEOREM ServingIsExplained == Spec => []ServingExplained
<1>1. Init => Typed /\ Progressed /\ AppliedInOrder /\ Finished /\ ServingExplained
  BY TypeInit, MigrationLockAssumption
  DEF Init, Progressed, AppliedInOrder, Finished, ServingExplained
<1>2. /\ Typed /\ Progressed /\ AppliedInOrder /\ Finished /\ ServingExplained
      /\ [Next]_vars
      => Typed' /\ Progressed' /\ AppliedInOrder' /\ Finished' /\ ServingExplained'
  <2> SUFFICES ASSUME Typed, Progressed, AppliedInOrder, Finished, ServingExplained,
                      [Next]_vars
               PROVE  /\ Typed' /\ Progressed' /\ AppliedInOrder'
                      /\ Finished' /\ ServingExplained'
    OBVIOUS
  <2>1. Typed'
    BY TypeStep
  <2>2. Progressed' /\ AppliedInOrder'
    BY Growth, ProgressStep
  <2>3. Finished' /\ ServingExplained'
    BY ServingStep
  <2> QED BY <2>1, <2>2, <2>3
<1> QED BY <1>1, <1>2, PTL DEF Spec
=============================================================================
