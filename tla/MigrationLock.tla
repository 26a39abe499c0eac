--------------------------- MODULE MigrationLock ---------------------------
(***************************************************************************)
(* The migrations of the rule_engine database.  Each process that starts   *)
(* (the engine, or the migrate command) tries to take a lock, a document   *)
(* with an expiry, applies the migrations that have no marker and gives the *)
(* lock back; one that finds the lock taken goes on without migrating.  The *)
(* calls of a process fail once the deadline of its context has passed.    *)
(*                                                                         *)
(* The owner a process writes into the lock is its host and pid: a process *)
(* that is started again in its container has the same.  The clocks of the *)
(* hosts agree.                                                            *)
(***************************************************************************)
EXTENDS Integers

CONSTANTS
  Processes,  \* the containers that run the engine or the migrate command
  Engines,    \* those that run the engine
  Count,      \* how many migrations there are
  TTL,        \* MONGO_MIGRATE_LOCK_TTL
  Timeout,    \* MONGO_CONNECT_TIMEOUT, the deadline of the context
  Faults,     \* "mongo": calls fail; "crash": processes are killed
  NoLock,     \* there is no lock document
  MaxClock    \* bound on the clock

ASSUME MigrationLockAssumption ==
  /\ Engines \subseteq Processes
  /\ Count \in Nat
  /\ TTL \in Nat
  /\ Timeout \in Nat
  /\ Faults \subseteq {"mongo", "crash"}
  /\ NoLock \notin [owner : Processes, until : Nat]
  /\ MaxClock \in Nat

VARIABLES
  clock,     \* the time
  lock,      \* the lock document: its owner and locked_until
  applied,   \* the migrations with a marker
  indexes,   \* the migrations whose indexes exist
  pc,        \* pc[p]: the next call of p
  deadline,  \* deadline[p]: the deadline of its context
  now,       \* now[p]: the time AcquireLock read
  seen,      \* seen[p]: the markers p has read
  at,        \* at[p]: the migration at which p is in its loop
  early      \* history: who gave the lock back with migrations missing

vars == <<clock, lock, applied, indexes, pc, deadline, now, seen, at, early>>

Migrations == 1..Count

\* Between AcquireLock and ReleaseLock.
Migrating == {"read", "up", "mark"}
Steps == Migrating \union
  {"new", "clock", "update", "insert", "release", "serving", "dead"}
-----------------------------------------------------------------------------
(* Helpers *)

\* The context of p is still good.
Live(p) == clock <= deadline[p]

Goto(p, step) == pc' = [pc EXCEPT ![p] = step]

\* MUTANT of Locked: the lock is to last for TTL after the deadline.
LockedLonger(p) == [owner |-> p, until |-> deadline[p] + TTL]

Locked(p) == [owner |-> p, until |-> now[p] + TTL]

\* MUTANT of Expired: the expiry of the lock is not looked at.
ExpiredIgnored(p) == lock # NoLock

\* The filter of FindOneAndUpdate matches.
Expired(p) == lock # NoLock /\ lock.until < now[p]

\* MUTANT of Mine: the lock is deleted by its _id only.
MineIgnored(p) == lock # NoLock

\* The filter of ReleaseLock matches.
Mine(p) == lock # NoLock /\ lock.owner = p

\* MUTANT of Skip: the markers are not looked at.
SkipNever(p) == FALSE

\* p has read the marker of the migration it is at.
Skip(p) == at[p] \in seen[p]
-----------------------------------------------------------------------------
Init ==
  /\ clock    = 0
  /\ lock     = NoLock
  /\ applied  = {}
  /\ indexes  = {}
  /\ pc       = [p \in Processes |-> "new"]
  /\ deadline = [p \in Processes |-> 0]
  /\ now      = [p \in Processes |-> 0]
  /\ seen     = [p \in Processes |-> {}]
  /\ at       = [p \in Processes |-> 1]
  /\ early    = {}

Tick ==
  /\ clock < MaxClock
  /\ clock' = clock + 1
  /\ UNCHANGED <<lock, applied, indexes, pc, deadline, now, seen, at, early>>

\* The context is made; the migrate command connects before it takes the lock.
Start(p) ==
  /\ pc[p] = "new"
  /\ deadline' = [deadline EXCEPT ![p] = clock + Timeout]
  /\ Goto(p, "clock")
  /\ UNCHANGED <<clock, lock, applied, indexes, now, seen, at, early>>

ReadClock(p) ==
  /\ pc[p] = "clock"
  /\ now' = [now EXCEPT ![p] = clock]
  /\ Goto(p, "update")
  /\ UNCHANGED <<clock, lock, applied, indexes, deadline, seen, at, early>>

\* AcquireLock: a lock that has expired is taken over.
Update(p) ==
  /\ pc[p] = "update"
  /\ Live(p)
  /\ IF Expired(p)
     THEN lock' = Locked(p) /\ Goto(p, "read")
     ELSE UNCHANGED lock /\ Goto(p, "insert")
  /\ UNCHANGED <<clock, applied, indexes, deadline, now, seen, at, early>>

\* AcquireLock: otherwise it is inserted, unless there is one.  Who finds it held
\* goes on without migrating.
Insert(p) ==
  /\ pc[p] = "insert"
  /\ Live(p)
  /\ IF lock = NoLock
     THEN lock' = Locked(p) /\ Goto(p, "read")
     ELSE UNCHANGED lock /\ Goto(p, "serving")
  /\ UNCHANGED <<clock, applied, indexes, deadline, now, seen, at, early>>

ReadApplied(p) ==
  /\ pc[p] = "read"
  /\ Live(p)
  /\ seen' = [seen EXCEPT ![p] = applied]
  /\ at' = [at EXCEPT ![p] = 1]
  /\ Goto(p, "up")
  /\ UNCHANGED <<clock, lock, applied, indexes, deadline, now, early>>

\* One turn of the loop: over, a marker that was read, or the indexes.
Up(p) ==
  /\ pc[p] = "up"
  /\ \/ /\ at[p] > Count
        /\ Goto(p, "release")
        /\ UNCHANGED <<indexes, at>>
     \/ /\ at[p] <= Count
        /\ Skip(p)
        /\ at' = [at EXCEPT ![p] = @ + 1]
        /\ UNCHANGED <<indexes, pc>>
     \/ /\ at[p] <= Count
        /\ ~Skip(p)
        /\ Live(p)
        /\ indexes' = indexes \union {at[p]}
        /\ Goto(p, "mark")
        /\ UNCHANGED at
  /\ UNCHANGED <<clock, lock, applied, deadline, now, seen, early>>

\* The marker is a document whose _id is that of the migration: a second one is
\* refused (see Fail).
MarkApplied(p) ==
  /\ pc[p] = "mark"
  /\ Live(p)
  /\ at[p] \notin applied
  /\ applied' = applied \union {at[p]}
  /\ at' = [at EXCEPT ![p] = @ + 1]
  /\ Goto(p, "up")
  /\ UNCHANGED <<clock, lock, indexes, deadline, now, seen, early>>

\* ReleaseLock has a context of its own, and its error is ignored.
ReleaseLock(p) ==
  /\ pc[p] = "release"
  /\ \/ lock' = IF Mine(p) THEN NoLock ELSE lock
     \/ "mongo" \in Faults /\ UNCHANGED lock
  /\ early' = IF Migrations \subseteq applied THEN early ELSE early \union {p}
  /\ Goto(p, "serving")
  /\ UNCHANGED <<clock, applied, indexes, deadline, now, seen, at>>

\* p has a call to make under its context.
Calling(p) ==
  \/ pc[p] \in {"update", "insert", "read", "mark"}
  \/ pc[p] = "up" /\ at[p] <= Count /\ ~Skip(p)

\* A call fails, and may have taken effect: Mongo refuses it or does not answer.
MayFail(p) ==
  \/ "mongo" \in Faults \/ ~Live(p)
  \/ pc[p] = "mark" /\ at[p] \in applied

\* MUTANT of AfterFailure: the engine gives the lock back too, and goes on.
AfterFailureReleases(p) == IF pc[p] \in Migrating THEN "release" ELSE "dead"

\* MUTANT of AfterFailure: the error of Up is dropped.
AfterFailureMarks(p) ==
  IF pc[p] = "up" THEN "mark"
  ELSE IF p \notin Engines /\ pc[p] \in Migrating THEN "release" ELSE "dead"

\* The engine dies of an error and leaves the lock; the migrate command dies of
\* one while it takes the lock, and gives it back afterwards.
AfterFailure(p) ==
  IF p \notin Engines /\ pc[p] \in Migrating THEN "release" ELSE "dead"

Fail(p) ==
  /\ Calling(p)
  /\ MayFail(p)
  /\ \/ UNCHANGED <<lock, applied, indexes>>
     \/ /\ "mongo" \in Faults /\ Live(p)
        /\ \/ /\ \/ pc[p] = "update" /\ Expired(p)
                 \/ pc[p] = "insert" /\ lock = NoLock
              /\ lock' = Locked(p)
              /\ UNCHANGED <<applied, indexes>>
           \/ /\ pc[p] = "up"
              /\ indexes' = indexes \union {at[p]}
              /\ UNCHANGED <<lock, applied>>
           \/ /\ pc[p] = "mark"
              /\ applied' = applied \union {at[p]}
              /\ UNCHANGED <<lock, indexes>>
  /\ Goto(p, AfterFailure(p))
  /\ UNCHANGED <<clock, deadline, now, seen, at, early>>

Crash(p) ==
  /\ "crash" \in Faults
  /\ pc[p] # "dead"
  /\ Goto(p, "dead")
  /\ UNCHANGED <<clock, lock, applied, indexes, deadline, now, seen, at, early>>

\* The container is started again, with nothing of the old process.
Restart(p) ==
  /\ pc[p] = "dead"
  /\ deadline' = [deadline EXCEPT ![p] = 0]
  /\ now'      = [now EXCEPT ![p] = 0]
  /\ seen'     = [seen EXCEPT ![p] = {}]
  /\ at'       = [at EXCEPT ![p] = 1]
  /\ Goto(p, "new")
  /\ UNCHANGED <<clock, lock, applied, indexes, early>>

Next ==
  \/ Tick
  \/ \E p \in Processes :
       \/ Start(p) \/ ReadClock(p) \/ Update(p) \/ Insert(p) \/ ReadApplied(p)
       \/ Up(p) \/ MarkApplied(p) \/ ReleaseLock(p) \/ Fail(p)
       \/ Crash(p) \/ Restart(p)

Spec == Init /\ [][Next]_vars
-----------------------------------------------------------------------------
(* Properties *)

\* The type invariant: among the rest, a lock never lasts for more than TTL.
TypeOK ==
  /\ clock    \in Nat
  /\ lock     \in [owner : Processes, until : 0..(clock + TTL)] \union {NoLock}
  /\ applied  \subseteq Migrations
  /\ indexes  \subseteq Migrations
  /\ pc       \in [Processes -> Steps]
  /\ deadline \in [Processes -> Nat]
  /\ now      \in [Processes -> Nat]
  /\ seen     \in [Processes -> SUBSET Migrations]
  /\ at       \in [Processes -> 1..(Count + 1)]
  /\ early    \subseteq Processes

\* Two processes never apply migrations at the same time: of those between
\* AcquireLock and ReleaseLock, at most one has calls that can still succeed.
OneMigrator ==
  \A p, q \in Processes :
    pc[p] \in Migrating /\ Live(p) /\ pc[q] \in Migrating /\ Live(q) => p = q

\* A marker is never written for a migration that is not in place, nor before
\* those of earlier migrations, wherever a process failed.
AppliedInOrder ==
  \A m \in applied : m \in indexes /\ 1..(m - 1) \subseteq applied

\* No process finds the marker it is about to write: migrations are applied once.
MarkedOnce ==
  \A p \in Processes : pc[p] = "mark" /\ Live(p) => at[p] \notin applied

\* An engine that serves without the migrations does so behind a lock, that of a
\* process still at work or of one that failed and left it, or after a migrate
\* command that failed.
ServingExplained ==
  \A p \in Engines :
    pc[p] = "serving" /\ ~(Migrations \subseteq applied) =>
      lock # NoLock \/ ~(early \subseteq Engines)
=============================================================================
