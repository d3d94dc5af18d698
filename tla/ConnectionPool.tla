--------------------------- MODULE ConnectionPool ---------------------------
(***************************************************************************)
(* The pool of database connections: Pool::get_timeout and the drop of a   *)
(* PooledResource.  Everything but the wait happens under the mutex of the *)
(* queue, so a call that does not wait is one step.                        *)
(*                                                                         *)
(* A connection is told apart by whether it is stale.  The drivers differ: *)
(* opening a SQLite file may fail, and its connections never go stale; a   *)
(* PostgreSQL connection is created at once, connects in a task of its     *)
(* own, and goes stale when the server closes it.                          *)
(***************************************************************************)
EXTENDS Naturals, Sequences, FiniteSets

CONSTANTS
    Tasks,   \* who uses the database
    MaxSize  \* max_size: 20, or 1 for a database in memory

ASSUME PoolAssumption == IsFiniteSet(Tasks) /\ MaxSize \in Nat \ {0}

VARIABLES
    driver,  \* "sqlite" or "postgres"
    queue,   \* the idle connections, by whether they are stale; the last is
             \* taken first
    in_use,
    task,    \* what each task does with the pool
    stale    \* is the connection that the task holds stale?

poolVars == <<driver, queue, in_use, task, stale>>

PoolInit ==
    /\ driver \in {"sqlite", "postgres"}
    /\ queue = <<>>
    /\ in_use = 0
    /\ task = [t \in Tasks |-> "idle"]
    /\ stale = [t \in Tasks |-> FALSE]

In(state) == {t \in Tasks : task[t] = state}

Becomes(t, state) == task' = [task EXCEPT ![t] = state]

(* The connections that are not stale.                                     *)
Good == {i \in DOMAIN queue : ~queue[i]}

(***************************************************************************)
(* get_timeout, from its call or from the end of a wait up to its return   *)
(* or the next wait.                                                       *)
(***************************************************************************)
(* Stale connections are popped until there is a good one.                 *)
TakeFromQueue(t) ==
    /\ \E i \in Good :
          /\ \A j \in Good : j =< i
          /\ queue' = SubSeq(queue, 1, i - 1)
    /\ in_use' = in_use + 1
    /\ Becomes(t, "holding")
    /\ stale' = [stale EXCEPT ![t] = FALSE]

(* Without one a new connection is created, if there is room.              *)
CreateResource(t) ==
    /\ Good = {} /\ in_use < MaxSize
    /\ queue' = <<>>
    /\ in_use' = in_use + 1
    /\ Becomes(t, "holding")
    /\ stale' = [stale EXCEPT ![t] = FALSE]

(* The count is taken back, and nobody is notified.                        *)
CreationFails(t) ==
    /\ driver = "sqlite"
    /\ Good = {} /\ in_use < MaxSize
    /\ queue' = <<>>
    /\ Becomes(t, "idle")
    /\ UNCHANGED <<in_use, stale>>

Wait(t) ==
    /\ Good = {} /\ in_use >= MaxSize
    /\ queue' = <<>>
    /\ Becomes(t, "waiting")
    /\ UNCHANGED <<in_use, stale>>

GetTimeout(t) ==
    /\ task[t] \in {"idle", "woken"}
    /\ TakeFromQueue(t) \/ CreateResource(t) \/ CreationFails(t) \/ Wait(t)
    /\ UNCHANGED driver

(* The wait ends with an error, or without cause.                          *)
WaitEnds(t) ==
    /\ task[t] = "waiting"
    /\ \E state \in {"idle", "woken"} : Becomes(t, state)
    /\ UNCHANGED <<driver, queue, in_use, stale>>

(* Mutant: nobody is notified.                                             *)
DropResourceMutant(t) ==
    /\ task[t] = "holding"
    /\ queue' = Append(queue, stale[t])
    /\ in_use' = in_use - 1
    /\ Becomes(t, "idle")
    /\ UNCHANGED <<driver, stale>>

(* Drop of a PooledResource, stale or not: notify_one wakes a task that    *)
(* waits.                                                                  *)
DropResource(t) ==
    /\ task[t] = "holding"
    /\ queue' = Append(queue, stale[t])
    /\ in_use' = in_use - 1
    /\ \/ In("waiting") = {} /\ Becomes(t, "idle")
       \/ \E w \in In("waiting") : task' = [task EXCEPT ![t] = "idle", ![w] = "woken"]
    /\ UNCHANGED <<driver, stale>>

(* The server closes a connection: one that is held, or an idle one.       *)
Disconnect ==
    /\ driver = "postgres"
    /\ \/ \E t \in In("holding") : stale' = [stale EXCEPT ![t] = TRUE] /\ UNCHANGED queue
       \/ \E i \in Good : queue' = [queue EXCEPT ![i] = TRUE] /\ UNCHANGED stale
    /\ UNCHANGED <<driver, in_use, task>>

PoolNext ==
    \/ \E t \in Tasks : GetTimeout(t) \/ WaitEnds(t) \/ DropResource(t)
    \/ Disconnect

PoolSpec == PoolInit /\ [][PoolNext]_poolVars

(* The pool keeps its bound and forgets nobody.  No more than max_size     *)
(* connections are open, and in_use counts those that are held: "creating  *)
(* additional connections beyond max_size" (pool.rs:215) would give a      *)
(* database in memory two contents.  And a task sleeps only if every       *)
(* connection that it could have is held, or is left to a task that has    *)
(* been woken: no wake-up is lost, though the one woken may find that      *)
(* another was faster, that the connection is stale, or no way to connect. *)
PoolIsSound ==
    /\ in_use = Cardinality(In("holding"))
    /\ Len(queue) + in_use =< MaxSize
    /\ In("waiting") # {} => MaxSize - in_use =< Cardinality(In("woken"))
=============================================================================
