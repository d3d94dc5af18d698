------------------------ MODULE ConnectionPoolProofs ------------------------
(***************************************************************************)
(* The pool is sound for any number of tasks and any size.                 *)
(*                                                                         *)
(* PoolIsSound is not inductive: a task that was woken and then fails to   *)
(* create a connection uses up a wake-up.  With SQLite, where creation may *)
(* fail, nobody sleeps while there is room for a new connection, since     *)
(* every free place is taken by an idle connection that is good            *)
(* (NoRoomForNew).  With PostgreSQL creation does not fail.                *)
(***************************************************************************)
EXTENDS ConnectionPool, FiniteSetTheorems, TLAPS

TaskStates == {"idle", "waiting", "woken", "holding"}

PoolTypeOK ==
    /\ driver \in {"sqlite", "postgres"}
    /\ queue \in Seq(BOOLEAN)
    /\ in_use \in Nat
    /\ task \in [Tasks -> TaskStates]
    /\ stale \in [Tasks -> BOOLEAN]

NeverStale ==
    driver = "sqlite" => /\ \A i \in DOMAIN queue : queue[i] = FALSE
                         /\ \A t \in Tasks : stale[t] = FALSE

NoRoomForNew ==
    driver = "sqlite" /\ In("waiting") # {} => MaxSize - in_use =< Len(queue)

PoolInv == PoolTypeOK /\ NeverStale /\ NoRoomForNew /\ PoolIsSound

(* The tasks in one state are finitely many.                               *)
LEMMA Counted ==
    ASSUME NEW state
    PROVE  /\ IsFiniteSet(In(state)) /\ Cardinality(In(state)) \in Nat
           /\ IsFiniteSet(In(state)') /\ Cardinality(In(state)') \in Nat
<1>1. In(state) \subseteq Tasks /\ In(state)' \subseteq Tasks
  BY Zenon DEF In
<1>. QED  BY <1>1, PoolAssumption, FS_Subset, FS_CardinalityType, Zenon

(* The invariant holds at first.                                           *)
LEMMA PoolInitInv == PoolInit => PoolInv
<1> SUFFICES ASSUME PoolInit PROVE PoolInv
  BY Zenon
<1>1. PoolTypeOK /\ NeverStale
  BY DEF PoolInit, PoolTypeOK, NeverStale, TaskStates
<1>2. In("waiting") = {} /\ In("holding") = {}
  BY Zenon DEF PoolInit, In
<1>3. Cardinality(In("holding")) = 0 /\ Len(queue) = 0 /\ in_use = 0
  BY <1>2, FS_EmptySet, Zenon DEF PoolInit
<1>4. PoolIsSound
  BY <1>2, <1>3, PoolAssumption DEF PoolIsSound
<1>. QED  BY <1>1, <1>2, <1>4, Zenon DEF PoolInv, NoRoomForNew

(* A step of get_timeout keeps it.                                         *)
LEMMA GetTimeoutInv ==
    ASSUME PoolInv, NEW t \in Tasks, GetTimeout(t)
    PROVE  PoolInv'
<1> DEFINE H == Cardinality(In("holding"))
           K == Cardinality(In("woken"))
<1>2. H \in Nat /\ K \in Nat
  BY Counted, Zenon
<1>3. task[t] # "holding" /\ task[t] # "waiting" /\ task[t] \in TaskStates
  BY Zenon DEF GetTimeout, PoolInv, PoolTypeOK
<1>4. CASE TakeFromQueue(t) \/ CreateResource(t)
  <2>1. task' = [task EXCEPT ![t] = "holding"] /\ in_use' = in_use + 1
        /\ stale' = [stale EXCEPT ![t] = FALSE] /\ driver' = driver
    BY <1>4, Zenon DEF TakeFromQueue, CreateResource, Becomes, GetTimeout
  <2>2. In("holding")' # {} /\ In("waiting")' = In("waiting")
    BY <1>3, <2>1, Zenon DEF In, PoolInv, PoolTypeOK, TaskStates
  <2>3. H' = H + 1 /\ K' = IF task[t] = "woken" THEN K - 1 ELSE K
    <3>1. In("holding")' = In("holding") \cup {t} /\ t \notin In("holding")
      BY <1>3, <2>1, Zenon DEF In, PoolInv, PoolTypeOK
    <3>2. In("woken")' = In("woken") \ {t} /\ (t \in In("woken") <=> task[t] = "woken")
      BY <1>3, <2>1, Zenon DEF In, PoolInv, PoolTypeOK
    <3>3. H' = H + 1
      BY <3>1, Counted, FS_AddElement, Zenon
    <3>4. K' = IF t \in In("woken") THEN K - 1 ELSE K
      BY <3>2, Counted, FS_RemoveElement, Zenon
    <3>. QED  BY <3>2, <3>3, <3>4, Zenon
  <2>4. queue' \in Seq(BOOLEAN) /\ (driver = "sqlite" => \A i \in DOMAIN queue' : queue'[i] = FALSE)
    <3>1. CASE TakeFromQueue(t)
      BY <3>1 DEF TakeFromQueue, Good, PoolInv, PoolTypeOK, NeverStale
    <3>2. CASE CreateResource(t)
      BY <3>2 DEF CreateResource
    <3>. QED  BY <1>4, <3>1, <3>2, Zenon
  <2>5. Len(queue') + in_use' =< MaxSize
        /\ (driver = "sqlite" /\ In("waiting") # {} => MaxSize - in_use' =< Len(queue'))
    <3>1. CASE TakeFromQueue(t)
      <4>1. PICK i \in Good : (\A j \in Good : j =< i) /\ queue' = SubSeq(queue, 1, i - 1)
        BY <3>1, Zenon DEF TakeFromQueue
      <4>2. i \in 1 .. Len(queue) /\ Len(queue') = i - 1
        BY <4>1 DEF Good, PoolInv, PoolTypeOK
      <4>3. driver = "sqlite" => i = Len(queue)
        BY <4>1, <4>2 DEF Good, PoolInv, PoolTypeOK, NeverStale
      <4>. QED  BY <2>1, <4>2, <4>3, PoolAssumption DEF PoolInv, PoolTypeOK, PoolIsSound, NoRoomForNew
    <3>2. CASE CreateResource(t)
      <4>1. Len(queue') = 0 /\ in_use < MaxSize
        BY <3>2, Zenon DEF CreateResource
      <4>2. driver = "sqlite" => Len(queue) = 0
        BY <3>2 DEF CreateResource, Good, PoolInv, PoolTypeOK, NeverStale
      <4>. QED  BY <2>1, <4>1, <4>2, PoolAssumption DEF PoolInv, PoolTypeOK, NoRoomForNew
    <3>. QED  BY <1>4, <3>1, <3>2, Zenon
  <2>6. PoolIsSound'
    <3>1. in_use = H /\ (In("waiting") # {} => MaxSize - in_use =< K)
      BY Zenon DEF PoolInv, PoolIsSound
    <3>2. MaxSize \in Nat /\ in_use \in Nat
      BY PoolAssumption, Zenon DEF PoolInv, PoolTypeOK
    <3>3. in_use' = H'
      BY <2>1, <2>3, <3>1, Zenon
    <3>4. In("waiting")' # {} => MaxSize - in_use' =< K'
      <4> SUFFICES ASSUME In("waiting")' # {} PROVE MaxSize - in_use' =< K'
        BY Zenon
      <4>1. MaxSize - in_use =< K /\ (K' = K \/ K' = K - 1) /\ in_use' = in_use + 1
        BY <2>1, <2>2, <2>3, <3>1, Zenon
      <4> HIDE DEF H, K
      <4>. QED  BY <1>2, <3>2, <4>1
    <3>. QED  BY <2>5, <3>3, <3>4, Zenon DEF PoolIsSound
  <2>7. PoolTypeOK' /\ NeverStale'
    BY <2>1, <2>4 DEF PoolInv, PoolTypeOK, NeverStale, TaskStates
  <2>. QED  BY <2>1, <2>2, <2>5, <2>6, <2>7, Zenon DEF PoolInv, NoRoomForNew
<1>5. CASE CreationFails(t)
  <2>1. task' = [task EXCEPT ![t] = "idle"] /\ UNCHANGED <<driver, in_use, stale>> /\ queue' = <<>>
        /\ driver = "sqlite" /\ in_use < MaxSize
    BY <1>5, Zenon DEF CreationFails, Becomes, GetTimeout
  <2>2. Len(queue) = 0
    BY <1>5 DEF CreationFails, Good, PoolInv, PoolTypeOK, NeverStale
  <2>3. In("waiting") = {}
    BY <2>1, <2>2, PoolAssumption DEF PoolInv, PoolTypeOK, NoRoomForNew
  <2>4. In("waiting")' = {} /\ In("holding")' = In("holding")
    BY <1>3, <2>1, <2>3, Zenon DEF In, PoolInv, PoolTypeOK, TaskStates
  <2>5. PoolTypeOK' /\ NeverStale'
    BY <2>1 DEF PoolInv, PoolTypeOK, NeverStale, TaskStates
  <2>6. PoolIsSound'
    BY <2>1, <2>4, PoolAssumption DEF PoolIsSound, PoolInv, PoolTypeOK
  <2>. QED  BY <2>4, <2>5, <2>6, Zenon DEF PoolInv, NoRoomForNew
<1>6. CASE Wait(t)
  <2>1. task' = [task EXCEPT ![t] = "waiting"] /\ UNCHANGED <<driver, in_use, stale>> /\ queue' = <<>>
        /\ in_use >= MaxSize
    BY <1>6, Zenon DEF Wait, Becomes, GetTimeout
  <2>2. In("holding")' = In("holding")
    BY <1>3, <2>1, Zenon DEF In, PoolInv, PoolTypeOK, TaskStates
  <2>3. in_use = MaxSize /\ Len(queue') = 0
    BY <2>1, PoolAssumption DEF PoolInv, PoolTypeOK, PoolIsSound
  <2>4. PoolTypeOK' /\ NeverStale'
    BY <2>1 DEF PoolInv, PoolTypeOK, NeverStale, TaskStates
  <2>5. K' \in Nat
    BY Counted, Zenon
  <2>6. PoolIsSound' /\ NoRoomForNew'
    BY <2>1, <2>2, <2>3, <2>5, PoolAssumption DEF PoolIsSound, PoolInv, PoolTypeOK, NoRoomForNew
  <2>. QED  BY <2>4, <2>6, Zenon DEF PoolInv
<1>. QED  BY <1>4, <1>5, <1>6, Zenon DEF GetTimeout

(* The end of a wait keeps it.                                             *)
LEMMA WaitEndsInv ==
    ASSUME PoolInv, NEW t \in Tasks, WaitEnds(t)
    PROVE  PoolInv'
<1> DEFINE K == Cardinality(In("woken"))
<1>1. PICK to \in {"idle", "woken"} :
          task' = [task EXCEPT ![t] = to] /\ UNCHANGED <<driver, queue, in_use, stale>>
  BY Zenon DEF WaitEnds, Becomes
<1>2. task[t] = "waiting" /\ In("holding")' = In("holding") /\ In("waiting")' \subseteq In("waiting")
  BY <1>1, Zenon DEF WaitEnds, In, PoolInv, PoolTypeOK, TaskStates
<1>4. K \in Nat /\ K' \in Nat /\ K' >= K
  <2>1. In("woken") \subseteq In("woken")'
    BY <1>1, <1>2, Zenon DEF In, PoolInv, PoolTypeOK
  <2>. QED  BY <2>1, Counted, FS_Subset, Zenon
<1>5. PoolTypeOK' /\ NeverStale' /\ NoRoomForNew'
  BY <1>1, <1>2, Zenon DEF PoolInv, PoolTypeOK, NeverStale, NoRoomForNew, TaskStates
<1>6. PoolIsSound'
  BY <1>1, <1>2, <1>4, PoolAssumption DEF PoolInv, PoolTypeOK, PoolIsSound
<1>. QED  BY <1>5, <1>6, Zenon DEF PoolInv

(* The return of a connection keeps it: the free place is matched by a     *)
(* task that is woken, or nobody waits.                                    *)
LEMMA DropResourceInv ==
    ASSUME PoolInv, NEW t \in Tasks, DropResource(t)
    PROVE  PoolInv'
<1> DEFINE H == Cardinality(In("holding"))
           K == Cardinality(In("woken"))
<1>2. H \in Nat /\ K \in Nat
  BY Counted, Zenon
<1>3. task[t] = "holding" /\ queue' = Append(queue, stale[t]) /\ in_use' = in_use - 1
      /\ UNCHANGED <<driver, stale>>
  BY Zenon DEF DropResource
<1>4. In("holding")' = In("holding") \ {t} /\ t \in In("holding")
  BY <1>3, Zenon DEF DropResource, Becomes, In, PoolInv, PoolTypeOK, TaskStates
<1>5. H' = H - 1 /\ H' \in Nat /\ in_use' \in Nat
  <2>1. H' = H - 1 /\ H' \in Nat
    BY <1>4, Counted, FS_RemoveElement, Zenon
  <2>. QED  BY <1>3, <2>1, Zenon DEF PoolInv, PoolIsSound
<1>6. queue' \in Seq(BOOLEAN) /\ Len(queue') = Len(queue) + 1 /\ NeverStale'
  <2>1. queue' \in Seq(BOOLEAN) /\ Len(queue') = Len(queue) + 1 /\ DOMAIN queue' = 1 .. Len(queue) + 1
        /\ queue'[Len(queue) + 1] = stale[t] /\ \A i \in 1 .. Len(queue) : queue'[i] = queue[i]
    BY <1>3 DEF PoolInv, PoolTypeOK
  <2>2. DOMAIN queue = 1 .. Len(queue) /\ Len(queue) \in Nat
    BY DEF PoolInv, PoolTypeOK
  <2>3. NeverStale'
    BY <1>3, <2>1, <2>2 DEF PoolInv, NeverStale
  <2>. QED  BY <2>1, <2>3, Zenon
<1>7. in_use' = H' /\ Len(queue') + in_use' =< MaxSize
      /\ MaxSize \in Nat /\ in_use \in Nat /\ Len(queue) \in Nat
  <2>1. in_use = H /\ Len(queue) + in_use =< MaxSize
    BY Zenon DEF PoolInv, PoolIsSound
  <2>2. MaxSize \in Nat /\ in_use \in Nat /\ Len(queue) \in Nat
    BY PoolAssumption DEF PoolInv, PoolTypeOK
  <2> HIDE DEF H
  <2>. QED  BY <1>3, <1>5, <1>6, <2>1, <2>2
<1>8. CASE In("waiting") = {} /\ Becomes(t, "idle")
  <2>1. In("waiting")' = {}
    BY <1>3, <1>8, Zenon DEF Becomes, In, PoolInv, PoolTypeOK, TaskStates
  <2>2. PoolTypeOK'
    BY <1>3, <1>5, <1>6, <1>8, Zenon DEF Becomes, PoolInv, PoolTypeOK, TaskStates
  <2>. QED  BY <1>6, <1>7, <2>1, <2>2, Zenon DEF PoolInv, PoolIsSound, NoRoomForNew
<1>9. ASSUME NEW w \in In("waiting"), task' = [task EXCEPT ![t] = "idle", ![w] = "woken"]
      PROVE  PoolInv'
  <2>1. In("woken")' = In("woken") \cup {w} /\ w \notin In("woken")
    BY <1>3, <1>9, Zenon DEF In, PoolInv, PoolTypeOK, TaskStates
  <2>2. K' = K + 1
    BY <2>1, Counted, FS_AddElement, Zenon
  <2>3. PoolTypeOK'
    BY <1>3, <1>5, <1>6, <1>9, Zenon DEF In, PoolInv, PoolTypeOK, TaskStates
  <2>4. MaxSize - in_use =< K /\ (driver = "sqlite" => MaxSize - in_use =< Len(queue))
    BY <1>9, Zenon DEF PoolInv, PoolIsSound, NoRoomForNew
  <2>5. MaxSize - in_use' =< K' /\ (driver = "sqlite" => MaxSize - in_use' =< Len(queue'))
    <3> HIDE DEF K
    <3>. QED  BY <1>2, <1>3, <1>6, <1>7, <2>2, <2>4
  <2>. QED  BY <1>3, <1>6, <1>7, <2>3, <2>5, Zenon DEF PoolInv, PoolIsSound, NoRoomForNew
<1>. QED  BY <1>8, <1>9, Zenon DEF DropResource

(* A disconnection keeps it: no count changes.                             *)
LEMMA DisconnectInv ==
    ASSUME PoolInv, Disconnect
    PROVE  PoolInv'
<1>1. driver = "postgres" /\ UNCHANGED <<driver, in_use, task>>
  BY Zenon DEF Disconnect
<1>2. queue' \in Seq(BOOLEAN) /\ Len(queue') = Len(queue) /\ stale' \in [Tasks -> BOOLEAN]
  <2>1. CASE \E t \in In("holding") : stale' = [stale EXCEPT ![t] = TRUE] /\ UNCHANGED queue
    BY <2>1, Zenon DEF PoolInv, PoolTypeOK
  <2>2. CASE \E i \in Good : queue' = [queue EXCEPT ![i] = TRUE] /\ UNCHANGED stale
    BY <2>2 DEF PoolInv, PoolTypeOK, Good
  <2>. QED  BY <2>1, <2>2, Zenon DEF Disconnect
<1>3. \A state : In(state)' = In(state)
  BY <1>1, Zenon DEF In
<1>. QED  BY <1>1, <1>2, <1>3, Zenon DEF PoolInv, PoolTypeOK, NeverStale, NoRoomForNew, PoolIsSound

(* PoolIsSound, for all tasks, every max_size and both drivers: get_timeout *)
(* and the drop of a connection keep the bound and lose no wake-up.        *)
THEOREM PoolSoundness == PoolSpec => []PoolIsSound
<1>1. PoolInv /\ [PoolNext]_poolVars => PoolInv'
  <2> SUFFICES ASSUME PoolInv, [PoolNext]_poolVars PROVE PoolInv'
    BY Zenon
  <2>1. CASE UNCHANGED poolVars
    BY <2>1, Zenon DEF poolVars, PoolInv, PoolTypeOK, NeverStale, NoRoomForNew, PoolIsSound, In
  <2>2. CASE PoolNext
    BY <2>2, GetTimeoutInv, WaitEndsInv, DropResourceInv, DisconnectInv, Zenon DEF PoolNext
  <2>. QED  BY <2>1, <2>2, Zenon
<1>2. PoolInv => PoolIsSound
  BY Zenon DEF PoolInv
<1>. QED  BY <1>1, <1>2, PoolInitInv, PTL DEF PoolSpec
=============================================================================
