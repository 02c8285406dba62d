--------------------------- MODULE ClusterHashring ---------------------------
(***************************************************************************)
(* Cluster membership of the keycast signer (cluster-hashring crate):      *)
(* a Redis sorted set of instances scored by their last heartbeat, a       *)
(* Pub/Sub channel of join and leave messages, and in every instance two   *)
(* tasks - the heartbeat task, which also runs the periodic full sync, and *)
(* the Pub/Sub listener - that replace one shared hash ring.               *)
(*                                                                         *)
(* Time is counted in ticks: an entry's score is kept as its age, the      *)
(* number of ticks since the ZADD, saturating just above StaleTicks.       *)
(* Payloads, logging and the per-event broadcast buffer are left out.      *)
(***************************************************************************)
EXTENDS Integers, Sequences, FiniteSets

CONSTANTS
  Instance,       \* process incarnations: a restart draws a fresh uuid
  Observed,       \* those whose ring is tracked: no ring feeds back into Redis,
                  \* so of the others only the entry and the messages matter
  Key,            \* bunker public keys the ring distributes
  Bucket,         \* Bucket[n][k]: the bucket of n that AnchorHash finds for k
  HeartbeatTicks, \* DEFAULT_HEARTBEAT_INTERVAL_SECS in ticks
  SyncTicks,      \* FULL_SYNC_INTERVAL_SECS in ticks
  StaleTicks,     \* STALE_THRESHOLD_SECS in ticks
  MultiThreaded,  \* tasks of one instance run in parallel (worker_threads > 1)
  Prompt,         \* starting up, receiving a message, retrying a heartbeat and
                  \* ending a cancelled task each take less than a tick
  FaultKinds,     \* which faults the environment may inject
  MaxFaults,      \* bound: how many of them
  ManualOps,      \* which of refresh and force_deregister the embedder calls
  MaxManual       \* bound: how many times

Fault == {"crash", "exit", "heartbeat", "sync", "pubsub", "publish", "deregister"}

ASSUME InstanceAssumption ==
  IsFiniteSet(Instance) /\ Observed \subseteq Instance

\* Ids are strings, of which only the order matters.
ASSUME OrderAssumption == Instance \subseteq Nat

\* What AnchorHash is for: with one bucket more a key stays or moves to the new
\* one. (Beyond 16 instances the capacity grows, which hashes all keys afresh.)
ASSUME BucketAssumption ==
  \A n \in 1 .. Cardinality(Instance) : \A k \in Key :
    /\ Bucket[n][k] \in 0 .. (n - 1)
    /\ n \in 2 .. 16 => Bucket[n][k] \in {Bucket[n - 1][k], n - 1}
ASSUME TimingAssumption ==
  /\ HeartbeatTicks \in Nat /\ SyncTicks \in Nat /\ StaleTicks \in Nat
  /\ 0 < HeartbeatTicks /\ HeartbeatTicks < StaleTicks
  /\ 0 < SyncTicks /\ SyncTicks <= StaleTicks
ASSUME EnvironmentAssumption ==
  /\ MultiThreaded \in BOOLEAN /\ Prompt \in BOOLEAN
  /\ FaultKinds \subseteq Fault /\ MaxFaults \in Nat
  /\ ManualOps \subseteq {"refresh", "force"} /\ MaxManual \in Nat

VARIABLES
  registry,   \* Redis sorted set: Instance -> age of its score, or Absent
  proc,       \* lifecycle of each process
  hb,         \* heartbeat task: none, spawned, late, ok, ended
  sinceSync,  \* ticks since the task's last sync tick
  ring,       \* current_instances of the shared HashRing
  prev,       \* previous_members of the heartbeat task
  lockPc,     \* where the holder of the registry lock stands
  snap,       \* the member set it fetched
  pubPc,      \* Pub/Sub task: none, idle, loaded, ended
  pubCopy,    \* its private copy of the ring
  conn,       \* whether the subscription is up
  inbox,      \* messages published since, in channel order
  faults,     \* faults left
  manual      \* manual operations left

redisVars == <<registry, conn, inbox>>
syncVars  == <<sinceSync, prev, lockPc, snap>>
pubVars   == <<pubPc, pubCopy>>
budget    == <<faults, manual>>
vars == <<redisVars, proc, hb, syncVars, ring, pubVars, budget>>

Absent == -1
Age == 0 .. (StaleTicks + 1)
LockState == {"idle", "beaten", "read", "emitted", "cleaned", "refresh", "leaving"}
Message == [event : {"join", "leave"}, id : Instance]

ProcState == {"new", "registered", "synced", "subscribed", "running",
              "stopping", "left", "stopped", "exited", "crashed"}

TypeOK ==
  /\ registry \in [Instance -> Age \cup {Absent}]
  /\ proc \in [Instance -> ProcState]
  /\ hb \in [Instance -> {"none", "spawned", "late", "ok", "ended"}]
  /\ sinceSync \in [Instance -> 0 .. SyncTicks]
  /\ ring \in [Instance -> SUBSET Instance]
  /\ prev \in [Instance -> SUBSET Instance]
  /\ lockPc \in [Instance -> LockState]
  /\ snap \in [Instance -> SUBSET Instance]
  /\ pubPc \in [Instance -> {"none", "idle", "loaded", "ended"}]
  /\ pubCopy \in [Instance -> SUBSET Instance]
  /\ conn \in [Instance -> BOOLEAN]
  /\ inbox \in [Instance -> Seq(Message)]
  /\ faults \in Nat
  /\ manual \in Nat

Init ==
  /\ registry = [i \in Instance |-> Absent]
  /\ proc = [i \in Instance |-> "new"]
  /\ hb = [i \in Instance |-> "none"]
  /\ sinceSync = [i \in Instance |-> 0]
  /\ ring = [i \in Instance |-> {}]
  /\ prev = [i \in Instance |-> {}]
  /\ lockPc = [i \in Instance |-> "idle"]
  /\ snap = [i \in Instance |-> {}]
  /\ pubPc = [i \in Instance |-> "none"]
  /\ pubCopy = [i \in Instance |-> {}]
  /\ conn = [i \in Instance |-> FALSE]
  /\ inbox = [i \in Instance |-> <<>>]
  /\ faults = MaxFaults
  /\ manual = MaxManual

-----------------------------------------------------------------------------
(* Redis and the ring, as the two tasks use them. Operators with a suffix  *)
(* after an underscore are plausible slips of the definition they precede: *)
(* the runs must tell the two apart.                                       *)

Active_NoThreshold == {j \in Instance : registry[j] # Absent}

\* get_active_instances: scores at or above the cutoff.
Active == {j \in Instance : registry[j] # Absent /\ registry[j] <= StaleTicks}

Cleaned_HeartbeatCutoff(reg) ==
  [j \in Instance |-> IF reg[j] >= HeartbeatTicks THEN Absent ELSE reg[j]]

\* cleanup_stale: removes the scores at or below the cutoff.
Cleaned(reg) ==
  [j \in Instance |-> IF reg[j] >= StaleTicks THEN Absent ELSE reg[j]]

\* PUBLISH reaches every connection subscribed at that moment. The listener
\* skips its own messages, so none is queued for the sender.
Publish(event, i) ==
  inbox' = [j \in Instance |->
              IF conn[j] /\ j # i THEN Append(inbox[j], [event |-> event, id |-> i])
                         ELSE inbox[j]]

\* rebuild_anchor gives the buckets to the sorted ids, whatever they were before.
Resource(S, n) == CHOOSE i \in S : Cardinality({j \in S : j < i}) = n

Owner(S, k) == Resource(S, Bucket[Cardinality(S)][k])

ShouldHandle(i, k) == ring[i] = {} \/ Owner(ring[i], k) = i

Apply(msg, S) ==
  IF msg.event = "join" THEN S \cup {msg.id} ELSE S \ {msg.id}

\* The environment spends one fault of the given kind.
Inject(kind) ==
  /\ kind \in FaultKinds
  /\ faults > 0
  /\ faults' = faults - 1
  /\ UNCHANGED manual

Call(op) ==
  /\ op \in ManualOps
  /\ manual > 0
  /\ manual' = manual - 1
  /\ UNCHANGED faults

Running == {i \in Instance : proc[i] = "running"}

-----------------------------------------------------------------------------
(* start_with_prefix                                                       *)

Register(i) ==
  /\ proc[i] = "new"
  /\ registry' = [registry EXCEPT ![i] = 0]
  /\ proc' = [proc EXCEPT ![i] = "registered"]
  /\ UNCHANGED <<conn, inbox, hb, syncVars, ring, pubVars, budget>>

InitialSync(i) ==
  /\ i \in Observed /\ proc[i] = "registered"
  /\ ring' = [ring EXCEPT ![i] = Active]
  /\ proc' = [proc EXCEPT ![i] = "synced"]
  /\ UNCHANGED <<redisVars, hb, syncVars, pubVars, budget>>

Subscribe(i) ==
  /\ proc[i] = "synced"
  /\ conn' = [conn EXCEPT ![i] = TRUE]
  /\ proc' = [proc EXCEPT ![i] = "subscribed"]
  /\ UNCHANGED <<registry, inbox, hb, syncVars, ring, pubVars, budget>>

\* Publishes the join and spawns both tasks. Of an instance that is not
\* observed only the heartbeats are followed from here on.
PublishJoin(i) ==
  /\ proc[i] = IF i \in Observed THEN "subscribed" ELSE "registered"
  /\ Publish("join", i)
  /\ hb' = [hb EXCEPT ![i] = IF i \in Observed THEN "spawned" ELSE "late"]
  /\ pubPc' = [pubPc EXCEPT ![i] = IF i \in Observed THEN "idle" ELSE "ended"]
  /\ proc' = [proc EXCEPT ![i] = "running"]
  /\ UNCHANGED <<registry, conn, syncVars, ring, pubCopy, budget>>

-----------------------------------------------------------------------------
(* The heartbeat task                                                      *)

HeartbeatTaskStart_FromRedis(i) ==
  /\ hb[i] = "spawned"
  /\ prev' = [prev EXCEPT ![i] = Active]
  /\ hb' = [hb EXCEPT ![i] = "late"]
  /\ sinceSync' = [sinceSync EXCEPT ![i] = SyncTicks]
  /\ UNCHANGED <<redisVars, proc, lockPc, snap, ring, pubVars, budget>>

\* previous_members is read from the ring when the task first runs.
HeartbeatTaskStart(i) ==
  /\ hb[i] = "spawned"
  /\ prev' = [prev EXCEPT ![i] = ring[i]]
  /\ hb' = [hb EXCEPT ![i] = "late"]
  /\ sinceSync' = [sinceSync EXCEPT ![i] = SyncTicks]
  /\ UNCHANGED <<redisVars, proc, lockPc, snap, ring, pubVars, budget>>

TaskAlive(i) == hb[i] \in {"late", "ok"}

\* The heartbeat interval of a task that is not late runs from its last ZADD.
BeatDue(i) == hb[i] = "ok" => registry[i] \notin 0 .. (HeartbeatTicks - 1)

\* select! picks any ready branch, so a cancelled task may beat once more. One
\* heartbeat in ten goes on to clean up.
Heartbeat(i) ==
  /\ TaskAlive(i) /\ lockPc[i] = "idle" /\ BeatDue(i)
  /\ registry' = [registry EXCEPT ![i] = 0]
  /\ hb' = [hb EXCEPT ![i] = "ok"]
  /\ \E pc \in {"idle", "beaten"} : lockPc' = [lockPc EXCEPT ![i] = pc]
  /\ UNCHANGED <<conn, inbox, proc, sinceSync, prev, snap, ring, pubVars, budget>>

\* A cleanup that fails is only logged: it is one that was not drawn.
Cleanup(i) ==
  /\ lockPc[i] = "beaten"
  /\ registry' = Cleaned(registry)
  /\ lockPc' = [lockPc EXCEPT ![i] = "idle"]
  /\ UNCHANGED <<conn, inbox, proc, hb, sinceSync, prev, snap, ring, pubVars, budget>>

HeartbeatFail(i) ==
  /\ TaskAlive(i) /\ lockPc[i] = "idle" /\ BeatDue(i)
  /\ Inject("heartbeat")
  /\ hb' = [hb EXCEPT ![i] = "late"]
  /\ UNCHANGED <<redisVars, proc, syncVars, ring, pubVars>>

SyncRead(i) ==
  /\ i \in Observed /\ TaskAlive(i) /\ lockPc[i] = "idle"
  /\ sinceSync[i] = SyncTicks
  /\ snap' = [snap EXCEPT ![i] = Active]
  /\ lockPc' = [lockPc EXCEPT ![i] = "read"]
  /\ sinceSync' = [sinceSync EXCEPT ![i] = 0]
  /\ UNCHANGED <<redisVars, proc, hb, prev, ring, pubVars, budget>>

SyncFail(i) ==
  /\ i \in Observed /\ TaskAlive(i) /\ lockPc[i] = "idle"
  /\ sinceSync[i] = SyncTicks
  /\ Inject("sync")
  /\ sinceSync' = [sinceSync EXCEPT ![i] = 0]
  /\ UNCHANGED <<redisVars, proc, hb, prev, lockPc, snap, ring, pubVars>>

\* The Joined and Left events are sent before the ring is stored. No await
\* lies between the two, so only parallel tasks come to see the gap.
SyncEmit(i) ==
  /\ MultiThreaded /\ lockPc[i] = "read"
  /\ lockPc' = [lockPc EXCEPT ![i] = "emitted"]
  /\ UNCHANGED <<redisVars, proc, hb, sinceSync, prev, snap, ring, pubVars, budget>>

SyncStore_ForgetsPrevious(i) ==
  /\ lockPc[i] = IF MultiThreaded THEN "emitted" ELSE "read"
  /\ ring' = [ring EXCEPT ![i] = IF snap[i] # prev[i] THEN snap[i] ELSE @]
  /\ lockPc' = [lockPc EXCEPT ![i] = "idle"]
  /\ snap' = [snap EXCEPT ![i] = {}]
  /\ UNCHANGED <<redisVars, proc, hb, sinceSync, prev, pubVars, budget>>

SyncStore_Difference(i) ==
  /\ lockPc[i] = IF MultiThreaded THEN "emitted" ELSE "read"
  /\ ring' = [ring EXCEPT ![i] = (@ \ (prev[i] \ snap[i])) \cup (snap[i] \ prev[i])]
  /\ prev' = [prev EXCEPT ![i] = snap[i]]
  /\ lockPc' = [lockPc EXCEPT ![i] = "idle"]
  /\ snap' = [snap EXCEPT ![i] = {}]
  /\ UNCHANGED <<redisVars, proc, hb, sinceSync, pubVars, budget>>

SyncStore(i) ==
  /\ lockPc[i] = IF MultiThreaded THEN "emitted" ELSE "read"
  /\ IF snap[i] # prev[i]
     THEN /\ ring' = [ring EXCEPT ![i] = snap[i]]
          /\ prev' = [prev EXCEPT ![i] = snap[i]]
     ELSE UNCHANGED <<ring, prev>>
  /\ lockPc' = [lockPc EXCEPT ![i] = "idle"]
  /\ snap' = [snap EXCEPT ![i] = {}]
  /\ UNCHANGED <<redisVars, proc, hb, sinceSync, pubVars, budget>>

HeartbeatTaskExit(i) ==
  /\ proc[i] = "stopping" /\ hb[i] # "ended"
  /\ lockPc[i] = "idle"
  /\ hb' = [hb EXCEPT ![i] = "ended"]
  /\ sinceSync' = [sinceSync EXCEPT ![i] = 0]
  /\ prev' = [prev EXCEPT ![i] = {}]
  /\ UNCHANGED <<redisVars, proc, lockPc, snap, ring, pubVars, budget>>

-----------------------------------------------------------------------------
(* The Pub/Sub listener task                                               *)

\* ring.load() and ring.store() are two steps for a parallel sync.
PubLoad(i) ==
  /\ MultiThreaded
  /\ pubPc[i] = "idle" /\ inbox[i] # <<>>
  /\ pubPc' = [pubPc EXCEPT ![i] = "loaded"]
  /\ pubCopy' = [pubCopy EXCEPT ![i] = ring[i]]
  /\ UNCHANGED <<redisVars, proc, hb, syncVars, ring, budget>>

PubStore(i) ==
  /\ pubPc[i] = IF MultiThreaded THEN "loaded" ELSE "idle"
  /\ inbox[i] # <<>>
  /\ LET copy == IF MultiThreaded THEN pubCopy[i] ELSE ring[i]
     IN  ring' = [ring EXCEPT ![i] = Apply(Head(inbox[i]), copy)]
  /\ inbox' = [inbox EXCEPT ![i] = Tail(@)]
  /\ pubPc' = [pubPc EXCEPT ![i] = "idle"]
  /\ pubCopy' = [pubCopy EXCEPT ![i] = {}]
  /\ UNCHANGED <<registry, conn, proc, hb, syncVars, budget>>

\* The stream ends; what was published and not yet received is lost.
PubSubDrop(i) ==
  /\ pubPc[i] = "idle" /\ conn[i]
  /\ Inject("pubsub")
  /\ conn' = [conn EXCEPT ![i] = FALSE]
  /\ inbox' = [inbox EXCEPT ![i] = <<>>]
  /\ UNCHANGED <<registry, proc, hb, syncVars, ring, pubVars>>

Resubscribe(i) ==
  /\ pubPc[i] = "idle" /\ ~conn[i]
  /\ conn' = [conn EXCEPT ![i] = TRUE]
  /\ UNCHANGED <<registry, inbox, proc, hb, syncVars, ring, pubVars, budget>>

PubTaskExit(i) ==
  /\ proc[i] = "stopping" /\ pubPc[i] = "idle"
  /\ pubPc' = [pubPc EXCEPT ![i] = "ended"]
  /\ conn' = [conn EXCEPT ![i] = FALSE]
  /\ inbox' = [inbox EXCEPT ![i] = <<>>]
  /\ UNCHANGED <<registry, proc, hb, syncVars, ring, pubCopy, budget>>

-----------------------------------------------------------------------------
(* Operations of the embedding process                                     *)

\* refresh holds the registry lock over its two commands to Redis.
RefreshClean(i) ==
  /\ i \in Observed /\ proc[i] = "running" /\ lockPc[i] = "idle"
  /\ Call("refresh")
  /\ registry' = Cleaned(registry)
  /\ lockPc' = [lockPc EXCEPT ![i] = "cleaned"]
  /\ UNCHANGED <<conn, inbox, proc, hb, sinceSync, prev, snap, ring, pubVars>>

RefreshRead(i) ==
  /\ lockPc[i] = "cleaned"
  /\ snap' = [snap EXCEPT ![i] = Active]
  /\ lockPc' = [lockPc EXCEPT ![i] = "refresh"]
  /\ UNCHANGED <<redisVars, proc, hb, sinceSync, prev, ring, pubVars, budget>>

RefreshFail(i) ==
  /\ lockPc[i] = "cleaned"
  /\ Inject("sync")
  /\ lockPc' = [lockPc EXCEPT ![i] = "idle"]
  /\ UNCHANGED <<redisVars, proc, hb, sinceSync, prev, snap, ring, pubVars>>

\* previous_members belongs to the heartbeat task: refresh leaves it alone.
RefreshStore(i) ==
  /\ lockPc[i] = "refresh"
  /\ ring' = [ring EXCEPT ![i] = snap[i]]
  /\ lockPc' = [lockPc EXCEPT ![i] = "idle"]
  /\ snap' = [snap EXCEPT ![i] = {}]
  /\ UNCHANGED <<redisVars, proc, hb, sinceSync, prev, pubVars, budget>>

\* force_deregister: PUBLISH, then ZREM, which may fail.
ForcePublish(i) ==
  /\ proc[i] = "running" /\ lockPc[i] = "idle"
  /\ Call("force")
  /\ Publish("leave", i)
  /\ lockPc' = [lockPc EXCEPT ![i] = "leaving"]
  /\ UNCHANGED <<registry, conn, proc, hb, sinceSync, prev, snap, ring, pubVars>>

ForceRemove(i) ==
  /\ lockPc[i] = "leaving"
  /\ \/ registry' = [registry EXCEPT ![i] = Absent] /\ UNCHANGED budget
     \/ Inject("deregister") /\ UNCHANGED registry
  /\ lockPc' = [lockPc EXCEPT ![i] = "idle"]
  /\ UNCHANGED <<conn, inbox, proc, hb, sinceSync, prev, snap, ring, pubVars>>

\* shutdown, step 1: cancel both tasks (then await them, below). It consumes the
\* coordinator, so no refresh or force_deregister is under way.
Shutdown(i) ==
  /\ proc[i] = "running" /\ lockPc[i] \notin {"cleaned", "refresh", "leaving"}
  /\ proc' = [proc EXCEPT ![i] = "stopping"]
  /\ UNCHANGED <<redisVars, hb, syncVars, ring, pubVars, budget>>

TasksEnded_ListenerOnly(i) == pubPc[i] = "ended"

TasksEnded(i) == hb[i] = "ended" /\ pubPc[i] = "ended"

\* shutdown, step 2: a failed PUBLISH is only logged.
PublishLeave(i) ==
  /\ proc[i] = "stopping" /\ TasksEnded(i)
  /\ proc' = [proc EXCEPT ![i] = "left"]
  /\ \/ Publish("leave", i) /\ UNCHANGED budget
     \/ Inject("publish") /\ UNCHANGED inbox
  /\ UNCHANGED <<registry, conn, hb, syncVars, ring, pubVars>>

Deregister(i) ==
  /\ proc[i] = "left"
  /\ registry' = [registry EXCEPT ![i] = Absent]
  /\ proc' = [proc EXCEPT ![i] = "stopped"]
  /\ ring' = [ring EXCEPT ![i] = {}]
  /\ UNCHANGED <<conn, inbox, hb, syncVars, pubVars, budget>>

\* ZREM fails: shutdown returns the error and the entry stays.
DeregisterFail(i) ==
  /\ proc[i] = "left"
  /\ Inject("deregister")
  /\ proc' = [proc EXCEPT ![i] = "crashed"]
  /\ UNCHANGED <<redisVars, hb, syncVars, ring, pubVars>>

-----------------------------------------------------------------------------
(* The process dies with its memory and its connection; Redis keeps its    *)
(* entry. A crash may come anywhere (an error of start_with_prefix, or of  *)
(* shutdown, ends the process as well), main's own exit only while running *)
(* (it drops the coordinator and never calls shutdown).                    *)

Die(i, state) ==
  /\ proc' = [proc EXCEPT ![i] = state]
  /\ hb' = [hb EXCEPT ![i] = "ended"]
  /\ pubPc' = [pubPc EXCEPT ![i] = "ended"]
  /\ conn' = [conn EXCEPT ![i] = FALSE]
  /\ inbox' = [inbox EXCEPT ![i] = <<>>]
  /\ sinceSync' = [sinceSync EXCEPT ![i] = 0]
  /\ prev' = [prev EXCEPT ![i] = {}]
  /\ lockPc' = [lockPc EXCEPT ![i] = "idle"]
  /\ snap' = [snap EXCEPT ![i] = {}]
  /\ pubCopy' = [pubCopy EXCEPT ![i] = {}]
  /\ ring' = [ring EXCEPT ![i] = {}]
  /\ UNCHANGED registry

Crash(i) ==
  /\ proc[i] \notin {"new", "stopped", "exited", "crashed"}
  /\ Inject("crash")
  /\ Die(i, "crashed")

MainExit(i) ==
  /\ proc[i] = "running"
  /\ Inject("exit")
  /\ Die(i, "exited")

-----------------------------------------------------------------------------
(* Time passes unless a healthy heartbeat task is due to act first.        *)

OnTime(i) ==
  /\ hb[i] = "ok" => registry[i] < HeartbeatTicks /\ sinceSync[i] < SyncTicks
  /\ Prompt => /\ inbox[i] = <<>>
               /\ proc[i] \notin {"registered", "synced", "subscribed"}
               /\ hb[i] \notin {"spawned", "late"}
               /\ proc[i] = "stopping" => hb[i] = "ended"

Tick_LateSync ==
  /\ \A i \in Instance : OnTime(i)
  /\ registry' = [i \in Instance |->
       IF registry[i] \in 0 .. StaleTicks THEN registry[i] + 1 ELSE registry[i]]
  /\ sinceSync' = [i \in Instance |->
       IF i \in Observed /\ TaskAlive(i) /\ sinceSync[i] <= SyncTicks
       THEN sinceSync[i] + 1 ELSE sinceSync[i]]
  /\ UNCHANGED <<conn, inbox, proc, hb, prev, lockPc, snap, ring, pubVars, budget>>

Tick ==
  /\ \A i \in Instance : OnTime(i)
  /\ registry' = [i \in Instance |->
       IF registry[i] \in 0 .. StaleTicks THEN registry[i] + 1 ELSE registry[i]]
  /\ sinceSync' = [i \in Instance |->
       IF i \in Observed /\ TaskAlive(i) /\ sinceSync[i] < SyncTicks
       THEN sinceSync[i] + 1 ELSE sinceSync[i]]
  /\ UNCHANGED <<conn, inbox, proc, hb, prev, lockPc, snap, ring, pubVars,
                 budget>>

Start(i) == Register(i) \/ InitialSync(i) \/ Subscribe(i) \/ PublishJoin(i)

HeartbeatTask(i) ==
  \/ HeartbeatTaskStart(i) \/ Heartbeat(i) \/ Cleanup(i) \/ HeartbeatFail(i)
  \/ SyncRead(i) \/ SyncFail(i) \/ SyncEmit(i) \/ SyncStore(i)
  \/ HeartbeatTaskExit(i)

PubSubTask(i) ==
  \/ PubLoad(i) \/ PubStore(i)
  \/ PubSubDrop(i) \/ Resubscribe(i) \/ PubTaskExit(i)

Embedder(i) ==
  \/ RefreshClean(i) \/ RefreshRead(i) \/ RefreshFail(i) \/ RefreshStore(i)
  \/ ForcePublish(i) \/ ForceRemove(i)
  \/ Shutdown(i) \/ PublishLeave(i) \/ Deregister(i) \/ DeregisterFail(i)

Next ==
  \/ \E i \in Instance :
       \/ Start(i) \/ HeartbeatTask(i) \/ PubSubTask(i) \/ Embedder(i)
       \/ Crash(i) \/ MainExit(i)
  \/ Tick

Spec == Init /\ [][Next]_vars

\* tokio runs every ready task and time passes; registration, shutdown, manual
\* calls and faults are choices of the environment. With Prompt a task has only
\* finitely much to do before the next tick, so one condition per task is nearly
\* enough: an instance that force_deregister removed misses its heartbeat without
\* holding up time, but select! is random and does not pick the sync for ever.
Fairness ==
  /\ WF_vars(Tick)
  /\ \A i \in Observed : SF_vars(Heartbeat(i))
  /\ \A i \in Instance :
       /\ WF_vars(InitialSync(i) \/ Subscribe(i) \/ PublishJoin(i))
       /\ WF_vars(\/ HeartbeatTaskStart(i) \/ Heartbeat(i) \/ Cleanup(i)
                  \/ SyncRead(i) \/ SyncEmit(i) \/ SyncStore(i)
                  \/ HeartbeatTaskExit(i))
       /\ WF_vars(PubLoad(i) \/ PubStore(i) \/ Resubscribe(i) \/ PubTaskExit(i))
       /\ WF_vars(\/ RefreshRead(i) \/ RefreshStore(i) \/ ForceRemove(i)
                  \/ PublishLeave(i) \/ Deregister(i))

FairSpec == Spec /\ Fairness

-----------------------------------------------------------------------------
(* Safety                                                                  *)

\* shutdown cancels and awaits the tasks before its ZREM "to prevent heartbeat
\* from re-registering": a process that completed it never has an entry again.
NoResurrection == \A i \in Instance : proc[i] = "stopped" => registry[i] = Absent

\* A running instance whose heartbeats succeed is never missing from what
\* get_active_instances returns, whoever runs cleanup_stale and whenever
\* (force_deregister removes a running instance on purpose).
HealthyIsActive ==
  "force" \notin ManualOps =>
    \A i \in Running : hb[i] = "ok" => i \in Active

\* The sync compares Redis with previous_members, not with the ring, so it can
\* only repair a ring from which no peer it has already recorded is missing.
SyncedPeersStay ==
  \A i \in Running \cap Observed : Running \cap prev[i] \subseteq ring[i]

-----------------------------------------------------------------------------
(* Liveness, once the bounded supply of faults and operations is used up   *)

\* previous_members, the heartbeat task's own view, ends up exact.
SyncViewConverges == <>[](\A i \in Running \cap Observed : prev[i] = Running)

\* Nothing more will be published by who is starting or leaving, every message has
\* been received, and no fault is left.
Quiet ==
  /\ faults = 0
  /\ \A i \in Instance : /\ inbox[i] = <<>> /\ pubPc[i] # "loaded"
                        /\ proc[i] \notin {"registered", "synced", "subscribed", "stopping"}

\* A ring may be wrong after a lost message or a race of the two tasks. Whatever it
\* has become, the next change that a sync still has to find repairs all of it.
SyncRepairs ==
  \A i \in Observed :
    (proc[i] = "running" /\ Quiet /\ prev[i] # Running)
      ~> (proc[i] # "running" \/ ~Quiet \/ ring[i] = Running)

-----------------------------------------------------------------------------
(* What the comments promise and the code does not keep                    *)

\* "Real-time membership detection via Redis Pub/Sub with periodic full sync as
\* backup": the ring that routes keys ends up exact.
RingsConverge == <>[](\A i \in Running \cap Observed : ring[i] = Running)

\* "Guaranteed optimal disruption (minimal key remapping on node changes)": when
\* others leave, an instance that stays keeps the keys it handled.
MinimalRemapping ==
  [][\A i \in Observed, k \in Key :
       (proc'[i] = "running" /\ i \in ring'[i] /\ ring'[i] \subseteq ring[i] /\ ShouldHandle(i, k))
         => ShouldHandle(i, k)']_ring

=============================================================================
