----------------------- MODULE ClusterHashring_proofs -----------------------
(* Theorems about ClusterHashring, for every set of instances, all      *)
(* intervals, and all bounds on faults and manual calls.                   *)
EXTENDS ClusterHashring, TLAPS

\* A publication leaves every inbox a sequence of messages.
LEMMA PublishType ==
  ASSUME TypeOK, NEW i \in Instance, NEW event \in {"join", "leave"},
         Publish(event, i)
  PROVE  inbox' \in [Instance -> Seq(Message)]
<1> DEFINE m == [event |-> event, id |-> i]
<1>1. m \in Message
  BY DEF Message
<1> HIDE DEF m
<1>2. ASSUME NEW j \in Instance PROVE Append(inbox[j], m) \in Seq(Message)
  BY <1>1 DEF TypeOK
<1>3. inbox' = [j \in Instance |->
                 IF conn[j] /\ j # i THEN Append(inbox[j], m) ELSE inbox[j]]
  BY DEF Publish, m
<1> QED
  BY <1>2, <1>3 DEF TypeOK

\* Every variable keeps its type: ages saturate, a timer never passes its
\* interval, and no member of a ring, snapshot or message is unknown.
THEOREM TypeCorrect == Spec => []TypeOK
<1> USE InstanceAssumption, TimingAssumption, EnvironmentAssumption
    DEF TypeOK, Age, Absent, ProcState, LockState, redisVars, syncVars, pubVars, budget
<1>1. Init => TypeOK
  BY DEF Init
<1>2. TypeOK /\ [Next]_vars => TypeOK'
  <2> SUFFICES ASSUME TypeOK, [Next]_vars PROVE TypeOK'
    OBVIOUS
  <2>1. ASSUME NEW i \in Instance, Register(i) PROVE TypeOK'
    BY <2>1 DEF Register
  <2>2. ASSUME NEW i \in Instance, InitialSync(i) PROVE TypeOK'
    BY <2>2 DEF InitialSync, Active
  <2>3. ASSUME NEW i \in Instance, Subscribe(i) PROVE TypeOK'
    BY <2>3 DEF Subscribe
  <2>4. ASSUME NEW i \in Instance, PublishJoin(i) PROVE TypeOK'
    BY <2>4, PublishType DEF PublishJoin
  <2>5. ASSUME NEW i \in Instance, HeartbeatTaskStart(i) PROVE TypeOK'
    BY <2>5 DEF HeartbeatTaskStart
  <2>6. ASSUME NEW i \in Instance, Heartbeat(i) PROVE TypeOK'
    BY <2>6 DEF Heartbeat, TaskAlive
  <2>7. ASSUME NEW i \in Instance, Cleanup(i) PROVE TypeOK'
    BY <2>7 DEF Cleanup, Cleaned
  <2>8. ASSUME NEW i \in Instance, HeartbeatFail(i) PROVE TypeOK'
    BY <2>8 DEF HeartbeatFail, Inject, TaskAlive
  <2>9. ASSUME NEW i \in Instance, SyncRead(i) PROVE TypeOK'
    BY <2>9 DEF SyncRead, Active, TaskAlive
  <2>10. ASSUME NEW i \in Instance, SyncFail(i) PROVE TypeOK'
    BY <2>10 DEF SyncFail, Inject, TaskAlive
  <2>11. ASSUME NEW i \in Instance, SyncEmit(i) PROVE TypeOK'
    BY <2>11 DEF SyncEmit
  <2>12. ASSUME NEW i \in Instance, SyncStore(i) PROVE TypeOK'
    <3> DEFINE s == snap[i]
    <3>1. s \in SUBSET Instance
      OBVIOUS
    <3>2. \/ UNCHANGED <<ring, prev>>
          \/ ring' = [ring EXCEPT ![i] = s] /\ prev' = [prev EXCEPT ![i] = s]
      BY <2>12 DEF SyncStore
    <3> HIDE DEF s
    <3>3. /\ ring' \in [Instance -> SUBSET Instance]
          /\ prev' \in [Instance -> SUBSET Instance]
      BY <3>1, <3>2
    <3> QED
      BY <2>12, <3>3 DEF SyncStore
  <2>13. ASSUME NEW i \in Instance, HeartbeatTaskExit(i) PROVE TypeOK'
    BY <2>13 DEF HeartbeatTaskExit
  <2>14. ASSUME NEW i \in Instance, PubLoad(i) PROVE TypeOK'
    BY <2>14 DEF PubLoad
  <2>15. ASSUME NEW i \in Instance, PubStore(i) PROVE TypeOK'
    <3>1. inbox[i] \in Seq(Message) /\ inbox[i] # <<>>
      BY <2>15 DEF PubStore
    <3>2. Head(inbox[i]) \in Message /\ Tail(inbox[i]) \in Seq(Message)
      BY <3>1
    <3>3. \A S \in SUBSET Instance : Apply(Head(inbox[i]), S) \in SUBSET Instance
      BY <3>2 DEF Apply, Message
    <3>4. ring' \in [Instance -> SUBSET Instance]
      BY <2>15, <3>3 DEF PubStore
    <3> QED
      BY <2>15, <3>2, <3>4 DEF PubStore
  <2>16. ASSUME NEW i \in Instance, PubSubDrop(i) PROVE TypeOK'
    BY <2>16 DEF PubSubDrop, Inject
  <2>17. ASSUME NEW i \in Instance, Resubscribe(i) PROVE TypeOK'
    BY <2>17 DEF Resubscribe
  <2>18. ASSUME NEW i \in Instance, PubTaskExit(i) PROVE TypeOK'
    BY <2>18 DEF PubTaskExit
  <2>19. ASSUME NEW i \in Instance, RefreshClean(i) PROVE TypeOK'
    BY <2>19 DEF RefreshClean, Call, Cleaned
  <2>20. ASSUME NEW i \in Instance, RefreshRead(i) PROVE TypeOK'
    BY <2>20 DEF RefreshRead, Active
  <2>21. ASSUME NEW i \in Instance, RefreshFail(i) PROVE TypeOK'
    BY <2>21 DEF RefreshFail, Inject
  <2>22. ASSUME NEW i \in Instance, RefreshStore(i) PROVE TypeOK'
    BY <2>22 DEF RefreshStore
  <2>23. ASSUME NEW i \in Instance, ForcePublish(i) PROVE TypeOK'
    BY <2>23, PublishType DEF ForcePublish, Call
  <2>24. ASSUME NEW i \in Instance, ForceRemove(i) PROVE TypeOK'
    <3>1. registry' \in [Instance -> Age \cup {Absent}]
      BY <2>24 DEF ForceRemove
    <3>2. faults' \in Nat /\ manual' \in Nat
      BY <2>24 DEF ForceRemove, Inject
    <3> QED
      BY <2>24, <3>1, <3>2 DEF ForceRemove
  <2>25. ASSUME NEW i \in Instance, Shutdown(i) PROVE TypeOK'
    BY <2>25 DEF Shutdown
  <2>26. ASSUME NEW i \in Instance, PublishLeave(i) PROVE TypeOK'
    BY <2>26, PublishType DEF PublishLeave, Inject
  <2>27. ASSUME NEW i \in Instance, Deregister(i) PROVE TypeOK'
    BY <2>27 DEF Deregister
  <2>28. ASSUME NEW i \in Instance, DeregisterFail(i) PROVE TypeOK'
    BY <2>28 DEF DeregisterFail, Inject
  <2>29. ASSUME NEW i \in Instance, Crash(i) PROVE TypeOK'
    BY <2>29 DEF Crash, Inject, Die
  <2>30. ASSUME NEW i \in Instance, MainExit(i) PROVE TypeOK'
    BY <2>30 DEF MainExit, Inject, Die
  <2>31. CASE Tick
    BY <2>31 DEF Tick, OnTime, TaskAlive
  <2>32. CASE UNCHANGED vars
    BY <2>32 DEF vars
  <2> HIDE DEF TypeOK
  <2> QED
    BY <2>1, <2>2, <2>3, <2>4, <2>5, <2>6, <2>7, <2>8, <2>9, <2>10, <2>11,
       <2>12, <2>13, <2>14, <2>15, <2>16, <2>17, <2>18, <2>19, <2>20, <2>21,
       <2>22, <2>23, <2>24, <2>25, <2>26, <2>27, <2>28, <2>29, <2>30, <2>31,
       <2>32
       DEF Next, Start, HeartbeatTask, PubSubTask, Embedder
<1> QED
  BY <1>1, <1>2, PTL DEF Spec

-----------------------------------------------------------------------------
(* A heartbeat can re-create an entry only while its task lives. shutdown  *)
(* reaches "left" after both tasks ended, and no task ever comes back.     *)

ShutdownInv ==
  \A i \in Instance :
    /\ proc[i] \in {"left", "stopped"} => hb[i] = "ended"
    /\ proc[i] = "stopped" => registry[i] = Absent

\* After a completed shutdown the instance has no registry entry, whatever the
\* other processes do and however the tasks were interleaved.
THEOREM NoResurrectionHolds == Spec => []NoResurrection
<1> USE TimingAssumption, EnvironmentAssumption
    DEF TypeOK, Age, Absent, ProcState, LockState, redisVars, syncVars, pubVars, budget,
        ShutdownInv
<1>1. Init => ShutdownInv
  BY DEF Init
<1>2. TypeOK /\ ShutdownInv /\ [Next]_vars => ShutdownInv'
  <2> SUFFICES ASSUME TypeOK, ShutdownInv, [Next]_vars PROVE ShutdownInv'
    OBVIOUS
  <2>1. ASSUME NEW i \in Instance, Register(i) PROVE ShutdownInv'
    BY <2>1 DEF Register
  <2>2. ASSUME NEW i \in Instance, InitialSync(i) PROVE ShutdownInv'
    BY <2>2 DEF InitialSync
  <2>3. ASSUME NEW i \in Instance, Subscribe(i) PROVE ShutdownInv'
    BY <2>3 DEF Subscribe
  <2>4. ASSUME NEW i \in Instance, PublishJoin(i) PROVE ShutdownInv'
    BY <2>4 DEF PublishJoin
  <2>5. ASSUME NEW i \in Instance, HeartbeatTaskStart(i) PROVE ShutdownInv'
    BY <2>5 DEF HeartbeatTaskStart
  <2>6. ASSUME NEW i \in Instance, Heartbeat(i) PROVE ShutdownInv'
    BY <2>6 DEF Heartbeat, Cleaned, TaskAlive
  <2>7. ASSUME NEW i \in Instance, Cleanup(i) PROVE ShutdownInv'
    BY <2>7 DEF Cleanup, Cleaned
  <2>8. ASSUME NEW i \in Instance, HeartbeatFail(i) PROVE ShutdownInv'
    BY <2>8 DEF HeartbeatFail, Inject, TaskAlive
  <2>9. ASSUME NEW i \in Instance, SyncRead(i) PROVE ShutdownInv'
    BY <2>9 DEF SyncRead
  <2>10. ASSUME NEW i \in Instance, SyncFail(i) PROVE ShutdownInv'
    BY <2>10 DEF SyncFail, Inject, TaskAlive
  <2>11. ASSUME NEW i \in Instance, SyncEmit(i) PROVE ShutdownInv'
    BY <2>11 DEF SyncEmit
  <2>12. ASSUME NEW i \in Instance, SyncStore(i) PROVE ShutdownInv'
    BY <2>12 DEF SyncStore
  <2>13. ASSUME NEW i \in Instance, HeartbeatTaskExit(i) PROVE ShutdownInv'
    BY <2>13 DEF HeartbeatTaskExit
  <2>14. ASSUME NEW i \in Instance, PubLoad(i) PROVE ShutdownInv'
    BY <2>14 DEF PubLoad
  <2>15. ASSUME NEW i \in Instance, PubStore(i) PROVE ShutdownInv'
    BY <2>15 DEF PubStore
  <2>16. ASSUME NEW i \in Instance, PubSubDrop(i) PROVE ShutdownInv'
    BY <2>16 DEF PubSubDrop, Inject
  <2>17. ASSUME NEW i \in Instance, Resubscribe(i) PROVE ShutdownInv'
    BY <2>17 DEF Resubscribe
  <2>18. ASSUME NEW i \in Instance, PubTaskExit(i) PROVE ShutdownInv'
    BY <2>18 DEF PubTaskExit
  <2>19. ASSUME NEW i \in Instance, RefreshClean(i) PROVE ShutdownInv'
    BY <2>19 DEF RefreshClean, Cleaned
  <2>20. ASSUME NEW i \in Instance, RefreshRead(i) PROVE ShutdownInv'
    BY <2>20 DEF RefreshRead
  <2>21. ASSUME NEW i \in Instance, RefreshFail(i) PROVE ShutdownInv'
    BY <2>21 DEF RefreshFail, Inject
  <2>22. ASSUME NEW i \in Instance, RefreshStore(i) PROVE ShutdownInv'
    BY <2>22 DEF RefreshStore
  <2>23. ASSUME NEW i \in Instance, ForcePublish(i) PROVE ShutdownInv'
    BY <2>23 DEF ForcePublish
  <2>24. ASSUME NEW i \in Instance, ForceRemove(i) PROVE ShutdownInv'
    BY <2>24 DEF ForceRemove, Inject
  <2>25. ASSUME NEW i \in Instance, Shutdown(i) PROVE ShutdownInv'
    BY <2>25 DEF Shutdown
  <2>26. ASSUME NEW i \in Instance, PublishLeave(i) PROVE ShutdownInv'
    BY <2>26 DEF PublishLeave, TasksEnded, Inject
  <2>27. ASSUME NEW i \in Instance, Deregister(i) PROVE ShutdownInv'
    BY <2>27 DEF Deregister
  <2>28. ASSUME NEW i \in Instance, DeregisterFail(i) PROVE ShutdownInv'
    BY <2>28 DEF DeregisterFail, Inject
  <2>29. ASSUME NEW i \in Instance, Crash(i) PROVE ShutdownInv'
    BY <2>29 DEF Crash, Inject, Die
  <2>30. ASSUME NEW i \in Instance, MainExit(i) PROVE ShutdownInv'
    BY <2>30 DEF MainExit, Inject, Die
  <2>31. CASE Tick
    BY <2>31 DEF Tick, OnTime, TaskAlive
  <2>32. CASE UNCHANGED vars
    BY <2>32 DEF vars
  <2> HIDE DEF TypeOK, ShutdownInv
  <2> QED
    BY <2>1, <2>2, <2>3, <2>4, <2>5, <2>6, <2>7, <2>8, <2>9, <2>10, <2>11,
       <2>12, <2>13, <2>14, <2>15, <2>16, <2>17, <2>18, <2>19, <2>20, <2>21,
       <2>22, <2>23, <2>24, <2>25, <2>26, <2>27, <2>28, <2>29, <2>30, <2>31,
       <2>32
       DEF Next, Start, HeartbeatTask, PubSubTask, Embedder
<1>3. ShutdownInv => NoResurrection
  BY DEF NoResurrection
<1> QED
  BY <1>1, <1>2, <1>3, TypeCorrect, PTL DEF Spec

-----------------------------------------------------------------------------
(* A heartbeat that succeeded is at most HeartbeatTicks old while its task *)
(* is on time, hence younger than any cutoff.                              *)

FreshInv ==
  "force" \notin ManualOps =>
    \A i \in Instance :
      /\ lockPc[i] # "leaving"
      /\ proc[i] = "running" /\ hb[i] = "ok" => registry[i] \in 0 .. HeartbeatTicks

\* An instance that heartbeats successfully stays in every peer's view of the
\* registry, for any intervals with HeartbeatTicks < StaleTicks.
THEOREM HealthyIsActiveHolds == Spec => []HealthyIsActive
<1> USE TimingAssumption, EnvironmentAssumption
    DEF TypeOK, Age, Absent, ProcState, LockState, redisVars, syncVars, pubVars, budget,
        FreshInv
<1>1. Init => FreshInv
  BY DEF Init
<1>2. TypeOK /\ FreshInv /\ [Next]_vars => FreshInv'
  <2> SUFFICES ASSUME TypeOK, FreshInv, [Next]_vars PROVE FreshInv'
    OBVIOUS
  <2>1. ASSUME NEW i \in Instance, Register(i) PROVE FreshInv'
    BY <2>1 DEF Register
  <2>2. ASSUME NEW i \in Instance, InitialSync(i) PROVE FreshInv'
    BY <2>2 DEF InitialSync
  <2>3. ASSUME NEW i \in Instance, Subscribe(i) PROVE FreshInv'
    BY <2>3 DEF Subscribe
  <2>4. ASSUME NEW i \in Instance, PublishJoin(i) PROVE FreshInv'
    BY <2>4 DEF PublishJoin
  <2>5. ASSUME NEW i \in Instance, HeartbeatTaskStart(i) PROVE FreshInv'
    BY <2>5 DEF HeartbeatTaskStart
  <2>6. ASSUME NEW i \in Instance, Heartbeat(i) PROVE FreshInv'
    BY <2>6 DEF Heartbeat, Cleaned, TaskAlive
  <2>7. ASSUME NEW i \in Instance, Cleanup(i) PROVE FreshInv'
    BY <2>7 DEF Cleanup, Cleaned
  <2>8. ASSUME NEW i \in Instance, HeartbeatFail(i) PROVE FreshInv'
    BY <2>8 DEF HeartbeatFail, Inject, TaskAlive
  <2>9. ASSUME NEW i \in Instance, SyncRead(i) PROVE FreshInv'
    BY <2>9 DEF SyncRead
  <2>10. ASSUME NEW i \in Instance, SyncFail(i) PROVE FreshInv'
    BY <2>10 DEF SyncFail, Inject, TaskAlive
  <2>11. ASSUME NEW i \in Instance, SyncEmit(i) PROVE FreshInv'
    BY <2>11 DEF SyncEmit
  <2>12. ASSUME NEW i \in Instance, SyncStore(i) PROVE FreshInv'
    BY <2>12 DEF SyncStore
  <2>13. ASSUME NEW i \in Instance, HeartbeatTaskExit(i) PROVE FreshInv'
    BY <2>13 DEF HeartbeatTaskExit
  <2>14. ASSUME NEW i \in Instance, PubLoad(i) PROVE FreshInv'
    BY <2>14 DEF PubLoad
  <2>15. ASSUME NEW i \in Instance, PubStore(i) PROVE FreshInv'
    BY <2>15 DEF PubStore
  <2>16. ASSUME NEW i \in Instance, PubSubDrop(i) PROVE FreshInv'
    BY <2>16 DEF PubSubDrop, Inject
  <2>17. ASSUME NEW i \in Instance, Resubscribe(i) PROVE FreshInv'
    BY <2>17 DEF Resubscribe
  <2>18. ASSUME NEW i \in Instance, PubTaskExit(i) PROVE FreshInv'
    BY <2>18 DEF PubTaskExit
  <2>19. ASSUME NEW i \in Instance, RefreshClean(i) PROVE FreshInv'
    BY <2>19 DEF RefreshClean, Cleaned
  <2>20. ASSUME NEW i \in Instance, RefreshRead(i) PROVE FreshInv'
    BY <2>20 DEF RefreshRead
  <2>21. ASSUME NEW i \in Instance, RefreshFail(i) PROVE FreshInv'
    BY <2>21 DEF RefreshFail, Inject
  <2>22. ASSUME NEW i \in Instance, RefreshStore(i) PROVE FreshInv'
    BY <2>22 DEF RefreshStore
  <2>23. ASSUME NEW i \in Instance, ForcePublish(i) PROVE FreshInv'
    BY <2>23 DEF ForcePublish, Call
  <2>24. ASSUME NEW i \in Instance, ForceRemove(i) PROVE FreshInv'
    BY <2>24 DEF ForceRemove, Inject
  <2>25. ASSUME NEW i \in Instance, Shutdown(i) PROVE FreshInv'
    BY <2>25 DEF Shutdown
  <2>26. ASSUME NEW i \in Instance, PublishLeave(i) PROVE FreshInv'
    BY <2>26 DEF PublishLeave
  <2>27. ASSUME NEW i \in Instance, Deregister(i) PROVE FreshInv'
    BY <2>27 DEF Deregister
  <2>28. ASSUME NEW i \in Instance, DeregisterFail(i) PROVE FreshInv'
    BY <2>28 DEF DeregisterFail, Inject
  <2>29. ASSUME NEW i \in Instance, Crash(i) PROVE FreshInv'
    BY <2>29 DEF Crash, Inject, Die
  <2>30. ASSUME NEW i \in Instance, MainExit(i) PROVE FreshInv'
    BY <2>30 DEF MainExit, Inject, Die
  <2>31. CASE Tick
    BY <2>31 DEF Tick, OnTime, TaskAlive
  <2>32. CASE UNCHANGED vars
    BY <2>32 DEF vars
  <2> HIDE DEF TypeOK, FreshInv
  <2> QED
    BY <2>1, <2>2, <2>3, <2>4, <2>5, <2>6, <2>7, <2>8, <2>9, <2>10, <2>11,
       <2>12, <2>13, <2>14, <2>15, <2>16, <2>17, <2>18, <2>19, <2>20, <2>21,
       <2>22, <2>23, <2>24, <2>25, <2>26, <2>27, <2>28, <2>29, <2>30, <2>31,
       <2>32
       DEF Next, Start, HeartbeatTask, PubSubTask, Embedder
<1>3. TypeOK /\ FreshInv => HealthyIsActive
  BY DEF HealthyIsActive, Active, Running
<1> QED
  BY <1>1, <1>2, <1>3, TypeCorrect, PTL DEF Spec

-----------------------------------------------------------------------------
(* The full sync repairs what differs between Redis and previous_members.  *)
(* That is enough as long as a peer it has recorded cannot silently vanish *)
(* from the ring: on one thread only a leave message takes a peer out, and *)
(* only an instance past its shutdown's tasks has sent one.                *)

Gone == {"left", "stopped", "exited", "crashed"}

LeaveInv ==
  \A i \in Instance : \A n \in 1 .. Len(inbox[i]) :
    inbox[i][n].event = "leave" => proc[inbox[i][n].id] \in Gone

LocalInv ==
  \A i \in Instance :
    /\ lockPc[i] \in {"idle", "beaten", "read"}
    /\ proc[i] \in {"new", "registered", "synced", "subscribed"} => hb[i] = "none"
    /\ proc[i] \in {"left", "stopped"} => hb[i] = "ended"
    /\ lockPc[i] # "idle" => hb[i] \in {"late", "ok"}
    /\ hb[i] \in {"none", "spawned", "ended"} => prev[i] = {}

PeersInv ==
  \A i, j \in Instance : (j \in prev[i] /\ proc[j] \notin Gone) => j \in ring[i]

\* What a queue holds after one message is appended or taken off.
LEMMA AppendElement ==
  ASSUME NEW S, NEW s \in Seq(S), NEW e \in S, NEW n \in 1 .. Len(Append(s, e))
  PROVE  (n \in 1 .. Len(s) /\ Append(s, e)[n] = s[n]) \/ Append(s, e)[n] = e
  OBVIOUS

LEMMA TailElement ==
  ASSUME NEW S, NEW s \in Seq(S), s # <<>>, NEW n \in 1 .. Len(Tail(s))
  PROVE  n + 1 \in 1 .. Len(s) /\ Tail(s)[n] = s[n + 1]
  OBVIOUS

\* Without force_deregister a leave message in flight is from an instance that
\* never runs again.
LEMMA LeaveStep ==
  ASSUME ManualOps = {}, TypeOK, LeaveInv, [Next]_vars
  PROVE  LeaveInv'
<1> USE DEF TypeOK, LeaveInv, Gone, ProcState, LockState, redisVars, syncVars, pubVars, budget
<1>1. ASSUME NEW i \in Instance, Register(i) PROVE LeaveInv'
  <2> SUFFICES ASSUME NEW j \in Instance, NEW n \in 1 .. Len(inbox[j]),
                      inbox[j][n].event = "leave"
               PROVE  proc'[inbox[j][n].id] \in Gone
    BY <1>1 DEF Register
  <2>1. proc[i] \notin Gone /\ proc' = [proc EXCEPT ![i] = "registered"]
    BY <1>1 DEF Register
  <2>2. inbox[j][n] \in Message
    BY TypeOK
  <2>3. inbox[j][n].id \in Instance /\ proc[inbox[j][n].id] \in Gone
    BY <2>2 DEF Message
  <2> QED
    BY <2>1, <2>3
<1>2. ASSUME NEW i \in Instance, InitialSync(i) PROVE LeaveInv'
  BY <1>2 DEF InitialSync
<1>3. ASSUME NEW i \in Instance, Subscribe(i) PROVE LeaveInv'
  BY <1>3 DEF Subscribe
<1>4. ASSUME NEW i \in Instance, PublishJoin(i) PROVE LeaveInv'
  <2> DEFINE m == [event |-> "join", id |-> i]
  <2> SUFFICES ASSUME NEW j \in Instance, NEW n \in 1 .. Len(inbox'[j]),
                      inbox'[j][n].event = "leave"
               PROVE  proc'[inbox'[j][n].id] \in Gone
    BY DEF LeaveInv
  <2>1. m \in Message /\ m.event = "join"
    BY DEF Message
  <2>2. inbox'[j] = inbox[j] \/ inbox'[j] = Append(inbox[j], m)
    BY <1>4 DEF PublishJoin, Publish
  <2> HIDE DEF m
  <2>3. n \in 1 .. Len(inbox[j]) /\ inbox'[j][n] = inbox[j][n]
    <3>1. CASE inbox'[j] = inbox[j]
      BY <3>1
    <3>2. CASE inbox'[j] = Append(inbox[j], m)
      <4>1. inbox[j] \in Seq(Message) /\ n \in 1 .. Len(Append(inbox[j], m))
        BY <3>2
      <4>2. \/ n \in 1 .. Len(inbox[j]) /\ Append(inbox[j], m)[n] = inbox[j][n]
            \/ Append(inbox[j], m)[n] = m
        BY ONLY <2>1, <4>1, AppendElement
      <4>3. inbox'[j][n] # m
        BY <2>1
      <4> QED
        BY ONLY <3>2, <4>2, <4>3
    <3> QED
      BY <2>2, <3>1, <3>2
  <2>4. proc[inbox[j][n].id] \in Gone
    BY <2>3 DEF LeaveInv
  <2>5. proc[i] \notin Gone /\ proc' = [proc EXCEPT ![i] = "running"]
    BY <1>4 DEF PublishJoin
  <2> QED
    BY <2>3, <2>4, <2>5
<1>5. ASSUME NEW i \in Instance, HeartbeatTaskStart(i) PROVE LeaveInv'
  BY <1>5 DEF HeartbeatTaskStart
<1>6. ASSUME NEW i \in Instance, Heartbeat(i) PROVE LeaveInv'
  BY <1>6 DEF Heartbeat, TaskAlive
<1>7. ASSUME NEW i \in Instance, Cleanup(i) PROVE LeaveInv'
  BY <1>7 DEF Cleanup, Cleaned
<1>8. ASSUME NEW i \in Instance, HeartbeatFail(i) PROVE LeaveInv'
  BY <1>8 DEF HeartbeatFail, Inject, TaskAlive
<1>9. ASSUME NEW i \in Instance, SyncRead(i) PROVE LeaveInv'
  BY <1>9 DEF SyncRead
<1>10. ASSUME NEW i \in Instance, SyncFail(i) PROVE LeaveInv'
  BY <1>10 DEF SyncFail, Inject, TaskAlive
<1>11. ASSUME NEW i \in Instance, SyncEmit(i) PROVE LeaveInv'
  BY <1>11 DEF SyncEmit
<1>12. ASSUME NEW i \in Instance, SyncStore(i) PROVE LeaveInv'
  BY <1>12 DEF SyncStore
<1>13. ASSUME NEW i \in Instance, HeartbeatTaskExit(i) PROVE LeaveInv'
  BY <1>13 DEF HeartbeatTaskExit
<1>14. ASSUME NEW i \in Instance, PubLoad(i) PROVE LeaveInv'
  BY <1>14 DEF PubLoad
<1>15. ASSUME NEW i \in Instance, PubStore(i) PROVE LeaveInv'
  <2> SUFFICES ASSUME NEW j \in Instance, NEW n \in 1 .. Len(inbox'[j]),
                      inbox'[j][n].event = "leave"
               PROVE  proc'[inbox'[j][n].id] \in Gone
    BY DEF LeaveInv
  <2>1. proc' = proc /\ inbox' = [inbox EXCEPT ![i] = Tail(inbox[i])] /\ inbox[i] # <<>>
    BY <1>15 DEF PubStore
  <2>2. CASE j # i
    BY <2>1, <2>2 DEF LeaveInv
  <2>3. CASE j = i
    <3>1. inbox'[j] = Tail(inbox[j])
      BY <2>1, <2>3
    <3>2. n + 1 \in 1 .. Len(inbox[j]) /\ inbox'[j][n] = inbox[j][n + 1]
      BY <2>1, <2>3, <3>1, TailElement
    <3> QED
      BY <2>1, <3>2 DEF LeaveInv
  <2> QED
    BY <2>2, <2>3
<1>16. ASSUME NEW i \in Instance, PubSubDrop(i) PROVE LeaveInv'
  BY <1>16 DEF PubSubDrop, Inject
<1>17. ASSUME NEW i \in Instance, Resubscribe(i) PROVE LeaveInv'
  BY <1>17 DEF Resubscribe
<1>18. ASSUME NEW i \in Instance, PubTaskExit(i) PROVE LeaveInv'
  BY <1>18 DEF PubTaskExit
<1>19. ASSUME NEW i \in Instance, RefreshClean(i) PROVE LeaveInv'
  BY <1>19 DEF RefreshClean, Call
<1>20. ASSUME NEW i \in Instance, RefreshRead(i) PROVE LeaveInv'
  BY <1>20 DEF RefreshRead
<1>21. ASSUME NEW i \in Instance, RefreshFail(i) PROVE LeaveInv'
  BY <1>21 DEF RefreshFail, Inject
<1>22. ASSUME NEW i \in Instance, RefreshStore(i) PROVE LeaveInv'
  BY <1>22 DEF RefreshStore
<1>23. ASSUME NEW i \in Instance, ForcePublish(i) PROVE LeaveInv'
  BY <1>23 DEF ForcePublish, Call
<1>24. ASSUME NEW i \in Instance, ForceRemove(i) PROVE LeaveInv'
  BY <1>24 DEF ForceRemove, Inject
<1>25. ASSUME NEW i \in Instance, Shutdown(i) PROVE LeaveInv'
  BY <1>25 DEF Shutdown
<1>26. ASSUME NEW i \in Instance, PublishLeave(i) PROVE LeaveInv'
  <2> DEFINE m == [event |-> "leave", id |-> i]
  <2> SUFFICES ASSUME NEW j \in Instance, NEW n \in 1 .. Len(inbox'[j]),
                      inbox'[j][n].event = "leave"
               PROVE  proc'[inbox'[j][n].id] \in Gone
    BY DEF LeaveInv
  <2>1. m \in Message /\ m.id = i
    BY DEF Message
  <2>2. inbox'[j] = inbox[j] \/ inbox'[j] = Append(inbox[j], m)
    BY <1>26 DEF PublishLeave, Publish, Inject
  <2>3. proc' = [proc EXCEPT ![i] = "left"]
    BY <1>26 DEF PublishLeave
  <2> HIDE DEF m
  <2>4. (n \in 1 .. Len(inbox[j]) /\ inbox'[j][n] = inbox[j][n]) \/ inbox'[j][n] = m
    BY <2>1, <2>2, AppendElement
  <2>5. CASE inbox'[j][n] = m
    BY <2>1, <2>3, <2>5
  <2>6. CASE n \in 1 .. Len(inbox[j]) /\ inbox'[j][n] = inbox[j][n]
    BY <2>3, <2>6 DEF LeaveInv
  <2> QED
    BY <2>4, <2>5, <2>6
<1>27. ASSUME NEW i \in Instance, Deregister(i) PROVE LeaveInv'
  BY <1>27 DEF Deregister
<1>28. ASSUME NEW i \in Instance, DeregisterFail(i) PROVE LeaveInv'
  BY <1>28 DEF DeregisterFail, Inject
<1>29. ASSUME NEW i \in Instance, Crash(i) PROVE LeaveInv'
  BY <1>29 DEF Crash, Inject, Die
<1>30. ASSUME NEW i \in Instance, MainExit(i) PROVE LeaveInv'
  BY <1>30 DEF MainExit, Inject, Die
<1>31. CASE Tick
  BY <1>31 DEF Tick, OnTime, TaskAlive
<1>32. CASE UNCHANGED vars
  BY <1>32 DEF vars
<1> HIDE DEF TypeOK, LeaveInv
<1> QED
  BY <1>1, <1>2, <1>3, <1>4, <1>5, <1>6, <1>7, <1>8, <1>9, <1>10, <1>11, <1>12,
     <1>13, <1>14, <1>15, <1>16, <1>17, <1>18, <1>19, <1>20, <1>21, <1>22,
     <1>23, <1>24, <1>25, <1>26, <1>27, <1>28, <1>29, <1>30, <1>31, <1>32
     DEF Next, Start, HeartbeatTask, PubSubTask, Embedder

\* Where the tasks of one instance stand, on one thread.
LEMMA LocalStep ==
  ASSUME ManualOps = {}, MultiThreaded = FALSE, TypeOK, LocalInv, [Next]_vars
  PROVE  LocalInv'
<1> USE DEF TypeOK, LocalInv, ProcState, LockState, redisVars, syncVars, pubVars, budget
<1>1. ASSUME NEW i \in Instance, Register(i) PROVE LocalInv'
  BY <1>1 DEF Register
<1>2. ASSUME NEW i \in Instance, InitialSync(i) PROVE LocalInv'
  BY <1>2 DEF InitialSync
<1>3. ASSUME NEW i \in Instance, Subscribe(i) PROVE LocalInv'
  BY <1>3 DEF Subscribe
<1>4. ASSUME NEW i \in Instance, PublishJoin(i) PROVE LocalInv'
  BY <1>4 DEF PublishJoin
<1>5. ASSUME NEW i \in Instance, HeartbeatTaskStart(i) PROVE LocalInv'
  BY <1>5 DEF HeartbeatTaskStart
<1>6. ASSUME NEW i \in Instance, Heartbeat(i) PROVE LocalInv'
  BY <1>6 DEF Heartbeat, TaskAlive
<1>7. ASSUME NEW i \in Instance, Cleanup(i) PROVE LocalInv'
  BY <1>7 DEF Cleanup, Cleaned
<1>8. ASSUME NEW i \in Instance, HeartbeatFail(i) PROVE LocalInv'
  BY <1>8 DEF HeartbeatFail, Inject, TaskAlive
<1>9. ASSUME NEW i \in Instance, SyncRead(i) PROVE LocalInv'
  BY <1>9 DEF SyncRead, TaskAlive
<1>10. ASSUME NEW i \in Instance, SyncFail(i) PROVE LocalInv'
  BY <1>10 DEF SyncFail, Inject, TaskAlive
<1>11. ASSUME NEW i \in Instance, SyncEmit(i) PROVE LocalInv'
  BY <1>11 DEF SyncEmit
<1>12. ASSUME NEW i \in Instance, SyncStore(i) PROVE LocalInv'
  BY <1>12 DEF SyncStore
<1>13. ASSUME NEW i \in Instance, HeartbeatTaskExit(i) PROVE LocalInv'
  BY <1>13 DEF HeartbeatTaskExit
<1>14. ASSUME NEW i \in Instance, PubLoad(i) PROVE LocalInv'
  BY <1>14 DEF PubLoad
<1>15. ASSUME NEW i \in Instance, PubStore(i) PROVE LocalInv'
  BY <1>15 DEF PubStore
<1>16. ASSUME NEW i \in Instance, PubSubDrop(i) PROVE LocalInv'
  BY <1>16 DEF PubSubDrop, Inject
<1>17. ASSUME NEW i \in Instance, Resubscribe(i) PROVE LocalInv'
  BY <1>17 DEF Resubscribe
<1>18. ASSUME NEW i \in Instance, PubTaskExit(i) PROVE LocalInv'
  BY <1>18 DEF PubTaskExit
<1>19. ASSUME NEW i \in Instance, RefreshClean(i) PROVE LocalInv'
  BY <1>19 DEF RefreshClean, Call
<1>20. ASSUME NEW i \in Instance, RefreshRead(i) PROVE LocalInv'
  BY <1>20 DEF RefreshRead
<1>21. ASSUME NEW i \in Instance, RefreshFail(i) PROVE LocalInv'
  BY <1>21 DEF RefreshFail, Inject
<1>22. ASSUME NEW i \in Instance, RefreshStore(i) PROVE LocalInv'
  BY <1>22 DEF RefreshStore
<1>23. ASSUME NEW i \in Instance, ForcePublish(i) PROVE LocalInv'
  BY <1>23 DEF ForcePublish, Call
<1>24. ASSUME NEW i \in Instance, ForceRemove(i) PROVE LocalInv'
  BY <1>24 DEF ForceRemove, Inject
<1>25. ASSUME NEW i \in Instance, Shutdown(i) PROVE LocalInv'
  BY <1>25 DEF Shutdown
<1>26. ASSUME NEW i \in Instance, PublishLeave(i) PROVE LocalInv'
  BY <1>26 DEF PublishLeave, TasksEnded
<1>27. ASSUME NEW i \in Instance, Deregister(i) PROVE LocalInv'
  BY <1>27 DEF Deregister
<1>28. ASSUME NEW i \in Instance, DeregisterFail(i) PROVE LocalInv'
  BY <1>28 DEF DeregisterFail, Inject
<1>29. ASSUME NEW i \in Instance, Crash(i) PROVE LocalInv'
  BY <1>29 DEF Crash, Inject, Die
<1>30. ASSUME NEW i \in Instance, MainExit(i) PROVE LocalInv'
  BY <1>30 DEF MainExit, Inject, Die
<1>31. CASE Tick
  BY <1>31 DEF Tick, OnTime, TaskAlive
<1>32. CASE UNCHANGED vars
  BY <1>32 DEF vars
<1> HIDE DEF TypeOK, LocalInv
<1> QED
  BY <1>1, <1>2, <1>3, <1>4, <1>5, <1>6, <1>7, <1>8, <1>9, <1>10, <1>11, <1>12,
     <1>13, <1>14, <1>15, <1>16, <1>17, <1>18, <1>19, <1>20, <1>21, <1>22,
     <1>23, <1>24, <1>25, <1>26, <1>27, <1>28, <1>29, <1>30, <1>31, <1>32
     DEF Next, Start, HeartbeatTask, PubSubTask, Embedder

\* A recorded peer leaves the ring only together with the record, or gone.
LEMMA PeersStep ==
  ASSUME ManualOps = {}, MultiThreaded = FALSE, TypeOK, LeaveInv, LocalInv,
         PeersInv, [Next]_vars
  PROVE  PeersInv'
<1> USE DEF TypeOK, LocalInv, PeersInv, Gone, ProcState, LockState, redisVars, syncVars,
            pubVars, budget
<1>1. ASSUME NEW i \in Instance, Register(i) PROVE PeersInv'
  BY <1>1 DEF Register
<1>2. ASSUME NEW i \in Instance, InitialSync(i) PROVE PeersInv'
  BY <1>2 DEF InitialSync
<1>3. ASSUME NEW i \in Instance, Subscribe(i) PROVE PeersInv'
  BY <1>3 DEF Subscribe
<1>4. ASSUME NEW i \in Instance, PublishJoin(i) PROVE PeersInv'
  BY <1>4 DEF PublishJoin
<1>5. ASSUME NEW i \in Instance, HeartbeatTaskStart(i) PROVE PeersInv'
  BY <1>5 DEF HeartbeatTaskStart
<1>6. ASSUME NEW i \in Instance, Heartbeat(i) PROVE PeersInv'
  BY <1>6 DEF Heartbeat, TaskAlive
<1>7. ASSUME NEW i \in Instance, Cleanup(i) PROVE PeersInv'
  BY <1>7 DEF Cleanup, Cleaned
<1>8. ASSUME NEW i \in Instance, HeartbeatFail(i) PROVE PeersInv'
  BY <1>8 DEF HeartbeatFail, Inject, TaskAlive
<1>9. ASSUME NEW i \in Instance, SyncRead(i) PROVE PeersInv'
  BY <1>9 DEF SyncRead
<1>10. ASSUME NEW i \in Instance, SyncFail(i) PROVE PeersInv'
  BY <1>10 DEF SyncFail, Inject, TaskAlive
<1>11. ASSUME NEW i \in Instance, SyncEmit(i) PROVE PeersInv'
  BY <1>11 DEF SyncEmit
<1>12. ASSUME NEW i \in Instance, SyncStore(i) PROVE PeersInv'
  <2>1. proc' = proc
    BY <1>12 DEF SyncStore
  <2>2. \/ ring' = ring /\ prev' = prev
        \/ \E s \in SUBSET Instance : /\ ring' = [ring EXCEPT ![i] = s]
                                     /\ prev' = [prev EXCEPT ![i] = s]
    BY <1>12 DEF SyncStore
  <2>3. CASE ring' = ring /\ prev' = prev
    BY <2>1, <2>3
  <2>4. ASSUME NEW s \in SUBSET Instance, ring' = [ring EXCEPT ![i] = s],
               prev' = [prev EXCEPT ![i] = s]
        PROVE  PeersInv'
    <3> SUFFICES ASSUME NEW k \in Instance, NEW j \in prev'[k], proc[j] \notin Gone
                 PROVE  j \in ring'[k]
      BY <2>1
    <3> QED
      BY <2>4
  <2> QED
    BY <2>2, <2>3, <2>4
<1>13. ASSUME NEW i \in Instance, HeartbeatTaskExit(i) PROVE PeersInv'
  BY <1>13 DEF HeartbeatTaskExit
<1>14. ASSUME NEW i \in Instance, PubLoad(i) PROVE PeersInv'
  BY <1>14 DEF PubLoad
<1>15. ASSUME NEW i \in Instance, PubStore(i) PROVE PeersInv'
  <2>1. /\ inbox[i] # <<>> /\ prev' = prev /\ proc' = proc
        /\ ring' = [ring EXCEPT ![i] = Apply(Head(inbox[i]), ring[i])]
    BY <1>15 DEF PubStore
  <2> DEFINE msg == inbox[i][1]
  <2>2. 1 \in 1 .. Len(inbox[i]) /\ Head(inbox[i]) = msg
    BY <2>1
  <2>3. msg.event = "leave" => proc[msg.id] \in Gone
    BY <2>2 DEF LeaveInv
  <2>4. msg \in Message
    BY <2>2
  <2> HIDE DEF msg
  <2>5. \A j \in ring[i] : j \in Apply(msg, ring[i]) \/ proc[j] \in Gone
    BY <2>3, <2>4 DEF Apply, Message
  <2> QED
    BY <2>1, <2>2, <2>5
<1>16. ASSUME NEW i \in Instance, PubSubDrop(i) PROVE PeersInv'
  BY <1>16 DEF PubSubDrop, Inject
<1>17. ASSUME NEW i \in Instance, Resubscribe(i) PROVE PeersInv'
  BY <1>17 DEF Resubscribe
<1>18. ASSUME NEW i \in Instance, PubTaskExit(i) PROVE PeersInv'
  BY <1>18 DEF PubTaskExit
<1>19. ASSUME NEW i \in Instance, RefreshClean(i) PROVE PeersInv'
  BY <1>19 DEF RefreshClean, Call
<1>20. ASSUME NEW i \in Instance, RefreshRead(i) PROVE PeersInv'
  BY <1>20 DEF RefreshRead
<1>21. ASSUME NEW i \in Instance, RefreshFail(i) PROVE PeersInv'
  BY <1>21 DEF RefreshFail, Inject
<1>22. ASSUME NEW i \in Instance, RefreshStore(i) PROVE PeersInv'
  BY <1>22 DEF RefreshStore
<1>23. ASSUME NEW i \in Instance, ForcePublish(i) PROVE PeersInv'
  BY <1>23 DEF ForcePublish, Call
<1>24. ASSUME NEW i \in Instance, ForceRemove(i) PROVE PeersInv'
  BY <1>24 DEF ForceRemove, Inject
<1>25. ASSUME NEW i \in Instance, Shutdown(i) PROVE PeersInv'
  BY <1>25 DEF Shutdown
<1>26. ASSUME NEW i \in Instance, PublishLeave(i) PROVE PeersInv'
  BY <1>26 DEF PublishLeave
<1>27. ASSUME NEW i \in Instance, Deregister(i) PROVE PeersInv'
  BY <1>27 DEF Deregister
<1>28. ASSUME NEW i \in Instance, DeregisterFail(i) PROVE PeersInv'
  BY <1>28 DEF DeregisterFail, Inject
<1>29. ASSUME NEW i \in Instance, Crash(i) PROVE PeersInv'
  BY <1>29 DEF Crash, Inject, Die
<1>30. ASSUME NEW i \in Instance, MainExit(i) PROVE PeersInv'
  BY <1>30 DEF MainExit, Inject, Die
<1>31. CASE Tick
  BY <1>31 DEF Tick, OnTime, TaskAlive
<1>32. CASE UNCHANGED vars
  BY <1>32 DEF vars
<1> HIDE DEF TypeOK, PeersInv
<1> QED
  BY <1>1, <1>2, <1>3, <1>4, <1>5, <1>6, <1>7, <1>8, <1>9, <1>10, <1>11, <1>12,
     <1>13, <1>14, <1>15, <1>16, <1>17, <1>18, <1>19, <1>20, <1>21, <1>22,
     <1>23, <1>24, <1>25, <1>26, <1>27, <1>28, <1>29, <1>30, <1>31, <1>32
     DEF Next, Start, HeartbeatTask, PubSubTask, Embedder

\* On a single-threaded runtime without manual calls, a running peer that the
\* last full sync recorded is in the ring: a missing peer is one the next sync
\* adds, whatever messages were lost and whichever processes crashed.
THEOREM SyncedPeersStayHolds ==
  (ManualOps = {} /\ MultiThreaded = FALSE) => (Spec => []SyncedPeersStay)
<1> SUFFICES ASSUME ManualOps = {}, MultiThreaded = FALSE
             PROVE  Spec => []SyncedPeersStay
  OBVIOUS
<1> DEFINE IInv == LeaveInv /\ LocalInv /\ PeersInv
<1>1. Init => IInv
  BY DEF Init, LeaveInv, LocalInv, PeersInv
<1>2. TypeOK /\ IInv /\ [Next]_vars => IInv'
  BY LeaveStep, LocalStep, PeersStep
<1>3. TypeOK /\ IInv => SyncedPeersStay
  BY DEF TypeOK, PeersInv, SyncedPeersStay, Running, Gone
<1> HIDE DEF IInv
<1> QED
  BY <1>1, <1>2, <1>3, TypeCorrect, PTL DEF Spec

=============================================================================
