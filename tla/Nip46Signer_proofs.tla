------------------------- MODULE Nip46Signer_proofs -------------------------
(* Theorems about Nip46Signer, for every number of instances, workers,     *)
(* sessions, clients, requests and API calls.                              *)
EXTENDS Nip46Signer, TLAPS

Sent == {r \in Req : req[r] # Unsent}

\* What a worker serves, and what waits for one, has been sent.
SentInv ==
  /\ \A i \in Instance : queue[i] \in Seq(Sent)
  /\ \A w \in Worker : pc[w] # "idle" => job[w] \in Sent

\* A worker at work has a request of the declared type.
LEMMA JobType ==
  ASSUME TypeOK, SentInv, NEW w \in Worker, pc[w] # "idle"
  PROVE  /\ Home[w] \in Instance /\ job[w] \in Req /\ req[job[w]] \in Request
         /\ Target(w) \in Bunker /\ Sender(w) \in Client /\ Method(w) \in Methods
<1>1. /\ job[w] \in Req /\ req[job[w]] # Unsent
  BY DEF SentInv, Sent
<1>2. req[job[w]] \in Request
  BY <1>1 DEF TypeOK
<1> QED
  BY <1>1, <1>2, WorkerAssumption DEF Request, Target, Sender, Method

\* Finishing a request leaves a worker idle and records a known outcome.
LEMMA FinishType ==
  ASSUME TypeOK, NEW w \in Worker, NEW outcome \in Outcome, Finish(w, outcome)
  PROVE  /\ pc' \in [Worker -> WorkerPc]
         /\ job' \in [Worker -> Req \cup {"none"}]
         /\ held' \in [Worker -> Status \cup {"none"}]
         /\ out' \in [Instance -> [Req -> Outcome]]
<1>1. /\ pc' \in [Worker -> WorkerPc]
      /\ job' \in [Worker -> Req \cup {"none"}]
      /\ held' \in [Worker -> Status \cup {"none"}]
  BY DEF TypeOK, Finish, Step, WorkerPc
<1>2. out' \in [Instance -> [Req -> Outcome]]
  BY DEF TypeOK, Finish
<1> QED
  BY <1>1, <1>2

\* Every step keeps the types.
LEMMA TypeStep ==
  ASSUME TypeOK, SentInv, [Next]_vars
  PROVE  TypeOK'
<1> USE WorkerAssumption, InputAssumption, CapAssumption, FaultAssumption
    DEF rows, api, work, history
<1>1. CASE UNCHANGED vars
  BY <1>1 DEF TypeOK, vars
<1>2. ASSUME NEW a \in Call, Api(a) PROVE TypeOK'
  <2>1. ASSUME NEW i \in Instance, NEW b \in Bunker, NEW operation, NEW next \in {"update", "send", "done"},
               Begin(a, operation, i, b, next)
        PROVE  call' \in [Call -> ApiCall \cup {Unused}]
    <3> DEFINE c == [pc |-> next, op |-> operation, at |-> i, bunker |-> b]
    <3>1. c \in ApiCall
      BY <2>1 DEF Begin, ApiCall
    <3> HIDE DEF c
    <3>2. call' = [call EXCEPT ![a] = c]
      BY <2>1 DEF Begin, c
    <3> QED
      BY <3>1, <3>2 DEF TypeOK
  <2>2. ASSUME NEW next \in {"send", "done"}, call[a].pc \in {"update", "send"}, Proceed(a, next)
        PROVE  call' \in [Call -> ApiCall \cup {Unused}]
    <3>1. call[a] \in ApiCall
      BY <2>2 DEF TypeOK, Unused
    <3>2. [call[a] EXCEPT !.pc = next] \in ApiCall
      BY <3>1, <2>2 DEF ApiCall
    <3>3. call' = [call EXCEPT ![a] = [call[a] EXCEPT !.pc = next]]
      BY <2>2 DEF Proceed
    <3> QED
      BY <3>2, <3>3 DEF TypeOK
  <2>3. ASSUME NEW i \in Instance, NEW b \in Bunker, Create(a, i, b) PROVE TypeOK'
    <3>1. call' \in [Call -> ApiCall \cup {Unused}]
      BY <2>3, <2>1 DEF Create
    <3> QED
      BY <2>3, <3>1 DEF Create, TypeOK, RowState
  <2>4. ASSUME NEW i \in Instance, NEW b \in Bunker, RevokeCheck(a, i, b) PROVE TypeOK'
    <3>1. call' \in [Call -> ApiCall \cup {Unused}]
      BY <2>4, <2>1 DEF RevokeCheck
    <3> QED
      BY <2>4, <3>1 DEF RevokeCheck, TypeOK
  <2>5. ASSUME NEW i \in Instance, NEW b \in Bunker, ReauthRevoke(a, i, b) PROVE TypeOK'
    <3>1. call' \in [Call -> ApiCall \cup {Unused}]
      BY <2>5, <2>1 DEF ReauthRevoke
    <3> QED
      BY <2>5, <3>1 DEF ReauthRevoke, TypeOK, RowState
  <2>6. ASSUME NEW i \in Instance, NEW b \in Bunker, DisconnectClient(a, i, b) PROVE TypeOK'
    <3>1. call' \in [Call -> ApiCall \cup {Unused}]
      BY <2>6, <2>1 DEF DisconnectClient
    <3> QED
      BY <2>6, <3>1 DEF DisconnectClient, TypeOK
  <2>7. ASSUME NEW i \in Instance, NEW b \in Bunker, DeleteTeamRow(a, i, b) PROVE TypeOK'
    <3>1. call' \in [Call -> ApiCall \cup {Unused}]
      BY <2>7, <2>1 DEF DeleteTeamRow
    <3> QED
      BY <2>7, <3>1 DEF DeleteTeamRow, TypeOK, RowState
  <2>8. ASSUME NEW i \in Instance, NEW b \in Bunker, NEW operation, DeleteRow(a, operation, i, b)
        PROVE  TypeOK'
    <3>1. call' \in [Call -> ApiCall \cup {Unused}]
      BY <2>8, <2>1 DEF DeleteRow
    <3> QED
      BY <2>8, <3>1 DEF DeleteRow, TypeOK, RowState
  <2>9. ASSUME RevokeUpdate(a) PROVE TypeOK'
    <3>1. call' \in [Call -> ApiCall \cup {Unused}]
      BY <2>9, <2>2 DEF RevokeUpdate
    <3> QED
      BY <2>9, <3>1 DEF RevokeUpdate, TypeOK, RowState
  <2>10. ASSUME SendCommand(a) PROVE TypeOK'
    <3>1. call' \in [Call -> ApiCall \cup {Unused}]
      BY <2>10, <2>2 DEF SendCommand
    <3>2. call[a] \in ApiCall
      BY <2>10 DEF SendCommand, TypeOK, Unused
    <3>3. CommandOf(a) \in Command
      BY <3>2 DEF CommandOf, Command, ApiCall
    <3>4. cmds' \in [Instance -> Seq(Command)]
      BY <2>10, <3>2, <3>3 DEF SendCommand, TypeOK, ApiCall
    <3> QED
      BY <2>10, <3>1, <3>4 DEF SendCommand, TypeOK
  <2>11. ASSUME Abandon(a) PROVE TypeOK'
    <3>1. call' \in [Call -> ApiCall \cup {Unused}]
      BY <2>11, <2>2 DEF Abandon
    <3> QED
      BY <2>11, <3>1 DEF Abandon, TypeOK, Inject
  <2> QED
    BY <1>2, <2>3, <2>4, <2>5, <2>6, <2>7, <2>8, <2>9, <2>10, <2>11 DEF Api
<1>3. ASSUME NEW i \in Instance, CommandTask(i) PROVE TypeOK'
  <2>1. ASSUME cmds[i] # <<>> PROVE /\ Tail(cmds[i]) \in Seq(Command)
                                    /\ Head(cmds[i]) \in Command
    BY <2>1 DEF TypeOK
  <2>2. CASE UpsertLoad(i)
    BY <2>2 DEF UpsertLoad, TypeOK
  <2>3. CASE UpsertInsert(i)
    BY <2>3, <2>1 DEF UpsertInsert, CommandIs, TypeOK, Status
  <2>4. CASE UpsertDrop(i)
    BY <2>4, <2>1 DEF UpsertDrop, CommandIs, Inject, TypeOK
  <2>5. CASE RemoveCommand(i)
    <3> DEFINE b == Head(cmds[i]).bunker
    <3>1. ASSUME b \in Bunker
          PROVE  /\ cache' \in [Instance -> [Bunker -> Status \cup {"none"}]]
                 /\ told' \in [Instance -> [Bunker -> {"no", "clean", "racing"}]]
      <4>1. cache' \in [Instance -> [Bunker -> Status \cup {"none"}]]
        <5>1. cache' = [cache EXCEPT ![i][b] = IF @ = "none" THEN "none" ELSE "Revoked"]
          BY <2>5, <3>1 DEF RemoveCommand, Tombstoned
        <5> HIDE DEF b
        <5> QED
          BY <3>1, <5>1 DEF TypeOK, Status
      <4>2. told' \in [Instance -> [Bunker -> {"no", "clean", "racing"}]]
        <5>1. told' = [told EXCEPT ![i][b] =
                         IF @ = "racing" \/ Loading(i, b) # {} THEN "racing" ELSE "clean"]
          BY <2>5, <3>1 DEF RemoveCommand
        <5> HIDE DEF b
        <5> QED
          BY <3>1, <5>1 DEF TypeOK
      <4> QED
        BY <4>1, <4>2
    <3>2. cmds' \in [Instance -> Seq(Command)]
      BY <2>5, <2>1 DEF RemoveCommand, CommandIs, TypeOK
    <3> QED
      BY <2>5, <3>1, <3>2 DEF RemoveCommand, TypeOK
  <2> QED
    BY <1>3, <2>2, <2>3, <2>4, <2>5 DEF CommandTask
<1>4. ASSUME NEW i \in Instance, Restart(i) PROVE TypeOK'
  <2>1. call' \in [Call -> ApiCall \cup {Unused}]
    <3>1. ASSUME NEW a \in Call, call[a].pc \in {"update", "send"}
          PROVE  [call[a] EXCEPT !.pc = "done"] \in ApiCall
      <4>1. call[a] \in ApiCall
        BY <3>1 DEF TypeOK, Unused
      <4> QED
        BY <4>1 DEF ApiCall
    <3>2. call' = [a \in Call |->
                    IF call[a].pc \in {"update", "send"} /\ call[a].at = i
                    THEN [call[a] EXCEPT !.pc = "done"] ELSE call[a]]
      BY <1>4 DEF Restart
    <3> QED
      BY <3>1, <3>2 DEF TypeOK
  <2>2. out' \in [Instance -> [Req -> Outcome]]
    BY <1>4 DEF Restart, TypeOK, Outcome
  <2>3. /\ pc' \in [Worker -> WorkerPc]
        /\ job' \in [Worker -> Req \cup {"none"}]
        /\ held' \in [Worker -> Status \cup {"none"}]
    BY <1>4 DEF Restart, TypeOK, WorkerPc
  <2>4. /\ cache' \in [Instance -> [Bunker -> Status \cup {"none"}]]
        /\ cmds' \in [Instance -> Seq(Command)]
        /\ queue' \in [Instance -> Seq(Req)]
        /\ cmdPc' \in [Instance -> {"idle", "loaded"}]
    BY <1>4 DEF Restart, TypeOK
  <2>5. UNCHANGED <<rows, req, history>> /\ faults' \in Nat
    BY <1>4 DEF Restart, Inject, TypeOK
  <2> QED
    BY <2>1, <2>2, <2>3, <2>4, <2>5 DEF TypeOK
<1>5. ASSUME NEW i \in Instance, NEW b \in Bunker, Evict(i, b) PROVE TypeOK'
  BY <1>5 DEF Evict, TypeOK
<1>6. ASSUME NEW b \in Bunker, Expire(b) PROVE TypeOK'
  BY <1>6 DEF Expire, TypeOK, RowState
<1>7. ASSUME NEW r \in Req, Send(r) PROVE TypeOK'
  <2>1. PICK b \in Bunker, c \in Client, m \in Methods :
          /\ req' = [req EXCEPT ![r] = [bunker |-> b, client |-> c, method |-> m]]
          /\ sentTo' = [sentTo EXCEPT ![r] = row[b]]
    BY <1>7 DEF Send
  <2>2. req' \in [Req -> Request \cup {Unsent}]
    <3>1. [bunker |-> b, client |-> c, method |-> m] \in Request
      BY DEF Request
    <3> QED
      BY <2>1, <3>1 DEF TypeOK
  <2>3. sentTo' \in [Req -> RowState]
    BY <2>1 DEF TypeOK
  <2>4. queue' \in [Instance -> Seq(Req)]
    BY <1>7 DEF Send, TypeOK
  <2>5. out' \in [Instance -> [Req -> Outcome]]
    BY <1>7 DEF Send, TypeOK, Outcome
  <2> QED
    BY <1>7, <2>2, <2>3, <2>4, <2>5 DEF Send, TypeOK
<1>8. ASSUME NEW w \in Worker, WorkerLoop(w) PROVE TypeOK'
  <2>1. ASSUME NEW next \in WorkerPc, Step(w, next) PROVE pc' \in [Worker -> WorkerPc]
    BY <2>1 DEF Step, TypeOK
  <2>2. ASSUME Dequeue(w)
        PROVE  /\ queue' \in [Instance -> Seq(Req)]
               /\ Head(queue[Home[w]]) \in Req
    <3>1. queue[Home[w]] \in Seq(Req) /\ queue[Home[w]] # <<>>
      BY <2>2 DEF Dequeue, TypeOK
    <3>2. Tail(queue[Home[w]]) \in Seq(Req) /\ Head(queue[Home[w]]) \in Req
      BY <3>1
    <3> QED
      BY <2>2, <3>2 DEF Dequeue, TypeOK
  <2>3. CASE Skip(w)
    <3>1. out' \in [Instance -> [Req -> Outcome]]
      <4> DEFINE r == Head(queue[Home[w]])
      <4>1. out' = [out EXCEPT ![Home[w]][r] = "skipped"]
        BY <2>3 DEF Skip
      <4> HIDE DEF r
      <4> QED
        BY <4>1 DEF TypeOK, Outcome
    <3> QED
      BY <2>2, <2>3, <3>1 DEF Skip, TypeOK
  <2>4. CASE Take(w)
    <3> DEFINE r == Head(queue[Home[w]])
               status == cache[Home[w]][req[r].bunker]
               next == IF status = "none" THEN "miss" ELSE "have"
    <3>1. r \in Sent /\ queue' \in [Instance -> Seq(Req)]
      BY <2>2, <2>4 DEF Take, Dequeue, SentInv
    <3>2. /\ job' = [job EXCEPT ![w] = r]
          /\ held' = [held EXCEPT ![w] = status]
          /\ Step(w, next)
      BY <2>4 DEF Take
    <3>3. req[r] \in Request
      BY <3>1 DEF TypeOK, Sent
    <3>4. status \in Status \cup {"none"}
      BY <3>3 DEF TypeOK, Request
    <3>5. next \in WorkerPc
      BY DEF WorkerPc
    <3> HIDE DEF r, status, next
    <3>6. pc' \in [Worker -> WorkerPc]
      BY <2>1, <3>2, <3>5
    <3>7. job' \in [Worker -> Req \cup {"none"}]
      BY <3>1, <3>2 DEF TypeOK, Sent
    <3>8. held' \in [Worker -> Status \cup {"none"}]
      BY <3>2, <3>4 DEF TypeOK
    <3> QED
      BY <2>4, <3>1, <3>6, <3>7, <3>8 DEF Take, TypeOK
  <2>5. CASE LoadRow(w)
    <3>1. CASE Exists(Target(w))
      <4>1. RowStatus(Target(w)) \in Status
        BY DEF RowStatus, Status
      <4>2. pc' \in [Worker -> WorkerPc]
        BY <2>5, <3>1, <2>1 DEF LoadRow, WorkerPc
      <4>3. held' = [held EXCEPT ![w] = RowStatus(Target(w))]
        BY <2>5, <3>1 DEF LoadRow
      <4>4. held' \in [Worker -> Status \cup {"none"}]
        BY <4>1, <4>3 DEF TypeOK
      <4> QED
        BY <2>5, <3>1, <4>2, <4>4 DEF LoadRow, TypeOK
    <3>2. CASE ~Exists(Target(w))
      <4>1. Finish(w, "ignored")
        BY <2>5, <3>2 DEF LoadRow
      <4> QED
        BY <2>5, <4>1, FinishType DEF LoadRow, TypeOK, Outcome
    <3> QED
      BY <3>1, <3>2
  <2>6. CASE Insert(w)
    <3> DEFINE b == Target(w)
    <3>1. pc[w] # "idle"
      BY <2>6 DEF Insert
    <3>2. b \in Bunker /\ Home[w] \in Instance
      BY <3>1, JobType
    <3>3. cache' = [cache EXCEPT ![Home[w]][b] = held[w]]
      BY <2>6 DEF Insert
    <3> HIDE DEF b
    <3>4. cache' \in [Instance -> [Bunker -> Status \cup {"none"}]]
      BY <3>2, <3>3 DEF TypeOK
    <3>5. pc' \in [Worker -> WorkerPc]
      BY <2>6, <2>1 DEF Insert, WorkerPc
    <3> QED
      BY <2>6, <3>4, <3>5 DEF Insert, TypeOK
  <2>7. CASE LoadFail(w)
    <3>1. Finish(w, "failed") /\ faults' \in Nat
      BY <2>7 DEF LoadFail, Inject, TypeOK
    <3> QED
      BY <2>7, <3>1, FinishType DEF LoadFail, TypeOK, Outcome
  <2>8. CASE Tombstone(w)
    BY <2>8, FinishType DEF Tombstone, TypeOK, Outcome
  <2>9. CASE GetPublicKey(w)
    BY <2>9, FinishType DEF GetPublicKey, TypeOK, Outcome
  <2>10. ASSUME pc[w] # "idle", Accept(w)
         PROVE  served' \in [Bunker -> SUBSET Client]
    <3> DEFINE b == Target(w)
               c == Sender(w)
    <3>1. b \in Bunker /\ c \in Client
      BY <2>10, JobType
    <3>2. served' = [served EXCEPT ![b] = @ \cup {c}]
      BY <2>10 DEF Accept
    <3> HIDE DEF b, c
    <3> QED
      BY <3>1, <3>2 DEF TypeOK
  <2>11. ASSUME pc[w] # "idle", StoreClient(w)
         PROVE  client' \in [Bunker -> Client \cup {"nobody"}]
    <3> DEFINE b == Target(w)
               c == Sender(w)
    <3>1. b \in Bunker /\ c \in Client
      BY <2>11, JobType
    <3>2. client' = [client EXCEPT ![b] = c] \/ client' = client
      BY <2>11 DEF StoreClient
    <3> HIDE DEF b, c
    <3> QED
      BY <3>1, <3>2 DEF TypeOK
  <2>12. CASE ConnectCheck(w)
    <3>1. pc[w] # "idle"
      BY <2>12 DEF ConnectCheck, Dispatch
    <3>2. CASE Accept(w) /\ Finish(w, "ok") /\ UNCHANGED contested
      BY <2>12, <2>10, <3>1, <3>2, FinishType DEF ConnectCheck, TypeOK, Outcome
    <3>3. CASE Enter(w, "connectStore") /\ UNCHANGED <<job, held, out, served>>
      <4>1. contested' \in SUBSET Bunker /\ Step(w, "connectStore")
        BY <3>1, <3>3, JobType DEF Enter, TypeOK
      <4> QED
        BY <2>12, <2>1, <3>3, <4>1 DEF ConnectCheck, TypeOK, WorkerPc
    <3>4. CASE Finish(w, "error") /\ UNCHANGED <<served, contested>>
      BY <2>12, <3>4, FinishType DEF ConnectCheck, TypeOK, Outcome
    <3> QED
      BY <2>12, <3>2, <3>3, <3>4 DEF ConnectCheck
  <2>13. CASE ConnectStore(w)
    <3>1. pc[w] # "idle" /\ Accept(w) /\ StoreClient(w) /\ Finish(w, "ok")
      BY <2>13 DEF ConnectStore
    <3> QED
      BY <2>13, <2>10, <2>11, <3>1, FinishType DEF ConnectStore, TypeOK, Outcome
  <2>14. CASE ValidateClient(w)
    <3>1. pc[w] # "idle"
      BY <2>14 DEF ValidateClient, Dispatch
    <3>2. CASE Step(w, "validated") /\ Accept(w)
      BY <2>14, <2>1, <2>10, <3>1, <3>2 DEF ValidateClient, TypeOK, WorkerPc
    <3>3. CASE Step(w, "claim") /\ UNCHANGED served
      BY <2>14, <2>1, <3>3 DEF ValidateClient, TypeOK, WorkerPc
    <3> QED
      BY <2>14, <3>2, <3>3 DEF ValidateClient
  <2>15. CASE ClaimCheck(w)
    <3>1. CASE Enter(w, "claimStore") /\ UNCHANGED <<job, held, out>>
      <4>1. contested' \in SUBSET Bunker /\ Step(w, "claimStore")
        BY <2>15, <3>1, JobType DEF ClaimCheck, Enter, TypeOK
      <4> QED
        BY <2>15, <2>1, <3>1, <4>1 DEF ClaimCheck, TypeOK, WorkerPc
    <3>2. CASE Finish(w, "error") /\ UNCHANGED contested
      BY <2>15, <3>2, FinishType DEF ClaimCheck, TypeOK, Outcome
    <3> QED
      BY <2>15, <3>1, <3>2 DEF ClaimCheck
  <2>16. CASE ClaimStore(w)
    <3>1. pc[w] # "idle" /\ Accept(w) /\ StoreClient(w) /\ Step(w, "validated")
      BY <2>16 DEF ClaimStore
    <3>2. pc' \in [Worker -> WorkerPc]
      BY <2>1, <3>1 DEF WorkerPc
    <3> QED
      BY <2>16, <2>10, <2>11, <3>1, <3>2 DEF ClaimStore, TypeOK
  <2>17. CASE SkipValidation(w)
    BY <2>17, <2>1 DEF SkipValidation, TypeOK, WorkerPc
  <2>18. CASE Encrypt(w) \/ SignEvent(w)
    <3>1. PICK outcome \in {"ok", "failed"} : Finish(w, outcome)
      BY <2>18 DEF Encrypt, SignEvent
    <3> QED
      BY <2>18, <3>1, FinishType DEF Encrypt, SignEvent, TypeOK, Outcome
  <2> QED
    BY <1>8, <2>3, <2>4, <2>5, <2>6, <2>7, <2>8, <2>9, <2>12, <2>13, <2>14, <2>15,
       <2>16, <2>17, <2>18 DEF WorkerLoop
<1> QED
  BY <1>1, <1>2, <1>3, <1>4, <1>5, <1>6, <1>7, <1>8 DEF Next

\* Every step keeps to requests that have been sent.
LEMMA SentStep ==
  ASSUME TypeOK, SentInv, [Next]_vars
  PROVE  SentInv'
<1> USE WorkerAssumption DEF rows, api, work, history
<1>1. ASSUME UNCHANGED <<queue, pc, job, req>> PROVE SentInv'
  BY <1>1 DEF SentInv, Sent
<1>2. CASE UNCHANGED vars
  BY <1>1, <1>2 DEF vars
<1>3. ASSUME NEW a \in Call, Api(a) PROVE SentInv'
  BY <1>1, <1>3 DEF Api, Create, RevokeCheck, ReauthRevoke, DisconnectClient, DeleteTeamRow,
     DeleteRow, RevokeUpdate, SendCommand, Abandon
<1>4. ASSUME NEW i \in Instance, CommandTask(i) PROVE SentInv'
  BY <1>1, <1>4 DEF CommandTask, UpsertLoad, UpsertInsert, UpsertDrop, RemoveCommand
<1>5. ASSUME NEW i \in Instance, Restart(i) PROVE SentInv'
  <2>1. /\ queue' = [queue EXCEPT ![i] = <<>>] /\ UNCHANGED req
        /\ \A w \in Worker : pc'[w] # "idle" => pc'[w] = pc[w] /\ job'[w] = job[w]
    BY <1>5 DEF Restart, TypeOK
  <2>2. Sent' = Sent
    BY <2>1 DEF Sent
  <2> QED
    BY <2>1, <2>2 DEF SentInv, TypeOK
<1>6. ASSUME NEW i \in Instance, NEW b \in Bunker, Evict(i, b) PROVE SentInv'
  BY <1>1, <1>6 DEF Evict
<1>7. ASSUME NEW b \in Bunker, Expire(b) PROVE SentInv'
  BY <1>1, <1>7 DEF Expire
<1>8. ASSUME NEW r \in Req, Send(r) PROVE SentInv'
  <2>1. PICK m \in Request : req' = [req EXCEPT ![r] = m]
    BY <1>8 DEF Send, Request
  <2>2. m # Unsent
    BY InputAssumption DEF Request, Unsent, Sensitive
  <2>3. Sent \subseteq Sent' /\ r \in Sent'
    BY <2>1, <2>2 DEF Sent, TypeOK
  <2>4. ASSUME NEW i \in Instance PROVE queue'[i] \in Seq(Sent')
    <3>1. queue[i] \in Seq(Sent')
      BY <2>3 DEF SentInv
    <3>2. Append(queue[i], r) \in Seq(Sent')
      BY <2>3, <3>1
    <3> QED
      BY <1>8, <3>1, <3>2 DEF Send
  <2>5. UNCHANGED <<pc, job>>
    BY <1>8 DEF Send
  <2> QED
    BY <2>3, <2>4, <2>5 DEF SentInv
<1>9. ASSUME NEW w \in Worker, WorkerLoop(w) PROVE SentInv'
  <2>1. ASSUME NEW outcome, Finish(w, outcome), UNCHANGED <<queue, req>> PROVE SentInv'
    BY <2>1 DEF Finish, Step, SentInv, Sent, TypeOK
  <2>2. ASSUME NEW next, pc[w] # "idle", Step(w, next), UNCHANGED <<job, queue, req>> PROVE SentInv'
    BY <2>2 DEF Step, SentInv, Sent, TypeOK
  <2>3. ASSUME Dequeue(w), UNCHANGED req
        PROVE  /\ Sent' = Sent /\ Head(queue[Home[w]]) \in Sent
               /\ \A i \in Instance : queue'[i] \in Seq(Sent)
    <3>1. queue[Home[w]] \in Seq(Sent) /\ queue[Home[w]] # <<>>
      BY <2>3 DEF Dequeue, SentInv
    <3>2. Tail(queue[Home[w]]) \in Seq(Sent) /\ Head(queue[Home[w]]) \in Sent
      BY <3>1
    <3> QED
      BY <2>3, <3>2 DEF Dequeue, SentInv, Sent, TypeOK
  <2>4. CASE Skip(w)
    BY <2>3, <2>4 DEF Skip, SentInv
  <2>5. CASE Take(w)
    <3>1. /\ Dequeue(w) /\ UNCHANGED req
          /\ job' = [job EXCEPT ![w] = Head(queue[Home[w]])]
          /\ \A v \in Worker : v # w => pc'[v] = pc[v]
      BY <2>5 DEF Take, Step, TypeOK
    <3> QED
      BY <2>3, <3>1 DEF SentInv, TypeOK
  <2>6. CASE LoadRow(w)
    BY <2>1, <2>2, <2>6 DEF LoadRow
  <2>7. CASE Insert(w) \/ LoadFail(w) \/ Tombstone(w) \/ GetPublicKey(w)
    BY <2>1, <2>2, <2>7 DEF Insert, LoadFail, Tombstone, GetPublicKey
  <2>8. CASE ConnectCheck(w) \/ ConnectStore(w)
    BY <2>1, <2>2, <2>8 DEF ConnectCheck, Enter, ConnectStore, Dispatch
  <2>9. CASE ValidateClient(w) \/ SkipValidation(w)
    BY <2>1, <2>2, <2>9 DEF ValidateClient, SkipValidation, Dispatch
  <2>10. CASE ClaimCheck(w) \/ ClaimStore(w) \/ Encrypt(w) \/ SignEvent(w)
    BY <2>1, <2>2, <2>10 DEF ClaimCheck, Enter, ClaimStore, Encrypt, SignEvent
  <2> QED
    BY <1>9, <2>4, <2>5, <2>6, <2>7, <2>8, <2>9, <2>10 DEF WorkerLoop
<1> QED
  BY <1>2, <1>3, <1>4, <1>5, <1>6, <1>7, <1>8, <1>9 DEF Next

\* Every variable keeps its type: only known commands, requests and statuses pass
\* through the channel, the queue and the cache; and no worker of any instance
\* serves a request nobody sent.
THEOREM SignerTypeCorrect == Spec => [](TypeOK /\ SentInv)
<1>1. Init => TypeOK /\ SentInv
  <2>1. Init => TypeOK
    BY FaultAssumption DEF Init, TypeOK, RowState, Status, WorkerPc, Outcome
  <2>2. Init => SentInv
    BY DEF Init, SentInv
  <2> QED
    BY <2>1, <2>2
<1>2. TypeOK /\ SentInv /\ [Next]_vars => (TypeOK /\ SentInv)'
  BY TypeStep, SentStep
<1> QED
  BY <1>1, <1>2, PTL DEF Spec

-----------------------------------------------------------------------------
(* What one step can do                                                    *)

Ended(b) == row[b] \in {"revoked", "deleted"}

\* What may become of a row in one step.
RowMove(b) ==
  \/ row'[b] = row[b]
  \/ row[b] = "absent" /\ row'[b] = "active"
  \/ row[b] = "active" /\ row'[b] = "revoked"
  \/ row[b] = "active" /\ row'[b] = "expired" /\ b \in Team
  \/ Exists(b) /\ row'[b] = "deleted"

\* A row is created once, ends once, and stays deleted.
LEMMA RowStep ==
  ASSUME TypeOK, [Next]_vars, NEW b \in Bunker
  PROVE  RowMove(b)
<1> USE DEF rows, TypeOK, RowMove
<1>1. CASE UNCHANGED vars
  BY <1>1 DEF vars
<1>2. ASSUME NEW a \in Call, Api(a) PROVE RowMove(b)
  <2>1. ASSUME NEW i \in Instance, NEW c \in Bunker, Create(a, i, c) PROVE RowMove(b)
    BY <2>1 DEF Create
  <2>2. ASSUME NEW i \in Instance, NEW c \in Bunker, ReauthRevoke(a, i, c) PROVE RowMove(b)
    BY <2>2 DEF ReauthRevoke, Live
  <2>3. ASSUME NEW i \in Instance, NEW c \in Bunker, RevokeCheck(a, i, c) \/ DisconnectClient(a, i, c)
        PROVE  RowMove(b)
    BY <2>3 DEF RevokeCheck, DisconnectClient
  <2>4. ASSUME NEW i \in Instance, NEW c \in Bunker, DeleteTeamRow(a, i, c) PROVE RowMove(b)
    BY <2>4 DEF DeleteTeamRow, Exists
  <2>5. ASSUME NEW i \in Instance, NEW c \in Bunker, NEW operation, DeleteRow(a, operation, i, c)
        PROVE  RowMove(b)
    BY <2>5 DEF DeleteRow, Exists
  <2>6. CASE RevokeUpdate(a)
    BY <2>6 DEF RevokeUpdate, Live
  <2>7. CASE SendCommand(a) \/ Abandon(a)
    BY <2>7 DEF SendCommand, Abandon
  <2> QED
    BY <1>2, <2>1, <2>2, <2>3, <2>4, <2>5, <2>6, <2>7 DEF Api
<1>3. ASSUME NEW i \in Instance, CommandTask(i) \/ Restart(i) PROVE row' = row
  BY <1>3 DEF CommandTask, UpsertLoad, UpsertInsert, UpsertDrop, RemoveCommand, Restart
<1>4. ASSUME NEW i \in Instance, NEW c \in Bunker, Evict(i, c) PROVE row' = row
  BY <1>4 DEF Evict
<1>5. ASSUME NEW c \in Bunker, Expire(c) PROVE RowMove(b)
  BY <1>5 DEF Expire, Live
<1>6. ASSUME NEW r \in Req, Send(r) PROVE row' = row
  BY <1>6 DEF Send
<1>7. ASSUME NEW w \in Worker, WorkerLoop(w) PROVE row' = row
  BY <1>7 DEF WorkerLoop, Skip, Take, LoadRow, Insert, LoadFail, Tombstone, GetPublicKey,
     ConnectCheck, ConnectStore, ValidateClient, ClaimCheck, ClaimStore, SkipValidation, Encrypt, SignEvent
<1> QED
  BY <1>1, <1>2, <1>3, <1>4, <1>5, <1>6, <1>7 DEF Next

\* The conditions under which a worker answers its request...
Answers(w) ==
  /\ Method(w) \in Sensitive => pc[w] \in {"validated", "connectStore"}
  /\ Method(w) = "sign_event" => pc[w] = "connectStore" \/ Exists(Target(w))

\* ... or moves on with it.
Moves(w, next) ==
  \/ pc[w] = "miss" /\ next = "loading"
  \/ pc[w] = "loading" /\ next = "have"
  \/ pc[w] = "have" /\ next = "connectStore" /\ Method(w) = "connect"
  \/ /\ pc[w] = "have" /\ next = "claim"
     /\ Method(w) \in Sensitive /\ OAuth(w)
  \/ pc[w] = "claim" /\ next = "claimStore" /\ Claimable(Target(w))
  \/ pc[w] = "claimStore" /\ next = "validated"
  \/ /\ pc[w] = "have" /\ next = "validated" /\ Method(w) \in Sensitive
     /\ OAuth(w) => Connected(Target(w), Sender(w))

WorkerMove(w) ==
  /\ UNCHANGED <<row, call, cmds, cmdPc, req, sentTo, told>>
  /\ \/ Skip(w)
     \/ Take(w)
     \/ /\ pc[w] # "idle" /\ UNCHANGED queue
        /\ \E outcome : Finish(w, outcome) /\ (outcome = "ok" => Answers(w))
     \/ /\ pc[w] # "idle" /\ UNCHANGED <<queue, job, out>>
        /\ \E next : Step(w, next) /\ Moves(w, next)

\* Every step of a worker is of one of these kinds.
LEMMA WorkerStep ==
  ASSUME NEW w \in Worker, WorkerLoop(w)
  PROVE  WorkerMove(w)
<1> USE DEF rows, api, history, work, WorkerMove
<1>1. CASE Skip(w) \/ Take(w)
  BY <1>1 DEF Skip, Take
<1>2. CASE LoadRow(w) \/ Insert(w) \/ LoadFail(w) \/ Tombstone(w)
  BY <1>2 DEF LoadRow, Insert, LoadFail, Tombstone, Moves
<1>3. CASE GetPublicKey(w)
  BY <1>3 DEF GetPublicKey, Dispatch, Answers, Sensitive
<1>4. CASE ConnectCheck(w)
  BY <1>4 DEF ConnectCheck, Enter, Dispatch, Answers, Moves, Sensitive
<1>5. CASE ConnectStore(w)
  BY <1>5 DEF ConnectStore, Answers
<1>6. CASE ValidateClient(w)
  BY <1>6 DEF ValidateClient, Dispatch, Moves
<1>7. CASE ClaimCheck(w) \/ ClaimStore(w)
  BY <1>7 DEF ClaimCheck, Enter, ClaimStore, Moves
<1>8. CASE SkipValidation(w)
  BY <1>8 DEF SkipValidation, Dispatch, Moves
<1>9. CASE Encrypt(w)
  BY <1>9 DEF Encrypt, Answers
<1>10. CASE SignEvent(w)
  BY <1>10 DEF SignEvent, Answers
<1> QED
  BY <1>1, <1>2, <1>3, <1>4, <1>5, <1>6, <1>7, <1>8, <1>9, <1>10 DEF WorkerLoop

\* A request is sent once; from then on it and what was noted of it stay.
SendMove(r) ==
  /\ req[r] = Unsent /\ req'[r] \in Request /\ sentTo'[r] = row[req'[r].bunker]
  /\ UNCHANGED <<row, client, pc, job>>
  /\ \A i \in Instance : out'[i][r] \in {out[i][r], "full"}

LEMMA RequestStep ==
  ASSUME TypeOK, [Next]_vars, NEW r \in Req
  PROVE  \/ req'[r] = req[r] /\ sentTo'[r] = sentTo[r]
         \/ SendMove(r)
<1> USE DEF TypeOK, rows, api, work, history
<1>1. CASE UNCHANGED vars
  BY <1>1 DEF vars
<1>2. ASSUME NEW a \in Call, Api(a) PROVE UNCHANGED <<req, sentTo>>
  BY <1>2 DEF Api, Create, RevokeCheck, ReauthRevoke, DisconnectClient, DeleteTeamRow,
     DeleteRow, RevokeUpdate, SendCommand, Abandon
<1>3. ASSUME NEW i \in Instance, CommandTask(i) \/ Restart(i) PROVE UNCHANGED <<req, sentTo>>
  BY <1>3 DEF CommandTask, UpsertLoad, UpsertInsert, UpsertDrop, RemoveCommand, Restart
<1>4. ASSUME NEW i \in Instance, NEW b \in Bunker, Evict(i, b) PROVE UNCHANGED <<req, sentTo>>
  BY <1>4 DEF Evict
<1>5. ASSUME NEW b \in Bunker, Expire(b) PROVE UNCHANGED <<req, sentTo>>
  BY <1>5 DEF Expire
<1>6. ASSUME NEW q \in Req, Send(q)
      PROVE  (req'[r] = req[r] /\ sentTo'[r] = sentTo[r]) \/ SendMove(r)
  <2>1. PICK m \in Request :
          /\ req' = [req EXCEPT ![q] = m]
          /\ sentTo' = [sentTo EXCEPT ![q] = row[m.bunker]]
    <3>1. PICK b \in Bunker, c \in Client, n \in Methods :
            /\ req' = [req EXCEPT ![q] = [bunker |-> b, client |-> c, method |-> n]]
            /\ sentTo' = [sentTo EXCEPT ![q] = row[b]]
      BY <1>6 DEF Send
    <3> DEFINE m == [bunker |-> b, client |-> c, method |-> n]
    <3>2. m \in Request /\ m.bunker = b
      BY DEF Request
    <3>3. req' = [req EXCEPT ![q] = m] /\ sentTo' = [sentTo EXCEPT ![q] = row[m.bunker]]
      BY <3>1, <3>2
    <3> HIDE DEF m
    <3> QED
      BY <3>2, <3>3
  <2>2. /\ req[q] = Unsent /\ UNCHANGED <<row, client, pc, job>>
        /\ \A i \in Instance : out'[i][q] \in {out[i][q], "full"}
    BY <1>6 DEF Send
  <2>3. ASSUME q = r PROVE SendMove(r)
    <3>1. req'[r] = m /\ sentTo'[r] = row[m.bunker]
      BY <2>1, <2>3
    <3> QED
      BY <2>2, <2>3, <3>1 DEF SendMove
  <2> QED
    BY <2>1, <2>3
<1>7. ASSUME NEW w \in Worker, WorkerLoop(w) PROVE UNCHANGED <<req, sentTo>>
  BY <1>7, WorkerStep DEF WorkerMove
<1> QED
  BY <1>1, <1>2, <1>3, <1>4, <1>5, <1>6, <1>7 DEF Next

\* Only the worker that serves a request answers it.
LEMMA AnswerStep ==
  ASSUME TypeOK, SentInv, [Next]_vars, NEW i \in Instance, NEW r \in Req,
         out'[i][r] = "ok", out[i][r] # "ok"
  PROVE  \E w \in Worker : /\ pc[w] # "idle" /\ Home[w] = i /\ job[w] = r /\ Answers(w)
                           /\ UNCHANGED <<row, req, sentTo>>
<1> USE DEF TypeOK, rows, api, work, history
<1>1. CASE UNCHANGED vars
  BY <1>1 DEF vars
<1>2. ASSUME NEW a \in Call, Api(a) PROVE UNCHANGED out
  BY <1>2 DEF Api, Create, RevokeCheck, ReauthRevoke, DisconnectClient, DeleteTeamRow,
     DeleteRow, RevokeUpdate, SendCommand, Abandon
<1>3. ASSUME NEW j \in Instance, CommandTask(j) PROVE UNCHANGED out
  BY <1>3 DEF CommandTask, UpsertLoad, UpsertInsert, UpsertDrop, RemoveCommand
<1>4. ASSUME NEW j \in Instance, Restart(j) PROVE FALSE
  BY <1>4 DEF Restart
<1>5. ASSUME NEW j \in Instance, NEW b \in Bunker, Evict(j, b) PROVE UNCHANGED out
  BY <1>5 DEF Evict
<1>6. ASSUME NEW b \in Bunker, Expire(b) PROVE UNCHANGED out
  BY <1>6 DEF Expire
<1>7. ASSUME NEW q \in Req, Send(q) PROVE FALSE
  BY <1>7 DEF Send
<1>8. ASSUME NEW w \in Worker, WorkerLoop(w)
      PROVE  /\ pc[w] # "idle" /\ Home[w] = i /\ job[w] = r /\ Answers(w)
             /\ UNCHANGED <<row, req, sentTo>>
  <2>1. WorkerMove(w)
    BY <1>8, WorkerStep
  <2>2. CASE Skip(w)
    BY <2>2 DEF Skip
  <2>3. CASE Take(w)
    BY <2>3 DEF Take
  <2>4. ASSUME NEW outcome, pc[w] # "idle", Finish(w, outcome), outcome = "ok" => Answers(w)
        PROVE  Home[w] = i /\ job[w] = r /\ Answers(w)
    <3>1. out' = [out EXCEPT ![Home[w]][job[w]] = outcome]
      BY <2>4 DEF Finish
    <3> QED
      BY <2>4, <3>1
  <2> QED
    BY <2>1, <2>2, <2>3, <2>4 DEF WorkerMove
<1> QED
  BY <1>1, <1>2, <1>3, <1>4, <1>5, <1>6, <1>7, <1>8 DEF Next

\* A worker is moved by its own loop; a restart of its instance makes it idle.
LEMMA PcStep ==
  ASSUME TypeOK, [Next]_vars, NEW w \in Worker
  PROVE  \/ pc'[w] = pc[w] /\ job'[w] = job[w] /\ held'[w] = held[w]
         \/ pc'[w] = "idle" /\ job'[w] = "none"
         \/ WorkerLoop(w)
<1> USE DEF TypeOK, rows, api, work, history
<1>1. CASE UNCHANGED vars
  BY <1>1 DEF vars
<1>2. ASSUME NEW a \in Call, Api(a) PROVE UNCHANGED work
  BY <1>2 DEF Api, Create, RevokeCheck, ReauthRevoke, DisconnectClient, DeleteTeamRow,
     DeleteRow, RevokeUpdate, SendCommand, Abandon
<1>3. ASSUME NEW i \in Instance, CommandTask(i) PROVE UNCHANGED work
  BY <1>3 DEF CommandTask, UpsertLoad, UpsertInsert, UpsertDrop, RemoveCommand
<1>4. ASSUME NEW i \in Instance, Restart(i)
      PROVE  \/ pc'[w] = pc[w] /\ job'[w] = job[w] /\ held'[w] = held[w]
             \/ pc'[w] = "idle" /\ job'[w] = "none"
  BY <1>4 DEF Restart
<1>5. ASSUME NEW i \in Instance, NEW b \in Bunker, Evict(i, b) PROVE UNCHANGED work
  BY <1>5 DEF Evict
<1>6. ASSUME NEW b \in Bunker, Expire(b) PROVE UNCHANGED work
  BY <1>6 DEF Expire
<1>7. ASSUME NEW r \in Req, Send(r) PROVE UNCHANGED work
  BY <1>7 DEF Send
<1>8. ASSUME NEW v \in Worker, v # w, WorkerLoop(v)
      PROVE  pc'[w] = pc[w] /\ job'[w] = job[w] /\ held'[w] = held[w]
  <2>1. ASSUME NEW outcome, Finish(v, outcome)
        PROVE  pc'[w] = pc[w] /\ job'[w] = job[w] /\ held'[w] = held[w]
    BY <1>8, <2>1 DEF Finish, Step
  <2>2. ASSUME NEW next, Step(v, next), UNCHANGED job
        PROVE  pc'[w] = pc[w] /\ job'[w] = job[w]
    BY <1>8, <2>2 DEF Step
  <2>3. CASE Skip(v) \/ Take(v)
    BY <1>8, <2>3 DEF Skip, Take, Step
  <2>4. CASE LoadRow(v)
    BY <1>8, <2>1, <2>2, <2>4 DEF LoadRow
  <2>5. CASE Insert(v) \/ LoadFail(v) \/ Tombstone(v) \/ GetPublicKey(v)
    BY <2>1, <2>2, <2>5 DEF Insert, LoadFail, Tombstone, GetPublicKey
  <2>6. CASE ConnectCheck(v) \/ ConnectStore(v)
    BY <2>1, <2>2, <2>6 DEF ConnectCheck, Enter, ConnectStore
  <2>7. CASE ValidateClient(v) \/ SkipValidation(v)
    BY <2>1, <2>2, <2>7 DEF ValidateClient, SkipValidation
  <2>8. CASE ClaimCheck(v) \/ ClaimStore(v) \/ Encrypt(v) \/ SignEvent(v)
    BY <2>1, <2>2, <2>8 DEF ClaimCheck, Enter, ClaimStore, Encrypt, SignEvent
  <2> QED
    BY <1>8, <2>3, <2>4, <2>5, <2>6, <2>7, <2>8 DEF WorkerLoop
<1> QED
  BY <1>1, <1>2, <1>3, <1>4, <1>5, <1>6, <1>7, <1>8 DEF Next

\* The request of a worker at work does not change.
LEMMA JobStays ==
  ASSUME TypeOK, SentInv, [Next]_vars, NEW w \in Worker, pc[w] # "idle"
  PROVE  /\ job[w] \in Req /\ req[job[w]] # Unsent
         /\ req'[job[w]] = req[job[w]] /\ sentTo'[job[w]] = sentTo[job[w]]
<1>1. job[w] \in Req /\ req[job[w]] # Unsent
  BY DEF SentInv, Sent
<1> QED
  BY <1>1, RequestStep DEF SendMove

\* What a worker's place in its loop says of its request.
StageInv ==
  \A w \in Worker :
    /\ pc[w] \in {"claim", "claimStore"} => job[w] \in Governed
    /\ pc[w] = "connectStore" => Method(w) = "connect"
    /\ pc[w] = "validated" => Method(w) \in Sensitive

LEMMA StageStep ==
  ASSUME TypeOK, SentInv, StageInv, [Next]_vars
  PROVE  StageInv'
<1> SUFFICES ASSUME NEW w \in Worker
             PROVE  (/\ pc[w] \in {"claim", "claimStore"} => job[w] \in Governed
                     /\ pc[w] = "connectStore" => Method(w) = "connect"
                     /\ pc[w] = "validated" => Method(w) \in Sensitive)'
  BY DEF StageInv
<1>1. ASSUME pc[w] # "idle", job'[w] = job[w]
      PROVE  /\ Method(w)' = Method(w) /\ job[w] \in Req
             /\ job[w] \in Governed => job'[w] \in Governed'
  <2>1. /\ job[w] \in Req /\ req[job[w]] # Unsent /\ req'[job[w]] = req[job[w]]
    BY <1>1, JobStays
  <2> QED
    BY <1>1, <2>1 DEF Method, Governed
<1>2. CASE pc'[w] = pc[w] /\ job'[w] = job[w]
  BY <1>1, <1>2 DEF StageInv
<1>3. CASE pc'[w] = "idle"
  BY <1>3
<1>4. CASE WorkerLoop(w)
  <2>1. CASE Skip(w)
    BY <1>2, <2>1 DEF Skip, work
  <2>2. CASE Take(w)
    <3>1. pc'[w] \in {"miss", "have"}
      BY <2>2 DEF Take, Step, TypeOK
    <3> QED
      BY <3>1
  <2>3. ASSUME NEW outcome, Finish(w, outcome) PROVE pc'[w] = "idle"
    BY <2>3 DEF Finish, Step, TypeOK
  <2>4. ASSUME NEW next, pc[w] # "idle", Step(w, next), Moves(w, next), UNCHANGED job
        PROVE  (/\ pc[w] \in {"claim", "claimStore"} => job[w] \in Governed
                /\ pc[w] = "connectStore" => Method(w) = "connect"
                /\ pc[w] = "validated" => Method(w) \in Sensitive)'
    <3>1. pc'[w] = next
      BY <2>4 DEF Step, TypeOK
    <3>2. job[w] \in Req /\ req[job[w]] # Unsent
      BY <2>4, JobStays
    <3>3. Method(w) \in Sensitive /\ OAuth(w) => job[w] \in Governed
      BY <3>2 DEF Governed, Method, OAuth, Target
    <3>4. job[w] \in Governed => Method(w) \in Sensitive
      BY DEF Governed, Method
    <3> QED
      BY <1>1, <2>4, <3>1, <3>3, <3>4 DEF Moves, StageInv
  <2> QED
    BY <1>3, <1>4, <2>1, <2>2, <2>3, <2>4, WorkerStep DEF WorkerMove
<1> QED
  BY <1>2, <1>3, <1>4, PcStep

\* An instance makes one thing of each request: while it waits or is being served,
\* nothing has been made of it, and it waits once or is served once.
OnceInv ==
  /\ \A i \in Instance :
       /\ \A m, n \in 1..Len(queue[i]) : queue[i][m] = queue[i][n] => m = n
       /\ \A n \in 1..Len(queue[i]) :
            /\ out[i][queue[i][n]] = "none"
            /\ \A w \in Worker : pc[w] # "idle" /\ Home[w] = i => job[w] # queue[i][n]
  /\ \A w \in Worker : pc[w] # "idle" => out[Home[w]][job[w]] = "none"
  /\ \A v, w \in Worker : (/\ pc[v] # "idle" /\ pc[w] # "idle"
                           /\ Home[v] = Home[w] /\ job[v] = job[w]) => v = w
  /\ \A r \in Req : req[r] = Unsent => \A i \in Instance : out[i][r] = "none"

\* What the rest of a queue keeps when its head is taken, which is in no other place.
LEMMA Dequeued ==
  ASSUME TypeOK, SentInv, OnceInv, NEW w \in Worker, Dequeue(w)
  PROVE  LET i == Home[w]
             r == Head(queue[i])
         IN  /\ i \in Instance /\ r \in Req /\ req[r] # Unsent /\ out[i][r] = "none"
             /\ \A v \in Worker : pc[v] # "idle" /\ Home[v] = i => job[v] # r
             /\ \A j \in Instance : j # i => queue'[j] = queue[j]
             /\ \A m, n \in 1..Len(queue'[i]) : queue'[i][m] = queue'[i][n] => m = n
             /\ \A n \in 1..Len(queue'[i]) :
                  /\ queue'[i][n] # r /\ out[i][queue'[i][n]] = "none"
                  /\ \A v \in Worker : pc[v] # "idle" /\ Home[v] = i => job[v] # queue'[i][n]
<1> DEFINE i == Home[w]
           q == queue[i]
           r == Head(q)
           t == queue'[i]
<1>1. /\ i \in Instance /\ q \in Seq(Sent) /\ q # <<>> /\ t = Tail(q)
      /\ \A j \in Instance : j # i => queue'[j] = queue[j]
  BY WorkerAssumption DEF Dequeue, SentInv, TypeOK
<1>2. /\ \A m, n \in 1..Len(q) : q[m] = q[n] => m = n
      /\ \A n \in 1..Len(q) :
           /\ out[i][q[n]] = "none"
           /\ \A v \in Worker : pc[v] # "idle" /\ Home[v] = i => job[v] # q[n]
  BY <1>1 DEF OnceInv
<1> HIDE DEF i, q, t
<1>3. r \in Sent /\ r = q[1] /\ 1 \in 1..Len(q)
  BY <1>1
<1>4. ASSUME NEW n \in 1..Len(t)
      PROVE  n \in Nat /\ n + 1 \in 1..Len(q) /\ t[n] = q[n + 1] /\ n + 1 # 1
  BY <1>1
<1>5. ASSUME NEW m \in 1..Len(t), NEW n \in 1..Len(t), t[m] = t[n] PROVE m = n
  <2>1. m + 1 = n + 1
    BY <1>2, <1>4, <1>5
  <2> QED
    BY <1>4, <2>1
<1>6. ASSUME NEW n \in 1..Len(t) PROVE t[n] # r
  BY <1>2, <1>3, <1>4
<1>7. ASSUME NEW n \in 1..Len(t)
      PROVE  /\ out[i][t[n]] = "none"
             /\ \A v \in Worker : pc[v] # "idle" /\ Home[v] = i => job[v] # t[n]
  BY <1>2, <1>4
<1>8. out[i][r] = "none" /\ \A v \in Worker : pc[v] # "idle" /\ Home[v] = i => job[v] # r
  BY <1>2, <1>3
<1>9. r \in Req /\ req[r] # Unsent
  BY <1>3 DEF Sent
<1> QED
  BY <1>1, <1>5, <1>6, <1>7, <1>8, <1>9 DEF i, q, t

LEMMA OnceStep ==
  ASSUME TypeOK, SentInv, OnceInv, [Next]_vars
  PROVE  OnceInv'
<1> USE DEF rows, api, work, history
<1>1. ASSUME UNCHANGED <<queue, pc, job, req, out>> PROVE OnceInv'
  BY <1>1 DEF OnceInv
<1>2. CASE UNCHANGED vars
  BY <1>1, <1>2 DEF vars
<1>3. ASSUME NEW a \in Call, Api(a) PROVE OnceInv'
  BY <1>1, <1>3 DEF Api, Create, RevokeCheck, ReauthRevoke, DisconnectClient, DeleteTeamRow,
     DeleteRow, RevokeUpdate, SendCommand, Abandon
<1>4. ASSUME NEW i \in Instance, CommandTask(i) PROVE OnceInv'
  BY <1>1, <1>4 DEF CommandTask, UpsertLoad, UpsertInsert, UpsertDrop, RemoveCommand
<1>5. ASSUME NEW i \in Instance, Restart(i) PROVE OnceInv'
  <2>1. /\ UNCHANGED req /\ queue'[i] = <<>>
        /\ \A j \in Instance : j # i => queue'[j] = queue[j] /\ out'[j] = out[j]
        /\ \A w \in Worker : IF Home[w] = i THEN pc'[w] = "idle"
                             ELSE pc'[w] = pc[w] /\ job'[w] = job[w]
        /\ \A r \in Req : req[r] = Unsent => out'[i][r] = out[i][r]
    BY <1>5 DEF Restart, TypeOK
  <2> QED
    BY <2>1, WorkerAssumption DEF OnceInv
<1>6. ASSUME NEW i \in Instance, NEW b \in Bunker, Evict(i, b) PROVE OnceInv'
  BY <1>1, <1>6 DEF Evict
<1>7. ASSUME NEW b \in Bunker, Expire(b) PROVE OnceInv'
  BY <1>1, <1>7 DEF Expire
<1>8. ASSUME NEW r \in Req, Send(r) PROVE OnceInv'
  <2>1. /\ req[r] = Unsent /\ UNCHANGED <<pc, job>>
        /\ \A q \in Req : q # r => req'[q] = req[q]
    BY <1>8 DEF Send, TypeOK
  <2>2. req'[r] # Unsent
    <3>1. PICK m \in Request : req' = [req EXCEPT ![r] = m]
      BY <1>8 DEF Send, Request
    <3> QED
      BY <3>1, InputAssumption DEF Request, Unsent, Sensitive, TypeOK
  <2>3. \A i \in Instance, q \in Req : q # r => out'[i][q] = out[i][q]
    BY <1>8 DEF Send, TypeOK
  <2>4. ASSUME NEW i \in Instance
        PROVE  /\ \A m, n \in 1..Len(queue'[i]) : queue'[i][m] = queue'[i][n] => m = n
               /\ \A n \in 1..Len(queue'[i]) :
                    /\ out'[i][queue'[i][n]] = "none"
                    /\ \A w \in Worker : pc'[w] # "idle" /\ Home[w] = i => job'[w] # queue'[i][n]
    <3>1. queue[i] \in Seq(Sent) /\ r \notin Sent /\ Sent \subseteq Req
      BY <2>1 DEF SentInv, Sent
    <3>2. \A n \in 1..Len(queue[i]) : queue[i][n] \in Req /\ queue[i][n] # r
      BY <3>1
    <3>3. CASE Full(i)
      <4>1. queue'[i] = queue[i]
        BY <1>8, <3>3 DEF Send
      <4> QED
        BY <2>1, <2>3, <3>2, <4>1 DEF OnceInv
    <3>4. CASE ~Full(i)
      <4>1. queue'[i] = Append(queue[i], r) /\ out'[i] = out[i]
        BY <1>8, <3>4 DEF Send
      <4>2. \A n \in 1..Len(queue'[i]) :
              IF n = Len(queue[i]) + 1 THEN queue'[i][n] = r
              ELSE n \in 1..Len(queue[i]) /\ queue'[i][n] = queue[i][n]
        BY <3>1, <4>1
      <4>3. out'[i][r] = "none" /\ \A w \in Worker : pc[w] # "idle" => job[w] # r
        BY <2>1, <3>1, <4>1 DEF OnceInv, SentInv
      <4>4. \A m, n \in 1..Len(queue'[i]) : queue'[i][m] = queue'[i][n] => m = n
        BY <3>2, <4>2 DEF OnceInv
      <4>5. \A n \in 1..Len(queue'[i]) :
              /\ out'[i][queue'[i][n]] = "none"
              /\ \A w \in Worker : pc'[w] # "idle" /\ Home[w] = i => job'[w] # queue'[i][n]
        BY <2>1, <4>1, <4>2, <4>3 DEF OnceInv
      <4> QED
        BY <4>4, <4>5
    <3> QED
      BY <3>3, <3>4
  <2>5. \A w \in Worker : pc[w] # "idle" => job[w] \in Req /\ job[w] # r
    BY <2>1 DEF SentInv, Sent
  <2> QED
    BY <2>1, <2>2, <2>3, <2>4, <2>5, WorkerAssumption DEF OnceInv
<1>9. ASSUME NEW w \in Worker, WorkerLoop(w) PROVE OnceInv'
  <2> DEFINE i == Home[w]
             r == Head(queue[i])
  <2>1. WorkerMove(w) /\ UNCHANGED req
    BY <1>9, WorkerStep DEF WorkerMove
  <2>2. CASE Skip(w)
    <3>1. Dequeue(w) /\ UNCHANGED work /\ out' = [out EXCEPT ![i][r] = "skipped"]
      BY <2>2 DEF Skip
    <3>2. /\ i \in Instance /\ r \in Req /\ req[r] # Unsent
          /\ \A v \in Worker : pc[v] # "idle" /\ Home[v] = i => job[v] # r
          /\ \A j \in Instance : j # i => queue'[j] = queue[j]
          /\ \A m, n \in 1..Len(queue'[i]) : queue'[i][m] = queue'[i][n] => m = n
          /\ \A n \in 1..Len(queue'[i]) :
               /\ queue'[i][n] # r /\ out[i][queue'[i][n]] = "none"
               /\ \A v \in Worker : pc[v] # "idle" /\ Home[v] = i => job[v] # queue'[i][n]
      BY <3>1, Dequeued
    <3> HIDE DEF i, r
    <3>3. \A j \in Instance : \A q : j # i \/ q # r => out'[j][q] = out[j][q]
      BY <3>1 DEF TypeOK
    <3>4. ASSUME NEW j \in Instance
          PROVE  /\ \A m, n \in 1..Len(queue'[j]) : queue'[j][m] = queue'[j][n] => m = n
                 /\ \A n \in 1..Len(queue'[j]) :
                      /\ out'[j][queue'[j][n]] = "none"
                      /\ \A v \in Worker : pc'[v] # "idle" /\ Home[v] = j => job'[v] # queue'[j][n]
      <4>1. CASE j = i
        BY <3>1, <3>2, <3>3, <4>1 DEF OnceInv
      <4>2. CASE j # i
        BY <3>1, <3>2, <3>3, <4>2 DEF OnceInv
      <4> QED
        BY <4>1, <4>2
    <3>5. \A v \in Worker : pc'[v] # "idle" => out'[Home[v]][job'[v]] = "none"
      BY <3>1, <3>2, <3>3, WorkerAssumption DEF OnceInv
    <3>6. \A q \in Req : req'[q] = Unsent => \A j \in Instance : out'[j][q] = "none"
      BY <2>1, <3>2, <3>3 DEF OnceInv
    <3> QED
      BY <3>1, <3>4, <3>5, <3>6 DEF OnceInv
  <2>3. CASE Take(w)
    <3>1. /\ Dequeue(w) /\ UNCHANGED out /\ job' = [job EXCEPT ![w] = r]
          /\ \A v \in Worker : v # w => pc'[v] = pc[v]
      BY <2>3 DEF Take, Step, TypeOK
    <3>2. /\ i \in Instance /\ r \in Req /\ req[r] # Unsent /\ out[i][r] = "none"
          /\ \A v \in Worker : pc[v] # "idle" /\ Home[v] = i => job[v] # r
          /\ \A j \in Instance : j # i => queue'[j] = queue[j]
          /\ \A m, n \in 1..Len(queue'[i]) : queue'[i][m] = queue'[i][n] => m = n
          /\ \A n \in 1..Len(queue'[i]) :
               /\ queue'[i][n] # r /\ out[i][queue'[i][n]] = "none"
               /\ \A v \in Worker : pc[v] # "idle" /\ Home[v] = i => job[v] # queue'[i][n]
      BY <3>1, Dequeued
    <3>3. Home[w] = i
      OBVIOUS
    <3> HIDE DEF i, r
    <3>4. job'[w] = r /\ \A v \in Worker : v # w => job'[v] = job[v]
      BY <3>1 DEF TypeOK
    <3>5. ASSUME NEW j \in Instance
          PROVE  /\ \A m, n \in 1..Len(queue'[j]) : queue'[j][m] = queue'[j][n] => m = n
                 /\ \A n \in 1..Len(queue'[j]) :
                      /\ out'[j][queue'[j][n]] = "none"
                      /\ \A v \in Worker : pc'[v] # "idle" /\ Home[v] = j => job'[v] # queue'[j][n]
      <4>1. CASE j = i
        BY <3>1, <3>2, <3>4, <4>1 DEF OnceInv
      <4>2. CASE j # i
        BY <3>1, <3>2, <3>3, <3>4, <4>2 DEF OnceInv
      <4> QED
        BY <4>1, <4>2
    <3>6. \A v \in Worker : pc'[v] # "idle" => out'[Home[v]][job'[v]] = "none"
      BY <3>1, <3>2, <3>3, <3>4 DEF OnceInv
    <3>7. \A u, v \in Worker : (/\ pc'[u] # "idle" /\ pc'[v] # "idle"
                                /\ Home[u] = Home[v] /\ job'[u] = job'[v]) => u = v
      BY <3>1, <3>2, <3>3, <3>4 DEF OnceInv
    <3> QED
      BY <2>1, <3>1, <3>5, <3>6, <3>7 DEF OnceInv
  <2>4. ASSUME NEW outcome, pc[w] # "idle", UNCHANGED queue, Finish(w, outcome) PROVE OnceInv'
    <3> DEFINE k == job[w]
    <3>1. k \in Req /\ req[k] # Unsent /\ i \in Instance
      BY <2>4, JobStays, WorkerAssumption
    <3>2. \A n \in 1..Len(queue[i]) : queue[i][n] # k
      BY <2>4, <3>1 DEF OnceInv
    <3>3. /\ pc'[w] = "idle" /\ out' = [out EXCEPT ![i][k] = outcome]
          /\ \A v \in Worker : v # w => pc'[v] = pc[v] /\ job'[v] = job[v]
      BY <2>4 DEF Finish, Step, TypeOK
    <3>4. \A v \in Worker : v # w /\ pc[v] # "idle" /\ Home[v] = i => job[v] # k
      BY <2>4 DEF OnceInv
    <3> HIDE DEF i, k
    <3>5. \A j \in Instance : \A q : j # i \/ q # k => out'[j][q] = out[j][q]
      BY <3>3 DEF TypeOK
    <3>6. ASSUME NEW j \in Instance
          PROVE  \A n \in 1..Len(queue'[j]) :
                      /\ out'[j][queue'[j][n]] = "none"
                      /\ \A v \in Worker : pc'[v] # "idle" /\ Home[v] = j => job'[v] # queue'[j][n]
      BY <2>4, <3>2, <3>3, <3>5 DEF OnceInv
    <3>7. \A v \in Worker : pc'[v] # "idle" => out'[Home[v]][job'[v]] = "none"
      BY <3>3, <3>4, <3>5, WorkerAssumption DEF OnceInv
    <3>8. \A q \in Req : req'[q] = Unsent => \A j \in Instance : out'[j][q] = "none"
      BY <2>1, <3>1, <3>5 DEF OnceInv
    <3>9. \A u, v \in Worker : (/\ pc'[u] # "idle" /\ pc'[v] # "idle"
                                /\ Home[u] = Home[v] /\ job'[u] = job'[v]) => u = v
      BY <3>3 DEF OnceInv
    <3>10. \A j \in Instance : \A m, n \in 1..Len(queue'[j]) : queue'[j][m] = queue'[j][n] => m = n
      BY <2>4 DEF OnceInv
    <3> QED
      BY <3>6, <3>7, <3>8, <3>9, <3>10 DEF OnceInv
  <2>5. ASSUME NEW next, pc[w] # "idle", Step(w, next), UNCHANGED <<queue, job, out>> PROVE OnceInv'
    <3>1. \A v \in Worker : pc'[v] # "idle" => pc[v] # "idle"
      BY <2>5 DEF Step, TypeOK
    <3> QED
      BY <2>1, <2>5, <3>1 DEF OnceInv
  <2> QED
    BY <2>1, <2>2, <2>3, <2>4, <2>5 DEF WorkerMove
<1> QED
  BY <1>2, <1>3, <1>4, <1>5, <1>6, <1>7, <1>8, <1>9 DEF Next

\* What is in a queue or in a worker's hands has not been answered yet.
LEMMA OnceAlways == Spec => [](OnceInv /\ StageInv)
<1>1. Init => OnceInv /\ StageInv
  BY WorkerAssumption DEF Init, OnceInv, StageInv
<1> QED
  BY <1>1, OnceStep, StageStep, SignerTypeCorrect, PTL DEF Spec

-----------------------------------------------------------------------------
(* Answers to sessions that have ended                                     *)

\* No operation brings an ended session back.
LEMMA EndedForGood ==
  ASSUME TypeOK, [Next]_vars, NEW b \in Bunker, Ended(b)
  PROVE  Ended(b)'
BY RowStep DEF RowMove, Ended

\* No instance has signed r, and no worker has let its sender through.
Unsigned(r) ==
  /\ \A i \in Instance : out[i][r] # "ok"
  /\ \A w \in Worker : job[w] = r => pc[w] \notin {"connectStore", "claimStore", "validated"}

\* Requests sent when their session had been revoked or deleted.
Late == {r \in Governed : sentTo[r] \in {"revoked", "deleted"}}

\* The session of a late request stays ended, and that keeps every worker from
\* getting past a check of the row, however active its copy of the handler is.
EndInv == \A r \in Late : Ended(req[r].bunker) /\ Unsigned(r)

\* No worker signs a late request, or comes closer to it: each way passes a check
\* that the row is live, or is for another method, or for a team.
LEMMA UnsignedStep ==
  ASSUME TypeOK, SentInv, [Next]_vars,
         NEW r \in Governed, Ended(req[r].bunker), Unsigned(r)
  PROVE  Unsigned(r)'
<1>1. /\ r \in Req /\ req[r] # Unsent /\ req[r].method \in Sensitive /\ req[r].bunker \notin Team
      /\ ~Live(req[r].bunker)
  BY DEF Governed, Ended, Live
<1>2. ASSUME NEW i \in Instance, out'[i][r] = "ok" PROVE FALSE
  <2>1. PICK w \in Worker : job[w] = r /\ Answers(w)
    BY <1>1, <1>2, AnswerStep DEF Unsigned
  <2> QED
    BY <1>1, <2>1 DEF Answers, Method, Unsigned
<1>3. ASSUME NEW w \in Worker, job'[w] = r, pc'[w] \in {"connectStore", "claimStore", "validated"}
      PROVE  FALSE
  <2>1. CASE pc'[w] = pc[w] /\ job'[w] = job[w]
    BY <1>3, <2>1 DEF Unsigned
  <2>2. CASE WorkerLoop(w)
    <3>1. ASSUME Skip(w) PROVE FALSE
      BY <2>1, <3>1 DEF Skip, work
    <3>2. ASSUME Take(w) PROVE FALSE
      BY <1>3, <3>2 DEF Take, Step, TypeOK
    <3>3. ASSUME NEW outcome, Finish(w, outcome) PROVE FALSE
      BY <1>3, <3>3 DEF Finish, Step, TypeOK
    <3>4. ASSUME NEW next, Step(w, next), Moves(w, next), UNCHANGED job PROVE FALSE
      <4>1. pc'[w] = next /\ job[w] = r
        BY <1>3, <3>4 DEF Step, TypeOK
      <4>2. /\ Method(w) \in Sensitive /\ OAuth(w) /\ Method(w) # "connect"
            /\ ~Live(Target(w)) /\ pc[w] # "claimStore"
        BY <1>1, <4>1 DEF Method, OAuth, Target, Sensitive, Unsigned
      <4> QED
        BY <1>3, <3>4, <4>1, <4>2 DEF Moves, Claimable, Connected
    <3> QED
      BY <2>2, <3>1, <3>2, <3>3, <3>4, WorkerStep DEF WorkerMove
  <2> QED
    BY <1>3, <2>1, <2>2, PcStep
<1> QED
  BY <1>2, <1>3 DEF Unsigned

LEMMA EndStep ==
  ASSUME TypeOK, SentInv, OnceInv, EndInv, [Next]_vars
  PROVE  EndInv'
<1> SUFFICES ASSUME NEW r \in Late' PROVE Ended(req[r].bunker)' /\ Unsigned(r)'
  BY DEF EndInv
<1>1. r \in Req /\ req'[r] # Unsent /\ req'[r].bunker \in Bunker
  BY TypeStep DEF Late, Governed, TypeOK, Request
<1>2. CASE req'[r] = req[r] /\ sentTo'[r] = sentTo[r]
  <2>1. r \in Late /\ r \in Governed
    BY <1>1, <1>2 DEF Late, Governed
  <2>2. Ended(req[r].bunker) /\ Unsigned(r)
    BY <2>1 DEF EndInv
  <2>3. Ended(req[r].bunker)'
    BY <1>1, <1>2, <2>2, EndedForGood DEF Ended
  <2> QED
    BY <2>1, <2>2, <2>3, UnsignedStep
<1>3. CASE SendMove(r)
  <2>1. Ended(req[r].bunker)'
    BY <1>3 DEF SendMove, Late, Ended
  <2>2. \A i \in Instance : out'[i][r] # "ok"
    BY <1>1, <1>3 DEF SendMove, OnceInv
  <2>3. \A w \in Worker : job'[w] = r => pc'[w] = "idle"
    BY <1>3 DEF SendMove, SentInv, Sent
  <2> QED
    BY <2>1, <2>2, <2>3 DEF Unsigned
<1> QED
  BY <1>1, <1>2, <1>3, RequestStep

\* In every execution, with any number of instances and workers and any faults, no
\* request of sign or encrypt that reaches an OAuth session after its revocation or
\* deletion is carried out, even where a cached handler is still active.
THEOREM NoAnswerAfterEndHolds == Spec => []NoAnswerAfterEnd
<1>1. Init => EndInv
  BY DEF Init, EndInv, Late, Governed
<1>2. EndInv => NoAnswerAfterEnd
  BY DEF EndInv, NoAnswerAfterEnd, Late, Unsigned
<1> QED
  BY <1>1, <1>2, EndStep, OnceAlways, SignerTypeCorrect, PTL DEF Spec

-----------------------------------------------------------------------------
(* Events of deleted sessions                                              *)

\* The row of an event's session stays deleted and no worker signs for it.
DeleteInv ==
  \A r \in Req : (req[r].method = "sign_event" /\ sentTo[r] = "deleted") =>
    row[req[r].bunker] = "deleted" /\ \A i \in Instance : out[i][r] # "ok"

LEMMA DeleteStep ==
  ASSUME TypeOK, SentInv, StageInv, OnceInv, DeleteInv, [Next]_vars
  PROVE  DeleteInv'
<1> SUFFICES ASSUME NEW r \in Req, req'[r].method = "sign_event", sentTo'[r] = "deleted"
             PROVE  row'[req'[r].bunker] = "deleted" /\ \A i \in Instance : out'[i][r] # "ok"
  BY DEF DeleteInv
<1>1. ASSUME NEW b \in Bunker, row[b] = "deleted" PROVE row'[b] = "deleted"
  BY <1>1, RowStep DEF RowMove, Exists
<1>2. CASE req'[r] = req[r] /\ sentTo'[r] = sentTo[r]
  <2>1. row[req[r].bunker] = "deleted" /\ \A i \in Instance : out[i][r] # "ok"
    BY <1>2 DEF DeleteInv
  <2>2. req[r].bunker \in Bunker
    <3>1. req[r] # Unsent
      BY <1>2 DEF Unsent
    <3> QED
      BY <3>1 DEF TypeOK, Request
  <2>3. ASSUME NEW i \in Instance, out'[i][r] = "ok" PROVE FALSE
    <3>1. PICK w \in Worker : pc[w] # "idle" /\ job[w] = r /\ Answers(w)
      BY <2>1, <2>3, AnswerStep
    <3>2. Exists(Target(w))
      BY <1>2, <3>1 DEF Answers, StageInv, Method
    <3> QED
      BY <2>1, <3>1, <3>2 DEF Target, Exists
  <2> QED
    BY <1>1, <1>2, <2>1, <2>2, <2>3
<1>3. CASE SendMove(r)
  BY <1>3 DEF SendMove, OnceInv
<1> QED
  BY <1>2, <1>3, RequestStep

\* The policy is asked anew for every event, and the row it belongs to is looked up
\* by its id: an event for a session deleted before it was asked for is not signed
\* by any instance, in any execution, whatever stage the worker had reached.
THEOREM NoSignAfterDeleteHolds == Spec => []NoSignAfterDelete
<1>1. Init => DeleteInv
  BY DEF Init, DeleteInv, Unsent
<1>2. DeleteInv => NoSignAfterDelete
  BY DEF DeleteInv, NoSignAfterDelete
<1> QED
  BY <1>1, <1>2, DeleteStep, OnceAlways, SignerTypeCorrect, PTL DEF Spec

-----------------------------------------------------------------------------
(* Handlers of removed sessions                                            *)

\* Only OAuth sessions are revoked, by calls that found them live, and a Remove is
\* sent by those that have ended the session it names.
CallInv ==
  \A a \in Call :
    /\ call[a].pc = "update" =>
         /\ call[a].bunker \notin Team
         /\ row[call[a].bunker] \in {"active", "revoked", "deleted"}
    /\ call[a].pc = "send" /\ call[a].op # "create" => Ended(call[a].bunker)

\* So every Remove in a channel names a session that has ended.
Sound == {c \in Command : IF c.kind = "Remove" THEN c.bunker \in Bunker => Ended(c.bunker)
                          ELSE c.bunker \in Bunker}

CommandInv ==
  \A i \in Instance : /\ cmds[i] \in Seq(Sound)
                      /\ cmdPc[i] = "loaded" => CommandIs(i, "Upsert")

\* A session removed without a race has ended, is not cached as active, and no
\* worker and no command of the instance is about to cache it.
Clean(i, b) ==
  /\ Ended(b) /\ cache[i][b] # "Active" /\ Loading(i, b) = {}
  /\ ~(cmdPc[i] = "loaded" /\ Head(cmds[i]).bunker = b)

CleanInv == \A i \in Instance, b \in Bunker : told[i][b] = "clean" => Clean(i, b)

LEMMA CallStep ==
  ASSUME TypeOK, CallInv, [Next]_vars
  PROVE  CallInv'
<1> USE DEF rows, api, work, history
<1> DEFINE CallOK(c) ==
      /\ c.pc = "update" => c.bunker \notin Team /\ row'[c.bunker] \in {"active", "revoked", "deleted"}
      /\ c.pc = "send" /\ c.op # "create" => row'[c.bunker] \in {"revoked", "deleted"}
<1> SUFFICES ASSUME NEW a \in Call PROVE CallOK(call'[a])
  BY DEF CallInv, Ended
<1>1. CASE call'[a] = call[a]
  <2>1. ASSUME call[a].pc \in {"update", "send"} PROVE call[a].bunker \in Bunker
    BY <2>1 DEF TypeOK, ApiCall, Unused
  <2>2. call[a].pc = "update" => CallOK(call[a])
    BY <2>1, RowStep DEF RowMove, CallInv
  <2>3. call[a].pc = "send" => CallOK(call[a])
    BY <2>1, EndedForGood DEF CallInv, Ended
  <2> QED
    BY <1>1, <2>2, <2>3
<1>2. ASSUME NEW d \in Call, d # a, Api(d) PROVE call'[a] = call[a]
  BY <1>2 DEF Api, Create, RevokeCheck, ReauthRevoke, DisconnectClient, DeleteTeamRow,
     DeleteRow, RevokeUpdate, SendCommand, Abandon, Begin, Proceed, TypeOK
<1>3. ASSUME Api(a) PROVE CallOK(call'[a])
  <2>1. ASSUME NEW i, NEW b, NEW operation, NEW next, Begin(a, operation, i, b, next)
        PROVE  call'[a].pc = next /\ call'[a].op = operation /\ call'[a].bunker = b
    BY <2>1 DEF Begin, TypeOK
  <2>2. ASSUME NEW i \in Instance, NEW b \in Bunker, Create(a, i, b) PROVE CallOK(call'[a])
    BY <2>2, <2>1 DEF Create
  <2>3. ASSUME NEW i \in Instance, NEW b \in Bunker, RevokeCheck(a, i, b) PROVE CallOK(call'[a])
    BY <2>3, <2>1 DEF RevokeCheck, Live
  <2>4. ASSUME NEW i \in Instance, NEW b \in Bunker,
               ReauthRevoke(a, i, b) \/ DisconnectClient(a, i, b) \/ DeleteTeamRow(a, i, b)
        PROVE  CallOK(call'[a])
    BY <2>4, <2>1 DEF ReauthRevoke, DisconnectClient, DeleteTeamRow
  <2>5. ASSUME NEW i \in Instance, NEW b \in Bunker, NEW operation, DeleteRow(a, operation, i, b)
        PROVE  CallOK(call'[a])
    BY <2>5, <2>1 DEF DeleteRow, TypeOK
  <2>6. CASE RevokeUpdate(a)
    <3>1. call[a].pc = "update" /\ call'[a].pc = "send" /\ call'[a].bunker = call[a].bunker
      BY <2>6 DEF RevokeUpdate, Proceed, TypeOK
    <3>2. call[a].bunker \in Bunker
      BY <3>1 DEF TypeOK, ApiCall, Unused
    <3>3. row'[call[a].bunker] \in {"revoked", "deleted"}
      BY <2>6, <3>1, <3>2 DEF RevokeUpdate, Live, CallInv, TypeOK
    <3> QED
      BY <3>1, <3>3
  <2>7. CASE SendCommand(a) \/ Abandon(a)
    <3>1. call[a].pc \in {"update", "send"} /\ Proceed(a, "done")
      BY <2>7 DEF SendCommand, Abandon
    <3>2. call'[a].pc = "done"
      BY <3>1 DEF Proceed, TypeOK, ApiCall, Unused
    <3> QED
      BY <3>2
  <2> QED
    BY <1>3, <2>2, <2>3, <2>4, <2>5, <2>6, <2>7 DEF Api
<1>4. ASSUME NEW i \in Instance, Restart(i)
      PROVE  call'[a] = call[a] \/ CallOK(call'[a])
  BY <1>4 DEF Restart
<1>5. ASSUME NEW i \in Instance, CommandTask(i) PROVE call' = call
  BY <1>5 DEF CommandTask, UpsertLoad, UpsertInsert, UpsertDrop, RemoveCommand
<1>6. ASSUME NEW i \in Instance, NEW b \in Bunker, Evict(i, b) PROVE call' = call
  BY <1>6 DEF Evict
<1>7. ASSUME NEW b \in Bunker, Expire(b) PROVE call' = call
  BY <1>7 DEF Expire
<1>8. ASSUME NEW r \in Req, Send(r) PROVE call' = call
  BY <1>8 DEF Send
<1>9. ASSUME NEW w \in Worker, WorkerLoop(w) PROVE call' = call
  BY <1>9, WorkerStep DEF WorkerMove
<1>10. CASE UNCHANGED vars
  BY <1>1, <1>10 DEF vars
<1> HIDE DEF CallOK
<1> QED
  BY <1>1, <1>2, <1>3, <1>4, <1>5, <1>6, <1>7, <1>8, <1>9, <1>10 DEF Next

LEMMA CommandStep ==
  ASSUME TypeOK, CallInv, CommandInv, [Next]_vars
  PROVE  CommandInv'
<1> USE DEF rows, api, work, history
<1>1. Sound \subseteq Sound'
  BY EndedForGood DEF Sound, Ended
<1>2. \A i \in Instance : cmds[i] \in Seq(Sound')
  BY <1>1 DEF CommandInv
<1>3. ASSUME UNCHANGED <<cmds, cmdPc>> PROVE CommandInv'
  BY <1>2, <1>3 DEF CommandInv, CommandIs
<1>4. CASE UNCHANGED vars
  BY <1>3, <1>4 DEF vars
<1>5. ASSUME NEW a \in Call, Api(a) PROVE CommandInv'
  <2>1. CASE SendCommand(a)
    <3> DEFINE j == call[a].at
    <3>1. call[a] \in ApiCall /\ j \in Instance
      BY <2>1 DEF SendCommand, TypeOK, ApiCall, Unused
    <3>2. CommandOf(a) \in Sound /\ CommandOf(a) \in Command
      <4>1. /\ CommandOf(a) \in Command /\ call[a].bunker \in Bunker
        BY <3>1 DEF CommandOf, Command, ApiCall
      <4>2. CommandOf(a).kind = "Remove" =>
              \/ CommandOf(a).bunker = "user"
              \/ CommandOf(a).bunker = call[a].bunker /\ Ended(call[a].bunker)
        BY <2>1 DEF CommandOf, CallInv, SendCommand
      <4>3. CommandOf(a).kind # "Remove" => CommandOf(a).bunker = call[a].bunker
        BY DEF CommandOf
      <4> QED
        BY <4>1, <4>2, <4>3, InputAssumption DEF Sound
    <3>3. cmds' = [cmds EXCEPT ![j] = Append(@, CommandOf(a))] /\ UNCHANGED cmdPc
      BY <2>1 DEF SendCommand
    <3> HIDE DEF j
    <3> DEFINE c == CommandOf(a)
    <3>4. c \in Sound' /\ c \in Command /\ cmds' = [cmds EXCEPT ![j] = Append(@, c)]
      BY <1>1, <3>2, <3>3
    <3> HIDE DEF c
    <3>5. ASSUME NEW i \in Instance PROVE cmds'[i] \in Seq(Sound')
      <4>1. Append(cmds[i], c) \in Seq(Sound')
        BY <1>2, <3>4
      <4> QED
        BY <1>2, <3>1, <3>4, <4>1 DEF TypeOK
    <3>6. ASSUME NEW i \in Instance, CommandIs(i, "Upsert")
          PROVE  cmds'[i] # <<>> /\ Head(cmds'[i]) = Head(cmds[i])
      <4>1. cmds[i] \in Seq(Command) /\ cmds[i] # <<>>
        BY <3>6 DEF TypeOK, CommandIs
      <4>2. Append(cmds[i], c) # <<>> /\ Head(Append(cmds[i], c)) = Head(cmds[i])
        BY <3>4, <4>1
      <4> QED
        BY <3>4, <4>1, <4>2 DEF TypeOK
    <3> QED
      BY <3>3, <3>5, <3>6 DEF CommandInv, CommandIs
  <2>2. CASE ~SendCommand(a)
    BY <1>3, <1>5, <2>2 DEF Api, Create, RevokeCheck, ReauthRevoke, DisconnectClient, DeleteTeamRow,
       DeleteRow, RevokeUpdate, Abandon
  <2> QED
    BY <2>1, <2>2
<1>6. ASSUME NEW i \in Instance, CommandTask(i) PROVE CommandInv'
  <2>1. CASE UpsertLoad(i)
    BY <1>2, <2>1 DEF UpsertLoad, CommandInv, CommandIs, TypeOK
  <2>2. ASSUME cmds[i] # <<>>, cmds' = [cmds EXCEPT ![i] = Tail(@)],
               cmdPc' = [cmdPc EXCEPT ![i] = "idle"]
        PROVE  CommandInv'
    <3>1. Tail(cmds[i]) \in Seq(Sound')
      BY <1>2, <2>2
    <3> QED
      BY <1>2, <2>2, <3>1 DEF CommandInv, CommandIs, TypeOK
  <2>3. CASE UpsertInsert(i) \/ UpsertDrop(i)
    BY <2>2, <2>3 DEF UpsertInsert, UpsertDrop, CommandIs
  <2>4. CASE RemoveCommand(i)
    <3>1. cmds[i] # <<>> /\ cmdPc[i] = "idle"
      BY <2>4 DEF RemoveCommand, CommandIs, CommandInv, TypeOK
    <3>2. cmdPc' = [cmdPc EXCEPT ![i] = "idle"]
      BY <2>4, <3>1 DEF RemoveCommand, TypeOK
    <3> QED
      BY <2>2, <2>4, <3>1, <3>2 DEF RemoveCommand
  <2> QED
    BY <1>6, <2>1, <2>3, <2>4 DEF CommandTask
<1>7. ASSUME NEW i \in Instance, Restart(i) PROVE CommandInv'
  <2>1. cmds' = [cmds EXCEPT ![i] = <<>>] /\ cmdPc' = [cmdPc EXCEPT ![i] = "idle"]
    BY <1>7 DEF Restart
  <2> QED
    BY <1>2, <2>1 DEF CommandInv, CommandIs, TypeOK
<1>8. ASSUME NEW i \in Instance, NEW b \in Bunker, Evict(i, b) PROVE CommandInv'
  BY <1>3, <1>8 DEF Evict
<1>9. ASSUME NEW b \in Bunker, Expire(b) PROVE CommandInv'
  BY <1>3, <1>9 DEF Expire
<1>10. ASSUME NEW r \in Req, Send(r) PROVE CommandInv'
  BY <1>3, <1>10 DEF Send
<1>11. ASSUME NEW w \in Worker, WorkerLoop(w) PROVE CommandInv'
  BY <1>3, <1>11, WorkerStep DEF WorkerMove
<1> QED
  BY <1>4, <1>5, <1>6, <1>7, <1>8, <1>9, <1>10, <1>11 DEF Next

\* What is sent to a channel stays true until it is read.
LEMMA CommandAlways == Spec => [](CallInv /\ CommandInv)
<1>1. Init => CallInv /\ CommandInv
  BY DEF Init, CallInv, Unused, CommandInv, CommandIs
<1> QED
  BY <1>1, CallStep, CommandStep, SignerTypeCorrect, PTL DEF Spec

\* Nobody starts to cache a session that has ended as an active one.
LEMMA LoadingStep ==
  ASSUME TypeOK, SentInv, [Next]_vars, NEW i \in Instance, NEW b \in Bunker, Ended(b)
  PROVE  Loading(i, b)' \subseteq Loading(i, b)
<1> USE DEF rows, api, work, history
<1> SUFFICES ASSUME NEW w \in Worker, Home[w] = i, pc'[w] = "loading", held'[w] = "Active",
                    req'[job'[w]].bunker = b
             PROVE  w \in Loading(i, b)
  BY DEF Loading
<1>1. CASE pc'[w] = pc[w] /\ job'[w] = job[w] /\ held'[w] = held[w]
  <2>1. req'[job[w]] = req[job[w]]
    BY <1>1, JobStays
  <2> QED
    BY <1>1, <2>1 DEF Loading
<1>2. CASE WorkerLoop(w)
  <2>1. CASE Skip(w)
    BY <1>1, <2>1 DEF Skip
  <2>2. ASSUME Take(w) PROVE FALSE
    BY <2>2 DEF Take, Step, TypeOK
  <2>3. ASSUME NEW outcome, Finish(w, outcome) PROVE FALSE
    BY <2>3 DEF Finish, Step, TypeOK
  <2>4. ASSUME NEW next, Step(w, next) PROVE next = "loading"
    BY <2>4 DEF Step, TypeOK
  <2>5. CASE LoadRow(w)
    <3>1. Exists(Target(w)) /\ held' = [held EXCEPT ![w] = RowStatus(Target(w))] /\ UNCHANGED job
      BY <2>3, <2>5 DEF LoadRow
    <3>2. Target(w) = b
      BY <2>5, <3>1 DEF LoadRow, Target
    <3>3. RowStatus(b) = "Revoked"
      BY <3>1, <3>2 DEF Ended, Exists, RowStatus
    <3> QED
      BY <3>1, <3>2, <3>3 DEF TypeOK
  <2>6. ASSUME \/ Insert(w) \/ LoadFail(w) \/ Tombstone(w) \/ GetPublicKey(w)
        PROVE  FALSE
    BY <2>3, <2>4, <2>6 DEF Insert, LoadFail, Tombstone, GetPublicKey
  <2>7. ASSUME ConnectCheck(w) \/ ConnectStore(w) \/ ValidateClient(w) \/ SkipValidation(w)
        PROVE  FALSE
    BY <2>3, <2>4, <2>7 DEF ConnectCheck, Enter, ConnectStore, ValidateClient, SkipValidation
  <2>8. ASSUME ClaimCheck(w) \/ ClaimStore(w) \/ Encrypt(w) \/ SignEvent(w)
        PROVE  FALSE
    BY <2>3, <2>4, <2>8 DEF ClaimCheck, Enter, ClaimStore, Encrypt, SignEvent
  <2> QED
    BY <1>2, <2>1, <2>2, <2>5, <2>6, <2>7, <2>8 DEF WorkerLoop
<1> QED
  BY <1>1, <1>2, PcStep

LEMMA CleanStep ==
  ASSUME TypeOK, SentInv, CommandInv, CleanInv, [Next]_vars
  PROVE  CleanInv'
<1> USE DEF rows, api, work, history
<1> DEFINE Pending(i, b) == cmdPc[i] = "loaded" /\ Head(cmds[i]).bunker = b
<1> SUFFICES ASSUME NEW i \in Instance, NEW b \in Bunker, told'[i][b] = "clean"
             PROVE  Clean(i, b)'
  BY DEF CleanInv
<1>1. ASSUME Ended(b), Loading(i, b) = {}, cache'[i][b] # "Active", ~Pending(i, b)'
      PROVE  Clean(i, b)'
  <2>1. Ended(b)' /\ Loading(i, b)' = {}
    BY <1>1, EndedForGood, LoadingStep DEF Ended
  <2> QED
    BY <1>1, <2>1 DEF Clean
<1>2. ASSUME told[i][b] = "clean"
      PROVE  Ended(b) /\ Loading(i, b) = {} /\ cache[i][b] # "Active" /\ ~Pending(i, b)
  BY <1>2 DEF CleanInv, Clean
<1>3. ASSUME UNCHANGED <<told, cache, cmds, cmdPc>> PROVE Clean(i, b)'
  BY <1>1, <1>2, <1>3
<1>4. CASE UNCHANGED vars
  BY <1>3, <1>4 DEF vars
<1>5. ASSUME NEW a \in Call, Api(a) PROVE Clean(i, b)'
  <2>1. CASE SendCommand(a)
    <3>1. UNCHANGED <<told, cache, cmdPc>>
      BY <2>1 DEF SendCommand
    <3>2. cmdPc[i] = "loaded" => Head(cmds'[i]) = Head(cmds[i])
      <4> DEFINE c == CommandOf(a)
                 j == call[a].at
      <4>1. cmds' = [cmds EXCEPT ![j] = Append(@, c)]
        BY <2>1 DEF SendCommand
      <4> HIDE DEF c, j
      <4>2. cmdPc[i] = "loaded" => cmds[i] # <<>>
        BY DEF CommandInv, CommandIs
      <4>3. cmds[i] # <<>> => Head(Append(cmds[i], c)) = Head(cmds[i])
        BY DEF TypeOK
      <4> QED
        BY <4>1, <4>2, <4>3 DEF TypeOK
    <3> QED
      BY <1>1, <1>2, <3>1, <3>2
  <2>2. CASE ~SendCommand(a)
    BY <1>3, <1>5, <2>2 DEF Api, Create, RevokeCheck, ReauthRevoke, DisconnectClient, DeleteTeamRow,
       DeleteRow, RevokeUpdate, Abandon
  <2> QED
    BY <2>1, <2>2
<1>6. ASSUME NEW j \in Instance, CommandTask(j) PROVE Clean(i, b)'
  <2>1. CASE UpsertLoad(j)
    <3>1. UNCHANGED <<told, cache, cmds>>
      BY <2>1 DEF UpsertLoad
    <3>2. Ended(b) => ~Pending(i, b)' \/ Pending(i, b)
      BY <2>1 DEF UpsertLoad, Live, Ended, TypeOK
    <3> QED
      BY <1>1, <1>2, <3>1, <3>2
  <2>2. CASE UpsertInsert(j)
    <3>1. UNCHANGED told /\ cmdPc[j] = "loaded" /\ cmdPc' = [cmdPc EXCEPT ![j] = "idle"]
          /\ cache' = [cache EXCEPT ![j][Head(cmds[j]).bunker] = "Active"]
          /\ cmds' = [cmds EXCEPT ![j] = Tail(@)]
      BY <2>2 DEF UpsertInsert
    <3>2. ~Pending(i, b) => cache'[i][b] = cache[i][b] /\ ~Pending(i, b)'
      BY <3>1 DEF TypeOK
    <3> QED
      BY <1>1, <1>2, <3>1, <3>2
  <2>3. CASE UpsertDrop(j)
    <3>1. UNCHANGED <<told, cache>> /\ cmdPc' = [cmdPc EXCEPT ![j] = "idle"]
          /\ cmds' = [cmds EXCEPT ![j] = Tail(@)]
      BY <2>3 DEF UpsertDrop
    <3>2. ~Pending(i, b) => ~Pending(i, b)'
      BY <3>1 DEF TypeOK
    <3> QED
      BY <1>1, <1>2, <3>1, <3>2
  <2>4. CASE RemoveCommand(j)
    <3> DEFINE c == Head(cmds[j])
    <3>1. cmdPc[j] # "loaded" /\ UNCHANGED cmdPc /\ cmds' = [cmds EXCEPT ![j] = Tail(@)]
      BY <2>4 DEF RemoveCommand, CommandInv, CommandIs
    <3>2. ~Pending(i, b) => ~Pending(i, b)'
      BY <3>1 DEF TypeOK
    <3>3. CASE j = i /\ c.bunker = b
      <4>1. c \in Sound /\ c.kind = "Remove"
        BY <2>4, <3>3 DEF RemoveCommand, CommandInv, CommandIs
      <4>2. cache' = Tombstoned(i, b) /\ told' = [told EXCEPT ![i][b] =
                          IF @ = "racing" \/ Loading(i, b) # {} THEN "racing" ELSE "clean"]
        BY <2>4, <3>3 DEF RemoveCommand
      <4>3. Ended(b)
        BY <3>3, <4>1 DEF Sound
      <4>4. Loading(i, b) = {}
        BY <4>2 DEF TypeOK
      <4>5. cache'[i][b] # "Active"
        BY <4>2 DEF Tombstoned, TypeOK
      <4> QED
        BY <1>1, <3>1, <3>3, <4>3, <4>4, <4>5
    <3>4. CASE ~(j = i /\ c.bunker = b)
      <4>1. told'[i][b] = told[i][b] /\ cache'[i][b] = cache[i][b]
        <5> DEFINE k == c.bunker
        <5>1. \/ UNCHANGED <<cache, told>>
              \/ /\ cache' = [cache EXCEPT ![j][k] = IF @ = "none" THEN "none" ELSE "Revoked"]
                 /\ told' = [told EXCEPT ![j][k] =
                               IF @ = "racing" \/ Loading(j, k) # {} THEN "racing" ELSE "clean"]
          BY <2>4 DEF RemoveCommand, Tombstoned
        <5> HIDE DEF k
        <5>2. ~(j = i /\ k = b)
          BY <3>4 DEF k
        <5>3. CASE j = i
          <6>1. k # b
            BY <5>2, <5>3
          <6> QED
            BY <5>1, <5>3, <6>1 DEF TypeOK
        <5>4. CASE j # i
          BY <5>1, <5>4 DEF TypeOK
        <5> QED
          BY <5>3, <5>4
      <4> QED
        BY <1>1, <1>2, <3>2, <4>1
    <3> QED
      BY <3>3, <3>4
  <2> QED
    BY <1>6, <2>1, <2>2, <2>3, <2>4 DEF CommandTask
<1>7. ASSUME NEW j \in Instance, Restart(j) PROVE Clean(i, b)'
  <2>1. CASE j = i
    <3>1. UNCHANGED told /\ cache'[i][b] = "none" /\ cmdPc'[i] = "idle"
      BY <1>7, <2>1 DEF Restart, TypeOK
    <3> QED
      BY <1>1, <1>2, <3>1
  <2>2. CASE j # i
    <3>1. /\ told'[i] = told[i] /\ cache'[i] = cache[i] /\ cmds'[i] = cmds[i]
          /\ cmdPc'[i] = cmdPc[i]
      BY <1>7, <2>2 DEF Restart, TypeOK
    <3> QED
      BY <1>1, <1>2, <3>1
  <2> QED
    BY <2>1, <2>2
<1>8. ASSUME NEW j \in Instance, NEW c \in Bunker, Evict(j, c) PROVE Clean(i, b)'
  <2>1. UNCHANGED <<told, cmds, cmdPc>> /\ cache'[i][b] \in {cache[i][b], "none"}
    BY <1>8 DEF Evict, TypeOK
  <2> QED
    BY <1>1, <1>2, <2>1
<1>9. ASSUME NEW c \in Bunker, Expire(c) PROVE Clean(i, b)'
  BY <1>3, <1>9 DEF Expire
<1>10. ASSUME NEW r \in Req, Send(r) PROVE Clean(i, b)'
  BY <1>3, <1>10 DEF Send
<1>11. ASSUME NEW w \in Worker, WorkerLoop(w) PROVE Clean(i, b)'
  <2>1. UNCHANGED <<told, cmds, cmdPc>>
    BY <1>11, WorkerStep DEF WorkerMove
  <2>2. CASE Insert(w)
    <3> DEFINE c == Target(w)
    <3>1. pc[w] = "loading" /\ cache' = [cache EXCEPT ![Home[w]][c] = held[w]]
      BY <2>2 DEF Insert
    <3>2. c = b /\ Home[w] = i /\ held[w] = "Active" => w \in Loading(i, b)
      BY <3>1 DEF Loading, Target
    <3> HIDE DEF c
    <3>3. Loading(i, b) = {} => cache'[i][b] = cache[i][b] \/ cache'[i][b] # "Active"
      BY <3>1, <3>2 DEF TypeOK
    <3> QED
      BY <1>1, <1>2, <2>1, <3>3
  <2>3. CASE ~Insert(w)
    <3>1. UNCHANGED cache
      BY <1>11, <2>3 DEF WorkerLoop, Skip, Take, LoadRow, LoadFail, Tombstone, GetPublicKey,
         ConnectCheck, ConnectStore, ValidateClient, ClaimCheck, ClaimStore, SkipValidation, Encrypt, SignEvent
    <3> QED
      BY <1>3, <2>1, <3>1
  <2> QED
    BY <2>2, <2>3
<1> QED
  BY <1>4, <1>5, <1>6, <1>7, <1>8, <1>9, <1>10, <1>11 DEF Next

\* Whatever the other instances, the queues, evictions and restarts do, its own
\* included: once an instance has handled the Remove of a session no worker of it was
\* loading, it never holds an active handler for it again.
THEOREM RemovedStaysHolds == Spec => []RemovedStays
<1>1. Init => CleanInv
  BY DEF Init, CleanInv
<1>2. CleanInv => RemovedStays
  BY DEF CleanInv, Clean, RemovedStays
<1> QED
  BY <1>1, <1>2, CleanStep, CommandAlways, SignerTypeCorrect, PTL DEF Spec

-----------------------------------------------------------------------------
(* Clients of live sessions                                                *)

\* A handler is loaded and a request served only for rows that were created.
KnownInv ==
  /\ \A w \in Worker : pc[w] \notin {"idle", "miss"} => row[Target(w)] # "absent"
  /\ \A i \in Instance, b \in Bunker : cache[i][b] # "none" => row[b] # "absent"
  /\ \A i \in Instance : cmdPc[i] = "loaded" => row[Head(cmds[i]).bunker] # "absent"

LEMMA KnownWorker ==
  ASSUME TypeOK, SentInv, KnownInv, [Next]_vars, NEW w \in Worker,
         pc'[w] \notin {"idle", "miss"}
  PROVE  row'[Target(w)'] # "absent"
<1> USE DEF rows, api, work, history
<1>1. ASSUME NEW b \in Bunker, row[b] # "absent" PROVE row'[b] # "absent"
  BY <1>1, RowStep DEF RowMove
<1>2. ASSUME pc[w] # "idle", job'[w] = job[w], row[Target(w)] # "absent"
      PROVE  row'[Target(w)'] # "absent"
  <2>1. Target(w)' = Target(w) /\ Target(w) \in Bunker
    BY <1>2, JobStays, JobType DEF Target
  <2> QED
    BY <1>1, <1>2, <2>1
<1>3. CASE pc'[w] = pc[w] /\ job'[w] = job[w]
  BY <1>2, <1>3 DEF KnownInv
<1>4. CASE WorkerLoop(w)
  <2>1. CASE Skip(w)
    BY <1>3, <2>1 DEF Skip
  <2>2. CASE Take(w)
    <3> DEFINE r == Head(queue[Home[w]])
    <3>1. r \in Req /\ req[r] # Unsent /\ Home[w] \in Instance
      <4>1. queue[Home[w]] \in Seq(Sent) /\ queue[Home[w]] # <<>>
        BY <2>2, WorkerAssumption DEF Take, Dequeue, SentInv
      <4>2. r \in Sent
        BY <4>1
      <4> QED
        BY <4>2, WorkerAssumption DEF Sent
    <3>2. /\ job' = [job EXCEPT ![w] = r] /\ UNCHANGED <<row, req>>
          /\ Step(w, IF cache[Home[w]][req[r].bunker] = "none" THEN "miss" ELSE "have")
      BY <2>2 DEF Take
    <3> HIDE DEF r
    <3>3. cache[Home[w]][req[r].bunker] # "none"
      BY <3>2 DEF Step, TypeOK
    <3>4. req[r].bunker \in Bunker
      BY <3>1 DEF TypeOK, Request
    <3>5. row[req[r].bunker] # "absent"
      BY <3>1, <3>3, <3>4 DEF KnownInv
    <3> QED
      BY <3>2, <3>5 DEF Target, TypeOK
  <2>3. ASSUME NEW outcome, Finish(w, outcome) PROVE FALSE
    BY <2>3 DEF Finish, Step, TypeOK
  <2>4. CASE LoadRow(w)
    <3>1. Exists(Target(w)) /\ UNCHANGED job /\ pc[w] # "idle"
      BY <2>3, <2>4 DEF LoadRow
    <3> QED
      BY <1>2, <3>1 DEF Exists
  <2>5. ASSUME ~LoadRow(w), NEW next, pc[w] # "idle", Step(w, next), Moves(w, next), UNCHANGED job
        PROVE  row'[Target(w)'] # "absent"
    <3>1. pc[w] # "miss"
      BY <1>4, <2>3, <2>5 DEF WorkerLoop, Skip, Take, Dequeue, Insert, LoadFail, Tombstone,
         GetPublicKey, ConnectCheck, ConnectStore, ValidateClient, ClaimCheck, ClaimStore,
         SkipValidation, Encrypt, SignEvent, Dispatch
    <3> QED
      BY <1>2, <2>5, <3>1 DEF KnownInv
  <2> QED
    BY <1>4, <2>1, <2>2, <2>3, <2>4, <2>5, WorkerStep DEF WorkerMove
<1> QED
  BY <1>3, <1>4, PcStep

LEMMA KnownCommand ==
  ASSUME TypeOK, CommandInv, KnownInv, [Next]_vars, NEW i \in Instance, cmdPc'[i] = "loaded"
  PROVE  row'[Head(cmds'[i]).bunker] # "absent"
<1> USE DEF rows, api, work, history
<1>1. ASSUME NEW b \in Bunker, row[b] # "absent" PROVE row'[b] # "absent"
  BY <1>1, RowStep DEF RowMove
<1>2. ASSUME CommandIs(i, "Upsert") PROVE Head(cmds[i]).bunker \in Bunker
  <2>1. Head(cmds[i]) \in Sound /\ Head(cmds[i]).kind = "Upsert"
    BY <1>2 DEF CommandInv, CommandIs
  <2> QED
    BY <2>1 DEF Sound
<1>3. ASSUME Head(cmds'[i]) = Head(cmds[i]), cmdPc'[i] = cmdPc[i]
      PROVE  row'[Head(cmds'[i]).bunker] # "absent"
  BY <1>1, <1>2, <1>3 DEF CommandInv, KnownInv
<1>4. ASSUME UNCHANGED <<cmds, cmdPc>> PROVE row'[Head(cmds'[i]).bunker] # "absent"
  BY <1>3, <1>4
<1>5. CASE UNCHANGED vars
  BY <1>4, <1>5 DEF vars
<1>6. ASSUME NEW a \in Call, Api(a) PROVE row'[Head(cmds'[i]).bunker] # "absent"
  <2>1. CASE SendCommand(a)
    <3> DEFINE c == CommandOf(a)
               j == call[a].at
    <3>1. cmds' = [cmds EXCEPT ![j] = Append(@, c)] /\ UNCHANGED cmdPc
      BY <2>1 DEF SendCommand
    <3> HIDE DEF c, j
    <3>2. cmds[i] # <<>>
      BY <3>1 DEF CommandInv, CommandIs
    <3>3. Head(Append(cmds[i], c)) = Head(cmds[i])
      BY <3>2 DEF TypeOK
    <3> QED
      BY <1>3, <3>1, <3>3 DEF TypeOK
  <2>2. CASE ~SendCommand(a)
    BY <1>4, <1>6, <2>2 DEF Api, Create, RevokeCheck, ReauthRevoke, DisconnectClient, DeleteTeamRow,
       DeleteRow, RevokeUpdate, Abandon
  <2> QED
    BY <2>1, <2>2
<1>7. ASSUME NEW j \in Instance, CommandTask(j) PROVE row'[Head(cmds'[i]).bunker] # "absent"
  <2>1. CASE UpsertLoad(j)
    <3>1. CASE j = i
      BY <2>1, <3>1 DEF UpsertLoad, Live
    <3>2. CASE j # i
      BY <1>3, <2>1, <3>2 DEF UpsertLoad, TypeOK
    <3> QED
      BY <3>1, <3>2
  <2>2. CASE UpsertInsert(j) \/ UpsertDrop(j)
    <3>1. cmdPc' = [cmdPc EXCEPT ![j] = "idle"] /\ cmds' = [cmds EXCEPT ![j] = Tail(@)]
      BY <2>2 DEF UpsertInsert, UpsertDrop
    <3> QED
      BY <1>3, <3>1 DEF TypeOK
  <2>3. CASE RemoveCommand(j)
    <3>1. cmdPc[j] # "loaded" /\ UNCHANGED cmdPc /\ cmds' = [cmds EXCEPT ![j] = Tail(@)]
      BY <2>3 DEF RemoveCommand, CommandInv, CommandIs
    <3> QED
      BY <1>3, <3>1 DEF TypeOK
  <2> QED
    BY <1>7, <2>1, <2>2, <2>3 DEF CommandTask
<1>8. ASSUME NEW j \in Instance, Restart(j) PROVE row'[Head(cmds'[i]).bunker] # "absent"
  <2>1. cmds' = [cmds EXCEPT ![j] = <<>>] /\ cmdPc' = [cmdPc EXCEPT ![j] = "idle"]
    BY <1>8 DEF Restart
  <2> QED
    BY <1>3, <2>1 DEF TypeOK
<1>9. ASSUME NEW j \in Instance, NEW b \in Bunker, Evict(j, b) PROVE row'[Head(cmds'[i]).bunker] # "absent"
  BY <1>4, <1>9 DEF Evict
<1>10. ASSUME NEW b \in Bunker, Expire(b) PROVE row'[Head(cmds'[i]).bunker] # "absent"
  BY <1>4, <1>10 DEF Expire
<1>11. ASSUME NEW r \in Req, Send(r) PROVE row'[Head(cmds'[i]).bunker] # "absent"
  BY <1>4, <1>11 DEF Send
<1>12. ASSUME NEW w \in Worker, WorkerLoop(w) PROVE row'[Head(cmds'[i]).bunker] # "absent"
  BY <1>4, <1>12, WorkerStep DEF WorkerMove
<1> QED
  BY <1>5, <1>6, <1>7, <1>8, <1>9, <1>10, <1>11, <1>12 DEF Next

LEMMA KnownStep ==
  ASSUME TypeOK, SentInv, CommandInv, KnownInv, [Next]_vars
  PROVE  KnownInv'
<1> USE DEF rows, api, work, history
<1>1. ASSUME NEW b \in Bunker, row[b] # "absent" PROVE row'[b] # "absent"
  BY <1>1, RowStep DEF RowMove
<1>2. SUFFICES ASSUME NEW i \in Instance, NEW b \in Bunker, cache'[i][b] # "none"
               PROVE  row[b] # "absent"
  BY <1>1, KnownWorker, KnownCommand DEF KnownInv
<1>3. ASSUME cache[i][b] # "none" PROVE row[b] # "absent"
  BY <1>3 DEF KnownInv
<1>4. CASE UNCHANGED vars
  BY <1>3, <1>2, <1>4 DEF vars
<1>5. ASSUME NEW a \in Call, Api(a) PROVE UNCHANGED cache
  BY <1>5 DEF Api, Create, RevokeCheck, ReauthRevoke, DisconnectClient, DeleteTeamRow,
     DeleteRow, RevokeUpdate, SendCommand, Abandon
<1>6. ASSUME NEW j \in Instance, CommandTask(j) PROVE row[b] # "absent"
  <2>1. CASE UpsertLoad(j) \/ UpsertDrop(j)
    BY <1>2, <1>3, <2>1 DEF UpsertLoad, UpsertDrop
  <2>2. CASE UpsertInsert(j)
    <3> DEFINE c == Head(cmds[j]).bunker
    <3>1. cmdPc[j] = "loaded" /\ cache' = [cache EXCEPT ![j][c] = "Active"]
      BY <2>2 DEF UpsertInsert
    <3>2. row[c] # "absent"
      BY <3>1 DEF KnownInv
    <3> HIDE DEF c
    <3> QED
      BY <1>2, <1>3, <3>1, <3>2 DEF TypeOK
  <2>3. CASE RemoveCommand(j)
    <3> DEFINE c == Head(cmds[j]).bunker
    <3>1. \/ UNCHANGED cache
          \/ cache' = [cache EXCEPT ![j][c] = IF @ = "none" THEN "none" ELSE "Revoked"]
      BY <2>3 DEF RemoveCommand, Tombstoned
    <3> HIDE DEF c
    <3>2. cache[i][b] # "none"
      <4>1. CASE j = i /\ c = b
        BY <1>2, <3>1, <4>1 DEF TypeOK
      <4>2. CASE j # i
        BY <1>2, <3>1, <4>2 DEF TypeOK
      <4>3. CASE j = i /\ c # b
        BY <1>2, <3>1, <4>3 DEF TypeOK
      <4> QED
        BY <4>1, <4>2, <4>3
    <3> QED
      BY <1>3, <3>2
  <2> QED
    BY <1>6, <2>1, <2>2, <2>3 DEF CommandTask
<1>7. ASSUME NEW j \in Instance, Restart(j) PROVE row[b] # "absent"
  BY <1>2, <1>3, <1>7 DEF Restart, TypeOK
<1>8. ASSUME NEW j \in Instance, NEW c \in Bunker, Evict(j, c) PROVE row[b] # "absent"
  BY <1>2, <1>3, <1>8 DEF Evict, TypeOK
<1>9. ASSUME NEW c \in Bunker, Expire(c) PROVE UNCHANGED cache
  BY <1>9 DEF Expire
<1>10. ASSUME NEW r \in Req, Send(r) PROVE UNCHANGED cache
  BY <1>10 DEF Send
<1>11. ASSUME NEW w \in Worker, WorkerLoop(w) PROVE row[b] # "absent"
  <2>1. CASE Insert(w)
    <3> DEFINE c == Target(w)
    <3>1. pc[w] = "loading" /\ cache' = [cache EXCEPT ![Home[w]][c] = held[w]]
      BY <2>1 DEF Insert
    <3>2. row[c] # "absent"
      BY <3>1 DEF KnownInv
    <3> HIDE DEF c
    <3> QED
      BY <1>2, <1>3, <3>1, <3>2 DEF TypeOK
  <2>2. CASE ~Insert(w)
    <3>1. UNCHANGED cache
      BY <1>11, <2>2 DEF WorkerLoop, Skip, Take, LoadRow, LoadFail, Tombstone, GetPublicKey,
         ConnectCheck, ConnectStore, ValidateClient, ClaimCheck, ClaimStore, SkipValidation, Encrypt, SignEvent
    <3> QED
      BY <1>2, <1>3, <3>1
  <2> QED
    BY <2>1, <2>2
<1> QED
  BY <1>2, <1>3, <1>4, <1>5, <1>6, <1>7, <1>8, <1>9, <1>10, <1>11 DEF Next

\* The session has one client or none: the row names it, and so does every worker
\* about to write a client.
Sole(b) ==
  /\ served[b] \subseteq {client[b]}
  /\ \A v \in Storing(b) : client[b] \in {"nobody", Sender(v)}
  /\ \A v, w \in Storing(b) : Sender(v) = Sender(w)

\* It does as long as it is live and no two workers contested it.
ClientInv ==
  \A b \in Bunker :
    /\ row[b] = "absent" => client[b] = "nobody" /\ served[b] = {}
    /\ (Live(b) /\ b \notin contested) => Sole(b)

LEMMA ClientStep ==
  ASSUME TypeOK, SentInv, KnownInv, ClientInv, [Next]_vars
  PROVE  ClientInv'
<1> USE DEF rows, api, work, history
<1> DEFINE Store == {"connectStore", "claimStore"}
<1> SUFFICES ASSUME NEW b \in Bunker
             PROVE  /\ row'[b] = "absent" => client'[b] = "nobody" /\ served'[b] = {}
                    /\ (Live(b)' /\ b \notin contested') => Sole(b)'
  BY DEF ClientInv
<1> DEFINE Goal == /\ row'[b] = "absent" => client'[b] = "nobody" /\ served'[b] = {}
                   /\ (Live(b)' /\ b \notin contested') => Sole(b)'
<1>1. /\ row'[b] = "absent" => row[b] = "absent"
      /\ Live(b)' => Live(b) \/ row[b] = "absent"
  BY RowStep DEF RowMove, Live, Exists
<1>2. row[b] = "absent" => client[b] = "nobody" /\ served[b] = {} /\ Storing(b) = {}
  BY DEF ClientInv, KnownInv, Storing
<1>3. ASSUME Live(b)', b \notin contested PROVE Sole(b)
  BY <1>1, <1>2, <1>3 DEF ClientInv, Sole
\* A worker that stays where it stores has the request it had.
<1>4. ASSUME NEW v \in Worker, pc[v] \in Store, pc'[v] \in Store, job'[v] = job[v]
      PROVE  Target(v)' = Target(v) /\ Sender(v)' = Sender(v)
  BY <1>4, JobStays DEF Target, Sender
<1>5. ASSUME UNCHANGED contested,
             \/ client'[b] = client[b] /\ served'[b] = served[b]
             \/ client'[b] = "nobody" /\ served'[b] = {},
             \A v \in Storing(b)' : v \in Storing(b) /\ Sender(v)' = Sender(v)
      PROVE  Goal
  <2>1. ASSUME Live(b)', b \notin contested' PROVE Sole(b)'
    <3>1. Sole(b)
      BY <1>3, <1>5, <2>1
    <3>2. \A v \in Storing(b)' : v \in Storing(b) /\ Sender(v)' = Sender(v)
      BY <1>5
    <3>3. served'[b] \subseteq {client'[b]}
      BY <1>5, <3>1 DEF Sole
    <3>4. \A v \in Storing(b)' : client'[b] \in {"nobody", Sender(v)'}
      BY <1>5, <3>1, <3>2 DEF Sole
    <3>5. \A v, w \in Storing(b)' : Sender(v)' = Sender(w)'
      BY <3>1, <3>2 DEF Sole
    <3> QED
      BY <3>3, <3>4, <3>5 DEF Sole
  <2> QED
    BY <1>1, <1>2, <1>5, <2>1
<1>6. ASSUME \A v \in Worker : \/ pc'[v] = pc[v] /\ job'[v] = job[v]
                               \/ pc'[v] = "idle"
      PROVE  \A v \in Storing(b)' : v \in Storing(b) /\ Sender(v)' = Sender(v)
  BY <1>4, <1>6 DEF Storing
<1>7. ASSUME UNCHANGED <<client, served, contested, pc, job>> PROVE Goal
  BY <1>5, <1>6, <1>7
<1> HIDE DEF Goal
<1>8. ASSUME UNCHANGED vars PROVE Goal
  BY <1>7, <1>8 DEF vars
<1>9. ASSUME NEW a \in Call, Api(a) PROVE Goal
  <2>1. ASSUME NEW i \in Instance, NEW d \in Bunker, DisconnectClient(a, i, d) PROVE Goal
    <3>1. /\ client' = [client EXCEPT ![d] = "nobody"] /\ served' = [served EXCEPT ![d] = {}]
          /\ contested' = IF Racing(d) THEN contested \cup {d} ELSE contested \ {d}
          /\ UNCHANGED <<row, pc, job>>
      BY <2>1 DEF DisconnectClient
    <3>2. \A v \in Storing(b)' : v \in Storing(b) /\ Sender(v)' = Sender(v)
      BY <1>6, <3>1
    <3>3. CASE d = b
      <4>1. client'[b] = "nobody" /\ served'[b] = {}
        BY <3>1, <3>3 DEF TypeOK
      <4>2. ASSUME b \notin contested' PROVE Sole(b)'
        <5>1. ~Racing(b)
          BY <3>1, <3>3, <4>2
        <5>2. \A v, w \in Storing(b)' : Sender(v)' = Sender(w)'
          BY <3>2, <5>1 DEF Racing
        <5> QED
          BY <4>1, <5>2 DEF Sole
      <4> QED
        BY <4>1, <4>2 DEF Goal
    <3>4. CASE d # b
      <4>1. client'[b] = client[b] /\ served'[b] = served[b]
        BY <3>1, <3>4 DEF TypeOK
      <4>2. b \in contested' <=> b \in contested
        BY <3>1, <3>4
      <4>3. ASSUME Live(b)', b \notin contested' PROVE Sole(b)'
        BY <1>3, <3>2, <4>1, <4>2, <4>3 DEF Sole
      <4> QED
        BY <1>1, <1>2, <4>1, <4>3 DEF Goal
    <3> QED
      BY <3>3, <3>4
  <2>2. ASSUME NEW i \in Instance, NEW d \in Bunker,
               Create(a, i, d) \/ RevokeCheck(a, i, d) \/ ReauthRevoke(a, i, d)
               \/ DeleteTeamRow(a, i, d)
        PROVE  Goal
    BY <1>7, <2>2 DEF Create, RevokeCheck, ReauthRevoke, DeleteTeamRow
  <2>3. ASSUME NEW i \in Instance, NEW d \in Bunker, NEW operation, DeleteRow(a, operation, i, d)
        PROVE  Goal
    BY <1>7, <2>3 DEF DeleteRow
  <2>4. CASE RevokeUpdate(a) \/ SendCommand(a) \/ Abandon(a)
    BY <1>7, <2>4 DEF RevokeUpdate, SendCommand, Abandon
  <2> QED
    BY <1>9, <2>1, <2>2, <2>3, <2>4 DEF Api
<1>10. ASSUME NEW i \in Instance, CommandTask(i) PROVE Goal
  BY <1>7, <1>10 DEF CommandTask, UpsertLoad, UpsertInsert, UpsertDrop, RemoveCommand
<1>11. ASSUME NEW i \in Instance, Restart(i) PROVE Goal
  <2>1. /\ UNCHANGED <<client, served, contested>>
        /\ \A v \in Worker : \/ pc'[v] = pc[v] /\ job'[v] = job[v]
                             \/ pc'[v] = "idle"
    BY <1>11 DEF Restart
  <2> QED
    BY <1>5, <1>6, <2>1
<1>12. ASSUME NEW i \in Instance, NEW d \in Bunker, Evict(i, d) PROVE Goal
  BY <1>7, <1>12 DEF Evict
<1>13. ASSUME NEW d \in Bunker, Expire(d) PROVE Goal
  BY <1>7, <1>13 DEF Expire
<1>14. ASSUME NEW r \in Req, Send(r) PROVE Goal
  BY <1>7, <1>14 DEF Send
<1>15. ASSUME NEW w \in Worker, WorkerLoop(w) PROVE Goal
  <2> DEFINE t == Target(w)
             c == Sender(w)
  <2>1. UNCHANGED <<row, req>>
    BY <1>15, WorkerStep DEF WorkerMove
  <2>2. ASSUME pc[w] \notin {"idle", "miss"}
        PROVE  t \in Bunker /\ c \in Client /\ c # "nobody" /\ row[t] # "absent"
    BY <2>2, JobType, InputAssumption DEF KnownInv
  <2>3. ASSUME NEW outcome, Finish(w, outcome)
        PROVE  /\ pc'[w] = "idle"
               /\ \A v \in Worker : v # w => pc'[v] = pc[v] /\ job'[v] = job[v]
    BY <2>3 DEF Finish, Step, TypeOK
  <2>4. ASSUME NEW next, Step(w, next)
        PROVE  pc'[w] = next /\ \A v \in Worker : v # w => pc'[v] = pc[v]
    BY <2>4 DEF Step, TypeOK
  <2>5. ASSUME pc'[w] \notin Store,
               \A v \in Worker : v # w => pc'[v] = pc[v] /\ job'[v] = job[v]
        PROVE  \A v \in Storing(b)' : v \in Storing(b) /\ Sender(v)' = Sender(v)
    BY <1>4, <2>5 DEF Storing
  \* A worker that neither stores nor is about to.
  <2>6. ASSUME UNCHANGED <<client, served, contested>>, pc'[w] \notin Store,
               \A v \in Worker : v # w => pc'[v] = pc[v] /\ job'[v] = job[v]
        PROVE  Goal
    BY <1>5, <2>5, <2>6
  \* One that accepts its sender as the client it is.
  <2>7. ASSUME pc[w] \notin {"idle", "miss"}, Accept(w), UNCHANGED <<client, contested>>,
               Live(t) => client[t] = c, pc'[w] \notin Store,
               \A v \in Worker : v # w => pc'[v] = pc[v] /\ job'[v] = job[v]
        PROVE  Goal
    <3>1. \A v \in Storing(b)' : v \in Storing(b) /\ Sender(v)' = Sender(v)
      BY <2>5, <2>7
    <3> HIDE DEF t, c
    <3>2. served' = [served EXCEPT ![t] = @ \cup {c}]
      BY <2>7 DEF Accept, t, c
    <3>3. CASE t = b
      <4>1. row'[b] # "absent" /\ (Live(b)' => client[b] = c)
        BY <2>1, <2>2, <2>7, <3>3 DEF Live
      <4>2. ASSUME Live(b)', b \notin contested' PROVE Sole(b)'
        <5>1. Sole(b) /\ client'[b] = client[b] /\ client[b] = c
          BY <1>3, <2>7, <4>1, <4>2
        <5>2. served'[b] = served[b] \cup {c}
          BY <3>2, <3>3 DEF TypeOK
        <5> QED
          BY <3>1, <5>1, <5>2 DEF Sole
      <4> QED
        BY <4>1, <4>2 DEF Goal
    <3>4. CASE t # b
      <4>1. served'[b] = served[b]
        BY <3>2, <3>4 DEF TypeOK
      <4> QED
        BY <1>5, <2>7, <3>1, <4>1
    <3> QED
      BY <3>3, <3>4
  \* One that stores it.
  <2>8. ASSUME pc[w] \in Store, Accept(w), StoreClient(w), UNCHANGED contested,
               pc'[w] \notin Store,
               \A v \in Worker : v # w => pc'[v] = pc[v] /\ job'[v] = job[v]
        PROVE  Goal
    <3>1. \A v \in Storing(b)' : v \in Storing(b) /\ Sender(v)' = Sender(v)
      BY <2>5, <2>8
    <3>2. w \in Storing(t)
      BY <2>8 DEF Storing
    <3>3. t \in Bunker /\ c \in Client /\ c # "nobody" /\ row[t] # "absent"
      BY <2>2, <2>8
    <3> HIDE DEF t
    <3>4. served' = [served EXCEPT ![t] = @ \cup {c}]
      BY <2>8 DEF Accept, t
    <3>5. client' = IF Exists(t) THEN [client EXCEPT ![t] = c] ELSE client
      BY <2>8 DEF StoreClient, t
    <3>6. CASE t = b
      <4>1. ASSUME Live(b)', b \notin contested' PROVE Sole(b)'
        <5>1. Sole(b) /\ w \in Storing(b)
          BY <1>3, <2>8, <3>2, <3>6, <4>1
        <5>2. Exists(b)
          BY <2>1, <4>1 DEF Live, Exists
        <5> HIDE DEF c
        <5>3. served'[b] = served[b] \cup {c} /\ client'[b] = c
          BY <3>4, <3>5, <3>6, <5>2 DEF TypeOK
        <5>4. client[b] \in {"nobody", c} /\ \A v \in Storing(b) : Sender(v) = c
          BY <5>1 DEF Sole, c
        <5>5. served[b] \subseteq {c}
          <6>1. served[b] \subseteq Client /\ served[b] \subseteq {client[b]}
            BY <5>1 DEF Sole, TypeOK
          <6> QED
            BY <5>4, <6>1, InputAssumption
        <5>6. served'[b] \subseteq {client'[b]}
          BY <5>3, <5>5
        <5>7. \A v \in Storing(b)' : Sender(v)' = c
          BY <3>1, <5>4
        <5> QED
          BY <5>3, <5>6, <5>7 DEF Sole
      <4>2. row'[b] # "absent"
        BY <2>1, <3>3, <3>6
      <4> QED
        BY <4>1, <4>2 DEF Goal
    <3>7. CASE t # b
      <4>1. served'[b] = served[b] /\ client'[b] = client[b]
        BY <3>4, <3>5, <3>7 DEF TypeOK
      <4> QED
        BY <1>5, <2>8, <3>1, <4>1
    <3> QED
      BY <3>6, <3>7
  \* One that found no client and goes on to store.
  <2>9. ASSUME NEW next \in Store, pc[w] \notin {"idle", "miss"}, pc[w] \notin Store, Enter(w, next),
               UNCHANGED <<client, served, job>>, Live(t) => client[t] = "nobody"
        PROVE  Goal
    <3>1. pc'[w] = next /\ \A v \in Worker : v # w => pc'[v] = pc[v]
      BY <2>4, <2>9 DEF Enter
    <3>2. contested' = IF \E v \in Storing(t) : Sender(v) # c THEN contested \cup {t} ELSE contested
      BY <2>9 DEF Enter
    <3>3. Target(w)' = t /\ Sender(w)' = c
      BY <2>1, <2>9 DEF Target, Sender
    <3>4. \A v \in Storing(b)' : v # w => v \in Storing(b) /\ Sender(v)' = Sender(v)
      BY <1>4, <2>9, <3>1 DEF Storing
    <3> HIDE DEF t, c
    <3>5. ASSUME Live(b)', b \notin contested' PROVE Sole(b)'
      <4>1. b \notin contested
        BY <3>2, <3>5
      <4>2. Sole(b) /\ Live(b)
        BY <1>1, <1>3, <3>5, <4>1, <2>1 DEF Live
      <4>3. CASE t = b
        <5>1. \A v \in Storing(b) : Sender(v) = c
          BY <3>2, <3>5, <4>3
        <5>2. \A v \in Storing(b)' : Sender(v)' = c
          BY <3>3, <3>4, <5>1
        <5>3. client'[b] = "nobody" /\ served'[b] = served[b] /\ client'[b] = client[b]
          BY <2>9, <4>2, <4>3
        <5> QED
          BY <4>2, <5>2, <5>3 DEF Sole
      <4>4. CASE t # b
        <5>1. w \notin Storing(b)'
          BY <3>3, <4>4 DEF Storing
        <5> QED
          BY <2>9, <3>4, <4>2, <5>1 DEF Sole
      <4> QED
        BY <4>3, <4>4
    <3> QED
      BY <1>1, <1>2, <2>9, <3>5 DEF Goal
  <2>10. CASE Skip(w)
    BY <1>7, <2>10 DEF Skip
  <2>11. CASE Take(w)
    <3>1. /\ pc'[w] \notin Store /\ UNCHANGED <<client, served, contested>>
          /\ \A v \in Worker : v # w => pc'[v] = pc[v] /\ job'[v] = job[v]
      BY <2>4, <2>11 DEF Take
    <3> QED
      BY <2>6, <3>1
  <2>12. CASE LoadRow(w)
    <3>1. UNCHANGED <<client, served, contested>>
      BY <2>12 DEF LoadRow
    <3>2. CASE Step(w, "loading") /\ UNCHANGED job
      BY <2>4, <2>6, <3>1, <3>2
    <3>3. CASE Finish(w, "ignored")
      BY <2>3, <2>6, <3>1, <3>3
    <3> QED
      BY <2>12, <3>2, <3>3 DEF LoadRow
  <2>13. CASE Insert(w)
    <3>1. UNCHANGED <<client, served, contested, job>> /\ Step(w, "have")
      BY <2>13 DEF Insert
    <3> QED
      BY <2>4, <2>6, <3>1
  <2>14. CASE LoadFail(w) \/ Tombstone(w) \/ GetPublicKey(w) \/ Encrypt(w) \/ SignEvent(w)
    <3>1. /\ UNCHANGED <<client, served, contested>>
          /\ \E outcome : Finish(w, outcome)
      BY <2>14 DEF LoadFail, Tombstone, GetPublicKey, Encrypt, SignEvent
    <3> QED
      BY <2>3, <2>6, <3>1
  <2>15. CASE ConnectCheck(w)
    <3> DEFINE existing == IF Live(t) THEN client[t] ELSE "nobody"
    <3>1. pc[w] = "have" /\ UNCHANGED client
      BY <2>15 DEF ConnectCheck, Dispatch
    <3>2. \/ existing = c /\ Accept(w) /\ Finish(w, "ok") /\ UNCHANGED contested
          \/ existing = "nobody" /\ Enter(w, "connectStore") /\ UNCHANGED <<job, served>>
          \/ Finish(w, "error") /\ UNCHANGED <<served, contested>>
      BY <2>15 DEF ConnectCheck
    <3>3. CASE existing = c /\ Accept(w) /\ Finish(w, "ok") /\ UNCHANGED contested
      BY <2>3, <2>7, <3>1, <3>3
    <3>4. CASE existing = "nobody" /\ Enter(w, "connectStore") /\ UNCHANGED <<job, served>>
      BY <2>9, <3>1, <3>4
    <3>5. CASE Finish(w, "error") /\ UNCHANGED <<served, contested>>
      BY <2>3, <2>6, <3>1, <3>5
    <3> QED
      BY <3>2, <3>3, <3>4, <3>5
  <2>16. CASE ConnectStore(w)
    <3>1. /\ pc[w] = "connectStore" /\ StoreClient(w) /\ Accept(w) /\ Finish(w, "ok")
          /\ UNCHANGED contested
      BY <2>16 DEF ConnectStore
    <3> QED
      BY <2>3, <2>8, <3>1
  <2>17. CASE ClaimStore(w)
    <3>1. /\ pc[w] = "claimStore" /\ StoreClient(w) /\ Accept(w) /\ Step(w, "validated")
          /\ UNCHANGED <<job, contested>>
      BY <2>17 DEF ClaimStore
    <3> QED
      BY <2>4, <2>8, <3>1
  <2>18. CASE ValidateClient(w)
    <3>1. pc[w] = "have" /\ UNCHANGED <<client, job, contested>>
      BY <2>18 DEF ValidateClient, Dispatch
    <3>2. CASE Connected(t, c) /\ Step(w, "validated") /\ Accept(w)
      BY <2>4, <2>7, <3>1, <3>2 DEF Connected
    <3>3. CASE Step(w, "claim") /\ UNCHANGED served
      BY <2>4, <2>6, <3>1, <3>3
    <3> QED
      BY <2>18, <3>2, <3>3 DEF ValidateClient
  <2>19. CASE ClaimCheck(w)
    <3>1. pc[w] = "claim" /\ UNCHANGED <<client, served>>
      BY <2>19 DEF ClaimCheck
    <3>2. CASE Claimable(t) /\ Enter(w, "claimStore") /\ UNCHANGED job
      BY <2>9, <3>1, <3>2 DEF Claimable
    <3>3. CASE Finish(w, "error") /\ UNCHANGED contested
      BY <2>3, <2>6, <3>1, <3>3
    <3> QED
      BY <2>19, <3>2, <3>3 DEF ClaimCheck
  <2>20. CASE SkipValidation(w)
    <3>1. UNCHANGED <<client, served, contested, job>> /\ Step(w, "validated")
      BY <2>20 DEF SkipValidation
    <3> QED
      BY <2>4, <2>6, <3>1
  <2> QED
    BY <1>15, <2>10, <2>11, <2>12, <2>13, <2>14, <2>15, <2>16, <2>17, <2>18, <2>19, <2>20
       DEF WorkerLoop
<1>16. Goal
  BY <1>8, <1>9, <1>10, <1>11, <1>12, <1>13, <1>14, <1>15 DEF Next
<1> QED
  BY <1>16 DEF Goal

\* With any number of workers and instances: as long as no two workers were about to
\* store different clients of it at one time, between two disconnects one client is
\* accepted for a live session, whatever other calls, commands and restarts come
\* between a worker's check of the client and its store.
THEOREM UncontestedClientHolds == Spec => []UncontestedClient
<1>1. Init => KnownInv /\ ClientInv
  <2>1. Init => \A b \in Bunker : Storing(b) = {}
    BY DEF Init, Storing
  <2> QED
    BY <2>1 DEF Init, KnownInv, ClientInv, Sole
<1>2. ClientInv => UncontestedClient
  BY DEF ClientInv, Sole, UncontestedClient
<1>3. TypeOK /\ SentInv /\ KnownInv /\ ClientInv /\ [Next]_vars => ClientInv'
  BY ClientStep
<1> QED
  BY <1>1, <1>2, <1>3, KnownStep, CommandAlways, SignerTypeCorrect, PTL DEF Spec

-----------------------------------------------------------------------------
(* The promise of SigningAuthority                                         *)

\* What the authority sees of requests depends on these variables only.
LEMMA SameStage ==
  ASSUME UNCHANGED <<req, out, pc, job>>
  PROVE  UNCHANGED <<Asked, Stage>>
<1>1. Governed' = Governed
  BY DEF Governed
<1>2. \A r : Granted(r)' = Granted(r)
  BY DEF Granted
<1> QED
  BY <1>1, <1>2 DEF Asked, Stage

\* A row that changes is created or ends.
LEMMA RowRefines ==
  ASSUME TypeOK, UNCHANGED <<client, req, out, pc, job>>,
         NEW b \in Bunker, NEW to, row' = [row EXCEPT ![b] = to],
         \/ row[b] = "absent" /\ to = "active"
         \/ row[b] # "absent" /\ to \in {"revoked", "expired", "deleted"}
  PROVE  [Authority!Next]_Authority!vars
<1>1. UNCHANGED <<Asked, Stage, Holder>>
  BY SameStage DEF Holder
<1>2. \A c \in Bunker : row'[c] = IF c = b THEN to ELSE row[c]
  BY DEF TypeOK
<1>3. CASE row[b] = "absent" /\ to = "active" /\ b \notin Team
  <2>1. Phase[b] = "absent" /\ Phase' = [Phase EXCEPT ![b] = "live"]
    BY <1>2, <1>3 DEF Phase, Live
  <2> QED
    BY <1>1, <1>3, <2>1 DEF Authority!Next, Authority!Create
<1>4. CASE Live(b) /\ b \notin Team
  <2>1. Phase[b] = "live" /\ Phase' = [Phase EXCEPT ![b] = "ended"]
    BY <1>2, <1>4 DEF Phase, Live
  <2> QED
    BY <1>1, <1>4, <2>1 DEF Authority!Next, Authority!End
<1>5. CASE b \in Team \/ (row[b] # "absent" /\ ~Live(b))
  <2>1. Phase' = Phase
    BY <1>2, <1>5 DEF Phase, Live
  <2> QED
    BY <1>1, <2>1 DEF Authority!vars
<1> QED
  BY <1>3, <1>4, <1>5 DEF Live

\* Requests that lose what they were granted, without an answer, are refused.
LEMMA RefuseRefines ==
  ASSUME UNCHANGED <<Phase, Holder, Asked>>,
         \A r \in Req : \/ Stage'[r] = Stage[r]
                        \/ Stage[r] = "granted" /\ Stage'[r] = "new"
  PROVE  [Authority!Next]_Authority!vars
<1> DEFINE S == {r \in Req : Stage[r] = "granted" /\ Stage'[r] = "new"}
<1>1. S \in SUBSET {r \in Req : Stage[r] = "granted"}
  OBVIOUS
<1>2. Stage' = [r \in Req |-> Stage'[r]]
  BY DEF Stage
<1>3. \A r \in Req : Stage'[r] = IF r \in S THEN "new" ELSE Stage[r]
  OBVIOUS
<1>4. Stage' = [r \in Req |-> IF r \in S THEN "new" ELSE Stage[r]]
  BY <1>2, <1>3
<1> HIDE DEF S
<1>5. Authority!Refuse
  BY <1>1, <1>4 DEF Authority!Refuse
<1> QED
  BY <1>5 DEF Authority!Next

\* What is made of one request and where one worker stands say nothing of others.
LEMMA OtherStage ==
  ASSUME TypeOK, UNCHANGED req, NEW w \in Worker, NEW r,
         \A v \in Worker : v # w => pc'[v] = pc[v] /\ job'[v] = job[v],
         \A i \in Instance, q \in Req : q # r => out'[i][q] = out[i][q],
         pc[w] \in {"claimStore", "validated"} => job[w] = r,
         pc'[w] \in {"claimStore", "validated"} => job'[w] = r
  PROVE  Asked' = Asked /\ \A q \in Req : q # r => Stage'[q] = Stage[q]
<1>1. Governed' = Governed
  BY DEF Governed
<1>2. ASSUME NEW q \in Req, q # r PROVE Stage'[q] = Stage[q]
  <2>1. Granted(q)' <=> Granted(q)
    BY <1>2 DEF Granted
  <2>2. (\E i \in Instance : out'[i][q] = "ok") <=> (\E i \in Instance : out[i][q] = "ok")
    BY <1>2
  <2> QED
    BY <1>1, <2>1, <2>2 DEF Stage
<1> QED
  BY <1>1, <1>2 DEF Asked

\* A request comes to be granted while its session is live and no other's.
LEMMA GrantRefines ==
  ASSUME TypeOK, UNCHANGED <<row, client>>, Asked' = Asked,
         NEW r \in Governed, Live(req[r].bunker),
         client[req[r].bunker] \in {"nobody", req[r].client},
         Stage'[r] = Stage[r] \/ (Stage[r] = "new" /\ Stage'[r] = "granted"),
         \A q \in Req : q # r => Stage'[q] = Stage[q]
  PROVE  [Authority!Next]_Authority!vars
<1> DEFINE b == req[r].bunker
<1>1. r \in Req /\ b \in Bunker \ Team /\ req[r].client \in Client
  BY DEF Governed, TypeOK, Request
<1>2. UNCHANGED <<Phase, Holder>>
  BY DEF Phase, Holder, Live
<1>3. Asked[r] = [bunker |-> b, client |-> req[r].client]
  BY <1>1 DEF Asked
<1>4. Asked[r].bunker = b /\ Asked[r].client = req[r].client /\ Asked[r] # Authority!Unsent
  BY <1>1, <1>3, InputAssumption DEF Authority!Unsent
<1>5. Phase[b] = "live" /\ Holder[b] = client[b]
  BY <1>1 DEF Phase, Holder, Live
<1>6. Stage' = [q \in Req |-> Stage'[q]] /\ Stage = [q \in Req |-> Stage[q]]
  BY DEF Stage
<1> HIDE DEF b
<1>7. CASE Stage'[r] = Stage[r]
  <2>1. Stage' = Stage
    BY <1>6, <1>7
  <2> QED
    BY <1>2, <2>1 DEF Authority!vars
<1>8. CASE Stage[r] = "new" /\ Stage'[r] = "granted"
  <2>1. Stage' = [Stage EXCEPT ![r] = "granted"]
    BY <1>1, <1>6, <1>8
  <2>2. Authority!Grant(r)
    BY <1>2, <1>4, <1>5, <1>8, <2>1 DEF Authority!Grant, b
  <2> QED
    BY <1>1, <2>2 DEF Authority!Next
<1> QED
  BY <1>7, <1>8

\* A session is given another client, or none.
LEMMA HoldRefines ==
  ASSUME TypeOK, row' = row, UNCHANGED <<Asked, Stage>>,
         NEW b \in Bunker, NEW c \in Client \cup {"nobody"},
         client' = [client EXCEPT ![b] = c]
  PROVE  [Authority!Next]_Authority!vars
<1>1. Phase' = Phase
  BY DEF Phase, Live
<1>2. CASE b \in Team
  <2>1. Holder' = Holder
    BY <1>2 DEF Holder, TypeOK
  <2> QED
    BY <1>1, <2>1 DEF Authority!vars
<1>3. CASE b \notin Team
  <2>1. Holder' = [Holder EXCEPT ![b] = c]
    BY <1>3 DEF Holder, TypeOK
  <2> QED
    BY <1>1, <1>3, <2>1 DEF Authority!Next, Authority!Hold
<1> QED
  BY <1>2, <1>3

\* A request is asked when it is sent.
LEMMA SendRefines ==
  ASSUME TypeOK, SentInv, OnceInv, NEW r \in Req, Send(r)
  PROVE  [Authority!Next]_Authority!vars
<1>1. PICK b \in Bunker, c \in Client, m \in Methods :
        req' = [req EXCEPT ![r] = [bunker |-> b, client |-> c, method |-> m]]
  BY DEF Send
<1>2. req[r] = Unsent /\ UNCHANGED <<row, client, pc, job>>
  BY DEF Send, rows, work
<1>3. \A i \in Instance, q \in Req :
        out'[i][q] = out[i][q] \/ (q = r /\ out'[i][q] = "full")
  BY DEF Send, TypeOK
<1>4. UNCHANGED <<Phase, Holder>>
  BY <1>2 DEF Phase, Holder, Live
<1>5. r \notin Governed /\ \A q \in Req : q # r => (q \in Governed' <=> q \in Governed) /\ req'[q] = req[q]
  BY <1>1, <1>2 DEF Governed, TypeOK
<1>6. \A q \in Req : Granted(q)' <=> Granted(q)
  BY <1>2 DEF Granted
<1>7. ~Granted(r) /\ \A i \in Instance : out[i][r] # "ok"
  BY <1>2 DEF Granted, SentInv, Sent, OnceInv
<1>8. Stage' = Stage
  <2>1. ASSUME NEW q \in Req PROVE Stage'[q] = Stage[q]
    <3>1. (\E i \in Instance : out'[i][q] = "ok") <=> (\E i \in Instance : out[i][q] = "ok")
      BY <1>3, <1>7
    <3>2. CASE q = r
      BY <1>5, <1>6, <1>7, <3>1, <3>2 DEF Stage
    <3>3. CASE q # r
      BY <1>5, <1>6, <3>1, <3>3 DEF Stage
    <3> QED
      BY <3>2, <3>3
  <2> QED
    BY <2>1 DEF Stage
<1>9. CASE r \in Governed'
  <2>1. req'[r].bunker = b /\ req'[r].client = c
    BY <1>1 DEF TypeOK
  <2>2. b \in Bunker \ Team
    BY <1>9, <2>1 DEF Governed
  <2>3. Asked[r] = Authority!Unsent
    BY <1>5 DEF Asked, Authority!Unsent
  <2>4. Asked' = [Asked EXCEPT ![r] = [bunker |-> b, client |-> c]]
    BY <1>5, <1>9, <2>1 DEF Asked
  <2>5. Authority!Ask(r)
    BY <1>4, <1>8, <2>2, <2>3, <2>4 DEF Authority!Ask
  <2> QED
    BY <2>5 DEF Authority!Next
<1>10. CASE r \notin Governed'
  <2>1. Asked' = Asked
    BY <1>5, <1>10 DEF Asked
  <2> QED
    BY <1>4, <1>8, <2>1 DEF Authority!vars
<1> QED
  BY <1>9, <1>10

\* Finishing a request signs it, when it was granted, or refuses it.
LEMMA FinishRefines ==
  ASSUME TypeOK, SentInv, StageInv, OnceInv, NEW w \in Worker, pc[w] # "idle",
         NEW outcome, Finish(w, outcome), outcome = "ok" => Answers(w), UNCHANGED <<row, req>>,
         NEW r, job[w] = r
  PROVE  /\ Asked' = Asked
         /\ r \notin Governed => Stage' = Stage
         /\ client' = client => [Authority!Next]_Authority!vars
<1> DEFINE i == Home[w]
<1>1. r \in Req /\ i \in Instance /\ out[i][r] = "none" /\ UNCHANGED req
  BY JobType DEF OnceInv
<1>2. /\ pc'[w] = "idle" /\ out' = [out EXCEPT ![i][r] = outcome]
      /\ \A v \in Worker : v # w => pc'[v] = pc[v] /\ job'[v] = job[v]
  BY DEF Finish, Step, TypeOK
<1>3. pc[w] \in {"claimStore", "validated"} => job[w] = r
  OBVIOUS
<1>4. \A v \in Worker : v # w => (job[v] = r <=> job'[v] = r)
  BY <1>2
<1>5. r \in Governed => (outcome = "ok" => pc[w] = "validated")
  BY DEF Answers, Governed, Method, StageInv, Sensitive
<1> HIDE DEF i
<1>6. out'[i][r] = outcome /\ \A j \in Instance, q \in Req : j # i \/ q # r => out'[j][q] = out[j][q]
  BY <1>1, <1>2 DEF TypeOK
<1>7. Asked' = Asked /\ \A q \in Req : q # r => Stage'[q] = Stage[q]
  <2>1. \A j \in Instance, q \in Req : q # r => out'[j][q] = out[j][q]
    BY <1>6
  <2> QED
    BY <1>1, <1>2, <1>3, <2>1, OtherStage
<1>8. Governed' = Governed
  BY DEF Governed
<1>9. r \notin Governed => Stage'[r] = Stage[r]
  BY <1>1, <1>8 DEF Stage
<1>10. Stage \in [Req -> {"new", "granted", "signed"}] /\ Stage' \in [Req -> {"new", "granted", "signed"}]
  BY DEF Stage
<1>11. r \notin Governed => Stage' = Stage
  BY <1>7, <1>9, <1>10
<1>12. ASSUME UNCHANGED client PROVE [Authority!Next]_Authority!vars
  <2>1. UNCHANGED <<Phase, Holder>>
    BY <1>12 DEF Phase, Holder, Live
  <2>2. CASE r \notin Governed
    BY <1>7, <1>11, <2>1, <2>2 DEF Authority!vars
  <2>3. CASE r \in Governed /\ outcome = "ok"
    <3>1. Granted(r)
      BY <1>5, <2>3 DEF Granted
    <3>2. Stage[r] \in {"granted", "signed"}
      BY <1>1, <2>3, <3>1 DEF Stage
    <3>3. Stage'[r] = "signed"
      BY <1>1, <1>6, <1>8, <2>3 DEF Stage
    <3>4. CASE Stage[r] = "granted"
      <4>1. Stage' = [Stage EXCEPT ![r] = "signed"]
        BY <1>7, <1>10, <3>3
      <4>2. Authority!Sign(r)
        BY <1>7, <2>1, <3>4, <4>1 DEF Authority!Sign
      <4> QED
        BY <1>1, <4>2 DEF Authority!Next
    <3>5. CASE Stage[r] = "signed"
      <4>1. Stage' = Stage
        BY <1>7, <1>10, <3>3, <3>5
      <4> QED
        BY <1>7, <2>1, <4>1 DEF Authority!vars
    <3> QED
      BY <3>2, <3>4, <3>5
  <2>4. CASE r \in Governed /\ outcome # "ok"
    <3>1. (\E j \in Instance : out'[j][r] = "ok") <=> (\E j \in Instance : out[j][r] = "ok")
      <4>1. \A j \in Instance : out'[j][r] = "ok" <=> out[j][r] = "ok"
        BY <1>1, <1>6, <2>4
      <4> QED
        BY <4>1
    <3>2. Granted(r)' => Granted(r)
      <4>1. ASSUME NEW v \in Worker, job'[v] = r, pc'[v] \in {"claimStore", "validated"}
            PROVE  job[v] = r /\ pc[v] \in {"claimStore", "validated"}
        BY <1>2, <4>1
      <4> QED
        BY <4>1 DEF Granted
    <3>3. Stage'[r] = Stage[r] \/ (Stage[r] = "granted" /\ Stage'[r] = "new")
      BY <1>1, <1>8, <2>4, <3>1, <3>2 DEF Stage
    <3> QED
      BY <1>7, <2>1, <3>3, RefuseRefines
  <2> QED
    BY <2>2, <2>3, <2>4
<1> QED
  BY <1>7, <1>11, <1>12

\* A worker's steps are grants, answers, refusals and changes of the client.
LEMMA WorkerRefines ==
  ASSUME TypeOK, SentInv, StageInv, OnceInv, NEW w \in Worker, WorkerLoop(w)
  PROVE  [Authority!Next]_Authority!vars
<1> USE DEF rows, api, work, history
<1>1. UNCHANGED row /\ UNCHANGED req
  BY WorkerStep DEF WorkerMove
<1>2. ASSUME client' = client PROVE UNCHANGED <<Phase, Holder>>
  BY <1>1, <1>2 DEF Phase, Holder, Live
<1>3. ASSUME client' = client, Asked' = Asked, Stage' = Stage
      PROVE  [Authority!Next]_Authority!vars
  BY <1>2, <1>3 DEF Authority!vars
<1>4. ASSUME NEW outcome, pc[w] # "idle", Finish(w, outcome), outcome = "ok" => Answers(w)
      PROVE  /\ Asked' = Asked
             /\ job[w] \notin Governed => Stage' = Stage
             /\ client' = client => [Authority!Next]_Authority!vars
  BY <1>1, <1>4, FinishRefines
<1>5. ASSUME NEW next, pc[w] # "idle", Step(w, next), UNCHANGED <<job, out>>
      PROVE  /\ Asked' = Asked
             /\ \A q \in Req : q # job[w] => Stage'[q] = Stage[q]
             /\ next \notin {"claimStore", "validated"} /\ pc[w] \notin {"claimStore", "validated"}
                  => Stage' = Stage
             /\ next \in {"claimStore", "validated"} /\ pc[w] \in {"claimStore", "validated"}
                  => Stage' = Stage
             /\ \/ Stage'[job[w]] = Stage[job[w]]
                \/ Stage[job[w]] = "new" /\ Stage'[job[w]] = "granted"
                \/ next \notin {"claimStore", "validated"}
             /\ job[w] \notin Governed => Stage' = Stage
  <2>1. /\ pc'[w] = next /\ \A v \in Worker : v # w => pc'[v] = pc[v] /\ job'[v] = job[v]
        /\ job'[w] = job[w]
    BY <1>5 DEF Step, TypeOK
  <2>2. Governed' = Governed
    BY <1>1 DEF Governed
  <2>3. PICK r \in Req : r = job[w]
    BY <1>5, JobType
  <2>4. Asked' = Asked /\ \A q \in Req : q # r => Stage'[q] = Stage[q]
    BY <1>1, <1>5, <2>1, <2>3, OtherStage
  <2>5. Stage \in [Req -> {"new", "granted", "signed"}] /\ Stage' \in [Req -> {"new", "granted", "signed"}]
    BY DEF Stage
  <2>6. r \notin Governed => Stage'[r] = Stage[r]
    BY <2>2 DEF Stage
  <2>7. Granted(r) <=> \/ pc[w] \in {"claimStore", "validated"}
                       \/ \E v \in Worker : v # w /\ job[v] = r /\ pc[v] \in {"claimStore", "validated"}
    BY <2>3 DEF Granted
  <2>8. Granted(r)' <=> \/ next \in {"claimStore", "validated"}
                        \/ \E v \in Worker : v # w /\ job[v] = r /\ pc[v] \in {"claimStore", "validated"}
    BY <2>1, <2>3 DEF Granted
  <2>9. /\ (Granted(r)' <=> Granted(r)) => Stage'[r] = Stage[r]
        /\ next \in {"claimStore", "validated"}
             => \/ Stage'[r] = Stage[r]
                \/ Stage[r] = "new" /\ Stage'[r] = "granted"
    BY <1>5, <2>2, <2>8 DEF Stage
  <2>10. Stage'[r] = Stage[r] => Stage' = Stage
    BY <2>4, <2>5
  <2> QED
    BY <2>3, <2>4, <2>6, <2>7, <2>8, <2>9, <2>10
<1>6. ASSUME NEW next, pc[w] # "idle", Step(w, next), UNCHANGED <<job, out, client>>,
             next \notin {"claimStore", "validated"}, pc[w] \notin {"claimStore", "validated"}
      PROVE  [Authority!Next]_Authority!vars
  BY <1>3, <1>5, <1>6
<1>7. ASSUME NEW next \in {"claimStore", "validated"}, pc[w] # "idle", Step(w, next),
             UNCHANGED <<job, out, client>>, job[w] \in Governed, Live(Target(w)),
             client[Target(w)] \in {"nobody", Sender(w)}
      PROVE  [Authority!Next]_Authority!vars
  <2>1. PICK r \in Governed : r = job[w]
    BY <1>7
  <2>2. Live(req[r].bunker) /\ client[req[r].bunker] \in {"nobody", req[r].client}
    BY <1>7, <2>1 DEF Target, Sender
  <2>3. /\ Asked' = Asked /\ \A q \in Req : q # r => Stage'[q] = Stage[q]
        /\ Stage'[r] = Stage[r] \/ (Stage[r] = "new" /\ Stage'[r] = "granted")
    BY <1>5, <1>7, <2>1
  <2> QED
    BY <1>1, <1>7, <2>2, <2>3, GrantRefines
<1>8. ASSUME pc[w] # "idle", StoreClient(w), Asked' = Asked, Stage' = Stage
      PROVE  [Authority!Next]_Authority!vars
  <2>1. PICK b \in Bunker, c \in Client : b = Target(w) /\ c = Sender(w)
    BY <1>8, JobType
  <2>2. client' = client \/ client' = [client EXCEPT ![b] = c]
    BY <1>8, <2>1 DEF StoreClient
  <2> QED
    BY <1>1, <1>3, <1>8, <2>2, HoldRefines
<1>9. CASE Skip(w)
  <2>1. PICK r \in Req : r = Head(queue[Home[w]]) /\ out[Home[w]][r] = "none" /\ Home[w] \in Instance
    BY <1>9, Dequeued DEF Skip
  <2>2. UNCHANGED work /\ client' = client /\ out' = [out EXCEPT ![Home[w]][r] = "skipped"]
    BY <1>9, <2>1 DEF Skip
  <2>3. \A i \in Instance, q \in Req : out'[i][q] = "ok" <=> out[i][q] = "ok"
    BY <2>1, <2>2 DEF TypeOK
  <2>4. Governed' = Governed /\ \A q : Granted(q)' <=> Granted(q)
    BY <1>1, <2>2 DEF Governed, Granted
  <2>5. Asked' = Asked /\ Stage' = Stage
    BY <1>1, <2>3, <2>4 DEF Asked, Stage
  <2> QED
    BY <1>3, <2>2, <2>5
<1>10. CASE Take(w)
  <2>1. /\ pc[w] = "idle" /\ pc'[w] \in {"miss", "have"} /\ UNCHANGED out /\ client' = client
        /\ \A v \in Worker : v # w => pc'[v] = pc[v] /\ job'[v] = job[v]
    BY <1>10 DEF Take, Dequeue, Step, TypeOK
  <2>2. Governed' = Governed /\ \A q : Granted(q)' <=> Granted(q)
    BY <1>1, <2>1 DEF Governed, Granted
  <2>3. Asked' = Asked /\ Stage' = Stage
    BY <1>1, <2>1, <2>2 DEF Asked, Stage
  <2> QED
    BY <1>3, <2>1, <2>3
<1>11. CASE LoadRow(w)
  <2>1. pc[w] = "miss" /\ client' = client
    BY <1>11 DEF LoadRow
  <2>2. CASE Exists(Target(w))
    BY <1>6, <1>11, <2>1, <2>2 DEF LoadRow
  <2>3. CASE ~Exists(Target(w))
    BY <1>4, <1>11, <2>1, <2>3 DEF LoadRow
  <2> QED
    BY <2>2, <2>3
<1>12. CASE Insert(w)
  BY <1>6, <1>12 DEF Insert
<1>13. CASE LoadFail(w) \/ Tombstone(w)
  BY <1>4, <1>13 DEF LoadFail, Tombstone
<1>14. CASE GetPublicKey(w)
  <2>1. pc[w] # "idle" /\ Finish(w, "ok") /\ client' = client /\ Answers(w)
    BY <1>14 DEF GetPublicKey, Dispatch, Answers, Sensitive
  <2> QED
    BY <1>4, <2>1
<1>15. CASE ConnectCheck(w)
  <2>1. pc[w] = "have" /\ client' = client /\ Answers(w)
    BY <1>15 DEF ConnectCheck, Dispatch, Answers, Sensitive
  <2>2. CASE Finish(w, "ok") \/ Finish(w, "error")
    BY <1>4, <2>1, <2>2
  <2>3. CASE Step(w, "connectStore") /\ UNCHANGED <<job, out>>
    BY <1>6, <2>1, <2>3
  <2> QED
    BY <1>15, <2>2, <2>3 DEF ConnectCheck, Enter
<1>16. CASE ConnectStore(w)
  <2>1. pc[w] = "connectStore" /\ Finish(w, "ok") /\ Answers(w) /\ StoreClient(w)
    BY <1>16 DEF ConnectStore, Answers
  <2>2. job[w] \notin Governed
    BY <2>1 DEF StageInv, Method, Governed, Sensitive
  <2> QED
    BY <1>4, <1>8, <2>1, <2>2
<1>17. CASE ValidateClient(w)
  <2>1. pc[w] = "have" /\ client' = client /\ Method(w) \in Sensitive /\ OAuth(w) /\ UNCHANGED <<job, out>>
    BY <1>17 DEF ValidateClient, Dispatch
  <2>2. job[w] \in Governed
    BY <2>1 DEF SentInv, Sent, Governed, Method, OAuth, Target
  <2>3. CASE Connected(Target(w), Sender(w)) /\ Step(w, "validated")
    BY <1>7, <2>1, <2>2, <2>3 DEF Connected
  <2>4. CASE Step(w, "claim")
    BY <1>6, <2>1, <2>4
  <2> QED
    BY <1>17, <2>3, <2>4 DEF ValidateClient
<1>18. CASE ClaimCheck(w)
  <2>1. pc[w] = "claim" /\ client' = client /\ job[w] \in Governed
    BY <1>18 DEF ClaimCheck, StageInv
  <2>2. CASE Claimable(Target(w))
    BY <1>7, <1>18, <2>1, <2>2 DEF ClaimCheck, Claimable, Enter
  <2>3. CASE Finish(w, "error")
    BY <1>4, <2>1, <2>3
  <2> QED
    BY <1>18, <2>2, <2>3 DEF ClaimCheck
<1>19. CASE ClaimStore(w)
  <2>1. pc[w] = "claimStore" /\ Step(w, "validated") /\ UNCHANGED <<job, out>> /\ StoreClient(w)
    BY <1>19 DEF ClaimStore
  <2>2. Asked' = Asked /\ Stage' = Stage
    BY <1>5, <2>1
  <2> QED
    BY <1>8, <2>1, <2>2
<1>20. CASE SkipValidation(w)
  <2>1. pc[w] = "have" /\ client' = client /\ Step(w, "validated") /\ UNCHANGED <<job, out>> /\ ~OAuth(w)
    BY <1>20 DEF SkipValidation, Dispatch
  <2>2. job[w] \notin Governed
    BY <2>1 DEF Governed, OAuth, Target
  <2> QED
    BY <1>3, <1>5, <2>1, <2>2
<1>21. CASE Encrypt(w)
  <2>1. pc[w] = "validated" /\ client' = client /\ Answers(w)
    BY <1>21 DEF Encrypt, Answers
  <2> QED
    BY <1>4, <1>21, <2>1 DEF Encrypt
<1>22. CASE SignEvent(w)
  <2>1. /\ pc[w] = "validated" /\ client' = client
        /\ (Exists(Target(w)) /\ Finish(w, "ok")) \/ Finish(w, "failed")
    BY <1>22 DEF SignEvent
  <2>2. Exists(Target(w)) => Answers(w)
    BY <2>1 DEF Answers
  <2> QED
    BY <1>4, <2>1, <2>2
<1> QED
  BY <1>9, <1>10, <1>11, <1>12, <1>13, <1>14, <1>15, <1>16, <1>17, <1>18, <1>19, <1>20,
     <1>21, <1>22 DEF WorkerLoop

\* Every step of the signers is a step of the authority, or none.
LEMMA AuthorityStep ==
  ASSUME TypeOK, SentInv, StageInv, OnceInv, [Next]_vars
  PROVE  [Authority!Next]_Authority!vars
<1> USE DEF rows, api, work, history
<1>1. ASSUME UNCHANGED <<row, client, req, out, pc, job>> PROVE [Authority!Next]_Authority!vars
  <2>1. UNCHANGED <<Phase, Holder>>
    BY <1>1 DEF Phase, Holder, Live
  <2> QED
    BY <1>1, <2>1, SameStage DEF Authority!vars
<1>2. CASE UNCHANGED vars
  BY <1>1, <1>2 DEF vars
<1>3. ASSUME NEW a \in Call, Api(a) PROVE [Authority!Next]_Authority!vars
  <2>1. ASSUME NEW i \in Instance, NEW b \in Bunker, Create(a, i, b)
        PROVE  [Authority!Next]_Authority!vars
    BY <2>1, RowRefines DEF Create
  <2>2. ASSUME NEW i \in Instance, NEW b \in Bunker, RevokeCheck(a, i, b)
        PROVE  [Authority!Next]_Authority!vars
    BY <1>1, <2>2 DEF RevokeCheck
  <2>3. ASSUME NEW i \in Instance, NEW b \in Bunker, ReauthRevoke(a, i, b)
        PROVE  [Authority!Next]_Authority!vars
    BY <2>3, RowRefines DEF ReauthRevoke, Live
  <2>4. ASSUME NEW i \in Instance, NEW b \in Bunker, DisconnectClient(a, i, b)
        PROVE  [Authority!Next]_Authority!vars
    <3>1. UNCHANGED <<Asked, Stage>>
      BY <2>4, SameStage DEF DisconnectClient
    <3> QED
      BY <2>4, <3>1, HoldRefines DEF DisconnectClient
  <2>5. ASSUME NEW i \in Instance, NEW b \in Bunker, DeleteTeamRow(a, i, b)
        PROVE  [Authority!Next]_Authority!vars
    BY <2>5, RowRefines DEF DeleteTeamRow, Exists
  <2>6. ASSUME NEW i \in Instance, NEW b \in Bunker, NEW operation, DeleteRow(a, operation, i, b)
        PROVE  [Authority!Next]_Authority!vars
    BY <2>6, RowRefines DEF DeleteRow, Exists
  <2>7. CASE RevokeUpdate(a)
    <3>1. call[a].bunker \in Bunker
      BY <2>7 DEF RevokeUpdate, TypeOK, ApiCall, Unused
    <3>2. PICK b \in Bunker : b = call[a].bunker
      BY <3>1
    <3>3. UNCHANGED <<client, req, out, pc, job>>
          /\ row' = IF Live(b) THEN [row EXCEPT ![b] = "revoked"] ELSE row
      BY <2>7, <3>2 DEF RevokeUpdate
    <3>4. CASE Live(b)
      BY <3>3, <3>4, RowRefines DEF Live
    <3>5. CASE ~Live(b)
      BY <1>1, <3>3, <3>5
    <3> QED
      BY <3>4, <3>5
  <2>8. CASE SendCommand(a) \/ Abandon(a)
    BY <1>1, <2>8 DEF SendCommand, Abandon
  <2> QED
    BY <1>3, <2>1, <2>2, <2>3, <2>4, <2>5, <2>6, <2>7, <2>8 DEF Api
<1>4. ASSUME NEW i \in Instance, CommandTask(i) PROVE [Authority!Next]_Authority!vars
  BY <1>1, <1>4 DEF CommandTask, UpsertLoad, UpsertInsert, UpsertDrop, RemoveCommand
<1>5. ASSUME NEW i \in Instance, Restart(i) PROVE [Authority!Next]_Authority!vars
  <2>1. /\ UNCHANGED <<row, client, req>>
        /\ \A j \in Instance, r \in Req : out'[j][r] = "ok" <=> out[j][r] = "ok"
        /\ \A w \in Worker : pc'[w] # "idle" => pc'[w] = pc[w] /\ job'[w] = job[w]
    BY <1>5 DEF Restart, TypeOK
  <2>2. UNCHANGED <<Phase, Holder>> /\ Governed' = Governed
    BY <2>1 DEF Phase, Holder, Live, Governed
  <2>3. Asked' = Asked
    BY <2>1, <2>2 DEF Asked
  <2>4. ASSUME NEW r \in Req
        PROVE  Stage'[r] = Stage[r] \/ (Stage[r] = "granted" /\ Stage'[r] = "new")
    <3>1. Granted(r)' => Granted(r)
      BY <2>1 DEF Granted
    <3>2. (\E j \in Instance : out'[j][r] = "ok") <=> (\E j \in Instance : out[j][r] = "ok")
      BY <2>1
    <3> QED
      BY <2>2, <3>1, <3>2 DEF Stage
  <2> QED
    BY <2>2, <2>3, <2>4, RefuseRefines
<1>6. ASSUME NEW i \in Instance, NEW b \in Bunker, Evict(i, b) PROVE [Authority!Next]_Authority!vars
  BY <1>1, <1>6 DEF Evict
<1>7. ASSUME NEW b \in Bunker, Expire(b) PROVE [Authority!Next]_Authority!vars
  BY <1>7, RowRefines DEF Expire, Live
<1>8. ASSUME NEW r \in Req, Send(r) PROVE [Authority!Next]_Authority!vars
  BY <1>8, SendRefines
<1>9. ASSUME NEW w \in Worker, WorkerLoop(w) PROVE [Authority!Next]_Authority!vars
  BY <1>9, WorkerRefines
<1> QED
  BY <1>2, <1>3, <1>4, <1>5, <1>6, <1>7, <1>8, <1>9 DEF Next

\* The signers of all instances together keep the promise of SigningAuthority: every
\* signature for an OAuth session rests on a moment, after the request was sent, when
\* the row was live and held by the requesting client or by nobody.
THEOREM ImplementsAuthorityHolds == Spec => ImplementsAuthority
<1>1. Init => Authority!Init
  <2> SUFFICES ASSUME Init PROVE Authority!Init
    OBVIOUS
  <2>1. Phase \in [Bunker \ Team -> {"absent", "live"}]
    BY DEF Init, Phase, Live
  <2>2. Holder = [b \in Bunker \ Team |-> "nobody"]
    BY DEF Init, Holder
  <2>3. Governed = {}
    BY DEF Init, Governed
  <2>4. Asked = [r \in Req |-> Authority!Unsent] /\ Stage = [r \in Req |-> "new"]
    BY <2>3 DEF Asked, Stage, Authority!Unsent
  <2> QED
    BY <2>1, <2>2, <2>4 DEF Authority!Init
<1> QED
  BY <1>1, AuthorityStep, OnceAlways, SignerTypeCorrect, PTL
     DEF Spec, ImplementsAuthority, Authority!Spec

=============================================================================
