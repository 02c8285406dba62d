----------------------------- MODULE Nip46Signer -----------------------------
(***************************************************************************)
(* The NIP-46 signer of keycast: in every instance a cache of handlers, a  *)
(* command channel from the HTTP API of the same process, a bounded queue  *)
(* of relay requests and the workers that serve it; between the instances  *)
(* the authorization rows of the shared database.                          *)
(*                                                                         *)
(* Every statement sent to the database is a step of its own. The verdict  *)
(* of a policy, the hash ring's answer and the outcome of a key decryption *)
(* are nondeterministic; wire encryption and formats are left out, and a   *)
(* response counts as given when its content is fixed.                     *)
(***************************************************************************)
EXTENDS Integers, Sequences, FiniteSets

CONSTANTS
  Instance, Worker,
  Home,         \* Home[w]: the instance worker w belongs to
  Bunker,       \* one per authorization: its key derives from a fresh secret
  Team,         \* those in the table of team authorizations, the others OAuth
  Client, Req,
  Methods,      \* the methods clients call
  Call,         \* bound: API calls made
  Ops,          \* what they do
  QueueCap,     \* QUEUE_CAPACITY
  ChannelCap,   \* CHANNEL_BUFFER_SIZE
  Foreign,      \* whether the ring may give a request to another instance
  FaultKinds, MaxFaults

Sensitive == {"sign_event", "encrypt"}  \* encrypt: any of the nip44_ and nip04_
Operation == {"create", "revoke", "reauth", "disconnect", "change_key",
              "delete_account", "delete_team", "expire"}

ASSUME WorkerAssumption == Home \in [Worker -> Instance] /\ Team \subseteq Bunker
ASSUME InputAssumption ==
  /\ "nobody" \notin Client /\ "none" \notin Req
  /\ "user" \notin Bunker  \* no bunker has the key of a user
  /\ Methods \subseteq Sensitive \cup {"connect", "get_public_key"}
  /\ Ops \subseteq Operation
ASSUME CapAssumption == QueueCap \in Nat /\ ChannelCap \in Nat
ASSUME FaultAssumption ==
  /\ Foreign \in BOOLEAN /\ MaxFaults \in Nat
  /\ FaultKinds \subseteq {"load", "abandon", "restart"}

VARIABLES
  row,      \* absent, active, revoked, expired or deleted
  client,   \* connected_client_pubkey, or "nobody"
  cache,    \* status of the cached handler, or "none"
  cmds,     \* authorization channel of each instance
  cmdPc,    \* its reader: idle, or loaded within an Upsert
  queue,    \* relay queue of each instance
  pc,       \* where each worker stands
  job,      \* the request it has
  held,     \* status of its copy of the handler
  req,      \* requests as sent
  out,      \* what each instance made of each request
  call,     \* API calls
  faults,   \* faults left
  sentTo,   \* history: state of its row when each request was sent
  told,     \* history: whether the instance handled a Remove, and whether a
            \* worker was loading the row of before
  served,   \* history: clients accepted since the last disconnect
  contested \* history: sessions for which, since then, two workers were about
            \* to store different clients

rows    == <<row, client>>
api     == <<call, cmds>>
work    == <<pc, job, held>>
history == <<sentTo, told, served, contested>>
vars == <<rows, cache, api, cmdPc, queue, work, req, out, faults, history>>

Status == {"Active", "Revoked", "Expired"}
RowState == {"absent", "active", "revoked", "expired", "deleted"}
WorkerPc == {"idle", "miss", "loading", "have", "connectStore", "claim",
             "claimStore", "validated"}
Outcome == {"none", "ok", "error", "ignored", "skipped", "failed", "full"}
Request == [bunker : Bunker, client : Client, method : Methods]
Unsent == [method |-> "none"]
\* The target of a Remove is the key the API was given, a bunker's or not.
Command == [kind : {"Upsert", "Remove"}, bunker : Bunker \cup {"user"}]
ApiCall == [pc : {"update", "send", "done"}, op : Operation,
            at : Instance, bunker : Bunker]
Unused == [pc |-> "new"]

TypeOK ==
  /\ row \in [Bunker -> RowState]
  /\ client \in [Bunker -> Client \cup {"nobody"}]
  /\ cache \in [Instance -> [Bunker -> Status \cup {"none"}]]
  /\ cmds \in [Instance -> Seq(Command)]
  /\ cmdPc \in [Instance -> {"idle", "loaded"}]
  /\ queue \in [Instance -> Seq(Req)]
  /\ pc \in [Worker -> WorkerPc]
  /\ job \in [Worker -> Req \cup {"none"}]
  /\ held \in [Worker -> Status \cup {"none"}]
  /\ req \in [Req -> Request \cup {Unsent}]
  /\ out \in [Instance -> [Req -> Outcome]]
  /\ call \in [Call -> ApiCall \cup {Unused}]
  /\ faults \in Nat
  /\ sentTo \in [Req -> RowState]
  /\ told \in [Instance -> [Bunker -> {"no", "clean", "racing"}]]
  /\ served \in [Bunker -> SUBSET Client]
  /\ contested \in SUBSET Bunker

Init ==
  /\ row \in [Bunker -> {"absent", "active"}]
  /\ client = [b \in Bunker |-> "nobody"]
  /\ cache = [i \in Instance |-> [b \in Bunker |-> "none"]]
  /\ cmds = [i \in Instance |-> <<>>]
  /\ cmdPc = [i \in Instance |-> "idle"]
  /\ queue = [i \in Instance |-> <<>>]
  /\ pc = [w \in Worker |-> "idle"]
  /\ job = [w \in Worker |-> "none"]
  /\ held = [w \in Worker |-> "none"]
  /\ req = [r \in Req |-> Unsent]
  /\ out = [i \in Instance |-> [r \in Req |-> "none"]]
  /\ call = [a \in Call |-> Unused]
  /\ faults = MaxFaults
  /\ sentTo = [r \in Req |-> "absent"]
  /\ told = [i \in Instance |-> [b \in Bunker |-> "no"]]
  /\ served = [b \in Bunker |-> {}]
  /\ contested = {}

-----------------------------------------------------------------------------
Inject(kind) ==
  /\ kind \in FaultKinds
  /\ faults > 0
  /\ faults' = faults - 1

\* Operators with a suffix after an underscore are plausible slips of a definition
\* that follows: the runs must tell the two apart.
RowStatus_Raw(b) == row[b]

\* Rows that the queries with "revoked_at IS NULL AND not expired" return.
Live(b) == row[b] = "active"
Exists(b) == row[b] \in {"active", "revoked", "expired"}

\* compute_status_from_oauth, and its counterpart for team rows.
RowStatus(b) ==
  CASE row[b] = "revoked" -> "Revoked"
    [] row[b] = "expired" -> "Expired"
    [] OTHER -> "Active"

-----------------------------------------------------------------------------
(* The HTTP API: what changes a row, and what it then tells the signer of  *)
(* its own instance. A call is one of Call, used once.                     *)

Begin(a, operation, i, b, next) ==
  /\ operation \in Ops
  /\ call[a] = Unused
  /\ call' = [call EXCEPT ![a] = [pc |-> next, op |-> operation, at |-> i, bunker |-> b]]

Proceed(a, next) == call' = [call EXCEPT ![a].pc = next]

\* create: only OAuth authorizations are announced.
Create(a, i, b) ==
  /\ row[b] = "absent"
  /\ Begin(a, "create", i, b, IF b \in Team THEN "done" ELSE "send")
  /\ row' = [row EXCEPT ![b] = "active"]
  /\ UNCHANGED <<client, cache, cmds, cmdPc, queue, work, req, out, faults, history>>

\* revoke_session: exists_active_for_bunker, then the UPDATE, then Remove.
RevokeCheck(a, i, b) ==
  /\ b \notin Team /\ Live(b)
  /\ Begin(a, "revoke", i, b, "update")
  /\ UNCHANGED <<rows, cache, cmds, cmdPc, queue, work, req, out, faults, history>>

RevokeUpdate(a) ==
  /\ call[a].pc = "update"
  /\ LET b == call[a].bunker IN
       row' = IF Live(b) THEN [row EXCEPT ![b] = "revoked"] ELSE row
  /\ Proceed(a, "send")
  /\ UNCHANGED <<client, cache, cmds, cmdPc, queue, work, req, out, faults, history>>

\* Re-authorization revokes the previous authorization by its id; the Upsert it
\* sends is for the new one.
ReauthRevoke(a, i, b) ==
  /\ b \notin Team /\ Live(b)
  /\ Begin(a, "reauth", i, b, "done")
  /\ row' = [row EXCEPT ![b] = "revoked"]
  /\ UNCHANGED <<client, cache, cmds, cmdPc, queue, work, req, out, faults, history>>

Target(w) == req[job[w]].bunker
Sender(w) == req[job[w]].client

\* Workers, of whichever instance, that found b without a client and go on to
\* store their sender.
Storing(b) == {w \in Worker : pc[w] \in {"connectStore", "claimStore"} /\ Target(w) = b}

Racing(b) == \E v, w \in Storing(b) : Sender(v) # Sender(w)

DisconnectClient(a, i, b) ==
  /\ b \notin Team /\ Live(b)
  /\ Begin(a, "disconnect", i, b, "done")
  /\ client' = [client EXCEPT ![b] = "nobody"]
  /\ served' = [served EXCEPT ![b] = {}]
  /\ contested' = IF Racing(b) THEN contested \cup {b} ELSE contested \ {b}
  /\ UNCHANGED <<row, cache, cmds, cmdPc, queue, work, req, out, faults, sentTo, told>>

\* change_key and delete_account delete the rows of the user in one transaction,
\* the row of its key included.
DeleteRow(a, operation, i, b) ==
  /\ b \notin Team /\ Exists(b)
  /\ Begin(a, operation, i, b, "send")
  /\ row' = [row EXCEPT ![b] = "deleted"]
  /\ UNCHANGED <<client, cache, cmds, cmdPc, queue, work, req, out, faults, history>>

DeleteTeamRow(a, i, b) ==
  /\ b \in Team /\ Exists(b)
  /\ Begin(a, "delete_team", i, b, "done")
  /\ row' = [row EXCEPT ![b] = "deleted"]
  /\ UNCHANGED <<client, cache, cmds, cmdPc, queue, work, req, out, faults, history>>

\* change_key names the old user key, under which no handler is cached.
CommandOf(a) ==
  IF call[a].op = "create" THEN [kind |-> "Upsert", bunker |-> call[a].bunker]
  ELSE IF call[a].op = "change_key" THEN [kind |-> "Remove", bunker |-> "user"]
  ELSE [kind |-> "Remove", bunker |-> call[a].bunker]

SendCommand(a) ==
  /\ call[a].pc = "send"
  /\ LET i == call[a].at IN
       /\ Len(cmds[i]) < ChannelCap
       /\ cmds' = [cmds EXCEPT ![i] = Append(@, CommandOf(a))]
  /\ Proceed(a, "done")
  /\ UNCHANGED <<rows, cache, cmdPc, queue, work, req, out, faults, history>>

\* The server drops the handler's future when its HTTP client goes away.
Abandon(a) ==
  /\ call[a].pc \in {"update", "send"}
  /\ Inject("abandon")
  /\ Proceed(a, "done")
  /\ UNCHANGED <<rows, cache, cmds, cmdPc, queue, work, req, out, history>>

\* Only team authorizations are given an expiry.
Expire(b) ==
  /\ "expire" \in Ops /\ b \in Team /\ Live(b)
  /\ row' = [row EXCEPT ![b] = "expired"]
  /\ UNCHANGED <<client, cache, api, cmdPc, queue, work, req, out, faults, history>>

-----------------------------------------------------------------------------
(* The task that reads the authorization channel                           *)

CommandIs(i, kind) == cmds[i] # <<>> /\ Head(cmds[i]).kind = kind

UpsertLoad_AnyRow(i) ==
  /\ CommandIs(i, "Upsert") /\ cmdPc[i] = "idle"
  /\ Exists(Head(cmds[i]).bunker)
  /\ cmdPc' = [cmdPc EXCEPT ![i] = "loaded"]
  /\ UNCHANGED <<rows, cache, api, queue, work, req, out, faults, history>>

\* load_single_authorization takes live rows only.
UpsertLoad(i) ==
  /\ CommandIs(i, "Upsert") /\ cmdPc[i] = "idle"
  /\ Live(Head(cmds[i]).bunker)
  /\ cmdPc' = [cmdPc EXCEPT ![i] = "loaded"]
  /\ UNCHANGED <<rows, cache, api, queue, work, req, out, faults, history>>

UpsertInsert(i) ==
  /\ CommandIs(i, "Upsert") /\ cmdPc[i] = "loaded"
  /\ cache' = [cache EXCEPT ![i][Head(cmds[i]).bunker] = "Active"]
  /\ cmds' = [cmds EXCEPT ![i] = Tail(@)]
  /\ cmdPc' = [cmdPc EXCEPT ![i] = "idle"]
  /\ UNCHANGED <<rows, call, queue, work, req, out, faults, history>>

\* No row, or an error while its key is loaded: the command has no effect.
UpsertDrop(i) ==
  /\ CommandIs(i, "Upsert")
  /\ \/ cmdPc[i] = "idle" /\ ~Live(Head(cmds[i]).bunker) /\ UNCHANGED faults
     \/ Inject("load")
     \/ /\ cmdPc[i] = "loaded" /\ row[Head(cmds[i]).bunker] = "deleted"
        /\ UNCHANGED faults
  /\ cmds' = [cmds EXCEPT ![i] = Tail(@)]
  /\ cmdPc' = [cmdPc EXCEPT ![i] = "idle"]
  /\ UNCHANGED <<rows, cache, call, queue, work, req, out, history>>

\* Workers of i that are about to cache a handler they read as active.
Loading(i, b) ==
  {w \in Worker : /\ Home[w] = i /\ pc[w] = "loading" /\ held[w] = "Active"
                  /\ req[job[w]].bunker = b}

Tombstoned(i, b) ==
  [cache EXCEPT ![i][b] = IF @ = "none" THEN "none" ELSE "Revoked"]

RemoveCommand(i) ==
  /\ CommandIs(i, "Remove")
  /\ LET b == Head(cmds[i]).bunker IN
       IF b \in Bunker
       THEN /\ cache' = Tombstoned(i, b)
            /\ told' = [told EXCEPT ![i][b] =
                          IF @ = "racing" \/ Loading(i, b) # {} THEN "racing" ELSE "clean"]
       ELSE UNCHANGED <<cache, told>>
  /\ cmds' = [cmds EXCEPT ![i] = Tail(@)]
  /\ UNCHANGED <<rows, call, cmdPc, queue, work, req, out, faults, sentTo, served, contested>>

\* LRU eviction, or the hourly removal of old tombstones.
Evict(i, b) ==
  /\ cache[i][b] # "none"
  /\ cache' = [cache EXCEPT ![i][b] = "none"]
  /\ UNCHANGED <<rows, api, cmdPc, queue, work, req, out, faults, history>>

-----------------------------------------------------------------------------
(* Requests. The relay delivers each to every instance, where try_send     *)
(* drops it when the queue is full.                                        *)

Full(i) == Len(queue[i]) >= QueueCap

Send(r) ==
  /\ req[r] = Unsent
  /\ \E b \in Bunker, c \in Client, m \in Methods :
       /\ req' = [req EXCEPT ![r] = [bunker |-> b, client |-> c, method |-> m]]
       /\ sentTo' = [sentTo EXCEPT ![r] = row[b]]
  /\ queue' = [i \in Instance |-> IF Full(i) THEN queue[i] ELSE Append(queue[i], r)]
  /\ out' = [i \in Instance |-> IF Full(i) THEN [out[i] EXCEPT ![r] = "full"] ELSE out[i]]
  /\ UNCHANGED <<rows, cache, api, cmdPc, work, faults, told, served, contested>>

-----------------------------------------------------------------------------
(* relay_worker_loop and handle_nip46_request                              *)

Method(w) == req[job[w]].method
OAuth(w)  == Target(w) \notin Team

Step(w, next) == pc' = [pc EXCEPT ![w] = next]

Finish(w, outcome) ==
  /\ Step(w, "idle")
  /\ job' = [job EXCEPT ![w] = "none"]
  /\ held' = [held EXCEPT ![w] = "none"]
  /\ out' = [out EXCEPT ![Home[w]][job[w]] = outcome]

Dequeue(w) ==
  /\ pc[w] = "idle" /\ queue[Home[w]] # <<>>
  /\ queue' = [queue EXCEPT ![Home[w]] = Tail(@)]

\* should_handle says no.
Skip(w) ==
  /\ Foreign
  /\ Dequeue(w)
  /\ out' = [out EXCEPT ![Home[w]][Head(queue[Home[w]])] = "skipped"]
  /\ UNCHANGED <<rows, cache, api, cmdPc, work, req, faults, history>>

\* It says yes; the cache is asked for a copy of the handler.
Take(w) ==
  /\ Dequeue(w)
  /\ LET r == Head(queue[Home[w]])
         status == cache[Home[w]][req[r].bunker]
     IN  /\ job' = [job EXCEPT ![w] = r]
         /\ held' = [held EXCEPT ![w] = status]
         /\ Step(w, IF status = "none" THEN "miss" ELSE "have")
  /\ UNCHANGED <<rows, cache, api, cmdPc, req, out, faults, history>>

LoadRow_LiveOnly(w) ==
  /\ pc[w] = "miss"
  /\ IF Live(Target(w))
     THEN /\ held' = [held EXCEPT ![w] = RowStatus(Target(w))]
          /\ Step(w, "loading")
          /\ UNCHANGED <<job, out>>
     ELSE Finish(w, "ignored")
  /\ UNCHANGED <<rows, cache, api, cmdPc, queue, req, faults, history>>

\* On a miss the row is read, ended or not. No row: not our bunker.
LoadRow(w) ==
  /\ pc[w] = "miss"
  /\ IF Exists(Target(w))
     THEN /\ held' = [held EXCEPT ![w] = RowStatus(Target(w))]
          /\ Step(w, "loading")
          /\ UNCHANGED <<job, out>>
     ELSE Finish(w, "ignored")
  /\ UNCHANGED <<rows, cache, api, cmdPc, queue, req, faults, history>>

\* The key has been fetched and decrypted.
Insert(w) ==
  /\ pc[w] = "loading"
  /\ cache' = [cache EXCEPT ![Home[w]][Target(w)] = held[w]]
  /\ Step(w, "have")
  /\ UNCHANGED <<rows, api, cmdPc, queue, job, held, req, out, faults, history>>

\* It could not be: the request is dropped without an answer.
LoadFail(w) ==
  /\ pc[w] = "loading"
  /\ Inject("load") \/ (row[Target(w)] = "deleted" /\ UNCHANGED faults)
  /\ Finish(w, "failed")
  /\ UNCHANGED <<rows, cache, api, cmdPc, queue, req, history>>

Tombstone(w) ==
  /\ pc[w] = "have" /\ held[w] # "Active"
  /\ Finish(w, "error")
  /\ UNCHANGED <<rows, cache, api, cmdPc, queue, req, faults, history>>

Dispatch(w, methods) == pc[w] = "have" /\ held[w] = "Active" /\ Method(w) \in methods

\* So is a connect without a secret: it is acknowledged and not recorded.
GetPublicKey(w) ==
  /\ Dispatch(w, {"get_public_key"})
  /\ Finish(w, "ok")
  /\ UNCHANGED <<rows, cache, api, cmdPc, queue, req, faults, history>>

\* The sender is accepted as the client of the session.
Accept(w) == served' = [served EXCEPT ![Target(w)] = @ \cup {Sender(w)}]

\* It is about to become the client; another worker may be about to make another.
Enter(w, next) ==
  /\ Step(w, next)
  /\ contested' = IF \E v \in Storing(Target(w)) : Sender(v) # Sender(w)
                  THEN contested \cup {Target(w)} ELSE contested

\* process_connect with a secret: a wrong one is an error, the right one leads to
\* the client of the live row. No such row reads as no client.
ConnectCheck(w) ==
  /\ Dispatch(w, {"connect"})
  /\ LET existing == IF Live(Target(w)) THEN client[Target(w)] ELSE "nobody" IN
       \/ /\ existing = Sender(w)
          /\ Accept(w)
          /\ Finish(w, "ok")
          /\ UNCHANGED contested
       \/ /\ existing = "nobody"
          /\ Enter(w, "connectStore")
          /\ UNCHANGED <<job, held, out, served>>
       \/ Finish(w, "error") /\ UNCHANGED <<served, contested>>
  /\ UNCHANGED <<rows, cache, api, cmdPc, queue, req, faults, sentTo, told>>

\* The UPDATE of connected_client_pubkey is keyed by id alone.
StoreClient(w) ==
  client' = IF Exists(Target(w)) THEN [client EXCEPT ![Target(w)] = Sender(w)] ELSE client

ConnectStore(w) ==
  /\ pc[w] = "connectStore"
  /\ StoreClient(w)
  /\ Accept(w)
  /\ Finish(w, "ok")
  /\ UNCHANGED <<row, cache, api, cmdPc, queue, req, faults, sentTo, told, contested>>

Connected_AnyRow(b, c) == Exists(b) /\ client[b] = c

\* validate_and_store_client: is the sender the client of a live row?
Connected(b, c) == Live(b) /\ client[b] = c

ValidateClient(w) ==
  /\ Dispatch(w, Sensitive) /\ OAuth(w)
  /\ IF Connected(Target(w), Sender(w))
     THEN Step(w, "validated") /\ Accept(w)
     ELSE Step(w, "claim") /\ UNCHANGED served
  /\ UNCHANGED <<rows, cache, api, cmdPc, queue, job, held, req, out, faults, sentTo, told, contested>>

Claimable_AnyRow(b) == Exists(b) /\ client[b] = "nobody"
Claimable_AnyClient(b) == Live(b)

\* Or is there a live row without a client?
Claimable(b) == Live(b) /\ client[b] = "nobody"

ClaimCheck(w) ==
  /\ pc[w] = "claim"
  /\ IF Claimable(Target(w))
     THEN Enter(w, "claimStore") /\ UNCHANGED <<job, held, out>>
     ELSE Finish(w, "error") /\ UNCHANGED contested
  /\ UNCHANGED <<rows, cache, api, cmdPc, queue, req, faults, sentTo, told, served>>

ClaimStore(w) ==
  /\ pc[w] = "claimStore"
  /\ StoreClient(w)
  /\ Accept(w)
  /\ Step(w, "validated")
  /\ UNCHANGED <<row, cache, api, cmdPc, queue, job, held, req, out, faults, sentTo, told, contested>>

\* Team sessions are not validated against a connected client.
SkipValidation(w) ==
  /\ Dispatch(w, Sensitive) /\ ~OAuth(w)
  /\ Step(w, "validated")
  /\ UNCHANGED <<rows, cache, api, cmdPc, queue, job, held, req, out, faults, history>>

\* nip44_ and nip04_ encrypt and decrypt look at no row; bad parameters or a
\* ciphertext that does not decrypt end the request without an answer.
Encrypt(w) ==
  /\ pc[w] = "validated" /\ Method(w) = "encrypt"
  /\ \E outcome \in {"ok", "failed"} : Finish(w, outcome)
  /\ UNCHANGED <<rows, cache, api, cmdPc, queue, req, faults, history>>

SignEvent_CachedPermissions(w) ==
  /\ pc[w] = "validated" /\ Method(w) = "sign_event"
  /\ \E outcome \in {"ok", "failed"} : Finish(w, outcome)
  /\ UNCHANGED <<rows, cache, api, cmdPc, queue, req, faults, history>>

\* handle_sign_event finds the row by its id, whatever its state, and asks its
\* policy; a missing row or a refusal ends the request without an answer.
SignEvent(w) ==
  /\ pc[w] = "validated" /\ Method(w) = "sign_event"
  /\ (Exists(Target(w)) /\ Finish(w, "ok")) \/ Finish(w, "failed")
  /\ UNCHANGED <<rows, cache, api, cmdPc, queue, req, faults, history>>

-----------------------------------------------------------------------------
\* The process of an instance restarts: what it held in memory is gone.
Restart(i) ==
  /\ Inject("restart")
  /\ cache' = [cache EXCEPT ![i] = [b \in Bunker |-> "none"]]
  /\ cmds' = [cmds EXCEPT ![i] = <<>>]
  /\ cmdPc' = [cmdPc EXCEPT ![i] = "idle"]
  /\ queue' = [queue EXCEPT ![i] = <<>>]
  /\ pc' = [w \in Worker |-> IF Home[w] = i THEN "idle" ELSE pc[w]]
  /\ job' = [w \in Worker |-> IF Home[w] = i THEN "none" ELSE job[w]]
  /\ held' = [w \in Worker |-> IF Home[w] = i THEN "none" ELSE held[w]]
  /\ out' = [out EXCEPT ![i] = [r \in Req |->
               IF out[i][r] = "none" /\ req[r] # Unsent THEN "failed" ELSE out[i][r]]]
  /\ call' = [a \in Call |->
               IF call[a].pc \in {"update", "send"} /\ call[a].at = i
               THEN [call[a] EXCEPT !.pc = "done"] ELSE call[a]]
  /\ UNCHANGED <<rows, req, history>>

Api(a) ==
  \/ \E i \in Instance, b \in Bunker :
       \/ Create(a, i, b) \/ RevokeCheck(a, i, b) \/ ReauthRevoke(a, i, b)
       \/ DisconnectClient(a, i, b) \/ DeleteTeamRow(a, i, b)
       \/ DeleteRow(a, "change_key", i, b) \/ DeleteRow(a, "delete_account", i, b)
  \/ RevokeUpdate(a) \/ SendCommand(a) \/ Abandon(a)

CommandTask(i) == UpsertLoad(i) \/ UpsertInsert(i) \/ UpsertDrop(i) \/ RemoveCommand(i)

WorkerLoop(w) ==
  \/ Skip(w) \/ Take(w) \/ LoadRow(w) \/ Insert(w) \/ LoadFail(w)
  \/ Tombstone(w) \/ GetPublicKey(w) \/ ConnectCheck(w) \/ ConnectStore(w)
  \/ ValidateClient(w) \/ ClaimCheck(w) \/ ClaimStore(w)
  \/ SkipValidation(w) \/ Encrypt(w) \/ SignEvent(w)

Next ==
  \/ \E a \in Call : Api(a)
  \/ \E i \in Instance : CommandTask(i) \/ Restart(i)
  \/ \E i \in Instance, b \in Bunker : Evict(i, b)
  \/ \E b \in Bunker : Expire(b)
  \/ \E r \in Req : Send(r)
  \/ \E w \in Worker : WorkerLoop(w)

Spec == Init /\ [][Next]_vars

\* tokio runs the channel's reader and every worker; an API call that has begun
\* goes on. Clients, the clock, evictions and faults are not forced.
Fairness ==
  /\ \A a \in Call : WF_vars(RevokeUpdate(a) \/ SendCommand(a))
  /\ \A i \in Instance : WF_vars(CommandTask(i))
  /\ \A w \in Worker : WF_vars(WorkerLoop(w))

FairSpec == Spec /\ Fairness

-----------------------------------------------------------------------------
(* Safety                                                                  *)

\* The requests that the promise to OAuth sessions is about.
Governed == {r \in Req : /\ req[r] # Unsent /\ req[r].method \in Sensitive
                         /\ req[r].bunker \notin Team}

\* A request for an OAuth session that was sent after the session had been revoked
\* or deleted is never signed, whatever the caches of whichever instance hold.
NoAnswerAfterEnd ==
  \A i \in Instance : \A r \in Governed :
    sentTo[r] \in {"revoked", "deleted"} => out[i][r] # "ok"

\* The permissions are looked up for every signature: no event is signed for a
\* session, of a team or a user, that was deleted before the request was sent.
NoSignAfterDelete ==
  \A i \in Instance, r \in Req :
    (req[r].method = "sign_event" /\ sentTo[r] = "deleted") => out[i][r] # "ok"

\* The client is read, compared and stored in separate statements. Unless two workers
\* were about to store different clients at one time, one client is accepted for a
\* live session between two disconnects, by whichever workers and instances.
UncontestedClient ==
  \A b \in Bunker : (Live(b) /\ b \notin contested) => \A c, d \in served[b] : c = d

\* Once an instance has handled a Remove and was not loading the row meanwhile, no
\* later command, request or restart makes it cache an active handler again.
RemovedStays ==
  \A i \in Instance, b \in Bunker : told[i][b] = "clean" => cache[i][b] # "Active"

Granted(r) ==
  \E w \in Worker : job[w] = r /\ pc[w] \in {"claimStore", "validated"}

\* What the signing authority sees of the OAuth sessions and the governed requests.
Phase ==
  [b \in Bunker \ Team |-> IF row[b] = "absent" THEN "absent"
                         ELSE IF Live(b) THEN "live" ELSE "ended"]
Holder == [b \in Bunker \ Team |-> client[b]]
Asked ==
  [r \in Req |-> IF r \in Governed
                 THEN [bunker |-> req[r].bunker, client |-> req[r].client]
                 ELSE [client |-> "nobody"]]
Stage ==
  [r \in Req |->
     IF r \notin Governed THEN "new"
     ELSE IF \E i \in Instance : out[i][r] = "ok" THEN "signed"
     ELSE IF Granted(r) THEN "granted" ELSE "new"]

Authority == INSTANCE SigningAuthority WITH
  Bunker <- Bunker \ Team, phase <- Phase, holder <- Holder, req <- Asked, stage <- Stage

\* The signer as a whole implements it: a signature rests on a moment, after the
\* request was sent, at which the session was live and not another client's.
ImplementsAuthority == Authority!Spec

-----------------------------------------------------------------------------
(* Liveness                                                                *)

\* "Tombstones ... can still send error responses to clients instead of silently
\* timing out": a request for a revoked session that an instance accepts gets one.
LateRequestsGetErrors ==
  \A i \in Instance, r \in Req :
    (r \in Governed /\ sentTo[r] = "revoked")
      ~> \/ out[i][r] \in {"error", "skipped", "full"}
         \/ r \in Governed /\ row[req[r].bunker] = "deleted"

-----------------------------------------------------------------------------
(* What the code's comments say and the code does not do                   *)

\* "Enforce one-client-per-authorization": between two disconnects one client is
\* accepted for a live session.
OneClient == \A b \in Bunker : Live(b) => \A c, d \in served[b] : c = d

\* "If not in cache, next request will load from DB as revoked" (on Remove).
RemovedIsTombstone ==
  \A i \in Instance, b \in Bunker :
    told[i][b] # "no" /\ Loading(i, b) = {} => cache[i][b] # "Active"

\* "Signal signer daemon to remove old authorizations" (change_key).
KeyChangeRemoves ==
  \A a \in Call : (call[a].pc = "done" /\ call[a].op = "change_key") =>
    (cmds[call[a].at] = <<>> => told[call[a].at][call[a].bunker] # "no")

=============================================================================
