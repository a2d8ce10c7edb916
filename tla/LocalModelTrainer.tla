-------------------------- MODULE LocalModelTrainer --------------------------
(***************************************************************************)
(* The registry of training futures: LocalModelTrainer.train,              *)
(* get_model_future and _purge_old_futures                                 *)
(* (src/caikit/core/model_management/local_model_trainer.py), called by    *)
(* several client threads at once, over the futures of LocalModelFuture.   *)
(*                                                                         *)
(* _futures is shared by all clients. Every mutation of it happens under   *)
(* _futures_lock in a block that does not release the lock midway, so each *)
(* such block is one action; reads outside the lock (the purge scan, the   *)
(* pre-check of train, the lookup) are actions of their own, so any other  *)
(* client's steps and any worker's steps can fall between them.            *)
(***************************************************************************)
EXTENDS LocalModelFuture, FiniteSets

CONSTANTS
    Clients,      \* threads calling into the trainer
    ExternalIds,  \* values of external_training_id a client may pass
    Retention,    \* parsed retention_duration, or None when not configured
    NoFuture      \* model value: no entry in _futures / no result

VARIABLES
    futures,  \* self._futures: id -> future
    client    \* client[c]: the call c is in and its local variables

vars == <<worker, save_path, disk, completion_time, exit_time, now, futures, client>>

(* A future's id is its external id or, without one, a fresh uuid; the     *)
(* future object stands for its own uuid.                                  *)
Ids == ExternalIds \cup Futures

Pc == {"idle", "purge_scan", "purge_iter", "purge_pop", "train_precheck", "train_construct",
       "train_insert", "lookup_read"}

ClientState ==
    [pc : Pc,
     op : {"train", "lookup"},
     id : Ids \cup {None},          \* external_training_id or training_id
     fut : Futures \cup {NoFuture}, \* the future train built
     purged : SUBSET Ids,           \* purged_ids of the purge in progress
     seen : SUBSET Ids,             \* the ids its iteration has visited
     size : 0..Cardinality(Ids),    \* len(self._futures) when the iteration began
     scan_time : Time]              \* `now` of the last purge scan

(* A client between calls; its locals are dropped. *)
Idle == [pc |-> "idle", op |-> "lookup", id |-> None, fut |-> NoFuture,
         purged |-> {}, seen |-> {}, size |-> 0, scan_time |-> 0]

TypeOK ==
    /\ FutureTypeOK
    /\ futures \in [Ids -> Futures \cup {NoFuture}]
    /\ client \in [Clients -> ClientState]

Init ==
    /\ FutureInit
    /\ futures = [i \in Ids |-> NoFuture]
    /\ client = [c \in Clients |-> Idle]

Registered(i) == futures[i] # NoFuture
RegisteredIds == {i \in Ids : Registered(i)}

(* The continuation of a call once _purge_old_futures returns. *)
AfterPurge(c) == IF client[c].op = "train" THEN "train_precheck" ELSE "lookup_read"

(* future.completion_time is not None and                                 *)
(* future.completion_time + self._retention_duration < now                 *)
Expired(f, t) == completion_time[f] # None /\ completion_time[f] + Retention < t

(***************************************************************************)
(* train(): every call first purges (line 131).                            *)
(***************************************************************************)
TrainStart(c, x) ==
    /\ client[c].pc = "idle"
    /\ client' = [client EXCEPT ![c] = [@ EXCEPT !.pc = "purge_scan", !.op = "train",
                                                 !.id = x, !.fut = NoFuture]]
    /\ UNCHANGED <<worker, save_path, disk, completion_time, exit_time, now, futures>>

(* get_model_future(): purge, then read the entry. *)
LookupStart(c, i) ==
    /\ client[c].pc = "idle"
    /\ client' = [client EXCEPT ![c] = [@ EXCEPT !.pc = "purge_scan", !.op = "lookup",
                                                 !.id = i, !.fut = NoFuture]]
    /\ UNCHANGED <<worker, save_path, disk, completion_time, exit_time, now, futures>>

(***************************************************************************)
(* _purge_old_futures(), without the lock: nothing to do when no retention *)
(* is configured; otherwise take `now` and begin iterating                 *)
(* self._futures.items() (PurgeIter).                                      *)
(***************************************************************************)
PurgeScan(c) ==
    /\ client[c].pc = "purge_scan"
    /\ client' = [client EXCEPT ![c] =
          IF Retention = None THEN [@ EXCEPT !.pc = AfterPurge(c)]
          ELSE [@ EXCEPT !.pc = "purge_iter", !.purged = {}, !.seen = {},
                         !.size = Cardinality(RegisteredIds), !.scan_time = now]]
    /\ UNCHANGED <<worker, save_path, disk, completion_time, exit_time, now, futures>>

(***************************************************************************)
(* One next() of the iteration: if another thread has changed the number   *)
(* of entries since it began, it raises RuntimeError ("dictionary changed  *)
(* size during iteration") out of the caller; else it visits an entry not  *)
(* yet visited and collects its id if the future is expired; when none is  *)
(* left, return early if nothing was collected. Entries are visited in any *)
(* order, and the future is read when its entry is visited.                *)
(***************************************************************************)
PurgeIter(c) ==
    /\ client[c].pc = "purge_iter"
    /\ LET todo == RegisteredIds \ client[c].seen
       IN  \/ /\ Cardinality(RegisteredIds) # client[c].size
              /\ client' = [client EXCEPT ![c] = Idle]
           \/ /\ Cardinality(RegisteredIds) = client[c].size
              /\ todo = {}
              /\ client' = [client EXCEPT ![c].pc =
                               IF client[c].purged = {} THEN AfterPurge(c) ELSE "purge_pop"]
           \/ /\ Cardinality(RegisteredIds) = client[c].size
              /\ \E i \in todo :
                    client' = [client EXCEPT ![c].seen = @ \cup {i},
                                             ![c].purged = IF Expired(futures[i], client[c].scan_time)
                                                           THEN @ \cup {i} ELSE @]
    /\ UNCHANGED <<worker, save_path, disk, completion_time, exit_time, now, futures>>

(* Second half, under the lock: pop every collected id, present or not. *)
PurgePop(c) ==
    /\ client[c].pc = "purge_pop"
    /\ futures' = [i \in Ids |-> IF i \in client[c].purged THEN NoFuture ELSE futures[i]]
    /\ client' = [client EXCEPT ![c] = [@ EXCEPT !.pc = AfterPurge(c), !.purged = {}, !.seen = {}]]
    /\ UNCHANGED <<worker, save_path, disk, completion_time, exit_time, now>>

(***************************************************************************)
(* train(): with an external id whose current future is not terminal,      *)
(* raise ("Cannot restart training ... currently running").                *)
(***************************************************************************)
TrainPrecheck(c) ==
    /\ client[c].pc = "train_precheck"
    /\ LET x == client[c].id
           conflict == x # None /\ Registered(x) /\ ~IsTerminal(futures[x])
       IN client' = [client EXCEPT ![c] = IF conflict THEN Idle ELSE [@ EXCEPT !.pc = "train_construct"]]
    /\ UNCHANGED <<worker, save_path, disk, completion_time, exit_time, now, futures>>

(* train(): build the LocalModelTrainFuture, which starts its worker. The  *)
(* caller gives one of the save paths or none.                            *)
TrainConstruct(c) ==
    /\ client[c].pc = "train_construct"
    /\ \E f \in Futures, sp \in Paths \cup {None} :
          /\ Construct(f, sp)
          /\ client' = [client EXCEPT ![c] = [@ EXCEPT !.pc = "train_insert", !.fut = f]]
    /\ UNCHANGED <<now, futures>>

(* The id the new future is registered under: future_id. *)
FutureId(c) == IF client[c].id # None THEN client[c].id ELSE client[c].fut

(* Mutant: the id is stored in _futures in place of the future. *)
TrainInsert_StoresId(c) ==
    /\ client[c].pc = "train_insert"
    /\ LET i == FutureId(c)
       IN futures' = IF Registered(i) /\ ~IsTerminal(futures[i]) THEN futures
                     ELSE [futures EXCEPT ![i] = i]
    /\ client' = [client EXCEPT ![c] = Idle]
    /\ UNCHANGED <<worker, save_path, disk, completion_time, exit_time, now>>

(***************************************************************************)
(* train(), under the lock: if the id holds a future that is not terminal, *)
(* raise ("UUID collision"); otherwise register the new future. The raise  *)
(* leaves the new future's worker running.                                 *)
(***************************************************************************)
TrainInsert(c) ==
    /\ client[c].pc = "train_insert"
    /\ LET i == FutureId(c)
       IN futures' = IF Registered(i) /\ ~IsTerminal(futures[i]) THEN futures
                     ELSE [futures EXCEPT ![i] = client[c].fut]
    /\ client' = [client EXCEPT ![c] = Idle]
    /\ UNCHANGED <<worker, save_path, disk, completion_time, exit_time, now>>

(* get_model_future(): return the entry or raise NOT_FOUND. *)
LookupRead(c) ==
    /\ client[c].pc = "lookup_read"
    /\ client' = [client EXCEPT ![c] = Idle]
    /\ UNCHANGED <<worker, save_path, disk, completion_time, exit_time, now, futures>>

(* A caller holding a future cancels it or waits on it. *)
FutureCall(f) ==
    /\ Cancel(f) \/ Wait(f)
    /\ UNCHANGED <<now, futures, client>>

WorkerNext(f) ==
    /\ WorkerStep(f)
    /\ UNCHANGED <<now, futures, client>>

Clock ==
    /\ Tick
    /\ UNCHANGED <<worker, save_path, disk, completion_time, exit_time, futures, client>>

Next ==
    \/ \E c \in Clients :
          \/ \E x \in ExternalIds \cup {None} : TrainStart(c, x)
          \/ \E i \in Ids : LookupStart(c, i)
          \/ PurgeScan(c)
          \/ PurgeIter(c)
          \/ PurgePop(c)
          \/ TrainPrecheck(c)
          \/ TrainConstruct(c)
          \/ TrainInsert(c)
          \/ LookupRead(c)
    \/ \E f \in Futures : FutureCall(f) \/ WorkerNext(f)
    \/ Clock

Spec == Init /\ [][Next]_vars

-----------------------------------------------------------------------------
(***************************************************************************)
(* Properties                                                              *)
(***************************************************************************)

(* Purge never removes a job that is still running: a future leaves        *)
(* _futures only once its status is terminal.                              *)
PurgeOnlyTerminal ==
    [][\A i \in Ids :
          (Registered(i) /\ futures'[i] = NoFuture) => IsTerminal(futures[i])]_futures

(* Every worker that is alive and was not canceled belongs to a future     *)
(* that is registered or that train is about to register: no training runs *)
(* that no caller can look up, cancel or wait on.                          *)
NoOrphanWorker ==
    \A f \in Futures :
        (Alive(f) /\ ~worker[f].canceled)
           => \/ \E i \in Ids : futures[i] = f
              \/ \E c \in Clients : client[c].pc = "train_insert" /\ client[c].fut = f

(***************************************************************************)
(* get_model_future answers as the registry specifies (spec sections 7 and *)
(* 8): it returns from its read of _futures, never from an error raised by *)
(* the purge racing another client (purge races are swallowed), and what   *)
(* it returns is not a job that had finished longer than the retention     *)
(* before that purge began.                                                *)
(***************************************************************************)
LookupAnswersRegistry ==
    [][\A c \in Clients :
          (client[c].op = "lookup" /\ client[c].pc # "idle" /\ client'[c].pc = "idle")
             => /\ client[c].pc = "lookup_read"
                /\ Registered(client[c].id) =>
                      LET f == futures[client[c].id]
                      IN  ~(exit_time[f] # None /\ exit_time[f] + Retention < client[c].scan_time)]_client

====
