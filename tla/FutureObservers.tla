--------------------------- MODULE FutureObservers ---------------------------
(***************************************************************************)
(* Several threads holding the same futures call get_info() and wait()     *)
(* while the workers run and are canceled                                  *)
(* (src/caikit/core/model_management/local_background_base.py,             *)
(* LocalModelFuture.get_info and wait).                                    *)
(*                                                                         *)
(* Neither call takes a lock. get_info() reads the worker's flags one at a *)
(* time (canceled, is_alive(), threw, ran) and returns at the first that   *)
(* is true, so each read is a step of its own. wait() joins the worker,    *)
(* then evaluates `self._completion_time or datetime.now()` and stores it: *)
(* the read and the store are two steps.                                   *)
(***************************************************************************)
EXTENDS LocalModelFuture

CONSTANTS
    Readers,   \* threads calling get_info() / wait()
    NoFuture   \* model value: a reader between calls

VARIABLES
    reader,    \* reader[r]: the call r is in and its locals
    reported,  \* history: reported[f], the latest-placed status a finished get_info(f) returned
    joined     \* history: the futures on which some wait() has returned from join()

vars == <<worker, save_path, disk, completion_time, exit_time, now, reader, reported, joined>>

Statuses == {"QUEUED", "RUNNING", "COMPLETED", "ERRORED", "CANCELED"}

(* load() returns the model, returns no result, or raises. *)
LoadResults == {"model", "nothing", "raised"}

(* Position of a status in the lifecycle QUEUED -> RUNNING -> terminal. *)
Rank(s) == IF s = "QUEUED" THEN 0 ELSE IF s = "RUNNING" THEN 1 ELSE 2

(* History: a get_info(f) that returned s; a later-placed or equally       *)
(* placed status replaces the one recorded.                                *)
Report(f, s) == reported' = [reported EXCEPT ![f] = IF Rank(s) >= Rank(@) THEN s ELSE @]

ReaderState ==
    [pc : {"idle", "get_info", "wait_join", "wait_store", "load_read"},
     fut : Futures \cup {NoFuture},
     check : 1..NumChecks,          \* the next flag get_info() reads
     floor : Statuses,              \* reported[fut] when the call began
     after_cancel : BOOLEAN,        \* cancel() had returned when the call began
     after_join : BOOLEAN,          \* a wait() on fut had returned from join() when the call began
     result : Statuses,             \* what get_info() returned last
     value : Time \cup {None},     \* the value wait() is about to store
     loading : BOOLEAN,             \* the wait() is the one load() begins with
     loaded : LoadResults]          \* what load() returned last

Idle == [pc |-> "idle", fut |-> NoFuture, check |-> 1, floor |-> "QUEUED", after_cancel |-> FALSE,
         after_join |-> FALSE, result |-> "QUEUED", value |-> None, loading |-> FALSE, loaded |-> "nothing"]

TypeOK ==
    /\ FutureTypeOK
    /\ reader \in [Readers -> ReaderState]
    /\ reported \in [Futures -> Statuses]
    /\ joined \subseteq Futures

Init ==
    /\ FutureInit
    /\ reader = [r \in Readers |-> Idle]
    /\ reported = [f \in Futures |-> "QUEUED"]
    /\ joined = {}

(* get_info() begins on a constructed future. *)
GetInfoStart(r, f) ==
    /\ reader[r].pc = "idle"
    /\ Constructed(f)
    /\ reader' = [reader EXCEPT ![r] = [Idle EXCEPT !.pc = "get_info", !.fut = f,
                                                     !.floor = reported[f],
                                                     !.after_cancel = worker[f].canceled,
                                                     !.after_join = f \in joined]]
    /\ UNCHANGED <<worker, save_path, disk, completion_time, exit_time, now, reported, joined>>

(* Mutant: no final `return QUEUED` after the last flag. *)
GetInfoCheck_NoFallback(r) ==
    /\ reader[r].pc = "get_info"
    /\ LET f == reader[r].fut
           k == reader[r].check
           hit == GetInfoOrder(f)[k][1]
       IN IF hit
          THEN /\ reader' = [reader EXCEPT ![r] = [@ EXCEPT !.pc = "idle",
                                                  !.result = GetInfoOrder(f)[k][2]]]
               /\ Report(f, GetInfoOrder(f)[k][2])
          ELSE /\ reader' = [reader EXCEPT ![r].check = k + 1]
               /\ UNCHANGED reported
    /\ UNCHANGED <<worker, save_path, disk, completion_time, exit_time, now, joined>>

(***************************************************************************)
(* get_info() reads its next flag: if it is true the call returns that     *)
(* flag's status; after the last flag it returns QUEUED.                   *)
(***************************************************************************)
GetInfoCheck(r) ==
    /\ reader[r].pc = "get_info"
    /\ LET f == reader[r].fut
           k == reader[r].check
           hit == GetInfoOrder(f)[k][1]
           done == hit \/ k = NumChecks
           status == IF hit THEN GetInfoOrder(f)[k][2] ELSE "QUEUED"
       IN IF done
          THEN /\ reader' = [reader EXCEPT ![r] = [@ EXCEPT !.pc = "idle", !.result = status]]
               /\ Report(f, status)
          ELSE /\ reader' = [reader EXCEPT ![r].check = k + 1]
               /\ UNCHANGED reported
    /\ UNCHANGED <<worker, save_path, disk, completion_time, exit_time, now, joined>>

(* wait() begins: self._worker.join(). *)
WaitStart(r, f) ==
    /\ reader[r].pc = "idle"
    /\ Constructed(f)
    /\ reader' = [reader EXCEPT ![r] = [Idle EXCEPT !.pc = "wait_join", !.fut = f]]
    /\ UNCHANGED <<worker, save_path, disk, completion_time, exit_time, now, reported, joined>>

(* join() returns once the worker has exited; the right-hand side          *)
(* `self._completion_time or datetime.now()` is evaluated.                 *)
WaitJoin(r) ==
    /\ reader[r].pc = "wait_join"
    /\ LET f == reader[r].fut
       IN /\ worker[f].phase = "exited"
          /\ reader' = [reader EXCEPT ![r] = [@ EXCEPT !.pc = "wait_store",
                          !.value = IF completion_time[f] # None THEN completion_time[f] ELSE now]]
          /\ joined' = joined \cup {f}
    /\ UNCHANGED <<worker, save_path, disk, completion_time, exit_time, now, reported>>

(* The value is stored into self._completion_time and wait() returns, to *)
(* its caller or to the load() that called it.                            *)
WaitStore(r) ==
    /\ reader[r].pc = "wait_store"
    /\ completion_time' = [completion_time EXCEPT ![reader[r].fut] = reader[r].value]
    /\ reader' = [reader EXCEPT ![r] = IF reader[r].loading THEN [@ EXCEPT !.pc = "load_read"]
                                      ELSE Idle]
    /\ UNCHANGED <<worker, save_path, disk, exit_time, now, reported, joined>>

(* load() begins with self.wait(). *)
LoadStart(r, f) ==
    /\ reader[r].pc = "idle"
    /\ Constructed(f)
    /\ reader' = [reader EXCEPT ![r] = [Idle EXCEPT !.pc = "wait_join", !.fut = f, !.loading = TRUE]]
    /\ UNCHANGED <<worker, save_path, disk, completion_time, exit_time, now, reported, joined>>

(***************************************************************************)
(* LocalModelTrainFuture.load() after its wait(): with a subprocess, raise *)
(* without a save_path or when nothing exists there, else caikit.load()    *)
(* the file; with a thread, _worker.get_or_throw(), which raises what the  *)
(* callable raised and otherwise returns its result, none if it never      *)
(* returned.                                                               *)
(***************************************************************************)
LoadRead(r) ==
    /\ reader[r].pc = "load_read"
    /\ LET f == reader[r].fut
           res == IF UseSubprocess
                  THEN IF save_path[f] \in disk THEN "model" ELSE "raised"
                  ELSE IF worker[f].threw THEN "raised"
                  ELSE IF worker[f].ran THEN "model" ELSE "nothing"
       IN  reader' = [reader EXCEPT ![r] = [Idle EXCEPT !.loaded = res]]
    /\ UNCHANGED <<worker, save_path, disk, completion_time, exit_time, now, reported, joined>>

ReaderStep(r) == GetInfoCheck(r) \/ WaitJoin(r) \/ WaitStore(r) \/ LoadRead(r)

(* The trainer builds the future; its caller may cancel it; time passes. *)
Environment ==
    \/ \E f \in Futures, sp \in Paths \cup {None} : Construct(f, sp) /\ UNCHANGED now
    \/ \E f \in Futures : Cancel(f) /\ UNCHANGED now
    \/ Tick /\ UNCHANGED future_vars

Next ==
    \/ \E r \in Readers, f \in Futures : GetInfoStart(r, f) \/ WaitStart(r, f) \/ LoadStart(r, f)
    \/ \E r \in Readers : ReaderStep(r)
    \/ \E f \in Futures : WorkerStep(f) /\ UNCHANGED <<now, reader, reported, joined>>
    \/ Environment /\ UNCHANGED <<reader, reported, joined>>

Spec == Init /\ [][Next]_vars

-----------------------------------------------------------------------------
(***************************************************************************)
(* Properties                                                              *)
(***************************************************************************)

(* A get_info() call that returns. *)
Returns(r) == reader[r].pc = "get_info" /\ reader'[r].pc = "idle"

(* Once cancel() has returned, every get_info() begun afterwards returns   *)
(* CANCELED, whether the destroyed worker is still shutting down, has      *)
(* raised or has run to completion (spec section 5).                       *)
CancelIsFinal ==
    [][\A r \in Readers :
          (Returns(r) /\ reader[r].after_cancel) => reader'[r].result = "CANCELED"]_reader

(***************************************************************************)
(* Statuses reported by get_info() calls that do not overlap follow the    *)
(* lifecycle QUEUED -> RUNNING -> terminal, and once a terminal status has *)
(* been reported every later call reports that same status (spec sections *)
(* 3 and 8). It is about the flag-by-flag reads of get_info() racing the   *)
(* worker, and about cancel() calling destroy() on a finished worker.      *)
(***************************************************************************)
ReportsFollowLifecycle ==
    [][\A r \in Readers :
          Returns(r) => LET s == reader'[r].result
                            was == reader[r].floor
                        IN  /\ Rank(s) >= Rank(was)
                            /\ was \in Terminal => s = was]_reader

(* A future's completion time, once set, never changes (spec section 5:    *)
(* two threads that call wait() observe the same completion time).         *)
CompletionTimeStable ==
    [][\A f \in Futures :
          completion_time[f] # None => completion_time'[f] = completion_time[f]]_completion_time

(***************************************************************************)
(* load() returns a model only for a job whose work completed: its worker  *)
(* ran to the end. A job canceled before it completed, or whose training   *)
(* raised, never yields a model (spec section 8, and section 7: load()     *)
(* re-raises the job's error). It is about load() on the subprocess        *)
(* backend trusting whatever file is at save_path after wait().            *)
(***************************************************************************)
LoadReturnsOnlyCompleted ==
    [][\A r \in Readers :
          (reader[r].pc = "load_read" /\ reader'[r].loaded = "model")
             => worker[reader[r].fut].ran]_reader

(***************************************************************************)
(* wait() blocks until the job reaches a terminal state (its docstring,    *)
(* local_background_base.py:171): every get_info() begun after a wait() on *)
(* that future returned from join() reports a terminal status, even when   *)
(* its flag reads race cancel(). It is about the worker exiting without    *)
(* having set any of the flags get_info() reads.                           *)
(***************************************************************************)
TerminalAfterWait ==
    [][\A r \in Readers :
          (Returns(r) /\ reader[r].after_join) => reader'[r].result \in Terminal]_reader

=============================================================================
