--------------------------- MODULE LocalModelFuture ---------------------------
(***************************************************************************)
(* One training job: a LocalModelTrainFuture and the worker it owns.       *)
(*                                                                         *)
(* The future (src/caikit/core/model_management/local_background_base.py,  *)
(* LocalModelFuture, and local_model_trainer.py, LocalModelTrainFuture)    *)
(* starts its worker in its constructor, derives its status from the       *)
(* worker's flags, cancels by destroying the worker and stamps its         *)
(* completion time either at the end of run() (in the worker) or in        *)
(* wait() (in the caller).                                                 *)
(*                                                                         *)
(* The worker (DestroyableThread / DestroyableProcess) is not under src/;  *)
(* it is modelled from the spec (section 4.1): start() makes it alive,     *)
(* destroy() sets `canceled` and makes it exit at its next checkpoint,     *)
(* `threw` is set when the callable raises without being canceled, `ran`   *)
(* when it returns normally.                                               *)
(*                                                                         *)
(* This module declares the shared state and the actions of one future;    *)
(* FutureObservers and LocalModelTrainer compose them with callers.        *)
(***************************************************************************)
EXTENDS Naturals

CONSTANTS
    Futures,        \* future objects (also their generated uuid ids)
    UseSubprocess,  \* config use_subprocess (start method other than fork)
    MaxTime,        \* bound on the clock
    Paths,          \* save paths callers may give (shared by jobs that give the same one)
    None            \* model value: an unset completion time / exit time

VARIABLES
    worker,          \* worker[f]: the phase of run() and the worker's flags
    save_path,       \* save_path[f]: the future's save path, or None
    disk,            \* the paths some worker's save() has written a model to
    completion_time, \* completion_time[f]: the parent's _completion_time
    exit_time,       \* history: when worker[f] stopped being alive
    now              \* datetime.now()

future_vars == <<worker, save_path, disk, completion_time, exit_time>>

Time == 0..MaxTime

(* Phases of the worker: "none" before the future is constructed, then the *)
(* statements of LocalModelTrainFuture.run(): train, save, stamp the       *)
(* completion time, return; "exited" once the worker is no longer alive.   *)
Phase == {"none", "train", "save", "stamp", "return", "exited"}
LivePhase == {"train", "save", "stamp", "return"}

WorkerState == [phase : Phase, canceled : BOOLEAN, threw : BOOLEAN, ran : BOOLEAN]

Constructed(f) == worker[f].phase # "none"
Alive(f) == worker[f].phase \in LivePhase

(* Mutant: is_alive() checked before canceled. *)
GetInfoOrder_AliveFirst(f) ==
    << <<Alive(f), "RUNNING">>,
       <<worker[f].canceled, "CANCELED">>,
       <<worker[f].threw, "ERRORED">>,
       <<worker[f].ran, "COMPLETED">> >>

(***************************************************************************)
(* get_info(): the worker's flags in the order the code checks them, each  *)
(* with the status returned when it is the first one found true; when none *)
(* is true the status is QUEUED.                                           *)
(***************************************************************************)
GetInfoOrder(f) ==
    << <<worker[f].canceled, "CANCELED">>,
       <<Alive(f), "RUNNING">>,
       <<worker[f].threw, "ERRORED">>,
       <<worker[f].ran, "COMPLETED">> >>

NumChecks == 4

(* get_info() evaluated in one atomic step: the status of the first true  *)
(* flag from the k-th on, QUEUED when there is none.                       *)
RECURSIVE FirstStatus(_, _)
FirstStatus(checks, k) ==
    IF k > NumChecks THEN "QUEUED"
    ELSE IF checks[k][1] THEN checks[k][2] ELSE FirstStatus(checks, k + 1)

Status(f) == FirstStatus(GetInfoOrder(f), 1)

Terminal == {"COMPLETED", "ERRORED", "CANCELED"}   \* BackgroundStatus.is_terminal
IsTerminal(f) == Status(f) \in Terminal

FutureTypeOK ==
    /\ worker \in [Futures -> WorkerState]
    /\ save_path \in [Futures -> Paths \cup {None}]
    /\ disk \subseteq Paths
    /\ completion_time \in [Futures -> Time \cup {None}]
    /\ exit_time \in [Futures -> Time \cup {None}]
    /\ now \in Time

FutureInit ==
    /\ worker = [f \in Futures |->
                    [phase |-> "none", canceled |-> FALSE, threw |-> FALSE, ran |-> FALSE]]
    /\ save_path = [f \in Futures |-> None]
    /\ disk = {}
    /\ completion_time = [f \in Futures |-> None]
    /\ exit_time = [f \in Futures |-> None]
    /\ now = 0

(* The worker stops being alive: record when, for the properties. *)
Exit(f, canceled, threw, ran) ==
    /\ worker' = [worker EXCEPT ![f] = [phase |-> "exited", canceled |-> canceled,
                                        threw |-> threw, ran |-> ran]]
    /\ exit_time' = [exit_time EXCEPT ![f] = now]

(***************************************************************************)
(* __init__: completion time unset, worker built and started. sp is the    *)
(* save path given, or None (no save path with a subprocess is only a      *)
(* warning); two jobs may be given the same path.                          *)
(***************************************************************************)
Construct(f, sp) ==
    /\ worker[f].phase = "none"
    /\ worker' = [worker EXCEPT ![f].phase = "train"]
    /\ save_path' = [save_path EXCEPT ![f] = sp]
    /\ UNCHANGED <<disk, completion_time, exit_time>>

(* run(): module_class.train(...) returns; go on to save or to stamp. *)
WorkerTrain(f) ==
    /\ worker[f].phase = "train"
    /\ worker' = [worker EXCEPT ![f].phase = IF save_path[f] # None THEN "save" ELSE "stamp"]
    /\ UNCHANGED <<save_path, disk, completion_time, exit_time>>

(* run(): trained_model.save(save_path) returns. *)
WorkerSave(f) ==
    /\ worker[f].phase = "save"
    /\ worker' = [worker EXCEPT ![f].phase = "stamp"]
    /\ disk' = disk \cup {save_path[f]}
    /\ UNCHANGED <<save_path, completion_time, exit_time>>

(* run(): train or save raises; the worker records `threw` unless it was   *)
(* canceled, and exits.                                                    *)
WorkerRaise(f) ==
    /\ worker[f].phase \in {"train", "save"}
    /\ Exit(f, worker[f].canceled, ~worker[f].canceled, FALSE)
    /\ UNCHANGED <<save_path, disk, completion_time>>

(* run(): self._completion_time = self._completion_time or datetime.now(). *)
(* In a subprocess this writes the child's copy of the future, so the      *)
(* parent's completion time is unchanged.                                  *)
WorkerStamp(f) ==
    /\ worker[f].phase = "stamp"
    /\ worker' = [worker EXCEPT ![f].phase = "return"]
    /\ completion_time' =
          IF UseSubprocess \/ completion_time[f] # None THEN completion_time
          ELSE [completion_time EXCEPT ![f] = now]
    /\ UNCHANGED <<save_path, disk, exit_time>>

(* Mutant: the worker does not record that the callable ran. *)
WorkerReturn_NoRan(f) ==
    /\ worker[f].phase = "return"
    /\ Exit(f, worker[f].canceled, FALSE, FALSE)
    /\ UNCHANGED <<save_path, disk, completion_time>>

(* run() returns the model; the worker records `ran` and exits. *)
WorkerReturn(f) ==
    /\ worker[f].phase = "return"
    /\ Exit(f, worker[f].canceled, FALSE, TRUE)
    /\ UNCHANGED <<save_path, disk, completion_time>>

(* A destroyed worker stops at its next checkpoint (thread) or is          *)
(* terminated (process): it exits without `threw` or `ran`.                *)
WorkerDestroyed(f) ==
    /\ worker[f].canceled
    /\ Alive(f)
    /\ Exit(f, TRUE, FALSE, FALSE)
    /\ UNCHANGED <<save_path, disk, completion_time>>

WorkerStep(f) ==
    \/ WorkerTrain(f)
    \/ WorkerSave(f)
    \/ WorkerRaise(f)
    \/ WorkerStamp(f)
    \/ WorkerReturn(f)
    \/ WorkerDestroyed(f)

(* cancel(): self._worker.destroy(); destroy() sets `canceled`. *)
Cancel(f) ==
    /\ Constructed(f)
    /\ worker' = [worker EXCEPT ![f].canceled = TRUE]
    /\ UNCHANGED <<save_path, disk, completion_time, exit_time>>

(* wait() as one step: join() returns once the worker has exited, then     *)
(* self._completion_time = self._completion_time or datetime.now(). The    *)
(* read and the store are one step here, so a completion time is set once; *)
(* the code does not guarantee that (FutureObservers splits them), and no   *)
(* property of LocalModelTrainer depends on it.                            *)
Wait(f) ==
    /\ worker[f].phase = "exited"
    /\ completion_time' =
          IF completion_time[f] # None THEN completion_time
          ELSE [completion_time EXCEPT ![f] = now]
    /\ UNCHANGED <<worker, save_path, disk, exit_time>>

(* The clock advances, up to its bound. *)
Tick ==
    /\ now < MaxTime
    /\ now' = now + 1

=============================================================================
