----------------------------- MODULE RuntimeMain -----------------------------
(***************************************************************************)
(* The runtime entry point, main() in src/caikit/runtime/__main__.py, and  *)
(* its SIGINT/SIGTERM handler interrupt().                                 *)
(*                                                                         *)
(* main installs the handler for SIGINT and then for SIGTERM, builds and   *)
(* starts the gRPC server if it is enabled (blocking only when HTTP is     *)
(* disabled), then builds and starts the HTTP server if it is enabled,     *)
(* always blocking. interrupt() stops whichever of the two servers main    *)
(* has assigned so far; it closes over main's locals, so it sees each      *)
(* assignment as soon as it is made. CPython runs a handler in the main    *)
(* thread between two of main's steps or while main is blocked in a        *)
(* start(); each step of main below is one such atomic stretch. A signal   *)
(* without a handler ends the process (KeyboardInterrupt for SIGINT,       *)
(* termination for SIGTERM).                                               *)
(*                                                                         *)
(* The servers (RuntimeGRPCServer, RuntimeHTTPServer) are not under src/:  *)
(* only their start()/stop() effects are modelled. start() on a server     *)
(* that stop() reached first may serve or return at once.                  *)
(***************************************************************************)
EXTENDS Naturals

CONSTANTS
    MaxSignals   \* signals the environment sends (one Ctrl-C, or one SIGTERM before SIGKILL)

VARIABLES
    pc,           \* where main is
    enabled,      \* enabled[s]: get_config().runtime.<s>.enabled
    server,       \* server[s]: "absent" until main assigns it, then its state
    handlers,     \* signals whose handler is installed
    sent,         \* signals delivered so far
    interrupted   \* history: interrupt() has run

vars == <<pc, enabled, server, handlers, sent, interrupted>>

Servers == {"grpc", "http"}
Signals == {"SIGINT", "SIGTERM"}
ServerState == {"absent", "created", "serving", "stopped"}
Pcs == {"install_int", "install_term", "grpc_check", "grpc_start", "grpc_blocked",
        "http_check", "http_start", "http_blocked", "returned", "killed"}

TypeOK ==
    /\ pc \in Pcs
    /\ enabled \in [Servers -> BOOLEAN]
    /\ server \in [Servers -> ServerState]
    /\ handlers \subseteq Signals
    /\ sent \in 0..MaxSignals
    /\ interrupted \in BOOLEAN

(* Any configuration may be given. *)
Init ==
    /\ pc = "install_int"
    /\ enabled \in [Servers -> BOOLEAN]
    /\ server = [s \in Servers |-> "absent"]
    /\ handlers = {}
    /\ sent = 0
    /\ interrupted = FALSE

(* signal.signal(signal.SIGINT, interrupt), then the same for SIGTERM. *)
InstallHandler ==
    \/ pc = "install_int" /\ handlers' = {"SIGINT"} /\ pc' = "install_term"
    \/ pc = "install_term" /\ handlers' = Signals /\ pc' = "grpc_check"
InstallStep == InstallHandler /\ UNCHANGED <<enabled, server, sent, interrupted>>

(* `if enabled:` then `_server = RuntimeXServer()`; otherwise go on to next. *)
Create(s, check, start, next) ==
    /\ pc = check
    /\ IF enabled[s]
       THEN /\ server' = [server EXCEPT ![s] = "created"]
            /\ pc' = start
       ELSE /\ pc' = next
            /\ UNCHANGED server

(* start() on a server: it serves; if stop() came first it may return at once. *)
Started(s) ==
    IF server[s] = "stopped" THEN {"serving", "stopped"} ELSE {"serving"}

(* _grpc_server.start(blocking=not http enabled). *)
GrpcStart ==
    /\ pc = "grpc_start"
    /\ \E st \in Started("grpc") : server' = [server EXCEPT !["grpc"] = st]
    /\ pc' = IF enabled["http"] THEN "http_check" ELSE "grpc_blocked"

(* _http_server.start(blocking=True). *)
HttpStart ==
    /\ pc = "http_start"
    /\ \E st \in Started("http") : server' = [server EXCEPT !["http"] = st]
    /\ pc' = "http_blocked"

(* A blocking start() returns once its server has stopped. *)
Unblock(s, blocked, next) ==
    /\ pc = blocked
    /\ server[s] = "stopped"
    /\ pc' = next
    /\ UNCHANGED server

MainStep ==
    \/ InstallStep
    \/ /\ \/ Create("grpc", "grpc_check", "grpc_start", "http_check")
          \/ GrpcStart
          \/ Unblock("grpc", "grpc_blocked", "http_check")
          \/ Create("http", "http_check", "http_start", "returned")
          \/ HttpStart
          \/ Unblock("http", "http_blocked", "returned")
       /\ UNCHANGED <<enabled, handlers, sent, interrupted>>

(***************************************************************************)
(* A signal arrives while main runs. With a handler, interrupt() stops     *)
(* every server main has assigned; without one, the process ends.          *)
(***************************************************************************)
Interrupt(sig) ==
    /\ pc \notin {"returned", "killed"}
    /\ sent < MaxSignals
    /\ sent' = sent + 1
    /\ IF sig \in handlers
       THEN /\ server' = [s \in Servers |-> IF server[s] = "absent" THEN "absent" ELSE "stopped"]
            /\ interrupted' = TRUE
            /\ UNCHANGED pc
       ELSE /\ pc' = "killed"
            /\ server' = [s \in Servers |-> IF server[s] = "absent" THEN "absent" ELSE "stopped"]
            /\ UNCHANGED interrupted
    /\ UNCHANGED <<enabled, handlers>>

Next == MainStep \/ \E sig \in Signals : Interrupt(sig)

(* The main thread runs whenever it is not blocked; signals are the        *)
(* environment's choice.                                                   *)
Spec == Init /\ [][Next]_vars /\ WF_vars(MainStep)

-----------------------------------------------------------------------------
(***************************************************************************)
(* Properties                                                              *)
(***************************************************************************)

(* Once the handler has run on a SIGINT or SIGTERM, the runtime shuts      *)
(* down: eventually no server is left serving.                             *)
ShutdownOnInterrupt ==
    interrupted ~> \A s \in Servers : server[s] # "serving"

====
