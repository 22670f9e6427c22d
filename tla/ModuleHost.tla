----------------------------- MODULE ModuleHost -----------------------------
(***************************************************************************)
(* dll_entry.cpp: the gateway as a module of the TycheCore engine.  The    *)
(* engine is external: one of its threads calls tyche_module_init() and    *)
(* tyche_module_run() in any order and however often, another one calls    *)
(* tyche_module_stop() at any time, and the process ends, destroying the   *)
(* static objects, when no call is in progress.                            *)
(*                                                                         *)
(* g_queue and g_gateway are unique_ptrs.  The gateway holds a plain       *)
(* pointer to the queue, so that what matters is which queue objects are   *)
(* alive; each one has a number.  How start() and stop() proceed and fail  *)
(* is in GatewayLifecycle; here a gateway is "active" while it has threads *)
(* that write to its queue.                                                *)
(***************************************************************************)
EXTENDS ConfigLoader

CONSTANTS
  Documents,      \* what the file at the configured path may hold
  QueueNames,     \* shm_queue_name arguments
  None,           \* the null unique_ptr
  MaxInits        \* bound: calls of tyche_module_init()

(* The DLL's queue and its name override what the file says of them. *)
configuration(j, n) ==
  [from_file(j) EXCEPT !.use_shared_memory = TRUE, !.shm_queue_name = n]
Configurations ==
  {configuration(j, n) : j \in {d \in Documents : ~Refused(d)}, n \in QueueNames}

Gateway(q, started, stopping, active, c) ==
  [queue |-> q, started |-> started, stopping |-> stopping, active |-> active, cfg |-> c]

Numbers == 1..MaxInits
Gateways ==
  [queue : Numbers \cup {None}, started : BOOLEAN, stopping : BOOLEAN,
   active : BOOLEAN, cfg : Configurations]

(* Null is neither a queue nor a gateway, and where from_file wants a      *)
(* number a document has one or a value of the wrong type.                 *)
ASSUME HostAssumption ==
  /\ MaxInits \in Nat
  /\ None \notin Numbers /\ None \notin Gateways
  /\ \A j \in Documents : ~Mistyped(j) =>
       {static_data_timeout_secs(j), zmq_connect_retries(j)} \subseteq Int

VARIABLES
  host,           \* where the engine's thread is in init, run or exit
  name,           \* shm_queue_name, the argument
  cfg,            \* init's local configuration
  inits,          \* calls of init so far, and the number of the last queue
  g_queue,        \* number of the queue owned, or None
  g_gateway,      \* the gateway owned, or None
  g_running,
  init_code,      \* what the last init returned, -1 before and during one
  run_code        \* what the last run returned, -1 before and during one

vars == <<host, name, cfg, inits, g_queue, g_gateway, g_running, init_code, run_code>>

HostPc == {"idle", "load", "open", "make", "link", "start", "wait", "stop",
           "exit_gateway", "gone"}

Init ==
  /\ host = "idle" /\ name = None /\ cfg = None /\ inits = 0
  /\ g_queue = None /\ g_gateway = None /\ g_running = FALSE
  /\ init_code = -1 /\ run_code = -1

At(from, to) == host = from /\ host' = to

-----------------------------------------------------------------------------
(* tyche_module_init()                                                     *)

CallInit(n) ==
  /\ At("idle", "load") /\ inits < MaxInits
  /\ inits' = inits + 1 /\ name' = n /\ init_code' = -1
  /\ UNCHANGED <<cfg, g_queue, g_gateway, g_running, run_code>>

LoadConfig(j) ==
  /\ At("load", "open") /\ ~Refused(j)
  /\ cfg' = configuration(j, name)
  /\ UNCHANGED <<name, inits, g_queue, g_gateway, g_running, init_code, run_code>>

(* Mutant: the handlers forget the gateway. *)
InitThrowsKeepsGateway(code) ==
  /\ host' = "idle" /\ g_gateway' = g_gateway /\ g_queue' = None /\ init_code' = code
  /\ UNCHANGED <<name, cfg, inits, g_running, run_code>>

(* Either handler: gateway, then queue; 2 for a std::exception, 3 otherwise. *)
InitThrows(code) ==
  /\ host' = "idle" /\ g_gateway' = None /\ g_queue' = None /\ init_code' = code
  /\ UNCHANGED <<name, cfg, inits, g_running, run_code>>

(* The old queue goes when the new one has been made. *)
OpenQueue ==
  /\ At("open", "make")
  /\ g_queue' = inits
  /\ UNCHANGED <<name, cfg, inits, g_gateway, g_running, init_code, run_code>>

(* Not valid: the new queue is given up, and the old gateway stays. *)
QueueInvalid ==
  /\ At("open", "idle")
  /\ g_queue' = None /\ init_code' = 1
  /\ UNCHANGED <<name, cfg, inits, g_gateway, g_running, run_code>>

(* Mutant: a gateway that exists already is used again. *)
MakeGatewayOnce ==
  /\ At("make", "idle") /\ init_code' = 0
  /\ g_gateway' = IF g_gateway = None THEN Gateway(g_queue, FALSE, FALSE, FALSE, cfg)
                                      ELSE g_gateway
  /\ UNCHANGED <<name, cfg, inits, g_queue, g_running, run_code>>

(* The old gateway, destroyed here, stops itself if nobody has. *)
MakeGateway ==
  /\ At("make", "link")
  /\ g_gateway' = Gateway(None, FALSE, FALSE, FALSE, cfg)
  /\ UNCHANGED <<name, cfg, inits, g_queue, g_running, init_code, run_code>>

SetShmQueue ==
  /\ At("link", "idle")
  /\ g_gateway' = [g_gateway EXCEPT !.queue = g_queue]
  /\ init_code' = 0
  /\ UNCHANGED <<name, cfg, inits, g_queue, g_running, run_code>>

(* No file, no JSON or a document that is refused; or a constructor throws. *)
InitFails ==
  /\ host \in {"load", "open", "make"}
  /\ \E code \in {2, 3} : InitThrows(code)

-----------------------------------------------------------------------------
(* tyche_module_run(), tyche_module_stop() and the end of the process      *)

RunWithoutGateway ==
  /\ At("idle", "idle") /\ g_gateway = None /\ run_code' = 2
  /\ UNCHANGED <<name, cfg, inits, g_queue, g_gateway, g_running, init_code>>

CallRun ==
  /\ At("idle", "start") /\ g_gateway # None
  /\ g_running' = TRUE /\ run_code' = -1
  /\ UNCHANGED <<name, cfg, inits, g_queue, g_gateway, init_code>>

(* start() does its work once in the life of a gateway. *)
Start ==
  /\ At("start", "wait")
  /\ g_gateway' = IF g_gateway.started THEN g_gateway
                  ELSE [g_gateway EXCEPT !.started = TRUE, !.active = TRUE]
  /\ UNCHANGED <<name, cfg, inits, g_queue, g_running, init_code, run_code>>

Stopped(gateway) == [gateway EXCEPT !.stopping = TRUE, !.active = FALSE]

(* start() throws: no MdApi.  The handler stops what there is. *)
StartThrows ==
  /\ At("start", "idle") /\ ~g_gateway.started
  /\ g_running' = FALSE /\ run_code' = 1
  /\ g_gateway' = Stopped([g_gateway EXCEPT !.started = TRUE])
  /\ UNCHANGED <<name, cfg, inits, g_queue, init_code>>

(* Mutant: the loop goes on until its gateway has stopped by itself. *)
WaitForGateway ==
  /\ At("wait", "stop") /\ ~g_running /\ ~g_gateway.active
  /\ UNCHANGED <<name, cfg, inits, g_queue, g_gateway, g_running, init_code, run_code>>

WaitEnds ==
  /\ At("wait", "stop") /\ ~g_running
  /\ UNCHANGED <<name, cfg, inits, g_queue, g_gateway, g_running, init_code, run_code>>

StopGateway ==
  /\ At("stop", "idle")
  /\ g_gateway' = Stopped(g_gateway) /\ run_code' = 0
  /\ UNCHANGED <<name, cfg, inits, g_queue, g_running, init_code>>

(* tyche_module_stop(), from another thread. *)
ModuleStop ==
  /\ host # "gone" /\ g_running /\ g_running' = FALSE
  /\ UNCHANGED <<host, name, cfg, inits, g_queue, g_gateway, init_code, run_code>>

(* Static objects go in reverse order of their definition: g_queue first. *)
ExitQueue ==
  /\ At("idle", "exit_gateway") /\ g_queue' = None
  /\ UNCHANGED <<name, cfg, inits, g_gateway, g_running, init_code, run_code>>
ExitGateway ==
  /\ At("exit_gateway", "gone") /\ g_gateway' = None
  /\ UNCHANGED <<name, cfg, inits, g_queue, g_running, init_code, run_code>>

-----------------------------------------------------------------------------
InitStep ==
  \/ \E j \in Documents : LoadConfig(j)
  \/ OpenQueue \/ QueueInvalid \/ MakeGateway \/ InitFails \/ SetShmQueue
RunStep == Start \/ StartThrows \/ WaitEnds \/ StopGateway

Terminated == host = "gone" /\ UNCHANGED vars

Next ==
  \/ \E n \in QueueNames : CallInit(n)
  \/ InitStep \/ RunWithoutGateway \/ CallRun \/ RunStep \/ ModuleStop
  \/ ExitQueue \/ ExitGateway \/ Terminated

Spec == Init /\ [][Next]_vars

(* A call in progress goes on: start() and stop() return, GatewayLifecycle. *)
FairSpec == Spec /\ WF_vars(InitStep \/ RunStep)

-----------------------------------------------------------------------------
(* What a code tells the engine is so: 0, a gateway and its queue are      *)
(* there and linked; 2 or 3, nothing is left; 1, no queue is.  A run that  *)
(* has returned leaves no thread behind.                                   *)
CodesTruthful ==
  /\ init_code = 0 /\ host \notin {"exit_gateway", "gone"} =>
       g_gateway # None /\ g_queue # None /\ g_gateway.queue = g_queue
  /\ init_code = 1 => g_queue = None
  /\ init_code \in {2, 3} => g_gateway = None /\ g_queue = None
  /\ g_gateway # None /\ g_gateway.active => host \in {"wait", "stop"} /\ ~g_gateway.stopping

(* The other modules assume of the configuration what from_file checks,    *)
(* and the queue is the one the engine named, whatever the file says.      *)
GatewayUsable ==
  g_gateway # None =>
    /\ g_gateway.cfg.engine_port \in Ports
    /\ g_gateway.cfg.static_data_timeout_secs > 0 /\ g_gateway.cfg.zmq_connect_retries >= 1
    /\ g_gateway.cfg.use_shared_memory /\ g_gateway.cfg.shm_queue_name \in QueueNames

TypeOK ==
  /\ host \in HostPc /\ inits \in 0..MaxInits /\ name \in QueueNames \cup {None}
  /\ cfg \in Configurations \cup {None}
  /\ g_queue \in Numbers \cup {None} /\ g_running \in BOOLEAN
  /\ init_code \in {-1, 0, 1, 2, 3} /\ run_code \in {-1, 0, 1, 2}
  /\ g_gateway \in Gateways \cup {None}

(* What a call in progress has made so far, and what it relies on: only a  *)
(* gateway that has been started has been stopped.                         *)
CallsConsistent ==
  /\ host \in {"load", "open", "make", "link"} =>
       init_code = -1 /\ inits > 0 /\ name \in QueueNames
  /\ host \in {"open", "make"} => cfg \in Configurations
  /\ host \in {"make", "link"} => g_queue # None
  /\ host \in {"link", "start", "wait", "stop"} => g_gateway # None
  /\ host \in {"wait", "stop"} => g_gateway.started
  /\ g_gateway # None /\ g_gateway.stopping => g_gateway.started

(* The inductive invariant the proofs rest on. *)
HostInv == TypeOK /\ CallsConsistent /\ CodesTruthful /\ GatewayUsable

(* A gateway with threads that write has a queue object to write to, the   *)
(* one g_queue owns, provided the engine runs what init has accepted: a    *)
(* second init never leaves the first one's gateway on the destroyed queue. *)
WriterHasQueue ==
  g_gateway # None /\ g_gateway.active /\ init_code = 0 =>
    g_queue # None /\ g_gateway.queue = g_queue

(* Once run has raised g_running, a stop ends it, whatever start() does.   *)
StopEndsRun == host \in {"start", "wait"} /\ ~g_running ~> host = "idle"
=============================================================================
