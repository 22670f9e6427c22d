-------------------------- MODULE ModuleHostProofs --------------------------
(***************************************************************************)
(* The DLL's exported functions, called in any order and however often, on *)
(* any configuration file.  HostInv is inductive: each place in a call     *)
(* says what the call has made, and the codes say what it has left.        *)
(***************************************************************************)
EXTENDS ModuleHost, TLAPS

(* What from_file lets through is what the rest of the gateway relies on.  *)
LEMMA AcceptedConfiguration ==
  ASSUME NEW c \in Configurations
  PROVE  /\ c.engine_port \in Ports
         /\ c.static_data_timeout_secs > 0 /\ c.zmq_connect_retries >= 1
         /\ c.use_shared_memory /\ c.shm_queue_name \in QueueNames
<1>1. PICK j \in Documents, n \in QueueNames : ~Refused(j) /\ c = configuration(j, n)
  BY DEF Configurations
<1>2. /\ c.engine_port = engine_port(j)
      /\ c.static_data_timeout_secs = static_data_timeout_secs(j)
      /\ c.zmq_connect_retries = zmq_connect_retries(j)
      /\ c.use_shared_memory = TRUE /\ c.shm_queue_name = n
  BY <1>1 DEF configuration, from_file
<1>3. static_data_timeout_secs(j) \in Int /\ zmq_connect_retries(j) \in Int
  BY <1>1, HostAssumption DEF Refused
<1>4. /\ engine_port(j) \in Ports
      /\ ~(static_data_timeout_secs(j) <= 0) /\ ~(zmq_connect_retries(j) < 1)
  BY <1>1 DEF Refused
<1>5. QED BY <1>1, <1>2, <1>3, <1>4

(* What init, start() and stop() make of a gateway: it stays one, on its   *)
(* queue, and only start() and stop() change how far it has come.          *)
LEMMA NewGateway ==
  ASSUME NEW c \in Configurations
  PROVE  LET g == Gateway(None, FALSE, FALSE, FALSE, c)
         IN  g \in Gateways \ {None} /\ ~g.stopping /\ ~g.active
<1>1. Gateway(None, FALSE, FALSE, FALSE, c) \in Gateways
  BY DEF Gateways, Gateway
<1>2. QED BY <1>1, HostAssumption DEF Gateway

LEMMA LinkedGateway ==
  ASSUME NEW g \in Gateways, NEW q \in Numbers \cup {None}
  PROVE  LET h == [g EXCEPT !.queue = q]
         IN  /\ h \in Gateways \ {None} /\ h.queue = q
             /\ h.active = g.active /\ h.stopping = g.stopping /\ h.started = g.started
<1>1. [g EXCEPT !.queue = q] \in Gateways
  BY DEF Gateways
<1>2. QED BY <1>1, HostAssumption DEF Gateways

LEMMA StartedGateway ==
  ASSUME NEW g \in Gateways
  PROVE  LET h == [g EXCEPT !.started = TRUE, !.active = TRUE]
         IN  /\ h \in Gateways \ {None} /\ h.queue = g.queue
             /\ h.stopping = g.stopping /\ h.started
<1>1. [g EXCEPT !.started = TRUE, !.active = TRUE] \in Gateways
  BY DEF Gateways
<1>2. QED BY <1>1, HostAssumption DEF Gateways

LEMMA StoppedGateway ==
  ASSUME NEW g \in Gateways
  PROVE  /\ Stopped(g) \in Gateways \ {None} /\ Stopped(g).queue = g.queue
         /\ ~Stopped(g).active /\ Stopped(g).started = g.started
<1>1. Stopped(g) \in Gateways
  BY DEF Gateways, Stopped
<1>2. QED BY <1>1, HostAssumption DEF Gateways, Stopped

LEMMA FailedGateway ==
  ASSUME NEW g \in Gateways
  PROVE  /\ [g EXCEPT !.started = TRUE] \in Gateways
         /\ [g EXCEPT !.started = TRUE].queue = g.queue
         /\ [g EXCEPT !.started = TRUE].started
BY DEF Gateways

LEMMA InitHost == Init => HostInv
<1> SUFFICES ASSUME Init PROVE HostInv
  OBVIOUS
<1>1. 0 \in 0..MaxInits
  BY HostAssumption
<1>2. TypeOK
  BY <1>1 DEF Init, TypeOK, HostPc
<1>3. CallsConsistent /\ CodesTruthful /\ GatewayUsable
  BY DEF Init, CallsConsistent, CodesTruthful, GatewayUsable
<1>4. QED BY <1>2, <1>3 DEF HostInv

(* Every gateway is usable because only accepted configurations make one.  *)
LEMMA UsableByType == TypeOK => GatewayUsable
BY AcceptedConfiguration DEF TypeOK, Gateways, GatewayUsable

(* tyche_module_init(), from the call to any of its returns. *)
LEMMA InitCallKeeps ==
  ASSUME HostInv, (\E n \in QueueNames : CallInit(n)) \/ InitStep
  PROVE  TypeOK' /\ CallsConsistent' /\ CodesTruthful'
<1>0. TypeOK /\ CallsConsistent /\ CodesTruthful
  BY DEF HostInv
<1>a. None \notin Numbers /\ MaxInits \in Nat
  BY HostAssumption
<1>1. CASE \E n \in QueueNames : CallInit(n)
  <2>1. PICK n \in QueueNames : CallInit(n)
    BY <1>1
  <2>2. TypeOK'
    BY <1>0, <1>a, <2>1 DEF CallInit, At, TypeOK, HostPc
  <2>3. CallsConsistent' /\ CodesTruthful'
    BY <1>0, <1>a, <2>1 DEF CallInit, At, TypeOK, CallsConsistent, CodesTruthful
  <2>4. QED BY <2>2, <2>3
<1>2. CASE \E j \in Documents : LoadConfig(j)
  <2>1. PICK j \in Documents : LoadConfig(j)
    BY <1>2
  <2>2. cfg' \in Configurations
    BY <1>0, <2>1 DEF LoadConfig, At, CallsConsistent, Configurations
  <2>3. TypeOK'
    BY <1>0, <2>1, <2>2 DEF LoadConfig, At, TypeOK, HostPc
  <2>4. CallsConsistent' /\ CodesTruthful'
    BY <1>0, <2>1, <2>2 DEF LoadConfig, At, CallsConsistent, CodesTruthful
  <2>5. QED BY <2>3, <2>4
<1>3. CASE OpenQueue \/ QueueInvalid
  <2>1. inits \in Numbers
    BY <1>0, <1>3, <1>a
       DEF OpenQueue, QueueInvalid, At, TypeOK, CallsConsistent, Numbers
  <2>2. TypeOK'
    BY <1>0, <1>3, <2>1 DEF OpenQueue, QueueInvalid, At, TypeOK, HostPc
  <2>3. CallsConsistent' /\ CodesTruthful'
    BY <1>0, <1>3, <1>a, <2>1 DEF OpenQueue, QueueInvalid, At, CallsConsistent, CodesTruthful
  <2>4. QED BY <2>2, <2>3
<1>4. CASE MakeGateway
  <2>1. cfg \in Configurations
    BY <1>0, <1>4 DEF MakeGateway, At, CallsConsistent
  <2>2. g_gateway' \in Gateways \ {None} /\ ~g_gateway'.stopping /\ ~g_gateway'.active
    BY <1>4, <2>1, NewGateway DEF MakeGateway
  <2>3. TypeOK'
    BY <1>0, <1>4, <2>2 DEF MakeGateway, At, TypeOK, HostPc
  <2>4. /\ host = "make" /\ host' = "link" /\ init_code = -1 /\ g_queue # None
        /\ UNCHANGED <<name, inits, g_queue, init_code>>
    BY <1>0, <1>4 DEF MakeGateway, At, CallsConsistent
  <2>5. CallsConsistent'
    BY <1>0, <2>2, <2>4 DEF CallsConsistent
  <2>6. CodesTruthful'
    BY <2>2, <2>4 DEF CodesTruthful
  <2>7. QED BY <2>3, <2>5, <2>6
<1>5. CASE SetShmQueue
  <2>1. g_gateway \in Gateways /\ g_queue \in Numbers \cup {None} /\ g_queue # None
    BY <1>0, <1>5 DEF SetShmQueue, At, TypeOK, CallsConsistent
  <2>2. g_gateway' = [g_gateway EXCEPT !.queue = g_queue]
    BY <1>5 DEF SetShmQueue
  <2>3. /\ g_gateway' \in Gateways \ {None} /\ g_gateway'.queue = g_queue
        /\ g_gateway'.active = g_gateway.active /\ g_gateway'.stopping = g_gateway.stopping
        /\ g_gateway'.started = g_gateway.started
    BY <2>1, <2>2, LinkedGateway
  <2>4. TypeOK'
    BY <1>0, <1>5, <2>3 DEF SetShmQueue, At, TypeOK, HostPc
  <2>5. CallsConsistent' /\ CodesTruthful'
    BY <1>0, <1>5, <2>1, <2>3 DEF SetShmQueue, At, CallsConsistent, CodesTruthful
  <2>6. QED BY <2>4, <2>5
<1>6. CASE InitFails
  <2>1. PICK code \in {2, 3} : InitThrows(code)
    BY <1>6 DEF InitFails
  <2>2. TypeOK'
    BY <1>0, <2>1 DEF InitThrows, TypeOK, HostPc
  <2>3. CallsConsistent' /\ CodesTruthful'
    BY <1>0, <2>1 DEF InitThrows, CallsConsistent, CodesTruthful
  <2>4. QED BY <2>2, <2>3
<1>7. QED BY <1>1, <1>2, <1>3, <1>4, <1>5, <1>6 DEF InitStep

(* tyche_module_run(), from the call to any of its returns. *)
LEMMA RunCallKeeps ==
  ASSUME HostInv, RunWithoutGateway \/ CallRun \/ RunStep
  PROVE  TypeOK' /\ CallsConsistent' /\ CodesTruthful'
<1>0. TypeOK /\ CallsConsistent /\ CodesTruthful
  BY DEF HostInv
<1>1. CASE RunWithoutGateway \/ CallRun \/ WaitEnds
  <2>1. TypeOK'
    BY <1>0, <1>1 DEF RunWithoutGateway, CallRun, WaitEnds, At, TypeOK, HostPc
  <2>2. CallsConsistent' /\ CodesTruthful'
    BY <1>0, <1>1
       DEF RunWithoutGateway, CallRun, WaitEnds, At, CallsConsistent, CodesTruthful
  <2>3. QED BY <2>1, <2>2
<1>2. CASE Start
  <2>1. g_gateway \in Gateways \ {None} /\ host = "start" /\ host' = "wait"
    BY <1>0, <1>2 DEF Start, At, TypeOK, CallsConsistent
  <2>2. ~g_gateway.active
    BY <1>0, <2>1 DEF CodesTruthful
  <2>3. CASE g_gateway.started
    <3>1. g_gateway' = g_gateway
      BY <1>2, <2>3 DEF Start
    <3>2. TypeOK'
      BY <1>0, <1>2, <3>1 DEF Start, At, TypeOK, HostPc
    <3>3. CallsConsistent' /\ CodesTruthful'
      BY <1>0, <1>2, <2>1, <2>2, <3>1 DEF Start, At, CallsConsistent, CodesTruthful
    <3>4. QED BY <3>2, <3>3
  <2>4. CASE ~g_gateway.started
    <3>1. g_gateway' = [g_gateway EXCEPT !.started = TRUE, !.active = TRUE]
      BY <1>2, <2>4 DEF Start
    <3>2. ~g_gateway.stopping
      BY <1>0, <2>1, <2>4 DEF CallsConsistent
    <3>3. /\ g_gateway' \in Gateways \ {None} /\ g_gateway'.queue = g_gateway.queue
          /\ ~g_gateway'.stopping /\ g_gateway'.started
      BY <2>1, <3>1, <3>2, StartedGateway
    <3>4. TypeOK'
      BY <1>0, <1>2, <3>3 DEF Start, At, TypeOK, HostPc
    <3>5. CallsConsistent' /\ CodesTruthful'
      BY <1>0, <1>2, <2>1, <3>3 DEF Start, At, CallsConsistent, CodesTruthful
    <3>6. QED BY <3>4, <3>5
  <2>5. QED BY <2>3, <2>4
<1>3. CASE StartThrows \/ StopGateway
  <2>1. g_gateway \in Gateways \ {None} /\ host \in {"start", "stop"} /\ host' = "idle"
    BY <1>0, <1>3 DEF StartThrows, StopGateway, At, TypeOK, CallsConsistent
  <2>2. PICK g \in Gateways : g_gateway' = Stopped(g) /\ g.queue = g_gateway.queue /\ g.started
    <3>1. CASE StartThrows
      <4>1. g_gateway' = Stopped([g_gateway EXCEPT !.started = TRUE])
        BY <3>1 DEF StartThrows
      <4>2. QED BY <2>1, <4>1, FailedGateway
    <3>2. CASE StopGateway
      <4>1. g_gateway' = Stopped(g_gateway) /\ g_gateway.started
        BY <1>0, <3>2 DEF StopGateway, At, CallsConsistent
      <4>2. QED BY <2>1, <4>1
    <3>3. QED BY <1>3, <3>1, <3>2
  <2>3. /\ g_gateway' \in Gateways \ {None} /\ g_gateway'.queue = g_gateway.queue
        /\ ~g_gateway'.active /\ g_gateway'.started
    BY <2>2, StoppedGateway
  <2>5. TypeOK'
    BY <1>0, <1>3, <2>3 DEF StartThrows, StopGateway, At, TypeOK, HostPc
  <2>6. CallsConsistent' /\ CodesTruthful'
    BY <1>0, <1>3, <2>1, <2>3
       DEF StartThrows, StopGateway, At, CallsConsistent, CodesTruthful
  <2>7. QED BY <2>5, <2>6
<1>4. QED BY <1>1, <1>2, <1>3 DEF RunStep

(* The stop request and the end of the process. *)
LEMMA EndKeeps ==
  ASSUME HostInv, ModuleStop \/ ExitQueue \/ ExitGateway \/ UNCHANGED vars
  PROVE  TypeOK' /\ CallsConsistent' /\ CodesTruthful'
<1>0. TypeOK /\ CallsConsistent /\ CodesTruthful
  BY DEF HostInv
<1>1. CASE ModuleStop \/ UNCHANGED vars
  <2>1. /\ UNCHANGED <<host, name, cfg, inits, g_queue, g_gateway, init_code, run_code>>
        /\ g_running' \in BOOLEAN
    BY <1>0, <1>1 DEF ModuleStop, vars, TypeOK
  <2>2. QED BY <1>0, <2>1 DEF TypeOK, CallsConsistent, CodesTruthful
<1>2. CASE ExitQueue \/ ExitGateway
  <2>1. TypeOK'
    BY <1>0, <1>2 DEF ExitQueue, ExitGateway, At, TypeOK, HostPc
  <2>2. CallsConsistent' /\ CodesTruthful'
    BY <1>0, <1>2 DEF ExitQueue, ExitGateway, At, CallsConsistent, CodesTruthful
  <2>3. QED BY <2>1, <2>2
<1>3. QED BY <1>1, <1>2

(* Return codes tell the truth, a run that has returned leaves no thread   *)
(* behind and only a checked configuration is ever run, for any documents, *)
(* any queue names and any number of calls.                                *)
THEOREM HostInvariant == Spec => []HostInv
<1>1. HostInv /\ [Next]_vars => TypeOK' /\ CallsConsistent' /\ CodesTruthful'
  BY InitCallKeeps, RunCallKeeps, EndKeeps DEF Next, Terminated
<1>2. TypeOK' => GatewayUsable'
  BY UsableByType, PTL
<1>3. HostInv /\ [Next]_vars => HostInv'
  BY <1>1, <1>2 DEF HostInv
<1>4. QED BY InitHost, <1>3, PTL DEF Spec

(* A gateway with threads that write has the queue object that g_queue     *)
(* owns, however often the engine calls init.                              *)
THEOREM WritersHaveQueues == Spec => []WriterHasQueue
<1>1. HostInv => WriterHasQueue
  BY DEF HostInv, CodesTruthful, WriterHasQueue
<1>2. QED BY <1>1, HostInvariant, PTL
=============================================================================
