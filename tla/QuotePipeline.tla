--------------------------- MODULE QuotePipeline ---------------------------
(***************************************************************************)
(* The gateway's hot path, from the CTP market-data callback to the event  *)
(* bus, and the part of start() and stop() that brings it up and down:     *)
(* CtpGateway::on_quote_received, option_dispatch_loop, send_shm_event,    *)
(* send_shm_quote_tick, the tails of init_ctp and start, and stop.         *)
(*                                                                         *)
(* Three threads: "md" is the CTP thread that calls back, "disp" is        *)
(* option_dispatch_thread_, and the owner of the gateway, who calls        *)
(* start() and stop().  Each step is one visible access: an operation of   *)
(* the ring buffer, a send, a lock, an atomic counter.  A tick is its      *)
(* number in the order of the callbacks; what matters of its payload is    *)
(* only whether its instrument is in option_instrument_set_.               *)
(*                                                                         *)
(* The RingBuffer, the ZMQ transport and the SharedMemoryQueue belong to   *)
(* TycheCore, which the repository does not contain; they are modelled     *)
(* from how this code uses them (a bounded FIFO whose operations are       *)
(* atomic, a send that publishes or throws, a queue of slots that must     *)
(* not be written by two threads at once).                                 *)
(***************************************************************************)
EXTENDS Integers, Sequences

CONSTANTS
  Instruments,      \* instrument ids CTP may push, subscribed or not
  OptionSet,        \* option_instrument_set_, as resolve_instruments left it
  EmptyId,          \* the id of a payload without a usable "instrument_id"
  SendMayThrow,     \* whether send_event may throw
  Capacity,         \* shm_tuning.ring_buffer_capacity
  BatchSize,        \* min(shm_tuning.dispatch_batch_size, 256)
  SlotCount,        \* slots of the SharedMemoryQueue
  MaxTicks          \* bound: callbacks in one behaviour

ASSUME PipelineAssumption ==
  /\ OptionSet \subseteq Instruments
  /\ EmptyId \in Instruments
  /\ SendMayThrow \in BOOLEAN
  /\ Capacity \in Nat \ {0}
  /\ BatchSize \in 0..256
  /\ SlotCount \in Nat
  /\ MaxTicks \in Nat

VARIABLES
  pc,               \* where each thread is
  main,             \* where the owner is in start() / stop()
  ctp_running,      \* ctp_running_
  shm_mode,         \* is_shm_mode(): set before start(), then for good
  ring,             \* option_ring_buffer_, oldest first
  batch,            \* the dispatch thread's local ticks not yet done with
  draining,         \* the dispatch thread has left its main loop
  bus,              \* per topic, the ticks published so far
  shm_lock,         \* the holder of shm_write_lock_, or "none"
  shm_used,         \* occupied slots of the shared-memory queue
  stats,            \* the gateway's atomic counters
  offered,          \* ghost: number of callbacks, and the tick in the latest
  evicted,          \* ghost: ticks really overwritten in the ring
  swallowed         \* ghost: sends whose exception the drain ignored

ringVars  == <<ring, batch, draining>>
sendVars  == <<bus, shm_lock, shm_used>>
ownerVars == <<main, ctp_running, shm_mode>>
ghostVars == <<offered, evicted, swallowed>>
vars == <<pc, ownerVars, ringVars, sendVars, stats, ghostVars>>

Threads == {"md", "disp"}
Topics  == {"quote", "send_compute_greeks"}

Counters == {"ticks_received", "ticks_sent", "option_dropped_count",
             "option_err_count", "shm_write_fail_count"}

MdPc   == {"idle", "push", "overwrite", "dropped", "send", "locked", "sent",
           "received", "thrown"}
DispPc == {"off", "head", "pop", "send", "locked", "sent", "drain", "exit"}
MainPc == {"connect", "spawn", "up", "join", "release", "close", "stopped"}

TypeOK ==
  /\ pc \in [Threads -> MdPc \cup DispPc] /\ pc["md"] \in MdPc /\ pc["disp"] \in DispPc
  /\ main \in MainPc
  /\ ctp_running \in BOOLEAN /\ shm_mode \in BOOLEAN /\ draining \in BOOLEAN
  /\ ring \in Seq(Nat) /\ Len(ring) <= Capacity
  /\ batch \in Seq(Nat)
  /\ bus \in [Topics -> Seq(Nat)]
  /\ shm_lock \in Threads \cup {"none"}
  /\ shm_used \in 0..SlotCount
  /\ stats \in [Counters -> Nat]
  /\ offered \in Nat /\ evicted \in Nat /\ swallowed \in Nat

(* start() has reached md_api_->Init(): callbacks may come from here on. *)
Init ==
  /\ pc = [t \in Threads |-> IF t = "md" THEN "idle" ELSE "off"]
  /\ main = "connect" /\ ctp_running = FALSE
  /\ shm_mode \in BOOLEAN
  /\ ring = <<>> /\ batch = <<>> /\ draining = FALSE
  /\ bus = [c \in Topics |-> <<>>]
  /\ shm_lock = "none" /\ shm_used = 0
  /\ stats = [c \in Counters |-> 0]
  /\ offered = 0 /\ evicted = 0 /\ swallowed = 0

Goto(t, label) == pc' = [pc EXCEPT ![t] = label]
(* Mutants: a failure that nobody counts; a failure counted as a sent tick. *)
CountNotFailures(c) ==
  stats' = IF c \in {"option_err_count", "shm_write_fail_count"}
             THEN stats ELSE [stats EXCEPT ![c] = @ + 1]
CountFailuresAsSent(c) ==
  stats' = [stats EXCEPT ![IF c \in {"option_err_count", "shm_write_fail_count"}
                             THEN "ticks_sent" ELSE c] = @ + 1]

Count(c) == stats' = [stats EXCEPT ![c] = @ + 1]

-----------------------------------------------------------------------------
(* on_quote_received: classification and the option path                   *)

IsOption(i) == i # EmptyId /\ i \in OptionSet

(* CTP stops calling back only once cleanup_ctp has released the API. *)
CallbacksPossible == main \notin {"close", "stopped"}

OnQuote(i) ==
  /\ pc["md"] = "idle" /\ CallbacksPossible
  /\ offered < MaxTicks
  /\ offered' = offered + 1
  /\ Goto("md", IF IsOption(i) THEN "push" ELSE "send")
  /\ UNCHANGED <<ownerVars, ringVars, sendVars, stats, evicted, swallowed>>

TryPush ==
  /\ pc["md"] = "push"
  /\ \/ /\ Len(ring) < Capacity
        /\ ring' = Append(ring, offered)
        /\ Goto("md", "received")
     \/ /\ Len(ring) = Capacity
        /\ ring' = ring
        /\ Goto("md", "overwrite")
  /\ UNCHANGED <<ownerVars, batch, draining, sendVars, stats, ghostVars>>

(* Mutant: push_overwrite appends without discarding the oldest tick. *)
PushOverwriteKeepsOldest ==
  /\ pc["md"] = "overwrite"
  /\ ring' = Append(ring, offered)
  /\ Goto("md", "dropped")
  /\ UNCHANGED <<ownerVars, batch, draining, sendVars, stats, ghostVars>>

(* Mutant: a full ring is overwritten without going on to the drop count. *)
PushOverwriteUncounted ==
  /\ pc["md"] = "overwrite"
  /\ ring' = Append(Tail(ring), offered)
  /\ evicted' = evicted + 1
  /\ Goto("md", "received")
  /\ UNCHANGED <<ownerVars, batch, draining, sendVars, stats, offered, swallowed>>

(* The ring may have been popped since try_push failed: then nothing is lost. *)
PushOverwrite ==
  /\ pc["md"] = "overwrite"
  /\ \/ /\ Len(ring) = Capacity
        /\ ring' = Append(Tail(ring), offered)
        /\ evicted' = evicted + 1
     \/ /\ Len(ring) < Capacity
        /\ ring' = Append(ring, offered)
        /\ evicted' = evicted
  /\ Goto("md", "dropped")
  /\ UNCHANGED <<ownerVars, batch, draining, sendVars, stats, offered, swallowed>>

CountDropped ==
  /\ pc["md"] = "dropped"
  /\ Count("option_dropped_count")
  /\ Goto("md", "received")
  /\ UNCHANGED <<ownerVars, ringVars, sendVars, ghostVars>>

CountReceived ==
  /\ pc["md"] = "received"
  /\ Count("ticks_received")
  /\ Goto("md", "idle")
  /\ UNCHANGED <<ownerVars, ringVars, sendVars, ghostVars>>

-----------------------------------------------------------------------------
(* option_dispatch_loop: the batch loop and the drain after it             *)

(* Mutant: the loop returns when ctp_running_ is cleared, with no drain. *)
DispatchHeadNoDrain ==
  /\ pc["disp"] = "head"
  /\ draining' = ~ctp_running
  /\ Goto("disp", IF ctp_running THEN "pop" ELSE "exit")
  /\ UNCHANGED <<ownerVars, ring, batch, sendVars, stats, ghostVars>>

DispatchHead ==
  /\ pc["disp"] = "head"
  /\ draining' = ~ctp_running
  /\ Goto("disp", IF ctp_running THEN "pop" ELSE "drain")
  /\ UNCHANGED <<ownerVars, ring, batch, sendVars, stats, ghostVars>>

(* Mutant: the newest tick is popped first. *)
PopOneNewest ==
  /\ pc["disp"] = "pop"
  /\ Len(batch) < BatchSize
  /\ ring # <<>>
  /\ batch' = Append(batch, ring[Len(ring)])
  /\ ring' = SubSeq(ring, 1, Len(ring) - 1)
  /\ UNCHANGED <<pc, ownerVars, draining, sendVars, stats, ghostVars>>

PopOne ==
  /\ pc["disp"] = "pop"
  /\ Len(batch) < BatchSize
  /\ ring # <<>>
  /\ batch' = Append(batch, Head(ring))
  /\ ring' = Tail(ring)
  /\ UNCHANGED <<pc, ownerVars, draining, sendVars, stats, ghostVars>>

(* Mutant: the loop waits for a full batch instead of sending what is there. *)
PopDoneOnlyFull ==
  /\ pc["disp"] = "pop"
  /\ Len(batch) >= BatchSize
  /\ Goto("disp", IF batch = <<>> THEN "head" ELSE "send")
  /\ UNCHANGED <<ownerVars, ringVars, sendVars, stats, ghostVars>>

PopDone ==
  /\ pc["disp"] = "pop"
  /\ Len(batch) >= BatchSize \/ ring = <<>>
  /\ Goto("disp", IF batch = <<>> THEN "head" ELSE "send")
  /\ UNCHANGED <<ownerVars, ringVars, sendVars, stats, ghostVars>>

DrainPop ==
  /\ pc["disp"] = "drain"
  /\ ring # <<>>
  /\ batch' = <<Head(ring)>>
  /\ ring' = Tail(ring)
  /\ Goto("disp", "send")
  /\ UNCHANGED <<ownerVars, draining, sendVars, stats, ghostVars>>

DrainEnd ==
  /\ pc["disp"] = "drain"
  /\ ring = <<>>
  /\ Goto("disp", "exit")
  /\ UNCHANGED <<ownerVars, ringVars, sendVars, stats, ghostVars>>

-----------------------------------------------------------------------------
(* Sending, by the callback thread (a future) or the dispatch thread       *)

Topic(t) == IF t = "md" THEN "quote" ELSE "send_compute_greeks"
Item(t)  == IF t = "md" THEN offered ELSE Head(batch)

(* Mutant: a send that went through is repeated. *)
PublishTwice(t) == bus' = [bus EXCEPT ![Topic(t)] = @ \o <<Item(t), Item(t)>>]

Publish(t) == bus' = [bus EXCEPT ![Topic(t)] = Append(@, Item(t))]

AfterItem == IF Len(batch) > 1 THEN "send" ELSE IF draining THEN "drain" ELSE "head"

(* The thread is done with its tick, whatever became of it. *)
Finish(t) ==
  \/ /\ t = "md"
     /\ batch' = batch
     /\ Goto("md", "received")
  \/ /\ t = "disp"
     /\ batch' = Tail(batch)
     /\ Goto("disp", AfterItem)

SendZmq(t) ==
  /\ ~shm_mode /\ pc[t] = "send"
  /\ Publish(t)
  /\ Goto(t, "sent")
  /\ UNCHANGED <<ownerVars, ringVars, shm_lock, shm_used, stats, ghostVars>>

CountSent(t) ==
  /\ pc[t] = "sent"
  /\ Count("ticks_sent")
  /\ Finish(t)
  /\ UNCHANGED <<ownerVars, ring, draining, sendVars, ghostVars>>

(* The loop counts the exception and goes on; the drain ignores it; from   *)
(* the callback it leaves on_quote_received into CTP and ends the process. *)
SendThrows(t) ==
  /\ ~shm_mode /\ SendMayThrow /\ pc[t] = "send"
  /\ \/ /\ t = "md"
        /\ Goto("md", "thrown")
        /\ UNCHANGED <<batch, stats, swallowed>>
     \/ /\ t = "disp" /\ ~draining
        /\ Finish(t)
        /\ Count("option_err_count")
        /\ UNCHANGED swallowed
     \/ /\ t = "disp" /\ draining
        /\ Finish(t)
        /\ swallowed' = swallowed + 1
        /\ UNCHANGED stats
  /\ UNCHANGED <<ownerVars, ring, draining, sendVars, offered, evicted>>

(* Mutant: the write starts without waiting for shm_write_lock_. *)
LockShmNoWait(t) ==
  /\ shm_mode /\ pc[t] = "send"
  /\ shm_lock' = t
  /\ Goto(t, "locked")
  /\ UNCHANGED <<ownerVars, ringVars, bus, shm_used, stats, ghostVars>>

LockShm(t) ==
  /\ shm_mode /\ pc[t] = "send"
  /\ shm_lock = "none"
  /\ shm_lock' = t
  /\ Goto(t, "locked")
  /\ UNCHANGED <<ownerVars, ringVars, bus, shm_used, stats, ghostVars>>

(* The write and its counter, under the lock.  A full queue refuses; any   *)
(* queue refuses a message longer than its max_msg_size.                   *)
WriteShm(t) ==
  /\ pc[t] = "locked"
  /\ \/ /\ shm_used < SlotCount
        /\ shm_used' = shm_used + 1
        /\ Publish(t)
        /\ Count("ticks_sent")
     \/ /\ Count("shm_write_fail_count")
        /\ UNCHANGED <<bus, shm_used>>
  /\ shm_lock' = "none"
  /\ Finish(t)
  /\ UNCHANGED <<ownerVars, ring, draining, ghostVars>>

(* The engine, at the other end of the shared-memory queue. *)
EngineRead ==
  /\ shm_used > 0
  /\ shm_used' = shm_used - 1
  /\ UNCHANGED <<pc, ownerVars, ringVars, bus, shm_lock, stats, ghostVars>>

-----------------------------------------------------------------------------
(* The owner: the ends of init_ctp() and start(), then stop()              *)

SetRunning ==
  /\ main = "connect" /\ main' = "spawn"
  /\ ctp_running' = TRUE
  /\ UNCHANGED <<pc, shm_mode, ringVars, sendVars, stats, ghostVars>>

SpawnDispatch ==
  /\ main = "spawn" /\ main' = "up"
  /\ Goto("disp", "head")
  /\ UNCHANGED <<ctp_running, shm_mode, ringVars, sendVars, stats, ghostVars>>

Stop ==
  /\ main = "up" /\ main' = "join"
  /\ ctp_running' = FALSE
  /\ UNCHANGED <<pc, shm_mode, ringVars, sendVars, stats, ghostVars>>

(* Mutant: stop() does not wait for the dispatch thread. *)
JoinDispatchNoWait ==
  /\ main = "join" /\ main' = "release"
  /\ UNCHANGED <<pc, ctp_running, shm_mode, ringVars, sendVars, stats, ghostVars>>

JoinDispatch ==
  /\ main = "join" /\ main' = "release"
  /\ pc["disp"] = "exit"
  /\ UNCHANGED <<pc, ctp_running, shm_mode, ringVars, sendVars, stats, ghostVars>>

ReleaseCtp ==
  /\ main = "release" /\ main' = "close"
  /\ ctp_running' = FALSE
  /\ UNCHANGED <<pc, shm_mode, ringVars, sendVars, stats, ghostVars>>

CloseBase ==
  /\ main = "close" /\ main' = "stopped"
  /\ UNCHANGED <<pc, ctp_running, shm_mode, ringVars, sendVars, stats, ghostVars>>

-----------------------------------------------------------------------------
Send(t) == SendZmq(t) \/ CountSent(t) \/ SendThrows(t) \/ LockShm(t) \/ WriteShm(t)

MdStep == TryPush \/ PushOverwrite \/ CountDropped \/ CountReceived \/ Send("md")
DispStep == DispatchHead \/ PopOne \/ PopDone \/ DrainPop \/ DrainEnd \/ Send("disp")
OwnerStep == SetRunning \/ SpawnDispatch \/ JoinDispatch \/ ReleaseCtp \/ CloseBase

Died == pc["md"] = "thrown"
Terminated ==
  /\ Died \/ (main = "stopped" /\ pc["md"] = "idle")
  /\ UNCHANGED vars

Next ==
  \/ /\ ~Died
     /\ \/ \E i \in Instruments : OnQuote(i)
        \/ MdStep \/ DispStep \/ OwnerStep \/ Stop \/ EngineRead
  \/ Terminated

Spec == Init /\ [][Next]_vars

(* Every thread that can run does; CTP need not push, nobody need call     *)
(* stop(), and the engine need not read.                                   *)
Fairness ==
  /\ WF_vars(~Died /\ MdStep)
  /\ WF_vars(~Died /\ DispStep)
  /\ WF_vars(~Died /\ OwnerStep)

FairSpec == Spec /\ Fairness

-----------------------------------------------------------------------------
One(condition) == IF condition THEN 1 ELSE 0

(* Ticks a thread has in hand: the callback's until it is pushed, published *)
(* or refused; the dispatch thread's until it is published or given up.    *)
MdInHand == One(pc["md"] \in {"push", "overwrite", "send", "locked", "thrown"})
Undelivered == IF pc["disp"] = "sent" THEN Tail(batch) ELSE batch

Published == Len(bus["quote"]) + Len(bus["send_compute_greeks"])
Waiting   == Len(ring) + Len(Undelivered) + MdInHand
Lost      == evicted + swallowed + stats["option_err_count"]
             + stats["shm_write_fail_count"]

(* No tick disappears without a trace: every callback's tick is on the bus, *)
(* in a queue or a thread's hands, or in one of the losses the code knows  *)
(* (overwritten, send threw, shared memory full).                          *)
EveryTickAccounted == offered = Published + Waiting + Lost

(* What the status handler reports: "ticks_sent" is the events on the bus  *)
(* up to those whose sender is between send_event and its fetch_add, and   *)
(* "ticks_received" the callbacks up to the one still running.             *)
CountersMatch ==
  /\ stats["ticks_sent"] + One(pc["md"] = "sent") + One(pc["disp"] = "sent")
       = Published
  /\ stats["ticks_received"] + One(pc["md"] # "idle") = offered

(* option_dropped_count_ never under-reports what push_overwrite discarded. *)
(* (It may over-report: it also counts overwrites that found room.)        *)
DroppedCoversEvictions ==
  evicted <= stats["option_dropped_count"] + One(pc["md"] = "dropped")

(* SharedMemoryQueue is not thread-safe ("caller must synchronize",        *)
(* shm_writer.h:8): the callback thread and the dispatch thread are never  *)
(* both writing, and whoever is writing holds shm_write_lock_.             *)
ShmWriterExclusive ==
  \A t \in Threads : pc[t] = "locked" <=> shm_lock = t

(* stop() releases CTP and the base class only when the dispatch thread is *)
(* gone and has left nothing half sent (comment at ctp_gateway.cpp:635). *)
NoDispatchAfterRelease ==
  main \in {"release", "close", "stopped"} =>
    pc["disp"] = "exit" /\ batch = <<>> /\ shm_lock # "disp"

(* The dispatch thread's local batch holds a tick exactly when the thread  *)
(* is sending one; only popping may find or leave it either way.           *)
BatchShape ==
  /\ pc["disp"] \in {"send", "sent", "locked"} => batch # <<>>
  /\ pc["disp"] \in {"off", "head", "drain", "exit"} => batch = <<>>

(* The dispatch thread exists once start() has spawned it and has exited   *)
(* once stop() has joined it.                                              *)
PhasesAgree ==
  /\ main \in {"connect", "spawn"} <=> pc["disp"] = "off"
  /\ main \in {"release", "close", "stopped"} => pc["disp"] = "exit"

(* A batch is what the loop took, or the one tick of the drain.            *)
BatchFits == Len(batch) <= BatchSize \/ Len(batch) <= 1

(* What is queued or published came before the tick the callback has in    *)
(* hand, or before the next one if it has none.                            *)
NextTick == IF MdInHand = 1 THEN offered ELSE offered + 1
TicksBehind ==
  \A s \in {ring, batch, bus["quote"], bus["send_compute_greeks"]} :
    \A k \in DOMAIN s : s[k] < NextTick

(* The inductive invariant the proofs rest on. *)
Control == TypeOK /\ BatchShape /\ PhasesAgree /\ ShmWriterExclusive
Streams == BatchFits /\ TicksBehind
PipelineInv ==
  Control /\ EveryTickAccounted /\ CountersMatch /\ DroppedCoversEvictions /\ Streams

(* The options stream implements TickChannel: order is kept through ring,  *)
(* overwrite, batch and drain, whatever is lost on the way.                *)
GreeksChannel == INSTANCE TickChannel WITH
  Bound <- Capacity + BatchSize + 1,
  pending <- Undelivered \o ring,
  delivered <- bus["send_compute_greeks"],
  seen <- offered
OptionsKeepOrder == GreeksChannel!Spec

(* So does the futures stream, whose only place to wait is the callback.   *)
QuoteChannel == INSTANCE TickChannel WITH
  Bound <- 1,
  pending <- IF pc["md"] \in {"send", "locked"} THEN <<offered>> ELSE <<>>,
  delivered <- bus["quote"],
  seen <- offered
FuturesKeepOrder == QuoteChannel!Spec

InRing(n) == \E k \in DOMAIN ring : ring[k] = n

(* A tick that is in the ring before the dispatch thread exits leaves it   *)
(* (popped or overwritten) unless the process dies: no tick starves in the *)
(* main loop, and the drain forgets none that was there.                   *)
QueuedTicksLeave ==
  \A n \in 1..MaxTicks :
    InRing(n) /\ pc["disp"] # "exit" ~> Died \/ ~InRing(n)

(* stop() returns: the loop notices ctp_running_, the drain ends and the   *)
(* join succeeds (for a feed of at most MaxTicks ticks).                   *)
StopCompletes == main = "join" ~> (main = "stopped" \/ Died)
=============================================================================
