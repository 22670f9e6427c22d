------------------------ MODULE QuotePipelineProofs ------------------------
EXTENDS QuotePipeline, SequenceTheorems, TLAPS

(* Appending to and popping from a sequence of tick numbers. *)
LEMMA TickSeqs ==
  ASSUME NEW s \in Seq(Nat), NEW n \in Nat
  PROVE  /\ Append(s, n) \in Seq(Nat) /\ Len(Append(s, n)) = Len(s) + 1
         /\ Append(s, n) # <<>>
         /\ Len(s) \in Nat
         /\ s # <<>> <=> Len(s) > 0
         /\ s # <<>> => /\ Head(s) \in Nat /\ Tail(s) \in Seq(Nat)
                        /\ Len(Tail(s)) = Len(s) - 1
<1>1. Append(s, n) \in Seq(Nat) /\ Len(Append(s, n)) = Len(s) + 1 /\ Append(s, n) # <<>>
  BY AppendProperties
<1>2. Len(s) \in Nat /\ (s # <<>> <=> Len(s) > 0)
  BY LenProperties, EmptySeq
<1>3. s # <<>> => Head(s) \in Nat /\ Tail(s) \in Seq(Nat) /\ Len(Tail(s)) = Len(s) - 1
  BY HeadTailProperties
<1>4. QED BY <1>1, <1>2, <1>3

LEMMA GotoMd ==
  ASSUME TypeOK, NEW l \in MdPc, Goto("md", l)
  PROVE  /\ pc' \in [Threads -> MdPc \cup DispPc]
         /\ pc'["md"] = l /\ pc'["disp"] = pc["disp"]
BY DEF TypeOK, Goto, Threads

LEMMA GotoDisp ==
  ASSUME TypeOK, NEW l \in DispPc, Goto("disp", l)
  PROVE  /\ pc' \in [Threads -> MdPc \cup DispPc]
         /\ pc'["disp"] = l /\ pc'["md"] = pc["md"]
BY DEF TypeOK, Goto, Threads

LEMMA CountEffect ==
  ASSUME TypeOK, NEW c \in Counters, Count(c)
  PROVE  /\ stats' \in [Counters -> Nat]
         /\ stats'[c] = stats[c] + 1
         /\ \A d \in Counters : d # c => stats'[d] = stats[d]
BY DEF TypeOK, Count

LEMMA InitControl == Init => Control
<1> SUFFICES ASSUME Init PROVE Control
  OBVIOUS
<1>1. <<>> \in Seq(Nat) /\ Len(<<>>) = 0
  BY EmptySeq
<1>2. TypeOK
  <2>1. pc \in [Threads -> MdPc \cup DispPc] /\ pc["md"] \in MdPc /\ pc["disp"] \in DispPc
    BY DEF Init, Threads, MdPc, DispPc
  <2>2. bus \in [Topics -> Seq(Nat)] /\ stats \in [Counters -> Nat]
    BY <1>1 DEF Init
  <2>3. main \in MainPc
    BY DEF Init, MainPc
  <2>4. ctp_running \in BOOLEAN /\ shm_mode \in BOOLEAN /\ draining \in BOOLEAN
    BY DEF Init
  <2>5. ring \in Seq(Nat) /\ Len(ring) <= Capacity /\ batch \in Seq(Nat)
    BY <1>1, PipelineAssumption DEF Init
  <2>6. shm_lock \in Threads \cup {"none"} /\ shm_used \in 0..SlotCount
    BY PipelineAssumption DEF Init
  <2>7. offered \in Nat /\ evicted \in Nat /\ swallowed \in Nat
    BY DEF Init
  <2>8. QED BY <2>1, <2>2, <2>3, <2>4, <2>5, <2>6, <2>7 DEF TypeOK
<1>3. BatchShape /\ PhasesAgree /\ ShmWriterExclusive
  BY DEF Init, BatchShape, PhasesAgree, ShmWriterExclusive, Threads
<1>4. QED BY <1>2, <1>3 DEF Control

(* The ring operations keep the ring a sequence that fits its capacity. *)
LEMMA RingFits ==
  ASSUME TypeOK, TryPush \/ PushOverwrite
  PROVE  ring' \in Seq(Nat) /\ Len(ring') <= Capacity
<1>1. /\ Append(ring, offered) \in Seq(Nat) /\ Len(Append(ring, offered)) = Len(ring) + 1
      /\ Len(ring) \in Nat /\ Len(ring) <= Capacity /\ ring \in Seq(Nat)
      /\ Capacity \in Nat \ {0}
  BY TickSeqs, PipelineAssumption DEF TypeOK
<1>2. CASE TryPush
  <2>1. \/ Len(ring) < Capacity /\ ring' = Append(ring, offered)
        \/ ring' = ring
    BY <1>2 DEF TryPush
  <2>2. Len(ring) < Capacity => Len(ring) + 1 <= Capacity
    BY <1>1
  <2>3. QED BY ONLY <1>1, <2>1, <2>2
<1>3. CASE PushOverwrite
  <2>1. CASE Len(ring) = Capacity
    <3>1. ring # <<>>
      BY <1>1, <2>1, TickSeqs
    <3>2. Tail(ring) \in Seq(Nat) /\ Len(Tail(ring)) = Len(ring) - 1
      BY <1>1, <3>1, TickSeqs
    <3>3. /\ Append(Tail(ring), offered) \in Seq(Nat)
          /\ Len(Append(Tail(ring), offered)) = Len(Tail(ring)) + 1
      BY <3>2, TickSeqs DEF TypeOK
    <3>4. ring' = Append(Tail(ring), offered)
      BY <1>1, <1>3, <2>1 DEF PushOverwrite
    <3>5. QED BY <1>1, <2>1, <3>2, <3>3, <3>4
  <2>2. CASE Len(ring) < Capacity
    BY <1>1, <1>3, <2>2 DEF PushOverwrite
  <2>3. QED BY <1>1, <2>1, <2>2
<1>4. QED BY <1>2, <1>3

(* The callback thread's own steps: classify, push, overwrite, count. *)
LEMMA MdControl ==
  ASSUME Control, NEW i \in Instruments,
         OnQuote(i) \/ TryPush \/ PushOverwrite \/ CountDropped \/ CountReceived
  PROVE  Control'
<1> USE DEF ownerVars, ringVars, sendVars, ghostVars
<1>0. TypeOK /\ BatchShape /\ PhasesAgree /\ ShmWriterExclusive
  BY DEF Control
<1>1. CASE OnQuote(i)
  <2>1. PICK l \in {"push", "send"} : Goto("md", l)
    BY <1>1 DEF OnQuote
  <2>2. /\ pc' \in [Threads -> MdPc \cup DispPc]
        /\ pc'["md"] = l /\ pc'["disp"] = pc["disp"] /\ l \in MdPc
    BY <1>0, <2>1, GotoMd DEF MdPc
  <2>3. pc["md"] = "idle" /\ offered' \in Nat
    BY <1>0, <1>1 DEF OnQuote, TypeOK
  <2>4. TypeOK'
    BY <1>0, <1>1, <2>2, <2>3 DEF OnQuote, TypeOK
  <2>5. BatchShape' /\ PhasesAgree' /\ ShmWriterExclusive'
    BY <1>0, <1>1, <2>1, <2>2, <2>3
       DEF OnQuote, BatchShape, PhasesAgree, ShmWriterExclusive, Threads
  <2>6. QED BY <2>4, <2>5 DEF Control
<1>2. CASE TryPush \/ PushOverwrite
  <2>1. PICK l \in {"received", "overwrite", "dropped"} : Goto("md", l)
    BY <1>2 DEF TryPush, PushOverwrite
  <2>2. /\ pc' \in [Threads -> MdPc \cup DispPc]
        /\ pc'["md"] = l /\ pc'["disp"] = pc["disp"] /\ l \in MdPc
    BY <1>0, <2>1, GotoMd DEF MdPc
  <2>3. pc["md"] # "locked" /\ evicted' \in Nat
    BY <1>0, <1>2 DEF TryPush, PushOverwrite, TypeOK
  <2>4. ring' \in Seq(Nat) /\ Len(ring') <= Capacity
    BY <1>0, <1>2, RingFits
  <2>5. UNCHANGED <<ownerVars, batch, draining, sendVars, stats, offered, swallowed>>
    BY <1>2 DEF TryPush, PushOverwrite
  <2>6. TypeOK'
    BY <1>0, <2>2, <2>3, <2>4, <2>5 DEF TypeOK
  <2>7. BatchShape' /\ PhasesAgree' /\ ShmWriterExclusive'
    BY <1>0, <2>2, <2>3, <2>5
       DEF BatchShape, PhasesAgree, ShmWriterExclusive, Threads
  <2>8. QED BY <2>6, <2>7 DEF Control
<1>3. CASE CountDropped \/ CountReceived
  <2>1. PICK l \in {"received", "idle"} : Goto("md", l)
    BY <1>3 DEF CountDropped, CountReceived
  <2>2. /\ pc' \in [Threads -> MdPc \cup DispPc]
        /\ pc'["md"] = l /\ pc'["disp"] = pc["disp"] /\ l \in MdPc
    BY <1>0, <2>1, GotoMd DEF MdPc
  <2>3. pc["md"] # "locked"
    BY <1>3 DEF CountDropped, CountReceived
  <2>4. stats' \in [Counters -> Nat]
    BY <1>0, <1>3, CountEffect DEF CountDropped, CountReceived, Counters
  <2>5. UNCHANGED <<ownerVars, ringVars, sendVars, ghostVars>>
    BY <1>3 DEF CountDropped, CountReceived
  <2>6. TypeOK'
    BY <1>0, <2>2, <2>4, <2>5 DEF TypeOK
  <2>7. BatchShape' /\ PhasesAgree' /\ ShmWriterExclusive'
    BY <1>0, <2>2, <2>3, <2>5
       DEF BatchShape, PhasesAgree, ShmWriterExclusive, Threads
  <2>8. QED BY <2>6, <2>7 DEF Control
<1>4. QED BY <1>1, <1>2, <1>3

(* The dispatch thread's own steps: look at ctp_running_, pop, drain. *)
LEMMA DispControl ==
  ASSUME Control, DispatchHead \/ PopOne \/ PopDone \/ DrainPop \/ DrainEnd
  PROVE  Control'
<1> USE DEF ownerVars, ringVars, sendVars, ghostVars
<1>0. TypeOK /\ BatchShape /\ PhasesAgree /\ ShmWriterExclusive
  BY DEF Control
<1>1. CASE DispatchHead
  <2>1. PICK l \in {"pop", "drain"} : Goto("disp", l)
    BY <1>1 DEF DispatchHead
  <2>2. /\ pc' \in [Threads -> MdPc \cup DispPc]
        /\ pc'["disp"] = l /\ pc'["md"] = pc["md"] /\ l \in DispPc
    BY <1>0, <2>1, GotoDisp DEF DispPc
  <2>3. pc["disp"] = "head" /\ draining' \in BOOLEAN
    BY <1>1 DEF DispatchHead
  <2>4. UNCHANGED <<ownerVars, ring, batch, sendVars, stats, ghostVars>>
    BY <1>1 DEF DispatchHead
  <2>5. TypeOK'
    BY <1>0, <2>2, <2>3, <2>4 DEF TypeOK
  <2>6. BatchShape' /\ PhasesAgree' /\ ShmWriterExclusive'
    BY <1>0, <2>1, <2>2, <2>3, <2>4
       DEF BatchShape, PhasesAgree, ShmWriterExclusive, Threads
  <2>7. QED BY <2>5, <2>6 DEF Control
<1>2. CASE PopOne
  <2>1. /\ pc["disp"] = "pop" /\ pc' = pc /\ ring # <<>>
        /\ batch' = Append(batch, Head(ring)) /\ ring' = Tail(ring)
        /\ UNCHANGED <<ownerVars, draining, sendVars, stats, ghostVars>>
    BY <1>2 DEF PopOne
  <2>2. /\ Head(ring) \in Nat /\ Tail(ring) \in Seq(Nat)
        /\ Len(Tail(ring)) = Len(ring) - 1 /\ Len(ring) \in Nat
    BY <1>0, <2>1, TickSeqs DEF TypeOK
  <2>3. batch' \in Seq(Nat)
    BY <1>0, <2>1, <2>2, TickSeqs DEF TypeOK
  <2>4. ring' \in Seq(Nat) /\ Len(ring') <= Capacity
    BY <1>0, <2>1, <2>2, PipelineAssumption DEF TypeOK
  <2>5. TypeOK'
    BY <1>0, <2>1, <2>3, <2>4 DEF TypeOK
  <2>6. BatchShape' /\ PhasesAgree' /\ ShmWriterExclusive'
    BY <1>0, <2>1 DEF BatchShape, PhasesAgree, ShmWriterExclusive, Threads
  <2>7. QED BY <2>5, <2>6 DEF Control
<1>3. CASE PopDone
  <2>1. PICK l \in {"head", "send"} :
           Goto("disp", l) /\ (l = "head" <=> batch = <<>>)
    BY <1>3 DEF PopDone
  <2>2. /\ pc' \in [Threads -> MdPc \cup DispPc]
        /\ pc'["disp"] = l /\ pc'["md"] = pc["md"] /\ l \in DispPc
    BY <1>0, <2>1, GotoDisp DEF DispPc
  <2>3. /\ pc["disp"] = "pop"
        /\ UNCHANGED <<ownerVars, ringVars, sendVars, stats, ghostVars>>
    BY <1>3 DEF PopDone
  <2>4. TypeOK'
    BY <1>0, <2>2, <2>3 DEF TypeOK
  <2>5. BatchShape' /\ PhasesAgree' /\ ShmWriterExclusive'
    BY <1>0, <2>1, <2>2, <2>3
       DEF BatchShape, PhasesAgree, ShmWriterExclusive, Threads
  <2>6. QED BY <2>4, <2>5 DEF Control
<1>4. CASE DrainPop
  <2>1. /\ pc["disp"] = "drain" /\ Goto("disp", "send") /\ ring # <<>>
        /\ batch' = <<Head(ring)>> /\ ring' = Tail(ring)
        /\ UNCHANGED <<ownerVars, draining, sendVars, stats, ghostVars>>
    BY <1>4 DEF DrainPop
  <2>2. /\ Head(ring) \in Nat /\ Tail(ring) \in Seq(Nat)
        /\ Len(Tail(ring)) = Len(ring) - 1 /\ Len(ring) \in Nat
    BY <1>0, <2>1, TickSeqs DEF TypeOK
  <2>3. batch' \in Seq(Nat) /\ batch' # <<>>
    BY <2>1, <2>2
  <2>4. ring' \in Seq(Nat) /\ Len(ring') <= Capacity
    BY <1>0, <2>1, <2>2, PipelineAssumption DEF TypeOK
  <2>5. /\ pc' \in [Threads -> MdPc \cup DispPc]
        /\ pc'["disp"] = "send" /\ pc'["md"] = pc["md"] /\ "send" \in DispPc
    BY <1>0, <2>1, GotoDisp DEF DispPc
  <2>6. TypeOK'
    BY <1>0, <2>1, <2>3, <2>4, <2>5 DEF TypeOK
  <2>7. BatchShape' /\ PhasesAgree' /\ ShmWriterExclusive'
    BY <1>0, <2>1, <2>3, <2>5
       DEF BatchShape, PhasesAgree, ShmWriterExclusive, Threads
  <2>8. QED BY <2>6, <2>7 DEF Control
<1>5. CASE DrainEnd
  <2>1. /\ pc["disp"] = "drain" /\ Goto("disp", "exit")
        /\ UNCHANGED <<ownerVars, ringVars, sendVars, stats, ghostVars>>
    BY <1>5 DEF DrainEnd
  <2>2. /\ pc' \in [Threads -> MdPc \cup DispPc]
        /\ pc'["disp"] = "exit" /\ pc'["md"] = pc["md"] /\ "exit" \in DispPc
    BY <1>0, <2>1, GotoDisp DEF DispPc
  <2>3. TypeOK'
    BY <1>0, <2>1, <2>2 DEF TypeOK
  <2>4. BatchShape' /\ PhasesAgree' /\ ShmWriterExclusive'
    BY <1>0, <2>1, <2>2
       DEF BatchShape, PhasesAgree, ShmWriterExclusive, Threads
  <2>5. QED BY <2>3, <2>4 DEF Control
<1>6. QED BY <1>1, <1>2, <1>3, <1>4, <1>5

(* The tick a thread is done with leaves its hands, and nothing else does. *)
LEMMA FinishEffect ==
  ASSUME Control, NEW t \in Threads, pc[t] \in {"send", "sent", "locked"}, Finish(t)
  PROVE  /\ pc' \in [Threads -> MdPc \cup DispPc]
         /\ pc'["md"] \in MdPc /\ pc'["disp"] \in DispPc
         /\ batch' \in Seq(Nat)
         /\ t = "md" => /\ pc'["md"] = "received" /\ pc'["disp"] = pc["disp"]
                        /\ batch' = batch
         /\ t = "disp" => /\ pc'["md"] = pc["md"]
                          /\ pc'["disp"] \in {"send", "drain", "head"}
                          /\ pc'["disp"] = "send" <=> batch' # <<>>
                          /\ batch # <<>> /\ batch' = Tail(batch)
                          /\ Len(batch') = Len(batch) - 1
<1>0. TypeOK /\ BatchShape
  BY DEF Control
<1>1. CASE t = "md"
  <2>1. Goto("md", "received") /\ batch' = batch
    BY <1>1 DEF Finish
  <2>2. "received" \in MdPc
    BY DEF MdPc
  <2>3. QED BY <1>0, <1>1, <2>1, <2>2, GotoMd DEF TypeOK
<1>2. CASE t = "disp"
  <2>1. Goto("disp", AfterItem) /\ batch' = Tail(batch)
    BY <1>2 DEF Finish
  <2>2. batch # <<>> /\ batch \in Seq(Nat)
    BY <1>0, <1>2 DEF BatchShape, TypeOK
  <2>3. Len(batch) \in Nat /\ Len(batch) > 0
    BY <2>2, TickSeqs
  <2>4. batch' \in Seq(Nat) /\ Len(batch') = Len(batch) - 1
    BY <2>1, <2>2, TickSeqs
  <2>5. batch' # <<>> <=> Len(batch) > 1
    BY <2>3, <2>4, TickSeqs
  <2>6. AfterItem \in {"send", "drain", "head"} /\ (AfterItem = "send" <=> Len(batch) > 1)
    BY DEF AfterItem
  <2>7. AfterItem \in DispPc
    BY <2>6 DEF DispPc
  <2>8. /\ pc' \in [Threads -> MdPc \cup DispPc]
        /\ pc'["disp"] = AfterItem /\ pc'["md"] = pc["md"]
    BY <1>0, <2>1, <2>7, GotoDisp
  <2>9. QED BY <1>0, <1>2, <2>1, <2>2, <2>4, <2>5, <2>6, <2>7, <2>8 DEF TypeOK
<1>3. QED BY <1>1, <1>2 DEF Threads

LEMMA PublishEffect ==
  ASSUME Control, NEW t \in Threads, pc[t] \in {"send", "locked"}, Publish(t)
  PROVE  /\ bus' \in [Topics -> Seq(Nat)]
         /\ t = "md" =>
              /\ Len(bus'["quote"]) = Len(bus["quote"]) + 1
              /\ Len(bus'["send_compute_greeks"]) = Len(bus["send_compute_greeks"])
         /\ t = "disp" =>
              /\ Len(bus'["quote"]) = Len(bus["quote"])
              /\ Len(bus'["send_compute_greeks"]) = Len(bus["send_compute_greeks"]) + 1
<1>0. TypeOK /\ BatchShape
  BY DEF Control
<1>1. Item(t) \in Nat
  <2>1. CASE t = "md"
    BY <1>0, <2>1 DEF Item, TypeOK
  <2>2. CASE t = "disp"
    BY <1>0, <2>2, TickSeqs DEF Item, TypeOK, BatchShape
  <2>3. QED BY <2>1, <2>2 DEF Threads
<1>2. Topic(t) \in Topics /\ bus[Topic(t)] \in Seq(Nat)
  BY <1>0 DEF Topic, Topics, TypeOK
<1>3. /\ Append(bus[Topic(t)], Item(t)) \in Seq(Nat)
      /\ Len(Append(bus[Topic(t)], Item(t))) = Len(bus[Topic(t)]) + 1
  BY <1>1, <1>2, TickSeqs
<1>4. \A c \in Topics : bus[c] \in Seq(Nat) /\ Len(bus[c]) \in Nat
  BY <1>0, TickSeqs DEF TypeOK
<1>5. bus' = [bus EXCEPT ![Topic(t)] = Append(bus[Topic(t)], Item(t))]
  BY DEF Publish
<1>6. bus' \in [Topics -> Seq(Nat)]
  BY <1>0, <1>2, <1>3, <1>5 DEF TypeOK
<1>7. CASE t = "md"
  BY <1>0, <1>3, <1>4, <1>5, <1>6, <1>7 DEF Topic, Topics, TypeOK
<1>8. CASE t = "disp"
  BY <1>0, <1>3, <1>4, <1>5, <1>6, <1>8 DEF Topic, Topics, TypeOK
<1>9. QED BY <1>7, <1>8 DEF Threads

(* Sending, over ZMQ or shared memory, by either thread. *)
LEMMA SendControl ==
  ASSUME Control, NEW t \in Threads, Send(t)
  PROVE  Control'
<1> USE DEF ownerVars, ringVars, sendVars, ghostVars
<1>0. TypeOK /\ BatchShape /\ PhasesAgree /\ ShmWriterExclusive
  BY DEF Control
<1>m. \A l : Goto(t, l) /\ l \in MdPc \cap DispPc =>
        /\ pc' \in [Threads -> MdPc \cup DispPc]
        /\ pc'["md"] \in MdPc /\ pc'["disp"] \in DispPc
        /\ pc'[t] = l /\ \A u \in Threads : u # t => pc'[u] = pc[u]
  BY <1>0 DEF Goto, TypeOK, Threads
<1>1. CASE SendZmq(t)
  <2>1. /\ pc[t] = "send" /\ Goto(t, "sent") /\ Publish(t)
        /\ UNCHANGED <<ownerVars, ringVars, shm_lock, shm_used, stats, ghostVars>>
    BY <1>1 DEF SendZmq
  <2>2. /\ pc' \in [Threads -> MdPc \cup DispPc]
        /\ pc'["md"] \in MdPc /\ pc'["disp"] \in DispPc
        /\ pc'[t] = "sent" /\ \A u \in Threads : u # t => pc'[u] = pc[u]
    BY <1>m, <2>1 DEF MdPc, DispPc
  <2>3. bus' \in [Topics -> Seq(Nat)]
    BY <2>1, PublishEffect
  <2>4. TypeOK'
    BY <1>0, <2>1, <2>2, <2>3 DEF TypeOK
  <2>5. BatchShape' /\ PhasesAgree' /\ ShmWriterExclusive'
    BY <1>0, <2>1, <2>2
       DEF BatchShape, PhasesAgree, ShmWriterExclusive, Threads
  <2>6. QED BY <2>4, <2>5 DEF Control
<1>2. CASE CountSent(t) \/ WriteShm(t) \/ (SendThrows(t) /\ t = "disp")
  <2>1. Finish(t) /\ pc[t] \in {"send", "sent", "locked"}
    BY <1>2 DEF CountSent, WriteShm, SendThrows
  <2>2. /\ pc' \in [Threads -> MdPc \cup DispPc]
        /\ pc'["md"] \in MdPc /\ pc'["disp"] \in DispPc
        /\ batch' \in Seq(Nat)
        /\ t = "md" => /\ pc'["md"] = "received" /\ pc'["disp"] = pc["disp"]
                       /\ batch' = batch
        /\ t = "disp" => /\ pc'["md"] = pc["md"]
                         /\ pc'["disp"] \in {"send", "drain", "head"}
                         /\ pc'["disp"] = "send" <=> batch' # <<>>
    BY <2>1, FinishEffect
  <2>3. stats' \in [Counters -> Nat]
    BY <1>0, <1>2, CountEffect
       DEF CountSent, WriteShm, SendThrows, Counters, TypeOK
  <2>4. bus' \in [Topics -> Seq(Nat)]
    BY <1>0, <1>2, PublishEffect DEF CountSent, WriteShm, SendThrows, TypeOK
  <2>5. shm_used' \in 0..SlotCount /\ swallowed' \in Nat
    BY <1>0, <1>2, PipelineAssumption DEF CountSent, WriteShm, SendThrows, TypeOK
  <2>6. UNCHANGED <<ownerVars, ring, draining, offered, evicted>>
    BY <1>2 DEF CountSent, WriteShm, SendThrows
  <2>7. IF pc[t] = "locked" THEN shm_lock' = "none" ELSE shm_lock' = shm_lock
    BY <1>2 DEF CountSent, WriteShm, SendThrows
  <2>8. TypeOK'
    BY <1>0, <2>2, <2>3, <2>4, <2>5, <2>6, <2>7 DEF TypeOK
  <2>9. BatchShape'
    BY <1>0, <2>2 DEF BatchShape, Threads
  <2>10. PhasesAgree'
    BY <1>0, <2>1, <2>2, <2>6 DEF PhasesAgree, Threads
  <2>11. ShmWriterExclusive'
    BY <1>0, <2>1, <2>2, <2>7 DEF ShmWriterExclusive, Threads
  <2>12. QED BY <2>8, <2>9, <2>10, <2>11 DEF Control
<1>3. CASE SendThrows(t) /\ t = "md"
  <2>1. /\ pc["md"] = "send" /\ Goto("md", "thrown")
        /\ UNCHANGED <<ownerVars, ringVars, sendVars, stats, ghostVars>>
    BY <1>3 DEF SendThrows
  <2>2. /\ pc' \in [Threads -> MdPc \cup DispPc] /\ "thrown" \in MdPc
        /\ pc'["md"] = "thrown" /\ pc'["disp"] = pc["disp"]
    BY <1>0, <2>1, GotoMd DEF MdPc
  <2>3. TypeOK'
    BY <1>0, <2>1, <2>2 DEF TypeOK
  <2>4. BatchShape' /\ PhasesAgree' /\ ShmWriterExclusive'
    BY <1>0, <2>1, <2>2
       DEF BatchShape, PhasesAgree, ShmWriterExclusive, Threads
  <2>5. QED BY <2>3, <2>4 DEF Control
<1>4. CASE LockShm(t)
  <2>1. /\ pc[t] = "send" /\ Goto(t, "locked") /\ shm_lock = "none" /\ shm_lock' = t
        /\ UNCHANGED <<ownerVars, ringVars, bus, shm_used, stats, ghostVars>>
    BY <1>4 DEF LockShm
  <2>2. /\ pc' \in [Threads -> MdPc \cup DispPc]
        /\ pc'["md"] \in MdPc /\ pc'["disp"] \in DispPc
        /\ pc'[t] = "locked" /\ \A u \in Threads : u # t => pc'[u] = pc[u]
    BY <1>m, <2>1 DEF MdPc, DispPc
  <2>3. TypeOK'
    BY <1>0, <2>1, <2>2 DEF TypeOK
  <2>4. BatchShape' /\ PhasesAgree' /\ ShmWriterExclusive'
    BY <1>0, <2>1, <2>2
       DEF BatchShape, PhasesAgree, ShmWriterExclusive, Threads
  <2>5. QED BY <2>3, <2>4 DEF Control
<1>5. QED BY <1>1, <1>2, <1>3, <1>4 DEF Send, Threads

(* start() and stop() themselves, and the reader of the shared memory. *)
LEMMA OwnerControl ==
  ASSUME Control, OwnerStep \/ Stop \/ EngineRead
  PROVE  Control'
<1> USE DEF ownerVars, ringVars, sendVars, ghostVars
<1>0. TypeOK /\ BatchShape /\ PhasesAgree /\ ShmWriterExclusive
  BY DEF Control
<1>1. CASE SpawnDispatch
  <2>1. /\ main = "spawn" /\ main' = "up" /\ Goto("disp", "head")
        /\ UNCHANGED <<ctp_running, shm_mode, ringVars, sendVars, stats, ghostVars>>
    BY <1>1 DEF SpawnDispatch
  <2>2. /\ pc' \in [Threads -> MdPc \cup DispPc] /\ "head" \in DispPc
        /\ pc'["disp"] = "head" /\ pc'["md"] = pc["md"]
    BY <1>0, <2>1, GotoDisp DEF DispPc
  <2>3. pc["disp"] = "off" /\ batch = <<>>
    BY <1>0, <2>1 DEF PhasesAgree, BatchShape
  <2>4. main' \in MainPc
    BY <2>1 DEF MainPc
  <2>5. TypeOK'
    BY <1>0, <2>1, <2>2, <2>4 DEF TypeOK
  <2>6. BatchShape' /\ PhasesAgree' /\ ShmWriterExclusive'
    BY <1>0, <2>1, <2>2, <2>3
       DEF BatchShape, PhasesAgree, ShmWriterExclusive, Threads
  <2>7. QED BY <2>5, <2>6 DEF Control
<1>2. CASE SetRunning \/ Stop \/ JoinDispatch \/ ReleaseCtp \/ CloseBase
  <2>1. UNCHANGED <<pc, shm_mode, ringVars, sendVars, stats, ghostVars>>
    BY <1>2 DEF SetRunning, Stop, JoinDispatch, ReleaseCtp, CloseBase
  <2>2. main' \in MainPc
    BY <1>2 DEF SetRunning, Stop, JoinDispatch, ReleaseCtp, CloseBase, MainPc
  <2>3. ctp_running' \in BOOLEAN
    BY <1>0, <1>2 DEF SetRunning, Stop, JoinDispatch, ReleaseCtp, CloseBase, TypeOK
  <2>4. TypeOK'
    BY <1>0, <2>1, <2>2, <2>3 DEF TypeOK
  <2>5. BatchShape' /\ ShmWriterExclusive'
    BY <1>0, <2>1 DEF BatchShape, ShmWriterExclusive
  <2>6. PhasesAgree'
    BY <1>0, <1>2, <2>1
       DEF SetRunning, Stop, JoinDispatch, ReleaseCtp, CloseBase, PhasesAgree
  <2>7. QED BY <2>4, <2>5, <2>6 DEF Control
<1>3. CASE EngineRead
  <2>1. UNCHANGED <<pc, ownerVars, ringVars, bus, shm_lock, stats, ghostVars>>
    BY <1>3 DEF EngineRead
  <2>2. shm_used' \in 0..SlotCount
    BY <1>0, <1>3, PipelineAssumption DEF EngineRead, TypeOK
  <2>3. TypeOK'
    BY <1>0, <2>1, <2>2 DEF TypeOK
  <2>4. BatchShape' /\ PhasesAgree' /\ ShmWriterExclusive'
    BY <1>0, <2>1 DEF BatchShape, PhasesAgree, ShmWriterExclusive
  <2>5. QED BY <2>3, <2>4 DEF Control
<1>4. QED BY <1>1, <1>2, <1>3 DEF OwnerStep

LEMMA NextControl == Control /\ [Next]_vars => Control'
<1> SUFFICES ASSUME Control, [Next]_vars PROVE Control'
  OBVIOUS
<1>1. CASE \E i \in Instruments : OnQuote(i)
  BY <1>1, MdControl
<1>2. CASE TryPush \/ PushOverwrite \/ CountDropped \/ CountReceived
  BY <1>2, MdControl, PipelineAssumption
<1>3. CASE DispatchHead \/ PopOne \/ PopDone \/ DrainPop \/ DrainEnd
  BY <1>3, DispControl
<1>4. CASE \E t \in Threads : Send(t)
  BY <1>4, SendControl
<1>5. CASE OwnerStep \/ Stop \/ EngineRead
  BY <1>5, OwnerControl
<1>6. CASE UNCHANGED vars
  BY <1>6 DEF vars, ownerVars, ringVars, sendVars, ghostVars, Control, TypeOK,
     BatchShape, PhasesAgree, ShmWriterExclusive
<1>7. QED BY <1>1, <1>2, <1>3, <1>4, <1>5, <1>6
  DEF Next, MdStep, DispStep, Terminated, Threads

THEOREM ControlAlways == Spec => []Control
BY InitControl, NextControl, PTL DEF Spec

(* Type correctness, for every capacity, batch size, slot count and feed: *)
(* in particular the ring never outgrows its capacity.                     *)
THEOREM TypeCorrect == Spec => []TypeOK
<1>1. Control => TypeOK
  BY DEF Control
<1>2. QED BY <1>1, ControlAlways, PTL

(* The callback thread and the dispatch thread are never both writing the  *)
(* shared-memory queue (ctp_gateway.cpp:352-379).                          *)
THEOREM WritersExclude == Spec => []ShmWriterExclusive
<1>1. Control => ShmWriterExclusive
  BY DEF Control
<1>2. QED BY <1>1, ControlAlways, PTL

(* stop() lets go of CTP and the base class only after the dispatch thread *)
(* has exited with nothing in hand (ctp_gateway.cpp:624-642).              *)
THEOREM DispatchGoneAtRelease == Spec => []NoDispatchAfterRelease
<1>1. Control => NoDispatchAfterRelease
  BY DEF Control, BatchShape, PhasesAgree, ShmWriterExclusive, NoDispatchAfterRelease,
     Threads
<1>2. QED BY <1>1, ControlAlways, PTL

-----------------------------------------------------------------------------
(* The books: every tick accounted for, and what the counters say of it.   *)
Books == EveryTickAccounted /\ CountersMatch /\ DroppedCoversEvictions

LEMMA InitBooks == Init => Books
<1> SUFFICES ASSUME Init PROVE Books
  OBVIOUS
<1>1. Published = 0
  BY EmptySeq DEF Init, Published, Topics
<1>2. /\ pc["md"] = "idle" /\ pc["disp"] = "off"
  BY DEF Init, Threads
<1>3. Waiting = 0
  BY <1>2, EmptySeq DEF Init, Waiting, Undelivered, MdInHand, One
<1>4. \A c \in Counters : stats[c] = 0
  BY DEF Init
<1>5. Lost = 0
  BY <1>4 DEF Init, Lost, Counters
<1>6. EveryTickAccounted
  BY <1>1, <1>3, <1>5 DEF Init, EveryTickAccounted
<1>7. CountersMatch
  BY <1>1, <1>2, <1>4 DEF Init, CountersMatch, One, Counters
<1>8. DroppedCoversEvictions
  BY <1>2, <1>4 DEF Init, DroppedCoversEvictions, One, Counters
<1>9. QED BY <1>6, <1>7, <1>8 DEF Books

(* Everything the books add up is a number. *)
LEMMA BookTypes ==
  ASSUME Control
  PROVE  /\ offered \in Nat /\ evicted \in Nat /\ swallowed \in Nat
         /\ Len(ring) \in Nat /\ Len(batch) \in Nat /\ Len(Undelivered) \in Nat
         /\ Len(bus["quote"]) \in Nat /\ Len(bus["send_compute_greeks"]) \in Nat
         /\ stats["ticks_received"] \in Nat /\ stats["ticks_sent"] \in Nat
         /\ stats["option_dropped_count"] \in Nat /\ stats["option_err_count"] \in Nat
         /\ stats["shm_write_fail_count"] \in Nat
         /\ Published \in Nat /\ Waiting \in Nat /\ Lost \in Nat
<1>1. TypeOK /\ BatchShape
  BY DEF Control
<1>2. /\ Len(ring) \in Nat /\ Len(batch) \in Nat
      /\ Len(bus["quote"]) \in Nat /\ Len(bus["send_compute_greeks"]) \in Nat
  BY <1>1, LenProperties DEF TypeOK, Topics
<1>3. Len(Undelivered) \in Nat
  BY <1>1, <1>2, TickSeqs DEF TypeOK, BatchShape, Undelivered
<1>4. /\ offered \in Nat /\ evicted \in Nat /\ swallowed \in Nat
      /\ stats["ticks_received"] \in Nat /\ stats["ticks_sent"] \in Nat
      /\ stats["option_dropped_count"] \in Nat /\ stats["option_err_count"] \in Nat
      /\ stats["shm_write_fail_count"] \in Nat
  BY <1>1 DEF TypeOK, Counters
<1>5. Published \in Nat
  <2>1. \A a, b \in Nat : a + b \in Nat
    OBVIOUS
  <2>2. QED BY <1>2, <2>1 DEF Published
<1>6. Lost \in Nat
  BY <1>4 DEF Lost
<1>7. MdInHand \in Nat
  BY DEF MdInHand, One
<1>8. Waiting \in Nat
  BY <1>2, <1>3, <1>7 DEF Waiting
<1>9. QED BY <1>2, <1>3, <1>4, <1>5, <1>6, <1>8

LEMMA MdBooks ==
  ASSUME Control, Books, NEW i \in Instruments,
         OnQuote(i) \/ TryPush \/ PushOverwrite \/ CountDropped \/ CountReceived
  PROVE  Books'
<1> USE DEF ownerVars, ringVars, sendVars, ghostVars
<1>0. TypeOK /\ EveryTickAccounted /\ CountersMatch /\ DroppedCoversEvictions
  BY DEF Control, Books
<1>t. /\ offered \in Nat /\ evicted \in Nat /\ swallowed \in Nat
      /\ Len(ring) \in Nat /\ Len(batch) \in Nat /\ Len(Undelivered) \in Nat
      /\ stats["ticks_received"] \in Nat /\ stats["ticks_sent"] \in Nat
      /\ stats["option_dropped_count"] \in Nat /\ stats["option_err_count"] \in Nat
      /\ stats["shm_write_fail_count"] \in Nat
      /\ Published \in Nat /\ Waiting \in Nat /\ Lost \in Nat
  BY BookTypes
<1>b. bus' = bus /\ Published' = Published
  BY DEF OnQuote, TryPush, PushOverwrite, CountDropped, CountReceived, Published
<1>d. pc'["disp"] = pc["disp"] /\ Undelivered' = Undelivered
  <2>1. \E l \in MdPc : Goto("md", l)
    BY DEF OnQuote, TryPush, PushOverwrite, CountDropped, CountReceived, MdPc
  <2>2. pc'["disp"] = pc["disp"] /\ batch' = batch
    BY <1>0, <2>1, GotoMd DEF OnQuote, TryPush, PushOverwrite, CountDropped, CountReceived
  <2>3. QED BY <2>2 DEF Undelivered
<1>1. CASE OnQuote(i)
  <2>1. PICK l \in {"push", "send"} : Goto("md", l)
    BY <1>1 DEF OnQuote
  <2>2. pc'["md"] = l /\ pc["md"] = "idle"
    BY <1>0, <1>1, <2>1, GotoMd DEF MdPc, OnQuote
  <2>3. /\ offered' = offered + 1 /\ ring' = ring /\ stats' = stats
        /\ evicted' = evicted /\ swallowed' = swallowed
    BY <1>1 DEF OnQuote
  <2>4. Waiting' = Waiting + 1
    BY <1>t, <1>d, <2>1, <2>2, <2>3, SMTT(30) DEF Waiting, MdInHand, One
  <2>5. Lost' = Lost
    BY <2>3 DEF Lost
  <2>6. EveryTickAccounted'
    BY <1>0, <1>t, <1>b, <2>3, <2>4, <2>5 DEF EveryTickAccounted
  <2>7. CountersMatch'
    BY <1>0, <1>t, <1>b, <1>d, <2>1, <2>2, <2>3 DEF CountersMatch, One
  <2>8. DroppedCoversEvictions'
    BY <1>0, <1>t, <2>1, <2>2, <2>3 DEF DroppedCoversEvictions, One
  <2>9. QED BY <2>6, <2>7, <2>8 DEF Books
<1>2. CASE TryPush
  <2>1. PICK l \in {"received", "overwrite"} : Goto("md", l)
    BY <1>2 DEF TryPush
  <2>2. pc'["md"] = l /\ pc["md"] = "push"
    BY <1>0, <1>2, <2>1, GotoMd DEF MdPc, TryPush
  <2>3. /\ offered' = offered /\ stats' = stats
        /\ evicted' = evicted /\ swallowed' = swallowed
    BY <1>2 DEF TryPush
  <2>4. \/ pc'["md"] = "received" /\ Len(ring') = Len(ring) + 1
        \/ pc'["md"] = "overwrite" /\ ring' = ring
    <3>1. Len(Append(ring, offered)) = Len(ring) + 1
      BY <1>0, TickSeqs DEF TypeOK
    <3>2. \/ Goto("md", "received") /\ ring' = Append(ring, offered)
          \/ Goto("md", "overwrite") /\ ring' = ring
      BY <1>2 DEF TryPush
    <3>3. QED BY <1>0, <3>1, <3>2, GotoMd DEF MdPc
  <2>5. Waiting' = Waiting
    BY <1>t, <1>d, <2>2, <2>4, SMTT(30) DEF Waiting, MdInHand, One
  <2>6. Lost' = Lost
    BY <2>3 DEF Lost
  <2>7. EveryTickAccounted'
    BY <1>0, <1>t, <1>b, <2>3, <2>5, <2>6 DEF EveryTickAccounted
  <2>8. CountersMatch'
    BY <1>0, <1>t, <1>b, <1>d, <2>1, <2>2, <2>3 DEF CountersMatch, One
  <2>9. DroppedCoversEvictions'
    BY <1>0, <1>t, <2>1, <2>2, <2>3 DEF DroppedCoversEvictions, One
  <2>10. QED BY <2>7, <2>8, <2>9 DEF Books
<1>3. CASE PushOverwrite
  <2>1. Goto("md", "dropped") /\ pc["md"] = "overwrite"
    BY <1>3 DEF PushOverwrite
  <2>2. pc'["md"] = "dropped"
    BY <1>0, <2>1, GotoMd DEF MdPc
  <2>3. offered' = offered /\ stats' = stats /\ swallowed' = swallowed
    BY <1>3 DEF PushOverwrite
  <2>4. \/ evicted' = evicted + 1 /\ Len(ring') = Len(ring)
        \/ evicted' = evicted /\ Len(ring') = Len(ring) + 1
    <3>1. /\ Len(Append(ring, offered)) = Len(ring) + 1
          /\ Len(ring) \in Nat /\ Capacity \in Nat \ {0}
      BY <1>0, TickSeqs, PipelineAssumption DEF TypeOK
    <3>2. CASE Len(ring) = Capacity
      <4>1. ring # <<>>
        BY <1>0, <3>1, <3>2, TickSeqs DEF TypeOK
      <4>2. Tail(ring) \in Seq(Nat) /\ Len(Tail(ring)) = Len(ring) - 1
        BY <1>0, <4>1, TickSeqs DEF TypeOK
      <4>3. Len(Append(Tail(ring), offered)) = Len(Tail(ring)) + 1
        BY <1>t, <4>2, TickSeqs
      <4>4. ring' = Append(Tail(ring), offered) /\ evicted' = evicted + 1
        BY <3>1, <1>3, <3>2 DEF PushOverwrite
      <4>5. Len(ring') = Len(ring)
        BY <3>1, <4>2, <4>3, <4>4
      <4>6. QED BY <4>4, <4>5
    <3>3. CASE Len(ring) < Capacity
      <4>1. ring' = Append(ring, offered) /\ evicted' = evicted
        BY <3>1, <1>3, <3>3 DEF PushOverwrite
      <4>2. QED BY <1>t, <3>1, <4>1
    <3>4. QED BY <1>3, <3>2, <3>3 DEF PushOverwrite
  <2>5. \/ evicted' = evicted + 1 /\ Waiting' = Waiting - 1
        \/ evicted' = evicted /\ Waiting' = Waiting
    <3>1. MdInHand = 1 /\ MdInHand' = 0
      BY <2>1, <2>2 DEF MdInHand, One
    <3>2. /\ Waiting = Len(ring) + Len(Undelivered) + 1
          /\ Waiting' = Len(ring') + Len(Undelivered) + 0
      BY <1>d, <3>1 DEF Waiting
    <3>3. CASE evicted' = evicted + 1 /\ Len(ring') = Len(ring)
      BY <1>t, <3>2, <3>3
    <3>4. CASE evicted' = evicted /\ Len(ring') = Len(ring) + 1
      BY <1>t, <3>2, <3>4
    <3>5. QED BY <2>4, <3>3, <3>4
  <2>6. \/ Waiting' = Waiting - 1 /\ Lost' = Lost + 1
        \/ Waiting' = Waiting /\ Lost' = Lost
    BY <1>t, <2>3, <2>5, SMTT(40) DEF Lost
  <2>7. EveryTickAccounted'
    BY <1>0, <1>t, <1>b, <2>3, <2>6, SMTT(40) DEF EveryTickAccounted
  <2>8. CountersMatch'
    BY <1>0, <1>t, <1>b, <1>d, <2>1, <2>2, <2>3 DEF CountersMatch, One
  <2>9. DroppedCoversEvictions'
    BY <1>0, <1>t, <2>1, <2>2, <2>3, <2>4 DEF DroppedCoversEvictions, One
  <2>10. QED BY <2>7, <2>8, <2>9 DEF Books
<1>4. CASE CountDropped \/ CountReceived
  <2>1. PICK c \in {"option_dropped_count", "ticks_received"} :
          /\ Count(c)
          /\ c = "option_dropped_count" => pc["md"] = "dropped" /\ Goto("md", "received")
          /\ c = "ticks_received" => pc["md"] = "received" /\ Goto("md", "idle")
    BY <1>4 DEF CountDropped, CountReceived
  <2>2. /\ stats'[c] = stats[c] + 1 /\ \A e \in Counters : e # c => stats'[e] = stats[e]
    BY <1>0, <2>1, CountEffect DEF Counters
  <2>3. /\ c = "option_dropped_count" => pc["md"] = "dropped" /\ pc'["md"] = "received"
        /\ c = "ticks_received" => pc["md"] = "received" /\ pc'["md"] = "idle"
    BY <1>0, <2>1, GotoMd DEF MdPc
  <2>4. offered' = offered /\ ring' = ring /\ evicted' = evicted /\ swallowed' = swallowed
    BY <1>4 DEF CountDropped, CountReceived
  <2>5. Waiting' = Waiting
    BY <1>t, <1>d, <2>1, <2>3, <2>4, SMTT(30) DEF Waiting, MdInHand, One
  <2>6. Lost' = Lost
    BY <2>1, <2>2, <2>4 DEF Lost, Counters
  <2>7. EveryTickAccounted'
    BY <1>0, <1>t, <1>b, <2>4, <2>5, <2>6 DEF EveryTickAccounted
  <2>8. stats'["ticks_sent"] = stats["ticks_sent"]
    BY <2>1, <2>2 DEF Counters
  <2>9. stats'["ticks_received"] + One(pc'["md"] # "idle")
          = stats["ticks_received"] + One(pc["md"] # "idle")
    BY <1>t, <2>1, <2>2, <2>3 DEF Counters, One
  <2>10. One(pc'["md"] = "sent") = One(pc["md"] = "sent")
    BY <2>1, <2>3 DEF One
  <2>11. CountersMatch'
    BY <1>0, <1>b, <1>d, <2>4, <2>8, <2>9, <2>10 DEF CountersMatch
  <2>12. stats'["option_dropped_count"] + One(pc'["md"] = "dropped")
           = stats["option_dropped_count"] + One(pc["md"] = "dropped")
    BY <1>t, <2>1, <2>2, <2>3 DEF Counters, One
  <2>13. DroppedCoversEvictions'
    BY <1>0, <2>4, <2>12 DEF DroppedCoversEvictions
  <2>14. QED BY <2>7, <2>11, <2>13 DEF Books
<1>5. QED BY <1>1, <1>2, <1>3, <1>4

(* The dispatch thread moves ticks between the ring and its batch. *)
LEMMA DispBooks ==
  ASSUME Control, Books, DispatchHead \/ PopOne \/ PopDone \/ DrainPop \/ DrainEnd
  PROVE  Books'
<1> USE DEF ownerVars, ringVars, sendVars, ghostVars
<1>0. TypeOK /\ BatchShape /\ EveryTickAccounted /\ CountersMatch /\ DroppedCoversEvictions
  BY DEF Control, Books
<1>t. Len(ring) \in Nat /\ Len(batch) \in Nat
  BY BookTypes
<1>1. /\ offered' = offered /\ bus' = bus /\ stats' = stats
      /\ evicted' = evicted /\ swallowed' = swallowed
  BY DEF DispatchHead, PopOne, PopDone, DrainPop, DrainEnd
<1>2. /\ pc'["md"] = pc["md"] /\ pc["disp"] # "sent" /\ pc'["disp"] # "sent"
  <2>1. CASE PopOne
    BY <2>1 DEF PopOne
  <2>2. CASE DispatchHead \/ PopDone \/ DrainPop \/ DrainEnd
    <3>1. /\ pc["disp"] # "sent"
          /\ \E l \in {"pop", "drain", "head", "send", "exit"} : Goto("disp", l)
      BY <2>2 DEF DispatchHead, PopDone, DrainPop, DrainEnd
    <3>2. PICK l \in {"pop", "drain", "head", "send", "exit"} : Goto("disp", l)
      BY <3>1
    <3>3. QED BY <1>0, <3>1, <3>2, GotoDisp DEF DispPc
  <2>3. QED BY <2>1, <2>2
<1>3. Len(ring') + Len(batch') = Len(ring) + Len(batch)
  <2>1. CASE PopOne
    <3>1. ring # <<>> /\ ring' = Tail(ring) /\ batch' = Append(batch, Head(ring))
      BY <2>1 DEF PopOne
    <3>2. Head(ring) \in Nat /\ Len(Tail(ring)) = Len(ring) - 1
      BY <1>0, <3>1, TickSeqs DEF TypeOK
    <3>3. Len(Append(batch, Head(ring))) = Len(batch) + 1
      BY <1>0, <3>2, TickSeqs DEF TypeOK
    <3>4. QED BY <1>t, <3>1, <3>2, <3>3
  <2>2. CASE DrainPop
    <3>1. ring # <<>> /\ ring' = Tail(ring) /\ batch' = <<Head(ring)>> /\ batch = <<>>
      BY <1>0, <2>2 DEF DrainPop, BatchShape
    <3>2. Len(Tail(ring)) = Len(ring) - 1
      BY <1>0, <3>1, TickSeqs DEF TypeOK
    <3>3. Len(batch) = 0 /\ Len(batch') = 1
      BY <3>1
    <3>4. QED BY <1>t, <3>1, <3>2, <3>3
  <2>3. CASE DispatchHead \/ PopDone \/ DrainEnd
    BY <2>3 DEF DispatchHead, PopDone, DrainEnd
  <2>4. QED BY <2>1, <2>2, <2>3
<1>4. Undelivered = batch /\ Undelivered' = batch'
  BY <1>2 DEF Undelivered
<1>5. MdInHand' = MdInHand
  BY <1>2 DEF MdInHand
<1>6. Waiting' = Waiting
  BY <1>3, <1>4, <1>5 DEF Waiting
<1>7. Published' = Published /\ Lost' = Lost
  BY <1>1 DEF Published, Lost
<1>8. EveryTickAccounted'
  BY <1>0, <1>1, <1>6, <1>7 DEF EveryTickAccounted
<1>9. CountersMatch' /\ DroppedCoversEvictions'
  BY <1>0, <1>1, <1>2, <1>7 DEF CountersMatch, DroppedCoversEvictions, One
<1>10. QED BY <1>8, <1>9 DEF Books

LEMMA PublishCounts ==
  ASSUME Control, NEW t \in Threads, pc[t] \in {"send", "locked"}, Publish(t)
  PROVE  Published' = Published + 1
<1>1. Len(bus["quote"]) \in Nat /\ Len(bus["send_compute_greeks"]) \in Nat
  BY BookTypes
<1>2. \A a, b \in Nat : (a + 1) + b = (a + b) + 1 /\ a + (b + 1) = (a + b) + 1
  OBVIOUS
<1>3. CASE t = "md"
  <2>1. /\ Len(bus'["quote"]) = Len(bus["quote"]) + 1
        /\ Len(bus'["send_compute_greeks"]) = Len(bus["send_compute_greeks"])
    BY <1>3, PublishEffect
  <2>2. QED BY <1>1, <1>2, <2>1 DEF Published
<1>4. CASE t = "disp"
  <2>1. /\ Len(bus'["quote"]) = Len(bus["quote"])
        /\ Len(bus'["send_compute_greeks"]) = Len(bus["send_compute_greeks"]) + 1
    BY <1>4, PublishEffect
  <2>2. QED BY <1>1, <1>2, <2>1 DEF Published
<1>5. QED BY <1>3, <1>4 DEF Threads

(* One loss more in one of the three places a send can lose a tick. *)
LEMMA LossCounted ==
  ASSUME Control, evicted' = evicted,
         \/ /\ swallowed' = swallowed + 1
            /\ stats'["option_err_count"] = stats["option_err_count"]
            /\ stats'["shm_write_fail_count"] = stats["shm_write_fail_count"]
         \/ /\ swallowed' = swallowed
            /\ stats'["option_err_count"] = stats["option_err_count"] + 1
            /\ stats'["shm_write_fail_count"] = stats["shm_write_fail_count"]
         \/ /\ swallowed' = swallowed
            /\ stats'["option_err_count"] = stats["option_err_count"]
            /\ stats'["shm_write_fail_count"] = stats["shm_write_fail_count"] + 1
  PROVE  Lost' = Lost + 1
<1>1. /\ evicted \in Nat /\ swallowed \in Nat
      /\ stats["option_err_count"] \in Nat /\ stats["shm_write_fail_count"] \in Nat
  BY BookTypes
<1>2. \A a, b, c, d \in Nat : /\ a + (b + 1) + c + d = (a + b + c + d) + 1
                             /\ a + b + (c + 1) + d = (a + b + c + d) + 1
                             /\ a + b + c + (d + 1) = (a + b + c + d) + 1
  OBVIOUS
<1>3. QED BY <1>1, <1>2 DEF Lost

(* A send moves its tick from the sender's hands to the bus or to a loss. *)
LEMMA SendBooks ==
  ASSUME Control, Books, NEW t \in Threads, Send(t)
  PROVE  Books'
<1> USE DEF ownerVars, ringVars, sendVars, ghostVars
<1>0. TypeOK /\ BatchShape /\ EveryTickAccounted /\ CountersMatch /\ DroppedCoversEvictions
  BY DEF Control, Books
<1>t. /\ offered \in Nat /\ evicted \in Nat /\ swallowed \in Nat
      /\ Len(ring) \in Nat /\ Len(batch) \in Nat /\ Len(Undelivered) \in Nat
      /\ stats["ticks_received"] \in Nat /\ stats["ticks_sent"] \in Nat
      /\ stats["option_dropped_count"] \in Nat /\ stats["option_err_count"] \in Nat
      /\ stats["shm_write_fail_count"] \in Nat
      /\ Published \in Nat /\ Waiting \in Nat /\ Lost \in Nat
  BY BookTypes
<1>m. MdInHand \in Nat
  BY DEF MdInHand, One
<1>1. /\ offered' = offered /\ ring' = ring /\ evicted' = evicted
      /\ stats'["ticks_received"] = stats["ticks_received"]
      /\ stats'["option_dropped_count"] = stats["option_dropped_count"]
  <2>1. offered' = offered /\ ring' = ring /\ evicted' = evicted
    BY DEF Send, SendZmq, CountSent, SendThrows, LockShm, WriteShm
  <2>2. \/ stats' = stats
        \/ \E c \in {"ticks_sent", "option_err_count", "shm_write_fail_count"} : Count(c)
    BY DEF Send, SendZmq, CountSent, SendThrows, LockShm, WriteShm
  <2>3. QED BY <1>0, <2>1, <2>2, CountEffect DEF Counters
<1>2. CASE t = "md"
  <2>1. \E l \in {"sent", "received", "thrown", "locked"} : Goto("md", l)
    BY <1>2 DEF Send, SendZmq, CountSent, SendThrows, LockShm, WriteShm, Finish
  <2>2. pc'["disp"] = pc["disp"] /\ pc'["md"] \in {"sent", "received", "thrown", "locked"}
    BY <1>0, <2>1, GotoMd DEF MdPc
  <2>3. batch' = batch
    BY <1>2 DEF Send, SendZmq, CountSent, SendThrows, LockShm, WriteShm, Finish
  <2>4. Undelivered' = Undelivered
    BY <2>2, <2>3 DEF Undelivered
  <2>5. CASE SendZmq("md")
    <3>1. pc["md"] = "send" /\ Goto("md", "sent") /\ Publish("md") /\ stats' = stats
          /\ swallowed' = swallowed
      BY <2>5 DEF SendZmq
    <3>2. pc'["md"] = "sent"
      BY <1>0, <3>1, GotoMd DEF MdPc
    <3>3. Published' = Published + 1
      BY <1>2, <3>1, PublishCounts DEF Threads
    <3>4. Waiting' = Waiting - 1
      BY <1>t, <1>1, <2>4, <3>1, <3>2, SMTT(30) DEF Waiting, MdInHand, One
    <3>5. Lost' = Lost
      BY <1>1, <3>1 DEF Lost
    <3>6. EveryTickAccounted'
      BY <1>0, <1>t, <1>1, <3>3, <3>4, <3>5 DEF EveryTickAccounted
    <3>7. CountersMatch'
      BY <1>0, <1>t, <1>1, <2>2, <3>1, <3>2, <3>3 DEF CountersMatch, One
    <3>8. DroppedCoversEvictions'
      BY <1>0, <1>t, <1>1, <3>1, <3>2 DEF DroppedCoversEvictions, One
    <3>9. QED BY <3>6, <3>7, <3>8 DEF Books
  <2>6. CASE CountSent("md")
    <3>1. pc["md"] = "sent" /\ Count("ticks_sent") /\ Goto("md", "received")
          /\ bus' = bus /\ swallowed' = swallowed
      BY <2>6 DEF CountSent, Finish
    <3>2. pc'["md"] = "received"
      BY <1>0, <3>1, GotoMd DEF MdPc
    <3>3. /\ stats'["ticks_sent"] = stats["ticks_sent"] + 1
          /\ stats'["option_err_count"] = stats["option_err_count"]
          /\ stats'["shm_write_fail_count"] = stats["shm_write_fail_count"]
      BY <1>0, <3>1, CountEffect DEF Counters
    <3>4. Published' = Published
      BY <3>1 DEF Published
    <3>5. Waiting' = Waiting
      BY <1>t, <1>1, <2>4, <3>1, <3>2, SMTT(30) DEF Waiting, MdInHand, One
    <3>6. Lost' = Lost
      BY <1>1, <3>1, <3>3 DEF Lost
    <3>7. EveryTickAccounted'
      BY <1>0, <1>t, <1>1, <3>4, <3>5, <3>6 DEF EveryTickAccounted
    <3>8. CountersMatch'
      BY <1>0, <1>t, <1>1, <2>2, <3>1, <3>2, <3>3, <3>4 DEF CountersMatch, One
    <3>9. DroppedCoversEvictions'
      BY <1>0, <1>t, <1>1, <3>1, <3>2 DEF DroppedCoversEvictions, One
    <3>10. QED BY <3>7, <3>8, <3>9 DEF Books
  <2>7. CASE SendThrows("md") \/ LockShm("md")
    <3>1. pc["md"] = "send" /\ (Goto("md", "thrown") \/ Goto("md", "locked"))
          /\ bus' = bus /\ stats' = stats /\ swallowed' = swallowed
      BY <2>7 DEF SendThrows, LockShm
    <3>2. pc'["md"] \in {"thrown", "locked"}
      BY <1>0, <3>1, GotoMd DEF MdPc
    <3>3. Published' = Published /\ Lost' = Lost
      BY <1>1, <3>1 DEF Published, Lost
    <3>4. Waiting' = Waiting
      BY <1>t, <1>1, <2>4, <3>1, <3>2, SMTT(30) DEF Waiting, MdInHand, One
    <3>5. EveryTickAccounted'
      BY <1>0, <1>t, <1>1, <3>3, <3>4 DEF EveryTickAccounted
    <3>6. CountersMatch' /\ DroppedCoversEvictions'
      BY <1>0, <1>t, <1>1, <2>2, <3>1, <3>2, <3>3
         DEF CountersMatch, DroppedCoversEvictions, One
    <3>7. QED BY <3>5, <3>6 DEF Books
  <2>8. CASE WriteShm("md")
    <3>1. pc["md"] = "locked" /\ Goto("md", "received") /\ swallowed' = swallowed
      BY <2>8 DEF WriteShm, Finish
    <3>2. pc'["md"] = "received"
      BY <1>0, <3>1, GotoMd DEF MdPc
    <3>3. Waiting' = Waiting - 1
      BY <1>t, <1>1, <2>4, <3>1, <3>2, SMTT(30) DEF Waiting, MdInHand, One
    <3>4. \/ Publish("md") /\ Count("ticks_sent")
          \/ bus' = bus /\ Count("shm_write_fail_count")
      BY <2>8 DEF WriteShm
    <3>5. \/ Published' = Published + 1 /\ Count("ticks_sent")
          \/ Published' = Published /\ Count("shm_write_fail_count")
      BY <1>2, <3>1, <3>4, PublishCounts DEF Published, Threads
    <3>6. \/ /\ Published' = Published + 1
             /\ stats'["ticks_sent"] = stats["ticks_sent"] + 1
             /\ stats'["option_err_count"] = stats["option_err_count"]
             /\ stats'["shm_write_fail_count"] = stats["shm_write_fail_count"]
          \/ /\ Published' = Published
             /\ stats'["ticks_sent"] = stats["ticks_sent"]
             /\ stats'["option_err_count"] = stats["option_err_count"]
             /\ stats'["shm_write_fail_count"] = stats["shm_write_fail_count"] + 1
      BY <1>0, <3>5, CountEffect DEF Counters
    <3>7. \/ Published' = Published + 1 /\ Lost' = Lost
          \/ Published' = Published /\ Lost' = Lost + 1
      <4>1. CASE Published' = Published
        BY <1>1, <1>t, <3>1, <3>6, <4>1, LossCounted
      <4>2. CASE Published' = Published + 1
        <5>1. /\ stats'["option_err_count"] = stats["option_err_count"]
              /\ stats'["shm_write_fail_count"] = stats["shm_write_fail_count"]
          BY <1>t, <3>6, <4>2
        <5>2. QED BY <1>1, <3>1, <4>2, <5>1 DEF Lost
      <4>3. QED BY <3>6, <4>1, <4>2
    <3>8. EveryTickAccounted'
      BY <1>0, <1>t, <1>1, <3>3, <3>7, SMTT(60) DEF EveryTickAccounted
    <3>9. CountersMatch'
      BY <1>0, <1>t, <1>1, <2>2, <3>1, <3>2, <3>6, SMTT(40) DEF CountersMatch, One
    <3>10. DroppedCoversEvictions'
      BY <1>0, <1>t, <1>1, <3>1, <3>2 DEF DroppedCoversEvictions, One
    <3>11. QED BY <3>8, <3>9, <3>10 DEF Books
  <2>9. QED BY <1>2, <2>5, <2>6, <2>7, <2>8 DEF Send
<1>3. CASE t = "disp"
  <2>1. batch # <<>> \/ ~(pc["disp"] \in {"send", "sent", "locked"})
    BY <1>0 DEF BatchShape
  <2>2. pc["disp"] \in {"send", "sent", "locked"} /\ batch # <<>>
    BY <1>3, <2>1 DEF Send, SendZmq, CountSent, SendThrows, LockShm, WriteShm
  <2>3. batch \in Seq(Nat) /\ Len(Tail(batch)) = Len(batch) - 1
    BY <1>0, <2>2, TickSeqs DEF TypeOK
  <2>4. CASE SendZmq("disp")
    <3>1. pc["disp"] = "send" /\ Goto("disp", "sent") /\ Publish("disp") /\ stats' = stats
          /\ swallowed' = swallowed /\ batch' = batch
      BY <2>4 DEF SendZmq
    <3>2. pc'["disp"] = "sent" /\ pc'["md"] = pc["md"]
      BY <1>0, <3>1, GotoDisp DEF DispPc
    <3>3. Published' = Published + 1
      BY <1>3, <3>1, PublishCounts DEF Threads
    <3>4. Len(Undelivered') = Len(Undelivered) - 1
      BY <2>3, <3>1, <3>2 DEF Undelivered
    <3>5. MdInHand' = MdInHand
      BY <3>2 DEF MdInHand
    <3>6. Waiting' = Waiting - 1
      BY <1>t, <1>1, <3>4, <3>5, SMTT(30) DEF Waiting, MdInHand, One
    <3>7. Lost' = Lost
      BY <1>1, <3>1 DEF Lost
    <3>8. EveryTickAccounted'
      BY <1>0, <1>t, <1>1, <3>3, <3>6, <3>7 DEF EveryTickAccounted
    <3>9. CountersMatch'
      BY <1>0, <1>t, <1>1, <3>1, <3>2, <3>3 DEF CountersMatch, One
    <3>10. DroppedCoversEvictions'
      BY <1>0, <1>t, <1>1, <3>1, <3>2 DEF DroppedCoversEvictions, One
    <3>11. QED BY <3>8, <3>9, <3>10 DEF Books
  <2>5. CASE LockShm("disp")
    <3>1. pc["disp"] = "send" /\ Goto("disp", "locked") /\ bus' = bus /\ stats' = stats
          /\ swallowed' = swallowed /\ batch' = batch
      BY <2>5 DEF LockShm
    <3>2. pc'["disp"] = "locked" /\ pc'["md"] = pc["md"]
      BY <1>0, <3>1, GotoDisp DEF DispPc
    <3>3. Undelivered' = Undelivered /\ MdInHand' = MdInHand
      BY <3>1, <3>2 DEF Undelivered, MdInHand
    <3>4. Waiting' = Waiting
      BY <1>1, <3>3 DEF Waiting
    <3>5. Published' = Published /\ Lost' = Lost
      BY <1>1, <3>1 DEF Published, Lost
    <3>6. EveryTickAccounted'
      BY <1>0, <1>1, <3>4, <3>5 DEF EveryTickAccounted
    <3>7. CountersMatch' /\ DroppedCoversEvictions'
      BY <1>0, <1>t, <1>1, <3>1, <3>2, <3>5
         DEF CountersMatch, DroppedCoversEvictions, One
    <3>8. QED BY <3>6, <3>7 DEF Books
  <2>6. CASE CountSent("disp") \/ SendThrows("disp") \/ WriteShm("disp")
    <3>1. Finish("disp")
      BY <2>6 DEF CountSent, SendThrows, WriteShm
    <3>2. /\ pc'["md"] = pc["md"] /\ pc'["disp"] \in {"send", "drain", "head"}
          /\ batch' = Tail(batch)
      BY <2>2, <3>1, FinishEffect DEF Threads
    <3>3. Undelivered' = Tail(batch) /\ MdInHand' = MdInHand
      BY <3>2 DEF Undelivered, MdInHand
    <3>4. CASE CountSent("disp")
      <4>1. pc["disp"] = "sent" /\ Count("ticks_sent") /\ bus' = bus
            /\ swallowed' = swallowed
        BY <3>4 DEF CountSent
      <4>2. Waiting' = Waiting
        BY <1>1, <3>3, <4>1 DEF Waiting, Undelivered
      <4>3. /\ stats'["ticks_sent"] = stats["ticks_sent"] + 1
            /\ stats'["option_err_count"] = stats["option_err_count"]
            /\ stats'["shm_write_fail_count"] = stats["shm_write_fail_count"]
        BY <1>0, <4>1, CountEffect DEF Counters
      <4>4. Published' = Published /\ Lost' = Lost
        BY <1>1, <4>1, <4>3 DEF Published, Lost
      <4>5. EveryTickAccounted'
        BY <1>0, <1>1, <4>2, <4>4 DEF EveryTickAccounted
      <4>6. CountersMatch'
        BY <1>0, <1>t, <1>1, <3>2, <4>1, <4>3, <4>4, SMTT(40) DEF CountersMatch, One
      <4>7. DroppedCoversEvictions'
        BY <1>0, <1>t, <1>1, <3>2 DEF DroppedCoversEvictions, One
      <4>8. QED BY <4>5, <4>6, <4>7 DEF Books
    <3>5. CASE SendThrows("disp") \/ WriteShm("disp")
      <4>1. pc["disp"] \in {"send", "locked"}
        BY <3>5 DEF SendThrows, WriteShm
      <4>2. Len(Undelivered') = Len(Undelivered) - 1
        BY <2>3, <3>3, <4>1 DEF Undelivered
      <4>3. Waiting' = Waiting - 1
        <5>1. \A a, b, c \in Nat : a + (b - 1) + c = (a + b + c) - 1
          OBVIOUS
        <5>2. Waiting' = Len(ring) + (Len(Undelivered) - 1) + MdInHand
          BY <1>1, <3>3, <4>2 DEF Waiting
        <5>3. QED BY <1>t, <1>m, <5>1, <5>2 DEF Waiting
      <4>4. \/ Publish("disp") /\ Count("ticks_sent") /\ swallowed' = swallowed
            \/ bus' = bus /\ Count("shm_write_fail_count") /\ swallowed' = swallowed
            \/ bus' = bus /\ Count("option_err_count") /\ swallowed' = swallowed
            \/ bus' = bus /\ stats' = stats /\ swallowed' = swallowed + 1
        BY <3>5 DEF SendThrows, WriteShm
      <4>5. \/ Published' = Published + 1 /\ Count("ticks_sent") /\ swallowed' = swallowed
            \/ Published' = Published /\ Count("shm_write_fail_count") /\ swallowed' = swallowed
            \/ Published' = Published /\ Count("option_err_count") /\ swallowed' = swallowed
            \/ Published' = Published /\ stats' = stats /\ swallowed' = swallowed + 1
        BY <4>1, <4>4, PublishCounts DEF Published, Threads
      <4>6. \/ /\ Published' = Published + 1
               /\ stats'["ticks_sent"] = stats["ticks_sent"] + 1
               /\ stats'["option_err_count"] = stats["option_err_count"]
               /\ stats'["shm_write_fail_count"] = stats["shm_write_fail_count"]
               /\ swallowed' = swallowed
            \/ /\ Published' = Published
               /\ stats'["ticks_sent"] = stats["ticks_sent"]
               /\ stats'["option_err_count"] = stats["option_err_count"]
               /\ stats'["shm_write_fail_count"] = stats["shm_write_fail_count"] + 1
               /\ swallowed' = swallowed
            \/ /\ Published' = Published
               /\ stats'["ticks_sent"] = stats["ticks_sent"]
               /\ stats'["option_err_count"] = stats["option_err_count"] + 1
               /\ stats'["shm_write_fail_count"] = stats["shm_write_fail_count"]
               /\ swallowed' = swallowed
            \/ /\ Published' = Published
               /\ stats'["ticks_sent"] = stats["ticks_sent"]
               /\ stats'["option_err_count"] = stats["option_err_count"]
               /\ stats'["shm_write_fail_count"] = stats["shm_write_fail_count"]
               /\ swallowed' = swallowed + 1
        BY <1>0, <4>5, CountEffect DEF Counters
      <4>7. \/ Published' = Published + 1 /\ Lost' = Lost
            \/ Published' = Published /\ Lost' = Lost + 1
        <5>1. CASE Published' = Published
          BY <1>1, <1>t, <4>6, <5>1, LossCounted
        <5>2. CASE Published' = Published + 1
          <6>1. /\ stats'["option_err_count"] = stats["option_err_count"]
                /\ stats'["shm_write_fail_count"] = stats["shm_write_fail_count"]
                /\ swallowed' = swallowed
            BY <1>t, <4>6, <5>2
          <6>2. QED BY <1>1, <5>2, <6>1 DEF Lost
        <5>3. QED BY <4>6, <5>1, <5>2
      <4>8. EveryTickAccounted'
        BY <1>0, <1>t, <1>1, <4>3, <4>7, SMTT(60) DEF EveryTickAccounted
      <4>9. \/ Published' = Published + 1 /\ stats'["ticks_sent"] = stats["ticks_sent"] + 1
            \/ Published' = Published /\ stats'["ticks_sent"] = stats["ticks_sent"]
        BY <4>6
      <4>10. CountersMatch'
        BY <1>0, <1>t, <1>1, <3>2, <4>1, <4>9, SMTT(40) DEF CountersMatch, One
      <4>11. DroppedCoversEvictions'
        BY <1>0, <1>t, <1>1, <3>2 DEF DroppedCoversEvictions, One
      <4>12. QED BY <4>8, <4>10, <4>11 DEF Books
    <3>6. QED BY <2>6, <3>4, <3>5
  <2>7. QED BY <1>3, <2>4, <2>5, <2>6 DEF Send
<1>4. QED BY <1>2, <1>3 DEF Threads

(* start(), stop() and the engine touch no tick. *)
LEMMA OwnerBooks ==
  ASSUME Control, Books, OwnerStep \/ Stop \/ EngineRead
  PROVE  Books'
<1> USE DEF ownerVars, ringVars, sendVars, ghostVars
<1>0. TypeOK /\ PhasesAgree /\ Books
  BY DEF Control
<1>1. /\ offered' = offered /\ bus' = bus /\ stats' = stats /\ ring' = ring
      /\ evicted' = evicted /\ swallowed' = swallowed /\ batch' = batch
  BY DEF OwnerStep, Stop, EngineRead, SetRunning, SpawnDispatch, JoinDispatch,
         ReleaseCtp, CloseBase
<1>2. \/ pc' = pc
      \/ pc'["md"] = pc["md"] /\ pc["disp"] # "sent" /\ pc'["disp"] # "sent"
  <2>1. CASE SpawnDispatch
    <3>1. Goto("disp", "head") /\ pc["disp"] = "off"
      BY <1>0, <2>1 DEF SpawnDispatch, PhasesAgree
    <3>2. QED BY <1>0, <3>1, GotoDisp DEF DispPc
  <2>2. CASE ~SpawnDispatch
    BY <2>2 DEF OwnerStep, Stop, EngineRead, SetRunning, JoinDispatch, ReleaseCtp, CloseBase
  <2>3. QED BY <2>1, <2>2
<1>3. Published' = Published /\ Lost' = Lost
  BY <1>1 DEF Published, Lost
<1>4. Undelivered' = Undelivered /\ MdInHand' = MdInHand
  BY <1>1, <1>2 DEF Undelivered, MdInHand
<1>5. Waiting' = Waiting
  BY <1>1, <1>4 DEF Waiting
<1>6. EveryTickAccounted'
  BY <1>0, <1>1, <1>3, <1>5 DEF Books, EveryTickAccounted
<1>7. CountersMatch' /\ DroppedCoversEvictions'
  BY <1>0, <1>1, <1>2, <1>3 DEF Books, CountersMatch, DroppedCoversEvictions, One
<1>8. QED BY <1>6, <1>7 DEF Books

LEMMA NextBooks == Control /\ Books /\ [Next]_vars => Books'
<1> SUFFICES ASSUME Control, Books, [Next]_vars PROVE Books'
  OBVIOUS
<1>1. CASE UNCHANGED vars
  <2>1. /\ pc' = pc /\ offered' = offered /\ bus' = bus /\ stats' = stats
        /\ ring' = ring /\ batch' = batch /\ evicted' = evicted /\ swallowed' = swallowed
    BY <1>1 DEF vars, ownerVars, ringVars, sendVars, ghostVars
  <2>2. QED BY <2>1 DEF Books, EveryTickAccounted, CountersMatch, DroppedCoversEvictions,
                        Published, Waiting, Lost, Undelivered, MdInHand, One
<1>2. CASE \E i \in Instruments : OnQuote(i)
  BY <1>2, MdBooks
<1>3. CASE MdStep
  <2>1. EmptyId \in Instruments
    BY PipelineAssumption
  <2>2. QED BY <1>3, <2>1, MdBooks, SendBooks DEF MdStep, Threads
<1>4. CASE DispStep
  BY <1>4, DispBooks, SendBooks DEF DispStep, Threads
<1>5. CASE OwnerStep \/ Stop \/ EngineRead
  BY <1>5, OwnerBooks
<1>6. QED BY <1>1, <1>2, <1>3, <1>4, <1>5 DEF Next, Terminated

-----------------------------------------------------------------------------
(* What a step does to the two streams: the callback hands over a tick,    *)
(* queues it, or is done with a future; the dispatch thread takes a tick   *)
(* from the ring, or is done with one; or neither stream notices.          *)

SameMd   == pc'["md"] = pc["md"]
SameDisp == pc'["disp"] = pc["disp"] /\ batch' = batch

Arrival ==
  /\ pc["md"] = "idle" /\ pc'["md"] \in {"push", "send"} /\ offered' = offered + 1
  /\ SameDisp /\ UNCHANGED <<ring, bus>>

Queueing ==
  /\ pc["md"] \in {"push", "overwrite"} /\ pc'["md"] \in {"received", "dropped"}
  /\ \/ Len(ring) < Capacity /\ ring' = Append(ring, offered)
     \/ Len(ring) = Capacity /\ ring' = Append(Tail(ring), offered)
  /\ SameDisp /\ UNCHANGED <<offered, bus>>

FutureDone ==
  /\ pc["md"] \in {"send", "locked"} /\ pc'["md"] \in {"sent", "received", "thrown"}
  /\ bus' = bus \/ (bus' = [bus EXCEPT !["quote"] = Append(@, offered)] /\ pc'["md"] # "thrown")
  /\ SameDisp /\ UNCHANGED <<offered, ring>>

MdQuiet ==
  /\ \/ pc["md"] = "push" /\ pc'["md"] = "overwrite"
     \/ pc["md"] = "send" /\ pc'["md"] = "locked"
     \/ /\ pc["md"] \notin {"push", "overwrite", "send", "locked", "thrown"}
        /\ pc'["md"] \notin {"push", "overwrite", "send", "locked", "thrown"}
     \/ SameMd
  /\ SameDisp /\ UNCHANGED <<offered, ring, bus>>

Taking ==
  /\ pc["disp"] \in {"pop", "drain"} /\ pc'["disp"] \in {"pop", "send"}
  /\ ring # <<>> /\ (Len(batch) < BatchSize \/ batch = <<>>)
  /\ batch' = Append(batch, Head(ring)) /\ ring' = Tail(ring)
  /\ SameMd /\ UNCHANGED <<offered, bus>>

OptionDone ==
  /\ pc["disp"] \in {"send", "locked"} /\ batch # <<>>
  /\ bus' = bus \/ bus' = [bus EXCEPT !["send_compute_greeks"] = Append(@, Head(batch))]
  /\ \/ pc'["disp"] = "sent" /\ batch' = batch
     \/ pc'["disp"] # "sent" /\ batch' = Tail(batch)
  /\ SameMd /\ UNCHANGED <<offered, ring>>

DispQuiet ==
  /\ \/ pc["disp"] = "sent" /\ pc'["disp"] # "sent" /\ batch # <<>> /\ batch' = Tail(batch)
     \/ pc["disp"] # "sent" /\ pc'["disp"] # "sent" /\ batch' = batch
  /\ SameMd /\ UNCHANGED <<offered, ring, bus>>

StreamStep ==
  Arrival \/ Queueing \/ FutureDone \/ MdQuiet \/ Taking \/ OptionDone \/ DispQuiet

LEMMA MdStreamStep ==
  ASSUME Control, NEW i \in Instruments,
         OnQuote(i) \/ TryPush \/ PushOverwrite \/ CountDropped \/ CountReceived
  PROVE  StreamStep
<1> USE DEF ringVars, sendVars, ghostVars
<1>0. TypeOK
  BY DEF Control
<1>1. CASE OnQuote(i)
  <2>1. PICK l \in {"push", "send"} : Goto("md", l)
    BY <1>1 DEF OnQuote
  <2>2. pc'["md"] = l /\ pc'["disp"] = pc["disp"]
    BY <1>0, <2>1, GotoMd DEF MdPc
  <2>3. Arrival
    BY <1>1, <2>1, <2>2 DEF OnQuote, Arrival, SameDisp
  <2>4. QED BY <2>3 DEF StreamStep
<1>2. CASE TryPush
  <2>1. CASE Goto("md", "received") /\ Len(ring) < Capacity /\ ring' = Append(ring, offered)
    <3>1. pc'["md"] = "received" /\ pc'["disp"] = pc["disp"]
      BY <1>0, <2>1, GotoMd DEF MdPc
    <3>2. Queueing
      BY <1>2, <2>1, <3>1 DEF TryPush, Queueing, SameDisp
    <3>3. QED BY <3>2 DEF StreamStep
  <2>2. CASE Goto("md", "overwrite") /\ ring' = ring
    <3>1. pc'["md"] = "overwrite" /\ pc'["disp"] = pc["disp"]
      BY <1>0, <2>2, GotoMd DEF MdPc
    <3>2. MdQuiet
      BY <1>2, <2>2, <3>1 DEF TryPush, MdQuiet, SameDisp
    <3>3. QED BY <3>2 DEF StreamStep
  <2>3. QED BY <1>2, <2>1, <2>2 DEF TryPush
<1>3. CASE PushOverwrite
  <2>1. pc["md"] = "overwrite" /\ Goto("md", "dropped")
    BY <1>3 DEF PushOverwrite
  <2>2. pc'["md"] = "dropped" /\ pc'["disp"] = pc["disp"]
    BY <1>0, <2>1, GotoMd DEF MdPc
  <2>3. Queueing
    BY <1>3, <2>1, <2>2 DEF PushOverwrite, Queueing, SameDisp
  <2>4. QED BY <2>3 DEF StreamStep
<1>4. CASE CountDropped \/ CountReceived
  <2>1. PICK l \in {"received", "idle"} : Goto("md", l)
    BY <1>4 DEF CountDropped, CountReceived
  <2>2. pc'["md"] = l /\ pc'["disp"] = pc["disp"]
    BY <1>0, <2>1, GotoMd DEF MdPc
  <2>3. MdQuiet
    BY <1>4, <2>1, <2>2 DEF CountDropped, CountReceived, MdQuiet, SameDisp
  <2>4. QED BY <2>3 DEF StreamStep
<1>5. QED BY <1>1, <1>2, <1>3, <1>4

LEMMA DispStreamStep ==
  ASSUME Control, DispatchHead \/ PopOne \/ PopDone \/ DrainPop \/ DrainEnd
  PROVE  StreamStep
<1> USE DEF ringVars, sendVars, ghostVars
<1>0. TypeOK /\ BatchShape
  BY DEF Control
<1>1. CASE DispatchHead \/ PopDone \/ DrainEnd
  <2>1. PICK l \in {"pop", "drain", "head", "send", "exit"} : Goto("disp", l)
    BY <1>1 DEF DispatchHead, PopDone, DrainEnd
  <2>2. pc'["disp"] = l /\ pc'["md"] = pc["md"]
    BY <1>0, <2>1, GotoDisp DEF DispPc
  <2>3. DispQuiet
    BY <1>1, <2>1, <2>2 DEF DispatchHead, PopDone, DrainEnd, DispQuiet, SameMd
  <2>4. QED BY <2>3 DEF StreamStep
<1>2. CASE PopOne
  <2>1. Taking
    BY <1>2 DEF PopOne, Taking, SameMd
  <2>2. QED BY <2>1 DEF StreamStep
<1>3. CASE DrainPop
  <2>1. pc["disp"] = "drain" /\ Goto("disp", "send") /\ ring # <<>>
    BY <1>3 DEF DrainPop
  <2>2. pc'["disp"] = "send" /\ pc'["md"] = pc["md"]
    BY <1>0, <2>1, GotoDisp DEF DispPc
  <2>3. batch = <<>> /\ Append(batch, Head(ring)) = <<Head(ring)>>
    BY <1>0, <2>1 DEF BatchShape
  <2>4. Taking
    BY <1>3, <2>1, <2>2, <2>3 DEF DrainPop, Taking, SameMd
  <2>5. QED BY <2>4 DEF StreamStep
<1>4. QED BY <1>1, <1>2, <1>3

(* A send is done with the thread's tick, or does not touch it.            *)
LEMMA SendStreamStep ==
  ASSUME Control, NEW t \in Threads, Send(t)
  PROVE  StreamStep
<1> USE DEF ringVars, sendVars, ghostVars
<1>0. TypeOK /\ BatchShape
  BY DEF Control
<1>1. CASE SendZmq(t)
  <2>1. pc[t] = "send" /\ Goto(t, "sent") /\ Publish(t)
    BY <1>1 DEF SendZmq
  <2>2. CASE t = "md"
    <3>1. pc'["md"] = "sent" /\ pc'["disp"] = pc["disp"]
      BY <1>0, <2>1, <2>2, GotoMd DEF MdPc
    <3>2. bus' = [bus EXCEPT !["quote"] = Append(@, offered)]
      BY <2>1, <2>2 DEF Publish, Topic, Item
    <3>3. FutureDone
      BY <1>1, <2>1, <2>2, <3>1, <3>2 DEF SendZmq, FutureDone, SameDisp
    <3>4. QED BY <3>3 DEF StreamStep
  <2>3. CASE t = "disp"
    <3>1. pc'["disp"] = "sent" /\ pc'["md"] = pc["md"]
      BY <1>0, <2>1, <2>3, GotoDisp DEF DispPc
    <3>2. bus' = [bus EXCEPT !["send_compute_greeks"] = Append(@, Head(batch))]
      BY <2>1, <2>3 DEF Publish, Topic, Item
    <3>3. batch # <<>>
      BY <1>0, <2>1, <2>3 DEF BatchShape
    <3>4. OptionDone
      BY <1>1, <2>1, <2>3, <3>1, <3>2, <3>3 DEF SendZmq, OptionDone, SameMd
    <3>5. QED BY <3>4 DEF StreamStep
  <2>4. QED BY <2>2, <2>3 DEF Threads
<1>2. CASE LockShm(t)
  <2>1. pc[t] = "send" /\ Goto(t, "locked")
    BY <1>2 DEF LockShm
  <2>2. CASE t = "md"
    <3>1. pc'["md"] = "locked" /\ pc'["disp"] = pc["disp"]
      BY <1>0, <2>1, <2>2, GotoMd DEF MdPc
    <3>2. MdQuiet
      BY <1>2, <2>1, <2>2, <3>1 DEF LockShm, MdQuiet, SameDisp
    <3>3. QED BY <3>2 DEF StreamStep
  <2>3. CASE t = "disp"
    <3>1. pc'["disp"] = "locked" /\ pc'["md"] = pc["md"]
      BY <1>0, <2>1, <2>3, GotoDisp DEF DispPc
    <3>2. DispQuiet
      BY <1>2, <2>1, <2>3, <3>1 DEF LockShm, DispQuiet, SameMd
    <3>3. QED BY <3>2 DEF StreamStep
  <2>4. QED BY <2>2, <2>3 DEF Threads
<1>3. CASE SendThrows(t) /\ t = "md"
  <2>1. pc["md"] = "send" /\ Goto("md", "thrown")
    BY <1>3 DEF SendThrows
  <2>2. pc'["md"] = "thrown" /\ pc'["disp"] = pc["disp"]
    BY <1>0, <2>1, GotoMd DEF MdPc
  <2>3. FutureDone
    BY <1>3, <2>1, <2>2 DEF SendThrows, FutureDone, SameDisp
  <2>4. QED BY <2>3 DEF StreamStep
<1>4. CASE CountSent(t) \/ WriteShm(t) \/ (SendThrows(t) /\ t = "disp")
  <2>1. Finish(t) /\ pc[t] \in {"send", "sent", "locked"}
    BY <1>4 DEF CountSent, WriteShm, SendThrows
  <2>2. /\ offered' = offered /\ ring' = ring
        /\ pc[t] = "sent" => bus' = bus
        /\ bus' = bus \/ Publish(t)
    BY <1>4 DEF CountSent, WriteShm, SendThrows
  <2>3. CASE t = "md"
    <3>1. pc'["md"] = "received" /\ pc'["disp"] = pc["disp"] /\ batch' = batch
      BY <2>1, <2>3, FinishEffect
    <3>2. Publish(t) => bus' = [bus EXCEPT !["quote"] = Append(@, offered)]
      BY <2>3 DEF Publish, Topic, Item
    <3>3. CASE pc["md"] = "sent"
      <4>1. MdQuiet
        BY <2>2, <2>3, <3>1, <3>3 DEF MdQuiet, SameDisp
      <4>2. QED BY <4>1 DEF StreamStep
    <3>4. CASE pc["md"] \in {"send", "locked"}
      <4>1. FutureDone
        BY <2>2, <2>3, <3>1, <3>2, <3>4 DEF FutureDone, SameDisp
      <4>2. QED BY <4>1 DEF StreamStep
    <3>5. QED BY <2>1, <2>3, <3>3, <3>4
  <2>4. CASE t = "disp"
    <3>1. /\ pc'["md"] = pc["md"] /\ pc'["disp"] # "sent"
          /\ batch # <<>> /\ batch' = Tail(batch)
      BY <2>1, <2>4, FinishEffect
    <3>2. Publish(t) => bus' = [bus EXCEPT !["send_compute_greeks"] = Append(@, Head(batch))]
      BY <2>4 DEF Publish, Topic, Item
    <3>3. CASE pc["disp"] = "sent"
      <4>1. DispQuiet
        BY <2>2, <2>4, <3>1, <3>3 DEF DispQuiet, SameMd
      <4>2. QED BY <4>1 DEF StreamStep
    <3>4. CASE pc["disp"] \in {"send", "locked"}
      <4>1. OptionDone
        BY <2>2, <2>4, <3>1, <3>2, <3>4 DEF OptionDone, SameMd
      <4>2. QED BY <4>1 DEF StreamStep
    <3>5. QED BY <2>1, <2>4, <3>3, <3>4
  <2>5. QED BY <2>3, <2>4 DEF Threads
<1>5. QED BY <1>1, <1>2, <1>3, <1>4 DEF Send, Threads

(* Neither start() nor stop() nor the engine touches a stream.             *)
LEMMA OwnerStreamStep ==
  ASSUME Control, OwnerStep \/ Stop \/ EngineRead
  PROVE  StreamStep
<1> USE DEF ringVars, sendVars, ghostVars
<1>0. TypeOK /\ PhasesAgree
  BY DEF Control
<1>1. CASE SpawnDispatch
  <2>1. pc["disp"] = "off" /\ Goto("disp", "head")
    BY <1>0, <1>1 DEF SpawnDispatch, PhasesAgree
  <2>2. pc'["disp"] = "head" /\ pc'["md"] = pc["md"]
    BY <1>0, <2>1, GotoDisp DEF DispPc
  <2>3. DispQuiet
    BY <1>1, <2>1, <2>2 DEF SpawnDispatch, DispQuiet, SameMd
  <2>4. QED BY <2>3 DEF StreamStep
<1>2. CASE SetRunning \/ Stop \/ JoinDispatch \/ ReleaseCtp \/ CloseBase \/ EngineRead
  <2>1. UNCHANGED <<pc, offered, ring, batch, bus>>
    BY <1>2 DEF SetRunning, Stop, JoinDispatch, ReleaseCtp, CloseBase, EngineRead
  <2>2. MdQuiet
    BY <2>1 DEF MdQuiet, SameMd, SameDisp
  <2>3. QED BY <2>2 DEF StreamStep
<1>3. QED BY <1>1, <1>2 DEF OwnerStep

LEMMA NextStreamStep == Control /\ [Next]_vars => StreamStep
<1> SUFFICES ASSUME Control, [Next]_vars PROVE StreamStep
  OBVIOUS
<1>1. CASE \E i \in Instruments : OnQuote(i)
  BY <1>1, MdStreamStep
<1>2. CASE TryPush \/ PushOverwrite \/ CountDropped \/ CountReceived
  BY <1>2, MdStreamStep, PipelineAssumption
<1>3. CASE DispatchHead \/ PopOne \/ PopDone \/ DrainPop \/ DrainEnd
  BY <1>3, DispStreamStep
<1>4. CASE \E t \in Threads : Send(t)
  BY <1>4, SendStreamStep
<1>5. CASE OwnerStep \/ Stop \/ EngineRead
  BY <1>5, OwnerStreamStep
<1>6. CASE UNCHANGED vars
  <2>1. MdQuiet
    BY <1>6 DEF vars, ringVars, sendVars, ghostVars, MdQuiet, SameMd, SameDisp
  <2>2. QED BY <2>1 DEF StreamStep
<1>7. QED BY <1>1, <1>2, <1>3, <1>4, <1>5, <1>6
  DEF Next, MdStep, DispStep, Terminated, Threads

Older(s, n) == \A k \in DOMAIN s : s[k] < n

LEMMA OlderAppend ==
  ASSUME NEW s \in Seq(Nat), NEW m \in Nat, Older(s, m), NEW x \in Nat, x < m
  PROVE  Older(Append(s, x), m)
<1>1. SUFFICES ASSUME NEW k \in DOMAIN Append(s, x) PROVE Append(s, x)[k] < m
  BY DEF Older
<1>2. Append(s, x)[k] = x \/ (k \in DOMAIN s /\ Append(s, x)[k] = s[k])
  OBVIOUS
<1>3. QED BY <1>2 DEF Older

LEMMA OlderSeqs ==
  ASSUME NEW s \in Seq(Nat), NEW n \in Nat, Older(s, n), NEW m \in Nat, n <= m
  PROVE  /\ Older(s, m)
         /\ s # <<>> => Head(s) < m /\ Older(Tail(s), m)
<1>1. Older(s, m)
  <2>1. SUFFICES ASSUME NEW k \in DOMAIN s PROVE s[k] < m
    BY DEF Older
  <2>2. s[k] \in Nat /\ s[k] < n
    BY <2>1 DEF Older
  <2>3. QED BY <2>2
<1>2. ASSUME s # <<>> PROVE Head(s) < m /\ Older(Tail(s), m)
  <2>1. 1 \in DOMAIN s /\ Head(s) = s[1]
    BY <1>2
  <2>2. \A k \in DOMAIN Tail(s) : k + 1 \in DOMAIN s /\ Tail(s)[k] = s[k + 1]
    BY <1>2
  <2>3. QED BY <1>1, <2>1, <2>2 DEF Older
<1>3. QED BY <1>1, <1>2

LEMMA TicksBehindMeans ==
  TicksBehind <=> /\ Older(ring, NextTick) /\ Older(batch, NextTick)
                  /\ Older(bus["quote"], NextTick)
                  /\ Older(bus["send_compute_greeks"], NextTick)
BY DEF TicksBehind, Older

(* In hand means not yet queued, published or refused. *)
LEMMA NextTickCases ==
  ASSUME TypeOK
  PROVE  /\ NextTick \in Nat /\ offered <= NextTick
         /\ pc["md"] \in {"push", "overwrite", "send", "locked", "thrown"}
              => NextTick = offered
         /\ pc["md"] \notin {"push", "overwrite", "send", "locked", "thrown"}
              => NextTick = offered + 1
BY DEF TypeOK, NextTick, MdInHand, One

LEMMA InitStreams == Init => Streams
<1> SUFFICES ASSUME Init PROVE Streams
  OBVIOUS
<1>1. batch = <<>> /\ ring = <<>> /\ bus["quote"] = <<>> /\ bus["send_compute_greeks"] = <<>>
  BY DEF Init, Topics
<1>2. \A n : Older(<<>>, n)
  BY DEF Older
<1>3. TicksBehind
  BY <1>1, <1>2, TicksBehindMeans
<1>4. BatchFits
  BY <1>1, EmptySeq, PipelineAssumption DEF BatchFits
<1>5. QED BY <1>3, <1>4 DEF Streams

(* Every stream step keeps the queues and the bus behind the next tick.    *)
LEMMA NextStreams == Control /\ Streams /\ Control' /\ StreamStep => Streams'
<1> SUFFICES ASSUME Control, Streams, Control', StreamStep PROVE Streams'
  OBVIOUS
<1>0. TypeOK /\ TypeOK' /\ BatchFits /\ TicksBehind
  BY DEF Control, Streams
<1>1. /\ ring \in Seq(Nat) /\ batch \in Seq(Nat) /\ offered \in Nat /\ BatchSize \in Nat
      /\ bus \in [Topics -> Seq(Nat)]
      /\ bus["quote"] \in Seq(Nat) /\ bus["send_compute_greeks"] \in Seq(Nat)
      /\ Len(ring) <= Capacity /\ Capacity \in Nat \ {0} /\ Len(batch) \in Nat
  BY <1>0, PipelineAssumption DEF TypeOK, Topics
<1>2. /\ Older(ring, NextTick) /\ Older(batch, NextTick)
      /\ Older(bus["quote"], NextTick) /\ Older(bus["send_compute_greeks"], NextTick)
  BY <1>0, TicksBehindMeans
<1>3. /\ NextTick \in Nat /\ offered <= NextTick
      /\ pc["md"] \in {"push", "overwrite", "send", "locked", "thrown"} => NextTick = offered
      /\ pc["md"] \notin {"push", "overwrite", "send", "locked", "thrown"}
           => NextTick = offered + 1
  BY <1>0, NextTickCases
<1>4. /\ NextTick' \in Nat /\ offered' <= NextTick' /\ offered' \in Nat
      /\ pc'["md"] \in {"push", "overwrite", "send", "locked", "thrown"}
           => NextTick' = offered'
      /\ pc'["md"] \notin {"push", "overwrite", "send", "locked", "thrown"}
           => NextTick' = offered' + 1
  <2>1. offered' \in Nat
    BY <1>0 DEF TypeOK
  <2>2. MdInHand' = IF pc'["md"] \in {"push", "overwrite", "send", "locked", "thrown"}
                      THEN 1 ELSE 0
    BY DEF MdInHand, One
  <2>3. NextTick' = IF MdInHand' = 1 THEN offered' ELSE offered' + 1
    BY DEF NextTick
  <2>4. NextTick' = offered' \/ NextTick' = offered' + 1
    BY <2>3
  <2>5. NextTick' \in Nat /\ offered' <= NextTick'
    BY <2>1, <2>4
  <2>6. ASSUME pc'["md"] \in {"push", "overwrite", "send", "locked", "thrown"}
        PROVE  NextTick' = offered'
    <3>1. MdInHand' = 1
      BY <2>2, <2>6
    <3>2. QED BY <2>3, <3>1
  <2>7. ASSUME pc'["md"] \notin {"push", "overwrite", "send", "locked", "thrown"}
        PROVE  NextTick' = offered' + 1
    <3>1. MdInHand' = 0
      BY <2>2, <2>7
    <3>2. QED BY <2>3, <3>1
  <2>8. QED BY <2>1, <2>5, <2>6, <2>7
<1>5. SUFFICES /\ BatchFits'
               /\ Older(ring', NextTick') /\ Older(batch', NextTick')
               /\ Older(bus'["quote"], NextTick')
               /\ Older(bus'["send_compute_greeks"], NextTick')
  BY DEF Streams, TicksBehind, Older
<1> DEFINE n == NextTick  m == NextTick'
<1> HIDE DEF n, m
<1>6. /\ n \in Nat /\ m \in Nat /\ Older(ring, n) /\ Older(batch, n)
      /\ Older(bus["quote"], n) /\ Older(bus["send_compute_greeks"], n)
  BY <1>2, <1>3, <1>4 DEF n, m
<1>7. ASSUME n <= m
      PROVE  /\ Older(ring, m) /\ Older(batch, m)
             /\ Older(bus["quote"], m) /\ Older(bus["send_compute_greeks"], m)
             /\ ring # <<>> => Head(ring) < m /\ Older(Tail(ring), m)
             /\ batch # <<>> => Head(batch) < m /\ Older(Tail(batch), m)
  BY <1>1, <1>6, <1>7, OlderSeqs
<1>8. CASE Arrival
  <2>1. n <= m
    BY <1>1, <1>3, <1>4, <1>8 DEF Arrival, n, m
  <2>2. ring' = ring /\ batch' = batch /\ bus' = bus
    BY <1>8 DEF Arrival, SameDisp
  <2>3. BatchFits'
    BY <1>0, <2>2 DEF BatchFits
  <2>4. QED BY <1>7, <2>1, <2>2, <2>3 DEF m
<1>9. CASE Queueing
  <2>1. n <= m /\ offered < m
    BY <1>1, <1>3, <1>4, <1>9 DEF Queueing, n, m
  <2>2. /\ batch' = batch /\ bus' = bus
        /\ \/ ring' = Append(ring, offered)
           \/ ring # <<>> /\ ring' = Append(Tail(ring), offered)
    BY <1>1, <1>9, EmptySeq DEF Queueing, SameDisp
  <2>3. BatchFits'
    BY <1>0, <2>2 DEF BatchFits
  <2>4. ring # <<>> => Tail(ring) \in Seq(Nat)
    BY <1>1
  <2>5. Older(ring', m)
    <3>1. CASE ring' = Append(ring, offered)
      BY <1>1, <1>6, <1>7, <2>1, <3>1, OlderAppend
    <3>2. CASE ring # <<>> /\ ring' = Append(Tail(ring), offered)
      <4>1. Tail(ring) \in Seq(Nat) /\ Older(Tail(ring), m)
        BY <1>7, <2>1, <2>4, <3>2
      <4>2. QED BY <1>1, <1>6, <2>1, <3>2, <4>1, OlderAppend
    <3>3. QED BY <2>2, <3>1, <3>2
  <2>6. QED BY <1>7, <2>1, <2>2, <2>3, <2>5 DEF m
<1>10. CASE FutureDone
  <2>1. n <= m /\ (pc'["md"] # "thrown" => offered < m)
    BY <1>1, <1>3, <1>4, <1>10 DEF FutureDone, n, m
  <2>2. ring' = ring /\ batch' = batch
    BY <1>10 DEF FutureDone, SameDisp
  <2>3. BatchFits'
    BY <1>0, <2>2 DEF BatchFits
  <2>4. CASE bus' = bus
    BY <1>7, <2>1, <2>2, <2>3, <2>4 DEF m
  <2>5. CASE bus' = [bus EXCEPT !["quote"] = Append(@, offered)] /\ pc'["md"] # "thrown"
    <3>1. /\ bus'["quote"] = Append(bus["quote"], offered)
          /\ bus'["send_compute_greeks"] = bus["send_compute_greeks"]
      BY <1>1, <2>5 DEF Topics
    <3>2. Older(bus'["quote"], m)
      BY <1>1, <1>6, <1>7, <2>1, <2>5, <3>1, OlderAppend
    <3>3. QED BY <1>7, <2>1, <2>2, <2>3, <3>1, <3>2 DEF m
  <2>6. QED BY <1>10, <2>4, <2>5 DEF FutureDone
<1>11. CASE MdQuiet
  <2>1. n <= m
    BY <1>1, <1>3, <1>4, <1>11 DEF MdQuiet, SameMd, n, m
  <2>2. ring' = ring /\ batch' = batch /\ bus' = bus
    BY <1>11 DEF MdQuiet, SameDisp
  <2>3. BatchFits'
    BY <1>0, <2>2 DEF BatchFits
  <2>4. QED BY <1>7, <2>1, <2>2, <2>3 DEF m
<1>12. CASE Taking
  <2>1. n <= m
    BY <1>1, <1>3, <1>4, <1>12 DEF Taking, SameMd, n, m
  <2>2. /\ ring # <<>> /\ ring' = Tail(ring) /\ bus' = bus
        /\ batch' = Append(batch, Head(ring)) /\ (Len(batch) < BatchSize \/ batch = <<>>)
    BY <1>12 DEF Taking
  <2>3. Head(ring) \in Nat /\ Len(batch') = Len(batch) + 1
    BY <1>1, <2>2, TickSeqs
  <2>4. BatchFits'
    BY <1>1, <2>2, <2>3, EmptySeq DEF BatchFits
  <2>5. Older(batch', m)
    BY <1>1, <1>6, <1>7, <2>1, <2>2, <2>3, OlderAppend
  <2>6. QED BY <1>7, <2>1, <2>2, <2>4, <2>5 DEF m
<1>13. CASE OptionDone
  <2>1. n <= m
    BY <1>1, <1>3, <1>4, <1>13 DEF OptionDone, SameMd, n, m
  <2>2. ring' = ring /\ batch # <<>> /\ (batch' = batch \/ batch' = Tail(batch))
    BY <1>13 DEF OptionDone
  <2>3. Head(batch) \in Nat /\ Len(Tail(batch)) = Len(batch) - 1
    BY <1>1, <2>2, TickSeqs
  <2>4. BatchFits'
    BY <1>0, <1>1, <2>2, <2>3 DEF BatchFits
  <2>5. CASE bus' = bus
    BY <1>7, <2>1, <2>2, <2>4, <2>5 DEF m
  <2>6. CASE bus' = [bus EXCEPT !["send_compute_greeks"] = Append(@, Head(batch))]
    <3>1. /\ bus'["send_compute_greeks"] = Append(bus["send_compute_greeks"], Head(batch))
          /\ bus'["quote"] = bus["quote"]
      BY <1>1, <2>6 DEF Topics
    <3>2. Older(bus'["send_compute_greeks"], m)
      BY <1>1, <1>6, <1>7, <2>1, <2>2, <2>3, <3>1, OlderAppend
    <3>3. QED BY <1>7, <2>1, <2>2, <2>4, <3>1, <3>2 DEF m
  <2>7. QED BY <1>13, <2>5, <2>6 DEF OptionDone
<1>14. CASE DispQuiet
  <2>1. n <= m
    BY <1>1, <1>3, <1>4, <1>14 DEF DispQuiet, SameMd, n, m
  <2>2. /\ ring' = ring /\ bus' = bus
        /\ batch' = batch \/ (batch # <<>> /\ batch' = Tail(batch))
    BY <1>14 DEF DispQuiet
  <2>3. batch # <<>> => Len(Tail(batch)) = Len(batch) - 1
    BY <1>1, TickSeqs
  <2>4. BatchFits'
    BY <1>0, <1>1, <2>2, <2>3 DEF BatchFits
  <2>5. QED BY <1>7, <2>1, <2>2, <2>4 DEF m
<1>15. QED
  BY <1>8, <1>9, <1>10, <1>11, <1>12, <1>13, <1>14 DEF StreamStep

(* The invariant of the hot path: where the threads are, the books and the *)
(* order of the ticks in the queues.                                       *)
THEOREM PipelineInvariant == Spec => []PipelineInv
<1> DEFINE Inv == Control /\ Books /\ Streams
<1>1. Init => Inv
  BY InitControl, InitBooks, InitStreams
<1>2. Inv /\ [Next]_vars => Inv'
  BY NextControl, NextBooks, NextStreamStep, NextStreams
<1>3. Inv => PipelineInv
  BY DEF Books, PipelineInv
<1>4. QED BY <1>1, <1>2, <1>3, PTL DEF Spec

(* No tick disappears without a trace, for any ring, batch, shared-memory  *)
(* size and any number of callbacks.                                       *)
THEOREM TicksAccounted == Spec => []EveryTickAccounted
<1>1. PipelineInv => EveryTickAccounted
  BY DEF PipelineInv
<1>2. QED BY <1>1, PipelineInvariant, PTL

(* The reported counters lag the events by at most the step in progress.   *)
THEOREM CountersReported == Spec => []CountersMatch
<1>1. PipelineInv => CountersMatch
  BY DEF PipelineInv
<1>2. QED BY <1>1, PipelineInvariant, PTL

(* The drop counter never under-reports what the ring overwrote.           *)
THEOREM DropsCovered == Spec => []DroppedCoversEvictions
<1>1. PipelineInv => DroppedCoversEvictions
  BY DEF PipelineInv
<1>2. QED BY <1>1, PipelineInvariant, PTL

-----------------------------------------------------------------------------
(* The two streams implement the channel: each stream step is one of its   *)
(* steps, or leaves it alone.                                              *)

(* Concatenations of tick queues, the way the channel's actions cut them.  *)
LEMMA Queues ==
  ASSUME NEW s \in Seq(Nat), NEW r \in Seq(Nat)
  PROVE  /\ s \o r \in Seq(Nat) /\ Len(s \o r) = Len(s) + Len(r)
         /\ \A x \in Nat : s \o Append(r, x) = Append(s \o r, x)
         /\ s # <<>> => /\ s \o r # <<>>
                        /\ Head(s \o r) = Head(s) /\ Tail(s \o r) = Tail(s) \o r
         /\ r # <<>> => Append(s, Head(r)) \o Tail(r) = s \o r
<1>1. \A x \in Nat : s \o Append(r, x) = Append(s \o r, x)
  OBVIOUS
<1>2. ASSUME s # <<>>
      PROVE  s \o r # <<>> /\ Head(s \o r) = Head(s) /\ Tail(s \o r) = Tail(s) \o r
  BY <1>2
<1>3. ASSUME r # <<>>
      PROVE  Append(s, Head(r)) \o Tail(r) = s \o r
  BY <1>3
<1>4. s \o r \in Seq(Nat) /\ Len(s \o r) = Len(s) + Len(r)
  OBVIOUS
<1>5. QED BY <1>1, <1>2, <1>3, <1>4

(* Overwriting the head of the ring removes one index of the whole queue.  *)
LEMMA CutOut ==
  ASSUME NEW s \in Seq(Nat), NEW r \in Seq(Nat), r # <<>>
  PROVE  /\ Len(s) + 1 \in DOMAIN (s \o r)
         /\ GreeksChannel!WithoutIndex(s \o r, Len(s) + 1) = s \o Tail(r)
<1>1. Len(s) + 1 \in DOMAIN (s \o r)
  OBVIOUS
<1>2. SubSeq(s \o r, 1, (Len(s) + 1) - 1) = s
  OBVIOUS
<1>3. SubSeq(s \o r, (Len(s) + 1) + 1, Len(s \o r)) = Tail(r)
  BY SMTT(40)
<1>4. QED BY <1>1, <1>2, <1>3 DEF GreeksChannel!WithoutIndex

LEMMA OlderQueues ==
  ASSUME NEW s \in Seq(Nat), NEW r \in Seq(Nat), NEW n \in Nat, Older(s, n), Older(r, n)
  PROVE  Older(s \o r, n)
<1>1. SUFFICES ASSUME NEW k \in DOMAIN (s \o r) PROVE (s \o r)[k] < n
  BY DEF Older
<1>2. CASE k <= Len(s)
  <2>1. k \in DOMAIN s /\ (s \o r)[k] = s[k]
    BY <1>1, <1>2
  <2>2. QED BY <2>1 DEF Older
<1>3. CASE ~(k <= Len(s))
  <2>1. k - Len(s) \in DOMAIN r /\ (s \o r)[k] = r[k - Len(s)]
    BY <1>1, <1>3
  <2>2. QED BY <2>1 DEF Older
<1>4. QED BY <1>1, <1>2, <1>3

OptionQueue == Undelivered \o ring

LEMMA UndeliveredQueue ==
  ASSUME Control, Streams
  PROVE  /\ Undelivered \in Seq(Nat) /\ Len(Undelivered) <= BatchSize + 1
         /\ Older(Undelivered, NextTick)
<1>1. /\ batch \in Seq(Nat) /\ BatchSize \in Nat /\ (Len(batch) <= BatchSize \/ Len(batch) <= 1)
      /\ pc["disp"] = "sent" => batch # <<>>
  BY PipelineAssumption DEF Control, Streams, TypeOK, BatchFits, BatchShape
<1>2. Older(batch, NextTick) /\ NextTick \in Nat
  BY TicksBehindMeans, NextTickCases DEF Control, Streams
<1>3. batch # <<>> => /\ Tail(batch) \in Seq(Nat) /\ Len(Tail(batch)) = Len(batch) - 1
                      /\ Older(Tail(batch), NextTick)
  BY <1>1, <1>2, TickSeqs, OlderSeqs
<1>4. Undelivered = batch \/ (batch # <<>> /\ Undelivered = Tail(batch))
  BY <1>1 DEF Undelivered
<1>5. Len(batch) \in Nat
  BY <1>1, TickSeqs
<1>6. CASE Undelivered = batch
  BY <1>1, <1>2, <1>5, <1>6
<1>7. CASE batch # <<>> /\ Undelivered = Tail(batch)
  BY <1>1, <1>3, <1>5, <1>7
<1>8. QED BY <1>4, <1>6, <1>7

LEMMA OptionsInit == Init => GreeksChannel!Init
<1> SUFFICES ASSUME Init PROVE GreeksChannel!Init
  OBVIOUS
<1>1. ring = <<>> /\ Undelivered = <<>> /\ bus["send_compute_greeks"] = <<>> /\ offered = 0
  BY DEF Init, Undelivered, Topics, Threads
<1>2. QED BY <1>1, EmptySeq DEF GreeksChannel!Init

LEMMA OptionsStep ==
  ASSUME Control, Streams, StreamStep
  PROVE  [GreeksChannel!Next]_(GreeksChannel!channelVars)
<1> DEFINE q == OptionQueue  u == Undelivered
<1>0. TypeOK /\ TicksBehind
  BY DEF Control, Streams
<1>1. /\ ring \in Seq(Nat) /\ batch \in Seq(Nat) /\ offered \in Nat /\ BatchSize \in Nat
      /\ bus \in [Topics -> Seq(Nat)] /\ bus["send_compute_greeks"] \in Seq(Nat)
      /\ Len(ring) <= Capacity /\ Capacity \in Nat \ {0} /\ Len(ring) \in Nat
  BY <1>0, PipelineAssumption DEF TypeOK, Topics
<1>2. u \in Seq(Nat) /\ Len(u) <= BatchSize + 1 /\ Len(u) \in Nat /\ Older(u, NextTick)
  BY UndeliveredQueue, TickSeqs
<1>3. q = u \o ring /\ q \in Seq(Nat) /\ Len(q) = Len(u) + Len(ring)
  BY <1>1, <1>2, Queues DEF OptionQueue
<1>4. /\ Older(ring, NextTick) /\ Older(bus["send_compute_greeks"], NextTick)
      /\ NextTick \in Nat
  BY <1>0, TicksBehindMeans, NextTickCases
<1>5. CASE Arrival
  <2>1. q' = q
    BY <1>5 DEF Arrival, SameDisp, OptionQueue, Undelivered
  <2>2. bus' = bus /\ offered' = offered + 1
    BY <1>5 DEF Arrival
  <2>3. GreeksChannel!Arrive
    BY <2>1, <2>2 DEF GreeksChannel!Arrive, OptionQueue
  <2>4. QED BY <2>3 DEF GreeksChannel!Next
<1>6. CASE Queueing
  <2>1. u' = u /\ bus' = bus /\ offered' = offered
    BY <1>6 DEF Queueing, SameDisp, Undelivered
  <2>2. NextTick = offered
    BY <1>0, <1>6, NextTickCases DEF Queueing
  <2>3. Older(q, offered) /\ Older(bus["send_compute_greeks"], offered)
    BY <1>1, <1>2, <1>3, <1>4, <2>2, OlderQueues
  <2>4. CASE Len(ring) < Capacity /\ ring' = Append(ring, offered)
    <3>1. q' = Append(q, offered)
      BY <1>1, <1>2, <1>3, <2>1, <2>4, Queues, SMTT(40) DEF OptionQueue
    <3>2. Len(q) < Capacity + BatchSize + 1
      BY <1>1, <1>2, <1>3, <2>4
    <3>3. GreeksChannel!Accept
      BY <2>1, <2>3, <3>1, <3>2
         DEF GreeksChannel!Accept, GreeksChannel!NewerThanAll, Older, OptionQueue
    <3>4. QED BY <3>3 DEF GreeksChannel!Next
  <2>5. CASE Len(ring) = Capacity /\ ring' = Append(Tail(ring), offered)
    <3>1. ring # <<>> /\ Tail(ring) \in Seq(Nat)
      BY <1>1, <2>5, TickSeqs
    <3>2. q' = Append(u \o Tail(ring), offered)
      BY <1>1, <1>2, <2>1, <2>5, <3>1, Queues, SMTT(40) DEF OptionQueue
    <3>3. /\ Len(u) + 1 \in DOMAIN q
          /\ GreeksChannel!WithoutIndex(q, Len(u) + 1) = u \o Tail(ring)
      BY <1>1, <1>2, <1>3, <3>1, CutOut
    <3>4. \E i \in DOMAIN q : q' = Append(GreeksChannel!WithoutIndex(q, i), offered)
      BY <3>2, <3>3
    <3>5. GreeksChannel!AcceptReplacing
      BY <2>1, <2>3, <3>4
         DEF GreeksChannel!AcceptReplacing, GreeksChannel!NewerThanAll, Older, OptionQueue
    <3>6. QED BY <3>5 DEF GreeksChannel!Next
  <2>6. QED BY <1>6, <2>4, <2>5 DEF Queueing
<1>7. CASE FutureDone
  <2>1. q' = q /\ offered' = offered
    BY <1>7 DEF FutureDone, SameDisp, OptionQueue, Undelivered
  <2>2. bus'["send_compute_greeks"] = bus["send_compute_greeks"]
    BY <1>1, <1>7 DEF FutureDone, Topics
  <2>3. QED BY <2>1, <2>2 DEF GreeksChannel!channelVars, OptionQueue
<1>8. CASE MdQuiet
  <2>1. q' = q /\ offered' = offered /\ bus' = bus
    BY <1>8 DEF MdQuiet, SameDisp, OptionQueue, Undelivered
  <2>2. QED BY <2>1 DEF GreeksChannel!channelVars, OptionQueue
<1>9. CASE Taking
  <2>1. /\ u = batch /\ u' = Append(batch, Head(ring)) /\ ring # <<>> /\ ring' = Tail(ring)
        /\ offered' = offered /\ bus' = bus
    BY <1>9 DEF Taking, Undelivered
  <2>2. Append(u, Head(ring)) \o Tail(ring) = u \o ring
    BY <1>1, <1>2, <2>1, Queues
  <2>3. q' = q
    BY <2>1, <2>2 DEF OptionQueue
  <2>4. QED BY <2>1, <2>3 DEF GreeksChannel!channelVars, OptionQueue
<1>10. CASE OptionDone
  <2>1. /\ u = batch /\ u' = Tail(batch) /\ batch # <<>> /\ ring' = ring
        /\ offered' = offered
    BY <1>10 DEF OptionDone, Undelivered
  <2>2. q # <<>> /\ Head(q) = Head(batch) /\ Tail(q) = Tail(batch) \o ring
    BY <1>1, <1>3, <2>1, Queues, SMTT(40)
  <2>3. q' = Tail(q)
    BY <2>1, <2>2 DEF OptionQueue
  <2>4. CASE bus' = bus
    <3>1. GreeksChannel!Lose
      BY <2>1, <2>2, <2>3, <2>4 DEF GreeksChannel!Lose, OptionQueue
    <3>2. QED BY <3>1 DEF GreeksChannel!Next
  <2>5. CASE bus' = [bus EXCEPT !["send_compute_greeks"] = Append(@, Head(batch))]
    <3>1. bus'["send_compute_greeks"] = Append(bus["send_compute_greeks"], Head(q))
      BY <1>1, <2>2, <2>5 DEF Topics
    <3>2. GreeksChannel!Deliver
      BY <2>1, <2>2, <2>3, <3>1 DEF GreeksChannel!Deliver, OptionQueue
    <3>3. QED BY <3>2 DEF GreeksChannel!Next
  <2>6. QED BY <1>10, <2>4, <2>5 DEF OptionDone
<1>11. CASE DispQuiet
  <2>1. u' = u /\ ring' = ring /\ offered' = offered /\ bus' = bus
    BY <1>11 DEF DispQuiet, Undelivered
  <2>2. QED BY <2>1 DEF GreeksChannel!channelVars
<1>12. QED
  BY <1>5, <1>6, <1>7, <1>8, <1>9, <1>10, <1>11 DEF StreamStep

(* Through ring, overwrite, batch, drain, refused and thrown sends, the    *)
(* options stream is the channel: whatever on_quote_received and           *)
(* option_dispatch_loop do to it, ticks are only ever lost.                *)
THEOREM OptionsImplementChannel == Spec => OptionsKeepOrder
<1> DEFINE Inv == Control /\ Streams
<1>1. Spec => []Inv
  <2>1. PipelineInv => Inv
    BY DEF PipelineInv
  <2>2. QED BY <2>1, PipelineInvariant, PTL
<1>2. Inv /\ [Next]_vars => [GreeksChannel!Next]_(GreeksChannel!channelVars)
  BY NextStreamStep, OptionsStep
<1>3. QED BY <1>1, <1>2, OptionsInit, PTL DEF Spec, OptionsKeepOrder, GreeksChannel!Spec

LEMMA FuturesInit == Init => QuoteChannel!Init
BY DEF Init, QuoteChannel!Init, Topics, Threads

LEMMA FuturesStep ==
  ASSUME Control, Streams, StreamStep
  PROVE  [QuoteChannel!Next]_(QuoteChannel!channelVars)
<1> DEFINE q == IF pc["md"] \in {"send", "locked"} THEN <<offered>> ELSE <<>>
<1>0. TypeOK /\ TicksBehind
  BY DEF Control, Streams
<1>1. /\ offered \in Nat /\ bus \in [Topics -> Seq(Nat)] /\ bus["quote"] \in Seq(Nat)
      /\ Older(bus["quote"], NextTick)
  BY <1>0, TicksBehindMeans DEF TypeOK, Topics
<1>2. CASE Arrival
  <2>1. NextTick = offered + 1 /\ q = <<>> /\ bus' = bus /\ offered' = offered + 1
    BY <1>0, <1>2, NextTickCases DEF Arrival
  <2>2. CASE pc'["md"] = "push"
    <3>1. q' = <<>>
      BY <2>2
    <3>2. QuoteChannel!Arrive
      BY <2>1, <3>1 DEF QuoteChannel!Arrive
    <3>3. QED BY <3>2 DEF QuoteChannel!Next
  <2>3. CASE pc'["md"] = "send"
    <3>1. q' = <<offered'>> /\ <<offered'>> = Append(q, offered')
      BY <2>1, <2>3
    <3>2. Len(q) < 1 /\ \A i \in DOMAIN q : q[i] < offered'
      BY <2>1
    <3>3. \A i \in DOMAIN bus["quote"] : bus["quote"][i] < offered'
      BY <1>1, <2>1 DEF Older
    <3>4. QuoteChannel!Accept
      BY <2>1, <3>1, <3>2, <3>3 DEF QuoteChannel!Accept, QuoteChannel!NewerThanAll
    <3>5. QED BY <3>4 DEF QuoteChannel!Next
  <2>4. QED BY <1>2, <2>2, <2>3 DEF Arrival
<1>3. CASE FutureDone
  <2>1. /\ q = <<offered>> /\ q' = <<>> /\ offered' = offered
        /\ q # <<>> /\ Head(q) = offered /\ Tail(q) = <<>>
    BY <1>3 DEF FutureDone
  <2>2. CASE bus' = bus
    <3>1. QuoteChannel!Lose
      BY <2>1, <2>2 DEF QuoteChannel!Lose
    <3>2. QED BY <3>1 DEF QuoteChannel!Next
  <2>3. CASE bus' = [bus EXCEPT !["quote"] = Append(@, offered)]
    <3>1. bus'["quote"] = Append(bus["quote"], Head(q))
      BY <1>1, <2>1, <2>3 DEF Topics
    <3>2. QuoteChannel!Deliver
      BY <2>1, <3>1 DEF QuoteChannel!Deliver
    <3>3. QED BY <3>2 DEF QuoteChannel!Next
  <2>4. QED BY <1>3, <2>2, <2>3 DEF FutureDone
<1>4. CASE Queueing \/ MdQuiet \/ Taking \/ OptionDone \/ DispQuiet
  <2>1. offered' = offered /\ bus'["quote"] = bus["quote"]
    BY <1>1, <1>4 DEF Queueing, MdQuiet, Taking, OptionDone, DispQuiet, Topics
  <2>2. pc'["md"] \in {"send", "locked"} <=> pc["md"] \in {"send", "locked"}
    BY <1>4 DEF Queueing, MdQuiet, Taking, OptionDone, DispQuiet, SameMd
  <2>3. q' = q
    BY <2>1, <2>2
  <2>4. QED BY <2>1, <2>3 DEF QuoteChannel!channelVars
<1>5. QED BY <1>2, <1>3, <1>4 DEF StreamStep

(* The futures stream, whose only place to wait is the callback itself, is *)
(* the same channel with room for one tick.                                *)
THEOREM FuturesImplementChannel == Spec => FuturesKeepOrder
<1> DEFINE Inv == Control /\ Streams
<1>1. Spec => []Inv
  <2>1. PipelineInv => Inv
    BY DEF PipelineInv
  <2>2. QED BY <2>1, PipelineInvariant, PTL
<1>2. Inv /\ [Next]_vars => [QuoteChannel!Next]_(QuoteChannel!channelVars)
  BY NextStreamStep, FuturesStep
<1>3. QED BY <1>1, <1>2, FuturesInit, PTL DEF Spec, FuturesKeepOrder, QuoteChannel!Spec

-----------------------------------------------------------------------------
(* What the channel promises, for any bound and any feed: p stands for its *)
(* pending ticks, d for the delivered ones and n for the latest one seen.  *)

InOrder(s) == \A i, j \in DOMAIN s : i < j => s[i] < s[j]

Without(s, i) == SubSeq(s, 1, i - 1) \o SubSeq(s, i + 1, Len(s))

(* A concatenation is in order iff both parts are and the second is newer. *)
LEMMA TwoParts ==
  ASSUME NEW s \in Seq(Nat), NEW t \in Seq(Nat)
  PROVE  InOrder(s \o t) <=>
           /\ InOrder(s) /\ InOrder(t)
           /\ \A i \in DOMAIN s, j \in DOMAIN t : s[i] < t[j]
<1> DEFINE m == Len(s)  n == Len(t)  st == s \o t
<1>1. /\ m \in Nat /\ n \in Nat /\ DOMAIN s = 1..m /\ DOMAIN t = 1..n
      /\ DOMAIN st = 1..(m + n)
  OBVIOUS
<1>2. \A i \in 1..m : st[i] = s[i]
  OBVIOUS
<1>3. \A j \in 1..n : st[m + j] = t[j]
  OBVIOUS
<1>4. ASSUME InOrder(st)
      PROVE  /\ InOrder(s) /\ InOrder(t)
             /\ \A i \in DOMAIN s, j \in DOMAIN t : s[i] < t[j]
  <2>1. \A i, j \in 1..(m + n) : i < j => st[i] < st[j]
    BY <1>1, <1>4 DEF InOrder
  <2> HIDE DEF m, n, st
  <2>2. \A i, j \in 1..m : i < j => s[i] < s[j]
    BY <1>1, <1>2, <2>1
  <2>3. ASSUME NEW i \in 1..n, NEW j \in 1..n, i < j PROVE t[i] < t[j]
    <3>1. m + i \in 1..(m + n) /\ m + j \in 1..(m + n) /\ m + i < m + j
      BY <1>1, <2>3
    <3>2. QED BY <1>3, <2>1, <3>1
  <2>4. ASSUME NEW i \in 1..m, NEW j \in 1..n PROVE s[i] < t[j]
    <3>1. i \in 1..(m + n) /\ m + j \in 1..(m + n) /\ i < m + j
      BY <1>1
    <3>2. QED BY <1>2, <1>3, <2>1, <3>1
  <2>5. QED BY <1>1, <2>2, <2>3, <2>4 DEF InOrder
<1>5. ASSUME InOrder(s), InOrder(t),
             \A i \in DOMAIN s, j \in DOMAIN t : s[i] < t[j]
      PROVE  InOrder(st)
  <2>1. SUFFICES ASSUME NEW i \in 1..(m + n), NEW j \in 1..(m + n), i < j
                 PROVE  st[i] < st[j]
    BY <1>1 DEF InOrder
  <2> HIDE DEF m, n, st
  <2>2. CASE j <= m
    <3>1. i \in 1..m /\ j \in 1..m
      BY <1>1, <2>1, <2>2
    <3>2. QED BY <1>1, <1>2, <1>5, <2>1, <3>1 DEF InOrder
  <2>3. CASE i <= m /\ ~(j <= m)
    <3>1. j - m \in 1..n /\ m + (j - m) = j /\ i \in 1..m
      BY <1>1, <2>3
    <3>2. QED BY <1>1, <1>2, <1>3, <1>5, <3>1
  <2>4. CASE ~(i <= m)
    <3>1. /\ i - m \in 1..n /\ m + (i - m) = i
          /\ j - m \in 1..n /\ m + (j - m) = j /\ i - m < j - m
      BY <1>1, <2>1, <2>4
    <3>2. QED BY <1>1, <1>3, <1>5, <3>1 DEF InOrder
  <2>5. QED BY <1>1, <2>2, <2>3, <2>4
<1>6. QED BY <1>4, <1>5
(* A sequence of numbers stays in order when a newer one is appended, *)
LEMMA AppendNewer ==
  ASSUME NEW s \in Seq(Nat), NEW n \in Nat, InOrder(s), Older(s, n)
  PROVE  /\ Append(s, n) \in Seq(Nat)
         /\ InOrder(Append(s, n))
         /\ Len(Append(s, n)) = Len(s) + 1
         /\ \A k \in DOMAIN Append(s, n) :
              (k \in DOMAIN s /\ Append(s, n)[k] = s[k]) \/ Append(s, n)[k] = n
  BY DEF InOrder, Older

(* when its oldest is taken away, *)
LEMMA TailInOrder ==
  ASSUME NEW s \in Seq(Nat), s # <<>>, InOrder(s)
  PROVE  /\ Tail(s) \in Seq(Nat) /\ Head(s) \in Nat /\ Len(Tail(s)) = Len(s) - 1
         /\ Head(s) = s[1] /\ 1 \in DOMAIN s
         /\ InOrder(Tail(s))
         /\ \A k \in DOMAIN Tail(s) : k + 1 \in DOMAIN s /\ Tail(s)[k] = s[k + 1] /\ s[1] < s[k + 1]
  BY DEF InOrder

(* and when any one of its elements is. *)
LEMMA WithoutInOrder ==
  ASSUME NEW s \in Seq(Nat), NEW i \in DOMAIN s, InOrder(s)
  PROVE  /\ Without(s, i) \in Seq(Nat) /\ Len(Without(s, i)) = Len(s) - 1
         /\ InOrder(Without(s, i))
         /\ \A k \in DOMAIN Without(s, i) :
              \E l \in DOMAIN s : Without(s, i)[k] = s[l]
<1> DEFINE w == Without(s, i)  n == Len(s)
<1>1. n \in Nat /\ i \in 1..n /\ DOMAIN s = 1..n
  OBVIOUS
<1>2. /\ w \in Seq(Nat) /\ Len(w) = n - 1 /\ DOMAIN w = 1..(n - 1)
      /\ \A k \in 1..(n - 1) : w[k] = IF k < i THEN s[k] ELSE s[k + 1]
  <2> DEFINE left == SubSeq(s, 1, i - 1)  right == SubSeq(s, i + 1, n)
  <2>1. /\ left \in Seq(Nat) /\ Len(left) = i - 1
        /\ \A k \in 1..(i - 1) : left[k] = s[k]
    BY <1>1
  <2>2. /\ right \in Seq(Nat)
        /\ Len(right) = n - i
        /\ \A k \in 1..(n - i) : right[k] = s[i + k]
    <3>1. Len(right) = n - i
      BY <1>1
    <3>2. ASSUME NEW k \in 1..(n - i) PROVE right[k] = s[i + k] /\ s[i + k] \in Nat
      <4>1. k + (i + 1) - 1 = i + k /\ i + k \in 1..n
        BY <1>1
      <4>2. s[i + k] \in Nat
        BY <4>1, SMTT(40)
      <4>3. right[k] = s[k + (i + 1) - 1]
        BY <1>1, SMTT(60)
      <4>4. QED BY <4>1, <4>2, <4>3
    <3>3. right \in Seq(Nat)
      BY <1>1
    <3>4. QED BY <3>1, <3>2, <3>3
  <2>5. w = left \o right
    BY DEF Without
  <2> HIDE DEF left, right, w, n
  <2>6. /\ w \in Seq(Nat) /\ Len(w) = Len(left) + Len(right)
        /\ \A k \in 1..(Len(left) + Len(right)) :
             w[k] = IF k <= Len(left) THEN left[k] ELSE right[k - Len(left)]
    BY <2>1, <2>2, <2>5, ConcatProperties
  <2>7. Len(w) = n - 1 /\ DOMAIN w = 1..(n - 1) /\ Len(left) + Len(right) = n - 1
    BY <1>1, <2>1, <2>2, <2>6
  <2>8. ASSUME NEW k \in 1..(n - 1), k < i PROVE w[k] = s[k]
    BY <1>1, <2>1, <2>6, <2>7, <2>8
  <2>9. ASSUME NEW k \in 1..(n - 1), ~(k < i) PROVE w[k] = s[k + 1]
    <3>1. k - (i - 1) \in 1..(n - i) /\ i + (k - (i - 1)) = k + 1 /\ ~(k <= i - 1)
      BY <1>1, <2>9
    <3>2. w[k] = right[k - (i - 1)]
      BY <2>1, <2>6, <2>7, <3>1
    <3>3. QED BY <2>2, <3>1, <3>2
  <2>10. QED BY <2>6, <2>7, <2>8, <2>9
<1> HIDE DEF w
<1>3. \A k \in 1..(n - 1) : (IF k < i THEN k ELSE k + 1) \in DOMAIN s
  BY <1>1
<1>4. InOrder(w)
  <2>1. SUFFICES ASSUME NEW k \in 1..(n - 1), NEW l \in 1..(n - 1), k < l PROVE w[k] < w[l]
    BY <1>2 DEF InOrder
  <2>2. (IF k < i THEN k ELSE k + 1) < (IF l < i THEN l ELSE l + 1)
    BY <1>1, <2>1
  <2>3. QED BY <1>1, <1>2, <1>3, <2>1, <2>2 DEF InOrder
<1>5. QED BY <1>1, <1>2, <1>3, <1>4 DEF w

(* Order within the delivered ticks, within the pending ones, and between  *)
(* them: the channel's inductive invariant.                                *)
Ordered(p, d, n) ==
  /\ p \in Seq(Nat) /\ d \in Seq(Nat) /\ n \in Nat
  /\ InOrder(d) /\ InOrder(p)
  /\ \A i \in DOMAIN d, j \in DOMAIN p : d[i] < p[j]

Accepting(p, d, n, p2, d2, n2) ==
  /\ n2 = n \/ n2 = n + 1
  /\ Older(p, n2) /\ Older(d, n2)
  /\ p2 = Append(p, n2) /\ d2 = d

Replacing(p, d, n, p2, d2, n2) ==
  /\ Older(p, n) /\ Older(d, n)
  /\ \E i \in DOMAIN p : p2 = Append(Without(p, i), n)
  /\ d2 = d /\ n2 = n

ChannelStep(p, d, n, p2, d2, n2) ==
  \/ p2 = p /\ d2 = d /\ (n2 = n \/ n2 = n + 1)
  \/ Accepting(p, d, n, p2, d2, n2)
  \/ Replacing(p, d, n, p2, d2, n2)
  \/ p # <<>> /\ d2 = Append(d, Head(p)) /\ p2 = Tail(p) /\ n2 = n
  \/ p # <<>> /\ d2 = d /\ p2 = Tail(p) /\ n2 = n

LEMMA StepKeepsOrder ==
  ASSUME NEW p, NEW d, NEW n, NEW p2, NEW d2, NEW n2,
         Ordered(p, d, n), ChannelStep(p, d, n, p2, d2, n2)
  PROVE  Ordered(p2, d2, n2)
<1>1. /\ p \in Seq(Nat) /\ d \in Seq(Nat) /\ n \in Nat
      /\ InOrder(d) /\ InOrder(p)
      /\ \A i \in DOMAIN d, j \in DOMAIN p : d[i] < p[j]
  BY DEF Ordered
<1>2. CASE p2 = p /\ d2 = d /\ (n2 = n \/ n2 = n + 1)
  BY <1>1, <1>2 DEF Ordered
<1>3. CASE Accepting(p, d, n, p2, d2, n2)
  <2>1. /\ n2 \in Nat /\ Older(p, n2) /\ Older(d, n2)
        /\ p2 = Append(p, n2) /\ d2 = d
    BY <1>1, <1>3 DEF Accepting
  <2>2. /\ p2 \in Seq(Nat) /\ InOrder(p2)
        /\ Len(p2) = Len(p) + 1
        /\ \A k \in DOMAIN p2 :
             (k \in DOMAIN p /\ p2[k] = p[k]) \/ p2[k] = n2
    BY <1>1, <2>1, AppendNewer
  <2>3. \A i \in DOMAIN d2, j \in DOMAIN p2 : d2[i] < p2[j]
    BY <1>1, <2>1, <2>2 DEF Older
  <2>4. QED BY <1>1, <2>1, <2>2, <2>3 DEF Ordered
<1>4. CASE Replacing(p, d, n, p2, d2, n2)
  <2>1. PICK i \in DOMAIN p : p2 = Append(Without(p, i), n)
    BY <1>4 DEF Replacing
  <2>2. /\ Older(p, n) /\ Older(d, n)
        /\ d2 = d /\ n2 = n
    BY <1>4 DEF Replacing
  <2> DEFINE w == Without(p, i)
  <2>3. /\ w \in Seq(Nat) /\ Len(w) = Len(p) - 1 /\ InOrder(w)
        /\ \A k \in DOMAIN w : \E l \in DOMAIN p : w[k] = p[l]
    BY <1>1, <2>1, WithoutInOrder
  <2> HIDE DEF w
  <2>4. Older(w, n)
    BY <2>2, <2>3 DEF Older
  <2>5. /\ p2 \in Seq(Nat) /\ InOrder(p2)
        /\ Len(p2) = Len(w) + 1
        /\ \A k \in DOMAIN p2 :
             (k \in DOMAIN w /\ p2[k] = w[k]) \/ p2[k] = n
    BY <1>1, <2>1, <2>3, <2>4, AppendNewer DEF w
  <2>6. \A k \in DOMAIN d2, j \in DOMAIN p2 : d2[k] < p2[j]
    BY <1>1, <2>2, <2>3, <2>5 DEF Older
  <2>7. QED BY <1>1, <2>2, <2>5, <2>6 DEF Ordered
<1>5. CASE p # <<>> /\ d2 = Append(d, Head(p)) /\ p2 = Tail(p) /\ n2 = n
  <2>2. /\ Tail(p) \in Seq(Nat) /\ Head(p) \in Nat
        /\ Len(Tail(p)) = Len(p) - 1
        /\ Head(p) = p[1] /\ 1 \in DOMAIN p
        /\ InOrder(Tail(p))
        /\ \A k \in DOMAIN Tail(p) :
             k + 1 \in DOMAIN p /\ Tail(p)[k] = p[k + 1]
             /\ p[1] < p[k + 1]
    BY <1>1, <1>5, TailInOrder
  <2>3. Older(d, Head(p))
    BY <1>1, <2>2 DEF Older
  <2>4. /\ d2 \in Seq(Nat) /\ InOrder(d2)
        /\ \A k \in DOMAIN d2 :
             (k \in DOMAIN d /\ d2[k] = d[k]) \/ d2[k] = Head(p)
    BY <1>1, <1>5, <2>2, <2>3, AppendNewer
  <2>5. \A k \in DOMAIN d2, j \in DOMAIN p2 : d2[k] < p2[j]
    BY <1>1, <1>5, <2>2, <2>4
  <2>6. QED BY <1>1, <1>5, <2>2, <2>4, <2>5 DEF Ordered
<1>6. CASE p # <<>> /\ d2 = d /\ p2 = Tail(p) /\ n2 = n
  <2>2. /\ Tail(p) \in Seq(Nat) /\ Len(Tail(p)) = Len(p) - 1
        /\ InOrder(Tail(p))
        /\ \A k \in DOMAIN Tail(p) :
             k + 1 \in DOMAIN p /\ Tail(p)[k] = p[k + 1]
    BY <1>1, <1>6, TailInOrder
  <2>3. \A i \in DOMAIN d2, j \in DOMAIN p2 : d2[i] < p2[j]
    BY <1>1, <1>6, <2>2
  <2>4. QED BY <1>1, <1>6, <2>2, <2>3 DEF Ordered
<1>7. QED BY <1>2, <1>3, <1>4, <1>5, <1>6 DEF ChannelStep

(* The engine receives send_compute_greeks events in the order of the CTP  *)
(* callbacks and none twice, and what still waits is newer and in order.   *)
THEOREM OptionsInOrder == Spec => []GreeksChannel!DeliveredInOrder
<1> DEFINE p == Undelivered \o ring
           d == bus["send_compute_greeks"]
           Inv == Ordered(p, d, offered)
<1>1. GreeksChannel!Init => Inv
  BY DEF GreeksChannel!Init, Ordered, InOrder
<1>2. Inv /\ [GreeksChannel!Next]_(GreeksChannel!channelVars) => Inv'
  <2>1. SUFFICES ASSUME Inv, [GreeksChannel!Next]_(GreeksChannel!channelVars)
                 PROVE  Ordered(p', d', offered')
    OBVIOUS
  <2>2. ChannelStep(p, d, offered, p', d', offered')
    <3>1. CASE GreeksChannel!Arrive
      BY <3>1 DEF GreeksChannel!Arrive, ChannelStep
    <3>2. CASE GreeksChannel!Accept
      BY <3>2 DEF GreeksChannel!Accept, GreeksChannel!NewerThanAll, Older, Accepting, ChannelStep
    <3>3. CASE GreeksChannel!AcceptReplacing
      BY <3>3 DEF GreeksChannel!AcceptReplacing, GreeksChannel!NewerThanAll, GreeksChannel!WithoutIndex,
                  Older, Without, Replacing, ChannelStep
    <3>4. CASE GreeksChannel!Deliver
      BY <3>4 DEF GreeksChannel!Deliver, ChannelStep
    <3>5. CASE GreeksChannel!Lose
      BY <3>5 DEF GreeksChannel!Lose, ChannelStep
    <3>6. CASE UNCHANGED GreeksChannel!channelVars
      BY <3>6 DEF GreeksChannel!channelVars, ChannelStep
    <3>7. QED BY <2>1, <3>1, <3>2, <3>3, <3>4, <3>5, <3>6 DEF GreeksChannel!Next
  <2>3. QED BY <2>1, <2>2, StepKeepsOrder
<1>3. Inv => GreeksChannel!DeliveredInOrder
  <2>1. SUFFICES ASSUME Inv PROVE InOrder(d \o p)
    BY DEF GreeksChannel!DeliveredInOrder, GreeksChannel!StrictlyIncreasing, InOrder
  <2>2. QED BY <2>1, TwoParts DEF Ordered
<1>4. QED
  BY <1>1, <1>2, <1>3, OptionsImplementChannel, PTL DEF OptionsKeepOrder, GreeksChannel!Spec

(* So do the subscribers of the "quote" broadcasts.                        *)
THEOREM FuturesInOrder == Spec => []QuoteChannel!DeliveredInOrder
<1> DEFINE p == IF pc["md"] \in {"send", "locked"} THEN <<offered>> ELSE <<>>
           d == bus["quote"]
           Inv == Ordered(p, d, offered)
<1>1. QuoteChannel!Init => Inv
  BY DEF QuoteChannel!Init, Ordered, InOrder
<1>2. Inv /\ [QuoteChannel!Next]_(QuoteChannel!channelVars) => Inv'
  <2>1. SUFFICES ASSUME Inv, [QuoteChannel!Next]_(QuoteChannel!channelVars)
                 PROVE  Ordered(p', d', offered')
    OBVIOUS
  <2>2. ChannelStep(p, d, offered, p', d', offered')
    <3>1. CASE QuoteChannel!Arrive
      BY <3>1 DEF QuoteChannel!Arrive, ChannelStep
    <3>2. CASE QuoteChannel!Accept
      BY <3>2 DEF QuoteChannel!Accept, QuoteChannel!NewerThanAll, Older, Accepting, ChannelStep
    <3>3. CASE QuoteChannel!AcceptReplacing
      BY <3>3 DEF QuoteChannel!AcceptReplacing, QuoteChannel!NewerThanAll, QuoteChannel!WithoutIndex,
                  Older, Without, Replacing, ChannelStep
    <3>4. CASE QuoteChannel!Deliver
      BY <3>4 DEF QuoteChannel!Deliver, ChannelStep
    <3>5. CASE QuoteChannel!Lose
      BY <3>5 DEF QuoteChannel!Lose, ChannelStep
    <3>6. CASE UNCHANGED QuoteChannel!channelVars
      BY <3>6 DEF QuoteChannel!channelVars, ChannelStep
    <3>7. QED BY <2>1, <3>1, <3>2, <3>3, <3>4, <3>5, <3>6 DEF QuoteChannel!Next
  <2>3. QED BY <2>1, <2>2, StepKeepsOrder
<1>3. Inv => QuoteChannel!DeliveredInOrder
  <2>1. SUFFICES ASSUME Inv PROVE InOrder(d \o p)
    BY DEF QuoteChannel!DeliveredInOrder, QuoteChannel!StrictlyIncreasing, InOrder
  <2>2. QED BY <2>1, TwoParts DEF Ordered
<1>4. QED
  BY <1>1, <1>2, <1>3, FuturesImplementChannel, PTL DEF FuturesKeepOrder, QuoteChannel!Spec
=============================================================================
