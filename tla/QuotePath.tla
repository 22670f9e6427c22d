----------------------------- MODULE QuotePath -----------------------------
(***************************************************************************)
(* What becomes of the contents of a quote between CTP and the modules     *)
(* behind the engine: MdSpiImpl::OnRtnDepthMarketData converts it, the     *)
(* future's payload is published as it is, the option's is copied into a   *)
(* QuoteTick that waits in the ring, and the dispatch thread turns that    *)
(* into an event again, over ZMQ or as a frame in shared memory.           *)
(*                                                                         *)
(* The threads, the full ring and the failing sends are in QuotePipeline;  *)
(* here the ring and the queue only delay.  write_shm_event() and          *)
(* write_shm_event_tls() have no caller in the gateway; an outside caller  *)
(* stands for one.  So does "accepted" for the caller validate() lacks: it *)
(* checks every quote against the tick of that instrument it took last.    *)
(***************************************************************************)
EXTENDS ShmWriter, QuoteValidator

CONSTANTS
  Depths,         \* CThostFtdcDepthMarketDataField values CTP may push
  OptionSet,      \* option_instrument_set_: full instrument ids
  Chars,          \* what a topic is made of
  OtherTopics,    \* topics outside callers pass to write_shm_event
  SlotCount,      \* slots of the SharedMemoryQueue
  MaxMsgSize,     \* shm_tuning.shm_max_msg_size
  Quote, Greeks,  \* the topics "quote" and "send_compute_greeks", spelled out
  MaxQuotes       \* bound: callbacks in one behaviour

ASSUME PathAssumption ==
  /\ \A d \in Depths : DepthFields \subseteq DOMAIN d
  /\ SlotCount \in Nat /\ MaxMsgSize \in Nat /\ MaxQuotes \in Nat
  /\ Quote \in Seq(Chars) /\ Greeks \in Seq(Chars) /\ OtherTopics \subseteq Seq(Chars)
  /\ Quote # Greeks /\ {Quote, Greeks} \cap OtherTopics = {}
  /\ TopicFits(Quote) /\ TopicFits(Greeks)

(* The tick of a quote is a struct of ints, and so are the three numbers of *)
(* a time sscanf could read.                                               *)
ASSUME FeedAssumption ==
  \A d \in Depths :
    LET t == depth_to_tick(d)
    IN  /\ t # NoTick /\ t.volume \in Int /\ t.update_millisec \in Int
        /\ Readable(t.update_time) => \A k \in 1..3 : t.update_time[k] \in Int

VARIABLES
  shm_mode,       \* is_shm_mode()
  pushed,         \* ghost: the quotes CTP has pushed, in order
  ring,           \* option_ring_buffer_
  queue,          \* frames in the SharedMemoryQueue
  events,         \* what has reached the modules: <<topic, payload>>
  accepted        \* external: the ticks a caller of validate() has taken

vars == <<shm_mode, pushed, ring, queue, events, accepted>>

TypeOK ==
  /\ shm_mode \in BOOLEAN
  /\ pushed \in Seq(Depths) /\ Len(pushed) <= MaxQuotes
  /\ \A k \in DOMAIN ring : DOMAIN ring[k] = TickFields
  /\ Len(queue) <= SlotCount /\ \A k \in DOMAIN queue : Len(queue[k]) <= MaxMsgSize
  /\ \A e \in events : DOMAIN e = {1, 2}
  /\ \A k \in DOMAIN accepted : DOMAIN accepted[k] = TickFields

Init ==
  /\ shm_mode \in BOOLEAN
  /\ pushed = <<>> /\ ring = <<>> /\ queue = <<>> /\ events = {} /\ accepted = <<>>

IsOption(p) == p.instrument_id # <<>> /\ p.instrument_id \in OptionSet

(* Mutant: a frame is appended whatever its length. *)
WriteAnyLength(frame) ==
  IF Len(queue) < SlotCount THEN queue' = Append(queue, frame) ELSE queue' = queue

(* SharedMemoryQueue::write: one slot, refused when full or too long. *)
Write(frame) ==
  IF Len(queue) < SlotCount /\ Len(frame) <= MaxMsgSize
    THEN queue' = Append(queue, frame) ELSE queue' = queue

Publish(topic, payload) ==
  \/ /\ shm_mode /\ Write(Frame(topic, Message(topic, payload))) /\ events' = events
  \/ /\ ~shm_mode /\ events' = events \cup {<<topic, payload>>} /\ queue' = queue

(* The tick of the same instrument the caller took last, if any. *)
Predecessor(t) ==
  LET same == {k \in DOMAIN accepted : accepted[k].instrument_id = t.instrument_id}
  IN  IF same = {} THEN NoTick
      ELSE accepted[CHOOSE last \in same : \A k \in same : k <= last]

Judge(t) == accepted' = IF validate(t, Predecessor(t)) THEN Append(accepted, t) ELSE accepted

(* The callback: an option's payload fills a tick, a future's is published. *)
OnQuote(d) ==
  /\ Len(pushed) < MaxQuotes
  /\ pushed' = Append(pushed, d)
  /\ LET p == depth_to_payload(d)
     IN \/ IsOption(p) /\ ring' = Append(ring, FilledTick(p)) /\ UNCHANGED <<queue, events>>
        \/ ~IsOption(p) /\ Publish(Quote, p) /\ ring' = ring
  /\ Judge(depth_to_tick(d))
  /\ shm_mode' = shm_mode

Dispatch ==
  /\ ring # <<>> /\ ring' = Tail(ring)
  /\ \/ /\ shm_mode
        /\ Write(write_shm_quote_tick(Greeks, Head(ring))) /\ events' = events
     \/ /\ ~shm_mode
        /\ events' = events \cup {<<Greeks, tick_to_payload(Head(ring))>>}
        /\ queue' = queue
  /\ UNCHANGED <<shm_mode, pushed, accepted>>

(* The engine takes a frame apart and forwards the event it finds there. *)
EngineRead ==
  /\ queue # <<>> /\ queue' = Tail(queue)
  /\ events' = events \cup {<<FrameTopic(Head(queue)), FrameBody(Head(queue))[1].payload>>}
  /\ UNCHANGED <<shm_mode, pushed, ring, accepted>>

(* An event of an outside caller, by either function of shm_writer.h. *)
WriteOther(topic) ==
  /\ shm_mode /\ TopicFits(topic)
  /\ Write(write_shm_event(topic, <<>>))
  /\ UNCHANGED <<shm_mode, pushed, ring, events, accepted>>

Next ==
  \/ \E d \in Depths : OnQuote(d)
  \/ \E topic \in OtherTopics : WriteOther(topic)
  \/ Dispatch \/ EngineRead

Spec == Init /\ [][Next]_vars

-----------------------------------------------------------------------------
Options == {k \in DOMAIN pushed : IsOption(depth_to_payload(pushed[k]))}

(* The keys under which the greeks engine looks for the limits. *)
LimitKeys == {"upper_limit", "lower_limit", "pre_settle"}

Faithful(topic, payload) ==
  /\ topic = Quote => \E k \in DOMAIN pushed \ Options :
       \A f \in TickFields : payload[f] = pushed[k][DepthField[f]]
  /\ topic = Greeks => \E k \in Options :
       /\ \A f \in TickFields \cap DOMAIN payload :
            payload[f] = Stored(f, pushed[k][DepthField[f]])
       /\ DOMAIN payload \ TickFields = LimitKeys /\ \A f \in LimitKeys : payload[f] = 0

(* Whatever the way, an event carries one quote of its own stream, and no  *)
(* value under another's name: a future's is CTP's, field by field; an     *)
(* option's is too, with texts cut to the tick's arrays (QuoteTick::       *)
(* instrument_id), but its three limit fields are 0, because               *)
(* on_quote_received asks the payload for keys depth_to_payload never sets. *)
EventsFaithful == \A e \in events : Faithful(e[1], e[2])

(* shm_writer.h:155: for every tick that waits to be sent, the engine would *)
(* read off the frame of write_shm_quote_tick the topic and the payload    *)
(* that tick_to_payload would send it over ZMQ.                            *)
TransportsAgree ==
  \A k \in DOMAIN ring :
    LET frame == write_shm_quote_tick(Greeks, ring[k])
    IN  /\ FrameTopic(frame) = Greeks
        /\ FrameBody(frame) = <<Message(Greeks, tick_to_payload(ring[k]))>>

(* Every frame in the queue comes apart into the topic of its Message and  *)
(* that Message, whoever wrote it and however long the topic is.           *)
FramesDecode ==
  \A k \in DOMAIN queue :
    LET body == FrameBody(queue[k])
    IN  Len(body) = 1 /\ FrameTopic(queue[k]) = body[1].event

(* What the checks of validate() add up to over a whole feed: between two  *)
(* ticks of one instrument, with only priced ticks with readable times of  *)
(* one day between them, neither volume nor time goes back.  One day is    *)
(* asked of every pair: "no other day" is not transitive, because a tick   *)
(* without trading_day is of no other day than both its neighbours.        *)
Between(i, j) == {k \in i..j : accepted[k].instrument_id = accepted[i].instrument_id}

Priced(t) == t.last_price # 0 /\ Readable(t.update_time)

OneDay(ks) ==
  /\ \A k \in ks : Priced(accepted[k])
  /\ \A k, m \in ks : ~OtherDay(accepted[k], accepted[m])

DayInOrder ==
  \A i, j \in DOMAIN accepted :
    i < j /\ j \in Between(i, j) /\ OneDay(Between(i, j)) =>
      /\ accepted[i].volume <= accepted[j].volume
      /\ MsOfDay(accepted[i]) <= MsOfDay(accepted[j])

(* tests/test_option_dispatch.cpp:26 and :95, "mirrors the conversion the  *)
(* gateway will use": an option's event has the limits under the names of  *)
(* the tick's members, with CTP's values.                                  *)
GreeksCarryLimits ==
  \A e \in events : e[1] = Greeks =>
    /\ {"upper_limit_price", "lower_limit_price"} \subseteq DOMAIN e[2]
    /\ \E k \in Options : e[2].upper_limit_price = pushed[k].UpperLimitPrice
=============================================================================
