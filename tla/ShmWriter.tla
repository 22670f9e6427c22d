----------------------------- MODULE ShmWriter -----------------------------
(***************************************************************************)
(* shm_writer.h: how an event becomes bytes in the SharedMemoryQueue,      *)
(*   [uint16 topic_len, little-endian] [topic] [msgpack of the Message],   *)
(* and what a QuoteTick becomes there.  A byte of the topic is one         *)
(* character, the serialized Message is one unit.  Whether the frame is    *)
(* put together on the stack or, above 4096 bytes, in a vector makes no    *)
(* difference to what is written.                                          *)
(***************************************************************************)
EXTENDS QuoteConversion

UINT16_MAX == 65535

(* Mutant: the length goes out in network order. *)
FrameBigEndian(topic, msg) ==
  LET n == Len(topic) % (UINT16_MAX + 1)
  IN  <<n \div 256, n % 256>> \o SubSeq(topic, 1, n) \o <<msg>>

Frame(topic, msg) ==
  LET n == Len(topic) % (UINT16_MAX + 1)        \* static_cast<uint16_t>
  IN  <<n % 256, n \div 256>> \o SubSeq(topic, 1, n) \o <<msg>>

(* The reader in the engine takes the length, the topic, and the rest. *)
FrameTopic(f) == SubSeq(f, 3, 2 + f[1] + 256 * f[2])
FrameBody(f)  == SubSeq(f, 3 + f[1] + 256 * f[2], Len(f))

Message(topic, payload) == [msg_type |-> "EVENT", event |-> topic, payload |-> payload]

(* Topics write_shm_event and write_shm_event_tls accept. *)
TopicFits(topic) == Len(topic) <= UINT16_MAX

write_shm_event(topic, payload) == Frame(topic, Message(topic, payload))

(* Mutant: the shared-memory copy of the table keeps the depth record's names. *)
TickPayloadOwnNames(t) == t

(* The payload write_shm_quote_tick builds itself, key by key. *)
TickPayload(t) ==
  [k \in EventKeys |->
     CASE k = "upper_limit" -> t.upper_limit_price
       [] k = "lower_limit" -> t.lower_limit_price
       [] k = "pre_settle"  -> t.pre_settle_price
       [] OTHER -> t[k]]

write_shm_quote_tick(topic, t) == Frame(topic, Message(topic, TickPayload(t)))
=============================================================================
