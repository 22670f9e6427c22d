--------------------------- MODULE QuotePathProofs ---------------------------
(* Quotes keep their values and frames come apart, for every feed, every   *)
(* set of options and topics, and every size of the queue.                 *)
EXTENDS QuotePath, SequenceTheorems, WellFoundedInduction, TLAPS

Topics   == OtherTopics \cup {Quote, Greeks}
Ticks    == {FilledTick(depth_to_payload(d)) : d \in Depths}
Payloads == {depth_to_payload(d) : d \in Depths} \cup {TickPayload(t) : t \in Ticks} \cup {<<>>}
Judged   == {depth_to_tick(d) : d \in Depths}

(* What waits in the ring, and in the queue, is what a quote made of it.   *)
OptionTicks == {FilledTick(depth_to_payload(pushed[k])) : k \in Options}

SoundFrames ==
  {Frame(e[1], Message(e[1], e[2])) :
     e \in {e \in Topics \X Payloads : TopicFits(e[1]) /\ Faithful(e[1], e[2])}}

PathInv ==
  /\ shm_mode \in BOOLEAN
  /\ pushed \in Seq(Depths) /\ Len(pushed) <= MaxQuotes
  /\ ring \in Seq(OptionTicks)
  /\ queue \in Seq(SoundFrames)
  /\ Len(queue) <= SlotCount /\ \A k \in DOMAIN queue : Len(queue[k]) <= MaxMsgSize
  /\ \A e \in events : DOMAIN e = {1, 2} /\ Faithful(e[1], e[2])
  /\ accepted \in Seq(Judged)

-----------------------------------------------------------------------------
(* The tables of names                                                     *)

LEMMA EventKeysSplit ==
  /\ EventKeys = (TickFields \ {"upper_limit_price", "lower_limit_price", "pre_settle_price"})
                   \cup LimitKeys
  /\ LimitKeys \cap TickFields = {}
<1>1. LimitKeys \cap TickFields = {}
  BY DEF LimitKeys, TickFields, Texts
<1>2. {"upper_limit_price", "lower_limit_price", "pre_settle_price"} \subseteq TickFields
  BY DEF TickFields
<1>3. ASSUME NEW f \in TickFields PROVE
        ReadKey(f) \in (TickFields \ {"upper_limit_price", "lower_limit_price", "pre_settle_price"})
                         \cup LimitKeys
  BY DEF ReadKey, LimitKeys
<1>4. \A f \in TickFields \ {"upper_limit_price", "lower_limit_price", "pre_settle_price"} :
        ReadKey(f) = f
  BY DEF ReadKey
<1>5. /\ ReadKey("upper_limit_price") = "upper_limit"
      /\ ReadKey("lower_limit_price") = "lower_limit"
      /\ ReadKey("pre_settle_price") = "pre_settle"
  BY DEF ReadKey
<1>6. QED BY <1>1, <1>2, <1>3, <1>4, <1>5 DEF EventKeys, LimitKeys

(* An option's event: the quote's own values, and nothing for the limits.  *)
LEMMA OptionPayload ==
  ASSUME NEW d, NEW t, t = FilledTick(depth_to_payload(d))
  PROVE  /\ DOMAIN TickPayload(t) \ TickFields = LimitKeys
         /\ \A f \in TickFields \cap DOMAIN TickPayload(t) :
              TickPayload(t)[f] = Stored(f, d[DepthField[f]])
         /\ \A f \in LimitKeys : TickPayload(t)[f] = 0
<1>1. DOMAIN TickPayload(t) = EventKeys
  BY DEF TickPayload
<1>2. /\ DOMAIN depth_to_payload(d) = TickFields
      /\ \A f \in TickFields : depth_to_payload(d)[f] = d[DepthField[f]]
  BY DEF depth_to_payload
<1>3. ASSUME NEW f \in TickFields, f \notin {"upper_limit_price", "lower_limit_price", "pre_settle_price"}
      PROVE  TickPayload(t)[f] = Stored(f, d[DepthField[f]])
  <2>1. ReadKey(f) = f
    BY <1>3 DEF ReadKey
  <2>2. t[f] = Stored(f, d[DepthField[f]])
    BY <1>2, <2>1 DEF FilledTick
  <2>3. f \in EventKeys /\ f \notin LimitKeys
    BY <1>3, EventKeysSplit
  <2>4. TickPayload(t)[f] = t[f]
    BY <2>3 DEF TickPayload, LimitKeys
  <2>5. QED BY <2>2, <2>4
<1>4. ASSUME NEW f \in {"upper_limit_price", "lower_limit_price", "pre_settle_price"}
      PROVE  t[f] = 0
  <2>1. f \in TickFields /\ f \notin Texts
    BY <1>4 DEF TickFields, Texts
  <2>2. ReadKey(f) \in LimitKeys
    BY <1>4 DEF ReadKey, LimitKeys
  <2>3. ReadKey(f) \notin DOMAIN depth_to_payload(d)
    BY <1>2, <2>2, EventKeysSplit
  <2>4. QED BY <2>1, <2>3 DEF FilledTick, Zero
<1>5. \A f \in LimitKeys : TickPayload(t)[f] = 0
  <2>1. LimitKeys \subseteq EventKeys
    BY EventKeysSplit
  <2>2. QED BY <1>4, <2>1 DEF TickPayload, LimitKeys
<1>6. QED BY <1>1, <1>3, <1>5, EventKeysSplit

(* Frames: whatever goes in comes out again, if the length fits two bytes. *)
LEMMA TwoBytes ==
  ASSUME NEW n \in Nat, n <= UINT16_MAX
  PROVE  /\ n % (UINT16_MAX + 1) = n /\ (n % 256) + 256 * (n \div 256) = n
         /\ n % 256 \in Nat /\ n \div 256 \in Nat
<1>1. UINT16_MAX \in Nat
  BY DEF UINT16_MAX
<1>2. n % (UINT16_MAX + 1) = n
  BY <1>1
<1>3. /\ (n % 256) + 256 * (n \div 256) = n
      /\ n % 256 \in Nat /\ n \div 256 \in Nat
  OBVIOUS
<1>4. QED BY <1>2, <1>3

LEMMA FrameParts ==
  ASSUME NEW topic \in Seq(Chars), TopicFits(topic), NEW msg
  PROVE  FrameTopic(Frame(topic, msg)) = topic /\ FrameBody(Frame(topic, msg)) = <<msg>>
<1> DEFINE n == Len(topic)
           S == Nat \cup Chars \cup {msg}
           f == Frame(topic, msg)
           head == <<n % 256, n \div 256>>
<1>1. /\ n \in Nat /\ n % (UINT16_MAX + 1) = n /\ (n % 256) + 256 * (n \div 256) = n
      /\ n % 256 \in Nat /\ n \div 256 \in Nat
  <2>1. n \in Nat
    OBVIOUS
  <2>2. n <= UINT16_MAX
    BY DEF TopicFits
  <2>3. QED BY <2>1, <2>2, TwoBytes
<1>2. SubSeq(topic, 1, n) = topic
  OBVIOUS
<1>3. f = head \o topic \o <<msg>>
  BY <1>1, <1>2, ZenonT(60) DEF Frame
<1>4. head \in Seq(S) /\ topic \in Seq(S) /\ <<msg>> \in Seq(S)
  BY <1>1
<1>5. /\ f \in Seq(S) /\ Len(f) = n + 3 /\ f[1] = n % 256 /\ f[2] = n \div 256
      /\ \A i \in 1..n : f[i + 2] = topic[i]
      /\ f[n + 3] = msg
  <2> HIDE DEF n, S, f
  <2>1. n = Len(topic) /\ n \in Nat
    BY <1>1 DEF n
  <2>2. QED BY <1>3, <1>4, <2>1
<1>6. 2 + f[1] + 256 * f[2] = n + 2 /\ 3 + f[1] + 256 * f[2] = n + 3
  <2> HIDE DEF f, n
  <2>1. QED BY <1>1, <1>5
<1>7. SubSeq(f, 3, n + 2) = topic
  <2> HIDE DEF f, S
  <2>1. n = Len(topic) /\ n \in Nat
    BY <1>1 DEF n
  <2>2. /\ SubSeq(f, 3, n + 2) \in Seq(S) /\ Len(SubSeq(f, 3, n + 2)) = n
        /\ \A i \in 1..n : SubSeq(f, 3, n + 2)[i] = f[i + 2]
    BY <1>5, <2>1
  <2>3. topic \in Seq(S) /\ Len(topic) = n /\ \A i \in 1..n : SubSeq(f, 3, n + 2)[i] = topic[i]
    BY <1>4, <1>5, <2>1, <2>2
  <2>4. QED BY ONLY <2>2, <2>3, SeqEqual
<1>8. SubSeq(f, n + 3, Len(f)) = <<msg>>
  <2> HIDE DEF f, S, n
  <2>1. /\ SubSeq(f, n + 3, n + 3) \in Seq(S) /\ Len(SubSeq(f, n + 3, n + 3)) = 1
        /\ SubSeq(f, n + 3, n + 3)[1] = f[n + 3]
    BY <1>1, <1>5
  <2>2. /\ <<msg>> \in Seq(S) /\ Len(<<msg>>) = 1 /\ <<msg>>[1] = msg /\ 1..1 = {1}
    BY <1>4
  <2>3. \A i \in 1..1 : SubSeq(f, n + 3, n + 3)[i] = <<msg>>[i]
    BY <1>5, <2>1, <2>2
  <2>4. SubSeq(f, n + 3, n + 3) = <<msg>>
    BY <2>1, <2>2, <2>3, SeqEqual
  <2>5. QED BY <1>5, <2>4
<1>9. QED BY <1>1, <1>5, <1>6, <1>7, <1>8 DEF FrameTopic, FrameBody

-----------------------------------------------------------------------------
(* What holds of the quotes pushed so far goes on to hold.                 *)
LEMMA PushedGrows ==
  ASSUME \A k \in DOMAIN pushed : k \in DOMAIN pushed' /\ pushed'[k] = pushed[k]
  PROVE  /\ \A topic, payload : Faithful(topic, payload) => Faithful(topic, payload)'
         /\ OptionTicks \subseteq OptionTicks'
         /\ SoundFrames \subseteq SoundFrames'
<1>1. \A k \in Options : k \in Options' /\ pushed'[k] = pushed[k]
  BY DEF Options
<1>2. \A k \in DOMAIN pushed \ Options :
        k \in DOMAIN pushed' \ Options' /\ pushed'[k] = pushed[k]
  BY DEF Options
<1>3. ASSUME NEW topic, NEW payload, Faithful(topic, payload)
      PROVE  Faithful(topic, payload)'
  <2>1. CASE topic = Quote /\ topic # Greeks
    <3>1. PICK k \in DOMAIN pushed \ Options :
            \A f \in TickFields : payload[f] = pushed[k][DepthField[f]]
      BY <1>3, <2>1 DEF Faithful
    <3>2. QED BY <1>2, <2>1, <3>1 DEF Faithful
  <2>2. CASE topic = Greeks /\ topic # Quote
    <3>1. PICK k \in Options :
            /\ \A f \in TickFields \cap DOMAIN payload :
                 payload[f] = Stored(f, pushed[k][DepthField[f]])
            /\ DOMAIN payload \ TickFields = LimitKeys
            /\ \A f \in LimitKeys : payload[f] = 0
      BY <1>3, <2>2 DEF Faithful
    <3>2. QED BY <1>1, <2>2, <3>1 DEF Faithful
  <2>3. CASE topic # Greeks /\ topic # Quote
    BY <2>3 DEF Faithful
  <2>4. QED BY <2>1, <2>2, <2>3, PathAssumption
<1>4. OptionTicks \subseteq OptionTicks'
  BY <1>1 DEF OptionTicks
<1>5. SoundFrames \subseteq SoundFrames'
  BY <1>3 DEF SoundFrames
<1>6. QED BY <1>3, <1>4, <1>5

(* A frame is written where it fits, or not at all.                        *)
LEMMA WriteKeeps ==
  ASSUME PathInv, NEW f, Write(f), f \in SoundFrames', SoundFrames \subseteq SoundFrames'
  PROVE  /\ queue' \in Seq(SoundFrames')
         /\ Len(queue') <= SlotCount /\ \A k \in DOMAIN queue' : Len(queue'[k]) <= MaxMsgSize
<1>0. queue \in Seq(SoundFrames')
  BY DEF PathInv
<1>1. CASE queue' = queue
  BY <1>0, <1>1 DEF PathInv
<1>2. CASE queue' = Append(queue, f) /\ Len(queue) < SlotCount /\ Len(f) <= MaxMsgSize
  <2>1. /\ queue' \in Seq(SoundFrames') /\ Len(queue') = Len(queue) + 1
        /\ \A k \in DOMAIN queue' : (k \in DOMAIN queue /\ queue'[k] = queue[k]) \/ queue'[k] = f
        /\ Len(queue) \in Nat
    BY <1>0, <1>2
  <2>2. Len(queue') <= SlotCount
    BY <1>2, <2>1, PathAssumption
  <2>3. \A k \in DOMAIN queue' : Len(queue'[k]) <= MaxMsgSize
    BY <1>2, <2>1 DEF PathInv
  <2>4. QED BY <2>1, <2>2, <2>3
<1>3. QED BY <1>1, <1>2 DEF Write

(* An event is added, and the others stay as they were.                    *)
LEMMA EventAdded ==
  ASSUME PathInv, NEW topic, NEW payload, Faithful(topic, payload)',
         events' = events \cup {<<topic, payload>>},
         \A t, p : Faithful(t, p) => Faithful(t, p)'
  PROVE  \A e \in events' : DOMAIN e = {1, 2} /\ Faithful(e[1], e[2])'
<1>1. TAKE e \in events'
<1>2. CASE e \in events
  BY <1>2 DEF PathInv
<1>3. CASE e = <<topic, payload>>
  <2>1. DOMAIN e = {1, 2} /\ e[1] = topic /\ e[2] = payload
    BY <1>3
  <2>2. QED BY <2>1
<1>4. QED BY <1>2, <1>3

-----------------------------------------------------------------------------
LEMMA InitPath == Init => PathInv
BY PathAssumption DEF Init, PathInv

(* A callback puts the new quote behind the others, and what it makes of   *)
(* the quote is true of it.                                                *)
LEMMA OnQuoteKeeps ==
  ASSUME PathInv, NEW d \in Depths, OnQuote(d)
  PROVE  PathInv'
<1> DEFINE p == depth_to_payload(d)
           n == Len(pushed) + 1
<1>1. /\ pushed' \in Seq(Depths) /\ Len(pushed') <= MaxQuotes
      /\ n \in DOMAIN pushed' /\ pushed'[n] = d
      /\ \A k \in DOMAIN pushed : k \in DOMAIN pushed' /\ pushed'[k] = pushed[k]
  BY PathAssumption DEF OnQuote, PathInv
<1>2. /\ \A topic, payload : Faithful(topic, payload) => Faithful(topic, payload)'
      /\ OptionTicks \subseteq OptionTicks' /\ SoundFrames \subseteq SoundFrames'
  BY <1>1, PushedGrows
<1>3. ring \in Seq(OptionTicks') /\ queue \in Seq(SoundFrames')
  BY <1>2 DEF PathInv
<1>4. \A e \in events : DOMAIN e = {1, 2} /\ Faithful(e[1], e[2])'
  BY <1>2 DEF PathInv
<1>5. accepted' \in Seq(Judged)
  <2>1. depth_to_tick(d) \in Judged /\ accepted \in Seq(Judged)
    BY DEF Judged, PathInv
  <2>2. accepted' = accepted \/ accepted' = Append(accepted, depth_to_tick(d))
    BY DEF OnQuote, Judge
  <2>3. QED BY <2>1, <2>2
<1>6. shm_mode' \in BOOLEAN
  BY DEF OnQuote, PathInv
<1>7. CASE IsOption(p) /\ ring' = Append(ring, FilledTick(p)) /\ UNCHANGED <<queue, events>>
  <2>1. n \in Options'
    BY <1>1, <1>7 DEF Options
  <2>2. FilledTick(p) \in OptionTicks'
    BY <1>1, <2>1 DEF OptionTicks
  <2>3. ring' \in Seq(OptionTicks')
    BY <1>3, <1>7, <2>2
  <2>4. /\ queue' \in Seq(SoundFrames') /\ Len(queue') <= SlotCount
        /\ \A k \in DOMAIN queue' : Len(queue'[k]) <= MaxMsgSize
    BY <1>3, <1>7 DEF PathInv
  <2>5. \A e \in events' : DOMAIN e = {1, 2} /\ Faithful(e[1], e[2])'
    BY <1>4, <1>7
  <2>6. QED BY <1>1, <1>5, <1>6, <2>3, <2>4, <2>5 DEF PathInv
<1>8. CASE ~IsOption(p) /\ Publish(Quote, p) /\ ring' = ring
  <2>1. n \in DOMAIN pushed' \ Options'
    BY <1>1, <1>8 DEF Options
  <2>2. \A f \in TickFields : p[f] = pushed'[n][DepthField[f]]
    BY <1>1 DEF depth_to_payload
  <2>3. Faithful(Quote, p)'
    BY <2>1, <2>2, PathAssumption DEF Faithful
  <2>4. Quote \in Topics /\ p \in Payloads /\ TopicFits(Quote)
    BY PathAssumption DEF Topics, Payloads
  <2>5. ring' \in Seq(OptionTicks')
    BY <1>3, <1>8
  <2>6. CASE Write(Frame(Quote, Message(Quote, p))) /\ events' = events
    <3>1. <<Quote, p>> \in Topics \X Payloads /\ <<Quote, p>>[1] = Quote /\ <<Quote, p>>[2] = p
      BY <2>4
    <3>2. Frame(Quote, Message(Quote, p)) \in SoundFrames'
      <4> HIDE DEF p
      <4>1. QED BY <2>3, <2>4, <3>1 DEF SoundFrames
    <3>3. /\ queue' \in Seq(SoundFrames') /\ Len(queue') <= SlotCount
          /\ \A k \in DOMAIN queue' : Len(queue'[k]) <= MaxMsgSize
      BY <1>2, <2>6, <3>2, WriteKeeps
    <3>4. QED BY <1>1, <1>4, <1>5, <1>6, <2>5, <2>6, <3>3 DEF PathInv
  <2>7. CASE events' = events \cup {<<Quote, p>>} /\ queue' = queue
    <3>1. \A e \in events' : DOMAIN e = {1, 2} /\ Faithful(e[1], e[2])'
      BY <1>2, <2>3, <2>7, EventAdded
    <3>2. /\ queue' \in Seq(SoundFrames') /\ Len(queue') <= SlotCount
          /\ \A k \in DOMAIN queue' : Len(queue'[k]) <= MaxMsgSize
      BY <1>3, <2>7 DEF PathInv
    <3>3. QED BY <1>1, <1>5, <1>6, <2>5, <3>1, <3>2 DEF PathInv
  <2>8. QED BY <1>8, <2>6, <2>7 DEF Publish
<1>9. QED BY <1>7, <1>8 DEF OnQuote

(* The other steps push nothing, so what was true of events and frames is. *)
LEMMA PushedStays ==
  ASSUME PathInv, pushed' = pushed
  PROVE  /\ \A topic, payload : Faithful(topic, payload) => Faithful(topic, payload)'
         /\ OptionTicks \subseteq OptionTicks' /\ SoundFrames \subseteq SoundFrames'
         /\ ring \in Seq(OptionTicks') /\ queue \in Seq(SoundFrames')
         /\ \A e \in events : DOMAIN e = {1, 2} /\ Faithful(e[1], e[2])'
<1>1. /\ \A topic, payload : Faithful(topic, payload) => Faithful(topic, payload)'
      /\ OptionTicks \subseteq OptionTicks' /\ SoundFrames \subseteq SoundFrames'
  BY PushedGrows
<1>2. QED BY <1>1 DEF PathInv

LEMMA DispatchKeeps == ASSUME PathInv, Dispatch PROVE PathInv'
<1>1. UNCHANGED <<shm_mode, pushed, accepted>> /\ ring # <<>> /\ ring' = Tail(ring)
  BY DEF Dispatch
<1>2. /\ \A topic, payload : Faithful(topic, payload) => Faithful(topic, payload)'
      /\ OptionTicks \subseteq OptionTicks' /\ SoundFrames \subseteq SoundFrames'
      /\ ring \in Seq(OptionTicks') /\ queue \in Seq(SoundFrames')
      /\ \A x \in events : DOMAIN x = {1, 2} /\ Faithful(x[1], x[2])'
  BY <1>1, PushedStays
<1>3. ring' \in Seq(OptionTicks')
  BY <1>1, <1>2
<1>4. PICK t \in OptionTicks : t = Head(ring)
  BY <1>1 DEF PathInv
<1> DEFINE e == <<Greeks, TickPayload(t)>>
<1>5. PICK k \in Options : t = FilledTick(depth_to_payload(pushed[k]))
  BY <1>4 DEF OptionTicks
<1>6. Faithful(Greeks, TickPayload(t))
  <2>1. /\ DOMAIN TickPayload(t) \ TickFields = LimitKeys
        /\ \A f \in TickFields \cap DOMAIN TickPayload(t) :
             TickPayload(t)[f] = Stored(f, pushed[k][DepthField[f]])
        /\ \A f \in LimitKeys : TickPayload(t)[f] = 0
    BY <1>5, OptionPayload
  <2>2. QED BY <1>5, <2>1, PathAssumption DEF Faithful
<1>7. /\ Greeks \in Topics /\ TopicFits(Greeks) /\ TickPayload(t) \in Payloads
  <2>1. k \in DOMAIN pushed /\ pushed[k] \in Depths
    BY DEF Options, PathInv
  <2>2. t \in Ticks
    BY <1>5, <2>1 DEF Ticks
  <2>3. QED BY <2>2, PathAssumption DEF Topics, Payloads
<1>8. CASE Write(Frame(Greeks, Message(Greeks, TickPayload(t)))) /\ events' = events
  <2>1. e \in Topics \X Payloads /\ e[1] = Greeks /\ e[2] = TickPayload(t)
    BY <1>7
  <2>2. Frame(Greeks, Message(Greeks, TickPayload(t))) \in SoundFrames
    <3> HIDE DEF e
    <3>1. QED BY <1>6, <1>7, <2>1 DEF SoundFrames
  <2>3. /\ queue' \in Seq(SoundFrames') /\ Len(queue') <= SlotCount
        /\ \A i \in DOMAIN queue' : Len(queue'[i]) <= MaxMsgSize
    BY <1>2, <1>8, <2>2, WriteKeeps
  <2>4. QED BY <1>1, <1>2, <1>3, <1>8, <2>3 DEF PathInv
<1>9. CASE events' = events \cup {e} /\ queue' = queue
  <2>1. Faithful(Greeks, TickPayload(t))'
    BY <1>1, <1>2, <1>6
  <2>2. \A x \in events' : DOMAIN x = {1, 2} /\ Faithful(x[1], x[2])'
    BY <1>2, <1>9, <2>1, EventAdded
  <2>3. QED BY <1>1, <1>2, <1>3, <1>9, <2>2 DEF PathInv
<1>10. tick_to_payload(t) = TickPayload(t)
  BY DEF tick_to_payload, TickPayload
<1>11. QED BY <1>4, <1>8, <1>9, <1>10 DEF Dispatch, write_shm_quote_tick

(* A frame comes apart into the topic and the message it was made of.      *)
LEMMA SoundFrameRead ==
  ASSUME PathInv, NEW f \in SoundFrames
  PROVE  /\ Len(FrameBody(f)) = 1 /\ FrameTopic(f) = FrameBody(f)[1].event
         /\ Faithful(FrameTopic(f), FrameBody(f)[1].payload)
<1>1. PICK e \in Topics \X Payloads :
        TopicFits(e[1]) /\ Faithful(e[1], e[2]) /\ f = Frame(e[1], Message(e[1], e[2]))
  BY DEF SoundFrames
<1>2. e[1] \in Seq(Chars)
  BY <1>1, PathAssumption DEF Topics
<1>3. FrameTopic(f) = e[1] /\ FrameBody(f) = <<Message(e[1], e[2])>>
  BY <1>1, <1>2, FrameParts
<1>4. /\ Len(FrameBody(f)) = 1 /\ FrameBody(f)[1].event = e[1]
      /\ FrameBody(f)[1].payload = e[2]
  BY <1>3 DEF Message
<1>5. QED BY <1>1, <1>3, <1>4

LEMMA EngineReadKeeps == ASSUME PathInv, EngineRead PROVE PathInv'
<1>1. UNCHANGED <<shm_mode, pushed, ring, accepted>> /\ queue # <<>> /\ queue' = Tail(queue)
  BY DEF EngineRead
<1>2. /\ \A topic, payload : Faithful(topic, payload) => Faithful(topic, payload)'
      /\ ring \in Seq(OptionTicks') /\ queue \in Seq(SoundFrames')
  BY <1>1, PushedStays
<1>3. PICK f \in SoundFrames : f = Head(queue)
  BY <1>1 DEF PathInv
<1>4. Faithful(FrameTopic(f), FrameBody(f)[1].payload)'
  BY <1>2, SoundFrameRead
<1>5. events' = events \cup {<<FrameTopic(f), FrameBody(f)[1].payload>>}
  BY <1>3 DEF EngineRead
<1>6. \A x \in events' : DOMAIN x = {1, 2} /\ Faithful(x[1], x[2])'
  BY <1>2, <1>4, <1>5, EventAdded
<1>7. /\ queue' \in Seq(SoundFrames') /\ Len(queue') <= SlotCount
      /\ \A k \in DOMAIN queue' : Len(queue'[k]) <= MaxMsgSize
  <2>1. /\ Len(queue') = Len(queue) - 1 /\ Len(queue) \in Nat
        /\ \A k \in DOMAIN queue' : k + 1 \in DOMAIN queue /\ queue'[k] = queue[k + 1]
    BY <1>1 DEF PathInv
  <2>2. QED BY <1>1, <1>2, <2>1, PathAssumption DEF PathInv
<1>8. QED BY <1>1, <1>2, <1>6, <1>7 DEF PathInv

LEMMA WriteOtherKeeps ==
  ASSUME PathInv, NEW topic \in OtherTopics, WriteOther(topic)
  PROVE  PathInv'
<1>1. UNCHANGED <<shm_mode, pushed, ring, events, accepted>> /\ TopicFits(topic)
  BY DEF WriteOther
<1>2. /\ SoundFrames \subseteq SoundFrames' /\ ring \in Seq(OptionTicks')
      /\ \A e \in events : DOMAIN e = {1, 2} /\ Faithful(e[1], e[2])'
  BY <1>1, PushedStays
<1>3. Faithful(topic, <<>>)
  BY PathAssumption DEF Faithful
<1>4. PICK e \in Topics \X Payloads : e[1] = topic /\ e[2] = <<>>
  <2>1. topic \in Topics /\ <<>> \in Payloads
    BY DEF Topics, Payloads
  <2>2. <<topic, <<>>>> \in Topics \X Payloads
    BY <2>1
  <2>3. QED BY <2>2
<1>5. Frame(topic, Message(topic, <<>>)) \in SoundFrames'
  BY <1>1, <1>2, <1>3, <1>4 DEF SoundFrames
<1>6. Write(Frame(topic, Message(topic, <<>>)))
  BY DEF WriteOther, write_shm_event
<1>7. /\ queue' \in Seq(SoundFrames') /\ Len(queue') <= SlotCount
      /\ \A k \in DOMAIN queue' : Len(queue'[k]) <= MaxMsgSize
  BY <1>2, <1>5, <1>6, WriteKeeps
<1>8. QED BY <1>1, <1>2, <1>7 DEF PathInv

LEMMA NextPath == ASSUME PathInv, [Next]_vars PROVE PathInv'
<1>1. CASE \E d \in Depths : OnQuote(d)
  BY <1>1, OnQuoteKeeps
<1>2. CASE \E topic \in OtherTopics : WriteOther(topic)
  BY <1>2, WriteOtherKeeps
<1>3. CASE Dispatch
  BY <1>3, DispatchKeeps
<1>4. CASE EngineRead
  BY <1>4, EngineReadKeeps
<1>5. CASE UNCHANGED vars
  <2>1. UNCHANGED <<shm_mode, pushed, ring, queue, events, accepted>>
    BY <1>5 DEF vars
  <2>2. /\ ring' \in Seq(OptionTicks') /\ queue' \in Seq(SoundFrames')
        /\ \A e \in events' : DOMAIN e = {1, 2} /\ Faithful(e[1], e[2])'
    BY <2>1, PushedStays
  <2>3. QED BY <2>1, <2>2 DEF PathInv
<1>6. QED BY <1>1, <1>2, <1>3, <1>4, <1>5 DEF Next

-----------------------------------------------------------------------------
(* The invariant of the path, for every feed and queue size.               *)
THEOREM PathInvariant == Spec => []PathInv
<1>1. QED BY InitPath, NextPath, PTL DEF Spec

(* Ticks have their members, frames their size, events their two parts.    *)
THEOREM PathTypeCorrect == Spec => []TypeOK
<1>1. PathInv => TypeOK
  <2> SUFFICES ASSUME PathInv PROVE TypeOK
    OBVIOUS
  <2>1. \A t \in OptionTicks : DOMAIN t = TickFields
    BY DEF OptionTicks, FilledTick
  <2>2. \A t \in Judged : DOMAIN t = TickFields
    BY DEF Judged, depth_to_tick
  <2>3. \A k \in DOMAIN ring : DOMAIN ring[k] = TickFields
    BY <2>1 DEF PathInv
  <2>4. \A k \in DOMAIN accepted : DOMAIN accepted[k] = TickFields
    BY <2>2 DEF PathInv
  <2>5. QED BY <2>3, <2>4 DEF PathInv, TypeOK
<1>2. QED BY <1>1, PathInvariant, PTL

(* Every event carries one quote of its own stream, over ZMQ (published by *)
(* Publish and Dispatch) and through frames alike.                         *)
THEOREM EventsAreFaithful == Spec => []EventsFaithful
<1>1. PathInv => EventsFaithful
  BY DEF PathInv, EventsFaithful
<1>2. QED BY <1>1, PathInvariant, PTL

(* Every frame of write_shm_event and write_shm_quote_tick comes apart     *)
(* into its topic and its message, for every topic the length guard lets   *)
(* through.                                                                *)
THEOREM FramesComeApart == Spec => []FramesDecode
<1>1. PathInv => FramesDecode
  <2> SUFFICES ASSUME PathInv PROVE FramesDecode
    OBVIOUS
  <2>1. \A k \in DOMAIN queue : queue[k] \in SoundFrames
    BY DEF PathInv
  <2>2. QED BY <2>1, SoundFrameRead DEF FramesDecode
<1>2. QED BY <1>1, PathInvariant, PTL

(* Every tick in the ring comes off its frame as it would over ZMQ: the    *)
(* table of write_shm_quote_tick is that of tick_to_payload, and the frame *)
(* comes apart where it was put together.                                  *)
THEOREM TransportsDoAgree == Spec => []TransportsAgree
<1>1. TransportsAgree
  <2> SUFFICES ASSUME NEW t
               PROVE  /\ FrameTopic(write_shm_quote_tick(Greeks, t)) = Greeks
                      /\ FrameBody(write_shm_quote_tick(Greeks, t))
                           = <<Message(Greeks, tick_to_payload(t))>>
    BY DEF TransportsAgree
  <2>1. TickPayload(t) = tick_to_payload(t)
    BY DEF TickPayload, tick_to_payload
  <2>2. write_shm_quote_tick(Greeks, t) = Frame(Greeks, Message(Greeks, tick_to_payload(t)))
    BY <2>1 DEF write_shm_quote_tick
  <2>3. Greeks \in Seq(Chars) /\ TopicFits(Greeks)
    BY PathAssumption
  <2>4. QED BY <2>2, <2>3, FrameParts
<1>2. QED BY <1>1, PTL

-----------------------------------------------------------------------------
(* A day of accepted ticks                                                 *)

LEMMA SmallestNat ==
  ASSUME NEW T, T \subseteq Nat, T # {}
  PROVE  \E x \in T : \A y \in T : x <= y
<1>1. PICK x \in T : \A y \in T : ~(<<y, x>> \in OpToRel(<, Nat))
  BY NatLessThanWellFounded, WFMin
<1>2. ASSUME NEW y \in T PROVE x <= y
  <2>1. x \in Nat /\ y \in Nat
    OBVIOUS
  <2>2. <<y, x>> \in OpToRel(<, Nat) <=> y < x
    BY <2>1 DEF OpToRel
  <2>3. ~(y < x)
    BY <1>1, <2>2
  <2>4. QED BY <2>1, <2>3
<1>3. QED BY <1>2

(* The predecessor validate() is given exists where one was accepted.      *)
LEMMA LargestIndex ==
  ASSUME NEW n \in Nat, NEW S, S \subseteq 1..n, S # {}
  PROVE  \E x \in S : \A y \in S : y <= x
<1> DEFINE T == {n - k : k \in S}
<1>1. T \subseteq Nat /\ T # {}
  <2>1. \A k \in S : k \in Int /\ k <= n
    OBVIOUS
  <2>2. ASSUME NEW k \in S PROVE n - k \in Nat
    BY <2>1
  <2>3. T # {}
    OBVIOUS
  <2>4. QED BY <2>2, <2>3
<1>2. PICK m \in T : \A y \in T : m <= y
  <2> HIDE DEF T
  <2>1. QED BY <1>1, SmallestNat
<1>3. PICK x \in S : m = n - x
  OBVIOUS
<1>4. ASSUME NEW y \in S PROVE y <= x
  <2>1. n - y \in T
    OBVIOUS
  <2>2. n - x <= n - y
    BY <1>2, <1>3, <2>1
  <2>3. x \in Int /\ y \in Int
    OBVIOUS
  <2>4. QED BY <2>2, <2>3
<1>5. QED BY <1>4

(* The last of the accepted ticks of t's instrument, at or after i.        *)
LEMMA PredecessorIsLast ==
  ASSUME PathInv, NEW t, NEW i \in DOMAIN accepted,
         accepted[i].instrument_id = t.instrument_id
  PROVE  \E m \in DOMAIN accepted :
           /\ i <= m /\ accepted[m].instrument_id = t.instrument_id
           /\ Predecessor(t) = accepted[m]
<1> DEFINE same == {k \in DOMAIN accepted : accepted[k].instrument_id = t.instrument_id}
           last == CHOOSE l \in same : \A k \in same : k <= l
<1>1. Len(accepted) \in Nat /\ DOMAIN accepted = 1..Len(accepted)
  BY DEF PathInv
<1>2. i \in same /\ same \subseteq 1..Len(accepted)
  BY <1>1
<1>3. \E l \in same : \A k \in same : k <= l
  <2> HIDE DEF same
  <2>1. same # {}
    BY <1>2
  <2>2. QED BY <1>1, <1>2, <2>1, LargestIndex
<1>4. last \in same /\ \A k \in same : k <= last
  <2> HIDE DEF same
  <2>1. QED BY <1>3
<1>5. Predecessor(t) = accepted[last]
  BY <1>2 DEF Predecessor
<1>6. i <= last /\ last \in DOMAIN accepted /\ accepted[last].instrument_id = t.instrument_id
  BY <1>2, <1>4
<1>7. QED BY <1>5, <1>6

(* A priced tick of the feed is no null predecessor, and is ordered by numbers. *)
LEMMA JudgedTyped ==
  ASSUME NEW x \in Judged, Priced(x)
  PROVE  x # NoTick /\ x.volume \in Int /\ MsOfDay(x) \in Int
<1>1. PICK d \in Depths : x = depth_to_tick(d)
  BY DEF Judged
<1>2. x # NoTick /\ x.volume \in Int /\ x.update_millisec \in Int /\ \A k \in 1..3 : x.update_time[k] \in Int
  BY <1>1, FeedAssumption DEF Priced
<1>3. x.update_time[1] \in Int /\ x.update_time[2] \in Int /\ x.update_time[3] \in Int
  BY <1>2
<1>4. QED BY <1>2, <1>3 DEF MsOfDay

(* What validate() leaves of a tick it takes after a priced one of its day. *)
LEMMA ValidatedInOrder ==
  ASSUME NEW t \in Judged, NEW p \in Judged, validate(t, p),
         Priced(t), Priced(p), ~OtherDay(t, p)
  PROVE  p.volume <= t.volume /\ MsOfDay(p) <= MsOfDay(t)
<1>1. p # NoTick /\ p.last_price # 0
  BY JudgedTyped DEF Priced
<1>2. ~is_timestamp_regression(t, p) /\ t.volume >= p.volume
  BY <1>1 DEF validate
<1>3. ~(MsOfDay(t) < MsOfDay(p))
  BY <1>2 DEF is_timestamp_regression, Priced
<1>4. /\ t.volume \in Int /\ p.volume \in Int
      /\ MsOfDay(t) \in Int /\ MsOfDay(p) \in Int
  BY JudgedTyped
<1>5. QED BY <1>2, <1>3, <1>4

(* One more tick: its predecessor is the last one between, and what came   *)
(* before that is in order already.                                        *)
LEMMA AcceptedStaysInOrder ==
  ASSUME PathInv, DayInOrder, NEW t \in Judged, validate(t, Predecessor(t)),
         accepted' = Append(accepted, t)
  PROVE  DayInOrder'
<1> DEFINE n == Len(accepted) + 1
<1>1. /\ Len(accepted) \in Nat /\ DOMAIN accepted = 1..Len(accepted)
      /\ DOMAIN accepted' = 1..n /\ accepted'[n] = t
      /\ \A k \in DOMAIN accepted : accepted'[k] = accepted[k]
      /\ \A k \in DOMAIN accepted : accepted[k] \in Judged
  BY DEF PathInv
<1> HIDE DEF n
<1>2. SUFFICES ASSUME NEW i \in 1..n, NEW j \in 1..n, i < j,
                      j \in Between(i, j)', OneDay(Between(i, j))'
               PROVE  /\ accepted'[i].volume <= accepted'[j].volume
                      /\ MsOfDay(accepted'[i]) <= MsOfDay(accepted'[j])
  BY <1>1 DEF DayInOrder, Between, OneDay
<1>3. i \in DOMAIN accepted /\ accepted'[i] = accepted[i]
  BY <1>1, <1>2 DEF n
<1>4. ASSUME NEW m \in DOMAIN accepted, i <= m, m <= j
      PROVE  Between(i, m) = {k \in Between(i, j)' : k <= m}
  BY <1>1, <1>3, <1>4 DEF Between
<1>5. ASSUME NEW m \in DOMAIN accepted, i <= m, m <= j
      PROVE  OneDay(Between(i, m))
  <2>1. ASSUME NEW k \in Between(i, m)
        PROVE  k \in Between(i, j)' /\ accepted'[k] = accepted[k]
    <3>1. k \in DOMAIN accepted
      BY <1>1, <1>3, <1>5 DEF Between
    <3>2. QED BY <1>1, <1>4, <1>5, <3>1
  <2>2. QED BY <1>2, <2>1 DEF OneDay
<1>6. CASE j # n
  <2>1. j \in DOMAIN accepted /\ accepted'[j] = accepted[j]
    BY <1>1, <1>2, <1>6 DEF n
  <2>2. j \in Between(i, j)
    BY <1>2, <1>4, <2>1
  <2>3. OneDay(Between(i, j))
    BY <1>2, <1>5, <2>1
  <2>4. QED BY <1>2, <1>3, <2>1, <2>2, <2>3 DEF DayInOrder
<1>7. CASE j = n
  <2>1. accepted'[j] = t /\ t.instrument_id = accepted[i].instrument_id
    BY <1>1, <1>2, <1>3, <1>7 DEF Between
  <2>2. PICK m \in DOMAIN accepted :
          /\ i <= m /\ accepted[m].instrument_id = t.instrument_id
          /\ Predecessor(t) = accepted[m]
    BY <1>3, <2>1, PredecessorIsLast
  <2>3. m <= j /\ m \in Between(i, m) /\ m \in Between(i, j)' /\ j \in Between(i, j)'
    BY <1>1, <1>2, <1>3, <1>7, <2>1, <2>2 DEF n, Between
  <2>4. Priced(t) /\ Priced(accepted[m]) /\ ~OtherDay(t, accepted[m])
    BY <1>1, <1>2, <2>1, <2>3 DEF OneDay
  <2>5. accepted[m] \in Judged /\ accepted[i] \in Judged
    BY <1>1, <1>3
  <2>6. accepted[m].volume <= t.volume /\ MsOfDay(accepted[m]) <= MsOfDay(t)
    BY <2>2, <2>4, <2>5, ValidatedInOrder
  <2>7. CASE m = i
    BY <1>3, <2>1, <2>6, <2>7
  <2>8. CASE m # i
    <3>1. i < m
      BY <1>1, <1>3, <2>2, <2>8
    <3>2. OneDay(Between(i, m))
      BY <1>5, <2>2, <2>3
    <3>3. accepted[i].volume <= accepted[m].volume /\ MsOfDay(accepted[i]) <= MsOfDay(accepted[m])
      BY <1>3, <2>3, <3>1, <3>2 DEF DayInOrder
    <3>4. Priced(accepted[i])
      <4>1. i \in Between(i, m)
        BY <1>1, <1>3, <2>2 DEF Between
      <4>2. QED BY <3>2, <4>1 DEF OneDay
    <3>5. /\ accepted[i].volume \in Int /\ MsOfDay(accepted[i]) \in Int
          /\ accepted[m].volume \in Int /\ MsOfDay(accepted[m]) \in Int
          /\ t.volume \in Int /\ MsOfDay(t) \in Int
      BY <2>4, <2>5, <3>4, JudgedTyped
    <3>6. QED BY <1>3, <2>1, <2>6, <3>3, <3>5, SMTT(40)
  <2>9. QED BY <2>7, <2>8
<1>8. QED BY <1>6, <1>7

(* The checks of validate(), each against one predecessor only, keep the   *)
(* accepted ticks of a day in order, for every feed.                       *)
THEOREM DaysInOrder == Spec => []DayInOrder
<1>1. Init => DayInOrder
  BY DEF Init, DayInOrder
<1>2. ASSUME PathInv, DayInOrder, [Next]_vars
      PROVE  DayInOrder'
  <2>1. CASE accepted' = accepted
    BY <1>2, <2>1 DEF DayInOrder, Between, OneDay
  <2>2. CASE \E d \in Depths : OnQuote(d)
    <3>1. PICK d \in Depths : OnQuote(d)
      BY <2>2
    <3>2. depth_to_tick(d) \in Judged
      BY DEF Judged
    <3>3. \/ accepted' = accepted
          \/ /\ validate(depth_to_tick(d), Predecessor(depth_to_tick(d)))
             /\ accepted' = Append(accepted, depth_to_tick(d))
      BY <3>1 DEF OnQuote, Judge
    <3>4. QED BY <1>2, <2>1, <3>2, <3>3, AcceptedStaysInOrder
  <2>3. QED BY <1>2, <2>1, <2>2 DEF Next, vars, WriteOther, Dispatch, EngineRead
<1>3. QED BY <1>1, <1>2, PathInvariant, PTL DEF Spec
=============================================================================
