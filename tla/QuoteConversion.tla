-------------------------- MODULE QuoteConversion --------------------------
(***************************************************************************)
(* The representations a quote passes through, and the conversions between *)
(* them: CTP's depth record, the tyche payload that on_quote_received gets *)
(* and publishes for a future, the QuoteTick that waits in the ring for an *)
(* option, and the payload the greeks engine is sent.  Each conversion is  *)
(* a table from the names on one side to the names on the other.           *)
(*                                                                         *)
(* A text is the sequence of its characters; what the characters are does  *)
(* not matter, only that a fixed-size array keeps one place for the NUL.   *)
(***************************************************************************)
EXTENDS Integers, Sequences

CONSTANTS
  IdWidth,        \* sizeof(QuoteTick::instrument_id), 32
  TextWidth       \* sizeof of its exchange_id, update_time, trading_day, 9

ASSUME WidthAssumption == IdWidth \in Nat \ {0} /\ TextWidth \in Nat \ {0}

Cut(s, width) == SubSeq(s, 1, IF Len(s) < width THEN Len(s) ELSE width - 1)

Texts == {"instrument_id", "exchange_id", "update_time", "trading_day"}

(* What a QuoteTick holds of a quote; receive_ts_ns, sequence and flags are *)
(* never published.                                                        *)
TickFields == Texts \cup
  {"last_price", "bid_price1", "ask_price1", "bid_volume1", "ask_volume1",
   "open_interest", "turnover", "upper_limit_price", "lower_limit_price",
   "open_price", "high_price", "low_price", "pre_settle_price",
   "volume", "update_millisec"}

(* The members of CThostFtdcDepthMarketDataField the gateway reads. *)
DepthField ==
  [instrument_id |-> "InstrumentID", exchange_id |-> "ExchangeID",
   update_time |-> "UpdateTime", trading_day |-> "TradingDay",
   last_price |-> "LastPrice", volume |-> "Volume",
   bid_price1 |-> "BidPrice1", bid_volume1 |-> "BidVolume1",
   ask_price1 |-> "AskPrice1", ask_volume1 |-> "AskVolume1",
   upper_limit_price |-> "UpperLimitPrice", lower_limit_price |-> "LowerLimitPrice",
   open_price |-> "OpenPrice", high_price |-> "HighestPrice", low_price |-> "LowestPrice",
   pre_settle_price |-> "PreSettlementPrice", open_interest |-> "OpenInterest",
   turnover |-> "Turnover", update_millisec |-> "UpdateMillisec"]

DepthFields == {DepthField[f] : f \in TickFields}

(* A text assigned to a member array of QuoteTick, a number as it is. *)
Stored(f, v) ==
  IF f \notin Texts THEN v ELSE Cut(v, IF f = "instrument_id" THEN IdWidth ELSE TextWidth)

Zero(f) == IF f \in Texts THEN <<>> ELSE 0

depth_to_payload(d) == [k \in TickFields |-> d[DepthField[k]]]

depth_to_tick(d) == [f \in TickFields |-> Stored(f, d[DepthField[f]])]

(* The payload key on_quote_received looks for to fill a member. *)
ReadKey(f) ==
  CASE f = "upper_limit_price" -> "upper_limit"
    [] f = "lower_limit_price" -> "lower_limit"
    [] f = "pre_settle_price"  -> "pre_settle"
    [] OTHER -> f

(* Mutant: the two sides of the book are swapped on the way into the tick. *)
FilledTickSwapped(p) ==
  [f \in TickFields |->
     CASE f = "bid_price1" -> p["ask_price1"]
       [] f = "ask_price1" -> p["bid_price1"]
       [] OTHER -> IF ReadKey(f) \in DOMAIN p THEN Stored(f, p[ReadKey(f)]) ELSE Zero(f)]

(* A key the payload lacks leaves the member at the memset's zero. *)
FilledTick(p) ==
  [f \in TickFields |-> IF ReadKey(f) \in DOMAIN p THEN Stored(f, p[ReadKey(f)]) ELSE Zero(f)]

(* The keys of the payload the greeks engine is sent, over ZMQ ... *)
EventKeys == {ReadKey(f) : f \in TickFields}

tick_to_payload(t) ==
  [k \in EventKeys |->
     CASE k = "upper_limit" -> t.upper_limit_price
       [] k = "lower_limit" -> t.lower_limit_price
       [] k = "pre_settle"  -> t.pre_settle_price
       [] OTHER -> t[k]]
=============================================================================
