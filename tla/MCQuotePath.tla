---------------------------- MODULE MCQuotePath ----------------------------
(* An instance of QuotePath: a future, an option, an option whose id is    *)
(* longer than the tick's array, a quote without id, and quotes of the     *)
(* option that differ from the first in what validate() looks at.          *)
EXTENDS QuotePath

(* A quote with a different value in every field. *)
Base ==
  [InstrumentID |-> <<"o", "p">>, ExchangeID |-> <<"x">>,
   UpdateTime |-> <<9, 30, 1>>, TradingDay |-> <<"d", 1>>,
   LastPrice |-> 100, Volume |-> 7, BidPrice1 |-> 99, BidVolume1 |-> 11,
   AskPrice1 |-> 101, AskVolume1 |-> 12, UpperLimitPrice |-> 120,
   LowerLimitPrice |-> 80, OpenPrice |-> 98, HighestPrice |-> 104,
   LowestPrice |-> 96, PreSettlementPrice |-> 97, OpenInterest |-> 5000,
   Turnover |-> 700, UpdateMillisec |-> 500]

MCDepths ==
  {Base,
   [Base EXCEPT !.InstrumentID = <<"f">>],
   [Base EXCEPT !.InstrumentID = <<"o", "p", "t", "i", "o">>],
   [Base EXCEPT !.InstrumentID = <<>>],
   [Base EXCEPT !.Volume = 6],
   [Base EXCEPT !.UpdateMillisec = 0],
   [Base EXCEPT !.UpdateTime = <<"?">>, !.Volume = 9],
   [Base EXCEPT !.LastPrice = 0],
   [Base EXCEPT !.LastPrice = 130],
   [Base EXCEPT !.TradingDay = <<>>, !.Volume = 8],
   [Base EXCEPT !.TradingDay = <<"d", 2>>, !.UpdateTime = <<9, 0, 0>>, !.Volume = 1]}

MCOptionSet == {<<"o", "p">>, <<"o", "p", "t", "i", "o">>}
Spelled(c, n) == [k \in 1..n |-> c]
MCQuote  == Spelled("q", 5)
MCGreeks == Spelled("g", 19)
MCChars == {"q", "g", "t"}
MCOtherTopics == {Spelled("t", 300), Spelled("t", 400), Spelled("t", UINT16_MAX + 4)}
=============================================================================
