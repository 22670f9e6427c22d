------------------------ MODULE MCInstrumentResolver ------------------------
(* A product on an exchange with a single option product, configured       *)
(* twice, and one on CZCE with two option products; static data lists      *)
(* something for all but one of the queries.                               *)
EXTENDS InstrumentResolver

MCProducts ==
  << [exchange |-> "CZCE", product |-> "SR"],
     [exchange |-> "SHFE", product |-> "ag"], [exchange |-> "SHFE", product |-> "ag"] >>

Contract(exchange, product, class, id) ==
  [exchange |-> exchange, product |-> product, class |-> class, id |-> id]

MCListed ==
  { Contract("SHFE", <<"ag">>, "1", "ag2501"),
    Contract("SHFE", <<"ag", "_o">>, "2", "ag2501C5000"),
    Contract("CZCE", <<"SR">>, "1", "SR501"),
    Contract("CZCE", <<"SR", "P">>, "2", "SR501P6000") }

MCPreLists == { {}, {Contract("SHFE", <<"ag">>, "1", "ag2501")} }
MCPreOptions == {Contract("SHFE", <<"ag", "_o">>, "2", "ag2501C5000")}
=============================================================================
