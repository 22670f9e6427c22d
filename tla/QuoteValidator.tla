--------------------------- MODULE QuoteValidator ---------------------------
(***************************************************************************)
(* quote_validator.h: whether a tick is plausible after the previous tick  *)
(* of its instrument.  The class keeps no state; "prev tick state is       *)
(* passed in from the caller", which is not part of the repository:        *)
(* CtpGateway has the member quote_validator_ and never calls it.          *)
(*                                                                         *)
(* Prices are whole numbers here, so that the 10 % comparison is exact.  A *)
(* time is the sequence of the numbers sscanf finds in "HH:MM:SS".         *)
(***************************************************************************)
EXTENDS Integers, Sequences

CONSTANT NoTick         \* the null predecessor

OtherDay(cur, prev) ==
  cur.trading_day # <<>> /\ prev.trading_day # <<>> /\ cur.trading_day # prev.trading_day

Abs(n) == IF n >= 0 THEN n ELSE -n

(* MAX_PRICE_JUMP_RATIO is 0.10. *)
Jumped(cur, prev) == Abs(cur.last_price - prev.last_price) * 10 > prev.last_price

is_price_within_limits(cur, prev) ==
  \/ prev.last_price <= 0
  \/ prev.lower_limit_price <= 0 \/ prev.upper_limit_price <= 0
  \/ prev.last_price <= prev.lower_limit_price
  \/ prev.last_price >= prev.upper_limit_price
  \/ ~Jumped(cur, prev)
  \/ cur.lower_limit_price <= cur.last_price /\ cur.last_price <= cur.upper_limit_price

Readable(time) == Len(time) = 3

MsOfDay(t) ==
  (t.update_time[1] * 3600 + t.update_time[2] * 60 + t.update_time[3]) * 1000
    + t.update_millisec

is_timestamp_regression(cur, prev) ==
  /\ ~OtherDay(cur, prev)
  /\ Readable(cur.update_time) /\ Readable(prev.update_time)
  /\ MsOfDay(cur) < MsOfDay(prev)

(* Mutant: the volume check looks at the tick alone. *)
ValidateNoVolume(cur, prev) ==
  \/ prev = NoTick \/ prev.last_price = 0 \/ OtherDay(cur, prev)
  \/ is_price_within_limits(cur, prev) /\ ~is_timestamp_regression(cur, prev)

validate(cur, prev) ==
  \/ prev = NoTick \/ prev.last_price = 0 \/ OtherDay(cur, prev)
  \/ /\ is_price_within_limits(cur, prev)
     /\ ~is_timestamp_regression(cur, prev)
     /\ cur.volume >= prev.volume
=============================================================================
