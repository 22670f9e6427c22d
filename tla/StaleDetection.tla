--------------------------- MODULE StaleDetection ---------------------------
(***************************************************************************)
(* How old the last tick is, and who says so.  on_quote_received stores    *)
(* the steady clock in last_tick_ns_; the dispatch loop looks at it every  *)
(* 30 s and sets tick_stale_ when it is more than 30 s old;                *)
(* is_tick_stale() compares it with 5 s on demand.  Every reader goes      *)
(* through last_tick_age_ms(), which reads the clock BEFORE it loads the   *)
(* atomic and subtracts in uint64.                                         *)
(*                                                                         *)
(* Time is counted in units (of 5 s in the runs); the unsigned arithmetic  *)
(* is modulo Modulus, far above any clock value, as 2^64 ns is.            *)
(***************************************************************************)
EXTENDS Integers

CONSTANTS
  AgeLimit,         \* is_tick_stale(): 5 s
  LoopLimit,        \* stale_threshold_ms: 30 s
  Interval,         \* stale_check_interval: 30 s
  Lag,              \* bound: longest a thread stalls between two steps
  HostUptime,       \* the steady clock when the dispatch thread starts
  Modulus,          \* 2^64, scaled
  MaxClock          \* bound on the clock

ASSUME StaleAssumption ==
  /\ AgeLimit \in Nat /\ LoopLimit \in Nat /\ AgeLimit < LoopLimit
  /\ Interval \in Nat \ {0} /\ Lag \in Nat
  /\ HostUptime \in Nat \ {0} /\ MaxClock \in Nat /\ HostUptime < MaxClock
  /\ Modulus \in Nat /\ 2 * MaxClock < Modulus

VARIABLES
  clock,            \* steady_clock
  md, md_now,       \* the callback thread, and now_ns in on_quote_received
  last_tick,        \* last_tick_ns_
  disp, disp_now,   \* the dispatch thread, and `now` in its loop
  age_now,          \* `now` of the last_tick_age_ms() it calls
  last_check,       \* last_stale_check
  tick_stale,       \* tick_stale_
  query, query_now, \* a status request, and `now` of its last_tick_age_ms()
  answer,           \* what is_tick_stale() told it
  true_age,         \* ghost: now - last as integers, at the latest answer
  resumed_at,       \* ghost: when a tick last ended a silence over LoopLimit
  raced_at          \* ghost: when a tick last overtook a check, newer than its clock
(* (A thread's local clock is put back to 0 once it has no more use of it.) *)

mdVars    == <<md, md_now, last_tick, resumed_at, raced_at>>
checkVars == <<disp, disp_now, age_now, last_check, tick_stale>>
queryVars == <<query, query_now, answer, true_age>>
vars == <<clock, mdVars, checkVars, queryVars>>

Time == 0..MaxClock

TypeOK ==
  /\ clock \in Time /\ md_now \in Time /\ last_tick \in Time
  /\ disp_now \in Time /\ age_now \in Time /\ last_check \in Time /\ query_now \in Time
  /\ md \in {"idle", "store"}
  /\ disp \in {"loop", "age", "load"}
  /\ query \in {"idle", "load", "done"}
  /\ tick_stale \in BOOLEAN
  /\ answer \in BOOLEAN
  /\ true_age \in Int /\ resumed_at \in Time /\ raced_at \in Time

Init ==
  /\ clock = HostUptime
  /\ md = "idle" /\ md_now = 0 /\ last_tick = 0
  /\ disp = "loop" /\ disp_now = 0 /\ age_now = 0
  /\ last_check = HostUptime /\ tick_stale = FALSE
  /\ query = "idle" /\ query_now = 0 /\ answer = FALSE
  /\ true_age = 0 /\ resumed_at = 0 /\ raced_at = 0

(* last_tick_age_ms(): int64 now is converted to uint64 for the difference. *)
Age(now, last) == (now - last) % Modulus

(* Time passes, but no thread is starved: the loop gets to its check, a    *)
(* callback to its store and a status request to its answer within Lag.    *)
Pass ==
  /\ clock < MaxClock
  /\ clock - last_check < Interval + Lag
  /\ md = "store" => clock - md_now < Lag
  /\ query = "load" => clock - query_now < Lag
  /\ clock' = clock + 1
  /\ UNCHANGED <<mdVars, checkVars, queryVars>>

QuoteReadClock ==
  /\ md = "idle" /\ md' = "store"
  /\ md_now' = clock
  /\ UNCHANGED <<clock, last_tick, resumed_at, raced_at, checkVars, queryVars>>

Noted ==
  /\ resumed_at' = IF clock - last_tick > LoopLimit THEN clock ELSE resumed_at
  /\ raced_at' = IF disp = "load" /\ md_now > age_now THEN clock ELSE raced_at

(* Mutant: the clock is stored in the finer unit it was cast from. *)
QuoteStoreWrongUnit ==
  /\ md = "store" /\ md' = "idle"
  /\ last_tick' = md_now * 1000 /\ md_now' = 0 /\ Noted
  /\ UNCHANGED <<clock, checkVars, queryVars>>

QuoteStore ==
  /\ md = "store" /\ md' = "idle"
  /\ last_tick' = md_now /\ md_now' = 0 /\ Noted
  /\ UNCHANGED <<clock, checkVars, queryVars>>

Due(now) == now - last_check >= Interval

CheckStart ==
  /\ disp = "loop" /\ Due(clock)
  /\ disp' = "age"
  /\ disp_now' = clock
  /\ UNCHANGED <<clock, mdVars, age_now, last_check, tick_stale, queryVars>>

CheckReadClock ==
  /\ disp = "age" /\ disp' = "load"
  /\ age_now' = clock
  /\ UNCHANGED <<clock, mdVars, disp_now, last_check, tick_stale, queryVars>>

(* Mutant: the loop waits one interval more. *)
LoopFindsStaleLate(age)  == age > LoopLimit + Interval
LoopFindsStale(age) == age > LoopLimit

(* Mutant: without its else branch, the check never takes the flag down. *)
CheckStoreNeverClears ==
  /\ disp = "load" /\ disp' = "loop"
  /\ tick_stale' = (tick_stale \/ LoopFindsStale(Age(age_now, last_tick)))
  /\ last_check' = disp_now
  /\ disp_now' = 0 /\ age_now' = 0
  /\ UNCHANGED <<clock, mdVars, queryVars>>

CheckStore ==
  /\ disp = "load" /\ disp' = "loop"
  /\ tick_stale' = LoopFindsStale(Age(age_now, last_tick))
  /\ last_check' = disp_now
  /\ disp_now' = 0 /\ age_now' = 0
  /\ UNCHANGED <<clock, mdVars, queryVars>>

StatusReadClock ==
  /\ query # "load" /\ query' = "load"
  /\ query_now' = clock
  /\ answer' = FALSE /\ true_age' = 0
  /\ UNCHANGED <<clock, mdVars, checkVars>>

StatusAnswer ==
  /\ query = "load" /\ query' = "done"
  /\ answer' = (Age(query_now, last_tick) > AgeLimit)
  /\ true_age' = query_now - last_tick
  /\ query_now' = 0
  /\ UNCHANGED <<clock, mdVars, checkVars>>

Next ==
  \/ Pass
  \/ QuoteReadClock \/ QuoteStore
  \/ CheckStart \/ CheckReadClock \/ CheckStore
  \/ StatusReadClock \/ StatusAnswer

Spec == Init /\ [][Next]_vars

-----------------------------------------------------------------------------
(* A silence is never missed: once the loop has had time for a check, a    *)
(* last tick older than threshold + interval + lag is flagged, however the *)
(* callback and the check interleave.                                      *)
SilenceIsFlagged ==
  /\ clock - HostUptime > Interval + Lag
  /\ clock - last_tick > LoopLimit + Interval + Lag
  => tick_stale

(* No alarm outlives its cause by more than one check: while the flag that *)
(* gateway_status reports is up, the feed is silent, or it came back less  *)
(* than interval + lag ago, or a tick overtook a check that recently (its  *)
(* age wraps and raises the flag on a live feed; the next check clears it).*)
FlagTracksFeed ==
  tick_stale =>
    \/ clock - last_tick > LoopLimit
    \/ clock - resumed_at <= Interval + Lag
    \/ clock - raced_at <= Interval + Lag

(* "Check if last tick is stale (no update for >5 seconds)"                *)
(* (ctp_gateway.h:53): is_tick_stale() answers TRUE only when the last     *)
(* tick is more than 5 s older than the clock it read.                     *)
StaleMeansNoUpdate == query = "done" /\ answer => true_age > AgeLimit
=============================================================================
