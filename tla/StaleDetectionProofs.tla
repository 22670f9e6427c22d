------------------------ MODULE StaleDetectionProofs ------------------------
(* The staleness check is right for every limit, interval, lag and clock.  *)
EXTENDS StaleDetection, TLAPS

(* Where the clocks the threads hold lie, and what a check leaves behind:  *)
(* it finds no staleness only if the last tick is no more than LoopLimit   *)
(* older than it, and last_tick never goes back after that.                *)
Clocks ==
  /\ HostUptime <= last_check /\ last_check <= clock
  /\ clock <= last_check + Interval + Lag
  /\ last_tick <= clock /\ md_now <= clock
  /\ md = "store" => last_tick <= md_now
  /\ disp # "loop" => last_check + Interval <= disp_now /\ disp_now <= clock
  /\ disp = "load" => disp_now <= age_now /\ age_now <= clock

LastCheckClear ==
  ~tick_stale /\ last_check > HostUptime => last_check - LoopLimit <= last_tick

(* A tick newer than the clock of the check under way has overtaken it.    *)
(* What a check found silent stays so until the feed resumes after it.     *)
AlarmDated ==
  /\ disp = "load" /\ last_tick > age_now => raced_at >= age_now
  /\ tick_stale => \/ clock - last_tick > LoopLimit
                   \/ resumed_at >= last_check \/ raced_at >= last_check

StaleInv == TypeOK /\ Clocks /\ LastCheckClear /\ AlarmDated

(* The unsigned difference is the age when the tick is not newer than now. *)
LEMMA AgeIsDifference ==
  ASSUME NEW now \in Time, NEW last \in Time, last <= now
  PROVE  Age(now, last) = now - last
<1>1. now - last \in 0..MaxClock /\ MaxClock \in Nat /\ Modulus \in Nat /\ MaxClock < Modulus
  BY StaleAssumption DEF Time
<1>2. \A d \in 0..MaxClock : d % Modulus = d
  BY <1>1
<1>3. QED BY <1>1, <1>2 DEF Age

(* What the steps that compute a flag store in it.                         *)
LEMMA FlagsStored ==
  /\ CheckStore => tick_stale' = LoopFindsStale(Age(age_now, last_tick))
  /\ CheckStore => tick_stale' \in BOOLEAN
  /\ StatusReadClock \/ StatusAnswer => answer' \in BOOLEAN
<1>1. \A a, b : (a > b) \in BOOLEAN
  OBVIOUS
<1>2. /\ LoopFindsStale(Age(age_now, last_tick)) \in BOOLEAN
      /\ (Age(query_now, last_tick) > AgeLimit) \in BOOLEAN
  BY <1>1 DEF LoopFindsStale
<1>3. QED BY <1>2, Zenon DEF CheckStore, StatusReadClock, StatusAnswer

LEMMA InitStale == Init => StaleInv
<1> SUFFICES ASSUME Init PROVE StaleInv
  OBVIOUS
<1>1. tick_stale \in BOOLEAN /\ answer \in BOOLEAN /\ ~tick_stale
  BY Zenon DEF Init
<1>2. QED
  BY <1>1, StaleAssumption
  DEF Init, StaleInv, TypeOK, Clocks, LastCheckClear, AlarmDated, Time

LEMMA NextStale == StaleInv /\ [Next]_vars => StaleInv'
<1> SUFFICES ASSUME StaleInv, [Next]_vars PROVE StaleInv'
  OBVIOUS
<1> USE StaleAssumption
        DEF StaleInv, TypeOK, Clocks, LastCheckClear, AlarmDated, Time
<1>1. CASE Pass
  BY <1>1 DEF Pass, mdVars, checkVars, queryVars
<1>2. CASE QuoteReadClock
  BY <1>2 DEF QuoteReadClock, checkVars, queryVars
<1>3. CASE QuoteStore
  BY <1>3 DEF QuoteStore, Noted, checkVars, queryVars
<1>4. CASE CheckStart
  BY <1>4 DEF CheckStart, Due, mdVars, queryVars
<1>5. CASE CheckReadClock
  BY <1>5 DEF CheckReadClock, mdVars, queryVars
<1>6. CASE CheckStore
  <2> DEFINE age == age_now - last_tick
  <2>1. /\ last_check' = disp_now
        /\ UNCHANGED <<clock, md, md_now, last_tick, resumed_at, raced_at,
                       query, query_now, answer, true_age>>
        /\ disp = "load" /\ disp' = "loop" /\ disp_now' = 0 /\ age_now' = 0
    BY <1>6 DEF CheckStore, mdVars, queryVars
  <2>2. /\ tick_stale' \in BOOLEAN
        /\ tick_stale' <=> Age(age_now, last_tick) > LoopLimit
    BY <1>6, FlagsStored DEF LoopFindsStale
  <2>3. age_now \in Nat /\ last_tick \in Nat /\ age \in Int /\ disp_now <= age_now
        /\ age_now <= clock /\ clock \in Nat /\ disp_now \in Nat /\ LoopLimit \in Nat
    BY <2>1
  <2>4. age >= 0 => Age(age_now, last_tick) = age
    BY <2>3, AgeIsDifference
  <2>5. LastCheckClear'
    <3>1. ~tick_stale' => age <= LoopLimit
      BY <2>2, <2>3, <2>4
    <3>2. QED BY <2>1, <2>3, <3>1
  <2>6. AlarmDated'
    <3>1. CASE age >= 0
      <4>1. tick_stale' => clock - last_tick > LoopLimit
        BY <2>2, <2>3, <2>4, <3>1
      <4>2. QED BY <2>1, <4>1
    <3>2. CASE age < 0
      <4>1. raced_at >= disp_now
        BY <2>1, <2>3, <3>2
      <4>2. QED BY <2>1, <4>1
    <3>3. QED BY <2>3, <3>1, <3>2
  <2>7. TypeOK' /\ Clocks'
    <3> HIDE DEF age
    <3>1. QED BY <2>1, <2>2
  <2>8. QED BY <2>5, <2>6, <2>7
<1>7. CASE StatusReadClock
  BY <1>7, FlagsStored DEF StatusReadClock, mdVars, checkVars
<1>8. CASE StatusAnswer
  <2>1. answer' \in BOOLEAN
    BY <1>8, FlagsStored
  <2>2. true_age' \in Int
    BY <1>8 DEF StatusAnswer
  <2>3. /\ query' = "done" /\ query_now' = 0
        /\ UNCHANGED <<clock, mdVars, checkVars>>
    BY <1>8 DEF StatusAnswer
  <2>4. QED BY <2>1, <2>2, <2>3 DEF mdVars, checkVars
<1>9. CASE UNCHANGED vars
  BY <1>9 DEF vars, mdVars, checkVars, queryVars
<1>10. QED
  BY <1>1, <1>2, <1>3, <1>4, <1>5, <1>6, <1>7, <1>8, <1>9 DEF Next

(* The inductive invariant holds in every reachable state.                 *)
THEOREM StaleInvariant == Spec => []StaleInv
BY InitStale, NextStale, PTL DEF Spec

(* Every clock a thread holds is a time that has been.                     *)
THEOREM StaleTypeCorrect == Spec => []TypeOK
<1>1. StaleInv => TypeOK
  BY DEF StaleInv
<1>2. QED BY StaleInvariant, <1>1, PTL

(* No alarm outlives its cause by more than one check.                     *)
THEOREM FlagTracks == Spec => []FlagTracksFeed
<1>1. StaleInv => FlagTracksFeed
  BY StaleAssumption DEF StaleInv, TypeOK, Clocks, AlarmDated, FlagTracksFeed, Time
<1>2. QED BY StaleInvariant, <1>1, PTL

(* No silence goes unflagged: after the latest check, which came no more   *)
(* than Interval + Lag ago, last_tick would be too recent for one.         *)
THEOREM SilencesFlagged == Spec => []SilenceIsFlagged
<1>1. StaleInv => SilenceIsFlagged
  BY StaleAssumption DEF StaleInv, TypeOK, Clocks, LastCheckClear, SilenceIsFlagged, Time
<1>2. QED BY StaleInvariant, <1>1, PTL
=============================================================================
