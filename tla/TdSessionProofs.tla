--------------------------- MODULE TdSessionProofs ---------------------------
(* wait_for_login() sleeps through no login, however often the session is  *)
(* lost and whether or not the front asks for authentication.              *)
EXTENDS TdSession, SequenceTheorems, TLAPS

(* The waiter holds mtx_ from the predicate until it sleeps, and logged_in *)
(* is stored under mtx_ only: what the predicate saw is still so.          *)
WaitInv ==
  /\ TypeOK
  /\ waiter = "falling" => ~logged_in
  /\ NoMissedWakeup

LEMMA InitWait == Init => WaitInv
<1> SUFFICES ASSUME Init PROVE WaitInv
  OBVIOUS
<1>1. /\ link \in BOOLEAN /\ logged_in \in BOOLEAN /\ notified \in BOOLEAN /\ expired \in BOOLEAN
  BY Zenon DEF Init
<1>2. callbacks \in Seq(Callbacks) /\ drops \in 0..MaxDrops
  BY TdAssumption DEF Init
<1>3. QED BY <1>1, <1>2 DEF Init, WaitInv, TypeOK, NoMissedWakeup

(* Callbacks are put into the queue and taken out of it whole.             *)
LEMMA QueueTyped ==
  ASSUME callbacks \in Seq(Callbacks), NEW c \in Callbacks, Queue(c)
  PROVE  callbacks' \in Seq(Callbacks)
BY DEF Queue

LEMMA CalledTyped ==
  ASSUME callbacks \in Seq(Callbacks), NEW c \in Callbacks, Called(c)
  PROVE  callbacks' \in Seq(Callbacks) /\ spi = "idle"
<1>1. callbacks # <<>> /\ callbacks' = Tail(callbacks) /\ spi = "idle"
  BY DEF Called
<1>2. QED BY <1>1

LEMMA SendTyped ==
  ASSUME request \in {"none", "auth", "login"}, NEW kind \in {"auth", "login"}, Send(kind)
  PROVE  request' \in {"none", "auth", "login"}
BY DEF Send

LEMMA NextWait == WaitInv /\ [Next]_vars => WaitInv'
<1> SUFFICES ASSUME WaitInv, [Next]_vars PROVE WaitInv'
  OBVIOUS
<1> USE DEF WaitInv, TypeOK, NoMissedWakeup
<1>0. /\ "OnFrontConnected" \in Callbacks /\ "OnFrontDisconnected" \in Callbacks
      /\ "OnRspUserLogout" \in Callbacks /\ "AuthOk" \in Callbacks
      /\ "AuthError" \in Callbacks /\ "LoginOk" \in Callbacks /\ "LoginError" \in Callbacks
  BY DEF Callbacks
<1>1. CASE FrontConnects
  BY <1>0, <1>1, QueueTyped DEF FrontConnects, waitVars
<1>2. CASE FrontAnswers
  <2>1. callbacks' \in Seq(Callbacks)
    BY <1>0, <1>2, QueueTyped DEF FrontAnswers
  <2>2. QED BY <1>2, <2>1 DEF FrontAnswers, waitVars
<1>3. CASE FrontDrops
  <2>1. callbacks' \in Seq(Callbacks) /\ link' \in BOOLEAN
    BY <1>0, <1>3, QueueTyped DEF FrontDrops
  <2>2. drops' \in 0..MaxDrops
    BY <1>3, TdAssumption DEF FrontDrops
  <2>3. QED BY <1>3, <2>1, <2>2 DEF FrontDrops, waitVars
<1>4. CASE OnFrontConnected
  <2>1. callbacks' \in Seq(Callbacks)
    BY <1>0, <1>4, CalledTyped DEF OnFrontConnected
  <2>2. request' \in {"none", "auth", "login"}
    BY <1>4, SendTyped DEF OnFrontConnected
  <2>3. QED BY <1>4, <2>1, <2>2 DEF OnFrontConnected, waitVars
<1>5. CASE OnRspAuthenticate
  <2>1. callbacks' \in Seq(Callbacks)
    BY <1>0, <1>5, CalledTyped DEF OnRspAuthenticate
  <2>2. request' \in {"none", "auth", "login"}
    BY <1>5, SendTyped DEF OnRspAuthenticate
  <2>3. QED BY <1>5, <2>1, <2>2 DEF OnRspAuthenticate, waitVars
<1>6. CASE OnRspUserLogin
  <2>1. callbacks' \in Seq(Callbacks) /\ spi = "idle"
    BY <1>0, <1>6, CalledTyped DEF OnRspUserLogin
  <2>2. QED BY <1>6, <2>1 DEF OnRspUserLogin, waitVars
<1>7. CASE SetLoggedIn
  BY <1>7 DEF SetLoggedIn, waitVars
<1>8. CASE Notify
  BY <1>8 DEF Notify
<1>9. CASE SessionLost
  <2>1. callbacks' \in Seq(Callbacks)
    BY <1>0, <1>9, CalledTyped DEF SessionLost
  <2>2. QED BY <1>9, <2>1 DEF SessionLost, waitVars
<1>10. CASE WaiterLocks
  BY <1>10 DEF WaiterLocks
<1>11. CASE WaiterChecks
  BY <1>11 DEF WaiterChecks
<1>12. CASE WaiterSleeps
  BY <1>12 DEF WaiterSleeps
<1>13. CASE Expire
  BY <1>13 DEF Expire
<1>14. CASE UNCHANGED vars
  BY <1>14 DEF vars, waitVars
<1>15. QED
  BY <1>1, <1>2, <1>3, <1>4, <1>5, <1>6, <1>7, <1>8, <1>9, <1>10, <1>11, <1>12, <1>13,
     <1>14
  DEF Next, SpiStep, WaiterRuns, Quiet

(* The inductive invariant holds in every reachable state.                 *)
THEOREM WaitInvariant == Spec => []WaitInv
BY InitWait, NextWait, PTL DEF Spec

(* Only callbacks of the SPI are queued, and mtx_ is held by the waiter    *)
(* exactly from its predicate until it sleeps or returns.                  *)
THEOREM TdTypeCorrect == Spec => []TypeOK
<1>1. WaitInv => TypeOK
  BY DEF WaitInv
<1>2. QED BY WaitInvariant, <1>1, PTL

(* A waiter asleep while logged_in_ is set has a reason to wake.           *)
THEOREM NoLoginSleptThrough == Spec => []NoMissedWakeup
<1>1. WaitInv => NoMissedWakeup
  BY DEF WaitInv
<1>2. QED BY WaitInvariant, <1>1, PTL
=============================================================================
