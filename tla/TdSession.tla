----------------------------- MODULE TdSession -----------------------------
(***************************************************************************)
(* TdSpiImpl: authentication (when an app id is configured), login, and    *)
(* wait_for_login(), where init_ctp() blocks on a condition variable until *)
(* the callback thread reports a login or the timeout has passed.          *)
(*                                                                         *)
(* The front and CTP's queue of callbacks are external, as in MdSession.   *)
(* The condition variable is modelled by the standard's loop: wait_for     *)
(* with a predicate evaluates it under the mutex, releases the mutex and   *)
(* sleeps in one step, and may wake by a notification, by the timeout or   *)
(* spuriously.                                                             *)
(***************************************************************************)
EXTENDS Naturals, Sequences

CONSTANTS
  UseAuth,          \* cfg_.appid is not empty
  MaxDrops          \* bound: disconnects and logouts

ASSUME TdAssumption == UseAuth \in BOOLEAN /\ MaxDrops \in Nat

VARIABLES
  link,             \* external: the connection to the front is up
  request,          \* external: the request the front has yet to answer
  callbacks,        \* callbacks queued for the SPI
  spi,              \* the callback thread: idle, at the lock, or to notify
  logged_in,        \* logged_in_
  mtx,              \* mtx_: "free" or its holder
  waiter,           \* the thread in wait_for_login()
  notified,         \* cv_ has been notified since the waiter fell asleep
  expired,          \* timeout_secs have passed
  result,           \* what wait_for_login() returned
  drops             \* ghost: losses of the session so far

waitVars == <<waiter, notified, expired, result>>
vars == <<link, request, callbacks, spi, logged_in, mtx, waitVars, drops>>

Callbacks == {"OnFrontConnected", "OnFrontDisconnected", "OnRspUserLogout",
              "AuthOk", "AuthError", "LoginOk", "LoginError"}

TypeOK ==
  /\ link \in BOOLEAN /\ request \in {"none", "auth", "login"}
  /\ callbacks \in Seq(Callbacks)
  /\ spi \in {"idle", "lock", "notify"}
  /\ logged_in \in BOOLEAN
  /\ mtx \in {"free", "waiter"}
  /\ waiter \in {"called", "check", "falling", "asleep", "returned"}
  /\ notified \in BOOLEAN /\ expired \in BOOLEAN
  /\ result \in {"none", "yes", "no"}
  /\ drops \in 0..MaxDrops
  /\ mtx = "waiter" <=> waiter \in {"check", "falling"}

(* init_ctp() calls Init() on the API and then wait_for_login(). *)
Init ==
  /\ link = FALSE /\ request = "none" /\ callbacks = <<>>
  /\ spi = "idle" /\ logged_in = FALSE /\ mtx = "free"
  /\ waiter = "called" /\ notified = FALSE /\ expired = FALSE /\ result = "none"
  /\ drops = 0

Queue(callback) == callbacks' = Append(callbacks, callback)

Called(callback) ==
  /\ spi = "idle"
  /\ callbacks # <<>> /\ Head(callbacks) = callback
  /\ callbacks' = Tail(callbacks)

-----------------------------------------------------------------------------
(* The front                                                               *)

FrontConnects ==
  /\ ~link /\ link' = TRUE
  /\ Queue("OnFrontConnected")
  /\ UNCHANGED <<request, spi, logged_in, mtx, waitVars, drops>>

FrontAnswers ==
  /\ request # "none" /\ request' = "none"
  /\ \/ request = "auth" /\ (Queue("AuthOk") \/ Queue("AuthError"))
     \/ request = "login" /\ (Queue("LoginOk") \/ Queue("LoginError"))
  /\ UNCHANGED <<link, spi, logged_in, mtx, waitVars, drops>>

FrontDrops ==
  /\ link /\ drops < MaxDrops /\ drops' = drops + 1
  /\ request' = "none"
  /\ \/ link' = FALSE /\ Queue("OnFrontDisconnected")
     \/ link' = link /\ Queue("OnRspUserLogout")
  /\ UNCHANGED <<spi, logged_in, mtx, waitVars>>

-----------------------------------------------------------------------------
(* The callbacks                                                           *)

(* A request that is not sent is only logged. *)
Send(kind) == (link /\ request' = kind) \/ UNCHANGED request

OnFrontConnected ==
  /\ Called("OnFrontConnected")
  /\ Send(IF UseAuth THEN "auth" ELSE "login")
  /\ UNCHANGED <<link, spi, logged_in, mtx, waitVars, drops>>

OnRspAuthenticate ==
  /\ \/ Called("AuthOk") /\ Send("login")
     \/ Called("AuthError") /\ UNCHANGED request
  /\ UNCHANGED <<link, spi, logged_in, mtx, waitVars, drops>>

OnRspUserLogin ==
  /\ \/ Called("LoginOk") /\ spi' = "lock"
     \/ Called("LoginError") /\ UNCHANGED spi
  /\ UNCHANGED <<link, request, logged_in, mtx, waitVars, drops>>

(* Mutant: the flag is stored without taking mtx_. *)
SetLoggedInUnlocked ==
  /\ spi = "lock" /\ spi' = "notify"
  /\ logged_in' = TRUE
  /\ UNCHANGED <<link, request, callbacks, mtx, waitVars, drops>>

SetLoggedIn ==
  /\ spi = "lock" /\ spi' = "notify"
  /\ mtx = "free"
  /\ logged_in' = TRUE
  /\ UNCHANGED <<link, request, callbacks, mtx, waitVars, drops>>

(* Mutant: the waiter is not notified. *)
NotifyNobody ==
  /\ spi = "notify" /\ spi' = "idle"
  /\ UNCHANGED <<link, request, callbacks, logged_in, mtx, waitVars, drops>>

Notify ==
  /\ spi = "notify" /\ spi' = "idle"
  /\ notified' = (waiter = "asleep")
  /\ UNCHANGED <<link, request, callbacks, logged_in, mtx, waiter, expired, result, drops>>

(* Both handlers store the flag without the mutex. *)
SessionLost ==
  /\ Called("OnFrontDisconnected") \/ Called("OnRspUserLogout")
  /\ logged_in' = FALSE
  /\ UNCHANGED <<link, request, spi, mtx, waitVars, drops>>

-----------------------------------------------------------------------------
(* wait_for_login()                                                        *)

WaiterLocks ==
  /\ \/ waiter = "called"
     \/ waiter = "asleep"         \* notified, timed out or spuriously
  /\ mtx = "free" /\ mtx' = "waiter"
  /\ waiter' = "check" /\ notified' = FALSE
  /\ UNCHANGED <<link, request, callbacks, spi, logged_in, expired, result, drops>>

(* Mutant: the timeout is ignored. *)
WaiterChecksForever ==
  /\ waiter = "check"
  /\ \/ /\ logged_in
        /\ waiter' = "returned" /\ mtx' = "free" /\ result' = "yes"
     \/ /\ ~logged_in
        /\ waiter' = "falling" /\ UNCHANGED <<mtx, result>>
  /\ UNCHANGED <<link, request, callbacks, spi, logged_in, notified, expired, drops>>

(* The predicate; after the timeout its value is the result, whatever it is. *)
WaiterChecks ==
  /\ waiter = "check"
  /\ \/ /\ logged_in \/ expired
        /\ waiter' = "returned" /\ mtx' = "free"
        /\ result' = IF logged_in THEN "yes" ELSE "no"
     \/ /\ ~logged_in /\ ~expired
        /\ waiter' = "falling" /\ UNCHANGED <<mtx, result>>
  /\ UNCHANGED <<link, request, callbacks, spi, logged_in, notified, expired, drops>>

(* Mutant: the waiter keeps mtx_ while it sleeps. *)
WaiterSleepsLocked ==
  /\ waiter = "falling" /\ waiter' = "asleep"
  /\ UNCHANGED <<link, request, callbacks, spi, logged_in, mtx, notified, expired, result, drops>>

WaiterSleeps ==
  /\ waiter = "falling" /\ waiter' = "asleep"
  /\ mtx' = "free"
  /\ UNCHANGED <<link, request, callbacks, spi, logged_in, notified, expired, result, drops>>

Expire ==
  /\ ~expired /\ expired' = TRUE
  /\ waiter # "returned"
  /\ UNCHANGED <<link, request, callbacks, spi, logged_in, mtx, waiter, notified, result, drops>>

-----------------------------------------------------------------------------
SpiStep ==
  \/ OnFrontConnected \/ OnRspAuthenticate \/ OnRspUserLogin
  \/ SetLoggedIn \/ Notify \/ SessionLost
WaiterRuns == WaiterChecks \/ WaiterSleeps
WaiterWoken == (waiter = "called" \/ notified \/ expired) /\ WaiterLocks

(* Nothing is left to do until the front makes a move. *)
Quiet ==
  /\ waiter = "returned" /\ callbacks = <<>> /\ spi = "idle"
  /\ link /\ request = "none"
  /\ UNCHANGED vars

Next ==
  \/ FrontConnects \/ FrontAnswers \/ FrontDrops
  \/ SpiStep \/ WaiterLocks \/ WaiterRuns \/ Expire \/ Quiet

Spec == Init /\ [][Next]_vars

(* The callback thread and a waiter with a reason to wake are scheduled,   *)
(* also against each other at the mutex; nobody else need do anything.     *)
FairSpec ==
  Spec /\ SF_vars(SpiStep) /\ WF_vars(WaiterRuns) /\ SF_vars(WaiterWoken)

-----------------------------------------------------------------------------
(* No login is slept through: a waiter asleep while logged_in_ is set is   *)
(* about to be notified, has been, or has timed out.  (It needs logged_in_ *)
(* to be stored under mtx_, atomic as it is.)                              *)
NoMissedWakeup ==
  waiter = "asleep" /\ logged_in => notified \/ expired \/ spi = "notify"

(* A login wakes the waiter without help from the timeout, unless it is    *)
(* lost before the waiter has looked: then init_ctp() goes on waiting.     *)
LoginEndsWait == logged_in /\ waiter # "returned" ~> waiter = "returned" \/ ~logged_in

(* Once its time is up wait_for_login() returns: start() is not blocked by *)
(* a front that does not connect, answer or accept, nor by logins that are *)
(* lost again before the waiter has looked.                                *)
WaitReturns == expired ~> waiter = "returned"
=============================================================================
