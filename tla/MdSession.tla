----------------------------- MODULE MdSession -----------------------------
(***************************************************************************)
(* MdSpiImpl: how the market-data session gets from a connection to a      *)
(* subscription, and back there after each disconnect.  Two threads use    *)
(* the object: CTP's callback thread, which works through its callbacks    *)
(* one at a time, and whoever calls set_instruments(), which may come      *)
(* before the login or after it (md_spi.h:28).                             *)
(*                                                                         *)
(* The front and the transport of the MdApi are external: it connects and  *)
(* reconnects by itself, answers a login with yes or no, accepts a         *)
(* subscription only within a session, forgets it with the session, and    *)
(* queues callbacks in the order of their causes.                          *)
(***************************************************************************)
EXTENDS Naturals, Sequences

CONSTANTS
  Lists,            \* instrument lists set_instruments() may be given
  MaxSets,          \* bound: calls of set_instruments()
  MaxDrops          \* bound: disconnects and logouts

ASSUME MdAssumption == MaxSets \in Nat /\ MaxDrops \in Nat

VARIABLES
  link,             \* external: the connection to the front is up
  session,          \* external: the front has this user logged in
  requested,        \* external: a login request awaits its answer
  subscribed,       \* external: instruments subscribed in this session
  callbacks,        \* callbacks queued for the SPI
  spi,              \* the callback thread: idle, or due to subscribe
  setter,           \* the caller of set_instruments()
  instruments,      \* instruments_
  logged_in,        \* logged_in_
  sets, drops,      \* ghost: calls and losses of the session so far
  refused           \* ghost: since it connected, the front said no or logged out

frontVars == <<link, session, requested, subscribed>>
spiVars   == <<spi, setter, instruments, logged_in>>
ghostVars == <<sets, drops, refused>>
vars == <<frontVars, callbacks, spiVars, ghostVars>>

Callbacks == {"OnFrontConnected", "OnFrontDisconnected", "LoginOk", "LoginError",
              "OnRspUserLogout"}

TypeOK ==
  /\ link \in BOOLEAN /\ session \in BOOLEAN /\ requested \in BOOLEAN
  /\ subscribed \subseteq UNION Lists /\ instruments \in Lists \cup {{}}
  /\ callbacks \in Seq(Callbacks)
  /\ spi \in {"idle", "subscribe"} /\ setter \in {"idle", "stored", "subscribe"}
  /\ logged_in \in BOOLEAN /\ refused \in BOOLEAN
  /\ sets \in 0..MaxSets /\ drops \in 0..MaxDrops
  /\ session => link

Init ==
  /\ link = FALSE /\ session = FALSE /\ requested = FALSE /\ subscribed = {}
  /\ callbacks = <<>>
  /\ spi = "idle" /\ setter = "idle"
  /\ instruments = {} /\ logged_in = FALSE
  /\ sets = 0 /\ drops = 0 /\ refused = FALSE

Queue(callback) == callbacks' = Append(callbacks, callback)

(* The SPI is called for the oldest callback, between callbacks only. *)
Called(callback) ==
  /\ spi = "idle"
  /\ callbacks # <<>> /\ Head(callbacks) = callback
  /\ callbacks' = Tail(callbacks)

-----------------------------------------------------------------------------
(* The front                                                               *)

FrontConnects ==
  /\ ~link /\ link' = TRUE
  /\ refused' = FALSE
  /\ Queue("OnFrontConnected")
  /\ UNCHANGED <<session, requested, subscribed, spiVars, sets, drops>>

FrontAnswersLogin ==
  /\ requested /\ requested' = FALSE
  /\ \/ session' = TRUE /\ Queue("LoginOk") /\ UNCHANGED refused
     \/ session' = session /\ Queue("LoginError") /\ refused' = TRUE
  /\ UNCHANGED <<link, subscribed, spiVars, sets, drops>>

(* No code of the gateway asks for a logout: the answer to one comes, if it *)
(* comes, because the front has ended the session.                         *)
FrontDrops ==
  /\ link /\ drops < MaxDrops /\ drops' = drops + 1
  /\ session' = FALSE /\ requested' = FALSE /\ subscribed' = {}
  /\ \/ link' = FALSE /\ Queue("OnFrontDisconnected") /\ UNCHANGED refused
     \/ session /\ link' = link /\ Queue("OnRspUserLogout") /\ refused' = TRUE
  /\ UNCHANGED <<spiVars, sets>>

-----------------------------------------------------------------------------
(* The callbacks                                                           *)

(* do_login(): a request that is not sent is only logged. *)
OnFrontConnected ==
  /\ Called("OnFrontConnected")
  /\ \/ link /\ requested' = TRUE /\ UNCHANGED refused
     \/ refused' = TRUE /\ UNCHANGED requested
  /\ UNCHANGED <<link, session, subscribed, spiVars, sets, drops>>

(* Mutant: the flag survives the connection. *)
OnFrontDisconnectedKeepsLogin ==
  /\ Called("OnFrontDisconnected")
  /\ UNCHANGED <<frontVars, spiVars, ghostVars>>

OnFrontDisconnected ==
  /\ Called("OnFrontDisconnected")
  /\ logged_in' = FALSE
  /\ UNCHANGED <<frontVars, spi, setter, instruments, ghostVars>>

OnRspUserLogout ==
  /\ Called("OnRspUserLogout")
  /\ logged_in' = FALSE
  /\ UNCHANGED <<frontVars, spi, setter, instruments, ghostVars>>

(* Mutant: nobody subscribes after a login. *)
OnRspUserLoginNoSubscribe ==
  \/ /\ Called("LoginOk")
     /\ logged_in' = TRUE
     /\ UNCHANGED <<frontVars, spi, setter, instruments, ghostVars>>
  \/ /\ Called("LoginError")
     /\ UNCHANGED <<frontVars, spiVars, ghostVars>>

(* An error is logged and the session stays down until the next connect. *)
OnRspUserLogin ==
  \/ /\ Called("LoginOk")
     /\ logged_in' = TRUE /\ spi' = "subscribe"
     /\ UNCHANGED <<frontVars, setter, instruments, ghostVars>>
  \/ /\ Called("LoginError")
     /\ UNCHANGED <<frontVars, spiVars, ghostVars>>

-----------------------------------------------------------------------------
(* set_instruments() and do_subscribe()                                    *)

(* Mutant: a new list is added to the old one. *)
SetInstrumentsAppends(list) ==
  /\ setter = "idle" /\ setter' = "stored"
  /\ sets < MaxSets /\ sets' = sets + 1
  /\ instruments' = instruments \cup list
  /\ UNCHANGED <<frontVars, callbacks, spi, logged_in, drops, refused>>

SetInstruments(list) ==
  /\ setter = "idle" /\ setter' = "stored"
  /\ sets < MaxSets /\ sets' = sets + 1
  /\ instruments' = list
  /\ UNCHANGED <<frontVars, callbacks, spi, logged_in, drops, refused>>

(* Mutant: set_instruments() leaves the subscription to the next login. *)
CheckLoggedInNever ==
  /\ setter = "stored" /\ setter' = "idle"
  /\ UNCHANGED <<frontVars, callbacks, spi, instruments, logged_in, ghostVars>>

CheckLoggedIn ==
  /\ setter = "stored"
  /\ setter' = IF logged_in THEN "subscribe" ELSE "idle"
  /\ UNCHANGED <<frontVars, callbacks, spi, instruments, logged_in, ghostVars>>

(* Under inst_mtx_, as the store of a new list: the list is what it is at  *)
(* the call, and what SubscribeMarketData returns is only logged.          *)
Subscribe ==
  \/ instruments = {} /\ UNCHANGED <<subscribed, refused>>
  \/ /\ instruments # {} /\ session
     /\ subscribed' = subscribed \cup instruments
     /\ UNCHANGED refused
  \/ /\ instruments # {}
     /\ refused' = (refused \/ session)
     /\ UNCHANGED subscribed

SpiSubscribes ==
  /\ spi = "subscribe" /\ spi' = "idle"
  /\ Subscribe
  /\ UNCHANGED <<link, session, requested, callbacks, setter, instruments, logged_in, sets, drops>>

SetterSubscribes ==
  /\ setter = "subscribe" /\ setter' = "idle"
  /\ Subscribe
  /\ UNCHANGED <<link, session, requested, callbacks, spi, instruments, logged_in, sets, drops>>

-----------------------------------------------------------------------------
SpiStep ==
  \/ OnFrontConnected \/ OnFrontDisconnected \/ OnRspUserLogin \/ OnRspUserLogout
  \/ SpiSubscribes
SetterStep == CheckLoggedIn \/ SetterSubscribes
FrontStep == FrontConnects \/ FrontAnswersLogin

(* Nothing is left to do until the front or a caller makes a move. *)
Quiet == callbacks = <<>> /\ spi = "idle" /\ setter = "idle"
Waiting == Quiet /\ link /\ ~requested /\ UNCHANGED vars

Next ==
  \/ FrontStep \/ FrontDrops \/ SpiStep \/ SetterStep
  \/ \E list \in Lists : SetInstruments(list)
  \/ Waiting

Spec == Init /\ [][Next]_vars

(* CTP runs its callbacks, reconnects and answers; it need not drop. *)
FairSpec ==
  Spec /\ WF_vars(SpiStep) /\ WF_vars(SetterStep)
       /\ WF_vars(FrontConnects) /\ WF_vars(FrontAnswersLogin)

-----------------------------------------------------------------------------
(* Once nothing is under way, logged_in_ is the front's view of the        *)
(* session, so that set_instruments() decides on the truth.                *)
LoginFlagAgrees == Quiet => logged_in = session

(* A list set before, during or after a login, whichever way the setter    *)
(* and the login callback interleave, is subscribed once both are through  *)
(* ("可在登录前调用（登录成功后自动订阅），也可在登录后调用（立即订阅）",       *)
(* md_spi.h:28), unless the front refused something in this session.       *)
LatestListSubscribed ==
  Quiet /\ session /\ ~refused => instruments \subseteq subscribed

(* Whenever the connection is down the session comes back, subscribed, by  *)
(* itself, unless the front refuses what the code asks for only once.      *)
SessionRecovers ==
  ~link ~> (session /\ logged_in /\ instruments \subseteq subscribed) \/ refused
=============================================================================
