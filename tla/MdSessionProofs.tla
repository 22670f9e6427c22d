--------------------------- MODULE MdSessionProofs ---------------------------
(* The market-data session agrees with the front and with the latest list, *)
(* for every set of lists and every number of calls and drops.             *)
EXTENDS MdSession, SequenceTheorems, TLAPS

(* The callbacks that change logged_in_.                                   *)
Telling == {"LoginOk", "OnFrontDisconnected", "OnRspUserLogout"}

Pending(c) == \E i \in DOMAIN callbacks : callbacks[i] = c

(* The last of them still queued, or else logged_in_ itself, tells whether *)
(* the session is up.                                                      *)
Told(i) ==
  /\ callbacks[i] \in Telling
  /\ callbacks[i] = "LoginOk" <=> session
  /\ \A j \in DOMAIN callbacks : j > i => callbacks[j] \notin Telling
ViewInv ==
  \/ (\A i \in DOMAIN callbacks : callbacks[i] \notin Telling) /\ (logged_in <=> session)
  \/ \E i \in DOMAIN callbacks : Told(i)

(* A list that is not subscribed in this session has somebody on the way   *)
(* to do it, unless the front has refused.                                 *)
Tended ==
  session /\ ~refused =>
    instruments \subseteq subscribed \/ setter # "idle" \/ spi = "subscribe" \/ Pending("LoginOk")

SessionInv == TypeOK /\ (requested => link) /\ ViewInv /\ Tended

-----------------------------------------------------------------------------
(* What a callback put at the end of the queue, or taken from its head,    *)
(* does to the queue, to the view and to what is pending.                  *)

LEMMA Queued ==
  ASSUME callbacks \in Seq(Callbacks), NEW c \in Callbacks, Queue(c)
  PROVE  /\ callbacks' \in Seq(Callbacks)
         /\ DOMAIN callbacks = 1..Len(callbacks)
         /\ DOMAIN callbacks' = 1..(Len(callbacks) + 1)
         /\ callbacks'[Len(callbacks) + 1] = c
         /\ \A i \in DOMAIN callbacks : callbacks'[i] = callbacks[i]
         /\ Len(callbacks) \in Nat
BY DEF Queue

LEMMA Taken ==
  ASSUME callbacks \in Seq(Callbacks), NEW c, Called(c)
  PROVE  /\ callbacks' \in Seq(Callbacks) /\ spi = "idle"
         /\ Len(callbacks) \in Nat \ {0} /\ callbacks[1] = c
         /\ DOMAIN callbacks = 1..Len(callbacks)
         /\ DOMAIN callbacks' = 1..(Len(callbacks) - 1)
         /\ \A i \in DOMAIN callbacks' : callbacks'[i] = callbacks[i + 1]
<1>1. callbacks # <<>> /\ callbacks' = Tail(callbacks) /\ Head(callbacks) = c /\ spi = "idle"
  BY DEF Called
<1>2. Len(callbacks) \in Nat \ {0} /\ callbacks[1] = c /\ callbacks' \in Seq(Callbacks)
  BY <1>1
<1>3. QED BY <1>1, <1>2

LEMMA QueuedView ==
  ASSUME callbacks \in Seq(Callbacks), NEW c \in Callbacks, Queue(c), ViewInv,
         logged_in' = logged_in,
         c \in Telling => (session' <=> c = "LoginOk"),
         c \notin Telling => session' = session
  PROVE  ViewInv'
<1>1. PICK n \in Nat :
      /\ DOMAIN callbacks = 1..n /\ DOMAIN callbacks' = 1..(n + 1)
      /\ callbacks'[n + 1] = c /\ \A i \in 1..n : callbacks'[i] = callbacks[i]
  BY Queued
<1>2. CASE c \in Telling
  <2>1. Told(n + 1)'
    BY <1>1, <1>2 DEF Told
  <2>2. QED BY <1>1, <2>1 DEF ViewInv
<1>3. CASE c \notin Telling
  <2>1. CASE (\A i \in DOMAIN callbacks : callbacks[i] \notin Telling) /\ (logged_in <=> session)
    <3>1. \A i \in DOMAIN callbacks' : callbacks'[i] \notin Telling
      BY <1>1, <1>3, <2>1
    <3>2. QED BY <1>3, <2>1, <3>1 DEF ViewInv
  <2>2. CASE \E i \in DOMAIN callbacks : Told(i)
    <3>1. PICK i \in 1..n : Told(i)
      BY <1>1, <2>2
    <3>2. \A j \in 1..(n + 1) : j > i => callbacks'[j] \notin Telling
      BY <1>1, <1>3, <3>1 DEF Told
    <3>3. Told(i)' /\ i \in DOMAIN callbacks'
      BY <1>1, <1>3, <3>1, <3>2 DEF Told
    <3>4. QED BY <3>3 DEF ViewInv
  <2>3. QED BY <2>1, <2>2 DEF ViewInv
<1>4. QED BY <1>2, <1>3

LEMMA TakenView ==
  ASSUME callbacks \in Seq(Callbacks), NEW c, Called(c), ViewInv, session' = session,
         c \in Telling => (logged_in' <=> c = "LoginOk"),
         c \notin Telling => logged_in' = logged_in
  PROVE  ViewInv'
<1>1. PICK n \in Nat \ {0} :
      /\ DOMAIN callbacks = 1..n /\ DOMAIN callbacks' = 1..(n - 1)
      /\ callbacks[1] = c /\ \A i \in 1..(n - 1) : callbacks'[i] = callbacks[i + 1]
  BY Taken
<1>2. CASE (\A i \in DOMAIN callbacks : callbacks[i] \notin Telling) /\ (logged_in <=> session)
  <2>1. c \notin Telling /\ \A i \in DOMAIN callbacks' : callbacks'[i] \notin Telling
    BY <1>1, <1>2
  <2>2. QED BY <1>2, <2>1 DEF ViewInv
<1>3. CASE \E i \in DOMAIN callbacks : Told(i)
  <2>1. PICK i \in 1..n : Told(i)
    BY <1>1, <1>3
  <2>2. CASE i = 1
    <3>1. c \in Telling /\ (logged_in' <=> session')
      BY <1>1, <2>1, <2>2 DEF Told
    <3>2. \A j \in DOMAIN callbacks' : callbacks'[j] \notin Telling
      BY <1>1, <2>1, <2>2 DEF Told
    <3>3. QED BY <3>1, <3>2 DEF ViewInv
  <2>3. CASE i # 1
    <3>1. i - 1 \in DOMAIN callbacks' /\ callbacks'[i - 1] = callbacks[i]
      BY <1>1, <2>3
    <3>2. ASSUME NEW j \in DOMAIN callbacks', j > i - 1 PROVE callbacks'[j] \notin Telling
      <4>1. j + 1 \in DOMAIN callbacks /\ j + 1 > i /\ callbacks'[j] = callbacks[j + 1]
        BY <1>1, <3>2
      <4>2. QED BY <2>1, <4>1 DEF Told
    <3>3. Told(i - 1)'
      BY <2>1, <3>1, <3>2 DEF Told
    <3>4. QED BY <3>1, <3>3 DEF ViewInv
  <2>4. QED BY <2>2, <2>3
<1>4. QED BY <1>2, <1>3 DEF ViewInv

LEMMA PendingKept ==
  ASSUME callbacks \in Seq(Callbacks), Pending("LoginOk"),
         \/ UNCHANGED callbacks
         \/ \E c \in Callbacks : Queue(c)
         \/ \E c \in Callbacks : Called(c) /\ c # "LoginOk"
  PROVE  Pending("LoginOk")'
<1>1. PICK i \in DOMAIN callbacks : callbacks[i] = "LoginOk"
  BY DEF Pending
<1>2. CASE UNCHANGED callbacks
  BY <1>2 DEF Pending
<1>3. ASSUME NEW c \in Callbacks, Queue(c) PROVE Pending("LoginOk")'
  <2>1. i \in DOMAIN callbacks' /\ callbacks'[i] = "LoginOk"
    BY <1>1, <1>3, Queued
  <2>2. QED BY <2>1 DEF Pending
<1>4. ASSUME NEW c \in Callbacks, Called(c), c # "LoginOk" PROVE Pending("LoginOk")'
  <2>1. i - 1 \in DOMAIN callbacks' /\ callbacks'[i - 1] = "LoginOk"
    BY <1>1, <1>4, Taken
  <2>2. QED BY <2>1 DEF Pending
<1>5. QED BY <1>2, <1>3, <1>4

(* A session that logged_in_ does not know of has its answer in the queue. *)
LEMMA UnknownIsPending == ViewInv /\ session /\ ~logged_in => Pending("LoginOk")
BY DEF ViewInv, Told, Pending

-----------------------------------------------------------------------------
LEMMA InitSession == Init => SessionInv
<1> SUFFICES ASSUME Init PROVE SessionInv
  OBVIOUS
<1>1. /\ link \in BOOLEAN /\ session \in BOOLEAN /\ requested \in BOOLEAN
      /\ logged_in \in BOOLEAN /\ refused \in BOOLEAN
      /\ ~session /\ ~logged_in /\ ~requested
  BY Zenon DEF Init
<1>2. callbacks \in Seq(Callbacks) /\ DOMAIN callbacks = {} /\ sets \in 0..MaxSets
      /\ drops \in 0..MaxDrops
  BY MdAssumption DEF Init
<1>3. QED BY <1>1, <1>2 DEF Init, SessionInv, TypeOK, ViewInv, Tended

(* What Subscribe does: the current list is subscribed, or refused if the  *)
(* session is up, and nothing but instruments of a list is.                *)
LEMMA Subscribed ==
  ASSUME TypeOK, Subscribe
  PROVE  /\ subscribed' \subseteq UNION Lists /\ refused' \in BOOLEAN
         /\ session => instruments \subseteq subscribed' \/ refused'
         /\ refused => refused'
<1>1. instruments \subseteq UNION Lists
  BY DEF TypeOK
<1>2. CASE instruments = {} /\ UNCHANGED <<subscribed, refused>>
  BY <1>2 DEF TypeOK
<1>3. CASE instruments # {} /\ session /\ subscribed' = subscribed \cup instruments
           /\ UNCHANGED refused
  BY <1>1, <1>3 DEF TypeOK
<1>4. CASE refused' = (refused \/ session) /\ UNCHANGED subscribed
  BY <1>4, Zenon DEF TypeOK
<1>5. QED BY <1>2, <1>3, <1>4 DEF Subscribe

LEMMA NextSession == SessionInv /\ [Next]_vars => SessionInv'
<1> SUFFICES ASSUME SessionInv, [Next]_vars PROVE SessionInv'
  OBVIOUS
<1> USE DEF SessionInv
<1>0. /\ "OnFrontConnected" \in Callbacks \ Telling /\ "LoginError" \in Callbacks \ Telling
      /\ "LoginOk" \in Callbacks \cap Telling
      /\ "OnFrontDisconnected" \in Callbacks \cap Telling
      /\ "OnRspUserLogout" \in Callbacks \cap Telling
      /\ callbacks \in Seq(Callbacks)
  BY DEF Callbacks, Telling, TypeOK
<1>1. CASE FrontConnects
  <2>1. ViewInv' /\ callbacks' \in Seq(Callbacks) /\ ~session'
    BY <1>0, <1>1, Queued, QueuedView DEF FrontConnects, spiVars, TypeOK
  <2>2. QED BY <1>1, <2>1 DEF FrontConnects, spiVars, TypeOK, Tended
<1>2. CASE FrontAnswersLogin
  <2>1. CASE session' = TRUE /\ Queue("LoginOk") /\ UNCHANGED refused
    <3>1. ViewInv' /\ callbacks' \in Seq(Callbacks)
      BY <1>0, <1>2, <2>1, Queued, QueuedView DEF FrontAnswersLogin, spiVars
    <3>2. Pending("LoginOk")'
      BY <1>0, <2>1, Queued DEF Pending
    <3>3. QED BY <1>2, <2>1, <3>1, <3>2 DEF FrontAnswersLogin, spiVars, TypeOK, Tended
  <2>2. CASE session' = session /\ Queue("LoginError") /\ refused' = TRUE
    <3>1. ViewInv' /\ callbacks' \in Seq(Callbacks)
      BY <1>0, <1>2, <2>2, Queued, QueuedView DEF FrontAnswersLogin, spiVars
    <3>2. QED BY <1>2, <2>2, <3>1 DEF FrontAnswersLogin, spiVars, TypeOK, Tended
  <2>3. QED BY <1>2, <2>1, <2>2 DEF FrontAnswersLogin
<1>3. CASE FrontDrops
  <2>1. ViewInv' /\ callbacks' \in Seq(Callbacks) /\ ~session'
    BY <1>0, <1>3, Queued, QueuedView DEF FrontDrops, spiVars
  <2>2. drops' \in 0..MaxDrops
    BY <1>3, MdAssumption DEF FrontDrops, TypeOK
  <2>3. refused' \in BOOLEAN /\ link' \in BOOLEAN /\ ~requested' /\ requested' \in BOOLEAN
    BY <1>3, Zenon DEF FrontDrops, TypeOK
  <2>4. QED BY <1>3, <2>1, <2>2, <2>3 DEF FrontDrops, spiVars, TypeOK, Tended
<1>4. CASE OnFrontConnected
  <2>1. ViewInv' /\ callbacks' \in Seq(Callbacks)
    BY <1>0, <1>4, Taken, TakenView DEF OnFrontConnected, spiVars
  <2>2. Pending("LoginOk") => Pending("LoginOk")'
    BY <1>0, <1>4, PendingKept DEF OnFrontConnected
  <2>3. refused' \in BOOLEAN /\ requested' \in BOOLEAN /\ (requested' => link)
    <3>1. /\ refused \in BOOLEAN /\ requested \in BOOLEAN /\ (requested => link)
          /\ \/ link /\ requested' = TRUE /\ refused' = refused
             \/ refused' = TRUE /\ requested' = requested
      BY <1>4, Zenon DEF OnFrontConnected, TypeOK
    <3>2. CASE link /\ requested' = TRUE /\ refused' = refused
      BY <3>1, <3>2, Zenon
    <3>3. CASE refused' = TRUE /\ requested' = requested
      BY <3>1, <3>3
    <3>4. QED BY <3>1, <3>2, <3>3
  <2>4. refused => refused'
    BY <1>4 DEF OnFrontConnected, TypeOK
  <2>5. QED BY <1>4, <2>1, <2>2, <2>3, <2>4 DEF OnFrontConnected, spiVars, TypeOK, Tended
<1>5. CASE OnFrontDisconnected \/ OnRspUserLogout
  <2>1. ViewInv' /\ callbacks' \in Seq(Callbacks)
    BY <1>0, <1>5, Taken, TakenView DEF OnFrontDisconnected, OnRspUserLogout, frontVars
  <2>2. Pending("LoginOk") => Pending("LoginOk")'
    BY <1>0, <1>5, PendingKept DEF OnFrontDisconnected, OnRspUserLogout
  <2>3. logged_in' \in BOOLEAN
    BY <1>5, Zenon DEF OnFrontDisconnected, OnRspUserLogout
  <2>4. QED
    BY <1>5, <2>1, <2>2, <2>3
    DEF OnFrontDisconnected, OnRspUserLogout, frontVars, ghostVars, TypeOK, Tended
<1>6. CASE OnRspUserLogin
  <2>1. CASE Called("LoginOk") /\ logged_in' = TRUE /\ spi' = "subscribe"
             /\ UNCHANGED <<frontVars, setter, instruments, ghostVars>>
    <3>1. ViewInv' /\ callbacks' \in Seq(Callbacks)
      BY <1>0, <2>1, Taken, TakenView DEF frontVars
    <3>2. QED BY <2>1, <3>1 DEF frontVars, ghostVars, TypeOK, Tended
  <2>2. CASE Called("LoginError") /\ UNCHANGED <<frontVars, spiVars, ghostVars>>
    <3>1. ViewInv' /\ callbacks' \in Seq(Callbacks)
      BY <1>0, <2>2, Taken, TakenView DEF frontVars, spiVars
    <3>2. Pending("LoginOk") => Pending("LoginOk")'
      BY <1>0, <2>2, PendingKept
    <3>3. QED BY <2>2, <3>1, <3>2 DEF frontVars, spiVars, ghostVars, TypeOK, Tended
  <2>3. QED BY <1>6, <2>1, <2>2 DEF OnRspUserLogin
<1>7. CASE SpiSubscribes \/ SetterSubscribes
  <2>1. ViewInv' /\ callbacks' \in Seq(Callbacks)
    BY <1>0, <1>7 DEF SpiSubscribes, SetterSubscribes, ViewInv, Told
  <2>2. Subscribe
    BY <1>7 DEF SpiSubscribes, SetterSubscribes
  <2>3. /\ subscribed' \subseteq UNION Lists /\ refused' \in BOOLEAN
        /\ session => instruments \subseteq subscribed' \/ refused'
    BY <2>2, Subscribed
  <2>4. /\ UNCHANGED <<link, session, requested, instruments, logged_in, sets, drops>>
        /\ spi' \in {"idle", "subscribe"} /\ setter' \in {"idle", "stored", "subscribe"}
    BY <1>7 DEF SpiSubscribes, SetterSubscribes, TypeOK
  <2>5. QED BY <2>1, <2>3, <2>4 DEF TypeOK, Tended
<1>8. CASE CheckLoggedIn
  <2>1. ViewInv' /\ callbacks' \in Seq(Callbacks) /\ (Pending("LoginOk") => Pending("LoginOk")')
    BY <1>0, <1>8 DEF CheckLoggedIn, frontVars, ViewInv, Told, Pending
  <2>2. session /\ ~logged_in => Pending("LoginOk")
    BY UnknownIsPending
  <2>3. logged_in => setter' = "subscribe"
    BY <1>8 DEF CheckLoggedIn
  <2>4. setter' \in {"idle", "stored", "subscribe"}
    BY <1>8 DEF CheckLoggedIn
  <2>5. QED
    BY <1>8, <2>1, <2>2, <2>3, <2>4 DEF CheckLoggedIn, frontVars, ghostVars, TypeOK, Tended
<1>9. ASSUME NEW list \in Lists, SetInstruments(list) PROVE SessionInv'
  <2>1. ViewInv' /\ callbacks' \in Seq(Callbacks)
    BY <1>0, <1>9 DEF SetInstruments, frontVars, ViewInv, Told
  <2>2. sets' \in 0..MaxSets
    BY <1>9, MdAssumption DEF SetInstruments, TypeOK
  <2>3. QED BY <1>9, <2>1, <2>2 DEF SetInstruments, frontVars, TypeOK, Tended
<1>10. CASE UNCHANGED vars
  <2>1. UNCHANGED <<frontVars, callbacks, spiVars, ghostVars>>
    BY <1>10 DEF vars
  <2>2. ViewInv' /\ Tended'
    BY <2>1 DEF frontVars, spiVars, ghostVars, ViewInv, Told, Tended, Pending
  <2>3. QED BY <2>1, <2>2 DEF frontVars, spiVars, ghostVars, TypeOK
<1>11. QED
  BY <1>1, <1>2, <1>3, <1>4, <1>5, <1>6, <1>7, <1>8, <1>9, <1>10
  DEF Next, FrontStep, SpiStep, SetterStep, Waiting

(* The inductive invariant holds in every reachable state.                 *)
THEOREM SessionInvariant == Spec => []SessionInv
BY InitSession, NextSession, PTL DEF Spec

(* Only callbacks of the SPI are queued and only listed instruments ever   *)
(* subscribed, and the front has a session on a connection only.           *)
THEOREM MdTypeCorrect == Spec => []TypeOK
<1>1. SessionInv => TypeOK
  BY DEF SessionInv
<1>2. QED BY SessionInvariant, <1>1, PTL

(* Once nothing is under way, logged_in_ is the front's view.              *)
THEOREM FlagAgrees == Spec => []LoginFlagAgrees
<1>1. SessionInv => LoginFlagAgrees
  <2>1. callbacks = <<>> => DOMAIN callbacks = {}
    OBVIOUS
  <2>2. SessionInv /\ Quiet => (logged_in <=> session) /\ logged_in \in BOOLEAN /\ session \in BOOLEAN
    BY <2>1 DEF SessionInv, ViewInv, Quiet, TypeOK
  <2>3. \A a, b \in BOOLEAN : (a <=> b) => a = b
    BY Zenon
  <2>4. QED BY <2>2, <2>3, Zenon DEF LoginFlagAgrees
<1>2. QED BY SessionInvariant, <1>1, PTL

(* Once both threads are through, the latest list is subscribed.           *)
THEOREM LatestSubscribed == Spec => []LatestListSubscribed
<1>1. SessionInv => LatestListSubscribed
  <2>1. callbacks = <<>> => ~Pending("LoginOk")
    BY DEF Pending
  <2>2. QED BY <2>1 DEF SessionInv, Tended, Quiet, LatestListSubscribed
<1>2. QED BY SessionInvariant, <1>1, PTL
=============================================================================
