----------------------- MODULE GatewayLifecycleProofs -----------------------
(***************************************************************************)
(* The lifetimes of GatewayLifecycle for either driver and every order of  *)
(* failures, callbacks and stop requests.  LifecycleInv is inductive: the  *)
(* owner's stage says which objects exist, and only the owner makes or     *)
(* releases one; the other threads can only come and go.                   *)
(***************************************************************************)
EXTENDS GatewayLifecycle, TLAPS

LEMMA InitLifecycle == Init => LifecycleInv
BY DriverAssumption
   DEF Init, LifecycleInv, TypeOK, NotMadeYet, MadeBeforeUse, DllOutlivesApi,
       RegisteredWithLiveApi, CleanupOnce, ResetOrder, DispatchOwned, Untouched,
       ApiGone, Gone, OwnerPc, MakingPc, HandlerPc, CleanupPc, Unstarted, Starting, Sessions

(* The owner moves on between two stages and touches no CTP object. *)
LEMMA StartFlags ==
  ASSUME LifecycleInv,
         \/ Begin \/ QueueRefused \/ Start \/ Transport \/ LoginWaitEnds
         \/ Handler \/ WaitEnds \/ SetRunning
  PROVE  LifecycleInv'
<1> USE DEF hostVars, flagVars, ctpVars, threadVars, LifecycleInv
<1>1. UNCHANGED <<dll, api, spi, registered, cleanup_done, calling, joining, disp>>
  BY DEF Begin, QueueRefused, Start, Transport, LoginWaitEnds, Handler, WaitEnds, SetRunning
<1>2. \/ owner = "begin" /\ owner' \in {"start", "stop"} /\ making' = making
      \/ owner = "start" /\ owner' = "transport" /\ making' = making
      \/ owner = "transport" /\ owner' \in {"wait", "thrown"} /\ making' = making
      \/ owner = "transport" /\ owner' = "load" /\ making' \in Sessions
      \/ owner = "login" /\ owner' = "load" /\ making' = "md"
      \/ owner = "thrown" /\ owner' = "stop" /\ making' = making
      \/ owner = "wait" /\ owner' = "stop" /\ making' = making
      \/ owner = "running" /\ owner' = "spawn" /\ making' = making
  BY DEF Begin, QueueRefused, Start, Transport, LoginWaitEnds, Handler, WaitEnds, SetRunning,
         At
<1>3. TypeOK'
  <2>1. owner' \in OwnerPc /\ making' \in Sessions
    BY <1>2 DEF OwnerPc, MakingPc, Sessions, TypeOK
  <2>2. base' \in {"up", "down"}
    BY DEF TypeOK, Begin, QueueRefused, Start, Transport, LoginWaitEnds, Handler, WaitEnds,
           SetRunning
  <2>3. started' \in BOOLEAN /\ stopping' \in BOOLEAN /\ ctp_running' \in BOOLEAN
    BY DEF TypeOK, Begin, QueueRefused, Start, Transport, LoginWaitEnds, Handler, WaitEnds,
           SetRunning
  <2>4. keep_running' \in BOOLEAN /\ stop_requested' \in BOOLEAN
    BY DEF TypeOK, Begin, QueueRefused, Start, Transport, LoginWaitEnds, Handler, WaitEnds,
           SetRunning
  <2>5. QED BY <1>1, <2>1, <2>2, <2>3, <2>4 DEF TypeOK
<1>4. NotMadeYet' /\ MadeBeforeUse'
  BY <1>1, <1>2 DEF NotMadeYet, MadeBeforeUse, Untouched, Unstarted, HandlerPc, MakingPc, Sessions
<1>5. DllOutlivesApi' /\ RegisteredWithLiveApi'
  BY <1>1 DEF DllOutlivesApi, RegisteredWithLiveApi, ApiGone
<1>6. CleanupOnce' /\ ResetOrder'
  BY <1>1, <1>2 DEF CleanupOnce, ResetOrder, Gone, ApiGone, Starting, Unstarted, HandlerPc,
                    MakingPc, CleanupPc
<1>7. DispatchOwned'
  BY <1>1, <1>2 DEF DispatchOwned
<1>8. owner' # "ended"
  BY <1>2
<1>9. QED BY <1>3, <1>4, <1>5, <1>6, <1>7, <1>8

(* What a step of init_ctp() has to establish: it changes the objects of   *)
(* the session it is at, and goes on to a later stage or to cleanup_ctp(). *)
LEMMA MakingStep ==
  ASSUME LifecycleInv, owner \in MakingPc,
         UNCHANGED <<base, flagVars, hostVars, calling, disp>>,
         owner' \in MakingPc \cup {"login", "running", "cleanup"},
         making' \in Sessions, joining' \subseteq Sessions,
         dll' \in [Sessions -> {"none", "open", "closed"}],
         api' \in [Sessions -> {"none", "created", "live", "released"}],
         spi' \in [Sessions -> {"none", "alive", "destroyed"}],
         registered' \in [Sessions -> BOOLEAN],
         \A s \in Sessions \ {making} :
           /\ dll'[s] = dll[s] /\ api'[s] = api[s]
           /\ spi'[s] = spi[s] /\ registered'[s] = registered[s],
         api'[making] \in {"created", "live"} => dll'[making] = "open",
         registered'[making] => api'[making] \in {"created", "live"},
         NotMadeYet', MadeBeforeUse'
  PROVE  LifecycleInv'
<1> USE DEF hostVars, flagVars, LifecycleInv
<1>1. TypeOK'
  BY DEF TypeOK, OwnerPc
<1>2. DllOutlivesApi' /\ RegisteredWithLiveApi'
  BY DEF DllOutlivesApi, RegisteredWithLiveApi, ApiGone, TypeOK
<1>3. ~cleanup_done /\ disp \notin {"running", "exited"}
  BY DEF CleanupOnce, DispatchOwned, Starting, MakingPc
<1>4. CleanupOnce' /\ ResetOrder' /\ DispatchOwned' /\ owner' # "ended"
  BY <1>3 DEF CleanupOnce, ResetOrder, DispatchOwned, CleanupPc, MakingPc
<1>5. QED BY <1>1, <1>2, <1>4

(* init_ctp() makes one session's objects. *)
LEMMA MakesSession ==
  ASSUME LifecycleInv,
         OpenLib \/ CreateApi \/ MakeSpi \/ RegisterSpi \/ InitApi
  PROVE  LifecycleInv'
<1> USE DEF hostVars, flagVars, threadVars, MakingPc
<1>1. /\ dll \in [Sessions -> {"none", "open", "closed"}]
      /\ api \in [Sessions -> {"none", "created", "live", "released"}]
      /\ spi \in [Sessions -> {"none", "alive", "destroyed"}]
      /\ registered \in [Sessions -> BOOLEAN]
      /\ joining \subseteq Sessions /\ making \in Sessions
  BY DEF LifecycleInv, TypeOK
<1>2. owner \in MakingPc
  BY DEF OpenLib, CreateApi, MakeSpi, RegisterSpi, InitApi, At
<1>3. NotMadeYet /\ MadeBeforeUse /\ RegisteredWithLiveApi /\ DllOutlivesApi
  BY DEF LifecycleInv
<1>4. CASE OpenLib
  <2>1. /\ owner = "load" /\ owner' = "create" /\ making' = making
        /\ dll' = [dll EXCEPT ![making] = "open"]
        /\ UNCHANGED <<base, flagVars, hostVars, calling, disp, joining, api, spi, registered>>
    BY <1>4 DEF OpenLib, At
  <2>2. Untouched(making) /\ (making = "td" => Untouched("md"))
    BY <1>3, <2>1 DEF NotMadeYet
  <2>3. NotMadeYet' /\ MadeBeforeUse'
    BY <1>1, <2>1, <2>2 DEF NotMadeYet, MadeBeforeUse, Untouched, Unstarted, HandlerPc, Sessions
  <2>4. QED BY <1>1, <1>2, <2>1, <2>2, <2>3, MakingStep DEF Untouched
<1>5. CASE CreateApi
  <2>1. /\ owner = "create" /\ owner' = "make" /\ making' = making
        /\ api' = [api EXCEPT ![making] = "created"]
        /\ UNCHANGED <<base, flagVars, hostVars, calling, disp, joining, dll, spi, registered>>
    BY <1>5 DEF CreateApi, At
  <2>2. /\ dll[making] = "open" /\ spi[making] = "none" /\ ~registered[making]
        /\ making = "td" => Untouched("md")
    BY <1>3, <2>1 DEF NotMadeYet, MadeBeforeUse
  <2>3. NotMadeYet' /\ MadeBeforeUse'
    BY <1>1, <2>1, <2>2 DEF NotMadeYet, MadeBeforeUse, Untouched, Unstarted, HandlerPc, Sessions
  <2>4. QED BY <1>1, <1>2, <2>1, <2>2, <2>3, MakingStep
<1>6. CASE MakeSpi
  <2>1. /\ owner = "make" /\ owner' = "register" /\ making' = making
        /\ spi' = [spi EXCEPT ![making] = "alive"]
        /\ UNCHANGED <<base, flagVars, hostVars, calling, disp, joining, dll, api, registered>>
    BY <1>6 DEF MakeSpi, At
  <2>2. /\ dll[making] = "open" /\ api[making] = "created" /\ ~registered[making]
        /\ making = "td" => Untouched("md")
    BY <1>3, <2>1 DEF NotMadeYet, MadeBeforeUse
  <2>3. NotMadeYet' /\ MadeBeforeUse'
    BY <1>1, <2>1, <2>2 DEF NotMadeYet, MadeBeforeUse, Untouched, Unstarted, HandlerPc, Sessions
  <2>4. QED BY <1>1, <1>2, <2>1, <2>2, <2>3, MakingStep
<1>7. CASE RegisterSpi
  <2>1. /\ owner = "register" /\ owner' = "init" /\ making' = making
        /\ registered' = [registered EXCEPT ![making] = TRUE]
        /\ UNCHANGED <<base, flagVars, hostVars, calling, disp, joining, dll, api, spi>>
    BY <1>7 DEF RegisterSpi, At
  <2>2. /\ dll[making] = "open" /\ api[making] = "created" /\ spi[making] = "alive"
        /\ making = "td" => Untouched("md")
    BY <1>3, <2>1 DEF NotMadeYet, MadeBeforeUse
  <2>3. NotMadeYet' /\ MadeBeforeUse'
    BY <1>1, <2>1, <2>2 DEF NotMadeYet, MadeBeforeUse, Untouched, Unstarted, HandlerPc, Sessions
  <2>4. QED BY <1>1, <1>2, <2>1, <2>2, <2>3, MakingStep
<1>8. CASE InitApi
  <2>1. /\ owner = "init" /\ owner' = (IF making = "td" THEN "login" ELSE "running")
        /\ making' = making /\ api' = [api EXCEPT ![making] = "live"]
        /\ UNCHANGED <<base, flagVars, hostVars, calling, disp, joining, dll, spi, registered>>
    BY <1>8 DEF InitApi, At
  <2>2. /\ dll[making] = "open" /\ spi[making] = "alive"
        /\ making = "td" => Untouched("md")
    BY <1>3, <2>1 DEF NotMadeYet, MadeBeforeUse
  <2>3. NotMadeYet' /\ MadeBeforeUse'
    BY <1>1, <2>1, <2>2 DEF NotMadeYet, MadeBeforeUse, Untouched, Unstarted, HandlerPc, Sessions
  <2>4. QED BY <1>1, <1>2, <2>1, <2>2, <2>3, MakingStep
<1>9. QED BY <1>4, <1>5, <1>6, <1>7, <1>8

(* It fails to: the library the loader still owned had no API yet.         *)
LEMMA MakingFails ==
  ASSUME LifecycleInv, TdFails \/ MdFails
  PROVE  LifecycleInv'
<1> USE DEF hostVars, flagVars, threadVars, MakingPc
<1>1. /\ owner \in MakingPc \cup {"login"} /\ making' = "md"
      /\ \/ making = "td" /\ owner' = "reset_spi"
         \/ making = "md" /\ owner' = "cleanup"
      /\ dll' = [dll EXCEPT ![making] = IF owner = "create" THEN "closed" ELSE @]
      /\ UNCHANGED <<base, flagVars, hostVars, calling, disp, joining, api, spi, registered>>
  BY DEF TdFails, MdFails, Unwind, At
<1>2. /\ dll' \in [Sessions -> {"none", "open", "closed"}]
      /\ \A s \in Sessions \ {making} : dll'[s] = dll[s]
      /\ owner # "create" => dll' = dll
  BY <1>1 DEF LifecycleInv, TypeOK
<1>3. TypeOK'
  BY <1>1, <1>2 DEF LifecycleInv, TypeOK, OwnerPc, HandlerPc, Sessions
<1>4. NotMadeYet' /\ MadeBeforeUse'
  <2>1. making = "td" => Untouched("md")
    BY <1>1 DEF LifecycleInv, NotMadeYet
  <2>2. making = "td" => Untouched("md")'
    BY <1>1, <1>2, <2>1 DEF Untouched, Sessions
  <2>3. QED BY <1>1, <2>2 DEF NotMadeYet, MadeBeforeUse, Unstarted, HandlerPc
<1>5. DllOutlivesApi' /\ RegisteredWithLiveApi'
  <2>1. owner = "create" => api[making] = "none"
    BY DEF LifecycleInv, MadeBeforeUse
  <2>2. ASSUME NEW s \in Sessions, api[s] \in {"created", "live"} PROVE dll'[s] = "open"
    BY <1>2, <2>1, <2>2 DEF LifecycleInv, DllOutlivesApi
  <2>3. QED BY <1>1, <2>2 DEF LifecycleInv, DllOutlivesApi, RegisteredWithLiveApi, ApiGone
<1>6. ~cleanup_done /\ disp \notin {"running", "exited"}
  BY <1>1 DEF LifecycleInv, CleanupOnce, DispatchOwned, Starting
<1>7. CleanupOnce' /\ ResetOrder' /\ DispatchOwned' /\ owner' # "ended"
  BY <1>1, <1>6 DEF CleanupOnce, ResetOrder, DispatchOwned, CleanupPc
<1>8. QED BY <1>3, <1>4, <1>5, <1>7 DEF LifecycleInv

(* The handler lets go of what there is of the TdApi, the library last.    *)
LEMMA HandlesTd == ASSUME LifecycleInv, TdHandler PROVE LifecycleInv'
<1> USE DEF hostVars, flagVars, threadVars
<1>1. /\ owner \in HandlerPc /\ making' = making
      /\ UNCHANGED <<base, flagVars, hostVars, calling, disp>>
      /\ \/ owner = "reset_spi" /\ owner' = "reset_api"
         \/ owner = "reset_api" /\ owner' = "reset_dll"
         \/ owner = "reset_dll" /\ owner' = "load"
  BY DEF TdHandler, ResetSpi, ResetApi, ResetDll, At, HandlerPc
<1>2. /\ making = "md" /\ Untouched("md") /\ ~cleanup_done /\ disp \notin {"running", "exited"}
  BY <1>1 DEF LifecycleInv, NotMadeYet, CleanupOnce, DispatchOwned, Starting, HandlerPc
<1>3. /\ dll \in [Sessions -> {"none", "open", "closed"}]
      /\ api \in [Sessions -> {"none", "created", "live", "released"}]
      /\ spi \in [Sessions -> {"none", "alive", "destroyed"}]
      /\ registered \in [Sessions -> BOOLEAN] /\ joining \subseteq Sessions
  BY DEF LifecycleInv, TypeOK
<1>4. /\ dll' \in [Sessions -> {"none", "open", "closed"}]
      /\ api' \in [Sessions -> {"none", "created", "live", "released"}]
      /\ spi' \in [Sessions -> {"none", "alive", "destroyed"}]
      /\ registered' \in [Sessions -> BOOLEAN] /\ joining' \subseteq Sessions
      /\ dll'["md"] = dll["md"] /\ api'["md"] = api["md"] /\ spi'["md"] = spi["md"]
      /\ registered'["md"] = registered["md"]
  <2>1. CASE ResetSpi("td", "reset_spi", "reset_api")
    BY <1>3, <2>1 DEF ResetSpi, Sessions
  <2>2. CASE ResetApi("td", "reset_api", "reset_dll")
    <3>1. /\ dll' = dll /\ spi' = spi
          /\ api' \in {api, [api EXCEPT !["td"] = "released"]}
          /\ registered' \in {registered, [registered EXCEPT !["td"] = FALSE]}
          /\ joining' \in {joining, joining \cup {"td"}}
      BY <2>2 DEF ResetApi
    <3>2. /\ api' \in [Sessions -> {"none", "created", "live", "released"}]
          /\ api'["md"] = api["md"]
      BY <1>3, <3>1 DEF Sessions
    <3>3. registered' \in [Sessions -> BOOLEAN] /\ registered'["md"] = registered["md"]
      <4>1. CASE registered' = registered
        BY <1>3, <4>1
      <4>2. CASE registered' = [registered EXCEPT !["td"] = FALSE]
        BY Zenon, <1>3, <4>2 DEF Sessions
      <4>3. QED BY <3>1, <4>1, <4>2
    <3>4. joining' \subseteq Sessions
      BY <1>3, <3>1 DEF Sessions
    <3>5. QED BY <1>3, <3>1, <3>2, <3>3, <3>4
  <2>3. CASE ResetDll("td", "reset_dll", "load")
    BY <1>3, <2>3 DEF ResetDll, Sessions
  <2>4. QED BY <2>1, <2>2, <2>3 DEF TdHandler
<1>5. TypeOK'
  BY <1>1, <1>4 DEF LifecycleInv, TypeOK, OwnerPc, HandlerPc, MakingPc
<1>6. NotMadeYet' /\ MadeBeforeUse'
  <2>1. Untouched("md")'
    BY <1>2, <1>4 DEF Untouched
  <2>2. ~registered'["md"]
    BY <2>1 DEF Untouched
  <2>3. QED
    BY <1>1, <1>2, <2>1, <2>2 DEF NotMadeYet, MadeBeforeUse, Unstarted, HandlerPc, MakingPc
<1>7. DllOutlivesApi' /\ RegisteredWithLiveApi' /\ (owner' = "reset_dll" => ApiGone("td")')
  <2>1. CASE ResetSpi("td", "reset_spi", "reset_api")
    BY <2>1 DEF ResetSpi, At, LifecycleInv, DllOutlivesApi, RegisteredWithLiveApi, ApiGone
  <2>2. CASE ResetApi("td", "reset_api", "reset_dll")
    <3>1. /\ dll' = dll /\ api'["td"] \in {"none", "released"}
          /\ registered'["td"] => registered["td"] /\ ApiGone("td")
      BY <1>3, <2>2 DEF ResetApi, Sessions, ApiGone
    <3>2. ~registered'["td"]
      BY <3>1 DEF LifecycleInv, RegisteredWithLiveApi, Sessions
    <3>3. QED
      BY <1>4, <3>1, <3>2
      DEF LifecycleInv, DllOutlivesApi, RegisteredWithLiveApi, ApiGone, Sessions
  <2>3. CASE ResetDll("td", "reset_dll", "load")
    <3>1. owner = "reset_dll" /\ owner' = "load" /\ UNCHANGED <<api, registered>>
      BY <2>3 DEF ResetDll, At
    <3>2. ApiGone("td")
      BY <3>1 DEF LifecycleInv, ResetOrder
    <3>3. QED
      BY <1>4, <3>1, <3>2
      DEF LifecycleInv, DllOutlivesApi, RegisteredWithLiveApi, ApiGone, Sessions
  <2>4. QED BY <2>1, <2>2, <2>3 DEF TdHandler
<1>8. CleanupOnce' /\ ResetOrder' /\ DispatchOwned' /\ owner' # "ended"
  BY <1>1, <1>2, <1>7 DEF CleanupOnce, ResetOrder, DispatchOwned, CleanupPc
<1>9. QED BY <1>5, <1>6, <1>7, <1>8 DEF LifecycleInv

(* stop() up to the join, and the spawn it may have to join. *)
LEMMA DispatchThread ==
  ASSUME LifecycleInv, SpawnDispatch \/ DispatchExits \/ Stop \/ Join
  PROVE  LifecycleInv'
<1> USE DEF hostVars, flagVars, ctpVars, threadVars, LifecycleInv
<1>1. UNCHANGED <<making, dll, api, spi, registered, cleanup_done, calling, joining, base>>
  BY DEF SpawnDispatch, DispatchExits, Stop, Join
<1>2. \/ owner = "spawn" /\ owner' = "wait" /\ disp' = "running"
      \/ owner = "spawn" /\ owner' = "thrown" /\ disp' = disp
      \/ owner' = owner /\ disp = "running" /\ disp' = "exited"
      \/ owner = "stop" /\ owner' = "join" /\ disp' = disp
      \/ owner = "join" /\ owner' = "cleanup" /\ disp' \in {"none", "joined"}
  BY DEF SpawnDispatch, DispatchExits, Stop, Join, At, TypeOK
<1>3. TypeOK'
  <2>1. owner' \in OwnerPc /\ disp' \in {"none", "running", "exited", "joined"}
    BY <1>2 DEF OwnerPc, MakingPc, TypeOK
  <2>2. started' \in BOOLEAN /\ stopping' \in BOOLEAN /\ ctp_running' \in BOOLEAN
    BY DEF TypeOK, SpawnDispatch, DispatchExits, Stop, Join
  <2>3. keep_running' \in BOOLEAN /\ stop_requested' \in BOOLEAN
    BY DEF TypeOK, SpawnDispatch, DispatchExits, Stop, Join
  <2>4. QED BY <1>1, <2>1, <2>2, <2>3 DEF TypeOK
<1>4. NotMadeYet' /\ MadeBeforeUse'
  BY <1>1, <1>2 DEF NotMadeYet, MadeBeforeUse, Untouched, Unstarted, HandlerPc, MakingPc
<1>5. DllOutlivesApi' /\ RegisteredWithLiveApi'
  BY <1>1 DEF DllOutlivesApi, RegisteredWithLiveApi, ApiGone
<1>6. CleanupOnce' /\ ResetOrder'
  BY <1>1, <1>2 DEF CleanupOnce, ResetOrder, Gone, ApiGone, Starting, Unstarted, HandlerPc,
                    MakingPc, CleanupPc
<1>7. DispatchOwned'
  <2>1. CASE owner = "spawn" /\ owner' = "wait"
    <3>1. api["md"] = "live" /\ spi["md"] = "alive" /\ ~cleanup_done
      BY <2>1 DEF MadeBeforeUse, CleanupOnce, Starting
    <3>2. QED BY <1>1, <2>1, <3>1 DEF DispatchOwned
  <2>2. CASE ~(owner = "spawn" /\ owner' = "wait")
    BY <1>1, <1>2, <2>2 DEF DispatchOwned
  <2>3. QED BY <2>1, <2>2
<1>8. owner' = "ended" => base' = "down"
  BY <1>1, <1>2
<1>9. QED BY <1>3, <1>4, <1>5, <1>6, <1>7, <1>8

(* cleanup_ctp() is entered, or found to have been here before. *)
LEMMA EntersCleanup ==
  ASSUME LifecycleInv, Cleanup \/ StopBase
  PROVE  LifecycleInv'
<1> USE DEF hostVars, flagVars, ctpVars, threadVars, LifecycleInv
<1>1. UNCHANGED <<making, keep_running, stop_requested, started, stopping, dll, api, spi, registered,
                  calling, joining, disp>>
  BY DEF Cleanup, StopBase
<1>2. \/ /\ owner = "cleanup" /\ ~cleanup_done /\ owner' = "md_spi" /\ cleanup_done' = TRUE
         /\ ctp_running' = FALSE /\ base' = base
      \/ /\ owner = "cleanup" /\ cleanup_done /\ owner' \in {"base", "thrown"}
         /\ cleanup_done' = TRUE /\ ctp_running' = FALSE /\ base' = base
      \/ /\ owner = "base" /\ owner' = "ended" /\ base' = "down"
         /\ cleanup_done' = cleanup_done /\ ctp_running' = ctp_running
  BY DEF Cleanup, StopBase, At, Return
<1>3. TypeOK'
  BY <1>1, <1>2, ZenonT(60) DEF TypeOK, OwnerPc, MakingPc, HandlerPc, CleanupPc
<1>4. NotMadeYet' /\ MadeBeforeUse'
  BY <1>2 DEF NotMadeYet, MadeBeforeUse, Unstarted, HandlerPc, MakingPc
<1>5. DllOutlivesApi' /\ RegisteredWithLiveApi'
  BY <1>1 DEF DllOutlivesApi, RegisteredWithLiveApi, ApiGone
<1>6. CleanupOnce'
  BY <1>1, <1>2 DEF CleanupOnce, Gone, ApiGone, Starting, Unstarted, MakingPc, HandlerPc, CleanupPc
<1>7. ResetOrder' /\ DispatchOwned'
  BY <1>1, <1>2 DEF ResetOrder, DispatchOwned, CleanupPc
<1>8. owner' = "ended" => base' = "down"
  BY <1>2
<1>9. QED BY <1>3, <1>4, <1>5, <1>6, <1>7, <1>8

(* cleanup_ctp() resets its members one after the other. *)
LEMMA ResetsMember ==
  ASSUME LifecycleInv,
         \/ ResetSpi("md", "md_spi", After("md_spi"))
         \/ ResetApi("md", "md_api", After("md_api"))
         \/ ResetDll("md", "md_dll", After("md_dll"))
         \/ ResetSpi("td", "td_spi", After("td_spi"))
         \/ ResetApi("td", "td_api", After("td_api"))
         \/ ResetDll("td", "td_dll", After("td_dll"))
  PROVE  LifecycleInv'
<1> USE DEF hostVars, flagVars, ctpVars, threadVars, LifecycleInv
<1>1. UNCHANGED <<making, keep_running, stop_requested, base, started, stopping, cleanup_done,
                  ctp_running, calling, disp>>
  BY DEF ResetSpi, ResetApi, ResetDll
<1>2. /\ dll \in [Sessions -> {"none", "open", "closed"}]
      /\ api \in [Sessions -> {"none", "created", "live", "released"}]
      /\ spi \in [Sessions -> {"none", "alive", "destroyed"}]
      /\ registered \in [Sessions -> BOOLEAN]
      /\ joining \subseteq Sessions
  BY DEF TypeOK
<1>3. owner \in CleanupPc
  BY DEF ResetSpi, ResetApi, ResetDll, At, CleanupPc
<1>4. cleanup_done /\ disp \notin {"running", "exited"}
  BY <1>3 DEF CleanupOnce, DispatchOwned, CleanupPc
<1>5. ASSUME owner' \in (CleanupPc \ {"md_spi"}) \cup {"base", "thrown"},
             dll' \in [Sessions -> {"none", "open", "closed"}],
             api' \in [Sessions -> {"none", "created", "live", "released"}],
             spi' \in [Sessions -> {"none", "alive", "destroyed"}],
             registered' \in [Sessions -> BOOLEAN],
             joining' \subseteq Sessions,
             DllOutlivesApi', RegisteredWithLiveApi', ResetOrder',
             owner' \in {"base", "thrown"} => Gone("md")' /\ Gone("td")'
      PROVE  LifecycleInv'
  <2>1. TypeOK'
    BY <1>1, <1>5 DEF TypeOK, OwnerPc, MakingPc, HandlerPc, CleanupPc
  <2>2. NotMadeYet' /\ MadeBeforeUse'
    BY <1>5 DEF NotMadeYet, MadeBeforeUse, Unstarted, MakingPc, HandlerPc, CleanupPc
  <2>3. CleanupOnce'
    BY <1>1, <1>4, <1>5 DEF CleanupOnce, Starting, Unstarted, MakingPc, HandlerPc, CleanupPc
  <2>4. DispatchOwned' /\ owner' # "ended"
    BY <1>1, <1>4, <1>5 DEF DispatchOwned, CleanupPc
  <2>5. QED BY <1>5, <2>1, <2>2, <2>3, <2>4
<1>6. ASSUME NEW s \in Sessions, NEW m \in {"md_spi", "td_spi"}, ResetSpi(s, m, After(m)),
             m = "md_spi" <=> s = "md"
      PROVE  LifecycleInv'
  <2>1. /\ owner = m /\ owner' = (IF s = "md" THEN "md_api" ELSE "td_api")
        /\ UNCHANGED <<dll, api, registered, joining>>
        /\ spi' = [spi EXCEPT ![s] = IF @ = "alive" THEN "destroyed" ELSE @]
    BY <1>6 DEF ResetSpi, At, After
  <2>2. /\ spi' \in [Sessions -> {"none", "alive", "destroyed"}] /\ spi'[s] # "alive"
        /\ \A u \in Sessions : u # s => spi'[u] = spi[u]
    BY <1>2, <2>1
  <2>3. DllOutlivesApi' /\ RegisteredWithLiveApi'
    BY <2>1 DEF DllOutlivesApi, RegisteredWithLiveApi, ApiGone
  <2>4. ResetOrder'
    BY <1>6, <2>1, <2>2 DEF ResetOrder, ApiGone, CleanupPc, Sessions
  <2>5. QED BY <1>2, <1>5, <2>1, <2>2, <2>3, <2>4 DEF CleanupPc
<1>7. ASSUME NEW s \in Sessions, NEW m \in {"md_api", "td_api"}, ResetApi(s, m, After(m)),
             m = "md_api" <=> s = "md"
      PROVE  LifecycleInv'
  <2>1. /\ owner = m /\ owner' = (IF s = "md" THEN "md_dll" ELSE "td_dll")
        /\ UNCHANGED <<dll, spi>>
    BY <1>7 DEF ResetApi, At, After
  <2>2. /\ api' \in [Sessions -> {"none", "created", "live", "released"}]
        /\ registered' \in [Sessions -> BOOLEAN]
        /\ joining' \subseteq Sessions
        /\ api'[s] \in {"none", "released"}
        /\ registered'[s] => registered[s] /\ ApiGone(s)
        /\ \A u \in Sessions : u # s => api'[u] = api[u] /\ registered'[u] = registered[u]
    <3>1. /\ api' = IF api[s] \in {"created", "live"}
                      THEN [api EXCEPT ![s] = "released"] ELSE api
          /\ registered' = IF api[s] \in {"created", "live"}
                             THEN [registered EXCEPT ![s] = FALSE] ELSE registered
          /\ joining' \in {joining, joining \cup {s}}
      BY <1>7 DEF ResetApi
    <3>2. joining' \subseteq Sessions
      BY <1>2, <3>1
    <3>3. /\ api' \in [Sessions -> {"none", "created", "live", "released"}]
          /\ api'[s] \in {"none", "released"}
          /\ \A u \in Sessions : u # s => api'[u] = api[u]
      BY <1>2, <3>1
    <3>4. /\ registered' \in [Sessions -> BOOLEAN]
          /\ registered'[s] => registered[s] /\ ApiGone(s)
          /\ \A u \in Sessions : u # s => registered'[u] = registered[u]
      BY <1>2, <3>1 DEF ApiGone
    <3>5. QED BY <3>2, <3>3, <3>4
  <2>3. RegisteredWithLiveApi'
    BY <2>2 DEF RegisteredWithLiveApi, ApiGone
  <2>4. DllOutlivesApi'
    BY <2>1, <2>2 DEF DllOutlivesApi
  <2>5. ResetOrder'
    BY <1>7, <2>1, <2>2 DEF ResetOrder, ApiGone, CleanupPc, Sessions
  <2>6. QED BY <1>2, <1>5, <2>1, <2>2, <2>3, <2>4, <2>5 DEF CleanupPc
<1>8. ASSUME NEW s \in Sessions, NEW m \in {"md_dll", "td_dll"}, ResetDll(s, m, After(m)),
             m = "md_dll" <=> s = "md"
      PROVE  LifecycleInv'
  <2>1. /\ owner = m /\ owner' = (IF s = "md" THEN "td_spi" ELSE Return)
        /\ UNCHANGED <<api, spi, registered, joining>>
        /\ dll' = [dll EXCEPT ![s] = IF @ = "open" THEN "closed" ELSE @]
    BY <1>8 DEF ResetDll, At, After
  <2>2. /\ dll' \in [Sessions -> {"none", "open", "closed"}] /\ dll'[s] # "open"
        /\ \A u \in Sessions : u # s => dll'[u] = dll[u]
    BY <1>2, <2>1
  <2>3. ApiGone(s) /\ (s = "td" => Gone("md") /\ spi["td"] # "alive")
    BY <1>8, <2>1 DEF ResetOrder, Gone, CleanupPc, Sessions
  <2>4. DllOutlivesApi' /\ RegisteredWithLiveApi'
    BY <2>1, <2>2, <2>3 DEF DllOutlivesApi, RegisteredWithLiveApi, ApiGone
  <2>5. ResetOrder'
    BY <1>8, <2>1, <2>2, <2>3 DEF ResetOrder, ApiGone, CleanupPc, Sessions, Return
  <2>6. s = "td" => Gone("md")' /\ Gone("td")'
    BY <2>1, <2>2, <2>3 DEF Gone, ApiGone, Sessions
  <2>7. owner' \in {"td_spi", "base", "thrown"} /\ (s = "md" => owner' = "td_spi")
    BY <2>1 DEF Return
  <2>8. QED BY <1>2, <1>5, <2>1, <2>2, <2>4, <2>5, <2>6, <2>7 DEF CleanupPc, Sessions
<1>9. QED BY <1>6, <1>7, <1>8 DEF Sessions

(* The host and CTP's threads own nothing. *)
LEMMA OthersOwnNothing ==
  ASSUME LifecycleInv,
         HostStop \/ \E s \in Sessions : CallBegin(s) \/ CallEnd(s) \/ JoinReturns(s)
  PROVE  LifecycleInv'
<1> USE DEF hostVars, flagVars, ctpVars, threadVars, LifecycleInv
<1>1. UNCHANGED <<owner, making, base, started, stopping, cleanup_done, ctp_running, dll, api, spi,
                  registered, disp>>
  BY DEF HostStop, CallBegin, CallEnd, JoinReturns
<1>2. TypeOK'
  <2>1. keep_running' \in BOOLEAN /\ stop_requested' \in BOOLEAN
    BY DEF TypeOK, HostStop, CallBegin, CallEnd, JoinReturns
  <2>2. calling' \subseteq Sessions /\ joining' \subseteq Sessions
    BY DEF TypeOK, HostStop, CallBegin, CallEnd, JoinReturns
  <2>3. QED BY <1>1, <2>1, <2>2 DEF TypeOK
<1>3. NotMadeYet' /\ MadeBeforeUse' /\ DllOutlivesApi' /\ RegisteredWithLiveApi'
  BY <1>1 DEF NotMadeYet, MadeBeforeUse, DllOutlivesApi, RegisteredWithLiveApi, Untouched,
              ApiGone
<1>4. CleanupOnce' /\ ResetOrder' /\ DispatchOwned'
  BY <1>1 DEF CleanupOnce, ResetOrder, DispatchOwned, Gone, ApiGone
<1>5. QED BY <1>1, <1>2, <1>3, <1>4

LEMMA NextLifecycle == LifecycleInv /\ [Next]_vars => LifecycleInv'
<1> SUFFICES ASSUME LifecycleInv, [Next]_vars PROVE LifecycleInv'
  OBVIOUS
<1>1. CASE UNCHANGED vars
  BY <1>1 DEF vars, hostVars, flagVars, ctpVars, threadVars, LifecycleInv, TypeOK, NotMadeYet,
              MadeBeforeUse, DllOutlivesApi, RegisteredWithLiveApi, CleanupOnce, ResetOrder,
              DispatchOwned, Untouched, Gone, ApiGone
<1>2. CASE HostStop \/ ThreadStep
  BY <1>2, OthersOwnNothing, DispatchThread DEF ThreadStep
<1>3. CASE StartStep
  BY <1>3, StartFlags, MakesSession, MakingFails, HandlesTd, DispatchThread DEF StartStep
<1>4. CASE StopStep
  BY <1>4, DispatchThread, EntersCleanup, ResetsMember DEF StopStep
<1>5. QED BY <1>1, <1>2, <1>3, <1>4 DEF Next, Terminated

(* The inductive invariant, for either driver. *)
THEOREM LifecycleInvariant == Spec => []LifecycleInv
<1>1. Init => LifecycleInv
  BY InitLifecycle
<1>2. LifecycleInv /\ [Next]_vars => LifecycleInv'
  BY NextLifecycle
<1>3. QED BY <1>1, <1>2, PTL DEF Spec

(* No library is closed under an API object it implements, whichever step  *)
(* of start() fails.                                                       *)
THEOREM LibrariesOutliveApis == Spec => []DllOutlivesApi
<1>1. LifecycleInv => DllOutlivesApi
  BY DEF LifecycleInv
<1>2. QED BY <1>1, LifecycleInvariant, PTL

(* The dispatch thread never meets a released MdApi.                       *)
THEOREM DispatchWithinSession == Spec => []DispatchInsideSession
<1>1. LifecycleInv => DispatchInsideSession
  BY DEF LifecycleInv, DispatchOwned, DispatchInsideSession
<1>2. QED BY <1>1, LifecycleInvariant, PTL

(* Nothing is left when the owner is through, however start() went.        *)
THEOREM EverythingReleased == Spec => []NothingLeftBehind
<1>1. LifecycleInv => NothingLeftBehind
  <2>1. SUFFICES ASSUME LifecycleInv, owner = "ended" PROVE NothingLeftBehind
    BY DEF NothingLeftBehind
  <2>2. Gone("md") /\ Gone("td")
    BY <2>1 DEF LifecycleInv, CleanupOnce, CleanupPc
  <2>3. \A s \in Sessions : Gone(s) /\ ~registered[s]
    BY <2>1, <2>2 DEF LifecycleInv, RegisteredWithLiveApi, Gone, Sessions
  <2>4. disp \in {"none", "joined"} /\ base = "down"
    BY <2>1 DEF LifecycleInv, DispatchOwned, TypeOK
  <2>5. QED BY <2>3, <2>4 DEF NothingLeftBehind, Gone, ApiGone
<1>2. QED BY <1>1, LifecycleInvariant, PTL
=============================================================================
