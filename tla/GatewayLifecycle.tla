-------------------------- MODULE GatewayLifecycle --------------------------
(***************************************************************************)
(* Who owns what, and for how long: the gateway's start(), init_ctp(),     *)
(* stop(), cleanup_ctp() and destructor, as main() (Driver = "exe") or     *)
(* tyche_module_run() (Driver = "dll") drives them, against the threads    *)
(* that run meanwhile: each CTP API's own callback thread, the dispatch    *)
(* thread, the detached thread each API deleter starts to call Join(), and *)
(* the host that asks for the stop.                                        *)
(*                                                                         *)
(* "md" and "td" are the two CTP sessions, made one after the other by the *)
(* same steps: CtpLoader::create_*_api loads the library and creates the   *)
(* API, init_ctp() adopts both, makes the SPI and registers it.  Until it  *)
(* is adopted, a library belongs to the loader's local DllHandle.  Whether *)
(* a path is refused, a library or a symbol missing or the API null makes  *)
(* no difference to what is left behind: the step may throw.               *)
(*                                                                         *)
(* What the callbacks and the dispatch thread do is in QuotePipeline; here *)
(* they only exist.  CTP is external: an API calls back from Init() on,    *)
(* into the registered SPI.                                                *)
(***************************************************************************)
EXTENDS FiniteSets

CONSTANT Driver         \* "exe": main.cpp; "dll": dll_entry.cpp

ASSUME DriverAssumption == Driver \in {"exe", "dll"}

VARIABLES
  owner,                \* where the thread that runs the gateway is
  making,               \* the session init_ctp() is at
  keep_running,         \* g_running, resp. ~g_shutdown
  stop_requested,       \* ghost: the host has asked for a stop
  base,                 \* TycheModule's transport: "up" or "down"
  started, stopping,    \* started_, stopping_
  cleanup_done,         \* cleanup_done_
  ctp_running,          \* ctp_running_
  dll,                  \* md_dll_, td_dll_
  api,                  \* md_api_, td_api_ and the objects behind them
  spi,                  \* md_spi_, td_spi_
  registered,           \* the API holds a pointer to its SPI
  calling,              \* APIs whose thread is inside a callback
  joining,              \* APIs whose detached Join() has not returned
  disp                  \* option_dispatch_thread_

hostVars  == <<keep_running, stop_requested>>
flagVars  == <<started, stopping, cleanup_done, ctp_running>>
ctpVars   == <<dll, api, spi, registered>>
threadVars == <<calling, joining, disp>>
vars == <<owner, making, hostVars, base, flagVars, ctpVars, threadVars>>

Sessions == {"md", "td"}

(* cleanup_ctp's members, in the order it resets them. *)
CleanupPc == {"md_spi", "md_api", "md_dll", "td_spi", "td_api", "td_dll"}

(* One session: loader, loader, adopted, SPI made, registered. *)
MakingPc == {"load", "create", "make", "register", "init"}

(* init_ctp()'s handler for a failed TdApi, in the order it resets. *)
HandlerPc == {"reset_spi", "reset_api", "reset_dll"}

OwnerPc == {"begin", "start", "transport", "login", "running", "spawn", "wait", "thrown",
            "stop", "join", "cleanup", "base", "ended"} \cup MakingPc \cup HandlerPc \cup CleanupPc

TypeOK ==
  /\ owner \in OwnerPc /\ making \in Sessions
  /\ keep_running \in BOOLEAN /\ stop_requested \in BOOLEAN
  /\ base \in {"up", "down"}
  /\ started \in BOOLEAN /\ stopping \in BOOLEAN
  /\ cleanup_done \in BOOLEAN /\ ctp_running \in BOOLEAN
  /\ dll \in [Sessions -> {"none", "open", "closed"}]
  /\ api \in [Sessions -> {"none", "created", "live", "released"}]
  /\ spi \in [Sessions -> {"none", "alive", "destroyed"}]
  /\ registered \in [Sessions -> BOOLEAN]
  /\ calling \subseteq Sessions /\ joining \subseteq Sessions
  /\ disp \in {"none", "running", "exited", "joined"}

Init ==
  /\ owner = "begin" /\ making = "td"
  /\ keep_running = (Driver = "exe") /\ stop_requested = FALSE
  /\ base = "down"
  /\ started = FALSE /\ stopping = FALSE /\ cleanup_done = FALSE /\ ctp_running = FALSE
  /\ dll = [s \in Sessions |-> "none"] /\ api = [s \in Sessions |-> "none"]
  /\ spi = [s \in Sessions |-> "none"] /\ registered = [s \in Sessions |-> FALSE]
  /\ calling = {} /\ joining = {} /\ disp = "none"

At(from, to) == owner = from /\ owner' = to

-----------------------------------------------------------------------------
(* The host: a signal for main(), tyche_module_stop() for the library      *)

HostStop ==
  /\ ~stop_requested
  /\ stop_requested' = TRUE
  /\ keep_running' = FALSE
  /\ UNCHANGED <<owner, making, base, flagVars, ctpVars, threadVars>>

(* Mutant: main() clears g_shutdown before it starts the gateway. *)
BeginClearsRequest ==
  /\ At("begin", "start")
  /\ keep_running' = TRUE
  /\ UNCHANGED <<making, stop_requested, base, flagVars, ctpVars, threadVars>>

(* tyche_module_run() sets g_running; main() leaves g_shutdown alone. *)
Begin ==
  /\ At("begin", "start")
  /\ keep_running' = (keep_running \/ Driver = "dll")
  /\ UNCHANGED <<making, stop_requested, base, flagVars, ctpVars, threadVars>>

(* main() cannot open the queue: the gateway is destroyed unstarted. *)
QueueRefused ==
  /\ At("begin", "stop")
  /\ Driver = "exe"
  /\ UNCHANGED <<making, hostVars, base, flagVars, ctpVars, threadVars>>

(* The 500 ms polling loop, left once the flag says so. *)
WaitEnds ==
  /\ At("wait", "stop")
  /\ ~keep_running
  /\ UNCHANGED <<making, hostVars, base, flagVars, ctpVars, threadVars>>

-----------------------------------------------------------------------------
(* start() and init_ctp()                                                  *)

Start ==
  /\ At("start", "transport")
  /\ ~started /\ started' = TRUE
  /\ UNCHANGED <<making, hostVars, base, stopping, cleanup_done, ctp_running, ctpVars, threadVars>>

(* ZMQ: not registered means start() returns without a CTP session; SHM:   *)
(* the side channel is optional.  Then the TdApi only if it has a front.   *)
Transport ==
  /\ base' \in {"up", "down"}
  /\ \/ At("transport", "wait") /\ Driver = "exe" /\ making' = making
     \/ At("transport", "load") /\ making' \in Sessions
     \/ At("transport", "thrown") /\ making' = making
  /\ UNCHANGED <<hostVars, flagVars, ctpVars, threadVars>>

OpenLib ==
  /\ At("load", "create")
  /\ dll' = [dll EXCEPT ![making] = "open"]
  /\ UNCHANGED <<making, hostVars, base, flagVars, api, spi, registered, threadVars>>

(* The symbol is found and returns an API, which is moved to its member. *)
CreateApi ==
  /\ At("create", "make")
  /\ api' = [api EXCEPT ![making] = "created"]
  /\ UNCHANGED <<making, hostVars, base, flagVars, dll, spi, registered, threadVars>>

MakeSpi ==
  /\ At("make", "register")
  /\ spi' = [spi EXCEPT ![making] = "alive"]
  /\ UNCHANGED <<making, hostVars, base, flagVars, dll, api, registered, threadVars>>

RegisterSpi ==
  /\ At("register", "init")
  /\ registered' = [registered EXCEPT ![making] = TRUE]
  /\ UNCHANGED <<making, hostVars, base, flagVars, dll, api, spi, threadVars>>

InitApi ==
  /\ At("init", IF making = "td" THEN "login" ELSE "running")
  /\ api' = [api EXCEPT ![making] = "live"]
  /\ UNCHANGED <<making, hostVars, base, flagVars, dll, spi, registered, threadVars>>

(* wait_for_login returns: logged in or timed out, the gateway goes on. *)
LoginWaitEnds ==
  /\ At("login", "load") /\ making' = "md"
  /\ UNCHANGED <<hostVars, base, flagVars, ctpVars, threadVars>>

(* Any step of a try block may throw.  Unwinding closes a library the      *)
(* loader still owns; what was adopted by then is left to the handler.     *)
Unwind(s) == dll' = [dll EXCEPT ![s] = IF owner = "create" THEN "closed" ELSE @]

(* Mutant: a failed TdApi is rethrown, as a failed MdApi is. *)
TdFailsRethrown ==
  /\ making = "td" /\ making' = making
  /\ \E pc \in MakingPc \cup {"login"} : At(pc, "cleanup")
  /\ Unwind("td")
  /\ UNCHANGED <<hostVars, base, flagVars, api, spi, registered, threadVars>>

(* wait_for_login() included: then the API is live and may be calling back. *)
TdFails ==
  /\ making = "td" /\ making' = "md"
  /\ \E pc \in MakingPc \cup {"login"} : At(pc, "reset_spi")
  /\ Unwind("td")
  /\ UNCHANGED <<hostVars, base, flagVars, api, spi, registered, threadVars>>

(* Without an MdApi init_ctp() cleans up, TdApi included, and rethrows. *)
MdFails ==
  /\ making = "md" /\ making' = making
  /\ \E pc \in MakingPc : At(pc, "cleanup")
  /\ Unwind("md")
  /\ UNCHANGED <<hostVars, base, flagVars, api, spi, registered, threadVars>>

(* What start() threw reaches tyche_module_run()'s handler, which clears   *)
(* g_running, or main()'s, by way of the gateway's destructor: both stop(). *)
Handler ==
  /\ At("thrown", "stop")
  /\ keep_running' = (keep_running /\ Driver = "exe")
  /\ UNCHANGED <<making, stop_requested, base, flagVars, ctpVars, threadVars>>

SetRunning ==
  /\ At("running", "spawn")
  /\ ctp_running' = TRUE
  /\ UNCHANGED <<making, hostVars, base, started, stopping, cleanup_done, ctpVars, threadVars>>

(* The std::thread constructor may throw, with both sessions up. *)
SpawnDispatch ==
  /\ \/ At("spawn", "wait") /\ disp' = "running"
     \/ At("spawn", "thrown") /\ disp' = disp
  /\ UNCHANGED <<making, hostVars, base, flagVars, ctpVars, calling, joining>>

-----------------------------------------------------------------------------
(* stop() and cleanup_ctp()                                                *)

Stop ==
  /\ At("stop", "join")
  /\ ~stopping /\ stopping' = TRUE
  /\ ctp_running' = FALSE
  /\ UNCHANGED <<making, hostVars, base, started, cleanup_done, ctpVars, threadVars>>

(* Mutant: stop() goes on while the dispatch thread still runs. *)
JoinNoWait ==
  /\ At("join", "cleanup")
  /\ UNCHANGED <<making, hostVars, base, flagVars, ctpVars, threadVars>>

(* joinable() is false when start() never got as far as the thread. *)
Join ==
  /\ At("join", "cleanup")
  /\ disp # "running"
  /\ disp' = IF disp = "exited" THEN "joined" ELSE disp
  /\ UNCHANGED <<making, hostVars, base, flagVars, ctpVars, calling, joining>>

(* After cleanup_ctp(): stop() closes the base class, init_ctp() rethrows. *)
Return == IF stopping THEN "base" ELSE "thrown"

(* Mutant: cleanup_ctp() gives up on the TdApi once MdApi is released. *)
AfterMdOnly(member) ==
  CASE member = "md_spi" -> "md_api" [] member = "md_api" -> "md_dll"
    [] OTHER -> Return

(* Mutant: the library is closed before the API it implements. *)
AfterDllFirst(member) ==
  CASE member = "md_spi" -> "md_dll" [] member = "md_dll" -> "md_api"
    [] member = "md_api" -> "td_spi" [] member = "td_spi" -> "td_api"
    [] member = "td_api" -> "td_dll" [] member = "td_dll" -> Return

After(member) ==
  CASE member = "md_spi" -> "md_api" [] member = "md_api" -> "md_dll"
    [] member = "md_dll" -> "td_spi" [] member = "td_spi" -> "td_api"
    [] member = "td_api" -> "td_dll" [] member = "td_dll" -> Return

Cleanup ==
  /\ At("cleanup", IF cleanup_done THEN Return ELSE "md_spi")
  /\ cleanup_done' = TRUE
  /\ ctp_running' = FALSE
  /\ UNCHANGED <<making, hostVars, base, started, stopping, ctpVars, threadVars>>

ResetSpi(s, from, to) ==
  /\ At(from, to)
  /\ spi' = [spi EXCEPT ![s] = IF @ = "alive" THEN "destroyed" ELSE @]
  /\ UNCHANGED <<making, hostVars, base, flagVars, dll, api, registered, threadVars>>

(* The deleter: RegisterSpi(nullptr), Release(), Join() on a detached thread. *)
ResetApi(s, from, to) ==
  /\ At(from, to)
  /\ IF api[s] \in {"created", "live"}
       THEN /\ api' = [api EXCEPT ![s] = "released"]
            /\ registered' = [registered EXCEPT ![s] = FALSE]
            /\ joining' = joining \cup {s}
       ELSE UNCHANGED <<api, registered, joining>>
  /\ UNCHANGED <<making, hostVars, base, flagVars, dll, spi, calling, disp>>

ResetDll(s, from, to) ==
  /\ At(from, to)
  /\ dll' = [dll EXCEPT ![s] = IF @ = "open" THEN "closed" ELSE @]
  /\ UNCHANGED <<making, hostVars, base, flagVars, api, spi, registered, threadVars>>

(* Mutant: the handler closes the library before it resets the API. *)
TdHandlerDllFirst ==
  \/ ResetSpi("td", "reset_spi", "reset_dll")
  \/ ResetDll("td", "reset_dll", "reset_api")
  \/ ResetApi("td", "reset_api", "load")

(* The same resets in the handler for TdApi, which then goes on to MdApi. *)
TdHandler ==
  \/ ResetSpi("td", "reset_spi", "reset_api")
  \/ ResetApi("td", "reset_api", "reset_dll")
  \/ ResetDll("td", "reset_dll", "load")

StopBase ==
  /\ At("base", "ended")
  /\ base' = "down"
  /\ UNCHANGED <<making, hostVars, flagVars, ctpVars, threadVars>>

-----------------------------------------------------------------------------
(* The other threads                                                       *)

CallBegin(s) ==
  /\ api[s] = "live" /\ registered[s] /\ s \notin calling
  /\ calling' = calling \cup {s}
  /\ UNCHANGED <<owner, making, hostVars, base, flagVars, ctpVars, joining, disp>>

CallEnd(s) ==
  /\ s \in calling
  /\ calling' = calling \ {s}
  /\ UNCHANGED <<owner, making, hostVars, base, flagVars, ctpVars, joining, disp>>

JoinReturns(s) ==
  /\ s \in joining /\ s \notin calling
  /\ joining' = joining \ {s}
  /\ UNCHANGED <<owner, making, hostVars, base, flagVars, ctpVars, calling, disp>>

DispatchExits ==
  /\ disp = "running" /\ ~ctp_running
  /\ disp' = "exited"
  /\ UNCHANGED <<owner, making, hostVars, base, flagVars, ctpVars, calling, joining>>

-----------------------------------------------------------------------------
StartStep ==
  \/ Begin \/ QueueRefused \/ Start \/ Transport
  \/ OpenLib \/ CreateApi \/ MakeSpi \/ RegisterSpi \/ InitApi \/ LoginWaitEnds
  \/ TdFails \/ TdHandler \/ MdFails
  \/ Handler \/ SetRunning \/ SpawnDispatch \/ WaitEnds

StopStep ==
  \/ Stop \/ Join \/ Cleanup
  \/ ResetSpi("md", "md_spi", After("md_spi"))
  \/ ResetApi("md", "md_api", After("md_api"))
  \/ ResetDll("md", "md_dll", After("md_dll"))
  \/ ResetSpi("td", "td_spi", After("td_spi"))
  \/ ResetApi("td", "td_api", After("td_api"))
  \/ ResetDll("td", "td_dll", After("td_dll"))
  \/ StopBase

ThreadStep ==
  \/ DispatchExits
  \/ \E s \in Sessions : CallBegin(s) \/ CallEnd(s) \/ JoinReturns(s)

Terminated == owner = "ended" /\ UNCHANGED vars

Next == HostStop \/ StartStep \/ StopStep \/ ThreadStep \/ Terminated

Spec == Init /\ [][Next]_vars

(* The owner and the dispatch thread are scheduled; CTP need not call back *)
(* and Join() need not return (ctp_api_raii.h:23: it "may block forever"). *)
FairSpec == Spec /\ WF_vars(StartStep \/ StopStep) /\ WF_vars(DispatchExits)

-----------------------------------------------------------------------------
(* The library that implements a CTP object is loaded as long as the       *)
(* object has not been released, on every path: failed creation, failed    *)
(* start, stop, and whichever order the exception handlers run in.         *)
DllOutlivesApi == \A s \in Sessions : api[s] \in {"created", "live"} => dll[s] = "open"

(* The dispatch thread runs only between MdApi's Init() and its release:   *)
(* a failed start() never spawns it, and stop() joins it before it lets go *)
(* of anything the thread's sends could still meet.                        *)
DispatchInsideSession ==
  disp \in {"running", "exited"} =>
    api["md"] = "live" /\ spi["md"] = "alive" /\ ~cleanup_done

(* However start() went, once the owner is through everything it made is   *)
(* gone: APIs released, libraries closed, thread joined, transport down.   *)
NothingLeftBehind ==
  owner = "ended" =>
    /\ \A s \in Sessions : api[s] \in {"none", "released"} /\ dll[s] # "open"
                           /\ spi[s] # "alive" /\ ~registered[s]
    /\ disp \in {"none", "joined"} /\ base = "down"

(* What holds at each stage of the owner, from which the three properties  *)
(* above follow step by step.                                              *)
Unstarted == {"begin", "start", "transport"}
Starting == Unstarted \cup MakingPc \cup HandlerPc \cup {"login", "running", "spawn"}

Untouched(s) ==
  dll[s] = "none" /\ api[s] = "none" /\ spi[s] = "none" /\ ~registered[s]
ApiGone(s) == api[s] \in {"none", "released"}
Gone(s) == ApiGone(s) /\ dll[s] # "open" /\ spi[s] # "alive"

NotMadeYet ==
  /\ owner \in Unstarted => Untouched("td") /\ Untouched("md")
  /\ owner = "load" => Untouched(making)
  /\ owner \in MakingPc \cup {"login"} /\ making = "td" => Untouched("md")
  /\ owner = "login" => making = "td"
  /\ owner \in HandlerPc => making = "md" /\ Untouched("md")
MadeBeforeUse ==
  /\ owner \in MakingPc \ {"load"} => dll[making] = "open"
  /\ owner = "create" => api[making] = "none"
  /\ owner \in {"make", "register", "init"} => api[making] = "created"
  /\ owner \in {"create", "make"} => spi[making] = "none"
  /\ owner \in MakingPc \ {"init"} => ~registered[making]
  /\ owner \in {"register", "init"} => spi[making] = "alive"
  /\ owner \in {"running", "spawn"} => api["md"] = "live" /\ spi["md"] = "alive"
RegisteredWithLiveApi == \A s \in Sessions : registered[s] => ~ApiGone(s)
CleanupOnce ==
  /\ owner \in Starting \cup {"wait"} => ~cleanup_done
  /\ owner \in CleanupPc \cup {"base", "ended"} => cleanup_done
  /\ cleanup_done /\ owner \notin CleanupPc => Gone("md") /\ Gone("td")
ResetOrder ==
  /\ owner \in CleanupPc \ {"md_spi"} => spi["md"] # "alive"
  /\ owner \in CleanupPc \ {"md_spi", "md_api"} => ApiGone("md")
  /\ owner \in {"td_spi", "td_api", "td_dll"} => dll["md"] # "open"
  /\ owner \in {"td_api", "td_dll"} => spi["td"] # "alive"
  /\ owner \in {"td_dll", "reset_dll"} => ApiGone("td")
DispatchOwned ==
  disp \in {"running", "exited"} =>
    /\ owner \in {"wait", "stop", "join"} /\ ~cleanup_done
    /\ api["md"] = "live" /\ spi["md"] = "alive"
LifecycleInv ==
  /\ TypeOK /\ NotMadeYet /\ MadeBeforeUse /\ DllOutlivesApi /\ RegisteredWithLiveApi
  /\ CleanupOnce /\ ResetOrder /\ DispatchOwned
  /\ owner = "ended" => base = "down"

(* main.cpp:116 "主循环：定期检查关闭标志，收到 Ctrl+C 后优雅退出",            *)
(* dll_entry.cpp:9 "tyche_module_stop() → signal shutdown": a stop         *)
(* requested at any moment, before start() included, ends the gateway.     *)
StopHonoured == stop_requested ~> owner = "ended"

(* "continuing with MdApi only" (ctp_gateway.cpp:317): whatever becomes of *)
(* the TdApi, a library that is missing or a login that never comes, the   *)
(* gateway gets to its MdApi.                                              *)
MdDespiteTd ==
  making = "td" /\ owner \in MakingPc \cup {"login"} ~> making = "md" /\ owner = "load"

(* "防止 dangling SPI 引用" (ctp_gateway.cpp:319): an API never holds a     *)
(* pointer to an SPI object that has been destroyed.                       *)
NoDanglingSpi == \A s \in Sessions : registered[s] => spi[s] = "alive"
=============================================================================
