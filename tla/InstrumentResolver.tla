------------------------- MODULE InstrumentResolver -------------------------
(***************************************************************************)
(* CtpGateway::resolve_instruments(): which contracts the gateway          *)
(* subscribes to, and which of them it treats as options.  The list comes  *)
(* from the configuration (SHM mode) or from the static_data module, which *)
(* is asked product by product and may not be up yet: the whole round of   *)
(* queries is then repeated, up to MaxRetries times.                       *)
(*                                                                         *)
(* static_data and the transport are external: each request is answered    *)
(* with the contracts listed, answered with an error, refused because no   *)
(* handler is registered, or times out; whatever comes of it, it takes any *)
(* time up to the timeout.  A contract is a record of its exchange,        *)
(* product id and class ("1" futures, "2" options), and its id.            *)
(***************************************************************************)
EXTENDS Naturals, Sequences, SequencesExt

CONSTANTS
  Products,         \* cfg_.underlyings, flattened: <<[exchange, product], ...>>
  Listed,           \* the contracts static_data knows
  PreLists,         \* possible values of cfg_.pre_resolved_instruments
  PreOptions,       \* cfg_.pre_resolved_option_instruments
  MaxRetries,       \* max_retries: 12
  Interval,         \* retry_interval_secs: 5 s
  Timeout           \* cfg_.static_data_timeout_secs

ASSUME ResolverAssumption ==
  /\ MaxRetries \in Nat /\ Interval \in Nat /\ Timeout \in Nat \ {0}
  /\ {} \in PreLists
  /\ Products \in Seq(ToSet(Products))

VARIABLES
  pc,               \* where start() is in resolve_instruments()
  shm, registered,  \* is_shm_mode(), is_registered()
  pre,              \* cfg_.pre_resolved_instruments
  attempt,          \* attempt
  any_failed,       \* any_failed
  todo,             \* products of this round not yet queried
  options,          \* option products of the current one not yet queried
  instruments,      \* instruments_, as a set
  option_set,       \* option_instrument_set_
  elapsed,          \* time spent waiting for answers and between rounds
  unanswered        \* ghost: queries of this round that brought no contracts
                    \* or were not made

modeVars == <<shm, registered, pre>>
resultVars == <<instruments, option_set>>
vars == <<pc, modeVars, attempt, any_failed, todo, options, resultVars, elapsed, unanswered>>

(* Option product ids by the rules of the exchanges. *)
OptionProducts(p) ==
  CASE p.exchange \in {"SHFE", "DCE", "INE", "GFEX"} -> << <<p.product, "_o">> >>
    [] p.exchange = "CZCE" -> << <<p.product, "C">>, <<p.product, "P">> >>
    [] OTHER -> << <<p.product>> >>

(* Nothing keeps a product from being configured twice: an entry is told   *)
(* from another by its place, and so are the queries made for it.          *)
Entries ==
  [i \in DOMAIN Products |->
     [exchange |-> Products[i].exchange, product |-> Products[i].product, at |-> i]]

FuturesQuery(p) ==
  [exchange |-> p.exchange, product |-> <<p.product>>, class |-> "1", at |-> p.at]
OptionQuery(p, o) ==
  [exchange |-> p.exchange, product |-> o, class |-> "2", at |-> p.at]

Answer(q) ==
  {k \in Listed : k.exchange = q.exchange /\ k.product = q.product /\ k.class = q.class}

QueriesOf(p) ==
  {FuturesQuery(p)} \cup {OptionQuery(p, o) : o \in ToSet(OptionProducts(p))}
Queries == UNION {QueriesOf(p) : p \in ToSet(Entries)}

TypeOK ==
  /\ pc \in {"begin", "round", "futures", "options", "decide", "done"}
  /\ shm \in BOOLEAN /\ registered \in BOOLEAN /\ pre \in PreLists
  /\ attempt \in 0..(MaxRetries + 1) /\ any_failed \in BOOLEAN
  /\ todo \in Seq(ToSet(Entries)) /\ Len(todo) <= Len(Entries)
  /\ Len(options) <= 2
  /\ instruments \subseteq Listed \cup pre
  /\ option_set \subseteq Listed \cup PreOptions
  /\ elapsed \in Nat /\ unanswered \subseteq Queries

(* start() gets here in ZMQ mode only when it is registered. *)
Init ==
  /\ pc = "begin"
  /\ shm \in BOOLEAN /\ registered \in BOOLEAN /\ (shm \/ registered)
  /\ pre \in PreLists
  /\ attempt = 0 /\ any_failed = FALSE /\ todo = <<>> /\ options = <<>>
  /\ instruments = {} /\ option_set = {} /\ elapsed = 0 /\ unanswered = {}

-----------------------------------------------------------------------------
NothingToAsk ==
  /\ pc = "begin" /\ shm /\ pre = {} /\ ~registered
  /\ pc' = "done"
  /\ UNCHANGED <<modeVars, attempt, any_failed, todo, options, resultVars, elapsed, unanswered>>

UsePreResolved ==
  /\ pc = "begin" /\ shm /\ pre # {}
  /\ pc' = "done"
  /\ instruments' = pre
  /\ option_set' = option_set \cup PreOptions
  /\ UNCHANGED <<modeVars, attempt, any_failed, todo, options, elapsed, unanswered>>

AskStaticData ==
  /\ pc = "begin" /\ ~(shm /\ (pre # {} \/ ~registered))
  /\ pc' = "round"
  /\ instruments' = {} /\ option_set' = {}
  /\ UNCHANGED <<modeVars, attempt, any_failed, todo, options, elapsed, unanswered>>

NextProduct(more) == pc' = IF more = <<>> THEN "decide" ELSE "futures"

(* Mutant: a round adds to what the failed round before it had found. *)
BeginRoundKeeps ==
  /\ pc = "round" /\ NextProduct(Entries)
  /\ any_failed' = FALSE
  /\ todo' = Entries /\ unanswered' = {}
  /\ UNCHANGED <<modeVars, attempt, options, resultVars, elapsed>>

(* option_instrument_set_ is not cleared between rounds. *)
BeginRound ==
  /\ pc = "round" /\ NextProduct(Entries)
  /\ instruments' = {} /\ any_failed' = FALSE
  /\ todo' = Entries /\ unanswered' = {}
  /\ UNCHANGED <<modeVars, attempt, options, option_set, elapsed>>

(* A request comes back, in whatever way, by its timeout at the latest.    *)
Waits == elapsed' \in elapsed .. (elapsed + Timeout)

FuturesAnswered ==
  /\ pc = "futures"
  /\ instruments' = instruments \cup Answer(FuturesQuery(Head(todo)))
  /\ pc' = "options" /\ options' = OptionProducts(Head(todo))
  /\ Waits
  /\ UNCHANGED <<modeVars, attempt, any_failed, todo, option_set, unanswered>>

(* "No handler", or the request timed out: static_data is not there yet,   *)
(* and the rest of the round is given up.  What it has found so far stays, *)
(* should this have been the last one, although the log says "proceeding   *)
(* with empty instrument list".                                            *)
FuturesNotReady ==
  /\ pc = "futures"
  /\ Waits
  /\ any_failed' = TRUE
  /\ unanswered' = unanswered \cup UNION {QueriesOf(p) : p \in ToSet(todo)}
  /\ pc' = "decide"
  /\ UNCHANGED <<modeVars, attempt, todo, options, resultVars>>

(* Any other error in the answer: the product is skipped, options and all. *)
FuturesError ==
  /\ pc = "futures"
  /\ unanswered' = unanswered \cup QueriesOf(Head(todo))
  /\ todo' = Tail(todo) /\ NextProduct(todo')
  /\ Waits
  /\ UNCHANGED <<modeVars, attempt, any_failed, options, resultVars>>

(* An answer that does not parse, or a request that throws anything but a  *)
(* timeout: the product's options are still asked for.                     *)
FuturesThrows ==
  /\ pc = "futures"
  /\ unanswered' = unanswered \cup {FuturesQuery(Head(todo))}
  /\ pc' = "options" /\ options' = OptionProducts(Head(todo))
  /\ Waits
  /\ UNCHANGED <<modeVars, attempt, any_failed, todo, resultVars>>

NextOptions ==
  /\ options' = Tail(options)
  /\ IF options' = <<>> THEN todo' = Tail(todo) /\ NextProduct(todo')
                        ELSE UNCHANGED <<pc, todo>>

(* Mutant: the ids are subscribed to but not remembered as options. *)
OptionsAnsweredUnclassified ==
  /\ pc = "options"
  /\ instruments' = instruments \cup Answer(OptionQuery(Head(todo), Head(options)))
  /\ NextOptions /\ Waits
  /\ UNCHANGED <<modeVars, attempt, any_failed, option_set, unanswered>>

OptionsAnswered ==
  /\ pc = "options"
  /\ instruments' = instruments \cup Answer(OptionQuery(Head(todo), Head(options)))
  /\ option_set' = option_set \cup Answer(OptionQuery(Head(todo), Head(options)))
  /\ NextOptions /\ Waits
  /\ UNCHANGED <<modeVars, attempt, any_failed, unanswered>>

(* Whatever goes wrong, a timeout included, the product has no options. *)
OptionsFail ==
  /\ pc = "options"
  /\ Waits
  /\ unanswered' = unanswered \cup {OptionQuery(Head(todo), Head(options))}
  /\ NextOptions
  /\ UNCHANGED <<modeVars, attempt, any_failed, resultVars>>

Another == IF attempt < MaxRetries THEN "round" ELSE "done"

Succeed ==
  /\ pc = "decide" /\ ~any_failed /\ instruments # {}
  /\ pc' = "done"
  /\ UNCHANGED <<modeVars, attempt, any_failed, todo, options, resultVars, elapsed, unanswered>>

(* Mutant: one retry too many. *)
RetryOnceMore ==
  /\ pc = "decide" /\ (any_failed \/ instruments = {})
  /\ pc' = IF attempt <= MaxRetries THEN "round" ELSE "done"
  /\ attempt' = attempt + 1
  /\ elapsed' = IF any_failed /\ attempt <= MaxRetries THEN elapsed + Interval ELSE elapsed
  /\ UNCHANGED <<modeVars, any_failed, todo, options, resultVars, unanswered>>

(* Mutant: a round that succeeded but brought nothing is not counted. *)
RetryUncounted ==
  /\ pc = "decide" /\ (any_failed \/ instruments = {})
  /\ pc' = Another /\ attempt' = IF any_failed THEN attempt + 1 ELSE attempt
  /\ elapsed' = IF any_failed /\ attempt < MaxRetries THEN elapsed + Interval ELSE elapsed
  /\ UNCHANGED <<modeVars, any_failed, todo, options, resultVars, unanswered>>

(* Not ready: sleep, unless this was the last round.  Ready but with       *)
(* nothing to list: the next round follows at once.                        *)
Retry ==
  /\ pc = "decide" /\ (any_failed \/ instruments = {})
  /\ pc' = Another /\ attempt' = attempt + 1
  /\ elapsed' = IF any_failed /\ attempt < MaxRetries THEN elapsed + Interval ELSE elapsed
  /\ UNCHANGED <<modeVars, any_failed, todo, options, resultVars, unanswered>>

-----------------------------------------------------------------------------
Query ==
  \/ FuturesAnswered \/ FuturesNotReady \/ FuturesError \/ FuturesThrows
  \/ OptionsAnswered \/ OptionsFail

Step == NothingToAsk \/ UsePreResolved \/ AskStaticData
        \/ BeginRound \/ Query \/ Succeed \/ Retry

Terminated == pc = "done" /\ UNCHANGED vars

Next == Step \/ Terminated

Spec == Init /\ [][Next]_vars /\ WF_vars(Step)

-----------------------------------------------------------------------------
Asks == ~(shm /\ (pre # {} \/ ~registered))
Asked == pc = "done" /\ Asks

(* The list the gateway starts with is that of ONE round, the last:        *)
(* everything its queries brought, nothing left over from a round that     *)
(* failed before, and nothing missed behind a query that failed.           *)
ListOfLastRound ==
  Asked => instruments = UNION {Answer(q) : q \in Queries \ unanswered}

(* on_quote_received tells options from futures by option_instrument_set_  *)
(* alone: every option subscribed to is in it and no future is, however    *)
(* many rounds failed before and whatever they left in the set.            *)
OptionsClassified ==
  Asked => \A k \in instruments : k \in option_set <=> k.class = "2"

(* How long start() can be held up: the pauses between the rounds, and in  *)
(* every round one timeout for each query, since an answer, an empty one   *)
(* included, may take as long as a timeout.                                *)
RoundCost == Timeout * Cardinality(Queries)
StartupBounded == elapsed <= MaxRetries * Interval + (MaxRetries + 1) * RoundCost

(* resolve_instruments() returns, whatever static_data does. *)
Resolves == <>(pc = "done")
=============================================================================
