---------------------- MODULE InstrumentResolverProofs ----------------------
(* What resolve_instruments() returns and how long it takes, for every     *)
(* configuration of products, static data, timeouts and number of rounds.  *)
EXTENDS InstrumentResolver, FiniteSetTheorems, TLAPS

QueriesFor(s) == UNION {QueriesOf(p) : p \in ToSet(s)}
OptionsFor(p, s) == {OptionQuery(p, o) : o \in ToSet(s)}

PlacesDiffer(s) == \A i, j \in DOMAIN s : s[i].at = s[j].at => i = j
AllDiffer(s) == \A i, j \in DOMAIN s : s[i] = s[j] => i = j

(* The queries of this round that have not been made yet.                  *)
Left ==
  IF pc = "futures" THEN QueriesFor(todo)
  ELSE IF pc = "options" THEN OptionsFor(Head(todo), options) \cup QueriesFor(Tail(todo))
  ELSE {}

Control ==
  /\ TypeOK
  /\ pc # "done" => attempt <= MaxRetries
  /\ pc \in {"futures", "options"} => todo # <<>> /\ PlacesDiffer(todo)
  /\ pc = "options" =>
       /\ options \in Seq(ToSet(OptionProducts(Head(todo)))) /\ options # <<>>
       /\ AllDiffer(options)
  /\ pc = "begin" => instruments = {} /\ option_set = {} /\ elapsed = 0 /\ attempt = 0
  /\ pc \notin {"begin", "done"} => Asks

(* The list holds what the queries made and answered have brought.         *)
Listing ==
  /\ Left \subseteq Queries /\ unanswered \cap Left = {}
  /\ pc \in {"futures", "options", "decide"} \/ Asked =>
       instruments = UNION {Answer(q) : q \in (Queries \ Left) \ unanswered}

Classified ==
  Asks =>
    /\ \A k \in option_set : k.class = "2"
    /\ \A k \in instruments : k.class = "2" => k \in option_set

(* Each round pays for its queries; what is left of it must be in budget.   *)
Budget(n) == n * Interval + n * RoundCost
Paid ==
  /\ pc = "round" => elapsed <= Budget(attempt)
  /\ pc \in {"futures", "options", "decide"} =>
       elapsed + Timeout * Cardinality(Left) <= Budget(attempt) + RoundCost
  /\ pc = "done" => StartupBounded

ResolverInv == Control /\ Listing /\ Classified /\ Paid

-----------------------------------------------------------------------------
(* Sequences of products and of option products                            *)

LEMMA TailFacts ==
  ASSUME NEW S, NEW s \in Seq(S), s # <<>>
  PROVE  /\ Tail(s) \in Seq(S) /\ Len(Tail(s)) = Len(s) - 1 /\ Len(s) \in Nat \ {0}
         /\ Head(s) \in ToSet(s) /\ Head(s) = s[1]
         /\ ToSet(s) = {Head(s)} \cup ToSet(Tail(s))
         /\ DOMAIN s = 1..Len(s) /\ DOMAIN Tail(s) = 1..(Len(s) - 1)
         /\ \A i \in DOMAIN Tail(s) : Tail(s)[i] = s[i + 1]
<1>1. /\ Tail(s) \in Seq(S) /\ Len(Tail(s)) = Len(s) - 1 /\ Len(s) \in Nat \ {0}
      /\ Head(s) = s[1] /\ DOMAIN s = 1..Len(s) /\ DOMAIN Tail(s) = 1..(Len(s) - 1)
      /\ \A i \in DOMAIN Tail(s) : Tail(s)[i] = s[i + 1]
  OBVIOUS
<1>2. Head(s) \in ToSet(s)
  BY <1>1 DEF ToSet
<1>3. ToSet(s) \subseteq {Head(s)} \cup ToSet(Tail(s))
  <2>1. SUFFICES ASSUME NEW i \in DOMAIN s PROVE s[i] \in {Head(s)} \cup ToSet(Tail(s))
    BY DEF ToSet
  <2>2. CASE i # 1
    <3>1. i - 1 \in DOMAIN Tail(s) /\ Tail(s)[i - 1] = s[i]
      BY <1>1, <2>2
    <3>2. QED BY <3>1 DEF ToSet
  <2>3. QED BY <1>1, <2>2
<1>4. ToSet(Tail(s)) \subseteq ToSet(s)
  <2>1. SUFFICES ASSUME NEW i \in DOMAIN Tail(s) PROVE Tail(s)[i] \in ToSet(s)
    BY DEF ToSet
  <2>2. i + 1 \in DOMAIN s
    BY <1>1
  <2>3. QED BY <1>1, <2>2 DEF ToSet
<1>5. QED BY <1>1, <1>2, <1>3, <1>4

(* An exchange has one or two different option products for a product.     *)
LEMMA OptionProductFacts ==
  ASSUME NEW p
  PROVE  /\ OptionProducts(p) \in Seq(ToSet(OptionProducts(p)))
         /\ OptionProducts(p) # <<>> /\ Len(OptionProducts(p)) <= 2
         /\ AllDiffer(OptionProducts(p))
<1>1. \/ OptionProducts(p) = << <<p.product, "_o">> >>
      \/ OptionProducts(p) = << <<p.product, "C">>, <<p.product, "P">> >>
      \/ OptionProducts(p) = << <<p.product>> >>
  BY DEF OptionProducts
<1>2. CASE OptionProducts(p) = << <<p.product, "_o">> >>
  BY <1>2 DEF ToSet, AllDiffer
<1>3. CASE OptionProducts(p) = << <<p.product, "C">>, <<p.product, "P">> >>
  BY <1>3 DEF ToSet, AllDiffer
<1>4. CASE OptionProducts(p) = << <<p.product>> >>
  BY <1>4 DEF ToSet, AllDiffer
<1>5. QED BY <1>1, <1>2, <1>3, <1>4

(* A query is made for one entry of the configuration.                     *)
LEMMA QueryNames ==
  ASSUME NEW p, NEW q \in QueriesOf(p)
  PROVE  q.at = p.at
<1>1. CASE q = FuturesQuery(p)
  BY <1>1 DEF FuturesQuery
<1>2. ASSUME NEW o \in ToSet(OptionProducts(p)), q = OptionQuery(p, o)
      PROVE  q.at = p.at
  BY <1>2 DEF OptionQuery
<1>3. QED BY <1>1, <1>2 DEF QueriesOf

(* The queries of one product: of the futures, and of each option product. *)
LEMMA QueriesSplit ==
  ASSUME NEW p, NEW s
  PROVE  /\ QueriesOf(p) = {FuturesQuery(p)} \cup OptionsFor(p, OptionProducts(p))
         /\ FuturesQuery(p) \notin OptionsFor(p, s)
         /\ FuturesQuery(p).class = "1" /\ \A q \in OptionsFor(p, s) : q.class = "2"
<1>1. QueriesOf(p) = {FuturesQuery(p)} \cup OptionsFor(p, OptionProducts(p))
  BY DEF QueriesOf, OptionsFor
<1>2. FuturesQuery(p).class = "1" /\ \A o : OptionQuery(p, o).class = "2"
  BY DEF FuturesQuery, OptionQuery
<1>3. \A q \in OptionsFor(p, s) : q.class = "2"
  BY <1>2 DEF OptionsFor
<1>4. QED BY <1>1, <1>2, <1>3

(* Taking a product off the list takes exactly its queries off.            *)
LEMMA HeadApart ==
  ASSUME NEW S, NEW s \in Seq(S), s # <<>>, PlacesDiffer(s)
  PROVE  /\ PlacesDiffer(Tail(s))
         /\ QueriesFor(s) = QueriesOf(Head(s)) \cup QueriesFor(Tail(s))
         /\ QueriesOf(Head(s)) \cap QueriesFor(Tail(s)) = {}
<1>1. PlacesDiffer(Tail(s))
  <2>1. SUFFICES ASSUME NEW i \in DOMAIN Tail(s), NEW j \in DOMAIN Tail(s),
                        Tail(s)[i].at = Tail(s)[j].at
                 PROVE  i = j
    BY DEF PlacesDiffer
  <2>2. /\ i + 1 \in DOMAIN s /\ j + 1 \in DOMAIN s /\ i \in Nat /\ j \in Nat
        /\ Tail(s)[i] = s[i + 1] /\ Tail(s)[j] = s[j + 1]
    BY TailFacts
  <2>3. i + 1 = j + 1
    BY <2>1, <2>2 DEF PlacesDiffer
  <2>4. QED BY <2>2, <2>3
<1>2. QueriesFor(s) = QueriesOf(Head(s)) \cup QueriesFor(Tail(s))
  BY TailFacts DEF QueriesFor
<1>3. ASSUME NEW q \in QueriesOf(Head(s)), NEW i \in DOMAIN Tail(s), q \in QueriesOf(Tail(s)[i])
      PROVE  FALSE
  <2>1. /\ 1 \in DOMAIN s /\ i + 1 \in DOMAIN s /\ i + 1 # 1
        /\ Head(s) = s[1] /\ Tail(s)[i] = s[i + 1]
    BY TailFacts
  <2>2. s[1].at = s[i + 1].at
    BY <1>3, <2>1, QueryNames
  <2>3. QED BY <2>1, <2>2 DEF PlacesDiffer
<1>4. QueriesOf(Head(s)) \cap QueriesFor(Tail(s)) = {}
  BY <1>3 DEF QueriesFor, ToSet
<1>5. QED BY <1>1, <1>2, <1>4

(* Taking an option product off takes exactly its query off.               *)
LEMMA OptionApart ==
  ASSUME NEW p, NEW S, NEW s \in Seq(S), s # <<>>, AllDiffer(s)
  PROVE  /\ AllDiffer(Tail(s))
         /\ OptionsFor(p, s) = {OptionQuery(p, Head(s))} \cup OptionsFor(p, Tail(s))
         /\ OptionQuery(p, Head(s)) \notin OptionsFor(p, Tail(s))
<1>1. AllDiffer(Tail(s))
  <2>1. SUFFICES ASSUME NEW i \in DOMAIN Tail(s), NEW j \in DOMAIN Tail(s), Tail(s)[i] = Tail(s)[j]
                 PROVE  i = j
    BY DEF AllDiffer
  <2>2. /\ i + 1 \in DOMAIN s /\ j + 1 \in DOMAIN s /\ i \in Nat /\ j \in Nat
        /\ Tail(s)[i] = s[i + 1] /\ Tail(s)[j] = s[j + 1]
    BY TailFacts
  <2>3. i + 1 = j + 1
    BY <2>1, <2>2 DEF AllDiffer
  <2>4. QED BY <2>2, <2>3
<1>2. OptionsFor(p, s) = {OptionQuery(p, Head(s))} \cup OptionsFor(p, Tail(s))
  BY TailFacts DEF OptionsFor
<1>3. ASSUME NEW i \in DOMAIN Tail(s), OptionQuery(p, Head(s)) = OptionQuery(p, Tail(s)[i])
      PROVE  FALSE
  <2>1. /\ 1 \in DOMAIN s /\ i + 1 \in DOMAIN s /\ i + 1 # 1
        /\ Head(s) = s[1] /\ Tail(s)[i] = s[i + 1]
    BY TailFacts
  <2>2. s[1] = s[i + 1]
    BY <1>3, <2>1 DEF OptionQuery
  <2>3. QED BY <2>1, <2>2 DEF AllDiffer
<1>4. OptionQuery(p, Head(s)) \notin OptionsFor(p, Tail(s))
  BY <1>3 DEF OptionsFor, ToSet
<1>5. QED BY <1>1, <1>2, <1>4

(* The entries are those of the configuration, each with its place.        *)
LEMMA EntryFacts ==
  /\ Entries \in Seq(ToSet(Entries)) /\ Len(Entries) \in Nat
  /\ DOMAIN Entries = 1..Len(Entries) /\ PlacesDiffer(Entries)
<1>1. Products \in Seq(ToSet(Products)) /\ Len(Products) \in Nat
  BY ResolverAssumption
<1>2. DOMAIN Products = 1..Len(Products)
  BY <1>1
<1>3. Entries \in [1..Len(Products) -> ToSet(Entries)]
  BY <1>2 DEF Entries, ToSet
<1>4. Entries \in Seq(ToSet(Entries)) /\ Len(Entries) = Len(Products)
  BY <1>1, <1>3
<1>5. PlacesDiffer(Entries)
  BY DEF Entries, PlacesDiffer
<1>6. QED BY <1>1, <1>3, <1>4, <1>5

(* There are finitely many queries, and each costs at most one timeout.    *)
LEMMA QueriesFinite ==
  /\ IsFiniteSet(Queries) /\ RoundCost \in Nat
  /\ \A Q \in SUBSET Queries : IsFiniteSet(Q) /\ Cardinality(Q) \in Nat
<1>1. IsFiniteSet(ToSet(Entries))
  <2>1. Entries \in Surjection(1..Len(Entries), ToSet(Entries))
    BY EntryFacts DEF Surjection, ToSet
  <2>2. IsFiniteSet(1..Len(Entries))
    BY EntryFacts, FS_Interval
  <2>3. QED BY <2>1, <2>2, FS_Surjection
<1>2. \A p : IsFiniteSet(QueriesOf(p))
  <2>1. SUFFICES ASSUME NEW p PROVE IsFiniteSet(QueriesOf(p))
    OBVIOUS
  <2>2. /\ DOMAIN OptionProducts(p) = 1..Len(OptionProducts(p))
        /\ Len(OptionProducts(p)) \in Nat
    BY OptionProductFacts
  <2>3. IsFiniteSet(1..Len(OptionProducts(p)))
    BY <2>2, FS_Interval
  <2> DEFINE f == [i \in 1..Len(OptionProducts(p)) |-> OptionQuery(p, OptionProducts(p)[i])]
  <2>4. f \in Surjection(1..Len(OptionProducts(p)), OptionsFor(p, OptionProducts(p)))
    BY <2>2 DEF Surjection, OptionsFor, ToSet
  <2>5. IsFiniteSet(OptionsFor(p, OptionProducts(p)))
    BY <2>3, <2>4, FS_Surjection
  <2>6. IsFiniteSet(OptionsFor(p, OptionProducts(p)) \cup {FuturesQuery(p)})
    BY <2>5, FS_AddElement
  <2>7. QED BY <2>6, QueriesSplit
<1>3. IsFiniteSet(Queries)
  <2> DEFINE S == {QueriesOf(p) : p \in ToSet(Entries)}
             g == [p \in ToSet(Entries) |-> QueriesOf(p)]
  <2>1. g \in Surjection(ToSet(Entries), S)
    BY DEF Surjection
  <2>2. IsFiniteSet(S)
    BY <1>1, <2>1, FS_Surjection
  <2>3. \A T \in S : IsFiniteSet(T)
    BY <1>2
  <2>4. IsFiniteSet(UNION S)
    BY <2>2, <2>3, FS_UNION
  <2>5. QED BY <2>4 DEF Queries
<1>4. \A Q \in SUBSET Queries : IsFiniteSet(Q) /\ Cardinality(Q) \in Nat
  BY <1>3, FS_Subset, FS_CardinalityType
<1>5. RoundCost \in Nat
  <2>1. Cardinality(Queries) \in Nat
    BY <1>3, FS_CardinalityType
  <2>2. QED BY <2>1, ResolverAssumption DEF RoundCost
<1>6. QED BY <1>3, <1>4, <1>5

-----------------------------------------------------------------------------
(* What one query does to the queries left, the list and the budget        *)

LEMMA LeftAfter ==
  ASSUME todo' \in Seq(ToSet(Entries)), NextProduct(todo')
  PROVE  Left' = QueriesFor(todo') /\ pc' \in {"futures", "decide"}
         /\ (pc' = "futures" => todo' # <<>>)
<1>1. CASE todo' = <<>>
  <2>1. pc' = "decide" /\ QueriesFor(todo') = {}
    BY <1>1 DEF NextProduct, QueriesFor, ToSet
  <2>2. QED BY <2>1 DEF Left
<1>2. CASE todo' # <<>>
  BY <1>2 DEF NextProduct, Left
<1>3. QED BY <1>1, <1>2

LEMMA AtFutures ==
  ASSUME Control, pc = "futures"
  PROVE  /\ todo \in Seq(ToSet(Entries)) /\ todo # <<>> /\ PlacesDiffer(todo)
         /\ Left = QueriesFor(todo)
         /\ Left = QueriesOf(Head(todo)) \cup QueriesFor(Tail(todo))
         /\ QueriesOf(Head(todo)) \cap QueriesFor(Tail(todo)) = {}
         /\ FuturesQuery(Head(todo)) \in QueriesOf(Head(todo))
         /\ FuturesQuery(Head(todo)) \in Left
<1>1. /\ todo \in Seq(ToSet(Entries)) /\ todo # <<>> /\ PlacesDiffer(todo)
      /\ Left = QueriesFor(todo)
  BY DEF Control, TypeOK, Left
<1>2. /\ Left = QueriesOf(Head(todo)) \cup QueriesFor(Tail(todo))
      /\ QueriesOf(Head(todo)) \cap QueriesFor(Tail(todo)) = {}
  BY <1>1, HeadApart
<1>3. FuturesQuery(Head(todo)) \in QueriesOf(Head(todo))
  BY QueriesSplit
<1>4. QED BY <1>1, <1>2, <1>3

LEMMA AtOptions ==
  ASSUME Control, pc = "options"
  PROVE  LET h == Head(todo)  q == OptionQuery(Head(todo), Head(options)) IN
         /\ todo \in Seq(ToSet(Entries)) /\ todo # <<>> /\ PlacesDiffer(todo)
         /\ options \in Seq(ToSet(OptionProducts(h))) /\ options # <<>> /\ AllDiffer(options)
         /\ Left = {q} \cup OptionsFor(h, Tail(options)) \cup QueriesFor(Tail(todo))
         /\ q \notin OptionsFor(h, Tail(options)) /\ q \notin QueriesFor(Tail(todo))
         /\ q \in Left /\ q.class = "2"
<1> DEFINE h == Head(todo)
           q == OptionQuery(Head(todo), Head(options))
<1>1. /\ todo \in Seq(ToSet(Entries)) /\ todo # <<>> /\ PlacesDiffer(todo)
      /\ options \in Seq(ToSet(OptionProducts(h))) /\ options # <<>> /\ AllDiffer(options)
      /\ Left = OptionsFor(h, options) \cup QueriesFor(Tail(todo))
  BY DEF Control, TypeOK, Left
<1>2. /\ OptionsFor(h, options) = {q} \cup OptionsFor(h, Tail(options))
      /\ q \notin OptionsFor(h, Tail(options))
  BY <1>1, OptionApart
<1>3. q \in QueriesOf(h)
  <2>1. Head(options) \in ToSet(OptionProducts(h))
    BY <1>1
  <2>2. QED BY <2>1 DEF QueriesOf
<1>4. q \notin QueriesFor(Tail(todo))
  BY <1>1, <1>3, HeadApart
<1>5. q.class = "2"
  BY DEF OptionQuery
<1>6. QED BY <1>1, <1>2, <1>4, <1>5

LEMMA NextOptionsFacts ==
  ASSUME Control, pc = "options", NextOptions
  PROVE  /\ Left' = Left \ {OptionQuery(Head(todo), Head(options))}
         /\ pc' \in {"futures", "options", "decide"}
         /\ todo' \in Seq(ToSet(Entries)) /\ Len(todo') <= Len(todo) /\ Len(options') <= 2
         /\ pc' \in {"futures", "options"} => todo' # <<>> /\ PlacesDiffer(todo')
         /\ pc' = "options" =>
              /\ options' \in Seq(ToSet(OptionProducts(Head(todo')))) /\ options' # <<>>
              /\ AllDiffer(options')
<1> DEFINE h == Head(todo)
           q == OptionQuery(Head(todo), Head(options))
<1>1. /\ todo \in Seq(ToSet(Entries)) /\ todo # <<>> /\ PlacesDiffer(todo)
      /\ options \in Seq(ToSet(OptionProducts(h))) /\ options # <<>> /\ AllDiffer(options)
      /\ Left = {q} \cup OptionsFor(h, Tail(options)) \cup QueriesFor(Tail(todo))
      /\ q \notin OptionsFor(h, Tail(options)) /\ q \notin QueriesFor(Tail(todo))
  BY AtOptions
<1>2. /\ Tail(todo) \in Seq(ToSet(Entries)) /\ Len(Tail(todo)) = Len(todo) - 1
      /\ Len(todo) \in Nat /\ PlacesDiffer(Tail(todo))
  BY <1>1, TailFacts, HeadApart
<1>3. /\ Tail(options) \in Seq(ToSet(OptionProducts(h)))
      /\ Len(Tail(options)) <= 2 /\ AllDiffer(Tail(options))
  BY <1>1, TailFacts, OptionApart DEF Control, TypeOK
<1>4. CASE options' = <<>>
  <2>1. options' = Tail(options) /\ todo' = Tail(todo) /\ NextProduct(todo')
    BY <1>4 DEF NextOptions
  <2>2. Left' = QueriesFor(todo') /\ pc' \in {"futures", "decide"} /\ (pc' = "futures" => todo' # <<>>)
    BY <1>2, <2>1, LeftAfter
  <2>3. OptionsFor(h, Tail(options)) = {}
    BY <1>4, <2>1 DEF OptionsFor, ToSet
  <2>4. Left' = Left \ {q}
    BY <1>1, <2>1, <2>2, <2>3
  <2>5. QED BY <1>2, <1>3, <2>1, <2>2, <2>4
<1>5. CASE options' # <<>>
  <2>1. options' = Tail(options) /\ pc' = "options" /\ todo' = todo
    BY <1>5 DEF NextOptions
  <2>2. Left' = OptionsFor(h, Tail(options)) \cup QueriesFor(Tail(todo))
    BY <2>1 DEF Left
  <2>3. Left' = Left \ {q}
    BY <1>1, <2>2
  <2>4. QED BY <1>1, <1>2, <1>3, <1>5, <2>1, <2>3
<1>6. QED BY <1>4, <1>5

LEMMA ListingAnswered ==
  ASSUME Listing, pc \in {"futures", "options"}, NEW q \in Left, Left' = Left \ {q},
         instruments' = instruments \cup Answer(q), unanswered' = unanswered
  PROVE  Listing'
<1>1. (Queries \ Left') \ unanswered' = ((Queries \ Left) \ unanswered) \cup {q}
  BY DEF Listing
<1>2. instruments' = UNION {Answer(r) : r \in (Queries \ Left') \ unanswered'}
  BY <1>1 DEF Listing
<1>3. QED BY <1>2 DEF Listing

LEMMA ListingUnanswered ==
  ASSUME Listing, pc \in {"futures", "options"}, NEW D \in SUBSET Left, Left' = Left \ D,
         instruments' = instruments, unanswered' = unanswered \cup D
  PROVE  Listing'
<1>1. (Queries \ Left') \ unanswered' = (Queries \ Left) \ unanswered
  BY DEF Listing
<1>2. instruments' = UNION {Answer(r) : r \in (Queries \ Left') \ unanswered'}
  BY <1>1 DEF Listing
<1>3. QED BY <1>2 DEF Listing

(* Some query is made, and what it takes is paid for by what was set aside *)
(* for it while it was left.                                               *)
LEMMA PaidMove ==
  ASSUME Control, Listing, Paid, pc \in {"futures", "options"},
         pc' \in {"futures", "options", "decide"}, attempt' = attempt, Waits,
         NEW q \in Left, Left' \subseteq Left, q \notin Left'
  PROVE  Paid'
<1> DEFINE n == Cardinality(Left)
           m == Cardinality(Left')
           limit == Budget(attempt) + RoundCost
<1>1. /\ IsFiniteSet(Left) /\ IsFiniteSet(Left') /\ n \in Nat /\ m \in Nat
  BY QueriesFinite, FS_Subset, FS_CardinalityType DEF Listing
<1>2. /\ elapsed \in Nat /\ Timeout \in Nat /\ limit \in Nat /\ elapsed + Timeout * n <= limit
  <2>1. attempt \in Nat /\ Interval \in Nat /\ RoundCost \in Nat /\ MaxRetries \in Nat
    BY ResolverAssumption, QueriesFinite DEF Control, TypeOK
  <2>2. attempt * Interval \in Nat /\ attempt * RoundCost \in Nat
    BY <2>1
  <2>3. Budget(attempt) \in Nat
    BY <2>2 DEF Budget
  <2>4. QED BY <2>1, <2>3, ResolverAssumption DEF Paid, Control, TypeOK
<1>3. m <= n - 1
  <2>1. Left' \in SUBSET (Left \ {q})
    OBVIOUS
  <2>2. IsFiniteSet(Left \ {q}) /\ Cardinality(Left \ {q}) = n - 1
    BY <1>1, FS_RemoveElement
  <2>3. QED BY <2>1, <2>2, FS_Subset
<1>4. elapsed' <= elapsed + Timeout /\ elapsed' \in Nat
  BY <1>2 DEF Waits
<1> HIDE DEF n, m, limit
<1>5. elapsed' + Timeout * m <= limit
  <2>1. Timeout * m <= Timeout * (n - 1) /\ Timeout * (n - 1) = Timeout * n - Timeout
        /\ Timeout * m \in Nat /\ Timeout * n \in Nat
    BY <1>1, <1>2, <1>3
  <2>2. QED BY <1>2, <1>4, <2>1
<1>6. QED BY <1>5 DEF Paid, Budget, m, limit

-----------------------------------------------------------------------------
LEMMA InitResolver == Init => ResolverInv
<1> SUFFICES ASSUME Init PROVE ResolverInv
  OBVIOUS
<1>1. /\ pc = "begin" /\ todo = <<>> /\ options = <<>> /\ instruments = {} /\ option_set = {}
      /\ elapsed = 0 /\ attempt = 0 /\ unanswered = {} /\ pre \in PreLists
      /\ shm \in BOOLEAN /\ registered \in BOOLEAN /\ any_failed \in BOOLEAN
  BY Zenon DEF Init
<1>2. Len(todo) = 0 /\ Len(options) = 0 /\ Len(Entries) \in Nat
  BY <1>1, EntryFacts
<1>3. Control
  BY <1>1, <1>2, ResolverAssumption DEF Control, TypeOK
<1>4. Listing /\ Classified /\ Paid
  BY <1>1 DEF Listing, Left, Asked, Classified, Paid
<1>5. QED BY <1>3, <1>4 DEF ResolverInv

(* Steps before and between the rounds.                                    *)
LEMMA OutsideRound ==
  ASSUME ResolverInv,
         NothingToAsk \/ UsePreResolved \/ AskStaticData \/ BeginRound \/ Succeed \/ Retry
  PROVE  ResolverInv'
<1> USE DEF ResolverInv
<1>0. /\ MaxRetries \in Nat /\ Interval \in Nat /\ Timeout \in Nat /\ RoundCost \in Nat
      /\ attempt \in Nat /\ elapsed \in Nat
  BY ResolverAssumption, QueriesFinite DEF Control, TypeOK
<1>1. StartupBounded <=> elapsed <= MaxRetries * Interval + (MaxRetries + 1) * RoundCost
  BY DEF StartupBounded
<1>2. CASE NothingToAsk
  <2>1. Paid'
    <3>1. elapsed' = 0 /\ pc' = "done"
      BY <1>2 DEF NothingToAsk, Control
    <3>2. MaxRetries * Interval \in Nat /\ (MaxRetries + 1) * RoundCost \in Nat
      BY <1>0
    <3>3. QED BY <3>1, <3>2 DEF Paid, StartupBounded
  <2>2. QED
    BY <1>2, <2>1
    DEF NothingToAsk, modeVars, resultVars, Control, TypeOK, Listing, Left, Classified, Asks, Asked
<1>3. CASE UsePreResolved
  <2>1. Paid'
    <3>1. elapsed' = 0 /\ pc' = "done"
      BY <1>3 DEF UsePreResolved, Control
    <3>2. MaxRetries * Interval \in Nat /\ (MaxRetries + 1) * RoundCost \in Nat
      BY <1>0
    <3>3. QED BY <3>1, <3>2 DEF Paid, StartupBounded
  <2>2. Listing' /\ Classified'
    BY <1>3 DEF UsePreResolved, modeVars, Listing, Left, Classified, Asks, Asked
  <2>3. QED
    BY <1>3, <2>1, <2>2 DEF UsePreResolved, modeVars, Control, TypeOK, Asks
<1>4. CASE AskStaticData
  <2>1. Paid'
    <3>1. elapsed' = 0 /\ attempt' = 0 /\ pc' = "round"
      BY <1>4 DEF AskStaticData, Control
    <3>2. Budget(0) = 0
      BY <1>0 DEF Budget
    <3>3. QED BY <3>1, <3>2 DEF Paid
  <2>2. Listing' /\ Classified'
    BY <1>4 DEF AskStaticData, modeVars, Listing, Left, Classified, Asks, Asked
  <2>3. QED
    BY <1>4, <2>1, <2>2 DEF AskStaticData, modeVars, Control, TypeOK, Asks
<1>5. CASE BeginRound
  <2>1. /\ todo' = Entries /\ Entries \in Seq(ToSet(Entries)) /\ NextProduct(todo')
        /\ pc = "round" /\ instruments' = {} /\ unanswered' = {} /\ any_failed' = FALSE
        /\ UNCHANGED <<modeVars, attempt, options, option_set, elapsed>>
    BY <1>5, EntryFacts DEF BeginRound
  <2>2. /\ Left' = QueriesFor(Entries) /\ pc' \in {"futures", "decide"}
        /\ (pc' = "futures" => todo' # <<>>)
    BY <2>1, LeftAfter
  <2>3. QueriesFor(Entries) = Queries
    BY DEF QueriesFor, Queries
  <2>4. Control'
    <3>1. PlacesDiffer(Entries) /\ Len(Entries) \in Nat
      BY EntryFacts
    <3>2. any_failed' \in BOOLEAN
      BY <2>1, Zenon
    <3>3. QED BY <2>1, <2>2, <3>1, <3>2 DEF modeVars, Control, TypeOK, Asks
  <2>5. Listing'
    BY <2>1, <2>2, <2>3 DEF Listing
  <2>6. Classified'
    BY <2>1 DEF modeVars, Classified, Asks
  <2>7. Paid'
    <3>2. Timeout * Cardinality(Left') = RoundCost
      BY <2>2, <2>3 DEF RoundCost
    <3>3. attempt * Interval \in Nat /\ attempt * RoundCost \in Nat
      BY <1>0
    <3>4. elapsed' <= Budget(attempt) /\ Budget(attempt) \in Nat
      BY <2>1, <3>3 DEF Paid, Budget
    <3>5. elapsed' + RoundCost <= Budget(attempt) + RoundCost
      BY <1>0, <2>1, <3>4
    <3>6. QED BY <2>1, <2>2, <3>2, <3>5 DEF Paid, Budget
  <2>8. QED BY <2>4, <2>5, <2>6, <2>7
<1>6. ASSUME pc = "decide"
      PROVE  /\ elapsed <= attempt * Interval + (attempt + 1) * RoundCost
             /\ attempt <= MaxRetries
  <2>1. Cardinality(Left) \in Nat
    BY QueriesFinite DEF Listing
  <2>2. Timeout * Cardinality(Left) \in Nat /\ attempt * Interval \in Nat
        /\ attempt * RoundCost \in Nat /\ (attempt + 1) * RoundCost = attempt * RoundCost + RoundCost
    BY <1>0, <2>1
  <2>3. elapsed + Timeout * Cardinality(Left) <= Budget(attempt) + RoundCost
    BY <1>6 DEF Paid
  <2>4. Budget(attempt) = attempt * Interval + attempt * RoundCost
    BY DEF Budget
  <2> DEFINE t == Timeout * Cardinality(Left)
             a == attempt * Interval
             b == attempt * RoundCost
             c == (attempt + 1) * RoundCost
  <2>5. /\ t \in Nat /\ a \in Nat /\ b \in Nat /\ c = b + RoundCost
        /\ elapsed + t <= a + b + RoundCost
    BY <2>2, <2>3, <2>4
  <2> HIDE DEF t, a, b, c
  <2>6. elapsed <= a + c
    BY <1>0, <2>5
  <2>7. QED BY <1>6, <2>6 DEF a, c, Control
<1>7. \A n \in 0..MaxRetries :
        n * Interval + (n + 1) * RoundCost <= MaxRetries * Interval + (MaxRetries + 1) * RoundCost
  <2>1. SUFFICES ASSUME NEW n \in 0..MaxRetries
                 PROVE  /\ n * Interval <= MaxRetries * Interval
                        /\ (n + 1) * RoundCost <= (MaxRetries + 1) * RoundCost
                        /\ n * Interval \in Nat /\ MaxRetries * Interval \in Nat
                        /\ (n + 1) * RoundCost \in Nat /\ (MaxRetries + 1) * RoundCost \in Nat
    <3>1. \A a, b, c, d \in Nat : a <= b /\ c <= d => a + c <= b + d
      OBVIOUS
    <3>2. QED BY <3>1
  <2>2. n <= MaxRetries /\ n \in Nat /\ n + 1 \in Nat /\ MaxRetries + 1 \in Nat /\ n + 1 <= MaxRetries + 1
    BY <1>0
  <2>3. \A a, b, c \in Nat : a <= b => a * c <= b * c /\ a * c \in Nat /\ b * c \in Nat
    OBVIOUS
  <2>4. QED BY <1>0, <2>2, <2>3
<1>8. CASE Succeed
  <2>1. /\ pc = "decide" /\ pc' = "done"
        /\ UNCHANGED <<modeVars, attempt, any_failed, todo, options, resultVars, elapsed, unanswered>>
    BY <1>8 DEF Succeed
  <2>2. Paid'
    <3>1. attempt \in 0..MaxRetries /\ elapsed' <= attempt * Interval + (attempt + 1) * RoundCost
      BY <1>0, <1>6, <2>1
    <3>2. \A n \in Nat : n * Interval \in Nat /\ n * RoundCost \in Nat
      BY <1>0
    <3>3. \A a, b, c \in Int : a <= b /\ b <= c => a <= c
      OBVIOUS
    <3>4. elapsed' <= MaxRetries * Interval + (MaxRetries + 1) * RoundCost
      BY <1>0, <1>7, <2>1, <3>1, <3>2, <3>3
    <3>5. QED BY <2>1, <3>4 DEF Paid, StartupBounded
  <2>3. Listing'
    BY <2>1 DEF resultVars, Listing, Left
  <2>4. QED
    BY <2>1, <2>2, <2>3
    DEF modeVars, resultVars, Control, TypeOK, Classified, Asks
<1>9. CASE Retry
  <2>1. /\ pc = "decide" /\ pc' = Another /\ attempt' = attempt + 1
        /\ elapsed' = IF any_failed /\ attempt < MaxRetries THEN elapsed + Interval ELSE elapsed
        /\ UNCHANGED <<modeVars, any_failed, todo, options, resultVars, unanswered>>
    BY <1>9 DEF Retry
  <2>2. /\ attempt \in 0..MaxRetries
        /\ elapsed <= attempt * Interval + (attempt + 1) * RoundCost
    BY <1>0, <1>6, <2>1
  <2>3. elapsed' \in Nat /\ attempt' \in 0..(MaxRetries + 1)
    BY <1>0, <2>1, <2>2
  <2>4. CASE attempt < MaxRetries
    <3>1. pc' = "round" /\ elapsed' <= elapsed + Interval
      BY <1>0, <2>1, <2>4 DEF Another
    <3>2. Budget(attempt + 1) = attempt * Interval + Interval + (attempt + 1) * RoundCost
      BY <1>0 DEF Budget
    <3> DEFINE a == attempt * Interval
               c == (attempt + 1) * RoundCost
    <3>3. /\ a \in Nat /\ c \in Nat /\ elapsed <= a + c
          /\ Budget(attempt + 1) = a + Interval + c
      BY <1>0, <2>2, <3>2
    <3> HIDE DEF a, c
    <3>4. elapsed' <= Budget(attempt + 1)
      BY <1>0, <2>3, <3>1, <3>3
    <3>5. Paid'
      BY <2>1, <3>1, <3>4 DEF Paid, Budget
    <3>6. Listing'
      BY <2>1, <3>1 DEF resultVars, Listing, Left, Asked
    <3>7. attempt' \in 0..(MaxRetries + 1) /\ attempt' <= MaxRetries
      BY <1>0, <2>1, <2>2, <2>4
    <3>8. Control'
      BY <2>1, <2>3, <3>1, <3>7 DEF modeVars, resultVars, Control, TypeOK, Asks
    <3>9. QED BY <2>1, <3>5, <3>6, <3>8 DEF modeVars, resultVars, Classified, Asks
  <2>5. CASE ~(attempt < MaxRetries)
    <3>1. pc' = "done" /\ elapsed' = elapsed
      BY <2>1, <2>5 DEF Another
    <3>2. attempt = MaxRetries
      BY <1>0, <2>2, <2>5
    <3>3. Paid'
      BY <2>2, <3>1, <3>2 DEF Paid, StartupBounded
    <3>4. Listing'
      BY <2>1, <3>1 DEF resultVars, Listing, Left
    <3>5. QED
      BY <2>1, <2>3, <3>1, <3>3, <3>4
      DEF modeVars, resultVars, Control, TypeOK, Classified, Asks
  <2>6. QED BY <2>4, <2>5
<1>10. QED BY <1>2, <1>3, <1>4, <1>5, <1>8, <1>9

(* Queries and their answers.                                              *)
LEMMA InsideRound == ASSUME ResolverInv, Query PROVE ResolverInv'
<1> USE DEF ResolverInv
<1>0. elapsed \in Nat /\ Timeout \in Nat /\ unanswered \subseteq Queries /\ Left \subseteq Queries
  BY ResolverAssumption DEF Control, TypeOK, Listing
<1>1. \A q : Answer(q) \subseteq Listed /\ \A k \in Answer(q) : k.class = q.class
  BY DEF Answer
<1>2. CASE pc = "futures"
  <2> DEFINE h == Head(todo)
             q == FuturesQuery(Head(todo))
  <2>1. /\ todo \in Seq(ToSet(Entries)) /\ todo # <<>> /\ PlacesDiffer(todo)
        /\ Left = QueriesFor(todo) /\ Left = QueriesOf(h) \cup QueriesFor(Tail(todo))
        /\ QueriesOf(h) \cap QueriesFor(Tail(todo)) = {} /\ q \in Left
        /\ q \in QueriesOf(h)
    BY <1>2, AtFutures
  <2>2. /\ QueriesOf(h) = {q} \cup OptionsFor(h, OptionProducts(h))
        /\ q \notin OptionsFor(h, OptionProducts(h)) /\ q.class = "1"
    BY QueriesSplit
  <2>3. /\ OptionProducts(h) \in Seq(ToSet(OptionProducts(h))) /\ OptionProducts(h) # <<>>
        /\ Len(OptionProducts(h)) <= 2 /\ AllDiffer(OptionProducts(h))
    BY OptionProductFacts
  <2>4. /\ Tail(todo) \in Seq(ToSet(Entries)) /\ Len(Tail(todo)) = Len(todo) - 1
        /\ Len(todo) \in Nat /\ PlacesDiffer(Tail(todo))
    BY <2>1, TailFacts, HeadApart
  <2>5. CASE FuturesAnswered \/ FuturesThrows
    <3>1. /\ pc' = "options" /\ options' = OptionProducts(h)
          /\ UNCHANGED <<modeVars, attempt, any_failed, todo, option_set>> /\ Waits
      BY <2>5 DEF FuturesAnswered, FuturesThrows, resultVars
    <3>2. Left' = OptionsFor(h, OptionProducts(h)) \cup QueriesFor(Tail(todo))
      BY <3>1 DEF Left
    <3>3. Left' = Left \ {q}
      BY <2>1, <2>2, <3>2
    <3>4. \/ instruments' = instruments \cup Answer(q) /\ unanswered' = unanswered
          \/ instruments' = instruments /\ unanswered' = unanswered \cup {q}
      BY <2>5 DEF FuturesAnswered, FuturesThrows, resultVars
    <3>5. Listing'
      <4>1. Listing /\ pc \in {"futures", "options"} /\ q \in Left /\ {q} \in SUBSET Left
        BY <1>2, <2>1
      <4> HIDE DEF q
      <4>2. CASE instruments' = instruments \cup Answer(q) /\ unanswered' = unanswered
        BY <3>3, <4>1, <4>2, ListingAnswered
      <4>3. CASE instruments' = instruments /\ unanswered' = unanswered \cup {q}
        BY <3>3, <4>1, <4>3, ListingUnanswered
      <4>4. QED BY <3>4, <4>2, <4>3
    <3>6. Paid'
      BY <1>2, <2>1, <3>1, <3>3, PaidMove
    <3>7. Classified'
      BY <1>1, <2>2, <3>1, <3>4 DEF modeVars, Classified, Asks
    <3>8. /\ instruments' \subseteq Listed \cup pre /\ unanswered' \subseteq Queries
          /\ elapsed' \in Nat
      BY <1>0, <1>1, <2>1, <3>1, <3>4 DEF Control, TypeOK, Waits
    <3>9. Control'
      BY <1>2, <2>1, <2>3, <3>1, <3>8 DEF modeVars, Control, TypeOK, Asks
    <3>10. QED BY <3>5, <3>6, <3>7, <3>9
  <2>6. CASE FuturesNotReady
    <3>1. /\ pc' = "decide" /\ any_failed' = TRUE /\ Waits
          /\ unanswered' = unanswered \cup QueriesFor(todo)
          /\ UNCHANGED <<modeVars, attempt, todo, options, resultVars>>
      BY <2>6 DEF FuturesNotReady, QueriesFor
    <3>2. Left' = {} /\ Left' = Left \ Left
      BY <3>1 DEF Left
    <3>3. Listing'
      BY <1>2, <2>1, <3>1, <3>2, ListingUnanswered DEF resultVars
    <3>4. Paid'
      BY <1>2, <2>1, <3>1, <3>2, PaidMove
    <3>5. any_failed' \in BOOLEAN
      BY <3>1, Zenon
    <3>6. elapsed' \in Nat /\ unanswered' \subseteq Queries
      <4>1. elapsed' \in Nat
        BY <1>0, <3>1 DEF Waits
      <4>2. QueriesFor(todo) \subseteq Queries
        BY <1>0, <2>1
      <4>3. QED BY <1>0, <3>1, <4>1, <4>2
    <3>7. Control'
      BY <1>2, <3>1, <3>5, <3>6 DEF modeVars, resultVars, Control, TypeOK, Asks
    <3>8. QED BY <3>1, <3>3, <3>4, <3>7 DEF modeVars, resultVars, Classified, Asks
  <2>7. CASE FuturesError
    <3>1. /\ unanswered' = unanswered \cup QueriesOf(h) /\ todo' = Tail(todo) /\ NextProduct(todo')
          /\ UNCHANGED <<modeVars, attempt, any_failed, options, resultVars>> /\ Waits
      BY <2>7 DEF FuturesError
    <3>2. Left' = QueriesFor(todo') /\ pc' \in {"futures", "decide"} /\ (pc' = "futures" => todo' # <<>>)
      BY <2>4, <3>1, LeftAfter
    <3>3. Left' = Left \ QueriesOf(h) /\ QueriesOf(h) \in SUBSET Left
      BY <2>1, <3>1, <3>2
    <3>4. Listing'
      BY <1>2, <3>1, <3>3, ListingUnanswered DEF resultVars
    <3>5. Paid'
      BY <1>2, <2>1, <3>1, <3>2, <3>3, PaidMove
    <3>6. unanswered' \subseteq Queries /\ elapsed' \in Nat
      BY <1>0, <3>1, <3>3 DEF Waits
    <3>7. Control'
      BY <1>2, <2>4, <3>1, <3>2, <3>6 DEF modeVars, resultVars, Control, TypeOK, Asks
    <3>8. QED BY <3>1, <3>4, <3>5, <3>7 DEF modeVars, resultVars, Classified, Asks
  <2>8. QED
    BY <1>2, <2>5, <2>6, <2>7 DEF Query, OptionsAnswered, OptionsFail
<1>3. CASE pc = "options"
  <2> DEFINE h == Head(todo)
             q == OptionQuery(Head(todo), Head(options))
  <2>1. q \in Left /\ q.class = "2"
    BY <1>3, AtOptions
  <2>2. /\ NextOptions /\ UNCHANGED <<modeVars, attempt, any_failed>> /\ Waits
        /\ \/ /\ instruments' = instruments \cup Answer(q) /\ unanswered' = unanswered
              /\ option_set' = option_set \cup Answer(q)
           \/ /\ instruments' = instruments /\ unanswered' = unanswered \cup {q}
              /\ option_set' = option_set
    BY <1>3 DEF Query, FuturesAnswered, FuturesNotReady, FuturesError, FuturesThrows,
                OptionsAnswered, OptionsFail, resultVars
  <2>3. /\ Left' = Left \ {q} /\ pc' \in {"futures", "options", "decide"}
        /\ todo' \in Seq(ToSet(Entries)) /\ Len(todo') <= Len(todo) /\ Len(options') <= 2
        /\ pc' \in {"futures", "options"} => todo' # <<>> /\ PlacesDiffer(todo')
        /\ pc' = "options" =>
              /\ options' \in Seq(ToSet(OptionProducts(Head(todo')))) /\ options' # <<>>
              /\ AllDiffer(options')
    BY <1>3, <2>2, NextOptionsFacts
  <2>4. Listing'
    BY <1>3, <2>1, <2>2, <2>3, ListingAnswered, ListingUnanswered, ZenonT(60)
  <2>5. Paid'
    BY <1>3, <2>1, <2>2, <2>3, PaidMove
  <2>6. Classified'
    BY <1>1, <2>1, <2>2 DEF modeVars, Classified, Asks
  <2>7. /\ instruments' \subseteq Listed \cup pre /\ option_set' \subseteq Listed \cup PreOptions
        /\ unanswered' \subseteq Queries /\ elapsed' \in Nat
    BY <1>0, <1>1, <2>1, <2>2 DEF Control, TypeOK, Waits
  <2>8. Len(todo') <= Len(Entries)
    <3>1. Len(todo') \in Nat /\ Len(todo) \in Nat /\ Len(Entries) \in Nat /\ Len(todo) <= Len(Entries)
      BY <2>3, EntryFacts DEF Control, TypeOK
    <3>2. QED BY <2>3, <3>1
  <2>9. Control'
    BY <1>3, <2>2, <2>3, <2>7, <2>8 DEF modeVars, Control, TypeOK, Asks
  <2>10. QED BY <2>4, <2>5, <2>6, <2>9
<1>4. pc \in {"futures", "options"}
  BY DEF Query, FuturesAnswered, FuturesNotReady, FuturesError, FuturesThrows,
         OptionsAnswered, OptionsFail
<1>5. QED BY <1>2, <1>3, <1>4

LEMMA NextResolver == ResolverInv /\ [Next]_vars => ResolverInv'
<1> SUFFICES ASSUME ResolverInv, [Next]_vars PROVE ResolverInv'
  OBVIOUS
<1>1. CASE Step
  BY <1>1, OutsideRound, InsideRound DEF Step
<1>2. CASE UNCHANGED vars
  <2>1. UNCHANGED <<pc, modeVars, attempt, any_failed, todo, options, resultVars, elapsed, unanswered>>
    BY <1>2 DEF vars
  <2>2. UNCHANGED <<pc, shm, registered, pre, attempt, any_failed, todo, options, instruments,
                    option_set, elapsed, unanswered>>
    BY <2>1 DEF modeVars, resultVars
  <2>3. Left' = Left
    BY <2>2 DEF Left
  <2>4. Listing' /\ Classified' /\ Paid'
    BY <2>2, <2>3 DEF ResolverInv, Listing, Classified, Paid, Asks, Asked, StartupBounded
  <2>5. Control'
    BY <2>2 DEF ResolverInv, Control, TypeOK, Asks
  <2>6. QED BY <2>4, <2>5 DEF ResolverInv
<1>3. QED BY <1>1, <1>2 DEF Next, Terminated

(* The inductive invariant holds in every reachable state.                 *)
THEOREM ResolverInvariant == Spec => []ResolverInv
BY InitResolver, NextResolver, PTL DEF Spec

(* The round's state is well typed, and rounds are numbered to the last.   *)
THEOREM ResolverTypeCorrect == Spec => []TypeOK
<1>1. ResolverInv => TypeOK
  BY DEF ResolverInv, Control
<1>2. QED BY ResolverInvariant, <1>1, PTL

(* The list is that of the last round, whatever failed in it or before it. *)
THEOREM ListIsOfLastRound == Spec => []ListOfLastRound
<1>1. ResolverInv => ListOfLastRound
  BY DEF ResolverInv, Listing, Left, Asked, ListOfLastRound
<1>2. QED BY ResolverInvariant, <1>1, PTL

(* Options are told from futures by option_instrument_set_, although it is *)
(* not cleared between rounds.                                             *)
THEOREM OptionsAreClassified == Spec => []OptionsClassified
<1>1. ResolverInv => OptionsClassified
  BY DEF ResolverInv, Classified, Asked, OptionsClassified
<1>2. QED BY ResolverInvariant, <1>1, PTL

(* start() is held up for the pauses and, in each round, one timeout for   *)
(* each query, futures and options, and no longer.                         *)
THEOREM StartupIsBounded == Spec => []StartupBounded
<1>1. ResolverInv => StartupBounded
  <2> SUFFICES ASSUME ResolverInv PROVE StartupBounded
    OBVIOUS
  <2> USE DEF ResolverInv
  <2>1. /\ MaxRetries \in Nat /\ Interval \in Nat /\ Timeout \in Nat /\ RoundCost \in Nat
        /\ attempt \in Nat /\ elapsed \in Nat /\ (pc # "done" => attempt <= MaxRetries)
        /\ Cardinality(Left) \in Nat
    BY ResolverAssumption, QueriesFinite DEF Control, TypeOK, Listing
  <2>2. \A a, b, c \in Nat : a <= b => a * c <= b * c /\ a * c \in Nat /\ b * c \in Nat
    OBVIOUS
  <2> DEFINE t == Timeout * Cardinality(Left)
             a == attempt * Interval
             b == attempt * RoundCost
             A == MaxRetries * Interval
             B == MaxRetries * RoundCost
  <2>3. /\ t \in Nat /\ a \in Nat /\ b \in Nat /\ A \in Nat /\ B \in Nat
        /\ (pc # "done" => a <= A /\ b <= B)
        /\ (MaxRetries + 1) * RoundCost = B + RoundCost /\ Budget(attempt) = a + b
    BY <2>1, <2>2 DEF Budget
  <2>4. /\ pc = "round" => elapsed <= a + b
        /\ pc \in {"futures", "options", "decide"} => elapsed + t <= a + b + RoundCost
    BY <2>3 DEF Paid
  <2>5. pc = "begin" => elapsed = 0
    BY DEF Control
  <2>6. StartupBounded <=> elapsed <= A + (B + RoundCost)
    BY <2>3 DEF StartupBounded
  <2> HIDE DEF t, a, b, A, B
  <2>7. CASE pc = "done"
    BY <2>7 DEF Paid
  <2>8. CASE pc # "done"
    <3>1. pc \in {"begin", "round"} \cup {"futures", "options", "decide"}
      BY <2>8 DEF Control, TypeOK
    <3>2. elapsed <= A + (B + RoundCost)
      BY <2>1, <2>3, <2>4, <2>5, <2>8, <3>1
    <3>3. QED BY <2>6, <3>2
  <2>9. QED BY <2>7, <2>8
<1>2. QED BY ResolverInvariant, <1>1, PTL
=============================================================================
