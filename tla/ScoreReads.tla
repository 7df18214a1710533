------------------------------ MODULE ScoreReads ------------------------------
(***************************************************************************)
(* ScoreReads: a client of the API reads a list page by page while         *)
(* pipeline runs and the stream worker insert into its table.  Lists:      *)
(* /scores and /alerts (get_latest_scores), /rings (get_wash_rings),       *)
(* /path-payments/circular (get_circular_routes).  Each request is a query *)
(* of its own, with LIMIT and OFFSET; nothing ties one page to the next.   *)
(* The client is assumed: it asks for the next page as long as pages are   *)
(* full, each time with the offset moved on by its page size.              *)
(***************************************************************************)
EXTENDS Integers, FiniteSets, Sequences, SequencesExt

CONSTANTS
    Keys,          \* what rows are about: (wallet, pair), a ring, a route
    ScoreValues,   \* scores and confidences, a set of numbers
    Floors,        \* values of min_score; 0 is no filter
    Limit,         \* the page size the client asks for
    MaxPending,    \* bound: timestamps taken and not inserted yet
    MaxRows        \* bound: rows written

ASSUME ReadsAssumption ==
    /\ IsFiniteSet(Keys)
    /\ ScoreValues \subseteq Nat
    /\ Floors \subseteq Nat
    /\ Limit \in Nat \ {0}
    /\ MaxPending \in Nat
    /\ MaxRows \in Nat

VARIABLES
    list,       \* the list the client reads, and the table written here
    query,      \* its parameters: sort_by, min_score
    pending,    \* rows that runs have made, each with its timestamp
    rows,       \* the table, in the order of insertion
    clock,      \* the next timestamp
    walk,       \* the client: "idle", "walking", "ended"
    offset,     \* of the next page
    got,        \* what the pages held
    disturbed,  \* history: rows were inserted during the walk
    steady      \* history: entries the list has had since the walk began

table == <<pending, rows, clock>>
client == <<walk, offset, got>>
history == <<disturbed, steady>>
readVars == <<list, query, table, client, history>>

Row == [key : Keys, score : ScoreValues \cup {0}, confidence : ScoreValues \cup {0}, at : 1..MaxRows]
Query == [sort : {"score", "confidence", "timestamp"}, floor : Floors]

ReadsInit ==
    /\ list \in {"scores", "rings", "routes"}
    /\ query \in Query
    /\ list = "rings" => query.sort = "score"
    /\ list = "routes" => query.sort = "timestamp" /\ query.floor = 0
    /\ pending = {}
    /\ rows = <<>>
    /\ clock = 1
    /\ walk = "idle"
    /\ offset = 0
    /\ got = <<>>
    /\ disturbed = FALSE
    /\ steady = {}

-----------------------------------------------------------------------------
Stored == {rows[i] : i \in DOMAIN rows}

\* Mutation: the row inserted last counts as the latest.
LastInserted ==
    {rows[i] : i \in {j \in DOMAIN rows : \A k \in DOMAIN rows : rows[k].key = rows[j].key => k <= j}}
\* The join with MAX(timestamp) per wallet and pair.
Latest == {r \in Stored : \A q \in Stored : q.key = r.key => q.at <= r.at}

\* The rings of the latest run, filtered in SQL.
LatestRings ==
    {r \in Stored : r.score >= query.floor /\ \A q \in Stored : q.at <= r.at}

\* Rows that compare equal come in some order the table decides: here, that of
\* insertion.
Position(r) == CHOOSE i \in DOMAIN rows : rows[i] = r
\* A set as a sequence, given for each member the set of those ahead of it: the
\* n-th is the one that has n - 1 ahead.
InOrder(set, ahead) ==
    [n \in 1..Cardinality(set) |-> CHOOSE e \in set : Cardinality(ahead[e]) = n - 1]

\* Mutation: ORDER BY column, without DESC.
AheadAscending(entries, column) ==
    [q \in entries |->
        {r \in entries : \/ r[column] < q[column]
                         \/ r[column] = q[column] /\ Position(r) < Position(q)}]
\* ORDER BY column DESC
Ahead(entries, column) ==
    [q \in entries |->
        {r \in entries : \/ r[column] > q[column]
                         \/ r[column] = q[column] /\ Position(r) < Position(q)}]
Sorted(entries, column) == InOrder(entries, Ahead(entries, column))

\* What a query selects, and the column it sorts by.
Listed ==
    CASE list = "scores" -> Latest
      [] list = "rings" -> LatestRings
      [] list = "routes" -> Stored
Column == IF query.sort = "timestamp" THEN "at" ELSE query.sort

\* The list a query sees, before LIMIT and OFFSET.
View == Sorted(Listed, Column)
Entries == {View[i] : i \in DOMAIN View}

\* list_scores and alerts drop what is below min_score, or the threshold, from
\* the page they have read.
Passing(page) == {i \in DOMAIN page : page[i].score >= query.floor}
Filtered(page) ==
    LET order == InOrder(Passing(page), [i \in Passing(page) |-> {j \in Passing(page) : j < i}])
    IN  [n \in DOMAIN order |-> page[order[n]]]

\* LIMIT and OFFSET.
PageRead ==
    SubSeq(View, offset + 1, IF offset + Limit < Len(View) THEN offset + Limit ELSE Len(View))

-----------------------------------------------------------------------------
\* Scores and confidences are told apart where the query sorts or filters by them.
Scores == IF query.sort = "score" \/ query.floor > 0 THEN ScoreValues ELSE {0}
Confidences == IF query.sort = "confidence" THEN ScoreValues ELSE {0}

\* A run takes the time of its rows: RiskScore.combine for each score, the save
\* of a report once for all its rows.  What happens after the walk does not
\* matter to it.
Stamp ==
    /\ walk # "ended"
    /\ clock <= MaxRows
    /\ Cardinality({r.at : r \in pending}) < MaxPending
    /\ \E about \in (SUBSET Keys) \ {{}} :
       \E score \in [about -> Scores], confidence \in [about -> Confidences] :
          /\ list = "scores" => Cardinality(about) = 1
          /\ Len(rows) + Cardinality(pending) + Cardinality(about) <= MaxRows
          /\ pending' = pending \cup
               {[key |-> k, score |-> score[k], confidence |-> confidence[k], at |-> clock] :
                  k \in about}
    /\ clock' = clock + 1
    /\ UNCHANGED <<list, query, rows, client, history>>

\* The transaction of a save, which may come after those of later timestamps: a
\* whole report, or a score (a save of several is as many saves of one that no
\* request comes between).
Insert ==
    /\ walk # "ended"
    /\ \E moment \in {r.at : r \in pending} :
        LET batch == {r \in pending : r.at = moment} IN
        /\ pending' = pending \ batch
        /\ \E inserted \in SetToSeqs(batch) : rows' = rows \o inserted
        /\ UNCHANGED <<list, query, clock, client>>
        /\ disturbed' = (disturbed \/ walk # "idle")
        /\ steady' = steady \cap Entries'

\* The client begins a walk.
Begin ==
    /\ walk = "idle"
    /\ walk' = "walking"
    /\ steady' = Entries
    /\ UNCHANGED <<list, query, table, offset, got, disturbed>>

\* One request: the page that list_scores, alerts, wash_rings or the routes'
\* handler returns.  A page that is not full is the last one the client asks for.
ReadPage ==
    LET page == IF list = "scores" THEN Filtered(PageRead) ELSE PageRead
    IN  /\ walk = "walking"
        /\ got' = got \o page
        /\ offset' = offset + Limit
        /\ walk' = IF Len(page) < Limit THEN "ended" ELSE "walking"
        /\ UNCHANGED <<list, query, table, history>>

ReadsNext == Stamp \/ Insert \/ Begin \/ ReadPage

ReadsSpec == ReadsInit /\ [][ReadsNext]_readVars

-----------------------------------------------------------------------------
Read == {got[i] : i \in DOMAIN got}

\* How far into the list the pages have come.
Reached == IF offset < Len(View) THEN offset ELSE Len(View)

\* A walk during which nothing was inserted has read what passes the filter of
\* as much of the list as its pages have come through, each entry once and in
\* order.  That is all of the list, although min_score is applied to the pages
\* of /scores only after LIMIT and OFFSET, if they are sorted by score: what is
\* dropped then comes last, so the first page that is not full is the last one
\* that matters.  (Sorted by another column it need not be all.)
WalkIsExact ==
    walk = "ended" /\ ~disturbed =>
        /\ got = Filtered(SubSeq(View, 1, Reached))
        /\ (list = "scores" /\ query.floor > 0 => query.sort = "score") => got = Filtered(View)

\* A walk through the scores by time, or through the routes, misses nothing that
\* was in the list all the while, whatever is inserted between two pages, also
\* rows that were made before others but inserted later: a row that replaces
\* another comes before it, so the others only ever move towards the end.
NoneSkipped ==
    walk = "ended" /\ query = [sort |-> "timestamp", floor |-> 0] =>
        steady \subseteq Read
=============================================================================
