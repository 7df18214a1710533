----------------------------- MODULE Paging_proofs -----------------------------
(***************************************************************************)
(* Theorems about the two components that read page by page: HorizonClient *)
(* with a cursor, for any accounts, trades, page size, number of retries   *)
(* and semaphore; ScoreReads with an offset, for any rows, page size and   *)
(* min_score.                                                              *)
(***************************************************************************)
EXTENDS HorizonClient, ScoreReads, TLAPS, FiniteSetTheorems, FunctionTheorems

(***************************************************************************)
(* HorizonClient                                                           *)
(***************************************************************************)

\* What a step may be; the proofs below follow this list.
LEMMA StepCases ==
    ASSUME [Next]_vars
    PROVE  \/ Trading \/ Start \/ PageArrives \/ Proceed \/ Raise
           \/ \E r \in Request :
                 Call(r) \/ Send(r) \/ TryFails(r) \/ Retry(r) \/ Refuse(r)
                 \/ Answer(r) \/ Cancel(r)
           \/ UNCHANGED vars
  BY DEF Next, Step

\* The request for the trades is none of the others, and there are finitely many.
LEMMA Requests ==
    /\ <<"trades">> \in Request
    /\ <<"events">> \in Request /\ <<"events">> # <<"trades">>
    /\ \A a \in Accounts : /\ <<"metadata", a>> \in Request
                           /\ <<"payments", a>> \in Request
                           /\ <<"metadata", a>> # <<"trades">>
                           /\ <<"payments", a>> # <<"trades">>
    /\ IsFiniteSet(Request)
<1>1. IsFiniteSet({"metadata", "payments"}) /\ IsFiniteSet({<<"trades">>, <<"events">>})
  <2>1. ASSUME NEW x, NEW y PROVE IsFiniteSet({x, y})
    <3>1. IsFiniteSet({x})
      BY FS_Singleton
    <3>2. {x, y} = {x} \cup {y}
      OBVIOUS
    <3> QED
      BY <3>1, <3>2, FS_AddElement
  <2> QED
    BY <2>1
<1>2. IsFiniteSet({"metadata", "payments"} \X Accounts)
  BY <1>1, FS_Product, HorizonAssumption DEF HorizonAssumption
<1>3. IsFiniteSet(Request)
  BY <1>1, <1>2, FS_Union DEF Request
<1>4. \A a \in Accounts : /\ <<"metadata", a>> \in {"metadata", "payments"} \X Accounts
                          /\ <<"payments", a>> \in {"metadata", "payments"} \X Accounts
  OBVIOUS
<1>5. ASSUME NEW a, NEW s PROVE <<s, a>> # <<"trades">>
  <2>1. Len(<<s, a>>) = 2 /\ Len(<<"trades">>) = 1
    OBVIOUS
  <2> QED
    BY <2>1
<1>6. <<"events">> # <<"trades">>
  OBVIOUS
<1> QED
  BY <1>3, <1>4, <1>5, <1>6 DEF Request

\* The numbers of the constants.
LEMMA Numbers ==
    /\ Len(Parties) \in Nat /\ DOMAIN Parties = 1..Len(Parties)
    /\ Before \in Nat /\ Initial \in Nat /\ Before <= Initial /\ Initial <= Len(Parties)
    /\ PageLimit \in Nat /\ PageLimit >= 1
    /\ MaxRetries \in Nat
    /\ MaxConcurrency \in Nat /\ MaxConcurrency >= 1
  BY HorizonAssumption DEF HorizonAssumption

\* The accounts of trades are accounts.
LEMMA InvolvedType ==
    ASSUME NEW trades \in Seq(1..Len(Parties))
    PROVE  Involved(trades) \subseteq Accounts
<1>1. \A i \in DOMAIN trades : trades[i] \in DOMAIN Parties
  BY Numbers
<1>2. \A t \in DOMAIN Parties : Parties[t] \in SUBSET Accounts
  BY HorizonAssumption DEF HorizonAssumption
<1> QED
  BY <1>1, <1>2 DEF Involved

\* The trades from one down to another.
Down(from, to) == [k \in 1..(from + 1 - to) |-> from + 1 - k]

\* A page goes down from the trade before the cursor, or from the newest one,
\* and holds nothing only when there is nothing older.
LEMMA PageIsDown ==
    ASSUME TypeOK
    PROVE  \E top \in 0..newest, n \in 0..Len(Parties) :
             /\ top = (IF cursor > newest THEN newest ELSE cursor - 1)
             /\ n <= top /\ (n = 0 => top = 0)
             /\ Page = Down(top, top + 1 - n)
             /\ Page \in Seq(1..Len(Parties))
             /\ Len(Page) = n
             /\ n > 0 => Page[Len(Page)] = top + 1 - n
<1> DEFINE top == IF cursor > newest THEN newest ELSE cursor - 1
           n == IF top < PageLimit THEN top ELSE PageLimit
<1>1. /\ cursor \in 1..(Len(Parties) + 1)
      /\ newest \in Initial..Len(Parties)
  BY DEF TypeOK
<1>2. newest \in Nat /\ newest <= Len(Parties) /\ cursor \in Nat /\ cursor >= 1
  BY <1>1, Numbers
<1>3. top \in 0..newest
  BY <1>2
<1>4. n \in 0..Len(Parties) /\ n <= top /\ (n = 0 => top = 0)
  BY <1>2, <1>3, Numbers
<1>5. Page = [k \in 1..n |-> top + 1 - k]
  BY DEF Page, Asked
<1>6. top + 1 - (top + 1 - n) = n
  BY <1>3, <1>4
<1>7. Page = Down(top, top + 1 - n)
  BY <1>5, <1>6 DEF Down
<1>8. \A k \in 1..n : top + 1 - k \in 1..Len(Parties)
  BY <1>2, <1>3, <1>4
<1>9. Page \in Seq(1..Len(Parties)) /\ Len(Page) = n
  BY <1>4, <1>5, <1>8
<1>10. n > 0 => Page[n] = top + 1 - n
  BY <1>4, <1>5
<1> HIDE DEF top, n
<1>11. top = IF cursor > newest THEN newest ELSE cursor - 1
  BY DEF top
<1> QED
  BY <1>3, <1>4, <1>7, <1>9, <1>10, <1>11

\* Of a page that starts at the cutoff or after it, all is kept, or what is
\* younger than the cutoff.
LEMMA RecentIsDown ==
    ASSUME NEW top \in Nat, NEW n \in Nat, n <= top, Before <= top,
           Page = Down(top, top + 1 - n)
    PROVE  \E m \in 0..n :
             /\ Recent(Page) = Down(top, top + 1 - m)
             /\ Len(Recent(Page)) = m
             /\ m = n => Before <= top - n
             /\ m < n => m = top - Before
<1> DEFINE older == {i \in DOMAIN Page : Page[i] <= Before}
           least == CHOOSE i \in older : \A j \in older : i <= j
<1>1. Page = [k \in 1..n |-> top + 1 - k]
  <2>1. top + 1 - (top + 1 - n) = n
    OBVIOUS
  <2> QED
    BY <2>1 DEF Down
<1>2. Page \in Seq(Int) /\ Len(Page) = n
  BY <1>1
<1>3. older = {k \in 1..n : top + 1 - k <= Before}
  BY <1>1
<1>4. CASE older = {}
  <2>1. Recent(Page) = Page
    BY <1>4 DEF Recent
  <2>2. Before <= top - n
    <3>1. n \in 1..n => ~(top + 1 - n <= Before)
      BY <1>3, <1>4
    <3> QED
      BY <3>1, Numbers
  <2> QED
    BY <1>2, <2>1, <2>2
<1>5. CASE older # {}
  <2> DEFINE m == top - Before
  <2>1. m \in 0..(n - 1)
    BY <1>3, <1>5, Numbers
  <2>2. m + 1 \in older /\ \A j \in older : m + 1 <= j
    BY <1>3, <2>1, Numbers
  <2>3. least = m + 1
    <3>1. least \in older /\ \A j \in older : least <= j
      <4> HIDE DEF older
      <4>1. \E i \in older : \A j \in older : i <= j
        BY <2>2
      <4> QED
        BY <4>1, Zenon
    <3>2. least <= m + 1 /\ m + 1 <= least /\ least \in Int
      BY <2>2, <3>1, <1>3
    <3> QED
      BY <2>1, <3>2
  <2>4. Recent(Page) = SubSeq(Page, 1, least - 1)
    BY <1>5 DEF Recent
  <2>5. Recent(Page) = SubSeq(Page, 1, m)
    <3>1. least - 1 = m
      <4> HIDE DEF least, m
      <4> QED
        BY <2>1, <2>3
    <3> QED
      BY <2>4, <3>1
  <2>6. SubSeq(Page, 1, m) = [k \in 1..m |-> top + 1 - k]
    BY <1>1, <1>2, <2>1
  <2>7. top + 1 - (top + 1 - m) = m
    BY <2>1
  <2>8. Recent(Page) = Down(top, top + 1 - m) /\ Len(Recent(Page)) = m
    <3>1. Len(SubSeq(Page, 1, m)) = m
      BY <1>2, <2>1
    <3> QED
      BY <2>5, <2>6, <2>7, <3>1 DEF Down
  <2> QED
    BY <2>1, <2>8
<1> QED
  BY <1>4, <1>5

\* A list down to one trade and the next one down join.
LEMMA DownJoins ==
    ASSUME NEW from \in Nat, NEW mid \in Nat, NEW to \in Nat, to <= mid, mid <= from + 1
    PROVE  Down(from, mid) \o Down(mid - 1, to) = Down(from, to)
<1>1. Down(from, mid) \in Seq(Int) /\ Len(Down(from, mid)) = from + 1 - mid
  BY DEF Down
<1>2. Down(mid - 1, to) \in Seq(Int) /\ Len(Down(mid - 1, to)) = mid - to
  BY DEF Down
<1>3. Down(from, to) \in Seq(Int) /\ Len(Down(from, to)) = from + 1 - to
  BY DEF Down
<1> DEFINE both == Down(from, mid) \o Down(mid - 1, to)
<1>4. both \in Seq(Int) /\ Len(both) = from + 1 - to
  BY <1>1, <1>2
<1>5. ASSUME NEW k \in 1..(from + 1 - to) PROVE both[k] = Down(from, to)[k]
  <2>1. CASE k <= from + 1 - mid
    <3>1. k \in 1..(from + 1 - mid)
      BY <2>1
    <3>2. both[k] = Down(from, mid)[k]
      BY <1>1, <1>2, <3>1
    <3>3. Down(from, mid)[k] = from + 1 - k
      BY <3>1 DEF Down
    <3>4. Down(from, to)[k] = from + 1 - k
      BY DEF Down
    <3> QED
      BY <3>2, <3>3, <3>4
  <2>2. CASE k > from + 1 - mid
    <3>1. both[k] = Down(mid - 1, to)[k - (from + 1 - mid)]
      <4>1. k \in (Len(Down(from, mid)) + 1)..(Len(Down(from, mid)) + Len(Down(mid - 1, to)))
        BY <1>1, <1>2, <2>2
      <4>2. \A f, g \in Seq(Int) : \A i \in (Len(f) + 1)..(Len(f) + Len(g)) :
               (f \o g)[i] = g[i - Len(f)]
        OBVIOUS
      <4> QED
        BY <1>1, <1>2, <4>1, <4>2
    <3>2. k - (from + 1 - mid) \in 1..(mid - 1 + 1 - to)
      BY <2>2
    <3>3. Down(mid - 1, to)[k - (from + 1 - mid)] = mid - (k - (from + 1 - mid))
      BY <3>2 DEF Down
    <3>4. Down(from, to)[k] = from + 1 - k
      BY DEF Down
    <3>5. mid - (k - (from + 1 - mid)) = from + 1 - k
      OBVIOUS
    <3> QED
      BY <3>1, <3>3, <3>4, <3>5
  <2> HIDE DEF both
  <2> QED
    BY <2>1, <2>2
<1> HIDE DEF both
<1>6. both = Down(from, to)
  BY <1>3, <1>4, <1>5
<1> QED
  BY <1>6 DEF both

-----------------------------------------------------------------------------
(***************************************************************************)
(* The inductive invariant.  A request has attempts left as long as it may *)
(* be sent, is wanted until it has returned, and is the only one of a      *)
(* synchronous run; the trades are wanted by themselves.                   *)
(***************************************************************************)
Busy(r) == pc[r] \in {"wait", "flight", "sleep"}

RequestInv ==
    /\ \A r \in Request :
         /\ pc[r] \in {"new", "wait", "sleep"} => tries[r] <= MaxRetries
         /\ Busy(r) \/ pc[r] = "raised" => r \in wanted
         /\ pc[r] = "raised" => r \in refused \/ tries[r] = MaxRetries + 1
         /\ pc[r] = "cancelled" => stage = "raised"
    /\ stage = "raised" => \E r \in Request : pc[r] = "raised"
    /\ mode = "sync" => \A q, r \in Request : Busy(q) /\ Busy(r) => q = r
    /\ stage \in {"idle", "done"} => wanted = {}
    /\ <<"trades">> \in wanted => wanted = {<<"trades">>}
    /\ stage = "trades" => wanted \subseteq {<<"trades">>}
    /\ stage \in {"details", "payments"} => <<"trades">> \notin wanted

\* The permits that are left and the requests in flight are the semaphore.
PermitInv == permits + Cardinality(InFlight) = MaxConcurrency

\* While pages are read the trades loaded go from the newest trade of the first
\* page down to the cursor, afterwards down to the cutoff.
Unfinished ==
    /\ Before < cursor
    /\ cursor > Len(Parties) => records = <<>>
    /\ cursor <= Len(Parties) => cursor <= first /\ records = Down(first, cursor)
Finished == records = Down(first, Before + 1)

PageInv ==
    /\ stage = "idle" \/ wanted = {<<"trades">>} => Unfinished
    /\ stage = "trades" /\ wanted = {} => Finished
    /\ stage \in {"details", "payments", "done"} => Finished

\* What a stage has asked for is still wanted or has returned.
AskedInv ==
    \A a \in Involved(records) :
      /\ stage = "details" => <<"metadata", a>> \in wanted \/ pc[<<"metadata", a>>] = "returned"
      /\ stage \in {"payments", "done"} => pc[<<"metadata", a>>] = "returned"
      /\ stage = "payments" => <<"payments", a>> \in wanted \/ pc[<<"payments", a>>] = "returned"
      /\ stage = "done" => pc[<<"payments", a>>] = "returned"

IInv == TypeOK /\ RequestInv /\ PermitInv /\ PageInv /\ AskedInv

-----------------------------------------------------------------------------
\* A page arrives only while trades are what the load waits for.
LEMMA PageWanted ==
    ASSUME TypeOK, RequestInv, pc[<<"trades">>] = "flight"
    PROVE  stage = "trades" /\ wanted = {<<"trades">>}
<1>1. <<"trades">> \in wanted /\ wanted = {<<"trades">>}
  BY Requests DEF RequestInv, Busy
<1>2. stage # "raised"
  BY <1>1 DEF RequestInv
<1> QED
  BY <1>1, <1>2 DEF TypeOK, Stage, RequestInv

\* What a page changes keeps its type.
LEMMA PageType ==
    ASSUME TypeOK, RequestInv, PageInv, PageArrives
    PROVE  /\ first' \in 0..newest
           /\ records' \in Seq(1..Len(Parties))
           /\ cursor' \in 1..(Len(Parties) + 1)
<1>1. PICK top \in 0..newest, n \in 0..Len(Parties) :
             /\ top = (IF cursor > newest THEN newest ELSE cursor - 1)
             /\ n <= top /\ (n = 0 => top = 0)
             /\ Page = Down(top, top + 1 - n)
             /\ Page \in Seq(1..Len(Parties))
             /\ Len(Page) = n
             /\ n > 0 => Page[Len(Page)] = top + 1 - n
  BY PageIsDown
<1>2. newest \in Nat /\ newest <= Len(Parties)
  BY Numbers DEF TypeOK
<1>3. first' \in 0..newest
  BY <1>2 DEF PageArrives, TypeOK
<1>4. Recent(Page) \in Seq(1..Len(Parties))
  <2>1. Before < cursor
    BY PageWanted DEF PageArrives, PageInv, Unfinished
  <2>2. Before <= top
    BY <1>1, <1>2, <2>1, Numbers DEF TypeOK
  <2>3. PICK m \in 0..n : Recent(Page) = Down(top, top + 1 - m)
    <3>1. top \in Nat /\ n \in Nat /\ n <= top /\ Page = Down(top, top + 1 - n)
      BY <1>1, <1>2
    <3> QED
      BY <2>2, <3>1, RecentIsDown
  <2>4. top + 1 - (top + 1 - m) = m /\ \A k \in 1..m : top + 1 - k \in 1..Len(Parties)
    BY <1>1, <1>2
  <2> QED
    BY <2>3, <2>4 DEF Down
<1>5. records' \in Seq(1..Len(Parties))
  BY <1>4 DEF PageArrives, TypeOK
<1>6. cursor' \in 1..(Len(Parties) + 1)
  <2>1. CASE Page = <<>>
    BY <2>1 DEF PageArrives, TypeOK
  <2>2. CASE Page # <<>>
    <3>1. n > 0
      BY <1>1, <2>2
    <3>2. cursor' = Page[Len(Page)]
      BY <2>2 DEF PageArrives
    <3>3. top + 1 - n \in 1..(Len(Parties) + 1)
      BY <1>1, <1>2, <3>1
    <3> QED
      BY <1>1, <3>1, <3>2, <3>3
  <2> QED
    BY <2>1, <2>2
<1> QED
  BY <1>3, <1>5, <1>6

LEMMA TypeStep ==
    ASSUME TypeOK, RequestInv, PageInv, [Next]_vars
    PROVE  TypeOK'
<1> USE DEF load, requests, paging
<1>1. CASE Trading
  BY <1>1, Numbers DEF Trading, TypeOK
<1>2. CASE Start
  BY <1>2, Requests DEF Start, TypeOK, Stage
<1>3. CASE PageArrives
  <2>1. permits' \in Nat
    BY <1>3 DEF PageArrives, Released, TypeOK
  <2>2. pc' \in [Request -> Control] /\ tries' \in [Request -> 0..(MaxRetries + 1)]
    BY <1>3, Requests, Numbers DEF PageArrives, TypeOK, Control
  <2>3. wanted' \subseteq Request
    BY <1>3 DEF PageArrives, TypeOK
  <2> QED
    BY <1>3, <2>1, <2>2, <2>3, PageType DEF PageArrives, TypeOK
<1>4. CASE Proceed
  <2>1. Involved(records) \subseteq Accounts
    BY InvolvedType DEF TypeOK
  <2>2. wanted' \subseteq Request
    BY <1>4, <2>1 DEF Proceed, TypeOK, Request
  <2> QED
    BY <1>4, <2>2 DEF Proceed, TypeOK, Stage
<1>5. CASE Raise
  BY <1>5 DEF Raise, TypeOK, Stage
<1>6. ASSUME NEW r \in Request, Call(r) \/ Retry(r)
      PROVE  TypeOK'
  BY <1>6 DEF Call, Retry, TypeOK, Control
<1>7. ASSUME NEW r \in Request, Send(r)
      PROVE  TypeOK'
  <2>1. tries[r] <= MaxRetries
    BY <1>7 DEF Send, RequestInv
  <2>2. tries[r] + 1 \in 0..(MaxRetries + 1)
    BY <2>1, Numbers DEF TypeOK
  <2> QED
    BY <1>7, <2>2 DEF Send, Acquired, TypeOK, Control
<1>8. ASSUME NEW r \in Request, TryFails(r) \/ Refuse(r) \/ Answer(r) \/ Cancel(r)
      PROVE  TypeOK'
  <2>1. CASE TryFails(r)
    BY <2>1 DEF TryFails, Released, TypeOK, Control
  <2>2. CASE Refuse(r)
    BY <2>2 DEF Refuse, Released, TypeOK, Control
  <2>3. CASE Answer(r)
    BY <2>3 DEF Answer, Released, TypeOK, Control
  <2>4. CASE Cancel(r)
    BY <2>4 DEF Cancel, TypeOK, Control
  <2> QED
    BY <1>8, <2>1, <2>2, <2>3, <2>4
<1>9. CASE UNCHANGED vars
  BY <1>9 DEF vars, TypeOK
<1> QED
  BY <1>1, <1>2, <1>3, <1>4, <1>5, <1>6, <1>7, <1>8, <1>9, StepCases

LEMMA RequestStep ==
    ASSUME TypeOK, RequestInv, [Next]_vars
    PROVE  RequestInv'
<1> USE DEF load, requests, paging, Busy
<1>1. CASE Trading
  BY <1>1 DEF Trading, RequestInv
<1>2. CASE Start
  BY <1>2, Requests DEF Start, TypeOK, RequestInv
<1>3. CASE PageArrives
  <2>1. stage = "trades" /\ wanted = {<<"trades">>}
    BY <1>3, PageWanted DEF PageArrives
  <2>2. \A r \in Request : r # <<"trades">> => ~Busy(r) /\ pc[r] # "raised"
    BY <2>1 DEF RequestInv
  <2> QED
    BY <1>3, <2>1, <2>2, Requests, Numbers DEF PageArrives, TypeOK, RequestInv
<1>4. CASE Proceed
  <2>1. \A r \in Request : ~Busy(r) /\ pc[r] # "raised"
    BY <1>4 DEF Proceed, Joined, RequestInv
  <2>2. \A a \in Involved(records) : <<"metadata", a>> # <<"trades">> /\ <<"payments", a>> # <<"trades">>
    BY InvolvedType, Requests DEF TypeOK
  <2>3. <<"trades">> \notin wanted'
    BY <1>4, <2>2, Requests DEF Proceed, Joined
  <2>4. stage # "raised" /\ stage' \notin {"idle", "raised", "trades"}
    BY <1>4, <2>1 DEF Proceed, RequestInv
  <2>5. stage' = "done" => wanted' = {}
    BY <1>4, <2>4 DEF Proceed, Joined
  <2> QED
    BY <1>4, <2>1, <2>3, <2>4, <2>5 DEF Proceed, RequestInv
<1>5. CASE Raise
  BY <1>5 DEF Raise, TypeOK, RequestInv, Running
<1>6. ASSUME NEW r \in Request, Call(r)
      PROVE  RequestInv'
  BY <1>6 DEF Call, Running, TypeOK, RequestInv
<1>7. ASSUME NEW r \in Request, Send(r)
      PROVE  RequestInv'
  BY <1>7 DEF Send, Running, TypeOK, RequestInv
<1>8. ASSUME NEW r \in Request, TryFails(r)
      PROVE  RequestInv'
  <2>1. LastTry(r) \/ tries[r] <= MaxRetries
    BY Numbers DEF LastTry, TypeOK
  <2> QED
    BY <1>8, <2>1 DEF TryFails, LastTry, TypeOK, RequestInv
<1>9. ASSUME NEW r \in Request, Retry(r) \/ Cancel(r)
      PROVE  RequestInv'
  BY <1>9 DEF Retry, Cancel, TypeOK, RequestInv
<1>10. ASSUME NEW r \in Request, Refuse(r)
       PROVE  RequestInv'
  BY <1>10 DEF Refuse, TypeOK, RequestInv
<1>11. ASSUME NEW r \in Request, Answer(r)
       PROVE  RequestInv'
  BY <1>11 DEF Answer, TypeOK, RequestInv
<1>12. CASE UNCHANGED vars
  BY <1>12 DEF vars, RequestInv
<1> QED
  BY <1>1, <1>2, <1>3, <1>4, <1>5, <1>6, <1>7, <1>8, <1>9, <1>10, <1>11, <1>12, StepCases

\* One request more, or one less, in flight.
LEMMA OneFlight ==
    ASSUME TypeOK, NEW r \in Request, NEW s \in Control, pc' = [pc EXCEPT ![r] = s]
    PROVE  /\ Cardinality(InFlight) \in Nat
           /\ pc[r] # "flight" /\ s = "flight" =>
                 Cardinality(InFlight') = Cardinality(InFlight) + 1
           /\ pc[r] = "flight" /\ s # "flight" =>
                 Cardinality(InFlight') = Cardinality(InFlight) - 1
           /\ pc[r] # "flight" /\ s # "flight" =>
                 Cardinality(InFlight') = Cardinality(InFlight)
<1>1. IsFiniteSet(InFlight)
  BY Requests, FS_Subset DEF InFlight
<1>2. Cardinality(InFlight) \in Nat
  BY <1>1, FS_CardinalityType
<1>3. pc[r] # "flight" /\ s = "flight" => InFlight' = InFlight \cup {r} /\ r \notin InFlight
  BY DEF InFlight, TypeOK
<1>4. pc[r] = "flight" /\ s # "flight" => InFlight' = InFlight \ {r} /\ r \in InFlight
  BY DEF InFlight, TypeOK
<1>5. pc[r] # "flight" /\ s # "flight" => InFlight' = InFlight
  BY DEF InFlight, TypeOK
<1>6. r \notin InFlight => Cardinality(InFlight \cup {r}) = Cardinality(InFlight) + 1
  BY <1>1, FS_AddElement
<1>7. r \in InFlight => Cardinality(InFlight \ {r}) = Cardinality(InFlight) - 1
  BY <1>1, FS_RemoveElement
<1> QED
  BY <1>2, <1>3, <1>4, <1>5, <1>6, <1>7

LEMMA PermitStep ==
    ASSUME TypeOK, PermitInv, [Next]_vars
    PROVE  PermitInv'
<1> USE DEF load, requests, paging
<1>1. ASSUME pc' = pc, permits' = permits
      PROVE  PermitInv'
  BY <1>1 DEF PermitInv, InFlight
<1>2. CASE Trading \/ Start \/ Proceed \/ Raise \/ UNCHANGED vars
  BY <1>1, <1>2 DEF Trading, Start, Proceed, Raise, vars
<1>4. ASSUME NEW r \in Request, Call(r) \/ Retry(r)
      PROVE  PermitInv'
  <2>1. pc' = [pc EXCEPT ![r] = "wait"] /\ pc[r] # "flight" /\ permits' = permits
    BY <1>4 DEF Call, Retry
  <2>2. Cardinality(InFlight') = Cardinality(InFlight)
    BY <2>1, OneFlight DEF Control
  <2> QED
    BY <2>1, <2>2 DEF PermitInv
<1>5. ASSUME NEW r \in Request, Send(r)
      PROVE  PermitInv'
  <2>1. pc' = [pc EXCEPT ![r] = "flight"] /\ pc[r] # "flight" /\ permits' = permits - 1
    BY <1>5 DEF Send, Acquired
  <2>2. Cardinality(InFlight) \in Nat /\ Cardinality(InFlight') = Cardinality(InFlight) + 1
    BY <2>1, OneFlight DEF Control
  <2> QED
    BY <2>1, <2>2 DEF PermitInv, TypeOK
<1>6. ASSUME NEW r \in Request, NEW s \in Control \ {"flight"},
             pc[r] = "flight", pc' = [pc EXCEPT ![r] = s], permits' = permits + 1
      PROVE  PermitInv'
  <2>1. Cardinality(InFlight) \in Nat /\ Cardinality(InFlight') = Cardinality(InFlight) - 1
    BY <1>6, OneFlight
  <2> QED
    BY <1>6, <2>1 DEF PermitInv, TypeOK
<1>7. ASSUME NEW r \in Request, TryFails(r) \/ Refuse(r) \/ Answer(r)
      PROVE  PermitInv'
  <2>1. pc[r] = "flight" /\ permits' = permits + 1
    BY <1>7 DEF TryFails, Refuse, Answer, Released
  <2>2. \/ pc' = [pc EXCEPT ![r] = "raised"]
        \/ pc' = [pc EXCEPT ![r] = "sleep"]
        \/ pc' = [pc EXCEPT ![r] = "returned"]
    BY <1>7 DEF TryFails, Refuse, Answer
  <2> QED
    BY <1>6, <2>1, <2>2 DEF Control
<1>8. ASSUME NEW r \in Request, Cancel(r)
      PROVE  PermitInv'
  <2>1. pc' = [pc EXCEPT ![r] = "cancelled"]
    BY <1>8 DEF Cancel
  <2>2. CASE pc[r] = "flight"
    BY <1>6, <1>8, <2>1, <2>2 DEF Cancel, Control
  <2>3. CASE pc[r] # "flight"
    <3>1. Cardinality(InFlight') = Cardinality(InFlight) /\ permits' = permits
      BY <1>8, <2>1, <2>3, OneFlight DEF Cancel, Control
    <3> QED
      BY <3>1 DEF PermitInv
  <2> QED
    BY <2>2, <2>3
<1>9. CASE PageArrives
  <2>1. pc[<<"trades">>] = "flight" /\ permits' = permits + 1
    BY <1>9 DEF PageArrives, Released
  <2>2. \/ pc' = [pc EXCEPT ![<<"trades">>] = "returned"]
        \/ pc' = [pc EXCEPT ![<<"trades">>] = "new"]
    BY <1>9 DEF PageArrives
  <2> QED
    BY <1>6, <2>1, <2>2, Requests DEF Control
<1> QED
  BY <1>2, <1>4, <1>5, <1>7, <1>8, <1>9, StepCases

\* A page leaves the trades loaded complete down to its last trade kept.
LEMMA PageStepArrives ==
    ASSUME TypeOK, RequestInv, PageInv, PageArrives
    PROVE  PageInv'
<1>1. stage = "trades" /\ stage' = "trades" /\ wanted = {<<"trades">>}
  BY PageWanted DEF PageArrives, load
<1>2. Unfinished
  BY <1>1 DEF PageInv
<1>3. PICK top \in 0..newest, n \in 0..Len(Parties) :
             /\ top = (IF cursor > newest THEN newest ELSE cursor - 1)
             /\ n <= top /\ (n = 0 => top = 0)
             /\ Page = Down(top, top + 1 - n)
             /\ Page \in Seq(1..Len(Parties))
             /\ Len(Page) = n
             /\ n > 0 => Page[Len(Page)] = top + 1 - n
  BY PageIsDown
<1>4. /\ newest \in Nat /\ Initial <= newest /\ newest <= Len(Parties)
      /\ cursor \in Nat /\ cursor >= 1 /\ cursor <= Len(Parties) + 1
      /\ first \in Nat /\ first <= newest
  BY Numbers DEF TypeOK
<1>5. top \in Nat /\ n \in Nat /\ top <= newest /\ Before <= top
  BY <1>2, <1>3, <1>4, Numbers DEF Unfinished
<1>6. PICK m \in 0..n :
             /\ Recent(Page) = Down(top, top + 1 - m)
             /\ Len(Recent(Page)) = m
             /\ m = n => Before <= top - n
             /\ m < n => m = top - Before
  BY <1>3, <1>5, RecentIsDown
<1>7. first' \in Nat /\ top <= first' /\ records' = Down(first', top + 1 - m)
  <2>1. records' = records \o Recent(Page)
    BY DEF PageArrives
  <2>2. CASE cursor > Len(Parties)
    <3>1. first' = newest /\ top = newest /\ records = <<>>
      BY <1>2, <1>3, <1>4, <2>2 DEF PageArrives, Unfinished
    <3>2. Recent(Page) \in Seq(Int)
      BY <1>5, <1>6 DEF Down
    <3> QED
      BY <1>4, <1>6, <2>1, <3>1, <3>2
  <2>3. CASE cursor <= Len(Parties)
    <3>1. first' = first /\ cursor <= first /\ records = Down(first, cursor) /\ top = cursor - 1
      BY <1>2, <1>3, <1>4, <2>3, Numbers DEF PageArrives, Unfinished
    <3>2. top + 1 - m \in Nat /\ top + 1 - m <= cursor /\ cursor <= first + 1
      BY <1>3, <1>4, <1>5, <3>1
    <3>3. Down(first, cursor) \o Down(cursor - 1, top + 1 - m) = Down(first, top + 1 - m)
      BY <1>4, <3>2, DownJoins
    <3> QED
      BY <1>4, <1>6, <2>1, <3>1, <3>3
  <2> QED
    BY <1>4, <2>2, <2>3, Numbers
<1>8. CASE Page = <<>> \/ Len(Recent(Page)) < Len(Page)
  <2>1. top + 1 - m = Before + 1
    <3>1. CASE m < n
      BY <1>5, <1>6, <3>1, Numbers
    <3>2. CASE n = 0
      BY <1>3, <1>5, <1>6, <3>2, Numbers
    <3> QED
      BY <1>3, <1>6, <1>8, <3>1, <3>2
  <2>2. Finished'
    BY <1>7, <2>1 DEF Finished
  <2>3. wanted' = {}
    BY <1>8 DEF PageArrives
  <2> QED
    BY <1>1, <2>2, <2>3 DEF PageInv
<1>9. CASE Page # <<>> /\ ~(Len(Recent(Page)) < Len(Page))
  <2>1. m = n /\ n > 0
    BY <1>3, <1>5, <1>6, <1>9
  <2>2. cursor' = top + 1 - n /\ wanted' = wanted
    BY <1>3, <1>9, <2>1 DEF PageArrives
  <2>3. Before < cursor' /\ cursor' <= Len(Parties) /\ cursor' <= first' /\ cursor' \in Nat
    BY <1>3, <1>4, <1>5, <1>6, <1>7, <2>1, <2>2, Numbers
  <2>4. records' = Down(first', cursor')
    BY <1>7, <2>1, <2>2
  <2>5. Unfinished'
    BY <2>3, <2>4, Numbers DEF Unfinished
  <2> QED
    BY <1>1, <2>2, <2>5 DEF PageInv
<1> QED
  BY <1>8, <1>9

LEMMA PageStep ==
    ASSUME TypeOK, RequestInv, PageInv, [Next]_vars
    PROVE  PageInv'
<1> USE DEF load, requests, paging
<1>1. ASSUME UNCHANGED <<stage, wanted, paging>>
      PROVE  PageInv'
  BY <1>1 DEF PageInv, Unfinished, Finished
<1>2. CASE Trading \/ UNCHANGED vars
  BY <1>1, <1>2 DEF Trading, vars
<1>3. CASE Start
  BY <1>3 DEF Start, PageInv, Unfinished
<1>4. CASE PageArrives
  BY <1>4, PageStepArrives
<1>5. CASE Proceed
  <2>1. Finished /\ stage # "idle" /\ stage' \in {"details", "payments", "done"}
    BY <1>5 DEF Proceed, Joined, PageInv
  <2>2. \A a \in Involved(records) : <<"payments", a>> # <<"trades">>
    BY InvolvedType, Requests DEF TypeOK
  <2>3. <<"trades">> \notin wanted'
    BY <1>5, <2>1, <2>2, Requests, InvolvedType DEF Proceed, Joined, TypeOK
  <2>4. Finished'
    BY <1>5, <2>1 DEF Proceed, Finished
  <2> QED
    BY <2>1, <2>3, <2>4 DEF PageInv
<1>6. CASE Raise
  BY <1>6 DEF Raise, PageInv, Unfinished, Finished, Running
<1>7. ASSUME NEW r \in Request,
             Call(r) \/ Send(r) \/ TryFails(r) \/ Retry(r) \/ Refuse(r) \/ Cancel(r)
      PROVE  PageInv'
  BY <1>1, <1>7 DEF Call, Send, TryFails, Retry, Refuse, Cancel
<1>8. ASSUME NEW r \in Request, Answer(r)
      PROVE  PageInv'
  <2>1. r \in wanted /\ wanted # {<<"trades">>} /\ <<"trades">> \notin wanted
    BY <1>8 DEF Answer, RequestInv, Busy
  <2>2. stage # "trades" /\ stage # "idle"
    BY <2>1 DEF RequestInv
  <2> QED
    BY <1>8, <2>1, <2>2 DEF Answer, PageInv, Unfinished, Finished
<1> QED
  BY <1>2, <1>3, <1>4, <1>5, <1>6, <1>7, <1>8, StepCases

LEMMA AskedStep ==
    ASSUME TypeOK, RequestInv, AskedInv, [Next]_vars
    PROVE  AskedInv'
<1> USE DEF load, requests, paging
<1>1. \A a \in Involved(records) :
        /\ <<"metadata", a>> \in Request
        /\ <<"payments", a>> \in Request
  BY InvolvedType, Requests DEF TypeOK
<1>2. ASSUME UNCHANGED <<stage, wanted, records>>,
             \A r \in Request : pc[r] = "returned" => pc'[r] = "returned"
      PROVE  AskedInv'
  BY <1>1, <1>2 DEF AskedInv, Involved
<1>3. CASE Trading \/ UNCHANGED vars
  BY <1>2, <1>3 DEF Trading, vars
<1>4. CASE Start \/ Raise
  BY <1>4 DEF Start, Raise, AskedInv
<1>5. CASE PageArrives
  <2>1. stage' = "trades"
    BY <1>5, PageWanted DEF PageArrives
  <2> QED
    BY <2>1 DEF AskedInv
<1>6. CASE Proceed
  <2>1. records' = records /\ Involved(records)' = Involved(records) /\ pc' = pc
    BY <1>6 DEF Proceed, Involved
  <2>2. CASE stage = "trades" /\ records = <<>>
    <3>1. Involved(records) = {}
      BY <2>2 DEF Involved
    <3> QED
      BY <2>1, <3>1 DEF AskedInv
  <2>3. CASE stage = "trades" /\ records # <<>>
    <3>1. stage' = "details" /\ \A a \in Involved(records) : <<"metadata", a>> \in wanted'
      BY <1>6, <2>3 DEF Proceed
    <3> QED
      BY <2>1, <3>1 DEF AskedInv
  <2>4. CASE stage = "details"
    <3>1. stage' = "payments" /\ \A a \in Involved(records) : <<"payments", a>> \in wanted'
      BY <1>6, <2>4 DEF Proceed
    <3>2. \A a \in Involved(records) : pc[<<"metadata", a>>] = "returned"
      BY <1>6, <2>4 DEF Proceed, Joined, AskedInv
    <3> QED
      BY <2>1, <3>1, <3>2 DEF AskedInv
  <2>5. CASE stage = "payments"
    <3>1. stage' = "done"
      BY <1>6, <2>5 DEF Proceed
    <3>2. \A a \in Involved(records) :
             pc[<<"metadata", a>>] = "returned" /\ pc[<<"payments", a>>] = "returned"
      BY <1>6, <2>5 DEF Proceed, Joined, AskedInv
    <3> QED
      BY <2>1, <3>1, <3>2 DEF AskedInv
  <2> QED
    BY <1>6, <2>2, <2>3, <2>4, <2>5 DEF Proceed
<1>7. ASSUME NEW r \in Request,
             Call(r) \/ Send(r) \/ TryFails(r) \/ Retry(r) \/ Refuse(r) \/ Cancel(r)
      PROVE  AskedInv'
  <2>1. UNCHANGED <<stage, wanted, records>> /\ pc[r] # "returned"
    BY <1>7 DEF Call, Send, TryFails, Retry, Refuse, Cancel
  <2>2. \A q \in Request : q # r => pc'[q] = pc[q]
    BY <1>7 DEF Call, Send, TryFails, Retry, Refuse, Cancel, TypeOK
  <2> QED
    BY <1>2, <2>1, <2>2
<1>8. ASSUME NEW r \in Request, Answer(r)
      PROVE  AskedInv'
  <2>1. stage' = stage /\ records' = records /\ Involved(records)' = Involved(records)
    BY <1>8 DEF Answer, Involved
  <2>2. pc' = [pc EXCEPT ![r] = "returned"] /\ wanted' = wanted \ {r}
    BY <1>8 DEF Answer
  <2>3. \A q \in Request : /\ pc[q] = "returned" => pc'[q] = "returned"
                           /\ q \in wanted => q \in wanted' \/ pc'[q] = "returned"
    BY <2>2 DEF TypeOK
  <2> QED
    BY <1>1, <2>1, <2>3 DEF AskedInv
<1> QED
  BY <1>3, <1>4, <1>5, <1>6, <1>7, <1>8, StepCases

LEMMA InitInv == Init => IInv
<1> SUFFICES ASSUME Init PROVE IInv
  OBVIOUS
<1>1. TypeOK
  BY Numbers DEF Init, TypeOK, Stage, Control
<1>2. RequestInv
  BY Numbers DEF Init, RequestInv, Busy
<1>3. PermitInv
  <2>1. InFlight = {}
    BY DEF Init, InFlight
  <2> QED
    BY <2>1, FS_EmptySet, Numbers DEF Init, PermitInv
<1>4. PageInv
  BY Numbers DEF Init, PageInv, Unfinished
<1>5. AskedInv
  BY DEF Init, AskedInv
<1> QED
  BY <1>1, <1>2, <1>3, <1>4, <1>5 DEF IInv

LEMMA Invariance == Spec => []IInv
<1>1. IInv /\ [Next]_vars => IInv'
  BY TypeStep, RequestStep, PermitStep, PageStep, AskedStep DEF IInv
<1> QED
  BY InitInv, <1>1, PTL DEF Spec

-----------------------------------------------------------------------------
\* The state of a load and of its requests has its type, for any accounts,
\* trades and limits.
THEOREM LoadTypeCorrect == Spec => []TypeOK
<1>1. IInv => TypeOK
  BY DEF IInv
<1> QED
  BY <1>1, Invariance, PTL

\* However many accounts a pair has, however requests fail, sleep or are
\* cancelled: http_client.py never has more than max_concurrency in flight.
THEOREM InFlightCorrect == Spec => []InFlightBounded
<1>1. IInv => InFlightBounded
  <2> SUFFICES ASSUME IInv PROVE InFlightBounded
    OBVIOUS
  <2>1. IsFiniteSet(InFlight)
    BY Requests, FS_Subset DEF InFlight
  <2>2. Cardinality(InFlight) \in Nat
    BY <2>1, FS_CardinalityType
  <2>3. Cardinality(InFlight) <= MaxConcurrency
    BY <2>2, Numbers DEF IInv, TypeOK, PermitInv
  <2>4. ASSUME mode = "sync" PROVE Cardinality(InFlight) <= 1
    <3>1. CASE InFlight = {}
      BY <3>1, FS_EmptySet
    <3>2. ASSUME NEW r \in InFlight PROVE Cardinality(InFlight) <= 1
      <4>1. \A q \in InFlight : q = r
        BY <2>4 DEF IInv, RequestInv, Busy, InFlight
      <4>2. InFlight = {r}
        BY <4>1
      <4> QED
        BY <4>2, FS_Singleton
    <3> QED
      BY <3>1, <3>2
  <2> QED
    BY <2>3, <2>4 DEF InFlightBounded
<1> QED
  BY <1>1, Invariance, PTL

\* Pages of any size, any cutoff, trades that arrive between any two pages: the
\* loaders of historical_loader.py return every recent trade once, in order.
THEOREM PagesCorrect == Spec => []PagesComplete
<1>1. IInv => PagesComplete
  <2> SUFFICES ASSUME IInv, stage \in {"details", "payments", "done"}
               PROVE  records = [k \in 1..(first - Before) |-> first + 1 - k]
    BY DEF PagesComplete
  <2>1. records = Down(first, Before + 1)
    BY DEF IInv, PageInv, Finished
  <2>2. first + 1 - (Before + 1) = first - Before
    BY Numbers DEF IInv, TypeOK
  <2> QED
    BY <2>1, <2>2 DEF Down
<1> QED
  BY <1>1, Invariance, PTL

\* With any number of retries, get_with_retry raises only when it has used them
\* or was refused, and a run goes on only with every answer it asked for.
THEOREM FailedCorrect == Spec => []FailedWasTried
<1>1. IInv => FailedWasTried
  <2> SUFFICES ASSUME IInv PROVE FailedWasTried
    OBVIOUS
  <2>1. /\ \A r \in Request : pc[r] = "raised" => r \in refused \/ tries[r] = MaxRetries + 1
        /\ stage = "raised" => \E r \in Request : pc[r] = "raised"
    BY DEF IInv, RequestInv
  <2>2. stage = "done" => \A r \in Request : pc[r] \in {"new", "returned"}
    BY DEF IInv, TypeOK, Control, RequestInv, Busy
  <2>3. stage = "done" => \A a \in Involved(records) :
             pc[<<"metadata", a>>] = "returned" /\ pc[<<"payments", a>>] = "returned"
    BY DEF IInv, AskedInv
  <2> QED
    BY <2>1, <2>2, <2>3 DEF FailedWasTried
<1> QED
  BY <1>1, Invariance, PTL

-----------------------------------------------------------------------------
(***************************************************************************)
(* ScoreReads                                                              *)
(*                                                                         *)
(* The invariant says where a walk is.  As long as nothing was inserted,   *)
(* got is what passes of the list up to the offset; the pages were full,   *)
(* so the offset is not beyond the end.  In a walk by time, an entry that  *)
(* was there all the while has been read or has as many entries ahead of   *)
(* it as the offset says; an insertion leaves no fewer ahead, since each   *)
(* key ahead stays ahead with its newest row.                              *)
(***************************************************************************)

\* Each member of a finite set is given those ahead of it in a strict total order.
Orders(ahead, set) ==
    /\ IsFiniteSet(set)
    /\ ahead \in [set -> SUBSET set]
    /\ \A a, b, c \in set : a \in ahead[b] /\ b \in ahead[c] => a \in ahead[c]
    /\ \A a \in set : a \notin ahead[a]
    /\ \A a, b \in set : a # b => a \in ahead[b] \/ b \in ahead[a]

\* What is ahead of a member has fewer ahead of it, and there are no more ahead
\* of it than others.
LEMMA RankRises ==
    ASSUME NEW set, NEW ahead, Orders(ahead, set), NEW b \in set
    PROVE  /\ Cardinality(ahead[b]) \in Nat
           /\ Cardinality(ahead[b]) < Cardinality(set)
           /\ \A a \in ahead[b] : Cardinality(ahead[a]) < Cardinality(ahead[b])
<1>1. /\ IsFiniteSet(set) /\ Cardinality(set) \in Nat
      /\ ahead[b] \in SUBSET set /\ b \notin ahead[b]
  BY FS_CardinalityType DEF Orders
<1>2. IsFiniteSet(ahead[b]) /\ Cardinality(ahead[b]) \in Nat
  BY <1>1, FS_Subset, FS_CardinalityType
<1>3. Cardinality(ahead[b]) <= Cardinality(set) /\ Cardinality(ahead[b]) # Cardinality(set)
  BY <1>1, FS_Subset
<1>4. ASSUME NEW a \in ahead[b]
      PROVE  Cardinality(ahead[a]) < Cardinality(ahead[b])
  <2>1. ahead[a] \in SUBSET ahead[b] /\ a \notin ahead[a]
    BY <1>1 DEF Orders
  <2>2. Cardinality(ahead[a]) \in Nat
    BY <2>1, <1>2, FS_Subset, FS_CardinalityType
  <2>3. Cardinality(ahead[a]) <= Cardinality(ahead[b]) /\ Cardinality(ahead[a]) # Cardinality(ahead[b])
    BY <1>2, <2>1, FS_Subset
  <2> QED
    BY <1>2, <2>2, <2>3
<1> QED
  BY <1>1, <1>2, <1>3, <1>4

\* Every number below that of the members is the number of those ahead of one member.
LEMMA RankIsOnto ==
    ASSUME NEW set, NEW ahead, Orders(ahead, set)
    PROVE  /\ Cardinality(set) \in Nat
           /\ \A e \in set : Cardinality(ahead[e]) \in 0..(Cardinality(set) - 1)
           /\ \A d, e \in set : Cardinality(ahead[d]) = Cardinality(ahead[e]) => d = e
           /\ \A k \in 0..(Cardinality(set) - 1) : \E e \in set : Cardinality(ahead[e]) = k
<1> DEFINE n == Cardinality(set)
           f == [e \in set |-> Cardinality(ahead[e])]
<1>1. IsFiniteSet(set) /\ n \in Nat
  BY FS_CardinalityType DEF Orders
<1>2. \A e \in set : Cardinality(ahead[e]) \in 0..(n - 1)
  BY <1>1, RankRises
<1>3. \A d, e \in set : Cardinality(ahead[d]) = Cardinality(ahead[e]) => d = e
  <2> SUFFICES ASSUME NEW d \in set, NEW e \in set, d # e
               PROVE  Cardinality(ahead[d]) # Cardinality(ahead[e])
    OBVIOUS
  <2>1. d \in ahead[e] \/ e \in ahead[d]
    BY DEF Orders
  <2>2. Cardinality(ahead[d]) \in Nat /\ Cardinality(ahead[e]) \in Nat
    BY RankRises
  <2>3. Cardinality(ahead[d]) < Cardinality(ahead[e]) \/ Cardinality(ahead[e]) < Cardinality(ahead[d])
    BY <2>1, RankRises
  <2> QED
    BY <2>2, <2>3
<1>4. f \in [set -> 0..(n - 1)]
  BY <1>1, <1>2
<1>5. f \in Injection(set, 0..(n - 1))
  BY <1>3, <1>4, Fun_IsInj
<1>6. IsFiniteSet(0..(n - 1)) /\ Cardinality(0..(n - 1)) = n
  BY <1>1, FS_Interval
<1>7. f \in Surjection(set, 0..(n - 1))
  BY <1>5, <1>6, FS_Injection
<1> HIDE DEF f
<1>8. \A k \in 0..(n - 1) : \E e \in set : f[e] = k
  BY <1>7 DEF Surjection
<1> QED
  BY <1>1, <1>2, <1>3, <1>8 DEF f

\* InOrder puts each member behind as many as are ahead of it.
LEMMA InOrderIs ==
    ASSUME NEW set, NEW ahead, Orders(ahead, set)
    PROVE  /\ Cardinality(set) \in Nat
           /\ InOrder(set, ahead) \in [1..Cardinality(set) -> set]
           /\ \A n \in 1..Cardinality(set) : Cardinality(ahead[InOrder(set, ahead)[n]]) = n - 1
           /\ \A e \in set : /\ Cardinality(ahead[e]) + 1 \in 1..Cardinality(set)
                             /\ InOrder(set, ahead)[Cardinality(ahead[e]) + 1] = e
           /\ \A i, j \in 1..Cardinality(set) :
                 i < j => InOrder(set, ahead)[i] \in ahead[InOrder(set, ahead)[j]]
<1> DEFINE m == Cardinality(set)
           R(e) == Cardinality(ahead[e])
           f == InOrder(set, ahead)
<1>1. /\ m \in Nat
      /\ \A e \in set : R(e) \in 0..(m - 1)
      /\ \A d, e \in set : R(d) = R(e) => d = e
      /\ \A k \in 0..(m - 1) : \E e \in set : R(e) = k
  BY RankIsOnto
<1>2. f = [n \in 1..m |-> CHOOSE e \in set : R(e) = n - 1]
  BY DEF InOrder
<1>3. ASSUME NEW a \in set, NEW b \in set, R(a) < R(b)
      PROVE  a \in ahead[b]
  <2>1. a # b /\ b \notin ahead[a]
    BY <1>1, <1>3, RankRises
  <2> QED
    BY <2>1 DEF Orders
<1> HIDE DEF R, f, m
<1>4. \A n \in 1..m : f[n] \in set /\ R(f[n]) = n - 1
  <2> SUFFICES ASSUME NEW n \in 1..m PROVE f[n] \in set /\ R(f[n]) = n - 1
    OBVIOUS
  <2>1. n - 1 \in 0..(m - 1)
    BY <1>1
  <2>2. \E e \in set : R(e) = n - 1
    BY <2>1, <1>1
  <2> QED
    BY <2>2, <1>2
<1>5. f \in [1..m -> set]
  BY <1>2, <1>4
<1>6. \A e \in set : R(e) + 1 \in 1..m
  BY <1>1
<1>7. \A e \in set : f[R(e) + 1] = e
  <2> SUFFICES ASSUME NEW e \in set PROVE f[R(e) + 1] = e
    OBVIOUS
  <2>1. R(f[R(e) + 1]) = R(e) /\ f[R(e) + 1] \in set
    BY <1>1, <1>4, <1>6
  <2> QED
    BY <2>1, <1>1
<1>8. ASSUME NEW i \in 1..m, NEW j \in 1..m, i < j PROVE f[i] \in ahead[f[j]]
  BY <1>1, <1>3, <1>4, <1>8
<1> QED
  BY <1>1, <1>4, <1>5, <1>6, <1>7, <1>8 DEF R, f, m

\* The kept places of a page that are before one of them.
PassingBefore(page, i) == {j \in Passing(page) : j < i}

\* The filter hands on the kept entries in their order: each is behind as many as
\* were kept before it.
LEMMA FilteredIs ==
    ASSUME NEW page \in Seq(Row)
    PROVE  /\ Passing(page) \in SUBSET (1..Len(page))
           /\ IsFiniteSet(Passing(page)) /\ Cardinality(Passing(page)) \in 0..Len(page)
           /\ Filtered(page) \in Seq(Row)
           /\ Len(Filtered(page)) = Cardinality(Passing(page))
           /\ \A i \in Passing(page) :
                 /\ Cardinality(PassingBefore(page, i)) + 1 \in 1..Cardinality(Passing(page))
                 /\ Filtered(page)[Cardinality(PassingBefore(page, i)) + 1] = page[i]
           /\ \A n \in 1..Cardinality(Passing(page)) :
                 \E i \in Passing(page) : Cardinality(PassingBefore(page, i)) = n - 1
<1> DEFINE K == Passing(page)
           before == [i \in K |-> {j \in K : j < i}]
           order == InOrder(K, before)
<1>1. K \in SUBSET (1..Len(page))
  BY DEF Passing
<1>2. /\ IsFiniteSet(1..Len(page)) /\ Cardinality(1..Len(page)) = Len(page)
      /\ Len(page) \in Nat
  <2>1. Len(page) \in Nat
    OBVIOUS
  <2> QED
    BY <2>1, FS_Interval
<1>3. IsFiniteSet(K) /\ Cardinality(K) \in 0..Len(page)
  BY <1>1, <1>2, FS_Subset, FS_CardinalityType
<1>4. \A i \in K : before[i] = PassingBefore(page, i)
  BY DEF PassingBefore
<1>5. Filtered(page) = [n \in DOMAIN order |-> page[order[n]]]
  BY DEF Filtered
<1> HIDE DEF K
<1>6. Orders(before, K)
  <2>1. before \in [K -> SUBSET K]
    OBVIOUS
  <2>2. \A a, b \in K : a \in before[b] <=> a < b
    OBVIOUS
  <2>3. \A a \in K : a \in Nat
    BY <1>1
  <2> HIDE DEF before
  <2>4. \A a, b, c \in K : a \in before[b] /\ b \in before[c] => a \in before[c]
    BY <2>2, <2>3
  <2>5. \A a, b \in K : a # b => a \in before[b] \/ b \in before[a]
    BY <2>2, <2>3
  <2>6. \A a \in K : a \notin before[a]
    BY <2>2, <2>3
  <2> QED
    BY <1>3, <2>1, <2>4, <2>5, <2>6 DEF Orders
<1> HIDE DEF before
<1>7. /\ order \in [1..Cardinality(K) -> K]
      /\ \A n \in 1..Cardinality(K) : Cardinality(before[order[n]]) = n - 1
      /\ \A i \in K : /\ Cardinality(before[i]) + 1 \in 1..Cardinality(K)
                      /\ order[Cardinality(before[i]) + 1] = i
  BY <1>6, InOrderIs
<1> HIDE DEF order
<1>8. Filtered(page) = [n \in 1..Cardinality(K) |-> page[order[n]]]
  BY <1>5, <1>7
<1>9. \A n \in 1..Cardinality(K) : page[order[n]] \in Row
  <2>1. \A i \in 1..Len(page) : page[i] \in Row
    OBVIOUS
  <2>2. \A n \in 1..Cardinality(K) : order[n] \in K
    BY <1>7
  <2> QED
    BY <1>1, <2>1, <2>2
<1>10. Cardinality(K) \in Nat
  BY <1>2, <1>3
<1>11. Filtered(page) \in Seq(Row) /\ Len(Filtered(page)) = Cardinality(K)
  BY <1>8, <1>9, <1>10
<1>12. \A i \in K : /\ Cardinality(PassingBefore(page, i)) + 1 \in 1..Cardinality(K)
                    /\ Filtered(page)[Cardinality(PassingBefore(page, i)) + 1] = page[i]
  BY <1>4, <1>7, <1>8
<1>13. \A n \in 1..Cardinality(K) : \E i \in K : Cardinality(PassingBefore(page, i)) = n - 1
  BY <1>4, <1>7
<1> QED
  BY <1>1, <1>3, <1>11, <1>12, <1>13 DEF K

\* A sequence of which everything is kept is handed on as it is.
LEMMA AllKept ==
    ASSUME NEW page \in Seq(Row), \A i \in DOMAIN page : page[i].score >= query.floor
    PROVE  Filtered(page) = page
<1> DEFINE m == Len(page)
<1>1. Passing(page) = 1..m /\ m \in Nat
  BY DEF Passing
<1>2. Cardinality(1..m) = m
  BY <1>1, FS_Interval
<1>3. \A i \in 1..m : Cardinality(PassingBefore(page, i)) = i - 1
  <2> SUFFICES ASSUME NEW i \in 1..m PROVE Cardinality(PassingBefore(page, i)) = i - 1
    OBVIOUS
  <2>1. PassingBefore(page, i) = 1..(i - 1)
    BY <1>1 DEF PassingBefore
  <2>2. Cardinality(1..(i - 1)) = i - 1
    BY <1>1, FS_Interval
  <2> QED
    BY <2>1, <2>2
<1>4. Filtered(page) \in Seq(Row) /\ Len(Filtered(page)) = m
  BY <1>1, <1>2, FilteredIs
<1>5. \A i \in 1..m : Filtered(page)[Cardinality(PassingBefore(page, i)) + 1] = page[i]
  BY <1>1, FilteredIs
<1>6. \A i \in 1..m : Filtered(page)[i] = page[i]
  <2> SUFFICES ASSUME NEW i \in 1..m PROVE Filtered(page)[i] = page[i]
    OBVIOUS
  <2>1. Cardinality(PassingBefore(page, i)) + 1 = i
    BY <1>3
  <2> QED
    BY <1>5, <2>1
<1> HIDE DEF m
<1> QED
  BY <1>4, <1>6 DEF m

\* As many numbers are there when each is moved by the same amount.
LEMMA MovedCardinality ==
    ASSUME NEW S \in SUBSET Nat, IsFiniteSet(S), NEW m \in Nat
    PROVE  /\ IsFiniteSet({x + m : x \in S})
           /\ Cardinality({x + m : x \in S}) = Cardinality(S)
<1> DEFINE T == {x + m : x \in S}
           f == [x \in S |-> x + m]
<1>1. f \in [S -> T]
  OBVIOUS
<1>2. \A x, y \in S : f[x] = f[y] => x = y
  OBVIOUS
<1>3. \A t \in T : \E x \in S : f[x] = t
  OBVIOUS
<1> HIDE DEF f, T
<1>4. f \in Bijection(S, T)
  BY <1>1, <1>2, <1>3, Fun_IsBij
<1>5. ExistsBijection(S, T)
  BY <1>4 DEF ExistsBijection
<1> QED
  BY <1>5, FS_Bijection DEF T

\* What is kept of a sequence is what is kept of a first part and then of the rest.
LEMMA FilteredJoins ==
    ASSUME NEW entries \in Seq(Row), NEW m \in 0..Len(entries), NEW k \in m..Len(entries)
    PROVE  Filtered(SubSeq(entries, 1, k)) =
              Filtered(SubSeq(entries, 1, m)) \o Filtered(SubSeq(entries, m + 1, k))
<1> DEFINE W == SubSeq(entries, 1, k)
           P == SubSeq(entries, 1, m)
           Q == SubSeq(entries, m + 1, k)
           kept(n) == entries[n].score >= query.floor
<1>1. /\ m \in Nat /\ k \in Nat /\ m <= k /\ k <= Len(entries) /\ Len(entries) \in Nat
      /\ k - m \in Nat
  OBVIOUS
<1>2. /\ W \in Seq(Row) /\ Len(W) = k /\ \A i \in 1..k : W[i] = entries[i]
      /\ P \in Seq(Row) /\ Len(P) = m /\ \A i \in 1..m : P[i] = entries[i]
      /\ Q \in Seq(Row) /\ Len(Q) = k - m /\ \A i \in 1..(k - m) : Q[i] = entries[i + m]
  <2>1. \A i \in 1..Len(entries) : entries[i] \in Row
    OBVIOUS
  <2>2. W = [i \in 1..k |-> entries[i]] /\ P = [i \in 1..m |-> entries[i]]
    BY <1>1
  <2>3. Q = [i \in 1..(k - m) |-> entries[i + m]]
    BY <1>1
  <2>4. \A i \in 1..(k - m) : i + m \in 1..Len(entries)
    BY <1>1
  <2>5. W \in Seq(Row) /\ Len(W) = k
    BY <1>1, <2>1, <2>2
  <2>6. P \in Seq(Row) /\ Len(P) = m
    BY <1>1, <2>1, <2>2
  <2> HIDE DEF W, P, Q
  <2>7. Q \in Seq(Row) /\ Len(Q) = k - m
    BY <1>1, <2>1, <2>3, <2>4
  <2> QED
    BY <2>2, <2>3, <2>5, <2>6, <2>7
<1> HIDE DEF W, P, Q
<1>3. Passing(W) = {i \in 1..k : kept(i)}
  BY <1>2 DEF Passing
<1>4. Passing(P) = {i \in 1..m : kept(i)}
  BY <1>2 DEF Passing
<1>5. Passing(Q) = {i \in 1..(k - m) : kept(i + m)}
  BY <1>2 DEF Passing
<1> HIDE DEF kept
<1>6. /\ IsFiniteSet(Passing(P)) /\ Cardinality(Passing(P)) \in Nat
      /\ IsFiniteSet(Passing(Q)) /\ Cardinality(Passing(Q)) \in Nat
      /\ IsFiniteSet(Passing(W)) /\ Cardinality(Passing(W)) \in Nat
  BY <1>2, <1>1, FilteredIs
\* How many are kept before a place in the rest.
<1>7. ASSUME NEW j \in 1..(k - m + 1)
      PROVE  /\ Cardinality({x \in Passing(Q) : x < j}) \in Nat
             /\ Cardinality({x \in Passing(W) : x < j + m}) =
                   Cardinality(Passing(P)) + Cardinality({x \in Passing(Q) : x < j})
  <2> DEFINE B == {x \in Passing(Q) : x < j}
             M == {x + m : x \in B}
  <2>1. B \in SUBSET Passing(Q) /\ B \in SUBSET Nat
    BY <1>5
  <2>2. IsFiniteSet(B) /\ Cardinality(B) \in Nat
    BY <2>1, <1>6, FS_Subset, FS_CardinalityType
  <2>3. \A y : y \in M <=> y - m \in B /\ y \in Nat /\ y > m
    BY <1>1, <1>5
  <2>4. {x \in Passing(W) : x < j + m} = Passing(P) \cup M
    <3>1. ASSUME NEW y \in Passing(W), y < j + m PROVE y \in Passing(P) \cup M
      <4>1. CASE y <= m
        BY <1>1, <1>3, <1>4, <4>1
      <4>2. CASE y > m
        <5>1. y - m \in 1..(k - m) /\ y = (y - m) + m /\ y - m < j
          BY <1>1, <1>3, <3>1, <4>2
        <5>2. y - m \in Passing(Q)
          BY <5>1, <1>3, <1>5
        <5> QED
          BY <5>1, <5>2
      <4> QED
        BY <4>1, <4>2, <1>3, <1>1
    <3>2. ASSUME NEW y \in Passing(P) PROVE y \in Passing(W) /\ y < j + m
      BY <1>1, <1>3, <1>4
    <3>3. ASSUME NEW y \in M PROVE y \in Passing(W) /\ y < j + m
      <4>1. PICK x \in B : y = x + m
        OBVIOUS
      <4> QED
        BY <4>1, <1>1, <1>3, <1>5
    <3> QED
      BY <3>1, <3>2, <3>3
  <2> HIDE DEF B
  <2>5. IsFiniteSet(M) /\ Cardinality(M) = Cardinality(B)
    BY <2>1, <2>2, <1>1, MovedCardinality
  <2>6. Passing(P) \cap M = {}
    BY <2>3, <1>4, <1>1
  <2> HIDE DEF M
  <2>7. Cardinality(Passing(P) \cup M) = Cardinality(Passing(P)) + Cardinality(M)
    <3>1. Cardinality(Passing(P) \cup M) =
             Cardinality(Passing(P)) + Cardinality(M) - Cardinality(Passing(P) \cap M)
      BY <2>5, <1>6, FS_Union
    <3>2. Cardinality(Passing(P) \cap M) = 0
      BY <2>6, FS_EmptySet
    <3> QED
      BY <3>1, <3>2, <2>2, <2>5, <1>6
  <2> QED
    BY <2>2, <2>4, <2>5, <2>7 DEF B
<1>8. Cardinality(Passing(W)) = Cardinality(Passing(P)) + Cardinality(Passing(Q))
  <2>1. k - m + 1 \in 1..(k - m + 1)
    BY <1>1
  <2>2. {x \in Passing(Q) : x < k - m + 1} = Passing(Q)
    BY <1>1, <1>5
  <2>3. {x \in Passing(W) : x < (k - m + 1) + m} = Passing(W)
    BY <1>1, <1>3
  <2> QED
    BY <2>1, <2>2, <2>3, <1>7
<1> DEFINE F == Filtered(P) \o Filtered(Q)
<1>9. /\ Filtered(W) \in Seq(Row) /\ Len(Filtered(W)) = Cardinality(Passing(W))
      /\ Filtered(P) \in Seq(Row) /\ Len(Filtered(P)) = Cardinality(Passing(P))
      /\ Filtered(Q) \in Seq(Row) /\ Len(Filtered(Q)) = Cardinality(Passing(Q))
  BY <1>2, FilteredIs
<1>10. /\ F \in Seq(Row) /\ Len(F) = Cardinality(Passing(W))
       /\ \A n \in 1..Cardinality(Passing(P)) : F[n] = Filtered(P)[n]
       /\ \A n \in 1..Cardinality(Passing(Q)) : F[Cardinality(Passing(P)) + n] = Filtered(Q)[n]
  <2>1. ASSUME NEW f \in Seq(Row), NEW g \in Seq(Row)
        PROVE  /\ f \o g \in Seq(Row) /\ Len(f \o g) = Len(f) + Len(g)
               /\ \A n \in 1..Len(f) : (f \o g)[n] = f[n]
               /\ \A n \in 1..Len(g) : (f \o g)[Len(f) + n] = g[n]
    OBVIOUS
  <2>2. /\ F \in Seq(Row) /\ Len(F) = Len(Filtered(P)) + Len(Filtered(Q))
        /\ \A n \in 1..Len(Filtered(P)) : F[n] = Filtered(P)[n]
        /\ \A n \in 1..Len(Filtered(Q)) : F[Len(Filtered(P)) + n] = Filtered(Q)[n]
    BY <1>9, <2>1
  <2> HIDE DEF F
  <2> QED
    BY <1>8, <1>9, <2>2
<1> HIDE DEF F
<1>11. ASSUME NEW n \in 1..Cardinality(Passing(W))
       PROVE  Filtered(W)[n] = F[n]
  <2>1. PICK i \in Passing(W) : Cardinality(PassingBefore(W, i)) = n - 1
    BY <1>2, FilteredIs
  <2>2. Filtered(W)[n] = entries[i]
    <3>1. Filtered(W)[Cardinality(PassingBefore(W, i)) + 1] = W[i]
      BY <1>2, FilteredIs
    <3>2. Cardinality(PassingBefore(W, i)) + 1 = n
      BY <2>1, <1>6
    <3> QED
      BY <3>1, <3>2, <1>2, <1>3
  <2>3. CASE i <= m
    <3>1. i \in Passing(P)
      BY <2>3, <1>1, <1>3, <1>4
    <3>2. PassingBefore(W, i) = PassingBefore(P, i)
      BY <2>3, <1>1, <1>3, <1>4 DEF PassingBefore
    <3>3. /\ Cardinality(PassingBefore(P, i)) + 1 \in 1..Cardinality(Passing(P))
          /\ Filtered(P)[Cardinality(PassingBefore(P, i)) + 1] = P[i]
      BY <1>2, <3>1, FilteredIs
    <3>4. Cardinality(PassingBefore(P, i)) + 1 = n
      BY <2>1, <3>2, <1>6
    <3>5. n \in 1..Cardinality(Passing(P)) /\ Filtered(P)[n] = P[i]
      BY <3>3, <3>4
    <3> QED
      BY <2>2, <3>1, <3>5, <1>10, <1>2, <1>4
  <2>4. CASE i > m
    <3>1. i - m \in Passing(Q) /\ i - m \in 1..(k - m) /\ (i - m) + m = i
      BY <2>4, <1>1, <1>3, <1>5
    <3>2. Cardinality(PassingBefore(W, i)) = Cardinality(Passing(P)) + Cardinality(PassingBefore(Q, i - m))
      <4>1. i - m \in 1..(k - m + 1)
        BY <3>1, <1>1
      <4> QED
        BY <4>1, <3>1, <1>7 DEF PassingBefore
    <3>3. /\ Cardinality(PassingBefore(Q, i - m)) + 1 \in 1..Cardinality(Passing(Q))
          /\ Filtered(Q)[Cardinality(PassingBefore(Q, i - m)) + 1] = Q[i - m]
      BY <1>2, <3>1, FilteredIs
    <3>4. PICK p \in 1..Cardinality(Passing(Q)) : p = Cardinality(PassingBefore(Q, i - m)) + 1
      BY <3>3
    <3>5. Cardinality(PassingBefore(Q, i - m)) \in Nat
      <4>1. i - m \in 1..(k - m + 1)
        BY <3>1, <1>1
      <4> QED
        BY <4>1, <1>7 DEF PassingBefore
    <3>6. Cardinality(Passing(P)) + p = n
      BY <3>2, <3>4, <3>5, <2>1, <1>6
    <3>7. F[n] = Filtered(Q)[p]
      BY <3>6, <1>10
    <3>8. Filtered(Q)[p] = Q[i - m]
      BY <3>3, <3>4
    <3>9. Q[i - m] = entries[i]
      BY <3>1, <1>2
    <3> QED
      BY <2>2, <3>7, <3>8, <3>9
  <2> QED
    BY <2>3, <2>4, <1>1, <1>3
<1>12. Filtered(W) = F
  BY <1>9, <1>10, <1>11
<1> QED
  BY <1>12 DEF F, W, P, Q

-----------------------------------------------------------------------------
\* A list sorted by time.
ByTime == query.sort = "timestamp"

ReadsType ==
    /\ list \in {"scores", "rings", "routes"}
    /\ query \in Query
    /\ list = "rings" => query.sort = "score"
    /\ list = "routes" => query.sort = "timestamp" /\ query.floor = 0
    /\ pending \subseteq Row
    /\ rows \in Seq(Row)
    /\ clock \in 1..(MaxRows + 1)
    /\ walk \in {"idle", "walking", "ended"}
    /\ offset \in Nat
    /\ got \in Seq(Row)
    /\ disturbed \in BOOLEAN

\* A row is inserted once, and a key has one row of each moment.
RowsDistinct ==
    /\ \A i, j \in DOMAIN rows : rows[i] = rows[j] => i = j
    /\ Stored \cap pending = {}
    /\ \A r \in Stored \cup pending : r.at < clock
    /\ \A r, q \in Stored \cup pending : r.key = q.key /\ r.at = q.at => r = q

WalkStarts == walk = "idle" => offset = 0 /\ got = <<>> /\ ~disturbed

\* An undisturbed walk has read what is kept of the list up to the offset, and
\* has not gone beyond its end.
PrefixRead ==
    walk = "walking" /\ ~disturbed =>
        /\ offset <= Len(View)
        /\ got = Filtered(SubSeq(View, 1, offset))

\* In a walk by time, an entry that was there all the while has been read or is
\* still behind the offset.
SteadyBehind ==
    walk = "walking" /\ ByTime /\ query.floor = 0 =>
        \A e \in steady : /\ e \in Listed
                          /\ e \in Read \/ Cardinality(Ahead(Listed, Column)[e]) >= offset

ReadsInv ==
    /\ ReadsType /\ RowsDistinct /\ WalkStarts /\ PrefixRead /\ SteadyBehind
    /\ WalkIsExact /\ NoneSkipped

-----------------------------------------------------------------------------
\* The numbers of the constants.
LEMMA ReadsNumbers ==
    /\ IsFiniteSet(Keys)
    /\ Limit \in Nat /\ Limit >= 1
    /\ MaxRows \in Nat
    /\ \A r \in Row : /\ r.score \in Nat /\ r["score"] = r.score
                      /\ r["confidence"] \in Nat
                      /\ r.at \in 1..MaxRows /\ r["at"] = r.at
                      /\ r.key \in Keys
    /\ \A q \in Query : q.floor \in Nat /\ q.sort \in {"score", "confidence", "timestamp"}
<1>1. /\ IsFiniteSet(Keys) /\ Limit \in Nat /\ Limit >= 1 /\ MaxRows \in Nat
      /\ ScoreValues \subseteq Nat /\ Floors \subseteq Nat
  BY ReadsAssumption DEF ReadsAssumption
<1>2. \A r \in Row : /\ r.score \in ScoreValues \cup {0} /\ r.at \in 1..MaxRows /\ r.key \in Keys
                      /\ r["confidence"] \in ScoreValues \cup {0}
  BY DEF Row
<1>3. \A q \in Query : q.floor \in Floors /\ q.sort \in {"score", "confidence", "timestamp"}
  BY DEF Query
<1>4. \A r \in Row : r["score"] = r.score /\ r["at"] = r.at
  OBVIOUS
<1>5. \A x \in ScoreValues \cup {0} : x \in Nat
  BY <1>1
<1>6. \A q \in Query : q.floor \in Nat
  BY <1>1, <1>3
<1> QED
  BY <1>1, <1>2, <1>3, <1>4, <1>5, <1>6

\* The table is finite, and each stored row has a position in it.
LEMMA StoredIs ==
    ReadsType =>
        /\ Stored \in SUBSET Row /\ IsFiniteSet(Stored)
        /\ Listed \in SUBSET Stored /\ IsFiniteSet(Listed)
        /\ \A r \in Stored : /\ Position(r) \in Nat /\ Position(r) \in DOMAIN rows
                             /\ rows[Position(r)] = r
<1> HAVE ReadsType
<1>1. rows \in Seq(Row) /\ DOMAIN rows = 1..Len(rows) /\ Len(rows) \in Nat
  BY DEF ReadsType
<1>2. Stored \in SUBSET Row
  BY <1>1 DEF Stored
<1>3. IsFiniteSet(Stored)
  <2>1. IsFiniteSet(1..Len(rows))
    BY <1>1, FS_Interval
  <2>2. rows \in Surjection(1..Len(rows), Stored)
    <3>1. rows \in [1..Len(rows) -> Stored]
      BY <1>1 DEF Stored
    <3>2. \A r \in Stored : \E i \in 1..Len(rows) : rows[i] = r
      BY <1>1 DEF Stored
    <3> QED
      BY <3>1, <3>2, Fun_IsSurj
  <2> QED
    BY <2>1, <2>2, FS_Surjection
<1>4. Listed \in SUBSET Stored
  BY DEF Listed, Latest, LatestRings, ReadsType
<1>5. ASSUME NEW r \in Stored
      PROVE  Position(r) \in Nat /\ Position(r) \in DOMAIN rows /\ rows[Position(r)] = r
  <2>1. \E i \in DOMAIN rows : rows[i] = r
    BY DEF Stored
  <2>2. Position(r) \in DOMAIN rows /\ rows[Position(r)] = r
    BY <2>1 DEF Position
  <2> QED
    BY <2>2, <1>1
<1> QED
  BY <1>2, <1>3, <1>4, <1>5, FS_Subset

\* Sorting by a column leaves no two entries equal.
LEMMA ColumnOrders ==
    ASSUME ReadsType, NEW column \in {"score", "confidence", "at"}
    PROVE  Orders(Ahead(Listed, column), Listed)
<1> DEFINE ahead == Ahead(Listed, column)
<1>1. ahead \in [Listed -> SUBSET Listed]
  BY DEF Ahead
<1>2. \A r, q \in Listed : r \in ahead[q] <=>
         \/ r[column] > q[column]
         \/ r[column] = q[column] /\ Position(r) < Position(q)
  BY DEF Ahead
<1>3. \A r \in Listed : r[column] \in Nat
  <2>1. \A r \in Listed : r \in Row
    BY StoredIs
  <2> QED
    BY <2>1, ReadsNumbers
<1>4. \A r \in Listed : Position(r) \in Nat
  BY StoredIs
<1>5. \A r, q \in Listed : r # q => Position(r) # Position(q)
  <2> SUFFICES ASSUME NEW r \in Listed, NEW q \in Listed, Position(r) = Position(q)
               PROVE  r = q
    OBVIOUS
  <2>1. rows[Position(r)] = r /\ rows[Position(q)] = q
    BY StoredIs
  <2> QED
    BY <2>1
<1> HIDE DEF ahead
<1>6. \A a, b, c \in Listed : a \in ahead[b] /\ b \in ahead[c] => a \in ahead[c]
  BY <1>2, <1>3, <1>4
<1>7. \A a \in Listed : a \notin ahead[a]
  BY <1>2, <1>3, <1>4
<1>8. \A a, b \in Listed : a # b => a \in ahead[b] \/ b \in ahead[a]
  BY <1>2, <1>3, <1>4, <1>5
<1> QED
  BY <1>1, <1>6, <1>7, <1>8, StoredIs DEF Orders, ahead

\* The columns there are.
LEMMA SortColumn == ReadsType => Column \in {"score", "confidence", "at"}
  BY DEF ReadsType, Query, Column

\* The list that a request sees: each listed row once, behind those ahead of it.
LEMMA ViewIs ==
    ReadsType =>
        /\ View \in Seq(Row)
        /\ Len(View) = Cardinality(Listed) /\ Len(View) \in Nat
        /\ Entries = Listed
        /\ \A n \in 1..Len(View) : View[n] \in Listed
        /\ \A n \in 1..Len(View) : Cardinality(Ahead(Listed, Column)[View[n]]) = n - 1
        /\ \A e \in Listed :
              /\ Cardinality(Ahead(Listed, Column)[e]) + 1 \in 1..Len(View)
              /\ View[Cardinality(Ahead(Listed, Column)[e]) + 1] = e
        /\ \A i, j \in 1..Len(View) :
              i < j => View[i] \in Ahead(Listed, Column)[View[j]]
<1> HAVE ReadsType
<1> DEFINE ahead == Ahead(Listed, Column)
<1>1. View = InOrder(Listed, ahead)
  BY DEF View, Sorted
<1>2. Orders(ahead, Listed)
  BY SortColumn, ColumnOrders
<1>3. Listed \in SUBSET Row
  BY StoredIs
<1> HIDE DEF ahead
<1>4. /\ Cardinality(Listed) \in Nat
      /\ View \in [1..Cardinality(Listed) -> Listed]
      /\ \A n \in 1..Cardinality(Listed) : Cardinality(ahead[View[n]]) = n - 1
      /\ \A e \in Listed : /\ Cardinality(ahead[e]) + 1 \in 1..Cardinality(Listed)
                           /\ View[Cardinality(ahead[e]) + 1] = e
      /\ \A i, j \in 1..Cardinality(Listed) : i < j => View[i] \in ahead[View[j]]
  BY <1>1, <1>2, InOrderIs
<1>5. View \in Seq(Row) /\ Len(View) = Cardinality(Listed)
  <2>1. \A n \in 1..Cardinality(Listed) : View[n] \in Row
    BY <1>3, <1>4
  <2> QED
    BY <1>4, <2>1
<1>6. Entries = Listed
  BY <1>4 DEF Entries
<1> QED
  BY <1>4, <1>5, <1>6 DEF ahead

\* What a step may be; the proofs below follow this list.
LEMMA ReadStepCases ==
    ASSUME [ReadsNext]_readVars
    PROVE  Stamp \/ Insert \/ Begin \/ ReadPage \/ UNCHANGED readVars
  BY DEF ReadsNext

\* The list changes only when rows are inserted.
LEMMA SameView ==
    ASSUME UNCHANGED <<list, query, rows>>
    PROVE  /\ Stored' = Stored /\ Listed' = Listed /\ View' = View /\ Entries' = Entries
           /\ ByTime' = ByTime /\ Column' = Column
           /\ Ahead(Listed, Column)' = Ahead(Listed, Column)
           /\ \A page : Filtered(page)' = Filtered(page)
<1>1. Stored' = Stored /\ Latest' = Latest /\ LatestRings' = LatestRings
  BY DEF Stored, Latest, LatestRings
<1>2. \A r : Position(r)' = Position(r)
  BY DEF Position
<1>3. \A entries, column : Ahead(entries, column)' = Ahead(entries, column)
  BY <1>2 DEF Ahead
<1>4. \A entries, column : Sorted(entries, column)' = Sorted(entries, column)
  BY <1>3 DEF Sorted
<1>5. Listed' = Listed /\ ByTime' = ByTime
  BY <1>1 DEF Listed, ByTime
<1>6. Column' = Column
  BY DEF Column
<1>7. View' = View
  BY <1>4, <1>5, <1>6 DEF View
<1>8. Entries' = Entries
  BY <1>7 DEF Entries
<1>9. Ahead(Listed, Column)' = Ahead(Listed, Column)
  BY <1>2, <1>5, <1>6 DEF Ahead
<1>10. \A page : Passing(page)' = Passing(page)
  BY DEF Passing
<1>11. \A page : Filtered(page)' = Filtered(page)
  BY <1>10 DEF Filtered
<1> QED
  BY <1>1, <1>5, <1>6, <1>7, <1>8, <1>9, <1>11

\* The rows of one moment, made together, are put behind the others in some
\* order, each once.
LEMMA InsertAppends ==
    ASSUME ReadsType, RowsDistinct, Insert
    PROVE  \E batch \in SUBSET pending : \E inserted \in Seq(batch) :
              /\ pending' = pending \ batch
              /\ rows' = rows \o inserted
              /\ \A i, j \in 1..Len(inserted) : inserted[i] = inserted[j] => i = j
              /\ Stored' = Stored \cup batch
<1>1. PICK moment \in {r.at : r \in pending} :
         LET batch == {r \in pending : r.at = moment} IN
         /\ pending' = pending \ batch
         /\ \E inserted \in SetToSeqs(batch) : rows' = rows \o inserted
  BY DEF Insert
<1> DEFINE batch == {r \in pending : r.at = moment}
           n == Cardinality(batch)
<1>2. batch \in SUBSET pending /\ batch \in SUBSET Row
  BY DEF ReadsType
<1>3. IsFiniteSet(batch) /\ n \in Nat
  <2> DEFINE f == [r \in batch |-> r.key]
  <2>1. f \in [batch -> Keys]
    BY <1>2, ReadsNumbers
  <2>2. \A r, q \in batch : f[r] = f[q] => r = q
    BY DEF RowsDistinct
  <2> HIDE DEF batch, f
  <2>3. f \in Injection(batch, Keys)
    BY <2>1, <2>2, Fun_IsInj
  <2> QED
    BY <2>3, ReadsNumbers, FS_Injection, FS_CardinalityType
<1>4. PICK inserted \in SetToSeqs(batch) : rows' = rows \o inserted
  BY <1>1
<1>5. pending' = pending \ batch
  BY <1>1
<1> HIDE DEF batch
<1>6. /\ inserted \in [1..n -> batch]
      /\ \A i, j \in 1..n : i # j => inserted[i] # inserted[j]
  BY DEF SetToSeqs
<1>7. inserted \in Seq(batch) /\ Len(inserted) = n
  BY <1>3, <1>6
<1>8. \A r \in batch : \E i \in 1..n : inserted[i] = r
  <2>1. inserted \in Injection(1..n, batch)
    BY <1>6, Fun_IsInj
  <2>2. IsFiniteSet(1..n) /\ Cardinality(1..n) = n
    BY <1>3, FS_Interval
  <2>3. inserted \in Surjection(1..n, batch)
    BY <2>1, <2>2, <1>3, FS_Injection
  <2> QED
    BY <2>3 DEF Surjection
<1>9. Stored' = Stored \cup batch
  <2>1. rows \in Seq(Row) /\ Len(rows) \in Nat /\ DOMAIN rows = 1..Len(rows)
    BY DEF ReadsType
  <2>2. /\ DOMAIN rows' = 1..(Len(rows) + n)
        /\ \A i \in 1..Len(rows) : rows'[i] = rows[i]
        /\ \A i \in 1..n : rows'[Len(rows) + i] = inserted[i]
    <3>1. inserted \in Seq(Row)
      BY <1>7, <1>2, <1>6
    <3> QED
      BY <3>1, <2>1, <1>4, <1>7, <1>3
  <2>3. ASSUME NEW r \in Stored' PROVE r \in Stored \cup batch
    <3>1. PICK i \in 1..(Len(rows) + n) : rows'[i] = r
      BY <2>2 DEF Stored
    <3>2. CASE i <= Len(rows)
      BY <3>1, <3>2, <2>1, <2>2 DEF Stored
    <3>3. CASE i > Len(rows)
      <4>1. i - Len(rows) \in 1..n /\ Len(rows) + (i - Len(rows)) = i
        BY <3>3, <2>1, <1>3
      <4> QED
        BY <3>1, <4>1, <2>2, <1>6
    <3> QED
      BY <3>2, <3>3, <2>1, <1>3
  <2>4. ASSUME NEW r \in Stored PROVE r \in Stored'
    <3>1. PICK i \in 1..Len(rows) : rows[i] = r
      BY <2>1 DEF Stored
    <3>2. i \in 1..(Len(rows) + n)
      BY <2>1, <1>3
    <3> QED
      BY <3>1, <3>2, <2>2 DEF Stored
  <2>5. ASSUME NEW r \in batch PROVE r \in Stored'
    <3>1. PICK i \in 1..n : inserted[i] = r
      BY <1>8
    <3>2. Len(rows) + i \in 1..(Len(rows) + n)
      BY <2>1, <1>3
    <3> QED
      BY <3>1, <3>2, <2>2 DEF Stored
  <2> QED
    BY <2>3, <2>4, <2>5
<1> QED
  BY <1>2, <1>4, <1>5, <1>6, <1>7, <1>9

\* A page as the client gets it: what is kept of the part of the list between two places.
PageEnd == IF offset + Limit < Len(View) THEN offset + Limit ELSE Len(View)

\* A request hands on rows of the list; from a list without a filter after the
\* query, all of the page.
LEMMA PageIs ==
    ASSUME ReadsType
    PROVE  /\ PageRead = SubSeq(View, offset + 1, PageEnd) /\ PageRead \in Seq(Row)
           /\ \A n \in Nat : SubSeq(View, n + 1, PageEnd) \in Seq(Row)
           /\ list # "scores" \/ query.floor = 0 =>
                 \A r \in Listed : r.score >= query.floor
           /\ list # "scores" \/ query.floor = 0 => Filtered(PageRead) = PageRead
<1>1. View \in Seq(Row) /\ Len(View) \in Nat /\ \A n \in 1..Len(View) : View[n] \in Listed
  BY ViewIs
<1>2. PageRead = SubSeq(View, offset + 1, PageEnd)
  BY DEF PageRead, PageEnd
<1>3. offset \in Nat /\ Limit \in Nat /\ PageEnd \in Nat /\ PageEnd <= Len(View)
  BY <1>1, ReadsNumbers DEF ReadsType, PageEnd
<1>4. ASSUME NEW n \in Nat
      PROVE  /\ SubSeq(View, n + 1, PageEnd) \in Seq(Row)
             /\ \A i \in DOMAIN SubSeq(View, n + 1, PageEnd) :
                   SubSeq(View, n + 1, PageEnd)[i] \in Listed
  <2> DEFINE p == SubSeq(View, n + 1, PageEnd)
             m == IF PageEnd >= n THEN PageEnd - n ELSE 0
  <2>1. p = [i \in 1..m |-> View[n + i]] /\ m \in Nat
    BY <1>1, <1>3
  <2>2. \A i \in 1..m : n + i \in 1..Len(View)
    BY <1>3, <1>1
  <2>3. \A i \in 1..m : View[n + i] \in Listed /\ View[n + i] \in Row
    BY <2>2, <1>1
  <2> HIDE DEF p, m
  <2>4. p \in Seq(Row) /\ DOMAIN p = 1..m
    <3>1. p \in [1..m -> Row]
      BY <2>1, <2>3
    <3>2. m \in Nat
      BY <2>1
    <3> QED
      BY <3>1, <3>2
  <2>5. \A i \in DOMAIN p : p[i] \in Listed
    BY <2>1, <2>3, <2>4
  <2> QED
    BY <2>4, <2>5 DEF p
<1>5. ASSUME list # "scores" \/ query.floor = 0
      PROVE  \A r \in Listed : r.score >= query.floor
  <2>1. CASE list = "rings"
    BY <2>1 DEF Listed, LatestRings
  <2>2. CASE query.floor = 0
    <3>1. \A r \in Listed : r \in Row
      BY StoredIs
    <3> QED
      BY <2>2, <3>1, ReadsNumbers
  <2> QED
    BY <1>5, <2>1, <2>2 DEF ReadsType
<1>6. ASSUME list # "scores" \/ query.floor = 0
      PROVE  Filtered(PageRead) = PageRead
  <2>1. PageRead \in Seq(Row) /\ \A i \in DOMAIN PageRead : PageRead[i] \in Listed
    BY <1>2, <1>3, <1>4
  <2> QED
    BY <2>1, <1>5, <1>6, AllKept
<1> QED
  BY <1>2, <1>3, <1>4, <1>5, <1>6

\* The initial table is empty, and nobody reads.
LEMMA InitReads == ReadsInit => ReadsInv
<1> SUFFICES ASSUME ReadsInit PROVE ReadsInv
  OBVIOUS
<1>1. ReadsType
  <2>1. rows \in Seq(Row) /\ got \in Seq(Row) /\ pending \subseteq Row
    BY DEF ReadsInit
  <2>2. clock \in 1..(MaxRows + 1) /\ offset \in Nat
    BY ReadsNumbers DEF ReadsInit
  <2> QED
    BY <2>1, <2>2 DEF ReadsInit, ReadsType
<1>2. RowsDistinct
  <2>1. Stored = {} /\ pending = {}
    BY DEF ReadsInit, Stored
  <2> QED
    BY <2>1 DEF RowsDistinct, ReadsInit
<1> QED
  BY <1>1, <1>2
  DEF ReadsInv, ReadsInit, WalkStarts, PrefixRead, SteadyBehind, WalkIsExact, NoneSkipped

\* Rows that are made and not inserted are of a new moment, and change no list.
LEMMA StampReads ==
    ASSUME ReadsInv, Stamp
    PROVE  ReadsInv'
<1>1. PICK about \in (SUBSET Keys) \ {{}} :
         \E score \in [about -> Scores], confidence \in [about -> Confidences] :
            pending' = pending \cup
              {[key |-> k, score |-> score[k], confidence |-> confidence[k], at |-> clock] :
                 k \in about}
  BY DEF Stamp
<1>2. PICK score \in [about -> Scores], confidence \in [about -> Confidences] :
         pending' = pending \cup
           {[key |-> k, score |-> score[k], confidence |-> confidence[k], at |-> clock] :
              k \in about}
  BY <1>1
<1> DEFINE fresh ==
        {[key |-> k, score |-> score[k], confidence |-> confidence[k], at |-> clock] : k \in about}
<1>3. /\ clock <= MaxRows /\ clock' = clock + 1
      /\ UNCHANGED <<list, query, rows, walk, offset, got, disturbed, steady>>
  BY DEF Stamp, client, history
<1>4. clock \in 1..MaxRows /\ MaxRows \in Nat
  BY <1>3, ReadsNumbers DEF ReadsInv, ReadsType
<1>5. fresh \in SUBSET Row
  <2>1. \A k \in about : /\ score[k] \in ScoreValues \cup {0}
                          /\ confidence[k] \in ScoreValues \cup {0}
    BY DEF Scores, Confidences
  <2> QED
    BY <1>4, <2>1 DEF Row
<1>6. \A r \in fresh : r.at = clock
  OBVIOUS
<1>7. \A r, q \in fresh : r.key = q.key => r = q
  OBVIOUS
<1>8. pending' = pending \cup fresh
  BY <1>2
<1> HIDE DEF fresh
<1>9. ReadsType'
  BY <1>3, <1>4, <1>5, <1>8 DEF ReadsInv, ReadsType
<1>10. Stored' = Stored /\ Listed' = Listed /\ View' = View /\ Entries' = Entries
       /\ ByTime' = ByTime /\ Ahead(Listed, Column)' = Ahead(Listed, Column)
       /\ \A page : Filtered(page)' = Filtered(page)
  BY <1>3, SameView
<1>11. RowsDistinct'
  <2>1. \A r \in Stored \cup pending : r \in Row
    BY StoredIs DEF ReadsInv, ReadsType
  <2>2. \A r \in Stored \cup pending : r.at \in Nat /\ r.at < clock
    BY <2>1, ReadsNumbers DEF ReadsInv, RowsDistinct
  <2>3. Stored \cap fresh = {}
    BY <2>2, <1>4, <1>6
  <2>4. \A i, j \in DOMAIN rows' : rows'[i] = rows'[j] => i = j
    BY <1>3 DEF ReadsInv, RowsDistinct
  <2>5. Stored' \cap pending' = {}
    BY <1>8, <1>10, <2>3 DEF ReadsInv, RowsDistinct
  <2>6. \A r \in Stored' \cup pending' : r.at < clock'
    BY <1>3, <1>4, <1>6, <1>8, <1>10, <2>2
  <2>7. \A r, q \in Stored' \cup pending' : r.key = q.key /\ r.at = q.at => r = q
    <3> SUFFICES ASSUME NEW r \in Stored' \cup pending', NEW q \in Stored' \cup pending',
                        r.key = q.key, r.at = q.at
                 PROVE  r = q
      OBVIOUS
    <3>1. CASE r \in fresh /\ q \in fresh
      BY <3>1, <1>7
    <3>2. CASE r \in Stored \cup pending /\ q \in Stored \cup pending
      BY <3>2 DEF ReadsInv, RowsDistinct
    <3>3. ~ (r \in fresh /\ q \in Stored \cup pending)
      BY <1>4, <1>6, <2>2
    <3>4. ~ (q \in fresh /\ r \in Stored \cup pending)
      BY <1>4, <1>6, <2>2
    <3> QED
      BY <3>1, <3>2, <3>3, <3>4, <1>8, <1>10
  <2> QED
    BY <2>4, <2>5, <2>6, <2>7 DEF RowsDistinct
<1>12. WalkStarts' /\ PrefixRead' /\ SteadyBehind' /\ WalkIsExact' /\ NoneSkipped'
  BY <1>3, <1>10 DEF ReadsInv, WalkStarts, PrefixRead, SteadyBehind, WalkIsExact, NoneSkipped, Read, Reached
<1> QED
  BY <1>9, <1>11, <1>12 DEF ReadsInv

\* A walk begins with nothing read and all of the list behind its offset.
LEMMA BeginReads ==
    ASSUME ReadsInv, Begin
    PROVE  ReadsInv'
<1>1. /\ walk = "idle" /\ walk' = "walking" /\ steady' = Entries
      /\ UNCHANGED <<list, query, pending, rows, clock, offset, got, disturbed>>
  BY DEF Begin, table
<1>2. offset = 0 /\ got = <<>>
  BY <1>1 DEF ReadsInv, WalkStarts
<1>3. Stored' = Stored /\ Listed' = Listed /\ View' = View
      /\ ByTime' = ByTime /\ Ahead(Listed, Column)' = Ahead(Listed, Column)
      /\ \A page : Filtered(page)' = Filtered(page)
  BY <1>1, SameView
<1>4. ReadsType' /\ RowsDistinct' /\ WalkStarts'
  BY <1>1, <1>3 DEF ReadsInv, ReadsType, RowsDistinct, WalkStarts
<1>5. View \in Seq(Row) /\ Len(View) \in Nat /\ Entries = Listed
  BY ViewIs DEF ReadsInv
<1>6. PrefixRead'
  <2>1. SubSeq(View, 1, 0) = <<>>
    BY <1>5
  <2>2. Filtered(<<>>) = <<>>
    <3>1. <<>> \in Seq(Row) /\ \A i \in DOMAIN <<>> : <<>>[i].score >= query.floor
      OBVIOUS
    <3> QED
      BY <3>1, AllKept
  <2> QED
    <3>1. View' = View /\ offset' = 0 /\ got' = <<>>
      BY <1>1, <1>2, <1>3
    <3>2. Filtered(SubSeq(View, 1, 0))' = Filtered(SubSeq(View, 1, 0))
      BY <1>3
    <3>3. PrefixRead' <=> (walk' = "walking" /\ ~disturbed' =>
             offset' <= Len(View') /\ got' = Filtered(SubSeq(View, 1, offset))')
      BY DEF PrefixRead
    <3>4. Filtered(SubSeq(View, 1, offset))' = Filtered(<<>>)'
      BY <2>1, <3>1
    <3>5. Filtered(<<>>)' = Filtered(<<>>)
      BY <1>3
    <3> QED
      BY <3>1, <3>3, <3>4, <3>5, <1>5, <2>2
<1>7. SteadyBehind'
  <2>1. \A e \in Listed : Cardinality(Ahead(Listed, Column)[e]) >= 0
    <3>1. Orders(Ahead(Listed, Column), Listed)
      BY SortColumn, ColumnOrders DEF ReadsInv
    <3> QED
      BY <3>1, RankRises
  <2> QED
    BY <1>1, <1>2, <1>3, <1>5, <2>1 DEF SteadyBehind
<1>8. WalkIsExact' /\ NoneSkipped'
  BY <1>1 DEF WalkIsExact, NoneSkipped
<1> QED
  BY <1>4, <1>6, <1>7, <1>8 DEF ReadsInv

\* In a list sorted by score, what comes after an entry below the floor is below it too.
LEMMA BelowStays ==
    ASSUME ReadsType, query.sort = "score",
           NEW i \in 1..Len(View), ~ (View[i].score >= query.floor)
    PROVE  \A j \in 1..Len(View) : j >= i => ~ (View[j].score >= query.floor)
<1>0. Len(View) \in Nat
  BY ViewIs
<1> SUFFICES ASSUME NEW j \in 1..Len(View), j > i
             PROVE  ~ (View[j].score >= query.floor)
  <2>1. \A j \in 1..Len(View) : j >= i => j = i \/ j > i
    BY <1>0
  <2> QED
    BY <2>1
<1>1. View[i] \in Ahead(Listed, "score")[View[j]]
  <2>1. Column = "score"
    BY DEF Column
  <2> QED
    BY <2>1, ViewIs
<1>2. View[i] \in Listed /\ View[j] \in Listed /\ Listed \in SUBSET Row
  BY ViewIs, StoredIs
<1>3. View[i].score \in Nat /\ View[j].score \in Nat /\ query.floor \in Nat
  BY <1>2, ReadsNumbers DEF ReadsType
<1>4. View[i]["score"] >= View[j]["score"]
  <2>1. View[i]["score"] > View[j]["score"] \/ View[i]["score"] = View[j]["score"]
    BY <1>1, <1>2 DEF Ahead
  <2> QED
    BY <2>1, <1>2, <1>3, ReadsNumbers
<1>5. View[i].score >= View[j].score
  BY <1>2, <1>4, ReadsNumbers
<1> QED
  BY <1>3, <1>5

\* A page is joined to those before it; one that is not full ends the walk.
LEMMA PageReads ==
    ASSUME ReadsInv, ReadPage
    PROVE  ReadsInv'
<1> DEFINE n == PageEnd
           raw == SubSeq(View, offset + 1, n)
           page == Filtered(raw)
<1>0. ReadsType /\ list \in {"scores", "rings", "routes"} /\ offset \in Nat
  BY DEF ReadsInv, ReadsType
<1>1. raw = PageRead /\ raw \in Seq(Row)
  BY <1>0, PageIs
<1>2. /\ walk = "walking" /\ walk' = (IF Len(page) < Limit THEN "ended" ELSE "walking")
      /\ got' = got \o page /\ offset' = offset + Limit
      /\ UNCHANGED <<list, query, pending, rows, clock, disturbed, steady>>
  <2>1. list # "scores" => Filtered(PageRead) = PageRead
    BY <1>0, PageIs
  <2> QED
    BY <1>1, <2>1 DEF ReadPage, table, history
<1>3. Stored' = Stored /\ Listed' = Listed /\ View' = View
      /\ ByTime' = ByTime /\ Ahead(Listed, Column)' = Ahead(Listed, Column)
      /\ \A p : Filtered(p)' = Filtered(p)
  BY <1>2, SameView
<1>4. View \in Seq(Row) /\ Len(View) \in Nat
  BY <1>0, ViewIs
<1>5. /\ Limit \in Nat /\ Limit >= 1 /\ n \in Nat /\ n <= Len(View) /\ n <= offset + Limit
      /\ n < Len(View) => n = offset + Limit
  BY <1>0, <1>4, ReadsNumbers DEF PageEnd
<1>6. Len(raw) = IF n >= offset THEN n - offset ELSE 0
  BY <1>0, <1>4, <1>5
<1>7. page \in Seq(Row) /\ Len(page) = Cardinality(Passing(raw)) /\ Len(page) \in 0..Len(raw)
  BY <1>1, FilteredIs
<1>8. ReadsType' /\ RowsDistinct' /\ WalkStarts'
  <2>1. got' \in Seq(Row)
    BY <1>2, <1>7 DEF ReadsInv, ReadsType
  <2>2. offset' \in Nat /\ walk' \in {"walking", "ended"}
    BY <1>0, <1>2, <1>5
  <2> QED
    BY <1>2, <1>3, <2>1, <2>2 DEF ReadsInv, ReadsType, RowsDistinct, WalkStarts
<1> HIDE DEF n, raw, page
<1>9. walk' = "walking" => n = offset + Limit /\ Len(raw) = Limit
  BY <1>0, <1>2, <1>5, <1>6, <1>7
<1>10. ASSUME ~disturbed
       PROVE  /\ offset <= n
              /\ got' = Filtered(SubSeq(View, 1, n))
  <2>1. offset <= Len(View) /\ got = Filtered(SubSeq(View, 1, offset))
    BY <1>2, <1>10 DEF ReadsInv, PrefixRead
  <2>2. offset <= n
    BY <1>0, <1>4, <1>5, <2>1
  <2>3. offset \in 0..Len(View) /\ n \in offset..Len(View)
    BY <1>0, <1>4, <1>5, <2>1, <2>2
  <2>4. Filtered(SubSeq(View, 1, n)) = Filtered(SubSeq(View, 1, offset)) \o page
    BY <1>4, <2>3, FilteredJoins DEF raw, page
  <2> QED
    BY <1>2, <2>1, <2>2, <2>4
<1>11. PrefixRead'
  <2>1. ASSUME walk' = "walking", ~disturbed
        PROVE  offset' <= Len(View) /\ got' = Filtered(SubSeq(View, 1, offset'))
    BY <2>1, <1>2, <1>5, <1>9, <1>10
  <2> QED
    BY <2>1, <1>2, <1>3 DEF PrefixRead
\* A page that is not full was the end of the list, or met an entry below the floor.
<1>12. WalkIsExact'
  <2> SUFFICES ASSUME walk' = "ended", ~disturbed
               PROVE  /\ got' = Filtered(SubSeq(View, 1, n))
                      /\ (list = "scores" /\ query.floor > 0 => query.sort = "score") =>
                            got' = Filtered(View)
    <3>1. Reached' = n
      BY <1>0, <1>2, <1>3, <1>4 DEF Reached, n, PageEnd
    <3> QED
      BY <3>1, <1>2, <1>3 DEF WalkIsExact
  <2>a. SUFFICES ASSUME list = "scores" /\ query.floor > 0 => query.sort = "score"
                 PROVE  got' = Filtered(View)
    BY <1>10
  <2>1. offset <= n /\ got' = Filtered(SubSeq(View, 1, n))
    BY <1>10
  <2>2. Len(page) < Limit
    BY <1>2
  <2>3. CASE n = Len(View)
    <3>1. SubSeq(View, 1, Len(View)) = View
      BY <1>4
    <3> QED
      BY <2>1, <2>3, <3>1
  <2>4. CASE n < Len(View)
    <3> DEFINE rest == SubSeq(View, n + 1, Len(View))
    <3>1. n = offset + Limit /\ Len(raw) = Limit
      BY <2>4, <1>0, <1>5, <1>6
    <3>2. PICK i \in 1..Limit : ~ (raw[i].score >= query.floor)
      <4> SUFFICES ASSUME \A i \in 1..Limit : raw[i].score >= query.floor PROVE FALSE
        OBVIOUS
      <4>1. page = raw
        BY <3>1, <1>1, AllKept DEF page
      <4> QED
        BY <4>1, <3>1, <2>2, <1>5
    <3>3. raw[i] = View[offset + i] /\ offset + i \in 1..n /\ offset + i \in 1..Len(View)
      <4>1. raw = SubSeq(View, offset + 1, n)
        BY DEF raw
      <4> QED
        BY <4>1, <3>1, <1>0, <1>4, <1>5
    <3>4. query.sort = "score"
      <4>1. View[offset + i] \in Listed
        BY <3>3, <1>0, ViewIs
      <4>2. ~ (list # "scores" \/ query.floor = 0)
        BY <4>1, <3>2, <3>3, <1>0, PageIs
      <4>3. query.floor \in Nat
        BY <1>0, ReadsNumbers DEF ReadsType
      <4> QED
        BY <2>a, <4>2, <4>3
    <3>5. \A j \in 1..Len(View) : j >= offset + i => ~ (View[j].score >= query.floor)
      BY <3>2, <3>3, <3>4, <1>0, BelowStays
    <3>6. rest \in Seq(Row) /\ Filtered(rest) = <<>>
      <4>1. /\ rest \in Seq(Row) /\ Len(rest) = Len(View) - n
            /\ \A j \in 1..(Len(View) - n) : rest[j] = View[n + j] /\ n + j \in 1..Len(View)
        BY <2>4, <1>4, <1>5
      <4> HIDE DEF rest
      <4>2. \A j \in 1..(Len(View) - n) : ~ (rest[j].score >= query.floor)
        <5> SUFFICES ASSUME NEW j \in 1..(Len(View) - n)
                     PROVE  ~ (rest[j].score >= query.floor)
          OBVIOUS
        <5>1. n + j \in 1..Len(View) /\ rest[j] = View[n + j]
          BY <4>1
        <5>2. n + j >= offset + i
          BY <3>3, <1>0, <1>4, <1>5
        <5> QED
          BY <5>1, <5>2, <3>5
      <4>3. Passing(rest) = {}
        BY <4>1, <4>2 DEF Passing
      <4>4. Filtered(rest) \in Seq(Row) /\ Len(Filtered(rest)) = 0
        BY <4>1, <4>3, FilteredIs, FS_EmptySet
      <4> QED
        BY <4>1, <4>4
    <3>7. Filtered(View) = Filtered(SubSeq(View, 1, n)) \o Filtered(rest)
      <4>1. n \in 0..Len(View) /\ Len(View) \in n..Len(View)
        BY <1>4, <1>5
      <4>2. SubSeq(View, 1, Len(View)) = View
        BY <1>4
      <4> QED
        BY <4>1, <4>2, <1>4, FilteredJoins
    <3>8. got' \in Seq(Row)
      BY <1>8 DEF ReadsType
    <3> QED
      BY <2>1, <3>6, <3>7, <3>8
  <2> QED
    BY <2>3, <2>4, <1>4, <1>5
\* What the page held has been read, the rest is behind it.
<1>13. ASSUME ByTime, query.floor = 0, NEW e \in steady
       PROVE  /\ e \in Listed
              /\ \/ e \in Read'
                 \/ walk' = "walking" /\ Cardinality(Ahead(Listed, Column)[e]) >= offset'
  <2> DEFINE r == Cardinality(Ahead(Listed, Column)[e])
  <2>1. e \in Listed /\ (e \in Read \/ r >= offset)
    BY <1>2, <1>13 DEF ReadsInv, SteadyBehind
  <2>2. r + 1 \in 1..Len(View) /\ View[r + 1] = e
    BY <2>1, <1>0, ViewIs
  <2>3. page = raw
    BY <1>0, <1>1, <1>13, PageIs DEF page
  <2>4. got' = got \o raw /\ got \in Seq(Row)
    BY <1>2, <2>3 DEF ReadsInv, ReadsType
  <2>5. /\ DOMAIN got' = 1..(Len(got) + Len(raw)) /\ Len(got) \in Nat /\ Len(raw) \in Nat
        /\ \A i \in 1..Len(got) : got'[i] = got[i]
        /\ \A i \in 1..Len(raw) : got'[Len(got) + i] = raw[i]
    BY <2>4, <1>1
  <2>6. CASE e \in Read
    <3>1. PICK i \in DOMAIN got : got[i] = e
      BY <2>6 DEF Read
    <3>2. i \in 1..Len(got)
      BY <2>4
    <3>3. i \in DOMAIN got' /\ got'[i] = e
      BY <3>1, <3>2, <2>5
    <3> QED
      BY <3>3, <2>1 DEF Read
  <2> HIDE DEF r
  <2>7. r \in Nat
    <3>1. Orders(Ahead(Listed, Column), Listed)
      BY <1>0, SortColumn, ColumnOrders
    <3> QED
      BY <3>1, <2>1, RankRises DEF r
  <2>8. CASE r >= offset /\ r < n
    <3>1. r + 1 - offset \in 1..Len(raw) /\ raw[r + 1 - offset] = View[r + 1]
      <4>1. raw = SubSeq(View, offset + 1, n)
        BY DEF raw
      <4> QED
        <5>1. r + 1 - offset \in 1..Len(raw) /\ offset + (r + 1 - offset) = r + 1
          BY <2>7, <2>8, <1>0, <1>5, <1>6
        <5>2. \A i \in 1..Len(raw) : raw[i] = View[offset + i]
          BY <4>1, <1>0, <1>4, <1>5, <1>6
        <5> QED
          BY <5>1, <5>2
    <3>2. PICK i \in 1..Len(raw) : raw[i] = e
      BY <3>1, <2>2
    <3>3. Len(got) + i \in DOMAIN got' /\ got'[Len(got) + i] = e
      BY <3>2, <2>5
    <3> QED
      BY <3>3, <2>1 DEF Read
  <2>9. CASE r >= offset /\ r >= n
    <3>1. n < Len(View) /\ n = offset + Limit
      BY <2>2, <2>7, <2>9, <1>4, <1>5
    <3>2. Len(page) = Limit
      BY <3>1, <2>3, <1>0, <1>5, <1>6
    <3>3. walk' = "walking"
      BY <3>2, <1>2, <1>5
    <3> QED
      BY <2>1, <2>9, <3>1, <3>3, <1>2 DEF r
  <2> QED
    BY <2>1, <2>6, <2>7, <2>8, <2>9, <1>5 DEF r
<1>14. SteadyBehind'
  BY <1>2, <1>3, <1>13 DEF SteadyBehind
<1>15. NoneSkipped'
  <2> SUFFICES ASSUME walk' = "ended",
                      query = [sort |-> "timestamp", floor |-> 0]
               PROVE  steady \subseteq Read'
    BY <1>2 DEF NoneSkipped
  <2>1. ByTime /\ query.floor = 0
    BY <1>0 DEF ReadsType, ByTime
  <2> QED
    BY <2>1, <1>13
<1> QED
  BY <1>8, <1>11, <1>12, <1>14, <1>15 DEF ReadsInv

\* Some row about a key is the newest.
LEMMA NewestOfKey ==
    ASSUME NEW S \in SUBSET Row, IsFiniteSet(S), NEW q \in S
    PROVE  \E r \in S : r.key = q.key /\ \A x \in S : x.key = q.key => x.at <= r.at
<1> DEFINE T == {x \in S : x.key = q.key}
           times == {x.at : x \in T}
           later == [t \in times |-> {u \in times : u > t}]
<1>1. \A t \in times : t \in 1..MaxRows
  BY ReadsNumbers
<1>2. IsFiniteSet(times)
  <2>1. times \in SUBSET (1..MaxRows)
    BY <1>1
  <2>2. IsFiniteSet(1..MaxRows)
    <3>1. MaxRows \in Nat
      BY ReadsNumbers
    <3> QED
      BY <3>1, FS_Interval
  <2> QED
    BY <2>1, <2>2, FS_Subset
<1>3. q.at \in times
  OBVIOUS
<1> HIDE DEF times
<1>4. Orders(later, times)
  <2>1. later \in [times -> SUBSET times] /\ \A t, u \in times : u \in later[t] <=> u > t
    OBVIOUS
  <2>2. \A t \in times : t \in Nat
    BY <1>1, ReadsNumbers
  <2> HIDE DEF later
  <2>3. \A a, b, c \in times : a \in later[b] /\ b \in later[c] => a \in later[c]
    BY <2>1, <2>2
  <2>4. \A a \in times : a \notin later[a]
    BY <2>1, <2>2
  <2>5. \A a, b \in times : a # b => a \in later[b] \/ b \in later[a]
    BY <2>1, <2>2
  <2> QED
    BY <1>2, <2>1, <2>3, <2>4, <2>5 DEF Orders
<1>5. PICK t \in times : Cardinality(later[t]) = 0
  <2>1. Cardinality(times) \in Nat /\ Cardinality(times) # 0
    BY <1>2, <1>3, FS_EmptySet, FS_CardinalityType
  <2>2. 0 \in 0..(Cardinality(times) - 1)
    BY <2>1
  <2> HIDE DEF later
  <2> QED
    BY <2>2, <1>4, RankIsOnto
<1>6. later[t] = {}
  <2>1. later[t] \in SUBSET times
    BY <1>4 DEF Orders
  <2> QED
    BY <2>1, <1>2, <1>5, FS_Subset, FS_EmptySet
<1>7. \A u \in times : u <= t
  <2> SUFFICES ASSUME NEW u \in times PROVE u <= t
    OBVIOUS
  <2>1. ~ (u > t)
    BY <1>6
  <2> QED
    BY <2>1, <1>1, ReadsNumbers
<1>8. PICK r \in T : r.at = t
  BY DEF times
<1>9. \A x \in T : x.at <= r.at
  BY <1>7, <1>8 DEF times
<1> QED
  BY <1>8, <1>9

\* What the next lemmas use of the list in the state after a step, too.
ListFacts ==
    /\ Entries = Listed
    /\ Listed \in SUBSET Stored
    /\ IsFiniteSet(Stored)
    /\ Stored \in SUBSET Row
    /\ \A e \in Listed : Cardinality(Ahead(Listed, Column)[e]) \in Nat
LEMMA ListIs == ReadsType => ListFacts
<1> HAVE ReadsType
<1>1. Orders(Ahead(Listed, Column), Listed)
  BY SortColumn, ColumnOrders
<1>2. \A e \in Listed : Cardinality(Ahead(Listed, Column)[e]) \in Nat
  BY <1>1, RankRises
<1> QED
  BY <1>2, ViewIs, StoredIs DEF ListFacts

\* Rows are inserted where no others are, and keep their positions.
LEMMA InsertKeeps ==
    ASSUME ReadsType, RowsDistinct, Insert
    PROVE  /\ ReadsType' /\ RowsDistinct'
           /\ Stored \in SUBSET Stored'
           /\ \A r \in Stored : Position(r)' = Position(r)
<1>1. PICK batch \in SUBSET pending : \E inserted \in Seq(batch) :
         /\ pending' = pending \ batch
         /\ rows' = rows \o inserted
         /\ \A i, j \in 1..Len(inserted) : inserted[i] = inserted[j] => i = j
         /\ Stored' = Stored \cup batch
  BY InsertAppends
<1>2. PICK inserted \in Seq(batch) :
         /\ rows' = rows \o inserted
         /\ \A i, j \in 1..Len(inserted) : inserted[i] = inserted[j] => i = j
  BY <1>1
<1>3. pending' = pending \ batch /\ Stored' = Stored \cup batch
  BY <1>1
<1>4. UNCHANGED <<list, query, clock, walk, offset, got>> /\ disturbed' \in BOOLEAN
  BY DEF Insert, client
<1>5. /\ rows \in Seq(Row) /\ DOMAIN rows = 1..Len(rows) /\ Len(rows) \in Nat
      /\ \A i \in 1..Len(rows) : rows[i] \in Stored
  BY DEF ReadsType, Stored
<1>6. /\ inserted \in Seq(Row) /\ Len(inserted) \in Nat
      /\ \A i \in 1..Len(inserted) : inserted[i] \in batch
  <2>1. inserted \in Seq(batch) /\ batch \in SUBSET Row
    BY <1>2 DEF ReadsType
  <2> QED
    BY <2>1
<1>7. /\ rows' \in Seq(Row) /\ DOMAIN rows' = 1..(Len(rows) + Len(inserted))
      /\ \A i \in 1..Len(rows) : rows'[i] = rows[i]
      /\ \A i \in 1..(Len(rows) + Len(inserted)) :
            i > Len(rows) => rows'[i] = inserted[i - Len(rows)]
  BY <1>2, <1>5, <1>6
<1>8. ReadsType'
  BY <1>3, <1>4, <1>7 DEF ReadsType
<1>9. Stored \cap batch = {}
  BY DEF RowsDistinct
<1>10. \A i, j \in DOMAIN rows' : rows'[i] = rows'[j] => i = j
  <2> SUFFICES ASSUME NEW i \in DOMAIN rows', NEW j \in DOMAIN rows', rows'[i] = rows'[j]
               PROVE  i = j
    OBVIOUS
  <2>1. i \in 1..(Len(rows) + Len(inserted)) /\ j \in 1..(Len(rows) + Len(inserted))
    BY <1>7
  <2>2. CASE i <= Len(rows) /\ j <= Len(rows)
    <3>1. i \in DOMAIN rows /\ j \in DOMAIN rows /\ rows[i] = rows[j]
      BY <2>1, <2>2, <1>5, <1>7
    <3> QED
      BY <3>1 DEF RowsDistinct
  <2>3. CASE i > Len(rows) /\ j > Len(rows)
    <3>1. /\ i - Len(rows) \in 1..Len(inserted) /\ j - Len(rows) \in 1..Len(inserted)
          /\ inserted[i - Len(rows)] = inserted[j - Len(rows)]
      BY <2>1, <2>3, <1>5, <1>6, <1>7
    <3>2. i - Len(rows) = j - Len(rows)
      BY <3>1, <1>2
    <3> QED
      BY <3>2, <2>1, <1>5, <1>6
  <2>4. ASSUME NEW a \in 1..(Len(rows) + Len(inserted)), NEW b \in 1..(Len(rows) + Len(inserted)),
               a <= Len(rows), b > Len(rows)
        PROVE  rows'[a] # rows'[b]
    <3>1. a \in 1..Len(rows) /\ b - Len(rows) \in 1..Len(inserted)
      BY <2>4, <1>5, <1>6
    <3>2. rows'[a] \in Stored /\ rows'[b] \in batch
      BY <3>1, <2>4, <1>5, <1>6, <1>7
    <3> QED
      BY <3>2, <1>9
  <2> QED
    BY <2>1, <2>2, <2>3, <2>4, <1>5, <1>6
<1>11. RowsDistinct'
  <2>1. Stored' \cup pending' = Stored \cup pending
    BY <1>3
  <2>2. Stored' \cap pending' = {}
    BY <1>3 DEF RowsDistinct
  <2> QED
    BY <1>4, <1>10, <2>1, <2>2 DEF RowsDistinct
<1>12. ASSUME NEW r \in Stored PROVE Position(r)' = Position(r)
  <2>1. Position(r) \in DOMAIN rows' /\ rows'[Position(r)] = r
    <3>1. Position(r) \in 1..Len(rows) /\ rows[Position(r)] = r
      BY StoredIs, <1>5
    <3> QED
      BY <3>1, <1>5, <1>6, <1>7
  <2>2. Position(r)' = CHOOSE i \in DOMAIN rows' : rows'[i] = r
    BY DEF Position
  <2> QED
    BY <2>1, <2>2, <1>10
<1> QED
  BY <1>3, <1>8, <1>11, <1>12

\* In a list by time, an insertion leaves no fewer entries ahead of one that stays.
LEMMA AheadGrows ==
    ASSUME ReadsType, RowsDistinct, Insert, ByTime, NEW e \in Listed, e \in Listed'
    PROVE  Cardinality(Ahead(Listed, Column)[e])' >= Cardinality(Ahead(Listed, Column)[e])
<1> DEFINE A == {r \in Listed : \/ r["at"] > e["at"]
                                \/ r["at"] = e["at"] /\ Position(r) < Position(e)}
           B == {r \in Listed' : \/ r["at"] > e["at"]
                                 \/ r["at"] = e["at"] /\ Position(r)' < Position(e)'}
<1>1. /\ ReadsType' /\ RowsDistinct' /\ Stored \in SUBSET Stored'
      /\ \A r \in Stored : Position(r)' = Position(r)
  BY InsertKeeps
<1>2. ListFacts /\ ListFacts'
  <2>1. ReadsType' => ListFacts'
    BY ListIs, PTL
  <2> QED
    BY <2>1, <1>1, ListIs
<1>3. list' = list /\ query' = query /\ ByTime'
  BY DEF Insert, ByTime
<1>4. Ahead(Listed, Column)[e] = A
  BY DEF Ahead, Column, ByTime
<1>5. Ahead(Listed, Column)'[e] = B
  BY <1>3 DEF Ahead, Column, ByTime
<1>6. /\ IsFiniteSet(B) /\ Cardinality(B) \in Nat
      /\ \A r \in B : r \in Stored'
      /\ \A r \in A : r \in Stored /\ r \in Stored' /\ r \in Row
  <2>1. B \in SUBSET Listed'
    OBVIOUS
  <2>2. IsFiniteSet(Listed')
    BY <1>2, FS_Subset DEF ListFacts
  <2>3. IsFiniteSet(B) /\ Cardinality(B) \in Nat
    BY <2>1, <2>2, FS_Subset, FS_CardinalityType
  <2> QED
    BY <2>3, <1>1, <1>2 DEF ListFacts
<1>7. e \in Stored /\ e \in Stored' /\ e \in Row
  BY <1>2 DEF ListFacts
<1>8. Cardinality(A) <= Cardinality(B)
  <2>1. CASE list = "routes"
    <3>1. Listed \in SUBSET Listed'
      BY <2>1, <1>1, <1>3 DEF Listed
    <3>2. A \in SUBSET B
      BY <3>1, <1>1, <1>6, <1>7
    <3> QED
      BY <3>2, <1>6, FS_Subset
  <2>2. CASE list = "scores"
    <3>1. /\ Listed = {r \in Stored : \A q \in Stored : q.key = r.key => q.at <= r.at}
          /\ Listed' = {r \in Stored' : \A q \in Stored' : q.key = r.key => q.at <= r.at}
      BY <2>2, <1>3 DEF Listed, Latest
    <3>2. \A r, q \in A : r.key = q.key => r = q
      <4> SUFFICES ASSUME NEW r \in A, NEW q \in A, r.key = q.key PROVE r = q
        OBVIOUS
      <4>1. r.at <= q.at /\ q.at <= r.at /\ r \in Row /\ q \in Row
        BY <3>1, <1>6
      <4>2. r.at = q.at
        BY <4>1, ReadsNumbers
      <4> QED
        BY <4>2, <1>6 DEF RowsDistinct
    <3>3. ASSUME NEW r \in A PROVE \E n \in B : n.key = r.key
      <4>1. PICK n \in Stored' : n.key = r.key /\ \A x \in Stored' : x.key = r.key => x.at <= n.at
        BY <1>2, <1>6, NewestOfKey DEF ListFacts
      <4>2. n \in Listed' /\ n \in Row /\ r.at <= n.at
        BY <3>1, <4>1, <1>2, <1>6 DEF ListFacts
      <4>3. CASE n = r
        BY <4>2, <4>3, <1>1, <1>6, <1>7
      <4>4. CASE n # r
        <5>1. n.at # r.at
          BY <4>1, <4>4, <1>1, <1>6 DEF RowsDistinct
        <5>2. r["at"] >= e["at"]
          <6>1. r["at"] > e["at"] \/ r["at"] = e["at"]
            OBVIOUS
          <6> QED
            BY <6>1, <1>6, <1>7, ReadsNumbers
        <5>3. n["at"] > e["at"]
          BY <4>2, <5>1, <5>2, <1>6, <1>7, ReadsNumbers
        <5> QED
          BY <4>1, <4>2, <5>3
      <4> QED
        BY <4>3, <4>4
    <3> DEFINE f == [r \in A |-> CHOOSE n \in B : n.key = r.key]
    <3> HIDE DEF A, B
    <3>4. \A r \in A : f[r] \in B /\ f[r].key = r.key
      BY <3>3
    <3>5. f \in [A -> B]
      BY <3>4
    <3> HIDE DEF f
    <3>6. \A r, q \in A : f[r] = f[q] => r = q
      BY <3>2, <3>4
    <3>7. f \in Injection(A, B)
      BY <3>5, <3>6, Fun_IsInj
    <3> QED
      BY <3>7, <1>6, FS_Injection
  <2> QED
    BY <2>1, <2>2 DEF ByTime, ReadsType
<1>9. IsFiniteSet(A) /\ Cardinality(A) \in Nat
  <2>1. A \in SUBSET Stored /\ IsFiniteSet(Stored)
    BY <1>2, <1>6 DEF ListFacts
  <2> HIDE DEF A
  <2> QED
    BY <2>1, FS_Subset, FS_CardinalityType
<1> HIDE DEF A, B
<1> QED
  BY <1>4, <1>5, <1>6, <1>8, <1>9

\* An insertion disturbs a walk, and keeps behind the offset what was there.
LEMMA InsertReads ==
    ASSUME ReadsInv, Insert
    PROVE  ReadsInv'
<1>1. /\ walk # "ended" /\ disturbed' = (disturbed \/ walk # "idle")
      /\ steady' = steady \cap Entries'
      /\ UNCHANGED <<list, query, clock, walk, offset, got>>
  BY DEF Insert, client
<1>2. ReadsType /\ RowsDistinct
  BY DEF ReadsInv
<1>3. ReadsType' /\ RowsDistinct'
  BY <1>2, InsertKeeps
<1>4. WalkStarts' /\ PrefixRead' /\ WalkIsExact' /\ NoneSkipped'
  BY <1>1 DEF ReadsInv, ReadsType, WalkStarts, PrefixRead, WalkIsExact, NoneSkipped
<1>5. SteadyBehind'
  <2> SUFFICES ASSUME walk = "walking", ByTime', query.floor = 0, NEW e \in steady'
               PROVE  /\ e \in Listed'
                      /\ e \in Read \/ Cardinality(Ahead(Listed, Column)[e])' >= offset
    <3>1. Read' = Read
      BY <1>1 DEF Read
    <3> QED
      BY <1>1, <3>1 DEF SteadyBehind
  <2>1. ByTime
    BY <1>1 DEF ByTime
  <2>2. ReadsType' => ListFacts'
    BY ListIs, PTL
  <2>3. e \in Listed' /\ e \in steady
    BY <1>1, <1>3, <2>2 DEF ListFacts
  <2>4. e \in Listed /\ (e \in Read \/ Cardinality(Ahead(Listed, Column)[e]) >= offset)
    BY <2>1, <2>3 DEF ReadsInv, SteadyBehind
  <2>5. CASE e \in Read
    BY <2>3, <2>5
  <2>6. CASE Cardinality(Ahead(Listed, Column)[e]) >= offset
    <3>1. Cardinality(Ahead(Listed, Column)[e])' >= Cardinality(Ahead(Listed, Column)[e])
      BY <1>2, <2>1, <2>3, <2>4, AheadGrows
    <3>2. Cardinality(Ahead(Listed, Column)[e]) \in Nat
      BY <1>2, <2>4, ListIs DEF ListFacts
    <3>3. Cardinality(Ahead(Listed, Column)[e])' \in Nat
      BY <1>3, <2>2, <2>3 DEF ListFacts
    <3>4. offset \in Nat
      BY <1>2 DEF ReadsType
    <3> QED
      BY <2>3, <2>6, <3>1, <3>2, <3>3, <3>4
  <2> QED
    BY <2>4, <2>5, <2>6
<1> QED
  BY <1>3, <1>4, <1>5 DEF ReadsInv

-----------------------------------------------------------------------------
\* The invariant is inductive.
LEMMA ReadsStep == ReadsInv /\ [ReadsNext]_readVars => ReadsInv'
<1> SUFFICES ASSUME ReadsInv, [ReadsNext]_readVars PROVE ReadsInv'
  OBVIOUS
<1>1. CASE Stamp
  BY <1>1, StampReads
<1>2. CASE Insert
  BY <1>2, InsertReads
<1>3. CASE Begin
  BY <1>3, BeginReads
<1>4. CASE ReadPage
  BY <1>4, PageReads
<1>5. CASE UNCHANGED readVars
  <2>1. UNCHANGED <<list, query, pending, rows, clock, walk, offset, got, disturbed, steady>>
    BY <1>5 DEF readVars, table, client, history
  <2>2. Stored' = Stored /\ Listed' = Listed /\ View' = View
        /\ ByTime' = ByTime /\ Ahead(Listed, Column)' = Ahead(Listed, Column)
        /\ \A page : Filtered(page)' = Filtered(page)
    BY <2>1, SameView
  <2> QED
    BY <2>1, <2>2
    DEF ReadsInv, ReadsType, RowsDistinct, WalkStarts, PrefixRead, SteadyBehind,
        WalkIsExact, NoneSkipped, Read, Reached
<1> QED
  BY <1>1, <1>2, <1>3, <1>4, <1>5, ReadStepCases

\* So it holds always.
LEMMA ReadsInvariance == ReadsSpec => []ReadsInv
  BY InitReads, ReadsStep, PTL DEF ReadsSpec

\* A walk that no insertion disturbs reads the filtered list, each entry once and
\* in order, for any page size, table and min_score.
THEOREM WalkCorrect == ReadsSpec => []WalkIsExact
<1>1. ReadsInv => WalkIsExact
  BY DEF ReadsInv
<1> QED
  BY <1>1, ReadsInvariance, PTL

\* A walk by time without a filter misses nothing that the list held all the
\* while, for any page size and whatever is inserted between two pages.
THEOREM SkippedCorrect == ReadsSpec => []NoneSkipped
<1>1. ReadsInv => NoneSkipped
  BY DEF ReadsInv
<1> QED
  BY <1>1, ReadsInvariance, PTL
================================================================================
