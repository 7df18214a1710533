------------------------- MODULE StreamWorker_proofs -------------------------
(***************************************************************************)
(* Theorems about StreamWorker, for any trades, wallets, threads, buffer   *)
(* size and limits.                                                        *)
(***************************************************************************)
EXTENDS StreamWorker, TLAPS, FiniteSetTheorems

\* What a step may be; several proofs follow this list.
LEMMA StepCases ==
    ASSUME [Next]_vars
    PROVE  \/ \E t \in Trades : CheckOpen(t) \/ Put(t)
           \/ \E c \in Closers : CheckClosed(c) \/ MarkClosed(c) \/ PutSentinel(c)
           \/ \E n \in Limits \cup {NoLimit} : Run(n)
           \/ TakeSentinel \/ TakeStopped \/ TakeTrade
           \/ \E alert \in BOOLEAN : ScoreAccount(alert)
           \/ ScoreRaises \/ Scored
           \/ Save \/ SaveFails \/ Enqueue \/ Count
           \/ Stop \/ Interrupt
           \/ UNCHANGED vars
  BY DEF Next, Worker

\* The accounts of a trade are wallets.
LEMMA InvolvedType == ASSUME NEW t \in Trades PROVE Involved(t) \in Seq(Wallets)
<1>1. /\ Base[t] = NoWallet \/ Base[t] \in Wallets
      /\ Counter[t] = NoWallet \/ Counter[t] \in Wallets
  BY StreamAssumption DEF StreamAssumption
<1>2. Side(Base[t]) \in Seq(Wallets) /\ Side(Counter[t]) \in Seq(Wallets)
  BY <1>1 DEF Side
<1> QED
  BY <1>2 DEF Involved

\* How often something occurs in a list is a number ...
LEMMA OccurrencesType ==
    ASSUME NEW S, NEW list \in Seq(S), NEW a
    PROVE  /\ Occurrences(list, a) \in Nat
           /\ (\E i \in DOMAIN list : list[i] = a) => Occurrences(list, a) > 0
<1> DEFINE at == {i \in DOMAIN list : list[i] = a}
<1>1. DOMAIN list = 1..Len(list) /\ Len(list) \in Nat
  OBVIOUS
<1>2. IsFiniteSet(at)
  <2>1. IsFiniteSet(1..Len(list)) /\ at \subseteq 1..Len(list)
    BY <1>1, FS_Interval
  <2> QED
    BY <2>1, FS_Subset
<1>3. Cardinality(at) \in Nat /\ (Cardinality(at) = 0 <=> at = {})
  BY <1>2, FS_CardinalityType, FS_EmptySet
<1> QED
  BY <1>3 DEF Occurrences

\* ... that append raises by one for what is appended, ...
LEMMA OccurrencesAppend ==
    ASSUME NEW S, NEW list \in Seq(S), NEW x \in S, NEW a
    PROVE  Occurrences(Append(list, x), a) =
             Occurrences(list, a) + (IF x = a THEN 1 ELSE 0)
<1> DEFINE at == {i \in DOMAIN list : list[i] = a}
           new == {i \in DOMAIN Append(list, x) : Append(list, x)[i] = a}
           last == Len(list) + 1
<1>1. /\ DOMAIN list = 1..Len(list) /\ Len(list) \in Nat
      /\ DOMAIN Append(list, x) = 1..last
      /\ Append(list, x)[last] = x
      /\ \A i \in 1..Len(list) : Append(list, x)[i] = list[i]
  OBVIOUS
<1>2. IsFiniteSet(at)
  <2>1. IsFiniteSet(1..Len(list)) /\ at \subseteq 1..Len(list)
    BY <1>1, FS_Interval
  <2> QED
    BY <2>1, FS_Subset
<1>3. last \notin at
  BY <1>1
<1>4. CASE x = a
  <2>1. new = at \cup {last}
    BY <1>1, <1>4
  <2>2. Cardinality(at \cup {last}) = Cardinality(at) + 1
    BY <1>2, <1>3, FS_AddElement
  <2> QED
    BY <1>4, <2>1, <2>2 DEF Occurrences
<1>5. CASE x # a
  <2>1. new = at
    BY <1>1, <1>5
  <2>2. Cardinality(at) \in Nat
    BY <1>2, FS_CardinalityType
  <2> QED
    <3>1. Occurrences(Append(list, x), a) = Cardinality(new)
      BY DEF Occurrences
    <3>2. Occurrences(list, a) = Cardinality(at)
      BY DEF Occurrences
    <3> HIDE DEF at, new
    <3> QED
      BY <1>5, <2>1, <2>2, <3>1, <3>2
<1> QED
  BY <1>4, <1>5

\* ... and that is one less for the head in the tail.
LEMMA OccurrencesTail ==
    ASSUME NEW S, NEW list \in Seq(S), list # <<>>, NEW a
    PROVE  Occurrences(list, a) =
             Occurrences(Tail(list), a) + (IF Head(list) = a THEN 1 ELSE 0)
<1> DEFINE at == {i \in DOMAIN list : list[i] = a}
           low == {i \in DOMAIN Tail(list) : Tail(list)[i] = a}
           high == {i \in at : i > 1}
           up == [i \in low |-> i + 1]
<1>1. /\ DOMAIN list = 1..Len(list) /\ Len(list) \in Nat \ {0}
      /\ DOMAIN Tail(list) = 1..(Len(list) - 1)
      /\ Head(list) = list[1]
      /\ \A i \in 1..(Len(list) - 1) : Tail(list)[i] = list[i + 1]
  OBVIOUS
<1>2. IsFiniteSet(at) /\ IsFiniteSet(low) /\ IsFiniteSet(high)
  <2>1. IsFiniteSet(1..Len(list)) /\ IsFiniteSet(1..(Len(list) - 1))
    BY <1>1, FS_Interval
  <2>2. at \subseteq 1..Len(list) /\ low \subseteq 1..(Len(list) - 1) /\ high \subseteq 1..Len(list)
    BY <1>1
  <2> QED
    BY <2>1, <2>2, FS_Subset
<1>3. Cardinality(high) = Cardinality(low)
  <2>1. \A i \in low : i \in 1..(Len(list) - 1) /\ i + 1 \in high
    BY <1>1
  <2>2. \A j \in high : j - 1 \in low /\ up[j - 1] = j
    BY <1>1
  <2>3. \A i, j \in low : up[i] = up[j] => i = j
    BY <2>1
  <2>4. up \in Bijection(low, high)
    <3>1. up \in [low -> high]
      BY <2>1
    <3>2. up \in Injection(low, high)
      BY <2>3, <3>1 DEF Injection, IsInjective
    <3>3. up \in Surjection(low, high)
      BY <2>2, <3>1 DEF Surjection
    <3> QED
      BY <3>2, <3>3 DEF Bijection
  <2>5. ExistsBijection(low, high)
    BY <2>4 DEF ExistsBijection
  <2> QED
    BY <1>2, <2>5, FS_Bijection
<1>4. Cardinality(high) \in Nat /\ Cardinality(low) \in Nat
  BY <1>2, FS_CardinalityType
<1>5. CASE Head(list) = a
  <2>1. at = high \cup {1} /\ 1 \notin high
    BY <1>1, <1>5
  <2>2. Cardinality(at) = Cardinality(high) + 1
    BY <1>2, <2>1, FS_AddElement
  <2> QED
    BY <1>3, <1>5, <2>2 DEF Occurrences
<1>6. CASE Head(list) # a
  <2>1. at = high
    BY <1>1, <1>6
  <2> QED
    <3>1. Occurrences(list, a) = Cardinality(at)
      BY DEF Occurrences
    <3>2. Occurrences(Tail(list), a) = Cardinality(low)
      BY DEF Occurrences
    <3> HIDE DEF at, low, high
    <3> QED
      BY <1>3, <1>4, <1>6, <2>1, <3>1, <3>2
<1> QED
  BY <1>5, <1>6

-----------------------------------------------------------------------------
\* TypeOK: taking the head of the queue keeps the source's types and hands out
\* a trade or the sentinel.
LEMMA TakenType ==
    ASSUME TypeOK, queue # <<>>, Taken
    PROVE  /\ queue' \in Seq(Trades \cup {Sentinel})
           /\ UNCHANGED <<closed, closing, late>>
           /\ Head(queue) \in Trades \cup {Sentinel}
  BY DEF Taken, TypeOK

\* TypeOK: a trade is appended to a buffer of at most BufferSize.
LEMMA AppendedType ==
    ASSUME NEW buffer \in Seq(Trades), Len(buffer) <= BufferSize, NEW t \in Trades
    PROVE  /\ Appended(buffer, t) \in Seq(Trades)
           /\ Len(Appended(buffer, t)) <= BufferSize
<1>1. BufferSize \in Nat \ {0}
  BY StreamAssumption DEF StreamAssumption
<1>2. CASE Len(buffer) < BufferSize
  BY <1>1, <1>2 DEF Appended
<1>3. CASE ~(Len(buffer) < BufferSize)
  <2>1. buffer # <<>> /\ Len(buffer) = BufferSize
    BY <1>1, <1>3
  <2>2. Tail(buffer) \in Seq(Trades) /\ Len(Tail(buffer)) = BufferSize - 1
    BY <1>1, <2>1
  <2>3. Appended(buffer, t) = Append(Tail(buffer), t)
    BY <1>3 DEF Appended
  <2> QED
    BY <1>1, <2>2, <2>3
<1> QED
  BY <1>2, <1>3

\* TypeOK: the account being scored and what happens to its buffer.
LEMMA BufferedType ==
    ASSUME TypeOK, loop = "score", rest # <<>>, Buffered
    PROVE  /\ trade \in Trades /\ Head(rest) \in Wallets /\ Tail(rest) \in Seq(Wallets)
           /\ Scoring \in Key
           /\ buffers' \in [Key -> Seq(Trades)]
           /\ \A k \in Key : Len(buffers'[k]) <= BufferSize
<1>1. trade \in Trades /\ Head(rest) \in Wallets /\ Tail(rest) \in Seq(Wallets)
  BY DEF TypeOK, InHand
<1>2. Pair[trade] \in Pairs
  BY <1>1, StreamAssumption DEF StreamAssumption
<1>3. Scoring \in Key
  BY <1>1, <1>2 DEF Scoring, Key
<1>4. buffers \in [Key -> Seq(Trades)] /\ \A k \in Key : Len(buffers[k]) <= BufferSize
  BY DEF TypeOK
<1>5. /\ Appended(buffers[Scoring], trade) \in Seq(Trades)
      /\ Len(Appended(buffers[Scoring], trade)) <= BufferSize
  BY <1>1, <1>3, <1>4, AppendedType
<1>6. buffers' = [buffers EXCEPT ![Scoring] = Appended(buffers[Scoring], trade)]
  BY DEF Buffered
<1> HIDE DEF Scoring, Appended
<1> QED
  BY <1>1, <1>3, <1>4, <1>5, <1>6

\* TypeOK: every step keeps every type.
LEMMA TypeStep == TypeOK /\ [Next]_vars => TypeOK'
<1> SUFFICES ASSUME TypeOK, [Next]_vars PROVE TypeOK'
  OBVIOUS
<1> USE DEF source, position, memory, database, counters, worker
<1>1. ASSUME NEW t \in Trades, CheckOpen(t) \/ Put(t) PROVE TypeOK'
  <2>1. queue' \in Seq(Trades \cup {Sentinel}) /\ late' \subseteq Trades
    <3>1. CASE CheckOpen(t)
      BY <3>1 DEF CheckOpen, TypeOK
    <3>2. CASE Put(t)
      <4>1. Append(queue, t) \in Seq(Trades \cup {Sentinel})
        BY DEF TypeOK
      <4> QED
        BY <3>2, <4>1 DEF Put, TypeOK
    <3> QED
      BY <1>1, <3>1, <3>2
  <2>2. fate' \in [Trades -> Fate]
    BY <1>1 DEF CheckOpen, Put, Becomes, TypeOK, Fate
  <2> QED
    BY <1>1, <2>1, <2>2 DEF CheckOpen, Put, TypeOK, InHand
<1>2. ASSUME NEW c \in Closers, CheckClosed(c) \/ MarkClosed(c) \/ PutSentinel(c)
      PROVE  TypeOK'
  <2>1. queue' \in Seq(Trades \cup {Sentinel}) /\ closed' \in BOOLEAN /\ UNCHANGED <<late, fate>>
    <3>1. Append(queue, Sentinel) \in Seq(Trades \cup {Sentinel})
      BY DEF TypeOK
    <3>2. CASE PutSentinel(c)
      BY <3>1, <3>2 DEF PutSentinel, WithSentinel, TypeOK
    <3>3. CASE CheckClosed(c) \/ MarkClosed(c)
      BY <3>3 DEF CheckClosed, MarkClosed, ClosedMarked, TypeOK
    <3> QED
      BY <1>2, <3>2, <3>3
  <2>2. closing' \in [Closers -> {"no", "checked", "marked", "done"}]
    BY <1>2 DEF CheckClosed, MarkClosed, PutSentinel, TypeOK
  <2> QED
    BY <1>2, <2>1, <2>2 DEF CheckClosed, MarkClosed, PutSentinel, TypeOK, InHand
<1>3. ASSUME NEW n \in Limits \cup {NoLimit}, Run(n) PROVE TypeOK'
  <2>1. calls' \in 0..MaxCalls
    BY <1>3, StreamAssumption DEF Run, TypeOK, StreamAssumption
  <2> QED
    BY <1>3, <2>1 DEF Run, TypeOK, InHand, Control
<1>4. CASE TakeSentinel
  BY <1>4, TakenType DEF TakeSentinel, TypeOK, InHand, Control
<1>5. CASE TakeStopped
  BY <1>5, TakenType DEF TakeStopped, AfterStop, Becomes, TypeOK, InHand, Control, Fate
<1>6. CASE TakeTrade
  <2>1. Head(queue) \in Trades
    BY <1>6, TakenType DEF TakeTrade
  <2>2. rest' \in Seq(Wallets) /\ trade' # Sentinel
    BY <1>6, <2>1, InvolvedType DEF TakeTrade
  <2> QED
    BY <1>6, <2>1, <2>2, TakenType DEF TakeTrade, Becomes, TypeOK, InHand, Control, Fate
<1>7. ASSUME NEW alert \in BOOLEAN, ScoreAccount(alert) PROVE TypeOK'
  <2>1. /\ trade \in Trades /\ Head(rest) \in Wallets /\ Tail(rest) \in Seq(Wallets)
        /\ Scoring \in Key
        /\ buffers' \in [Key -> Seq(Trades)]
        /\ \A k \in Key : Len(buffers'[k]) <= BufferSize
    BY <1>7, BufferedType DEF ScoreAccount
  <2>2. <<[trade |-> trade, alert |-> alert]>> \in Seq(Score)
    BY <2>1 DEF Score
  <2>3. latest' \in [Key -> Seq(Score)]
    BY <1>7, <2>1, <2>2 DEF ScoreAccount, TypeOK
  <2>4. alerts' \in Seq(Trades \X Wallets)
    BY <1>7, <2>1 DEF ScoreAccount, AlertsWith, TypeOK
  <2> QED
    BY <1>7, <2>1, <2>3, <2>4 DEF ScoreAccount, TypeOK, InHand, Control
<1>8. CASE ScoreRaises
  <2>1. /\ trade \in Trades
        /\ buffers' \in [Key -> Seq(Trades)]
        /\ \A k \in Key : Len(buffers'[k]) <= BufferSize
    BY <1>8, BufferedType DEF ScoreRaises
  <2> QED
    BY <1>8, <2>1 DEF ScoreRaises, Forgotten, NoAlerts, Becomes, TypeOK, InHand, Control, Fate
<1>9. CASE Scored
  BY <1>9 DEF Scored, TypeOK, InHand, Control
<1>10. CASE Save
  <2>1. alerts \in Seq(Trades \X Wallets) /\ saved \in [Trades \X Wallets -> Nat]
    BY DEF TypeOK
  <2>2. \A a \in Trades \X Wallets : saved[a] + Occurrences(alerts, a) \in Nat
    BY <2>1, OccurrencesType
  <2>3. saved' \in [Trades \X Wallets -> Nat]
    BY <1>10, <2>2 DEF Save
  <2> QED
    BY <1>10, <2>3 DEF Save, TypeOK, InHand, Control
<1>11. CASE SaveFails
  <2>1. faults' \in 0..MaxFaults /\ trade \in Trades
    BY <1>11, StreamAssumption DEF SaveFails, TypeOK, StreamAssumption, InHand
  <2> QED
    BY <1>11, <2>1 DEF SaveFails, TypeOK, InHand, Control
<1>12. CASE Enqueue
  BY <1>12 DEF Enqueue, Serialisable, TypeOK, InHand, Control
<1>13. CASE Count
  BY <1>13 DEF Count, Forgotten, NoAlerts, Becomes, TypeOK, InHand, Control, Fate
<1>14. CASE Stop
  BY <1>14 DEF Stop, TypeOK, InHand
<1>15. CASE Interrupt
  <2>1. interrupts' \in 0..MaxInterrupts
    BY <1>15, StreamAssumption DEF Interrupt, TypeOK, StreamAssumption
  <2>2. fate' \in [Trades -> Fate]
    BY <1>15 DEF Interrupt, TypeOK, Fate
  <2> QED
    BY <1>15, <2>1, <2>2 DEF Interrupt, TypeOK, InHand, Control
<1>16. CASE UNCHANGED vars
  BY <1>16 DEF vars, TypeOK, InHand
<1> QED
  BY StepCases, <1>1, <1>2, <1>3, <1>4, <1>5, <1>6, <1>7, <1>8, <1>9, <1>10,
     <1>11, <1>12, <1>13, <1>14, <1>15, <1>16

\* Type correctness of StreamWorker.
THEOREM StreamTypeCorrect == Spec => []TypeOK
<1>1. Init => TypeOK
  <2> SUFFICES ASSUME Init PROVE TypeOK
    OBVIOUS
  <2>1. MaxCalls \in Nat /\ MaxInterrupts \in Nat /\ MaxFaults \in Nat /\ BufferSize \in Nat
    BY StreamAssumption DEF StreamAssumption
  <2>2. /\ buffers \in [Key -> Seq(Trades)] /\ \A k \in Key : Len(buffers[k]) <= BufferSize
        /\ latest \in [Key -> Seq(Score)]
        /\ saved \in [Trades \X Wallets -> Nat]
    BY <2>1 DEF Init
  <2>3. /\ queue \in Seq(Trades \cup {Sentinel}) /\ rest \in Seq(Wallets)
        /\ alerts \in Seq(Trades \X Wallets)
    BY DEF Init
  <2>4. /\ calls \in 0..MaxCalls /\ interrupts \in 0..MaxInterrupts /\ faults \in 0..MaxFaults
        /\ processed \in Nat
    BY <2>1 DEF Init
  <2>5. fate \in [Trades -> Fate] /\ closing \in [Closers -> {"no", "checked", "marked", "done"}]
    BY DEF Init, Fate
  <2> QED
    BY <2>2, <2>3, <2>4, <2>5 DEF Init, TypeOK, InHand, Control
<1>2. TypeOK /\ [Next]_vars => TypeOK'
  BY TypeStep
<1>3. QED
  BY <1>1, <1>2, PTL DEF Spec

-----------------------------------------------------------------------------
(* What becomes of a trade that was taken.                                 *)

\* A trade that is taken and not yet settled is the one in hand.
HandInv ==
    /\ \A t \in Trades : fate[t] = "taken" => InHand /\ t = trade
    /\ loop \in {"score", "save", "enqueue"} => fate[trade] = "taken"
    /\ loop = "count" => fate[trade] \in {"taken", "raised"}

\* HandInv: every step keeps it.
LEMMA HandStep == TypeOK /\ HandInv /\ [Next]_vars => HandInv'
<1> SUFFICES ASSUME TypeOK, HandInv, [Next]_vars PROVE HandInv'
  OBVIOUS
<1> USE DEF HandInv, InHand, position, worker
<1>1. ASSUME NEW t \in Trades, CheckOpen(t) \/ Put(t) PROVE HandInv'
  BY <1>1 DEF CheckOpen, Put, Becomes, TypeOK
<1>2. ASSUME NEW c \in Closers, CheckClosed(c) \/ MarkClosed(c) \/ PutSentinel(c) PROVE HandInv'
  BY <1>2 DEF CheckClosed, MarkClosed, PutSentinel
<1>3. ASSUME NEW n \in Limits \cup {NoLimit}, Run(n) PROVE HandInv'
  BY <1>3 DEF Run
<1>4. CASE TakeSentinel
  BY <1>4 DEF TakeSentinel
<1>5. CASE TakeStopped
  BY <1>5, TakenType DEF TakeStopped, Becomes, AfterStop, TypeOK
<1>6. CASE TakeTrade
  BY <1>6, TakenType DEF TakeTrade, Becomes, TypeOK
<1>7. ASSUME NEW alert \in BOOLEAN, ScoreAccount(alert) PROVE HandInv'
  BY <1>7 DEF ScoreAccount
<1>8. CASE ScoreRaises
  BY <1>8 DEF ScoreRaises, Becomes, TypeOK
<1>9. CASE Scored \/ Save \/ SaveFails \/ Enqueue
  BY <1>9 DEF Scored, Save, SaveFails, Enqueue
<1>10. CASE Count
  BY <1>10 DEF Count, Becomes, TypeOK
<1>11. CASE Stop \/ UNCHANGED vars
  BY <1>11 DEF Stop, vars
<1>12. CASE Interrupt
  BY <1>12 DEF Interrupt, TypeOK
<1> QED
  BY StepCases, <1>1, <1>2, <1>3, <1>4, <1>5, <1>6, <1>7, <1>8, <1>9, <1>10, <1>11, <1>12

\* What is in hand is a trade that was taken.
LEMMA HandCorrect == Spec => []HandInv
<1>1. Init => HandInv
  BY DEF Init, HandInv, InHand
<1>2. QED
  BY <1>1, HandStep, StreamTypeCorrect, PTL DEF Spec

-----------------------------------------------------------------------------
(* What a source that ends has handed out.                                 *)

\* The queue holds each queued trade once, and nothing else but sentinels, which
\* are only put after the flag was written; what follows one was put late.
SourceInv ==
    /\ \A c \in Closers : closing[c] = "marked" => closed
    /\ ended => closed
    /\ \A i \in DOMAIN queue :
         /\ queue[i] = Sentinel => closed
         /\ queue[i] # Sentinel => fate[queue[i]] = "queued" /\ (ended => queue[i] \in late)
    /\ \A i, j \in DOMAIN queue :
         queue[i] = Sentinel /\ i < j /\ queue[j] # Sentinel => queue[j] \in late
    /\ \A i, j \in DOMAIN queue : i # j /\ queue[i] # Sentinel => queue[i] # queue[j]
    /\ \A t \in Trades : fate[t] = "queued" => \E i \in DOMAIN queue : queue[i] = t

\* SourceInv: steps that touch neither the source nor a trade that is queued or
\* becomes queued.
LEMMA SourceQuiet ==
    ASSUME TypeOK, SourceInv, UNCHANGED source, UNCHANGED ended,
           \A t \in Trades : fate'[t] = "queued" <=> fate[t] = "queued"
    PROVE  SourceInv'
  BY DEF SourceInv, TypeOK, source

\* SourceInv: when the head is taken, the rest keeps its order.
LEMMA TailFacts ==
    ASSUME TypeOK, queue # <<>>, Taken
    PROVE  /\ DOMAIN queue = 1..Len(queue) /\ Len(queue) \in Nat \ {0}
           /\ DOMAIN queue' = 1..(Len(queue) - 1)
           /\ Head(queue) = queue[1]
           /\ \A i \in DOMAIN queue' : i + 1 \in DOMAIN queue /\ queue'[i] = queue[i + 1]
           /\ \A i \in DOMAIN queue : i # 1 => i - 1 \in DOMAIN queue' /\ queue'[i - 1] = queue[i]
           /\ UNCHANGED <<closed, closing, late>>
  BY DEF TypeOK, Taken

\* SourceInv: a trade leaves the queue.
LEMMA SourceTake ==
    ASSUME TypeOK, SourceInv, queue # <<>>, Head(queue) # Sentinel, Taken, NEW f \in Fate \ {"queued"},
           Becomes(Head(queue), f), UNCHANGED ended
    PROVE  SourceInv'
<1> DEFINE t == Head(queue)
<1>1. /\ DOMAIN queue = 1..Len(queue) /\ Len(queue) \in Nat \ {0}
      /\ DOMAIN queue' = 1..(Len(queue) - 1)
      /\ t = queue[1]
      /\ \A i \in DOMAIN queue' : i + 1 \in DOMAIN queue /\ queue'[i] = queue[i + 1]
      /\ \A i \in DOMAIN queue : i # 1 => i - 1 \in DOMAIN queue' /\ queue'[i - 1] = queue[i]
      /\ UNCHANGED <<closed, closing, late>>
  BY TailFacts
<1>2. t \in Trades
  BY <1>1, TakenType
<1>3. /\ fate'[t] = f /\ f # "queued"
      /\ \A u \in Trades \ {t} : fate'[u] = fate[u]
  BY <1>2 DEF Becomes, TypeOK
<1>4. \A i \in DOMAIN queue' : queue'[i] # t
  BY <1>1 DEF SourceInv
<1>5. \A i \in DOMAIN queue' : queue'[i] \in Trades \cup {Sentinel}
  BY <1>1 DEF TypeOK
<1>6. \A i \in DOMAIN queue' :
         /\ queue'[i] = Sentinel => closed'
         /\ queue'[i] # Sentinel => fate'[queue'[i]] = "queued" /\ (ended' => queue'[i] \in late')
  BY <1>1, <1>3, <1>4, <1>5 DEF SourceInv
<1>7. \A i, j \in DOMAIN queue' :
         /\ queue'[i] = Sentinel /\ i < j /\ queue'[j] # Sentinel => queue'[j] \in late'
         /\ i # j /\ queue'[i] # Sentinel => queue'[i] # queue'[j]
  BY <1>1 DEF SourceInv
<1>8. \A u \in Trades : fate'[u] = "queued" => \E i \in DOMAIN queue' : queue'[i] = u
  <2> SUFFICES ASSUME NEW u \in Trades, fate'[u] = "queued"
               PROVE  \E i \in DOMAIN queue' : queue'[i] = u
    OBVIOUS
  <2>1. u # t /\ fate[u] = "queued"
    BY <1>2, <1>3
  <2>2. PICK i \in DOMAIN queue : queue[i] = u
    BY <2>1 DEF SourceInv
  <2>3. i # 1
    BY <1>1, <2>1, <2>2
  <2> QED
    BY <1>1, <2>2, <2>3
<1> QED
  BY <1>1, <1>6, <1>7, <1>8 DEF SourceInv

\* SourceInv: the sentinel leaves the queue; all that is left was put late.
LEMMA SourceEnd ==
    ASSUME TypeOK, SourceInv, TakeSentinel
    PROVE  SourceInv'
<1>1. /\ DOMAIN queue = 1..Len(queue) /\ Len(queue) \in Nat \ {0}
      /\ DOMAIN queue' = 1..(Len(queue) - 1)
      /\ queue[1] = Sentinel
      /\ \A i \in DOMAIN queue' : i + 1 \in DOMAIN queue /\ queue'[i] = queue[i + 1]
      /\ \A i \in DOMAIN queue : i # 1 => i - 1 \in DOMAIN queue' /\ queue'[i - 1] = queue[i]
      /\ UNCHANGED <<closed, closing, late, fate>> /\ ended'
  BY TailFacts DEF TakeSentinel
<1>2. closed
  BY <1>1 DEF SourceInv
<1>3. \A i \in DOMAIN queue' : queue'[i] # Sentinel => queue'[i] \in late'
  BY <1>1 DEF SourceInv
<1>4. \A i \in DOMAIN queue' : queue'[i] # Sentinel => fate'[queue'[i]] = "queued"
  BY <1>1 DEF SourceInv
<1>5. \A i, j \in DOMAIN queue' :
         /\ queue'[i] = Sentinel /\ i < j /\ queue'[j] # Sentinel => queue'[j] \in late'
         /\ i # j /\ queue'[i] # Sentinel => queue'[i] # queue'[j]
  BY <1>1 DEF SourceInv
<1>6. \A t \in Trades : fate'[t] = "queued" => \E i \in DOMAIN queue' : queue'[i] = t
  <2> SUFFICES ASSUME NEW t \in Trades, fate'[t] = "queued"
               PROVE  \E i \in DOMAIN queue' : queue'[i] = t
    OBVIOUS
  <2>1. PICK i \in DOMAIN queue : queue[i] = t
    BY <1>1 DEF SourceInv
  <2>2. i # 1
    BY <1>1, <2>1, StreamAssumption DEF StreamAssumption
  <2> QED
    BY <1>1, <2>1, <2>2
<1> QED
  BY <1>1, <1>2, <1>3, <1>4, <1>5, <1>6 DEF SourceInv

\* SourceInv: something is put at the end of the queue.
LEMMA PutFacts ==
    ASSUME TypeOK, NEW x \in Trades \cup {Sentinel}, queue' = Append(queue, x)
    PROVE  /\ DOMAIN queue = 1..Len(queue) /\ Len(queue) \in Nat
           /\ DOMAIN queue' = 1..(Len(queue) + 1)
           /\ queue'[Len(queue) + 1] = x
           /\ \A i \in DOMAIN queue : queue'[i] = queue[i]
  BY DEF TypeOK

\* SourceInv: every step of a producer, of a closer and of the worker keeps it.
LEMMA SourceStep == TypeOK /\ HandInv /\ SourceInv /\ [Next]_vars => SourceInv'
<1> SUFFICES ASSUME TypeOK, HandInv, SourceInv, [Next]_vars PROVE SourceInv'
  OBVIOUS
<1>1. ASSUME NEW t \in Trades, CheckOpen(t) PROVE SourceInv'
  <2>1. \A u \in Trades : fate'[u] = "queued" <=> fate[u] = "queued"
    BY <1>1 DEF CheckOpen, Becomes, TypeOK
  <2> QED
    BY <1>1, <2>1, SourceQuiet DEF CheckOpen, worker
<1>2. ASSUME NEW t \in Trades, Put(t) PROVE SourceInv'
  <2>1. /\ DOMAIN queue = 1..Len(queue) /\ Len(queue) \in Nat
        /\ DOMAIN queue' = 1..(Len(queue) + 1)
        /\ queue'[Len(queue) + 1] = t
        /\ \A i \in DOMAIN queue : queue'[i] = queue[i]
    BY <1>2, PutFacts DEF Put
  <2>2. /\ fate[t] = "checked" /\ fate'[t] = "queued"
        /\ \A u \in Trades \ {t} : fate'[u] = fate[u]
        /\ UNCHANGED <<closed, closing, ended>>
        /\ late \subseteq late' /\ (closed => t \in late')
    BY <1>2 DEF Put, Becomes, TypeOK, worker
  <2>3. t # Sentinel
    BY StreamAssumption DEF StreamAssumption
  <2>4. \A i \in DOMAIN queue : queue[i] # t /\ queue[i] \in Trades \cup {Sentinel}
    BY <2>2, <2>3 DEF SourceInv, TypeOK
  <2>5. \A i \in DOMAIN queue' :
           /\ queue'[i] = Sentinel => closed'
           /\ queue'[i] # Sentinel => fate'[queue'[i]] = "queued" /\ (ended' => queue'[i] \in late')
    <3> SUFFICES ASSUME NEW i \in DOMAIN queue'
                 PROVE  /\ queue'[i] = Sentinel => closed'
                        /\ queue'[i] # Sentinel =>
                             fate'[queue'[i]] = "queued" /\ (ended' => queue'[i] \in late')
      OBVIOUS
    <3>1. CASE i \in DOMAIN queue
      BY <2>1, <2>2, <2>4, <3>1 DEF SourceInv
    <3>2. CASE i = Len(queue) + 1
      BY <2>1, <2>2, <2>3, <3>2 DEF SourceInv
    <3> QED
      BY <2>1, <3>1, <3>2
  <2>6. \A i, j \in DOMAIN queue' :
           queue'[i] = Sentinel /\ i < j /\ queue'[j] # Sentinel => queue'[j] \in late'
    <3> SUFFICES ASSUME NEW i \in DOMAIN queue', NEW j \in DOMAIN queue',
                        queue'[i] = Sentinel, i < j, queue'[j] # Sentinel
                 PROVE  queue'[j] \in late'
      OBVIOUS
    <3>1. i \in DOMAIN queue /\ queue[i] = Sentinel /\ closed
      BY <2>1 DEF SourceInv
    <3>2. CASE j \in DOMAIN queue
      BY <2>1, <2>2, <3>1, <3>2 DEF SourceInv
    <3>3. CASE j = Len(queue) + 1
      BY <2>1, <2>2, <3>1, <3>3
    <3> QED
      BY <2>1, <3>2, <3>3
  <2>7. \A i, j \in DOMAIN queue' : i # j /\ queue'[i] # Sentinel => queue'[i] # queue'[j]
    BY <2>1, <2>4 DEF SourceInv
  <2>8. \A u \in Trades : fate'[u] = "queued" => \E i \in DOMAIN queue' : queue'[i] = u
    <3> SUFFICES ASSUME NEW u \in Trades, fate'[u] = "queued"
                 PROVE  \E i \in DOMAIN queue' : queue'[i] = u
      OBVIOUS
    <3>1. CASE u = t
      BY <2>1, <3>1
    <3>2. CASE u # t
      <4>1. PICK i \in DOMAIN queue : queue[i] = u
        BY <2>2, <3>2 DEF SourceInv
      <4> QED
        BY <2>1, <4>1
    <3> QED
      BY <3>1, <3>2
  <2> QED
    BY <2>2, <2>5, <2>6, <2>7, <2>8 DEF SourceInv
<1>3. ASSUME NEW c \in Closers, CheckClosed(c) \/ MarkClosed(c) PROVE SourceInv'
  <2>1. /\ UNCHANGED <<queue, late, fate, ended>> /\ (closed => closed')
        /\ \A d \in Closers : closing'[d] = "marked" => closing[d] = "marked" \/ closed'
    BY <1>3 DEF CheckClosed, MarkClosed, ClosedMarked, TypeOK, worker
  <2> QED
    BY <2>1 DEF SourceInv
<1>4. ASSUME NEW c \in Closers, PutSentinel(c) PROVE SourceInv'
  <2>1. /\ DOMAIN queue = 1..Len(queue) /\ Len(queue) \in Nat
        /\ DOMAIN queue' = 1..(Len(queue) + 1)
        /\ queue'[Len(queue) + 1] = Sentinel
        /\ \A i \in DOMAIN queue : queue'[i] = queue[i]
    BY <1>4, PutFacts DEF PutSentinel, WithSentinel
  <2>2. /\ UNCHANGED <<closed, late, fate, ended>> /\ closed
        /\ \A d \in Closers : closing'[d] = "marked" => closing[d] = "marked"
    BY <1>4 DEF PutSentinel, SourceInv, TypeOK, worker
  <2>3. \A i \in DOMAIN queue' :
           /\ queue'[i] = Sentinel => closed'
           /\ queue'[i] # Sentinel => fate'[queue'[i]] = "queued" /\ (ended' => queue'[i] \in late')
    BY <2>1, <2>2 DEF SourceInv
  <2>4. \A i, j \in DOMAIN queue' :
           /\ queue'[i] = Sentinel /\ i < j /\ queue'[j] # Sentinel => queue'[j] \in late'
           /\ i # j /\ queue'[i] # Sentinel => queue'[i] # queue'[j]
    BY <2>1, <2>2 DEF SourceInv
  <2>5. \A t \in Trades : fate'[t] = "queued" => \E i \in DOMAIN queue' : queue'[i] = t
    BY <2>1, <2>2 DEF SourceInv
  <2> QED
    BY <2>2, <2>3, <2>4, <2>5 DEF SourceInv
<1>5. CASE TakeSentinel
  BY <1>5, SourceEnd
<1>6. CASE TakeStopped
  BY <1>6, SourceTake DEF TakeStopped, Fate
<1>7. CASE TakeTrade
  BY <1>7, SourceTake DEF TakeTrade, Fate
<1>8. CASE \/ \E n \in Limits \cup {NoLimit} : Run(n)
           \/ \E alert \in BOOLEAN : ScoreAccount(alert)
           \/ Scored \/ Save \/ SaveFails \/ Enqueue \/ Stop \/ UNCHANGED vars
  <2>1. UNCHANGED source /\ UNCHANGED <<ended, fate>>
    BY <1>8 DEF Run, ScoreAccount, Scored, Save, SaveFails, Enqueue, Stop, vars
  <2> QED
    BY <2>1, SourceQuiet
<1>9. CASE ScoreRaises \/ Count \/ Interrupt
  <2>1. UNCHANGED source /\ UNCHANGED ended
    BY <1>9 DEF ScoreRaises, Count, Interrupt
  <2>2. \A t \in Trades : fate'[t] # fate[t] => t = trade /\ InHand /\ fate'[t] # "queued"
    BY <1>9 DEF ScoreRaises, Count, Interrupt, Becomes, TypeOK, InHand
  <2>3. InHand => fate[trade] # "queued"
    BY DEF HandInv, InHand
  <2> QED
    BY <2>1, <2>2, <2>3, SourceQuiet
<1> QED
  BY StepCases, <1>1, <1>2, <1>3, <1>4, <1>5, <1>6, <1>7, <1>8, <1>9

\* The queue is as SourceInv says.
LEMMA SourceCorrect == Spec => []SourceInv
<1>1. Init => SourceInv
  BY DEF Init, SourceInv
<1>2. QED
  BY <1>1, SourceStep, HandCorrect, StreamTypeCorrect, PTL DEF Spec

\* "Iteration ends after close once the backlog is drained", but for trades that
\* were being published while the source was being closed.
THEOREM DrainedCorrect == Spec => []DrainedAtEnd
<1>1. TypeOK /\ SourceInv => DrainedAtEnd
  <2> SUFFICES ASSUME TypeOK, SourceInv, ended, NEW t \in Trades, fate[t] = "queued"
               PROVE  t \in late
    BY DEF DrainedAtEnd
  <2>1. PICK i \in DOMAIN queue : queue[i] = t
    BY DEF SourceInv
  <2> QED
    BY <2>1, StreamAssumption DEF SourceInv, StreamAssumption
<1>2. QED
  BY <1>1, SourceCorrect, StreamTypeCorrect, PTL

-----------------------------------------------------------------------------
(* A call of run loses one trade at most.                                  *)

Lost == {t \in Trades : fate[t] \in {"dropped", "interrupted"}}

\* A call in progress has not lost a trade yet.
LostInv ==
    /\ Cardinality(Lost) <= IF loop = "out" THEN calls ELSE calls - 1
    /\ Lost # {} => stop

\* LostInv: steps that lose nothing, in or out of the same call.
LEMMA LostQuiet ==
    ASSUME LostInv, Lost' = Lost, stop => stop',
           \/ UNCHANGED calls /\ (loop = "out" <=> loop' = "out")
           \/ UNCHANGED calls /\ loop' = "out"
           \/ calls' = calls + 1 /\ loop = "out",
           TypeOK, TypeOK'
    PROVE  LostInv'
<1>1. IsFiniteSet(Lost)
  BY StreamAssumption, FS_Subset DEF Lost, StreamAssumption
<1>2. Cardinality(Lost) \in Nat /\ calls \in Int /\ calls' \in Int
  BY <1>1, FS_CardinalityType DEF TypeOK
<1> QED
  BY <1>2 DEF LostInv

\* LostInv: a step that loses a trade ends the call, and the worker is stopped.
LEMMA LostOne ==
    ASSUME LostInv, TypeOK, NEW t, Lost' \subseteq Lost \cup {t}, stop',
           loop # "out", loop' = "out", UNCHANGED calls
    PROVE  LostInv'
<1>1. IsFiniteSet(Lost)
  BY StreamAssumption, FS_Subset DEF Lost, StreamAssumption
<1>2. /\ IsFiniteSet(Lost \cup {t})
      /\ Cardinality(Lost \cup {t}) <= Cardinality(Lost) + 1
  BY <1>1, FS_AddElement, FS_CardinalityType
<1>3. Cardinality(Lost') <= Cardinality(Lost \cup {t})
  BY <1>2, FS_Subset
<1>4. /\ Cardinality(Lost) \in Nat /\ Cardinality(Lost \cup {t}) \in Nat
      /\ Cardinality(Lost') \in Nat /\ calls \in Int
  BY <1>1, <1>2, FS_CardinalityType, FS_Subset DEF TypeOK
<1> QED
  BY <1>2, <1>3, <1>4 DEF LostInv

\* LostInv: every step keeps it.
LEMMA LostStep == TypeOK /\ HandInv /\ LostInv /\ [Next]_vars => LostInv'
<1> SUFFICES ASSUME TypeOK, HandInv, LostInv, [Next]_vars PROVE LostInv'
  OBVIOUS
<1>a. TypeOK'
  BY TypeStep
<1> USE DEF counters, worker
<1>1. ASSUME NEW t \in Trades, CheckOpen(t) \/ Put(t) PROVE LostInv'
  <2>1. Lost' = Lost
    BY <1>1 DEF CheckOpen, Put, Becomes, TypeOK, Lost
  <2> QED
    BY <1>a, <1>1, <2>1, LostQuiet DEF CheckOpen, Put
<1>2. ASSUME NEW c \in Closers, CheckClosed(c) \/ MarkClosed(c) \/ PutSentinel(c) PROVE LostInv'
  <2>1. Lost' = Lost
    BY <1>2 DEF CheckClosed, MarkClosed, PutSentinel, Lost
  <2> QED
    BY <1>a, <1>2, <2>1, LostQuiet DEF CheckClosed, MarkClosed, PutSentinel
<1>3. ASSUME NEW n \in Limits \cup {NoLimit}, Run(n) PROVE LostInv'
  <2>1. Lost' = Lost
    BY <1>3 DEF Run, Lost
  <2> QED
    BY <1>a, <1>3, <2>1, LostQuiet DEF Run
<1>4. CASE TakeSentinel
  <2>1. Lost' = Lost
    BY <1>4 DEF TakeSentinel, Lost
  <2> QED
    BY <1>a, <1>4, <2>1, LostQuiet DEF TakeSentinel
<1>5. CASE TakeStopped
  <2>1. Lost' \subseteq Lost \cup {Head(queue)}
    BY <1>5, TakenType DEF TakeStopped, Becomes, TypeOK, Lost
  <2> QED
    BY <1>5, <2>1, LostOne DEF TakeStopped, AfterStop
<1>6. CASE TakeTrade
  <2>1. Lost' \subseteq Lost
    BY <1>6, TakenType DEF TakeTrade, Becomes, TypeOK, Lost
  <2>2. IsFiniteSet(Lost)
    BY StreamAssumption, FS_Subset DEF Lost, StreamAssumption
  <2>3. /\ Cardinality(Lost') <= Cardinality(Lost)
        /\ Cardinality(Lost) \in Nat /\ Cardinality(Lost') \in Nat
    BY <2>1, <2>2, FS_Subset, FS_CardinalityType
  <2>4. calls \in Int /\ UNCHANGED <<calls, stop>> /\ loop = "get" /\ loop' = "score"
    BY <1>6 DEF TakeTrade, TypeOK
  <2> QED
    BY <2>1, <2>3, <2>4 DEF LostInv
<1>7. CASE \/ \E alert \in BOOLEAN : ScoreAccount(alert)
           \/ Scored \/ Save \/ SaveFails \/ Enqueue \/ Stop \/ UNCHANGED vars
  <2>1. Lost' = Lost
    BY <1>7 DEF ScoreAccount, Scored, Save, SaveFails, Enqueue, Stop, vars, Lost
  <2>2. /\ UNCHANGED calls /\ (stop => stop')
        /\ loop = "out" <=> loop' = "out"
    BY <1>7 DEF ScoreAccount, Scored, Save, SaveFails, Enqueue, Stop, vars
  <2> QED
    BY <1>a, <2>1, <2>2, LostQuiet
<1>8. CASE ScoreRaises \/ Count
  <2>1. fate[trade] \in {"taken", "raised"}
    BY <1>8 DEF HandInv, ScoreRaises, Count
  <2>2. Lost' = Lost
    BY <1>8, <2>1 DEF ScoreRaises, Count, Becomes, TypeOK, Lost
  <2>3. UNCHANGED <<calls, stop>> /\ loop # "out"
    BY <1>8 DEF ScoreRaises, Count
  <2>4. (loop = "out" <=> loop' = "out") \/ loop' = "out"
    BY <2>3
  <2> QED
    BY <1>a, <2>2, <2>3, <2>4, LostQuiet
<1>9. CASE Interrupt
  <2>1. Lost' \subseteq Lost \cup {trade}
    BY <1>9 DEF Interrupt, TypeOK, Lost
  <2> QED
    BY <1>9, <2>1, LostOne DEF Interrupt
<1> QED
  BY StepCases, <1>1, <1>2, <1>3, <1>4, <1>5, <1>6, <1>7, <1>8, <1>9

\* A call of run loses one trade at most, and only when stopped or interrupted.
THEOREM OneLostCorrect == Spec => []OneLostPerRun
<1>1. Init => LostInv
  <2> SUFFICES ASSUME Init PROVE LostInv
    OBVIOUS
  <2>1. Lost = {}
    BY DEF Init, Lost
  <2> QED
    BY <2>1, FS_EmptySet DEF Init, LostInv
<1>2. TypeOK /\ HandInv /\ LostInv => OneLostPerRun
  <2> SUFFICES ASSUME TypeOK, HandInv, LostInv PROVE OneLostPerRun
    OBVIOUS
  <2>1. IsFiniteSet(Lost)
    BY StreamAssumption, FS_Subset DEF Lost, StreamAssumption
  <2>2. Cardinality(Lost) \in Nat /\ calls \in Int
    BY <2>1, FS_CardinalityType DEF TypeOK
  <2>3. Cardinality(Lost) <= calls
    BY <2>2 DEF LostInv
  <2> QED
    BY <2>3 DEF LostInv, HandInv, OneLostPerRun, Lost
<1>3. QED
  BY <1>1, <1>2, LostStep, HandCorrect, StreamTypeCorrect, PTL DEF Spec

-----------------------------------------------------------------------------
(* What is saved of a trade.                                               *)

Unsettled == {"new", "checked", "queued", "rejected", "dropped"}

\* Nothing is saved of a trade before it is in hand; in hand, its alerts and the
\* accounts still to be scored are among its two sides.
SavedInv ==
    /\ AlertsSavedOnce
    /\ \A t \in Trades, w \in Wallets : fate[t] \in Unsettled => saved[<<t, w>>] = 0
    /\ ~InHand => alerts = <<>>
    /\ loop \in {"score", "save"} =>
         \A w \in Wallets :
           /\ saved[<<trade, w>>] = 0
           /\ Occurrences(alerts, <<trade, w>>) + Occurrences(rest, w)
                <= Occurrences(Involved(trade), w)
           /\ \A t \in Trades \ {trade} : Occurrences(alerts, <<t, w>>) = 0

\* SavedInv: nothing occurs in an empty list.
LEMMA OccurrencesEmpty == ASSUME NEW a PROVE Occurrences(<<>>, a) = 0
<1>1. {i \in DOMAIN <<>> : <<>>[i] = a} = {}
  OBVIOUS
<1> QED
  BY <1>1, FS_EmptySet DEF Occurrences

\* SavedInv: steps that leave the trade in hand and what it has produced alone,
\* or forget them.
LEMMA SavedQuiet ==
    ASSUME TypeOK, SavedInv, UNCHANGED saved,
           \A t \in Trades : fate'[t] \in Unsettled => fate[t] \in Unsettled,
           \/ UNCHANGED <<loop, trade, rest, alerts>>
           \/ loop' \notin {"score", "save"} /\ InHand'
           \/ loop' \notin {"score", "save"} /\ alerts' = <<>>
    PROVE  SavedInv'
  BY DEF SavedInv, AlertsSavedOnce, InHand

\* SavedInv: every step keeps it.
LEMMA SavedStep == TypeOK /\ HandInv /\ SourceInv /\ SavedInv /\ [Next]_vars => SavedInv'
<1> SUFFICES ASSUME TypeOK, HandInv, SourceInv, SavedInv, [Next]_vars PROVE SavedInv'
  OBVIOUS
<1>a. \A t \in Trades, w \in Wallets : saved[<<t, w>>] \in Nat
  BY DEF TypeOK
<1> USE DEF position, database, worker
<1>1. ASSUME NEW t \in Trades, CheckOpen(t) \/ Put(t) PROVE SavedInv'
  <2>1. \A u \in Trades : fate'[u] \in Unsettled => fate[u] \in Unsettled
    BY <1>1 DEF CheckOpen, Put, Becomes, TypeOK, Unsettled
  <2> QED
    BY <1>1, <2>1, SavedQuiet DEF CheckOpen, Put
<1>2. CASE \/ \E c \in Closers : CheckClosed(c) \/ MarkClosed(c) \/ PutSentinel(c)
           \/ Stop \/ UNCHANGED vars
  BY <1>2, SavedQuiet DEF CheckClosed, MarkClosed, PutSentinel, Stop, vars
<1>3. ASSUME NEW n \in Limits \cup {NoLimit}, Run(n) PROVE SavedInv'
  <2>1. alerts' = <<>> /\ UNCHANGED <<saved, fate>> /\ loop' = "get"
    BY <1>3 DEF Run, SavedInv, InHand
  <2> QED
    BY <2>1, SavedQuiet
<1>4. CASE TakeSentinel
  <2>1. alerts' = <<>> /\ UNCHANGED <<saved, fate>> /\ loop' = "out"
    BY <1>4 DEF TakeSentinel, SavedInv, InHand
  <2> QED
    BY <2>1, SavedQuiet
<1>5. CASE TakeTrade \/ TakeStopped
  <2>1. /\ queue # <<>> /\ Head(queue) # Sentinel /\ Head(queue) \in Trades
        /\ alerts = <<>> /\ UNCHANGED <<alerts, saved>>
    BY <1>5, TakenType DEF TakeTrade, TakeStopped, SavedInv, InHand
  <2>2. fate[Head(queue)] = "queued"
    BY <2>1, TailFacts, <1>5 DEF SourceInv, TakeTrade, TakeStopped
  <2>3. CASE TakeStopped
    <3>1. \A u \in Trades : fate'[u] \in Unsettled => fate[u] \in Unsettled
      BY <2>1, <2>2, <2>3 DEF TakeStopped, Becomes, TypeOK, Unsettled
    <3> QED
      BY <2>1, <2>3, <3>1, SavedQuiet DEF TakeStopped, AfterStop
  <2>4. CASE TakeTrade
    <3>1. \A w \in Wallets : saved[<<Head(queue), w>>] = 0
      BY <2>1, <2>2 DEF SavedInv, Unsettled
    <3>2. \A w \in Wallets : Occurrences(Involved(Head(queue)), w) \in Nat
      BY <2>1, InvolvedType, OccurrencesType
    <3>3. \A u \in Trades : fate'[u] \in Unsettled => fate[u] \in Unsettled
      BY <2>1, <2>4 DEF TakeTrade, Becomes, TypeOK, Unsettled
    <3>4. /\ trade' = Head(queue) /\ rest' = Involved(Head(queue)) /\ loop' = "score"
          /\ alerts' = <<>>
      BY <2>1, <2>4 DEF TakeTrade
    <3>5. \A w \in Wallets :
            /\ saved'[<<trade', w>>] = 0
            /\ Occurrences(alerts', <<trade', w>>) + Occurrences(rest', w)
                 <= Occurrences(Involved(trade'), w)
            /\ \A t \in Trades \ {trade'} : Occurrences(alerts', <<t, w>>) = 0
      BY <2>1, <3>1, <3>2, <3>4, OccurrencesEmpty
    <3> QED
      BY <2>1, <3>3, <3>4, <3>5 DEF SavedInv, AlertsSavedOnce, InHand
  <2> QED
    BY <1>5, <2>3, <2>4
<1>6. ASSUME NEW alert \in BOOLEAN, ScoreAccount(alert) PROVE SavedInv'
  <2>1. /\ loop = "score" /\ rest # <<>> /\ rest' = Tail(rest)
        /\ trade \in Trades /\ Head(rest) \in Wallets /\ Tail(rest) \in Seq(Wallets)
        /\ UNCHANGED <<fate, loop, trade, saved>>
    BY <1>6, BufferedType DEF ScoreAccount
  <2>2. /\ rest \in Seq(Wallets) /\ alerts \in Seq(Trades \X Wallets)
        /\ <<trade, Head(rest)>> \in Trades \X Wallets
    BY <2>1 DEF TypeOK
  <2>3. alerts' = alerts \/ alerts' = Append(alerts, <<trade, Head(rest)>>)
    BY <1>6 DEF ScoreAccount, AlertsWith
  <2>4. ASSUME NEW w \in Wallets
        PROVE  /\ Occurrences(alerts', <<trade, w>>) + Occurrences(rest', w)
                    <= Occurrences(Involved(trade), w)
               /\ \A t \in Trades \ {trade} : Occurrences(alerts', <<t, w>>) = 0
    <3> DEFINE one == IF Head(rest) = w THEN 1 ELSE 0
    <3>1. Occurrences(rest, w) = Occurrences(Tail(rest), w) + one
      BY <2>1, <2>2, OccurrencesTail
    <3>2. \A a : Occurrences(Append(alerts, <<trade, Head(rest)>>), a) =
                   Occurrences(alerts, a) + (IF <<trade, Head(rest)>> = a THEN 1 ELSE 0)
      BY <2>2, OccurrencesAppend
    <3>3. /\ Occurrences(alerts, <<trade, w>>) \in Nat
          /\ Occurrences(Tail(rest), w) \in Nat
          /\ Occurrences(Involved(trade), w) \in Nat
      BY <2>1, <2>2, OccurrencesType, InvolvedType
    <3>4. Occurrences(alerts', <<trade, w>>) <= Occurrences(alerts, <<trade, w>>) + one
      <4>1. Occurrences(Append(alerts, <<trade, Head(rest)>>), <<trade, w>>) =
              Occurrences(alerts, <<trade, w>>) + (IF <<trade, Head(rest)>> = <<trade, w>> THEN 1 ELSE 0)
        BY <3>2
      <4>2. Occurrences(Append(alerts, <<trade, Head(rest)>>), <<trade, w>>) =
              Occurrences(alerts, <<trade, w>>) + one
        BY <4>1
      <4>3. one \in Nat
        OBVIOUS
      <4> DEFINE more == Append(alerts, <<trade, Head(rest)>>)
      <4>4. alerts' = alerts \/ alerts' = more
        BY <2>3
      <4>5. Occurrences(more, <<trade, w>>) = Occurrences(alerts, <<trade, w>>) + one
        BY <4>2
      <4> HIDE DEF one, more
      <4>6. Occurrences(more, <<trade, w>>) <= Occurrences(alerts, <<trade, w>>) + one
        BY <3>3, <4>3, <4>5
      <4>7. Occurrences(alerts, <<trade, w>>) <= Occurrences(alerts, <<trade, w>>) + one
        BY <3>3, <4>3
      <4> QED
        BY <4>4, <4>6, <4>7
    <3>5. Occurrences(alerts', <<trade, w>>) \in Nat
      <4> DEFINE more == Append(alerts, <<trade, Head(rest)>>)
      <4>1. more \in Seq(Trades \X Wallets)
        BY <2>2
      <4>2. Occurrences(more, <<trade, w>>) \in Nat
        BY <4>1, OccurrencesType
      <4>3. alerts' = alerts \/ alerts' = more
        BY <2>3
      <4> HIDE DEF more
      <4> QED
        BY <3>3, <4>2, <4>3
    <3>6. \A t \in Trades \ {trade} : Occurrences(alerts', <<t, w>>) = 0
      <4> SUFFICES ASSUME NEW t \in Trades \ {trade} PROVE Occurrences(alerts', <<t, w>>) = 0
        OBVIOUS
      <4>1. <<trade, Head(rest)>> # <<t, w>>
        OBVIOUS
      <4>2. Occurrences(alerts, <<t, w>>) = 0
        BY <2>1 DEF SavedInv
      <4>3. Occurrences(Append(alerts, <<trade, Head(rest)>>), <<t, w>>) =
              Occurrences(alerts, <<t, w>>) + (IF <<trade, Head(rest)>> = <<t, w>> THEN 1 ELSE 0)
        BY <3>2
      <4>4. Occurrences(Append(alerts, <<trade, Head(rest)>>), <<t, w>>) = 0
        BY <4>1, <4>2, <4>3
      <4> QED
        BY <2>3, <4>2, <4>4
    <3>7. Occurrences(alerts, <<trade, w>>) + Occurrences(rest, w)
            <= Occurrences(Involved(trade), w)
      BY <2>1 DEF SavedInv
    <3> QED
      BY <2>1, <3>1, <3>3, <3>4, <3>5, <3>6, <3>7
  <2> QED
    BY <2>1, <2>4 DEF SavedInv, AlertsSavedOnce, InHand
<1>7. CASE ScoreRaises \/ Count
  <2>1. /\ alerts' = <<>> /\ UNCHANGED saved /\ loop' \notin {"score", "save"}
        /\ \A u \in Trades : fate'[u] \in Unsettled => fate[u] \in Unsettled
    BY <1>7 DEF ScoreRaises, Count, Forgotten, NoAlerts, Becomes, TypeOK, Unsettled
  <2> QED
    BY <2>1, SavedQuiet
<1>8. CASE Interrupt
  <2>1. /\ alerts' = <<>> /\ UNCHANGED saved /\ loop' = "out"
        /\ \A u \in Trades : fate'[u] \in Unsettled => fate[u] \in Unsettled
    BY <1>8 DEF Interrupt, TypeOK, Unsettled
  <2> QED
    BY <2>1, SavedQuiet
<1>9. CASE Scored
  BY <1>9, SavedQuiet DEF Scored, SavedInv, AlertsSavedOnce, InHand
<1>10. CASE Save
  <2>1. /\ loop = "save" /\ loop' = "enqueue" /\ UNCHANGED <<fate, trade, rest, alerts>>
        /\ trade \in Trades /\ alerts \in Seq(Trades \X Wallets) /\ rest \in Seq(Wallets)
        /\ fate[trade] = "taken"
    BY <1>10 DEF Save, TypeOK, InHand, HandInv
  <2>2. \A t \in Trades, w \in Wallets :
           saved'[<<t, w>>] = saved[<<t, w>>] + Occurrences(alerts, <<t, w>>)
    BY <1>10 DEF Save
  <2>3. \A w \in Wallets : /\ Occurrences(alerts, <<trade, w>>) \in Nat
                           /\ Occurrences(rest, w) \in Nat
                           /\ Occurrences(Involved(trade), w) \in Nat
    BY <2>1, OccurrencesType, InvolvedType
  <2>4. \A w \in Wallets : saved'[<<trade, w>>] <= Occurrences(Involved(trade), w)
    BY <2>1, <2>2, <2>3 DEF SavedInv
  <2>5. \A t \in Trades \ {trade}, w \in Wallets : saved'[<<t, w>>] = saved[<<t, w>>]
    <3> SUFFICES ASSUME NEW t \in Trades \ {trade}, NEW w \in Wallets
                 PROVE  saved'[<<t, w>>] = saved[<<t, w>>]
      OBVIOUS
    <3>1. Occurrences(alerts, <<t, w>>) = 0
      BY <2>1 DEF SavedInv
    <3>2. saved'[<<t, w>>] = saved[<<t, w>>] + Occurrences(alerts, <<t, w>>)
      BY <2>2
    <3> QED
      BY <1>a, <3>1, <3>2
  <2>6. AlertsSavedOnce'
    <3> SUFFICES ASSUME NEW t \in Trades, NEW w \in Wallets
                 PROVE  saved'[<<t, w>>] <= Occurrences(Involved(t), w)
      BY DEF AlertsSavedOnce
    <3>1. CASE t = trade
      BY <2>4, <3>1
    <3>2. CASE t # trade
      BY <2>5, <3>2 DEF SavedInv, AlertsSavedOnce
    <3> QED
      BY <3>1, <3>2
  <2> QED
    BY <2>1, <2>5, <2>6 DEF SavedInv, InHand, Unsettled
<1>11. CASE SaveFails \/ Enqueue
  BY <1>11, SavedQuiet DEF SaveFails, Enqueue, InHand
<1> QED
  BY StepCases, <1>1, <1>2, <1>3, <1>4, <1>5, <1>6, <1>7, <1>8, <1>9, <1>10, <1>11

\* A trade leaves at most one row for each of its two sides.
THEOREM SavedOnceCorrect == Spec => []AlertsSavedOnce
<1>1. Init => SavedInv
  <2> SUFFICES ASSUME Init PROVE SavedInv
    OBVIOUS
  <2>1. \A t \in Trades, w \in Wallets :
           saved[<<t, w>>] = 0 /\ Occurrences(Involved(t), w) \in Nat
    BY InvolvedType, OccurrencesType DEF Init
  <2> QED
    BY <2>1 DEF Init, SavedInv, AlertsSavedOnce, InHand
<1>2. SavedInv => AlertsSavedOnce
  BY DEF SavedInv
<1>3. QED
  BY <1>1, <1>2, SavedStep, SourceCorrect, HandCorrect, StreamTypeCorrect, PTL DEF Spec

-----------------------------------------------------------------------------
(* Latest scores and rows of risk_scores.                                  *)

Kept(t, w) == saved[<<t, w>>] > 0 \/ t \in unsaved

\* An alert in latest_scores is about a trade that was in hand; while it is, the
\* alert is in the list, then saved or known not to be.
LatestInv ==
    \A w \in Wallets, p \in Pairs :
        latest[<<w, p>>] # <<>> /\ latest[<<w, p>>][1].alert =>
            LET t == latest[<<w, p>>][1].trade IN
            /\ fate[t] \in {"taken", "handled", "raised", "interrupted"}
            /\ fate[t] = "handled" => Kept(t, w)
            /\ fate[t] = "taken" /\ loop \in {"score", "save"} =>
                 \E i \in DOMAIN alerts : alerts[i] = <<t, w>>
            /\ fate[t] = "taken" /\ loop \in {"enqueue", "count"} => Kept(t, w)

\* LatestInv, of one key.
LatestAt(w, p) ==
    latest[<<w, p>>] # <<>> /\ latest[<<w, p>>][1].alert =>
        LET t == latest[<<w, p>>][1].trade IN
        /\ fate[t] \in {"taken", "handled", "raised", "interrupted"}
        /\ fate[t] = "handled" => Kept(t, w)
        /\ fate[t] = "taken" /\ loop \in {"score", "save"} =>
             \E i \in DOMAIN alerts : alerts[i] = <<t, w>>
        /\ fate[t] = "taken" /\ loop \in {"enqueue", "count"} => Kept(t, w)

LEMMA LatestByKey == LatestInv <=> \A w \in Wallets, p \in Pairs : LatestAt(w, p)
  BY DEF LatestInv, LatestAt

\* LatestInv: what a score in latest_scores is.
LEMMA LatestType ==
    ASSUME TypeOK, NEW w \in Wallets, NEW p \in Pairs, latest[<<w, p>>] # <<>>
    PROVE  latest[<<w, p>>][1].trade \in Trades /\ latest[<<w, p>>][1].alert \in BOOLEAN
<1>1. <<w, p>> \in Key
  BY DEF Key
<1>2. latest[<<w, p>>] \in Seq(Score)
  BY <1>1 DEF TypeOK
<1>3. latest[<<w, p>>][1] \in Score
  BY <1>2
<1> QED
  BY <1>3 DEF Score

\* LatestInv: a step outside the body of the loop, or one that ends a trade
\* otherwise than by handling it.
LEMMA LatestQuiet ==
    ASSUME TypeOK, LatestInv, UNCHANGED <<latest, saved, unsaved>>,
           \A t \in Trades :
             fate[t] \in {"taken", "handled", "raised", "interrupted"} =>
               \/ fate'[t] = fate[t] /\ (fate[t] = "taken" => UNCHANGED <<loop, alerts>>)
               \/ fate'[t] \in {"raised", "interrupted"}
    PROVE  LatestInv'
<1> SUFFICES ASSUME NEW w \in Wallets, NEW p \in Pairs,
                    latest[<<w, p>>] # <<>>, latest[<<w, p>>][1].alert
             PROVE  LatestAt(w, p)'
  BY LatestByKey DEF LatestAt, LatestInv
<1> DEFINE t == latest[<<w, p>>][1].trade
<1>1. t \in Trades
  BY LatestType
<1>2. LatestAt(w, p)
  BY LatestByKey
<1> QED
  BY <1>1, <1>2 DEF LatestAt, Kept

\* LatestInv: every step keeps it.
LEMMA LatestStep == TypeOK /\ HandInv /\ SourceInv /\ LatestInv /\ [Next]_vars => LatestInv'
<1> SUFFICES ASSUME TypeOK, HandInv, SourceInv, LatestInv, [Next]_vars PROVE LatestInv'
  OBVIOUS
<1> USE DEF position, memory, database, worker
<1>1. ASSUME NEW t \in Trades, CheckOpen(t) \/ Put(t) PROVE LatestInv'
  BY <1>1, LatestQuiet DEF CheckOpen, Put, Becomes, TypeOK
<1>2. CASE \/ \E c \in Closers : CheckClosed(c) \/ MarkClosed(c) \/ PutSentinel(c)
           \/ Stop \/ UNCHANGED vars
  BY <1>2, LatestQuiet DEF CheckClosed, MarkClosed, PutSentinel, Stop, vars
<1>3. ASSUME NEW n \in Limits \cup {NoLimit}, Run(n) PROVE LatestInv'
  BY <1>3, LatestQuiet DEF Run, HandInv, InHand
<1>4. CASE TakeSentinel
  BY <1>4, LatestQuiet DEF TakeSentinel, HandInv, InHand
<1>5. CASE TakeTrade \/ TakeStopped
  <2>1. /\ queue # <<>> /\ Head(queue) # Sentinel /\ Head(queue) \in Trades
        /\ loop = "get" /\ UNCHANGED <<latest, saved, unsaved>>
    BY <1>5, TakenType DEF TakeTrade, TakeStopped
  <2>2. fate[Head(queue)] = "queued"
    BY <2>1, TailFacts, <1>5 DEF SourceInv, TakeTrade, TakeStopped
  <2>3. \A t \in Trades :
           fate[t] \in {"taken", "handled", "raised", "interrupted"} => fate'[t] = fate[t]
    BY <1>5, <2>1, <2>2 DEF TakeTrade, TakeStopped, Becomes, TypeOK
  <2>4. \A t \in Trades : fate[t] # "taken"
    BY <2>1 DEF HandInv, InHand
  <2> QED
    BY <2>1, <2>3, <2>4, LatestQuiet
<1>6. ASSUME NEW alert \in BOOLEAN, ScoreAccount(alert) PROVE LatestInv'
  <2>1. /\ loop = "score" /\ trade \in Trades /\ fate[trade] = "taken"
        /\ Head(rest) \in Wallets /\ Scoring \in Key
        /\ UNCHANGED <<fate, loop, trade, saved, unsaved>>
    BY <1>6, BufferedType DEF ScoreAccount, HandInv
  <2>2. latest' = [latest EXCEPT ![Scoring] = <<[trade |-> trade, alert |-> alert]>>]
    BY <1>6 DEF ScoreAccount
  <2>3. alerts' = IF alert THEN Append(alerts, <<trade, Head(rest)>>) ELSE alerts
    BY <1>6 DEF ScoreAccount, AlertsWith
  <2>4. alerts \in Seq(Trades \X Wallets) /\ <<trade, Head(rest)>> \in Trades \X Wallets
    BY <2>1 DEF TypeOK
  <2>5. \A x : (\E i \in DOMAIN alerts : alerts[i] = x) => \E i \in DOMAIN alerts' : alerts'[i] = x
    <3>1. \A i \in DOMAIN alerts : i \in DOMAIN alerts' /\ alerts'[i] = alerts[i]
      BY <2>3, <2>4
    <3> QED
      BY <3>1
  <2>6. alert => \E i \in DOMAIN alerts' : alerts'[i] = <<trade, Head(rest)>>
    <3> SUFFICES ASSUME alert PROVE \E i \in DOMAIN alerts' : alerts'[i] = <<trade, Head(rest)>>
      OBVIOUS
    <3>1. /\ Len(alerts) + 1 \in DOMAIN alerts'
          /\ alerts'[Len(alerts) + 1] = <<trade, Head(rest)>>
      BY <2>3, <2>4
    <3> QED
      BY <3>1
  <2>7. ASSUME NEW w \in Wallets, NEW p \in Pairs PROVE LatestAt(w, p)'
    <3>1. <<w, p>> \in Key /\ latest \in [Key -> Seq(Score)]
      BY DEF TypeOK, Key
    <3>2. CASE <<w, p>> = Scoring
      <4>1. w = Head(rest)
        BY <3>2 DEF Scoring
      <4>2. latest'[<<w, p>>] = <<[trade |-> trade, alert |-> alert]>>
        BY <2>1, <2>2, <3>1, <3>2
      <4>3. latest'[<<w, p>>][1].trade = trade /\ latest'[<<w, p>>][1].alert = alert
        BY <4>2
      <4> QED
        BY <2>1, <2>6, <4>1, <4>3 DEF LatestAt
    <3>3. CASE <<w, p>> # Scoring
      <4>1. latest'[<<w, p>>] = latest[<<w, p>>]
        BY <2>1, <2>2, <3>1, <3>3
      <4>2. LatestAt(w, p)
        BY LatestByKey
      <4> QED
        BY <2>1, <2>5, <4>1, <4>2 DEF LatestAt, Kept
    <3> QED
      BY <3>2, <3>3
  <2>8. (\A w \in Wallets, p \in Pairs : LatestAt(w, p))'
    BY <2>7
  <2> QED
    BY <2>8 DEF LatestInv, LatestAt
<1>7. CASE ScoreRaises
  <2>1. /\ fate' = [fate EXCEPT ![trade] = "raised"] /\ trade \in Trades
        /\ UNCHANGED <<latest, saved, unsaved>>
        /\ \A t \in Trades : fate[t] = "taken" => t = trade
    BY <1>7 DEF ScoreRaises, Becomes, TypeOK, HandInv, InHand
  <2> QED
    BY <2>1, LatestQuiet DEF TypeOK
<1>8. CASE Interrupt
  <2>1. /\ UNCHANGED <<latest, saved, unsaved>>
        /\ \A t \in Trades : IF fate[t] = "taken" THEN fate'[t] = "interrupted"
                                                  ELSE fate'[t] = fate[t]
    BY <1>8 DEF Interrupt, TypeOK, HandInv, InHand
  <2> QED
    BY <2>1, LatestQuiet
<1>9. ASSUME NEW w \in Wallets, NEW p \in Pairs,
             latest[<<w, p>>] # <<>>, latest[<<w, p>>][1].alert,
             Scored \/ Save \/ SaveFails \/ Enqueue \/ Count
      PROVE  LatestAt(w, p)'
  <2> DEFINE t == latest[<<w, p>>][1].trade
  <2>1. t \in Trades /\ LatestAt(w, p) /\ UNCHANGED latest
    BY <1>9, LatestType, LatestByKey DEF Scored, Save, SaveFails, Enqueue, Count
  <2>2. saved \in [Trades \X Wallets -> Nat] /\ alerts \in Seq(Trades \X Wallets)
    BY DEF TypeOK
  <2>3. CASE Scored
    <3>1. /\ loop = "score" /\ UNCHANGED <<fate, alerts, saved, unsaved>>
          /\ loop' = "save" \/ (loop' = "count" /\ DOMAIN alerts = {})
      BY <2>2, <2>3 DEF Scored
    <3> HIDE DEF t
    <3>2. fate[t] # "taken" \/ loop' = "save"
      BY <1>9, <2>1, <3>1 DEF LatestAt, t
    <3> QED
      BY <1>9, <2>1, <3>1, <3>2 DEF LatestAt, Kept, t
  <2>4. CASE Save
    <3>1. \A x \in Trades \X Wallets :
            /\ Occurrences(alerts, x) \in Nat
            /\ (\E i \in DOMAIN alerts : alerts[i] = x) => Occurrences(alerts, x) > 0
      BY <2>2, OccurrencesType
    <3>2. saved'[<<t, w>>] = saved[<<t, w>>] + Occurrences(alerts, <<t, w>>)
      BY <2>1, <2>4 DEF Save
    <3>3. /\ saved[<<t, w>>] > 0 => saved'[<<t, w>>] > 0
          /\ (\E i \in DOMAIN alerts : alerts[i] = <<t, w>>) => saved'[<<t, w>>] > 0
      <4>1. <<t, w>> \in Trades \X Wallets
        BY <2>1
      <4>2. saved[<<t, w>>] \in Nat /\ Occurrences(alerts, <<t, w>>) \in Nat
        BY <2>2, <3>1, <4>1
      <4>3. (\E i \in DOMAIN alerts : alerts[i] = <<t, w>>) => Occurrences(alerts, <<t, w>>) > 0
        BY <3>1, <4>1
      <4> HIDE DEF t
      <4> QED
        BY <3>2, <4>2, <4>3
    <3>4. loop = "save" /\ loop' = "enqueue" /\ UNCHANGED <<fate, unsaved>>
      BY <2>4 DEF Save
    <3> QED
      BY <2>1, <3>3, <3>4 DEF LatestAt, Kept
  <2>5. CASE SaveFails
    <3>1. /\ loop = "save" /\ loop' = "enqueue" /\ UNCHANGED <<fate, saved>>
          /\ unsaved' = unsaved \cup {trade}
      BY <2>5 DEF SaveFails
    <3>2. fate[t] = "taken" => t = trade
      BY <2>1 DEF HandInv
    <3> QED
      BY <2>1, <3>1, <3>2 DEF LatestAt, Kept
  <2>6. CASE Enqueue
    BY <2>1, <2>6 DEF Enqueue, LatestAt, Kept
  <2>7. CASE Count
    <3>1. /\ loop = "count" /\ loop' \in {"out", "get"} /\ UNCHANGED <<saved, unsaved>>
          /\ trade \in Trades /\ fate[trade] \in {"taken", "raised"}
          /\ fate'[trade] = IF fate[trade] = "raised" THEN "raised" ELSE "handled"
          /\ \A u \in Trades \ {trade} : fate'[u] = fate[u]
          /\ \A u \in Trades : fate[u] = "taken" => u = trade
      BY <2>7 DEF Count, Becomes, TypeOK, HandInv, InHand
    <3> QED
      BY <2>1, <3>1 DEF LatestAt, Kept
  <2> QED
    BY <1>9, <2>3, <2>4, <2>5, <2>6, <2>7
<1>10. CASE Scored \/ Save \/ SaveFails \/ Enqueue \/ Count
  <2>1. UNCHANGED latest
    BY <1>10 DEF Scored, Save, SaveFails, Enqueue, Count
  <2>2. (\A w \in Wallets, p \in Pairs : LatestAt(w, p))'
    BY <1>9, <1>10, <2>1 DEF LatestAt
  <2> QED
    BY <2>2 DEF LatestInv, LatestAt
<1> QED
  BY StepCases, <1>1, <1>2, <1>3, <1>4, <1>5, <1>6, <1>7, <1>8, <1>10

\* A latest score at or above the threshold is saved, unless the insertion
\* failed, its trade raised or the run was interrupted.
THEOREM LatestSavedCorrect == Spec => []LatestAlertIsSaved
<1>1. Init => LatestInv
  <2> SUFFICES ASSUME Init, NEW w \in Wallets, NEW p \in Pairs PROVE latest[<<w, p>>] = <<>>
    BY DEF LatestInv
  <2> QED
    BY DEF Init, Key
<1>2. TypeOK /\ LatestInv => LatestAlertIsSaved
  <2> SUFFICES ASSUME TypeOK, LatestInv, NEW w \in Wallets, NEW p \in Pairs,
                      latest[<<w, p>>] # <<>>, latest[<<w, p>>][1].alert
               PROVE  \/ saved[<<latest[<<w, p>>][1].trade, w>>] > 0
                      \/ latest[<<w, p>>][1].trade \in unsaved
                      \/ fate[latest[<<w, p>>][1].trade] \in {"taken", "raised", "interrupted"}
    BY DEF LatestAlertIsSaved
  <2> QED
    BY LatestByKey DEF LatestAt, Kept
<1>3. QED
  BY <1>1, <1>2, LatestStep, SourceCorrect, HandCorrect, StreamTypeCorrect, PTL DEF Spec
=============================================================================
