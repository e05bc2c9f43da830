------------------------- MODULE RateLimiterProofs -------------------------
(***************************************************************************)
(* Proofs about RateLimiter, for any number of clients and any limit,      *)
(* window and capacity.                                                    *)
(*                                                                         *)
(* The bound on a stretch of time needs to be known of what came before    *)
(* the current window: less than Limit requests within a window's length   *)
(* before it (Spaced), because the window before it began with a request   *)
(* of its own (Opened), and holds the others that come into question       *)
(* (Counted).                                                              *)
(***************************************************************************)
EXTENDS RateLimiter, FiniteSetTheorems, TLAPS

\* The history is a running total.
Monotone ==
    \A c \in Clients : \A a, b \in Times :
        a <= b => served[c][a] <= served[c][b]

\* Nothing has happened after the current time.
Current ==
    \A c \in Clients : \A t \in Times :
        now <= t => served[c][t] = served[c][now]

\* The last window of c counts what was let through since it began.
Counted ==
    \A c \in Clients :
        /\ served[c][now] = Before(served[c], start[c]) + count[c]
        /\ count[c] <= Limit
        /\ count[c] = 0 => start[c] = 0

\* A window begins with a request.
Opened ==
    \A c \in Clients :
        count[c] > 0 => Before(served[c], start[c]) < served[c][start[c]]

\* The map holds windows with requests, and only forgets windows that are over.
Forgotten ==
    \A c \in Clients :
        /\ c \in table => count[c] # 0
        /\ c \notin table => count[c] = 0 \/ Expired(c)

\* Before the last window, less than Limit requests in a window's length.
Spaced ==
    \A c \in Clients : \A a \in Times :
        a < start[c] /\ start[c] - a < Window =>
            Before(served[c], start[c]) < Before(served[c], a) + Limit

\* A window that is over lets nothing through.
Lapsed ==
    \A c \in Clients :
        count[c] = 0 \/ Expired(c) => Before(served[c], now) = served[c][now]

\* The part of the invariant that is about a single client's history.
History ==
    Monotone /\ Current /\ Counted /\ Opened /\ Forgotten /\ Spaced /\ Lapsed

-----------------------------------------------------------------------------

\* What a step that lets a request of c through does to the history.
LEMMA ServeHistory ==
    ASSUME TypeOK, NEW c \in Clients, Serve(c)
    PROVE  /\ served' \in [Clients -> [Times -> Nat]]
           /\ \A d \in Clients : \A t \in Times :
                 served'[d][t] = IF d = c /\ now <= t THEN served[d][t] + 1
                                                       ELSE served[d][t]
  <1> USE LimiterAssumption DEF Times
  <1>1. \A t \in Times : served[c][t] \in Nat
    BY DEF TypeOK
  <1>2. now \in Nat
    BY DEF TypeOK
  <1>3. [t \in Times |-> IF t < now THEN served[c][t] ELSE served[c][t] + 1]
            \in [Times -> Nat]
    BY <1>1, <1>2
  <1>4. served' = [served EXCEPT ![c] =
                      [t \in Times |-> IF t < now THEN served[c][t]
                                                   ELSE served[c][t] + 1]]
    BY DEF Serve
  <1>5. served \in [Clients -> [Times -> Nat]]
    BY DEF TypeOK
  <1>6. served' \in [Clients -> [Times -> Nat]]
    BY <1>3, <1>4, <1>5
  <1>7. ASSUME NEW d \in Clients, NEW t \in Times
        PROVE  served'[d][t] = IF d = c /\ now <= t THEN served[d][t] + 1
                                                    ELSE served[d][t]
    <2>1. CASE d = c
      <3>1. served'[d] = [s \in Times |-> IF s < now THEN served[c][s]
                                                      ELSE served[c][s] + 1]
        BY <1>4, <1>5, <2>1
      <3> QED BY <3>1, <2>1, <1>2
    <2>2. CASE d # c
      BY <1>4, <1>5, <2>2
    <2> QED BY <2>1, <2>2
  <1> QED BY <1>6, <1>7

\* The map stays a set of clients, and only loses windows that are over.
LEMMA PrunedFacts ==
    ASSUME TypeOK
    PROVE  /\ Pruned \subseteq table
           /\ \A c \in table \ Pruned : Expired(c)
           /\ Cardinality(table) > Capacity => \A c \in Pruned : ~Expired(c)
  BY DEF Pruned

\* The map stays finite, and so has a cardinality.
LEMMA TableFinite ==
    ASSUME TypeOK
    PROVE  /\ IsFiniteSet(table) /\ Cardinality(table) \in Nat
           /\ IsFiniteSet(Pruned) /\ Cardinality(Pruned) \in Nat
           /\ Cardinality(Pruned) <= Cardinality(table)
  <1>1. IsFiniteSet(table)
    BY FS_Subset, LimiterAssumption DEF TypeOK
  <1>2. Pruned \subseteq table
    BY DEF Pruned
  <1> QED BY <1>1, <1>2, FS_Subset, FS_CardinalityType

-----------------------------------------------------------------------------

\* The limiter starts well typed.
LEMMA TypeInit == Init => TypeOK
  <1> SUFFICES ASSUME Init PROVE TypeOK
    OBVIOUS
  <1> USE LimiterAssumption DEF Init, Times
  <1>1. served \in [Clients -> [Times -> Nat]]
    OBVIOUS
  <1> QED BY <1>1 DEF TypeOK

\* Every step keeps the types.
LEMMA TypeNext == TypeOK /\ [Next]_vars => TypeOK'
  <1> SUFFICES ASSUME TypeOK, [Next]_vars PROVE TypeOK'
    OBVIOUS
  <1> USE LimiterAssumption DEF Times
  <1>1. CASE Tick
    BY <1>1 DEF Tick, TypeOK
  <1>2. ASSUME NEW c \in Clients, OpenWindow(c)
        PROVE  TypeOK'
    <2>1. served' \in [Clients -> [Times -> Nat]]
      BY <1>2, ServeHistory DEF OpenWindow
    <2>2. table' \subseteq Clients
      BY <1>2, PrunedFacts DEF OpenWindow, TypeOK
    <2>3. /\ start' \in [Clients -> Times] /\ count' \in [Clients -> Nat]
          /\ now' = now /\ refused' = refused
          /\ \A d \in Clients : start'[d] <= now
      BY <1>2 DEF OpenWindow, TypeOK
    <2> QED BY <2>1, <2>2, <2>3 DEF TypeOK
  <1>3. ASSUME NEW c \in Clients, CountRequest(c)
        PROVE  TypeOK'
    <2>1. served' \in [Clients -> [Times -> Nat]]
      BY <1>3, ServeHistory DEF CountRequest
    <2>2. table' \subseteq Clients
      BY <1>3, PrunedFacts DEF CountRequest, TypeOK
    <2>3. /\ start' = start /\ count' \in [Clients -> Nat]
          /\ now' = now /\ refused' = refused
      BY <1>3 DEF CountRequest, TypeOK
    <2> QED BY <2>1, <2>2, <2>3 DEF TypeOK
  <1>4. ASSUME NEW c \in Clients, Refuse(c)
        PROVE  TypeOK'
    BY <1>4, PrunedFacts DEF Refuse, TypeOK
  <1>5. CASE UNCHANGED vars
    BY <1>5 DEF vars, TypeOK
  <1> QED BY <1>1, <1>2, <1>3, <1>4, <1>5 DEF Next

-----------------------------------------------------------------------------

\* A history without requests.
LEMMA HistoryInit == Init => History
  <1> SUFFICES ASSUME Init PROVE History
    OBVIOUS
  <1> USE LimiterAssumption DEF Init, Times
  <1>1. /\ \A c \in Clients : \A t \in Times : served[c][t] = 0
        /\ \A c \in Clients : start[c] = 0 /\ count[c] = 0
    OBVIOUS
  <1>2. \A c \in Clients : Before(served[c], 0) = 0
    BY DEF Before
  <1> QED BY <1>1, <1>2
          DEF History, Monotone, Current, Counted, Opened, Forgotten, Spaced,
              Lapsed

\* Time passes without a request.
LEMMA HistoryTick == TypeOK /\ History /\ Tick => History'
  <1> SUFFICES ASSUME TypeOK, History, Tick PROVE History'
    OBVIOUS
  <1> USE LimiterAssumption DEF Times, Tick
  <1>1. now \in Times /\ now' \in Times /\ now <= now'
    BY DEF TypeOK
  <1>2. \A c \in Clients : served'[c][now'] = served[c][now]
    BY <1>1 DEF History, Current
  <1>3. \A c \in Clients : \A t \in Times :
            Before(served'[c], t) = Before(served[c], t)
    BY DEF Before
  <1>4. \A c \in Clients : start[c] \in Times /\ start'[c] = start[c]
    BY DEF TypeOK
  <1>5. Monotone'
    BY DEF History, Monotone
  <1>6. Current'
    BY <1>1, <1>2 DEF History, Current
  <1>7. Counted'
    BY <1>2, <1>3, <1>4 DEF History, Counted, Before
  <1>8. Opened'
    BY <1>3, <1>4 DEF History, Opened, Before
  <1>9. Forgotten'
    BY <1>1, <1>4 DEF History, Forgotten, Expired
  <1>10. Spaced'
    BY <1>3, <1>4 DEF History, Spaced, Before
  <1>11. Lapsed'
    <2>1. \A c \in Clients : Before(served'[c], now') = served[c][now]
      BY <1>1 DEF Before
    <2> QED BY <1>2, <2>1 DEF Lapsed
  <1> QED BY <1>5, <1>6, <1>7, <1>8, <1>9, <1>10, <1>11 DEF History

\* What is in the history before the current time stays as it is.
LEMMA ServeBefore ==
    ASSUME TypeOK, NEW c \in Clients, Serve(c), now' = now
    PROVE  \A d \in Clients : \A t \in Times : t <= now \/ d # c =>
               /\ Before(served[d], t) \in Nat
               /\ Before(served'[d], t) = Before(served[d], t)
  <1> USE LimiterAssumption DEF Times
  <1> SUFFICES ASSUME NEW d \in Clients, NEW t \in Times, t <= now \/ d # c
               PROVE  /\ Before(served[d], t) \in Nat
                      /\ Before(served'[d], t) = Before(served[d], t)
    OBVIOUS
  <1>1. CASE t = 0
    BY <1>1 DEF Before
  <1>2. CASE t # 0
    <2>1. t - 1 \in Times /\ (d # c \/ ~(now <= t - 1)) /\ now \in Nat
      BY <1>2 DEF TypeOK
    <2>2. served'[d][t - 1] = served[d][t - 1]
      BY <2>1, ServeHistory
    <2>3. served[d][t - 1] \in Nat
      BY <2>1 DEF TypeOK
    <2> QED BY <1>2, <2>2, <2>3 DEF Before
  <1> QED BY <1>1, <1>2

\* Letting a request through keeps the running total a running total.
LEMMA ServeTotal ==
    ASSUME TypeOK, Monotone, Current, NEW c \in Clients, Serve(c), now' = now
    PROVE  Monotone' /\ Current'
  <1> USE LimiterAssumption DEF Times
  <1>a. \A d \in Clients : \A t \in Times : served[d][t] \in Nat
    BY DEF TypeOK
  <1>1. \A d \in Clients : \A t \in Times :
            served'[d][t] = IF d = c /\ now <= t THEN served[d][t] + 1
                                                  ELSE served[d][t]
    BY ServeHistory
  <1>2. now \in Times
    BY DEF TypeOK
  <1>3. Monotone'
    BY <1>a, <1>1, <1>2 DEF Monotone
  <1>4. Current'
    BY <1>a, <1>1, <1>2 DEF Current
  <1> QED BY <1>3, <1>4

\* A new window begins: the last one is over, or there was none.
LEMMA HistoryOpen ==
    ASSUME TypeOK, History, NEW c \in Clients, OpenWindow(c)
    PROVE  History'
  <1> USE LimiterAssumption DEF Times
  <1>1. Serve(c) /\ now' = now
    BY DEF OpenWindow
  <1>2. /\ now \in Times
        /\ \A d \in Clients : start[d] \in Times /\ start[d] <= now
        /\ \A d \in Clients : count[d] \in Nat
        /\ \A d \in Clients : \A t \in Times : served[d][t] \in Nat
    BY DEF TypeOK
  <1>3. /\ start'[c] = now /\ count'[c] = 1
        /\ \A d \in Clients \ {c} : start'[d] = start[d] /\ count'[d] = count[d]
    BY DEF OpenWindow, TypeOK
  <1>4. count[c] = 0 \/ start[c] + Window <= now
    <2>1. c \notin table \/ Expired(c)
      BY PrunedFacts DEF OpenWindow
    <2>2. count[c] = 0 \/ Expired(c)
      BY <2>1 DEF History, Forgotten
    <2> QED BY <1>2, <2>2 DEF Expired
  <1>5. \A d \in Clients : \A t \in Times :
            served'[d][t] = IF d = c /\ now <= t THEN served[d][t] + 1
                                                  ELSE served[d][t]
    BY <1>1, ServeHistory
  <1>6. \A d \in Clients : \A t \in Times : t <= now \/ d # c =>
            /\ Before(served[d], t) \in Nat
            /\ Before(served'[d], t) = Before(served[d], t)
    BY <1>1, ServeBefore
  <1>7. Monotone' /\ Current'
    BY <1>1, ServeTotal DEF History
  <1>8. Before(served[c], now) = served[c][now]
    BY <1>2, <1>4 DEF History, Lapsed, Expired
  <1>9. /\ Before(served'[c], now) = served[c][now]
        /\ served'[c][now] = served[c][now] + 1
    BY <1>2, <1>5, <1>6, <1>8
  <1>10. Counted'
    <2>1. ASSUME NEW d \in Clients \ {c}
          PROVE  /\ served'[d][now] = Before(served'[d], start'[d]) + count'[d]
                 /\ count'[d] <= Limit
                 /\ count'[d] = 0 => start'[d] = 0
      <3>1. Before(served'[d], start[d]) = Before(served[d], start[d])
        BY <1>2, <1>6
      <3>2. served'[d][now] = served[d][now]
        BY <1>2, <1>5
      <3> QED BY <1>3, <3>1, <3>2 DEF History, Counted
    <2>2. /\ served'[c][now] = Before(served'[c], start'[c]) + count'[c]
          /\ count'[c] <= Limit /\ count'[c] # 0
      BY <1>3, <1>9
    <2> QED BY <1>1, <2>1, <2>2 DEF Counted
  <1>11. Opened'
    <2>1. ASSUME NEW d \in Clients \ {c}, count[d] > 0
          PROVE  Before(served'[d], start[d]) < served'[d][start[d]]
      BY <1>2, <1>5, <1>6, <2>1 DEF History, Opened
    <2> QED BY <1>2, <1>3, <1>9, <2>1 DEF Opened, Before
  <1>12. Forgotten'
    <2>1. table' = Pruned \cup {c}
      BY DEF OpenWindow
    <2>2. /\ \A d \in Clients \ Pruned : count[d] = 0 \/ Expired(d)
          /\ \A d \in Pruned : count[d] # 0
      BY PrunedFacts DEF History, Forgotten, TypeOK
    <2> QED BY <1>1, <1>3, <2>1, <2>2 DEF Forgotten, Expired
  <1>13. Spaced'
    <2>1. ASSUME NEW a \in Times, a < now, now - a < Window
          PROVE  Before(served'[c], now) < Before(served'[c], a) + Limit
      <3>1. /\ Before(served'[c], a) = Before(served[c], a)
            /\ Before(served[c], a) \in Nat
        BY <1>2, <1>6, <2>1
      <3>2. CASE count[c] = 0
        <4>1. served[c][now] = 0
          BY <1>2, <3>2 DEF History, Counted, Before
        <4> QED BY <1>9, <3>1, <4>1
      <3>3. CASE count[c] # 0
        <4>1. start[c] < a /\ a - 1 \in Times /\ start[c] <= a - 1
          BY <1>2, <1>4, <2>1, <3>3
        <4>2. served[c][start[c]] <= served[c][a - 1]
          BY <1>2, <4>1 DEF History, Monotone
        <4>3. Before(served[c], start[c]) < served[c][start[c]]
          BY <1>2, <3>3 DEF History, Opened
        <4>4. Before(served[c], a) = served[c][a - 1]
          BY <1>2, <4>1 DEF Before
        <4>5. /\ served[c][now] = Before(served[c], start[c]) + count[c]
              /\ count[c] <= Limit
          BY DEF History, Counted
        <4>6. Before(served[c], start[c]) \in Nat /\ served[c][start[c]] \in Nat
          BY <1>2, <1>6
        <4> QED BY <1>2, <1>9, <3>1, <4>1, <4>2, <4>3, <4>4, <4>5, <4>6
      <3> QED BY <3>2, <3>3
    <2>2. ASSUME NEW d \in Clients \ {c}, NEW a \in Times,
                 a < start[d], start[d] - a < Window
          PROVE  Before(served'[d], start[d]) < Before(served'[d], a) + Limit
      BY <1>2, <1>6, <2>2 DEF History, Spaced
    <2> QED BY <1>3, <2>1, <2>2 DEF Spaced, Before
  <1>14. Lapsed'
    <2>1. ~Expired(c)' /\ count'[c] # 0
      BY <1>1, <1>2, <1>3 DEF Expired
    <2>2. ASSUME NEW d \in Clients \ {c}, count[d] = 0 \/ Expired(d)
          PROVE  Before(served'[d], now) = served'[d][now]
      BY <1>2, <1>5, <1>6, <2>2 DEF History, Lapsed
    <2>3. \A d \in Clients \ {c} : Expired(d)' = Expired(d)
      BY <1>1, <1>3 DEF Expired
    <2> QED BY <1>1, <1>3, <2>1, <2>2, <2>3 DEF Lapsed, Before
  <1> QED BY <1>7, <1>10, <1>11, <1>12, <1>13, <1>14 DEF History

\* A request is counted in the current window.
LEMMA HistoryCount ==
    ASSUME TypeOK, History, NEW c \in Clients, CountRequest(c)
    PROVE  History'
  <1> USE LimiterAssumption DEF Times
  <1>1. /\ Serve(c) /\ now' = now /\ start' = start /\ table' = Pruned
        /\ ~Expired(c) /\ c \in Pruned /\ count[c] < Limit
    BY DEF CountRequest
  <1>2. /\ now \in Times
        /\ \A d \in Clients : start[d] \in Times /\ start[d] <= now
        /\ \A d \in Clients : count[d] \in Nat
        /\ \A d \in Clients : \A t \in Times : served[d][t] \in Nat
    BY DEF TypeOK
  <1>3. /\ count'[c] = count[c] + 1
        /\ \A d \in Clients \ {c} : count'[d] = count[d]
    BY DEF CountRequest, TypeOK
  <1>4. \A d \in Clients : \A t \in Times :
            served'[d][t] = IF d = c /\ now <= t THEN served[d][t] + 1
                                                  ELSE served[d][t]
    BY <1>1, ServeHistory
  <1>5. \A d \in Clients : \A t \in Times : t <= now \/ d # c =>
            /\ Before(served[d], t) \in Nat
            /\ Before(served'[d], t) = Before(served[d], t)
    BY <1>1, ServeBefore
  <1>6. \A d \in Clients :
            /\ Before(served[d], start[d]) \in Nat
            /\ Before(served'[d], start[d]) = Before(served[d], start[d])
    BY <1>2, <1>5
  <1>7. Monotone' /\ Current'
    BY <1>1, ServeTotal DEF History
  <1>8. /\ \A d \in Clients \ Pruned : count[d] = 0 \/ Expired(d)
        /\ \A d \in Pruned : count[d] # 0
    BY PrunedFacts DEF History, Forgotten, TypeOK
  <1>9. Counted'
    BY <1>1, <1>2, <1>3, <1>4, <1>6 DEF History, Counted
  <1>10. Opened'
    <2>1. \A d \in Clients : count[d] > 0 =>
              Before(served'[d], start[d]) < served'[d][start[d]]
      BY <1>2, <1>4, <1>6 DEF History, Opened
    <2>2. count[c] > 0
      BY <1>1, <1>2, <1>8
    <2> QED BY <1>1, <1>3, <2>1, <2>2 DEF Opened
  <1>11. Forgotten'
    BY <1>1, <1>2, <1>3, <1>8 DEF Forgotten, Expired
  <1>12. Spaced'
    <2>1. ASSUME NEW d \in Clients, NEW a \in Times, a < start[d],
                 start[d] - a < Window
          PROVE  Before(served'[d], start[d]) < Before(served'[d], a) + Limit
      <3>1. a <= now
        BY <1>2, <2>1
      <3> QED BY <1>5, <1>6, <2>1, <3>1 DEF History, Spaced
    <2> QED BY <1>1, <2>1 DEF Spaced
  <1>13. Lapsed'
    <2>1. ASSUME NEW d \in Clients \ {c}, count[d] = 0 \/ Expired(d)
          PROVE  Before(served'[d], now) = served'[d][now]
      BY <1>2, <1>4, <1>5, <2>1 DEF History, Lapsed
    <2>2. count'[c] # 0 /\ ~Expired(c)'
      BY <1>1, <1>2, <1>3 DEF Expired
    <2>3. \A d \in Clients : Expired(d)' = Expired(d)
      BY <1>1 DEF Expired
    <2> QED BY <1>1, <1>3, <2>1, <2>2, <2>3 DEF Lapsed
  <1> QED BY <1>7, <1>9, <1>10, <1>11, <1>12, <1>13 DEF History

\* A refusal only cleans up the map.
LEMMA HistoryRefuse ==
    ASSUME TypeOK, History, NEW c \in Clients, Refuse(c)
    PROVE  History'
  <1>1. now' = now /\ start' = start /\ count' = count /\ served' = served
    BY DEF Refuse
  <1>2. table' = Pruned
    BY DEF Refuse
  <1>3. /\ \A d \in Clients \ Pruned : count[d] = 0 \/ Expired(d)
        /\ \A d \in Pruned : count[d] # 0
    BY PrunedFacts DEF History, Forgotten, TypeOK
  <1>4. Forgotten'
    BY <1>1, <1>2, <1>3 DEF Forgotten, Expired
  <1>5. Monotone' /\ Current' /\ Counted' /\ Opened' /\ Spaced' /\ Lapsed'
    BY <1>1 DEF History, Monotone, Current, Counted, Opened, Spaced, Lapsed,
                Expired
  <1> QED BY <1>4, <1>5 DEF History

\* Every step keeps the facts about the history.
LEMMA HistoryNext == TypeOK /\ History /\ [Next]_vars => History'
  <1> SUFFICES ASSUME TypeOK, History, [Next]_vars PROVE History'
    OBVIOUS
  <1>1. CASE Tick
    BY <1>1, HistoryTick
  <1>2. ASSUME NEW c \in Clients, OpenWindow(c) PROVE History'
    BY <1>2, HistoryOpen
  <1>3. ASSUME NEW c \in Clients, CountRequest(c) PROVE History'
    BY <1>3, HistoryCount
  <1>4. ASSUME NEW c \in Clients, Refuse(c) PROVE History'
    BY <1>4, HistoryRefuse
  <1>5. CASE UNCHANGED vars
    BY <1>5 DEF vars, History, Monotone, Current, Counted, Opened, Forgotten,
                Spaced, Lapsed, Expired
  <1> QED BY <1>1, <1>2, <1>3, <1>4, <1>5 DEF Next

-----------------------------------------------------------------------------

\* The requests that got through until now, and no later time counts.
LEMMA RecentBound ==
    ASSUME TypeOK, History, NEW c \in Clients, NEW a \in Times,
           a <= now, now - a < Window
    PROVE  served[c][now] < Before(served[c], a) + 2 * Limit
  <1> USE LimiterAssumption DEF Times
  <1>1. /\ now \in Times /\ start[c] \in Times /\ start[c] <= now
        /\ count[c] \in Nat /\ \A t \in Times : served[c][t] \in Nat
    BY DEF TypeOK
  <1>2. Before(served[c], a) \in Nat /\ Before(served[c], start[c]) \in Nat
    BY <1>1 DEF Before
  <1>3. /\ served[c][now] = Before(served[c], start[c]) + count[c]
        /\ count[c] <= Limit
    BY DEF History, Counted
  <1>4. CASE a < start[c]
    <2>1. Before(served[c], start[c]) < Before(served[c], a) + Limit
      BY <1>1, <1>4 DEF History, Spaced
    <2> QED BY <1>1, <1>2, <1>3, <2>1
  <1>5. CASE start[c] <= a
    <2>1. Before(served[c], start[c]) <= Before(served[c], a)
      <3>1. CASE start[c] = 0
        BY <1>2, <3>1 DEF Before
      <3>2. CASE start[c] # 0
        <4>1. start[c] - 1 \in Times /\ a - 1 \in Times /\ a # 0
          BY <1>1, <1>5, <3>2
        <4>2. served[c][start[c] - 1] <= served[c][a - 1]
          BY <1>1, <1>5, <4>1 DEF History, Monotone
        <4> QED BY <3>2, <4>1, <4>2 DEF Before
      <3> QED BY <3>1, <3>2
    <2> QED BY <1>1, <1>2, <1>3, <2>1
  <1> QED BY <1>1, <1>4, <1>5

\* The bound for the stretches of time that are past.
PastBound ==
    \A c \in Clients : \A a, b \in Times :
        a <= b /\ b < now /\ b - a < Window =>
            served[c][b] < Before(served[c], a) + 2 * Limit

\* Those that end now or later follow from RecentBound.
LEMMA BoundEverywhere == TypeOK /\ History /\ PastBound => SlidingBound
  <1> SUFFICES ASSUME TypeOK, History, PastBound,
                      NEW c \in Clients, NEW a \in Times, NEW b \in Times,
                      a <= b, b - a < Window
               PROVE  served[c][b] < Before(served[c], a) + 2 * Limit
    BY DEF SlidingBound
  <1> USE LimiterAssumption DEF Times
  <1>1. now \in Times /\ \A t \in Times : served[c][t] \in Nat
    BY DEF TypeOK
  <1>2. CASE b < now
    BY <1>2 DEF PastBound
  <1>3. CASE now <= b /\ a <= now
    <2>1. served[c][b] = served[c][now]
      BY <1>1, <1>3 DEF History, Current
    <2>2. now - a < Window
      BY <1>1, <1>3
    <2> QED BY <1>3, <2>1, <2>2, RecentBound
  <1>4. CASE now < a
    <2>1. a - 1 \in Times /\ now <= a - 1 /\ now <= b
      BY <1>1, <1>4
    <2>2. served[c][b] = served[c][now] /\ served[c][a - 1] = served[c][now]
      BY <2>1 DEF History, Current
    <2> QED BY <1>1, <1>4, <2>1, <2>2 DEF Before
  <1> QED BY <1>1, <1>2, <1>3, <1>4

\* Steps at one time change nothing in the past, and when time goes on the
\* stretches that end now become past.
LEMMA PastNext == TypeOK /\ History /\ PastBound /\ [Next]_vars => PastBound'
  <1> SUFFICES ASSUME TypeOK, History, PastBound, [Next]_vars PROVE PastBound'
    OBVIOUS
  <1> USE LimiterAssumption DEF Times
  <1>1. now \in Times
    BY DEF TypeOK
  <1>2. CASE Tick
    <2>1. SlidingBound
      BY BoundEverywhere
    <2> QED BY <1>1, <1>2, <2>1 DEF Tick, SlidingBound, PastBound
  <1>3. ASSUME NEW c \in Clients, Serve(c), now' = now
        PROVE  PastBound'
    <2>1. \A d \in Clients : \A t \in Times : t <= now =>
              Before(served'[d], t) = Before(served[d], t)
      BY <1>3, ServeBefore
    <2>2. \A d \in Clients : \A t \in Times : t < now =>
              served'[d][t] = served[d][t]
      BY <1>1, <1>3, ServeHistory
    <2>3. ASSUME NEW d \in Clients, NEW a \in Times, NEW b \in Times,
                 a <= b, b < now, b - a < Window
          PROVE  served'[d][b] < Before(served'[d], a) + 2 * Limit
      <3>1. a <= now
        BY <1>1, <2>3
      <3> QED BY <2>1, <2>2, <2>3, <3>1 DEF PastBound
    <2> QED BY <1>3, <2>3 DEF PastBound
  <1>4. CASE now' = now /\ served' = served
    BY <1>4 DEF PastBound
  <1> QED BY <1>2, <1>3, <1>4 DEF Next, OpenWindow, CountRequest, Refuse, vars

\* A refusal finds Limit requests in a window that is not over.
LEMMA RefusalNext ==
    TypeOK /\ History /\ RefusalJustified /\ [Next]_vars => RefusalJustified'
  <1> SUFFICES ASSUME TypeOK, History, RefusalJustified, [Next]_vars
               PROVE  RefusalJustified'
    OBVIOUS
  <1> USE LimiterAssumption DEF Times
  <1>1. /\ now \in Times /\ Horizon \in Times /\ Horizon <= now
        /\ refused \subseteq Clients
    BY DEF TypeOK, Horizon
  <1>2. CASE Tick
    BY <1>2 DEF Tick, RefusalJustified
  <1>3. ASSUME NEW c \in Clients, Serve(c), now' = now, refused' = refused
        PROVE  RefusalJustified'
    <2>1. \A d \in Clients :
              /\ Before(served'[d], Horizon) = Before(served[d], Horizon)
              /\ Before(served[d], Horizon) \in Nat
      BY <1>1, <1>3, ServeBefore
    <2>2. \A d \in Clients :
              served'[d][now] = IF d = c THEN served[d][now] + 1
                                         ELSE served[d][now]
      BY <1>1, <1>3, ServeHistory
    <2>3. \A d \in Clients : served[d][now] \in Nat
      BY <1>1 DEF TypeOK
    <2>4. \A d \in refused :
              served'[d][now] >= Before(served'[d], Horizon) + Limit
      BY <1>1, <2>1, <2>2, <2>3 DEF RefusalJustified
    <2> QED BY <1>3, <2>4 DEF RefusalJustified, Horizon
  <1>4. ASSUME NEW c \in Clients, Refuse(c)
        PROVE  RefusalJustified'
    <2>1. ~Expired(c) /\ count[c] >= Limit /\ refused' = refused \cup {c}
          /\ now' = now /\ served' = served
      BY <1>4 DEF Refuse
    <2>2. /\ start[c] \in Times /\ count[c] \in Nat /\ start[c] <= now
          /\ \A t \in Times : served[c][t] \in Nat
      BY DEF TypeOK
    <2>3. Horizon <= start[c]
      BY <1>1, <2>1, <2>2 DEF Horizon, Expired
    <2>4. Before(served[c], Horizon) <= Before(served[c], start[c])
      <3>1. CASE Horizon = 0
        BY <2>2, <3>1 DEF Before
      <3>2. CASE Horizon # 0
        <4>1. Horizon - 1 \in Times /\ start[c] - 1 \in Times /\ start[c] # 0
          BY <1>1, <2>2, <2>3, <3>2
        <4>2. served[c][Horizon - 1] <= served[c][start[c] - 1]
          BY <1>1, <2>2, <2>3, <4>1 DEF History, Monotone
        <4> QED BY <3>2, <4>1, <4>2 DEF Before
      <3> QED BY <3>1, <3>2
    <2>5. served[c][now] = Before(served[c], start[c]) + count[c]
      BY DEF History, Counted
    <2>6. /\ Before(served[c], Horizon) \in Nat
          /\ Before(served[c], start[c]) \in Nat
      BY <1>1, <2>2 DEF Before
    <2>7. served[c][now] >= Before(served[c], Horizon) + Limit
      BY <2>1, <2>2, <2>4, <2>5, <2>6
    <2> QED BY <2>1, <2>7 DEF RefusalJustified, Horizon
  <1>5. CASE UNCHANGED vars
    BY <1>5 DEF vars, RefusalJustified, Horizon
  <1> QED BY <1>2, <1>3, <1>4, <1>5 DEF Next, OpenWindow, CountRequest

\* A map past its capacity was cleaned up by the step that made it so.
LEMMA TableNext == TypeOK /\ TableBounded /\ [Next]_vars => TableBounded'
  <1> SUFFICES ASSUME TypeOK, TableBounded, [Next]_vars PROVE TableBounded'
    OBVIOUS
  <1> USE LimiterAssumption DEF Times
  <1>1. /\ now \in Nat /\ table \subseteq Clients
        /\ \A c \in Clients : start[c] \in Nat /\ start[c] <= now
    BY DEF TypeOK
  <1>2. ASSUME NEW c \in Clients, OpenWindow(c)
        PROVE  TableBounded'
    <2>1. /\ table' = Pruned \cup {c} /\ start'[c] = now
          /\ \A d \in Clients \ {c} : start'[d] = start[d]
      BY <1>2 DEF OpenWindow, TypeOK
    <2>2. /\ Cardinality(table') \in Nat
          /\ Cardinality(table') <= Cardinality(table) + 1
      <3>1. Cardinality(Pruned \cup {c}) = Cardinality(Pruned)
            \/ Cardinality(Pruned \cup {c}) = Cardinality(Pruned) + 1
        BY TableFinite, FS_AddElement
      <3> QED BY <2>1, <3>1, TableFinite
    <2>3. ASSUME Cardinality(table') > Capacity + 1
          PROVE  \A d, e \in table' : start'[d] < start'[e] + Window
      <3>1. Cardinality(table) > Capacity
        BY <2>2, <2>3, TableFinite
      <3>2. \A d \in Pruned : ~Expired(d) /\ d \in Clients
        BY <1>1, <3>1, PrunedFacts
      <3> QED BY <1>1, <2>1, <3>2 DEF Expired
    <2> QED BY <2>3 DEF TableBounded
  <1>3. ASSUME table' = Pruned, start' = start
        PROVE  TableBounded'
    <2>1. ASSUME Cardinality(Pruned) > Capacity + 1
          PROVE  \A d, e \in Pruned : start[d] < start[e] + Window
      <3>1. Cardinality(table) > Capacity
        BY <2>1, TableFinite
      <3>2. \A d \in Pruned : ~Expired(d) /\ d \in Clients
        BY <1>1, <3>1, PrunedFacts
      <3> QED BY <1>1, <3>2 DEF Expired
    <2> QED BY <1>3, <2>1 DEF TableBounded
  <1>4. CASE table' = table /\ start' = start
    BY <1>4 DEF TableBounded
  <1> QED BY <1>2, <1>3, <1>4 DEF Next, Tick, CountRequest, Refuse, vars

-----------------------------------------------------------------------------

IInv == TypeOK /\ History /\ PastBound /\ RefusalJustified /\ TableBounded

\* The invariant holds in every behaviour.
LEMMA Inductive == Spec => []IInv
  <1>1. Init => IInv
    <2> SUFFICES ASSUME Init PROVE IInv
      OBVIOUS
    <2>1. TypeOK /\ History
      BY TypeInit, HistoryInit
    <2>2. PastBound
      BY LimiterAssumption DEF Init, PastBound, Times
    <2>3. RefusalJustified
      BY DEF Init, RefusalJustified
    <2>4. TableBounded
      BY DEF Init, TableBounded
    <2> QED BY <2>1, <2>2, <2>3, <2>4 DEF IInv
  <1>2. IInv /\ [Next]_vars => IInv'
    BY TypeNext, HistoryNext, PastNext, RefusalNext, TableNext DEF IInv
  <1> QED BY <1>1, <1>2, PTL DEF Spec

\* However requests arrive and whatever the map forgets, the limiter lets less
\* than twice the limit of one client through in any window's length.
THEOREM SlidingCorrect == Spec => []SlidingBound
  <1>1. IInv => SlidingBound
    BY BoundEverywhere DEF IInv
  <1> QED BY <1>1, Inductive, PTL

\* The limiter refuses nobody who kept within the limit.
THEOREM RefusalCorrect == Spec => []RefusalJustified
  <1>1. IInv => RefusalJustified
    BY DEF IInv
  <1> QED BY <1>1, Inductive, PTL

\* The map outgrows its capacity only with clients of one window's length.
THEOREM TableCorrect == Spec => []TableBounded
  <1>1. IInv => TableBounded
    BY DEF IInv
  <1> QED BY <1>1, Inductive, PTL

\* Types: whatever the map forgets, a client's window and count keep theirs.
THEOREM LimiterTypeCorrect == Spec => []TypeOK
  <1>1. IInv => TypeOK
    BY DEF IInv
  <1> QED BY <1>1, Inductive, PTL
=============================================================================
