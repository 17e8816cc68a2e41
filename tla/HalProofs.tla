----------------------------- MODULE HalProofs ------------------------------
(***************************************************************************)
(* Proofs about AlarmList, for any alarms and any width of the counter of  *)
(* ticks, about FileTable, for any devices and any number of descriptors,  *)
(* and about Heap, for any memory and any requests.                        *)
(***************************************************************************)
EXTENDS AlarmList, FileTable, Heap, TLAPS

(***************************************************************************)
(* Alarms                                                                  *)
(***************************************************************************)

Node   == Alarm \cup {List}
Linked == registered \cup {List}

(* The list is in the order of ranks, which fall along it: an alarm starts *)
(* at the head, above all others, and one that is stopped leaves a gap.    *)
Ordered(rank) ==
  /\ rank \in [Node -> Nat] /\ rank[List] = 0
  /\ \A x \in registered : rank[x] > 0
  /\ \A x, y \in registered : rank[x] = rank[y] => x = y
  /\ \A x \in registered : /\ rank[next[x]] < rank[x]
                           /\ \A y \in registered :
                                rank[y] < rank[x] => rank[y] <= rank[next[x]]
  /\ \A y \in registered : rank[y] <= rank[next[List]]

LinksInv ==
  /\ \A x \in Linked : /\ next[x] \in Linked /\ previous[x] \in Linked
                       /\ previous[next[x]] = x /\ next[previous[x]] = x
  /\ \A a \in Alarm \ registered :
       next[a] # "null" => next[a] = a /\ previous[a] = a

(* The time of an alarm, and that of one not visited in this tick.         *)
OnTime(a) ==
  \/ rollover[a] = 0 /\ time[a] = nticks + due[a]
  \/ rollover[a] = 1 /\ time[a] = nticks + due[a] - Ticks

ToVisit(a) == OnTime(a) \/ (nticks = 0 /\ time[a] = due[a])

(* Alarms from here on are still to be visited in this tick.               *)
cursor == CASE tick.at = "idle" -> List
            [] tick.at = "walk" -> tick.alarm
            [] tick.at = "call" -> tick.next

Called(a) == tick.at = "call" /\ a = tick.alarm

Walked(rank) ==
  /\ cursor \in Linked
  /\ \A a \in registered :
       IF rank[a] <= rank[cursor] THEN ToVisit(a) /\ ~Called(a)
       ELSE OnTime(a) /\ IF Called(a) THEN due[a] = 0 ELSE due[a] > 0

TickInv ==
  /\ tick.at = "idle" => tick = Idle
  /\ tick.at = "walk" => tick = [at |-> "walk", alarm |-> tick.alarm]
  /\ tick.at = "call" => /\ tick.alarm \in Alarm
                         /\ tick = [at |-> "call", alarm |-> tick.alarm,
                                    next |-> tick.next, calls |-> tick.calls]

AlarmInv ==
  /\ AlarmTypeOK /\ LinksInv /\ TickInv
  /\ \E rank \in [Node -> Nat] : Ordered(rank) /\ Walked(rank)

-----------------------------------------------------------------------------
LEMMA AlarmConstants ==
  /\ List \notin Alarm /\ "null" \notin Alarm /\ List # "null"
  /\ Ticks \in Nat /\ Ticks > 1
BY HalAssumption DEF List

(* A sum of two numbers of ticks. *)
LEMMA Wraps ==
  ASSUME Ticks \in Nat, Ticks > 1, NEW x \in 0 .. 2 * Ticks - 1
  PROVE  x % Ticks = IF x < Ticks THEN x ELSE x - Ticks
OBVIOUS

(* The ranks when a is put in front of all others.                         *)
Ahead(rank, a) == [rank EXCEPT ![a] = rank[next[List]] + 1]

LEMMA InsertOrdered ==
  ASSUME AlarmTypeOK, LinksInv, NEW rank \in [Node -> Nat], Ordered(rank),
         NEW a \in Alarm, a \notin registered,
         Insert(a), registered' = registered \cup {a},
         NEW new \in [Node -> Nat], new = Ahead(rank, a)
  PROVE  /\ next' \in [Node -> Node \cup {"null"}]
         /\ previous' \in [Node -> Node \cup {"null"}]
         /\ LinksInv' /\ Ordered(new)'
         /\ \A x \in registered : new[x] = rank[x]
         /\ \A x \in Linked : new[x] < new[a]
<1> DEFINE h == next[List]
<1>1. /\ a # List /\ a \in Node /\ List \in Node /\ List \in Linked
      /\ Linked \subseteq Node /\ a \notin Linked /\ Linked' = Linked \cup {a}
      /\ registered \subseteq Linked
  BY AlarmConstants DEF Node, Linked, AlarmTypeOK
<1>2. /\ h \in Linked /\ previous[h] = List
      /\ next \in [Node -> Node \cup {"null"}]
      /\ previous \in [Node -> Node \cup {"null"}]
  BY <1>1 DEF LinksInv, AlarmTypeOK, Node
<1>3. /\ next' = [next EXCEPT ![a] = h, ![List] = a]
      /\ previous' = [previous EXCEPT ![a] = List, ![h] = a]
  BY DEF Insert
<1>4. /\ next' \in [Node -> Node \cup {"null"}]
      /\ previous' \in [Node -> Node \cup {"null"}]
  BY <1>1, <1>2, <1>3
<1>5. /\ next'[a] = h /\ next'[List] = a
      /\ \A x \in Node : x # a /\ x # List => next'[x] = next[x]
      /\ previous'[h] = a /\ previous'[a] = List
      /\ \A x \in Node : x # a /\ x # h => previous'[x] = previous[x]
  BY <1>1, <1>2, <1>3
<1>6. LinksInv'
  <2>1. ASSUME NEW x \in Linked'
        PROVE  /\ next'[x] \in Linked' /\ previous'[x] \in Linked'
               /\ previous'[next'[x]] = x /\ next'[previous'[x]] = x
    <3>1. CASE x = a
      BY <1>1, <1>2, <1>5, <3>1
    <3>2. CASE x # a
      <4>1. /\ x \in Linked /\ next[x] \in Linked /\ previous[x] \in Linked
            /\ previous[next[x]] = x /\ next[previous[x]] = x
        BY <1>1, <3>2 DEF LinksInv
      <4>2. x # List => next[x] # h
        BY <1>2, <4>1
      <4>3. x # h => previous[x] # List
        BY <4>1
      <4>4. next'[x] \in Linked' /\ previous'[next'[x]] = x
        <5>1. CASE x = List
          BY <1>1, <1>5, <5>1
        <5>2. CASE x # List
          BY <1>1, <1>5, <3>2, <4>1, <4>2, <5>2
        <5> QED
          BY <5>1, <5>2
      <4>5. previous'[x] \in Linked' /\ next'[previous'[x]] = x
        <5>1. CASE x = h
          BY <1>1, <1>2, <1>5, <5>1
        <5>2. CASE x # h
          BY <1>1, <1>5, <3>2, <4>1, <4>3, <5>2
        <5> QED
          BY <5>1, <5>2
      <4> QED
        BY <4>4, <4>5
    <3> QED
      BY <3>1, <3>2
  <2>2. ASSUME NEW x \in Alarm \ registered'
        PROVE  next'[x] # "null" => next'[x] = x /\ previous'[x] = x
    <3>1. x \in Alarm \ registered /\ x # a /\ x # List /\ x # h /\ x \in Node
      BY <1>1, <1>2, AlarmConstants DEF Linked, Node
    <3> QED
      BY <1>5, <3>1 DEF LinksInv
  <2> QED
    BY <2>1, <2>2 DEF LinksInv
<1>7. new[a] = rank[h] + 1 /\ \A x \in Node : x # a => new[x] = rank[x]
  BY <1>1 DEF Ahead
<1>8. \A x \in Linked : rank[x] <= rank[h] /\ rank[x] \in Nat
  <2>1. rank[List] = 0 /\ \A x \in Node : rank[x] \in Nat
    BY DEF Ordered
  <2>2. \A x \in registered : rank[x] <= rank[h]
    BY DEF Ordered
  <2> QED
    BY <1>1, <1>2, <2>1, <2>2 DEF Linked
<1>9. \A x \in Linked : new[x] = rank[x] /\ new[x] < new[a]
  BY <1>1, <1>2, <1>7, <1>8
<1>10. Ordered(new)'
  <2>1. new[List] = 0 /\ \A x \in registered' : new[x] > 0
    <3>1. new[List] = 0
      BY <1>1, <1>9 DEF Ordered
    <3>2. new[a] > 0
      BY <1>2, <1>7, <1>8
    <3>3. \A x \in registered : new[x] > 0
      BY <1>1, <1>9 DEF Ordered
    <3> QED
      BY <3>1, <3>2, <3>3
  <2>2. \A x, y \in registered' : new[x] = new[y] => x = y
    <3>1. \A x \in registered : new[x] # new[a] /\ new[x] = rank[x]
      BY <1>1, <1>2, <1>7, <1>8, <1>9
    <3> QED
      BY <3>1 DEF Ordered
  <2>3. ASSUME NEW x \in registered'
        PROVE  /\ new[next'[x]] < new[x]
               /\ \A y \in registered' :
                    new[y] < new[x] => new[y] <= new[next'[x]]
    <3>1. CASE x = a
      <4>1. next'[x] = h /\ new[h] = rank[h] /\ new[h] < new[a]
        BY <1>2, <1>5, <1>9, <3>1
      <4>2. \A y \in registered : new[y] <= new[h]
        BY <1>1, <1>2, <1>8, <1>9
      <4>3. ~(new[a] < new[a])
        BY <1>2, <1>7, <1>8
      <4> QED
        BY <3>1, <4>1, <4>2, <4>3
    <3>2. CASE x # a
      <4>1. x \in registered /\ x # List /\ x \in Linked
        BY <1>1, <3>2, AlarmConstants DEF AlarmTypeOK
      <4>2. next'[x] = next[x] /\ next[x] \in Linked
        BY <1>1, <1>5, <3>2, <4>1 DEF LinksInv
      <4>3. ~(new[a] < new[x])
        BY <1>2, <1>7, <1>8, <1>9, <4>1
      <4>4. /\ rank[next[x]] < rank[x]
            /\ \A y \in registered : rank[y] < rank[x] => rank[y] <= rank[next[x]]
        BY <4>1 DEF Ordered
      <4> QED
        BY <1>1, <1>9, <4>1, <4>2, <4>3, <4>4
    <3> QED
      BY <3>1, <3>2
  <2>4. \A y \in registered' : new[y] <= new[next'[List]]
    <3>1. new[a] <= new[a] /\ \A y \in registered : new[y] <= new[a]
      BY <1>1, <1>2, <1>7, <1>8, <1>9
    <3> QED
      BY <1>5, <3>1
  <2> QED
    BY <2>1, <2>2, <2>3, <2>4 DEF Ordered
<1> QED
  BY <1>1, <1>4, <1>6, <1>9, <1>10

LEMMA RemoveOrdered ==
  ASSUME AlarmTypeOK, LinksInv, NEW rank \in [Node -> Nat], Ordered(rank),
         NEW a \in Alarm, Stop(a)
  PROVE  /\ next' \in [Node -> Node \cup {"null"}]
         /\ previous' \in [Node -> Node \cup {"null"}]
         /\ LinksInv' /\ Ordered(rank)'
<1> DEFINE p == previous[a]
           n == next[a]
<1>1. /\ a # List /\ a \in Node /\ List \in Node /\ List \in Linked
      /\ Linked \subseteq Node /\ Linked' = Linked \ {a}
      /\ registered \subseteq Linked /\ registered' = registered \ {a}
  BY AlarmConstants DEF Node, Linked, AlarmTypeOK, Stop
<1>2. /\ previous' = [previous EXCEPT ![n] = p, ![a] = a]
      /\ next' = [next EXCEPT ![p] = n, ![a] = a]
      /\ n # "null"
      /\ next \in [Node -> Node \cup {"null"}]
      /\ previous \in [Node -> Node \cup {"null"}]
  BY DEF Stop, Remove, AlarmTypeOK, Node
<1>3. CASE a \notin registered
  <2>1. n = a /\ p = a
    BY <1>2, <1>3 DEF LinksInv
  <2>2. next' = next /\ previous' = previous
    BY <1>1, <1>2, <2>1
  <2>3. registered' = registered
    BY <1>1, <1>3
  <2> QED
    BY <1>2, <2>2, <2>3 DEF LinksInv, Linked, Ordered
<1>4. CASE a \in registered
  <2>1. /\ n \in Linked /\ p \in Linked /\ previous[n] = a /\ next[p] = a
        /\ a \in Linked
    BY <1>1, <1>4 DEF LinksInv
  <2>2. n # a /\ p # a
    <3>1. rank[n] < rank[a] /\ rank[a] \in Nat /\ rank[n] \in Nat
      BY <1>1, <1>4, <2>1 DEF Ordered
    <3>2. n # a
      BY <3>1
    <3> QED
      BY <2>1, <3>2
  <2>3. /\ next' \in [Node -> Node \cup {"null"}]
        /\ previous' \in [Node -> Node \cup {"null"}]
    BY <1>1, <1>2, <2>1
  <2>4. /\ next'[a] = a /\ next'[p] = n
        /\ \A x \in Node : x # a /\ x # p => next'[x] = next[x]
        /\ previous'[a] = a /\ previous'[n] = p
        /\ \A x \in Node : x # a /\ x # n => previous'[x] = previous[x]
    BY <1>1, <1>2, <2>1, <2>2
  <2>5. LinksInv'
    <3>1. ASSUME NEW x \in Linked'
          PROVE  /\ next'[x] \in Linked' /\ previous'[x] \in Linked'
                 /\ previous'[next'[x]] = x /\ next'[previous'[x]] = x
      <4>1. /\ x \in Linked /\ x # a
            /\ next[x] \in Linked /\ previous[x] \in Linked
            /\ previous[next[x]] = x /\ next[previous[x]] = x
        BY <1>1 DEF LinksInv
      <4>2. x # p => next[x] # a /\ next[x] # n
        BY <2>1, <4>1
      <4>3. x # n => previous[x] # a /\ previous[x] # p
        BY <2>1, <4>1
      <4>4. next'[x] \in Linked' /\ previous'[next'[x]] = x
        <5>1. CASE x = p
          BY <1>1, <2>1, <2>2, <2>4, <5>1
        <5>2. CASE x # p
          BY <1>1, <2>4, <4>1, <4>2, <5>2
        <5> QED
          BY <5>1, <5>2
      <4>5. previous'[x] \in Linked' /\ next'[previous'[x]] = x
        <5>1. CASE x = n
          BY <1>1, <2>1, <2>2, <2>4, <5>1
        <5>2. CASE x # n
          BY <1>1, <2>4, <4>1, <4>3, <5>2
        <5> QED
          BY <5>1, <5>2
      <4> QED
        BY <4>4, <4>5
    <3>2. ASSUME NEW x \in Alarm \ registered'
          PROVE  next'[x] # "null" => next'[x] = x /\ previous'[x] = x
      <4>1. CASE x = a
        BY <2>4, <4>1
      <4>2. CASE x # a
        <5>1. x \in Alarm \ registered /\ x \notin Linked /\ x \in Node
          BY <1>1, <4>2, AlarmConstants DEF Linked, Node
        <5> QED
          BY <2>1, <2>4, <4>2, <5>1 DEF LinksInv
      <4> QED
        BY <4>1, <4>2
    <3> QED
      BY <3>1, <3>2 DEF LinksInv
  <2>6. Ordered(rank)'
    <3>1. \A x \in Linked : rank[x] \in Nat
      BY <1>1
    <3>2. rank[n] < rank[a] /\ \A y \in registered :
                                 rank[y] < rank[a] => rank[y] <= rank[n]
      BY <1>4 DEF Ordered
    <3>3. ASSUME NEW x \in registered'
          PROVE  /\ rank[next'[x]] < rank[x]
                 /\ \A y \in registered' :
                      rank[y] < rank[x] => rank[y] <= rank[next'[x]]
      <4>1. /\ x \in registered /\ x # a /\ x \in Linked /\ next[x] \in Linked
            /\ rank[next[x]] < rank[x]
            /\ \A y \in registered : rank[y] < rank[x] => rank[y] <= rank[next[x]]
        BY <1>1 DEF Ordered, LinksInv
      <4>2. CASE x = p
        <5>1. next[x] = a /\ next'[x] = n
          BY <2>1, <2>4, <4>2
        <5>2. \A y \in registered' : rank[y] <= rank[a] => rank[y] < rank[a]
          <6>1. TAKE y \in registered'
          <6>2. y \in registered /\ y # a
            BY <1>1
          <6>3. rank[y] # rank[a]
            BY <1>4, <6>2 DEF Ordered
          <6> QED
            BY <1>1, <2>1, <3>1, <6>2, <6>3
        <5> QED
          BY <1>1, <2>1, <3>1, <3>2, <4>1, <5>1, <5>2
      <4>3. CASE x # p
        BY <1>1, <2>4, <4>1, <4>3
      <4> QED
        BY <4>2, <4>3
    <3>4. \A y \in registered' : rank[y] <= rank[next'[List]]
      <4>1. \A y \in registered : rank[y] <= rank[next[List]]
        BY DEF Ordered
      <4>2. CASE List = p
        <5>1. next[List] = a /\ next'[List] = n
          BY <2>1, <2>4, <4>2
        <5>2. \A y \in registered' : rank[y] < rank[a]
          <6>1. TAKE y \in registered'
          <6>2. y \in registered /\ y # a
            BY <1>1
          <6>3. rank[y] # rank[a]
            BY <1>4, <6>2 DEF Ordered
          <6> QED
            BY <1>1, <2>1, <3>1, <4>1, <5>1, <6>2, <6>3
        <5> QED
          BY <1>1, <3>2, <5>1, <5>2
      <4>3. CASE List # p
        BY <1>1, <2>4, <4>1, <4>3
      <4> QED
        BY <4>2, <4>3
    <3> QED
      BY <1>1, <3>3, <3>4 DEF Ordered
  <2> QED
    BY <2>3, <2>5, <2>6
<1> QED
  BY <1>3, <1>4

-----------------------------------------------------------------------------
(* One lemma for each action.                                              *)

LEMMA StartStep ==
  ASSUME AlarmInv, NEW a \in Alarm, NEW n \in 0 .. Ticks - 2, Start(a, n),
         UNCHANGED <<rate, nticks>>,
         cursor' = cursor, tick'.at = tick.at, TickInv',
         \A x \in Alarm : Called(x)' <=> Called(x),
         ~Called(a)
  PROVE  AlarmInv'
<1>1. /\ AlarmTypeOK /\ LinksInv /\ TickInv /\ a \notin registered
      /\ Insert(a) /\ registered' = registered \cup {a}
      /\ time' = [time EXCEPT ![a] = (n + nticks + 1) % Ticks]
      /\ rollover' = [rollover EXCEPT ![a] = Rollover(time'[a])]
      /\ due' = [due EXCEPT ![a] = n + 1]
  BY DEF AlarmInv, Start
<1>2. PICK rank \in [Node -> Nat] : Ordered(rank) /\ Walked(rank)
  BY DEF AlarmInv
<1>3. next[List] \in Node
  BY <1>1 DEF LinksInv, Linked, Node, AlarmTypeOK
<1>4. PICK new \in [Node -> Nat] : new = Ahead(rank, a)
  <2>1. rank[next[List]] + 1 \in Nat
    BY <1>2, <1>3
  <2>2. Ahead(rank, a) \in [Node -> Nat]
    BY <1>2, <2>1 DEF Ahead
  <2> QED
    BY <2>2
<1>5. /\ next' \in [Node -> Node \cup {"null"}]
      /\ previous' \in [Node -> Node \cup {"null"}]
      /\ LinksInv' /\ Ordered(new)'
      /\ \A x \in registered : new[x] = rank[x]
      /\ \A x \in Linked : new[x] < new[a]
  BY <1>1, <1>2, <1>4, InsertOrdered
<1>6. /\ nticks \in 0 .. Ticks - 1 /\ Ticks \in Nat /\ Ticks > 1
      /\ time \in [Alarm -> 0 .. Ticks - 1] /\ rollover \in [Alarm -> {0, 1}]
      /\ due \in [Alarm -> 0 .. Ticks - 1] /\ registered \subseteq Alarm
  BY <1>1, AlarmConstants DEF AlarmTypeOK
<1>7. /\ (n + nticks + 1) % Ticks \in 0 .. Ticks - 1
      /\ (n + nticks + 1) % Ticks = IF n + nticks + 1 < Ticks
                                    THEN n + nticks + 1
                                    ELSE n + nticks + 1 - Ticks
  <2> DEFINE t == n + nticks + 1
  <2>1. t \in 0 .. 2 * Ticks - 1
    BY <1>6
  <2> HIDE DEF t
  <2>2. t % Ticks = IF t < Ticks THEN t ELSE t - Ticks
    BY <1>6, <2>1, Wraps
  <2> USE DEF t
  <2> QED
    BY <1>6, <2>1, <2>2
<1>8. Rollover(time'[a]) \in {0, 1}
  BY DEF Rollover
<1>9. AlarmTypeOK'
  BY <1>1, <1>5, <1>6, <1>7, <1>8 DEF AlarmTypeOK, Node
<1>10. OnTime(a)' /\ due'[a] > 0
  <2>1. /\ time'[a] = (n + nticks + 1) % Ticks /\ due'[a] = n + 1
        /\ rollover'[a] = IF time'[a] < nticks THEN 1 ELSE 0
    BY <1>1, <1>6 DEF Rollover
  <2> QED
    BY <1>6, <1>7, <2>1 DEF OnTime
<1>11. \A x \in registered :
         /\ time'[x] = time[x] /\ due'[x] = due[x]
         /\ rollover'[x] = rollover[x]
  BY <1>1, <1>6
<1>12. Walked(new)'
  <2>1. cursor' \in Linked' /\ cursor \in Linked
    BY <1>1, <1>2 DEF Walked, Linked
  <2>2. ASSUME NEW x \in registered'
        PROVE  IF new[x] <= new[cursor'] THEN ToVisit(x)' /\ ~Called(x)'
               ELSE OnTime(x)' /\ IF Called(x)' THEN due'[x] = 0 ELSE due'[x] > 0
    <3>1. new[cursor'] < new[a] /\ new[cursor'] \in Nat /\ new[a] \in Nat
      BY <1>1, <1>4, <1>5, <2>1 DEF Linked, Node, AlarmTypeOK
    <3>2. CASE x = a
      <4>1. ~(new[x] <= new[cursor'])
        BY <3>1, <3>2
      <4> QED
        BY <1>10, <3>2, <4>1
    <3>3. CASE x # a
      <4>1. x \in registered /\ x \in Alarm
        BY <1>1, <1>6, <3>3
      <4>2. new[x] = rank[x] /\ new[cursor'] = rank[cursor]
        <5>1. CASE cursor \in registered
          BY <1>5, <4>1, <5>1
        <5>2. CASE cursor = List
          <6>1. new[List] = 0 /\ rank[List] = 0
            BY <1>2, <1>4, <1>5 DEF Ordered
          <6> QED
            BY <1>5, <4>1, <5>2, <6>1
        <5> QED
          BY <2>1, <5>1, <5>2 DEF Linked
      <4>3. /\ OnTime(x)' <=> OnTime(x)
            /\ ToVisit(x)' <=> ToVisit(x)
            /\ due'[x] = due[x] /\ (Called(x)' <=> Called(x))
        BY <1>11, <4>1 DEF OnTime, ToVisit
      <4>4. IF rank[x] <= rank[cursor] THEN ToVisit(x) /\ ~Called(x)
            ELSE OnTime(x) /\ IF Called(x) THEN due[x] = 0 ELSE due[x] > 0
        BY <1>2, <4>1 DEF Walked
      <4> QED
        BY <4>2, <4>3, <4>4
    <3> QED
      BY <3>2, <3>3
  <2> QED
    BY <2>1, <2>2 DEF Walked
<1> QED
  BY <1>4, <1>5, <1>9, <1>12 DEF AlarmInv

LEMMA StopStep ==
  ASSUME AlarmInv, NEW a \in Alarm, a # cursor, Stop(a),
         UNCHANGED <<rate, nticks, time, rollover, due>>,
         cursor' = cursor, TickInv', tick'.at \in {"idle", "walk", "call"},
         \A x \in Alarm : x # a => (Called(x)' <=> Called(x))
  PROVE  AlarmInv'
<1>1. /\ AlarmTypeOK /\ LinksInv /\ TickInv
      /\ registered' = registered \ {a} /\ registered \subseteq Alarm
  BY DEF AlarmInv, Stop, AlarmTypeOK
<1>2. PICK rank \in [Node -> Nat] : Ordered(rank) /\ Walked(rank)
  BY DEF AlarmInv
<1>3. /\ next' \in [Node -> Node \cup {"null"}]
      /\ previous' \in [Node -> Node \cup {"null"}]
      /\ LinksInv' /\ Ordered(rank)'
  BY <1>1, <1>2, RemoveOrdered
<1>4. AlarmTypeOK'
  BY <1>1, <1>3 DEF AlarmTypeOK, Node
<1>5. Walked(rank)'
  <2>1. cursor' \in Linked'
    BY <1>1, <1>2 DEF Walked, Linked
  <2>2. ASSUME NEW x \in registered'
        PROVE  IF rank[x] <= rank[cursor'] THEN ToVisit(x)' /\ ~Called(x)'
               ELSE OnTime(x)' /\ IF Called(x)' THEN due'[x] = 0 ELSE due'[x] > 0
    <3>1. x \in registered /\ x # a /\ x \in Alarm
      BY <1>1
    <3>2. /\ OnTime(x)' <=> OnTime(x)
          /\ ToVisit(x)' <=> ToVisit(x)
          /\ due'[x] = due[x] /\ (Called(x)' <=> Called(x))
      BY <3>1 DEF OnTime, ToVisit
    <3>3. IF rank[x] <= rank[cursor] THEN ToVisit(x) /\ ~Called(x)
          ELSE OnTime(x) /\ IF Called(x) THEN due[x] = 0 ELSE due[x] > 0
      BY <1>2, <3>1 DEF Walked
    <3> QED
      BY <3>2, <3>3
  <2> QED
    BY <2>1, <2>2 DEF Walked
<1> QED
  BY <1>3, <1>4, <1>5 DEF AlarmInv

(* A call that a callback makes leaves the place in the list. *)
LEMMA CallsKeepPlace ==
  ASSUME TickInv, AlarmCalls
  PROVE  /\ TickInv' /\ cursor' = cursor /\ tick.at = "call"
         /\ tick'.at = "call" /\ cursor = tick.next
         /\ tick'.alarm = tick.alarm
         /\ \A x \in Alarm : Called(x)' <=> Called(x)
<1>1. /\ tick.at = "call" /\ tick.alarm \in Alarm
      /\ tick = [at |-> "call", alarm |-> tick.alarm,
                 next |-> tick.next, calls |-> tick.calls]
      /\ tick' = [tick EXCEPT !.calls = @ + 1]
  BY DEF TickInv, AlarmCalls
<1>2. /\ tick'.at = "call" /\ tick'.alarm = tick.alarm
      /\ tick'.next = tick.next /\ tick'.calls = tick.calls + 1
      /\ tick' = [at |-> "call", alarm |-> tick.alarm,
                  next |-> tick.next, calls |-> tick.calls + 1]
  BY <1>1
<1>3. TickInv'
  BY <1>1, <1>2 DEF TickInv
<1> QED
  BY <1>1, <1>2, <1>3 DEF cursor, Called

LEMMA ProgramStep ==
  ASSUME AlarmInv, NEW a \in Alarm,
         ProgramStop(a) \/ \E n \in 0 .. Ticks - 2 : ProgramStart(a, n)
  PROVE  AlarmInv'
<1>1. tick = Idle /\ tick' = tick /\ TickInv
  BY DEF AlarmInv, ProgramStop, ProgramStart
<1>2. /\ tick.at = "idle" /\ tick'.at = "idle" /\ TickInv'
      /\ cursor = List /\ cursor' = List
      /\ \A x \in Alarm : ~Called(x) /\ ~Called(x)'
  BY <1>1 DEF Idle, TickInv, cursor, Called
<1>3. CASE ProgramStop(a)
  BY <1>2, <1>3, StopStep, AlarmConstants DEF ProgramStop
<1>4. ASSUME NEW n \in 0 .. Ticks - 2, ProgramStart(a, n) PROVE AlarmInv'
  BY <1>2, <1>4, StartStep DEF ProgramStart
<1> QED
  BY <1>3, <1>4

LEMMA CallbackStep ==
  ASSUME AlarmInv, CallbackStops = "notNext", NEW a \in Alarm,
         CallbackStop(a) \/ \E n \in 0 .. Ticks - 2 : CallbackStart(a, n)
  PROVE  AlarmInv'
<1>1. AlarmCalls /\ TickInv
  BY DEF AlarmInv, CallbackStop, CallbackStart
<1>2. CASE CallbackStop(a)
  <2>1. a # tick.next /\ Stop(a) /\ UNCHANGED <<rate, nticks, time, rollover, due>>
    BY <1>2 DEF CallbackStop
  <2> QED
    BY <1>1, <2>1, CallsKeepPlace, StopStep
<1>3. ASSUME NEW n \in 0 .. Ticks - 2, CallbackStart(a, n) PROVE AlarmInv'
  <2>1. a # tick.alarm /\ Start(a, n) /\ UNCHANGED <<rate, nticks>>
    BY <1>3 DEF CallbackStart
  <2>2. ~Called(a)
    BY <2>1 DEF Called
  <2> QED
    BY <1>1, <2>1, <2>2, CallsKeepPlace, StartStep
<1> QED
  BY <1>2, <1>3

LEMMA BeginStep == ASSUME AlarmInv, TickBegin PROVE AlarmInv'
<1>1. /\ AlarmTypeOK /\ LinksInv /\ TickInv /\ tick = Idle
      /\ nticks' = (nticks + 1) % Ticks
      /\ tick' = [at |-> "walk", alarm |-> next[List]]
      /\ due' = [a \in Alarm |-> IF a \in registered THEN due[a] - 1 ELSE due[a]]
      /\ UNCHANGED <<rate, next, previous, time, rollover, registered>>
  BY DEF AlarmInv, TickBegin, links
<1>2. PICK rank \in [Node -> Nat] : Ordered(rank) /\ Walked(rank)
  BY DEF AlarmInv
<1>3. /\ nticks \in 0 .. Ticks - 1 /\ Ticks \in Nat /\ Ticks > 1
      /\ time \in [Alarm -> 0 .. Ticks - 1] /\ rollover \in [Alarm -> {0, 1}]
      /\ due \in [Alarm -> 0 .. Ticks - 1] /\ registered \subseteq Alarm
  BY <1>1, AlarmConstants DEF AlarmTypeOK
<1>4. tick.at = "idle" /\ cursor = List /\ \A x \in Alarm : ~Called(x)
  BY <1>1 DEF Idle, cursor, Called
<1>5. \A x \in registered : OnTime(x) /\ due[x] > 0
  <2>1. \A x \in registered : ~(rank[x] <= rank[List])
    BY <1>2, <1>3 DEF Ordered, Node
  <2> QED
    BY <1>2, <1>3, <1>4, <2>1 DEF Walked
<1>6. nticks' = IF nticks = Ticks - 1 THEN 0 ELSE nticks + 1
  <2> DEFINE t == nticks + 1
  <2>1. t \in 0 .. 2 * Ticks - 1
    BY <1>3
  <2> HIDE DEF t
  <2>2. t % Ticks = IF t < Ticks THEN t ELSE t - Ticks
    BY <1>3, <2>1, Wraps
  <2> USE DEF t
  <2> QED
    BY <1>1, <1>3, <2>2
<1>7. /\ tick'.at = "walk" /\ tick'.alarm = next[List] /\ cursor' = next[List]
      /\ TickInv' /\ \A x \in Alarm : ~Called(x)'
  BY <1>1 DEF cursor, Called, TickInv
<1>8. AlarmTypeOK'
  <2>1. due' \in [Alarm -> 0 .. Ticks - 1]
    BY <1>1, <1>3, <1>5
  <2> QED
    BY <1>1, <1>3, <1>6, <1>7, <2>1 DEF AlarmTypeOK
<1>9. LinksInv' /\ Ordered(rank)'
  BY <1>1, <1>2 DEF LinksInv, Ordered, Linked
<1>10. Walked(rank)'
  <2>1. cursor' \in Linked'
    BY <1>1, <1>7 DEF LinksInv, Linked
  <2>2. ASSUME NEW x \in registered' PROVE rank[x] <= rank[cursor'] /\ ToVisit(x)'
    <3>1. x \in registered /\ x \in Alarm /\ rank[x] <= rank[cursor']
      BY <1>1, <1>2, <1>3, <1>7 DEF Ordered
    <3>2. /\ due'[x] = due[x] - 1 /\ due[x] > 0 /\ OnTime(x)
          /\ time'[x] = time[x] /\ rollover'[x] = rollover[x]
          /\ time[x] \in 0 .. Ticks - 1 /\ due[x] \in 0 .. Ticks - 1
      BY <1>1, <1>3, <1>5, <3>1
    <3> QED
      BY <1>3, <1>6, <3>1, <3>2 DEF OnTime, ToVisit
  <2> QED
    BY <1>1, <1>3, <1>7, <2>1, <2>2 DEF Walked
<1> QED
  BY <1>7, <1>8, <1>9, <1>10 DEF AlarmInv

(* The alarm visited is called if its time has come.                       *)
LEMMA VisitStep ==
  ASSUME AlarmInv, TickVisit
  PROVE  /\ AlarmInv'
         /\ tick'.at = "call" => /\ tick'.alarm \in registered
                                 /\ due[tick'.alarm] = 0
<1>0. PICK a : a = tick.alarm
  OBVIOUS
<1> DEFINE due_now == time[a] <= nticks /\ rollover'[a] = 0
<1>1. /\ AlarmTypeOK /\ LinksInv /\ TickInv /\ tick.at = "walk" /\ a # List
      /\ rollover' = IF nticks = 0 THEN [rollover EXCEPT ![a] = 0]
                                   ELSE rollover
      /\ tick' = IF due_now
                 THEN [at |-> "call", alarm |-> a, next |-> next[a],
                       calls |-> 0]
                 ELSE [at |-> "walk", alarm |-> next[a]]
      /\ UNCHANGED <<rate, nticks, next, previous, time, registered, due>>
  BY <1>0 DEF AlarmInv, TickVisit, links
<1>2. PICK rank \in [Node -> Nat] : Ordered(rank) /\ Walked(rank)
  BY DEF AlarmInv
<1>3. /\ nticks \in 0 .. Ticks - 1 /\ Ticks \in Nat /\ Ticks > 1
      /\ time \in [Alarm -> 0 .. Ticks - 1] /\ rollover \in [Alarm -> {0, 1}]
      /\ due \in [Alarm -> 0 .. Ticks - 1] /\ registered \subseteq Alarm
  BY <1>1, AlarmConstants DEF AlarmTypeOK
<1>4. cursor = a /\ a \in registered /\ \A x \in Alarm : ~Called(x)
  BY <1>0, <1>1, <1>2 DEF cursor, Called, Walked, Linked
<1>5. ToVisit(a) /\ rank[a] \in Nat
  BY <1>2, <1>3, <1>4 DEF Walked, Node
<1>6. /\ rollover'[a] = IF nticks = 0 THEN 0 ELSE rollover[a]
      /\ \A x \in Alarm : x # a => rollover'[x] = rollover[x]
      /\ rollover' \in [Alarm -> {0, 1}]
  BY <1>1, <1>3, <1>4
<1>7. OnTime(a)' /\ (due_now <=> due[a] = 0)
  <2>1. time[a] \in 0 .. Ticks - 1 /\ due[a] \in 0 .. Ticks - 1
        /\ rollover[a] \in {0, 1}
    BY <1>3, <1>4
  <2>2. OnTime(a)'
    BY <1>1, <1>3, <1>5, <1>6, <2>1 DEF OnTime, ToVisit
  <2>3. /\ rollover'[a] = 0 => time[a] = nticks + due[a]
        /\ rollover'[a] # 0 => time[a] = nticks + due[a] - Ticks
    BY <1>1, <2>2 DEF OnTime
  <2>4. due_now <=> due[a] = 0
    BY <1>3, <2>1, <2>3
  <2> QED
    BY <2>2, <2>4
<1>8. /\ tick'.at = IF due_now THEN "call" ELSE "walk"
      /\ cursor' = next[a]
      /\ due_now => tick'.alarm = a
      /\ TickInv' /\ \A x \in Alarm : Called(x)' <=> (due_now /\ x = a)
  <2>1. CASE due_now
    <3>1. tick' = [at |-> "call", alarm |-> a, next |-> next[a], calls |-> 0]
      BY <1>1, <2>1
    <3>2. /\ tick'.at = "call" /\ tick'.alarm = a /\ tick'.next = next[a]
          /\ tick'.calls = 0
      BY <3>1
    <3> HIDE DEF due_now
    <3> QED
      BY <1>3, <1>4, <2>1, <3>1, <3>2 DEF cursor, Called, TickInv
  <2>2. CASE ~due_now
    <3>1. tick' = [at |-> "walk", alarm |-> next[a]]
      BY <1>1, <2>2
    <3>2. tick'.at = "walk" /\ tick'.alarm = next[a]
      BY <3>1
    <3> HIDE DEF due_now
    <3> QED
      BY <2>2, <3>1, <3>2 DEF cursor, Called, TickInv
  <2> QED
    BY <2>1, <2>2
<1> HIDE DEF due_now
<1>9. AlarmTypeOK' /\ LinksInv' /\ Ordered(rank)'
  BY <1>1, <1>2, <1>6, <1>8 DEF AlarmTypeOK, LinksInv, Ordered, Linked
<1>10. Walked(rank)'
  <2>1. cursor' \in Linked' /\ next[a] \in Linked /\ next[a] \in Node
    BY <1>1, <1>4, <1>8 DEF LinksInv, Linked, Node, AlarmTypeOK
  <2>2. /\ rank[next[a]] < rank[a] /\ rank[next[a]] \in Nat
        /\ \A y \in registered : rank[y] < rank[a] => rank[y] <= rank[next[a]]
    BY <1>2, <1>4, <2>1 DEF Ordered
  <2>3. ASSUME NEW x \in registered'
        PROVE  IF rank[x] <= rank[cursor'] THEN ToVisit(x)' /\ ~Called(x)'
               ELSE OnTime(x)' /\ IF Called(x)' THEN due'[x] = 0 ELSE due'[x] > 0
    <3>1. x \in registered /\ x \in Alarm /\ rank[x] \in Nat
          /\ due[x] \in 0 .. Ticks - 1
      BY <1>1, <1>2, <1>3 DEF Node
    <3>2. CASE x = a
      <4>1. ~(rank[x] <= rank[cursor'])
        BY <1>5, <1>8, <2>2, <3>2
      <4>2. OnTime(x)' /\ due'[x] = due[x] /\ (Called(x)' <=> due[x] = 0)
        BY <1>1, <1>7, <1>8, <3>1, <3>2
      <4> QED
        BY <3>1, <4>1, <4>2
    <3>3. CASE x # a
      <4>1. rank[x] # rank[a]
        BY <1>2, <1>4, <3>1, <3>3 DEF Ordered
      <4>2. rank[x] <= rank[cursor'] <=> rank[x] <= rank[cursor]
        BY <1>4, <1>5, <1>8, <2>2, <3>1, <4>1
      <4>3. /\ OnTime(x)' <=> OnTime(x)
            /\ ToVisit(x)' <=> ToVisit(x)
            /\ due'[x] = due[x] /\ ~Called(x)' /\ ~Called(x)
        BY <1>1, <1>4, <1>6, <1>8, <3>1, <3>3 DEF OnTime, ToVisit
      <4>4. IF rank[x] <= rank[cursor] THEN ToVisit(x) /\ ~Called(x)
            ELSE OnTime(x) /\ IF Called(x) THEN due[x] = 0 ELSE due[x] > 0
        BY <1>2, <3>1 DEF Walked
      <4> QED
        BY <4>2, <4>3, <4>4
    <3> QED
      BY <3>2, <3>3
  <2> QED
    BY <2>1, <2>3 DEF Walked
<1> QED
  BY <1>4, <1>7, <1>8, <1>9, <1>10 DEF AlarmInv

LEMMA ReturnStep ==
  ASSUME AlarmInv, NEW n \in 0 .. Ticks - 1, CallbackReturn(n)
  PROVE  AlarmInv'
<1>0. PICK a : a = tick.alarm
  OBVIOUS
<1>1. /\ AlarmTypeOK /\ LinksInv /\ TickInv /\ tick.at = "call"
      /\ tick' = [at |-> "walk", alarm |-> tick.next]
      /\ UNCHANGED <<rate, nticks>> /\ a \in Alarm
  BY <1>0 DEF AlarmInv, CallbackReturn, Successor, TickInv
<1>2. PICK rank \in [Node -> Nat] : Ordered(rank) /\ Walked(rank)
  BY DEF AlarmInv
<1>3. /\ nticks \in 0 .. Ticks - 1 /\ Ticks \in Nat /\ Ticks > 1
      /\ time \in [Alarm -> 0 .. Ticks - 1] /\ rollover \in [Alarm -> {0, 1}]
      /\ due \in [Alarm -> 0 .. Ticks - 1] /\ registered \subseteq Alarm
  BY <1>1, AlarmConstants DEF AlarmTypeOK
<1>4. tick'.at = "walk" /\ tick'.alarm = tick.next
  BY <1>1
<1>5. /\ cursor' = tick.next /\ cursor = tick.next /\ TickInv'
      /\ \A x \in Alarm : ~Called(x)' /\ (Called(x) <=> x = a)
  BY <1>0, <1>1, <1>4 DEF cursor, Called, TickInv
<1>6. a # cursor
  <2>1. /\ cursor \in Linked
        /\ \A x \in registered : rank[x] <= rank[cursor] => ~Called(x)
    BY <1>2 DEF Walked
  <2>2. \A x \in registered : rank[x] <= rank[x]
    BY <1>2, <1>3 DEF Node
  <2>3. CASE cursor \in registered
    BY <1>3, <1>5, <2>1, <2>2, <2>3
  <2>4. CASE cursor = List
    BY <1>1, <2>4, AlarmConstants
  <2> QED
    BY <2>1, <2>3, <2>4 DEF Linked
<1>7. CASE n = 0
  <2>1. Stop(a) /\ UNCHANGED <<time, rollover, due>>
    BY <1>0, <1>7 DEF CallbackReturn
  <2> QED
    BY <1>1, <1>4, <1>5, <1>6, <2>1, StopStep
<1>8. CASE n # 0
  <2>1. /\ time' = [time EXCEPT ![a] = (@ + n) % Ticks]
        /\ rollover' = [rollover EXCEPT
                          ![a] = IF time'[a] < nticks THEN 1 ELSE @]
        /\ due' = [due EXCEPT ![a] = n]
        /\ UNCHANGED <<next, previous, registered>>
    BY <1>0, <1>8 DEF CallbackReturn, links
  <2>2. (time[a] + n) % Ticks = IF time[a] + n < Ticks THEN time[a] + n
                                ELSE time[a] + n - Ticks
    <3>1. PICK t \in 0 .. 2 * Ticks - 1 : t = time[a] + n
      BY <1>1, <1>3
    <3>2. t % Ticks = IF t < Ticks THEN t ELSE t - Ticks
      BY <1>3, Wraps
    <3>3. (time[a] + n) % Ticks = t % Ticks
      BY <3>1
    <3>4. time[a] \in Int /\ n \in Int
      BY <1>1, <1>3
    <3> QED
      BY <1>3, <3>1, <3>2, <3>3, <3>4
  <2>3. /\ time'[a] = (time[a] + n) % Ticks /\ due'[a] = n
        /\ rollover'[a] = IF time'[a] < nticks THEN 1 ELSE rollover[a]
        /\ time[a] \in 0 .. Ticks - 1 /\ time'[a] \in 0 .. Ticks - 1
        /\ rollover[a] \in {0, 1}
        /\ \A x \in Alarm : x # a => /\ time'[x] = time[x] /\ due'[x] = due[x]
                                     /\ rollover'[x] = rollover[x]
    BY <1>1, <1>3, <2>1, <2>2
  <2>4. AlarmTypeOK' /\ LinksInv' /\ Ordered(rank)'
    <3>1. /\ time' \in [Alarm -> 0 .. Ticks - 1]
          /\ rollover' \in [Alarm -> {0, 1}] /\ due' \in [Alarm -> 0 .. Ticks - 1]
      <4>1. /\ time' = [time EXCEPT ![a] = time'[a]]
            /\ rollover' = [rollover EXCEPT ![a] = rollover'[a]]
        BY <1>1, <1>3, <2>1
      <4>2. n \in 0 .. Ticks - 1 /\ rollover'[a] \in {0, 1}
        BY <1>3, <2>3
      <4> QED
        BY <1>1, <1>3, <2>1, <2>3, <4>1, <4>2
    <3> QED
      BY <1>1, <1>2, <1>4, <2>1, <3>1
         DEF AlarmTypeOK, LinksInv, Ordered, Linked
  <2>5. Walked(rank)'
    <3>1. cursor' \in Linked'
      BY <1>2, <1>5, <2>1 DEF Walked, Linked
    <3>2. ASSUME NEW x \in registered'
          PROVE  IF rank[x] <= rank[cursor'] THEN ToVisit(x)' /\ ~Called(x)'
                 ELSE OnTime(x)' /\ IF Called(x)' THEN due'[x] = 0 ELSE due'[x] > 0
      <4>1. x \in registered /\ x \in Alarm
        BY <1>3, <2>1
      <4>2. IF rank[x] <= rank[cursor] THEN ToVisit(x) /\ ~Called(x)
            ELSE OnTime(x) /\ IF Called(x) THEN due[x] = 0 ELSE due[x] > 0
        BY <1>2, <4>1 DEF Walked
      <4>3. CASE x = a
        <5>1. ~(rank[x] <= rank[cursor]) /\ OnTime(x) /\ due[x] = 0
          BY <1>5, <4>1, <4>2, <4>3
        <5>2. rollover[a] = 0 /\ time[a] = nticks
          BY <1>3, <2>3, <4>3, <5>1 DEF OnTime
        <5>3. OnTime(x)' /\ due'[x] > 0
          BY <1>1, <1>3, <1>8, <2>2, <2>3, <4>3, <5>2 DEF OnTime
        <5> QED
          BY <1>5, <4>1, <5>1, <5>3
      <4>4. CASE x # a
        <5>1. /\ OnTime(x)' <=> OnTime(x)
              /\ ToVisit(x)' <=> ToVisit(x)
              /\ due'[x] = due[x] /\ ~Called(x)' /\ ~Called(x)
          BY <1>1, <1>5, <2>3, <4>1, <4>4 DEF OnTime, ToVisit
        <5> QED
          BY <1>5, <4>2, <5>1
      <4> QED
        BY <4>3, <4>4
    <3> QED
      BY <3>1, <3>2 DEF Walked
  <2> QED
    BY <1>5, <2>4, <2>5 DEF AlarmInv
<1> QED
  BY <1>7, <1>8

(* At the end of the list every alarm has been visited. *)
LEMMA EndStep ==
  ASSUME AlarmInv, TickEnd
  PROVE  AlarmInv' /\ \A a \in registered : due[a] > 0
<1>1. /\ AlarmTypeOK /\ LinksInv /\ TickInv /\ tick.at = "walk"
      /\ tick.alarm = List /\ tick' = Idle
      /\ UNCHANGED <<rate, nticks, next, previous, time, rollover, registered, due>>
  BY DEF AlarmInv, TickEnd, links
<1>2. PICK rank \in [Node -> Nat] : Ordered(rank) /\ Walked(rank)
  BY DEF AlarmInv
<1>3. /\ tick'.at = "idle" /\ cursor' = List /\ cursor = List /\ TickInv'
      /\ \A x \in Alarm : ~Called(x) /\ ~Called(x)'
  BY <1>1 DEF Idle, cursor, Called, TickInv
<1>4. AlarmTypeOK' /\ LinksInv' /\ Ordered(rank)'
  BY <1>1, <1>2, <1>3 DEF AlarmTypeOK, LinksInv, Ordered, Linked
<1>5. \A x \in registered : ~(rank[x] <= rank[List]) /\ x \in Alarm
  BY <1>1, <1>2 DEF Ordered, Node, AlarmTypeOK
<1>6. \A x \in registered : OnTime(x) /\ due[x] > 0
  BY <1>2, <1>3, <1>5 DEF Walked
<1>7. Walked(rank)'
  BY <1>1, <1>3, <1>5, <1>6 DEF Walked, OnTime, Linked
<1> QED
  BY <1>3, <1>4, <1>6, <1>7 DEF AlarmInv

LEMMA AlarmInitInv == AlarmInit => AlarmInv
<1> SUFFICES ASSUME AlarmInit PROVE AlarmInv
  OBVIOUS
<1>1. /\ tick = Idle /\ registered = {} /\ tick.at = "idle"
      /\ next = [x \in Node |-> IF x = List THEN List ELSE "null"]
      /\ previous = next
  BY DEF AlarmInit, Idle, Node
<1>2. AlarmTypeOK
  BY <1>1, AlarmConstants DEF AlarmInit, AlarmTypeOK, Node
<1>3. LinksInv /\ TickInv
  BY <1>1, AlarmConstants DEF LinksInv, TickInv, Linked, Node
<1> DEFINE rank == [x \in Node |-> 0]
<1>4. rank \in [Node -> Nat] /\ Ordered(rank) /\ Walked(rank)
  BY <1>1 DEF Ordered, Walked, Linked, Node, cursor
<1> QED
  BY <1>2, <1>3, <1>4 DEF AlarmInv

LEMMA AlarmStays == ASSUME AlarmInv, UNCHANGED alarmVars PROVE AlarmInv'
<1>1. UNCHANGED <<rate, nticks, next, previous, time, rollover, tick,
                  registered, due>>
  BY DEF alarmVars, links
<1>2. PICK rank \in [Node -> Nat] : Ordered(rank) /\ Walked(rank)
  BY DEF AlarmInv
<1>3. Ordered(rank)' /\ Walked(rank)'
  BY <1>1, <1>2
     DEF Ordered, Walked, OnTime, ToVisit, Called, cursor, Linked
<1> QED
  BY <1>1, <1>3 DEF AlarmInv, AlarmTypeOK, LinksInv, TickInv, Linked

LEMMA SysclkInitStep == ASSUME AlarmInv, SysclkInit PROVE AlarmInv'
<1>1. /\ rate' = 1
      /\ UNCHANGED <<nticks, next, previous, time, rollover, tick,
                     registered, due>>
  BY DEF SysclkInit, links
<1>2. PICK rank \in [Node -> Nat] : Ordered(rank) /\ Walked(rank)
  BY DEF AlarmInv
<1>3. Ordered(rank)' /\ Walked(rank)'
  BY <1>1, <1>2
     DEF Ordered, Walked, OnTime, ToVisit, Called, cursor, Linked
<1> QED
  BY <1>1, <1>3 DEF AlarmInv, AlarmTypeOK, LinksInv, TickInv, Linked

LEMMA AlarmStep ==
  ASSUME CallbackStops = "notNext", AlarmInv, [AlarmNext]_alarmVars
  PROVE  AlarmInv'
<1>1. CASE UNCHANGED alarmVars
  BY <1>1, AlarmStays
<1>2. ASSUME NEW a \in Alarm, NEW n \in 0 .. Ticks - 2,
             ProgramStart(a, n) \/ CallbackStart(a, n)
      PROVE  AlarmInv'
  BY <1>2, ProgramStep, CallbackStep
<1>3. ASSUME NEW a \in Alarm, ProgramStop(a) \/ CallbackStop(a)
      PROVE  AlarmInv'
  BY <1>3, ProgramStep, CallbackStep
<1>4. ASSUME NEW n \in 0 .. Ticks - 1, CallbackReturn(n) PROVE AlarmInv'
  BY <1>4, ReturnStep
<1>5. CASE SysclkInit \/ TickBegin \/ TickVisit \/ TickEnd
  BY <1>5, SysclkInitStep, BeginStep, VisitStep, EndStep
<1> QED
  BY <1>1, <1>2, <1>3, <1>4, <1>5 DEF AlarmNext

(* The times kept agree with the ticks asked for, across the wrap of the   *)
(* counter and in the middle of a tick, for every number of alarms.        *)
THEOREM AlarmsOnTime ==
  ASSUME CallbackStops = "notNext"
  PROVE  AlarmSpec => []AlarmInv
<1>1. AlarmInit => AlarmInv
  BY AlarmInitInv
<1>2. AlarmInv /\ [AlarmNext]_alarmVars => AlarmInv'
  BY AlarmStep
<1> QED
  BY <1>1, <1>2, PTL DEF AlarmSpec

(* An alarm is called at the very tick asked for, as long as no callback   *)
(* stops the alarm that follows its own in the list.                       *)
THEOREM AlarmsCalledWhenDue ==
  ASSUME CallbackStops = "notNext"
  PROVE  AlarmSpec => CalledWhenDue
<1> DEFINE Due ==
      /\ tick.at = "walk" /\ tick'.at = "call"
           => tick'.alarm \in registered /\ due[tick'.alarm] = 0
      /\ tick # Idle /\ tick' = Idle => \A a \in registered : due[a] > 0
<1>1. AlarmInv /\ [AlarmNext]_alarmVars => [Due]_alarmVars
  <2> SUFFICES ASSUME AlarmInv, AlarmNext PROVE Due
    OBVIOUS
  <2>1. CASE TickVisit
    <3>1. tick' # Idle
      <4>1. tick'.at \in {"walk", "call"}
        BY <2>1 DEF TickVisit
      <4>2. Idle.at = "idle"
        BY DEF Idle
      <4> QED
        BY <4>1, <4>2
    <3> QED
      BY <2>1, <3>1, VisitStep
  <2>2. CASE TickEnd
    BY <2>2, EndStep DEF TickEnd, Idle
  <2>3. CASE ~TickVisit /\ ~TickEnd
    <3>1. CASE tick' = tick
      BY <3>1 DEF Idle
    <3>2. CASE TickBegin
      BY <3>2 DEF TickBegin, Idle
    <3>3. CASE AlarmCalls
      BY <3>3, CallsKeepPlace DEF AlarmInv, Idle
    <3>4. ASSUME NEW n \in 0 .. Ticks - 1, CallbackReturn(n) PROVE Due
      BY <3>4 DEF CallbackReturn, Idle
    <3> QED
      BY <2>3, <3>1, <3>2, <3>3, <3>4
         DEF AlarmNext, SysclkInit, ProgramStop, ProgramStart, CallbackStop,
             CallbackStart
  <2> QED
    BY <2>1, <2>2, <2>3
<1> QED
  BY <1>1, AlarmsOnTime, PTL DEF AlarmSpec, CalledWhenDue

(* Under the same condition an alarm that was stopped is not called, by a  *)
(* callback that stops others in the middle of a tick included.            *)
THEOREM AlarmsStoppedNotCalled ==
  ASSUME CallbackStops = "notNext"
  PROVE  AlarmSpec => StoppedNotCalled
<1>1. [tick # tick' => /\ tick.at = "walk" /\ tick'.at = "call"
                            => tick'.alarm \in registered /\ due[tick'.alarm] = 0
                       /\ tick # Idle /\ tick' = Idle
                            => \A a \in registered : due[a] > 0]_alarmVars
      => [tick.at = "walk" /\ tick'.at = "call"
            => tick'.alarm \in registered]_alarmVars
  BY DEF alarmVars
<1> QED
  BY <1>1, AlarmsCalledWhenDue, PTL DEF CalledWhenDue, StoppedNotCalled

-----------------------------------------------------------------------------
(***************************************************************************)
(* File descriptors                                                        *)
(***************************************************************************)

(* The standard descriptors are always held; alt_io_redirect does output,  *)
(* input and error in this order, and nothing is locked before it ends.    *)
BootInv ==
  /\ Standard \subseteq held
  /\ redirected \in {{}, {1}, {0, 1}, Standard}
  /\ ~Program => \A i \in Fd : "EXCL" \notin fd_flags[i]

FileInv == FileTypeOK /\ TableSound /\ BootInv

LEMMA FileConstants == /\ ALT_MAX_FD \in Nat /\ ALT_MAX_FD > 3
                   /\ Console \in Device /\ "none" \notin Device
                   /\ Standard \subseteq Fd /\ Standard = {0, 1, 2}
                   /\ Fd \subseteq Nat
BY HalAssumption DEF Standard, Fd

LEMMA FileInitInv == FileInit => FileInv
BY FileConstants DEF FileInit, FileInv, FileTypeOK, TableSound, BootInv, Null, Fd, Standard

(* A free descriptor is not one of the three, and carries no flags.        *)
LEMMA FreeDescriptor ==
  ASSUME FileInv, NEW i \in Fd, Gets(i)
  PROVE  /\ dev[i] = "none" /\ i \notin held /\ i \notin Standard
         /\ fd_flags[i] = {} /\ i \in Nat /\ i > 2
         /\ Highest(i) \in -1 .. ALT_MAX_FD - 1
         /\ i <= Highest(i) /\ alt_max_fd <= Highest(i)
<1>1. dev[i] = "none"
  BY DEF Gets, Free
<1>2. i \notin held /\ fd_flags[i] = {}
  BY <1>1 DEF FileInv, TableSound
<1>3. i \notin Standard
  BY <1>2 DEF FileInv, BootInv
<1>4. i \in Nat /\ i > 2
  BY <1>3, FileConstants DEF Fd
<1>5. alt_max_fd \in -1 .. ALT_MAX_FD - 1 /\ i \in 0 .. ALT_MAX_FD - 1
  BY FileConstants DEF FileInv, FileTypeOK, Fd
<1>6. /\ Highest(i) \in -1 .. ALT_MAX_FD - 1
      /\ i <= Highest(i) /\ alt_max_fd <= Highest(i)
  BY <1>5, FileConstants DEF Highest
<1> QED
  BY <1>1, <1>2, <1>3, <1>4, <1>6

LEMMA OpenStep ==
  ASSUME FileInv, NEW d \in Device, NEW flags \in SUBSET Flag, Program,
         Open(d, flags)
  PROVE  FileInv'
<1>1. PICK i \in Fd : /\ Gets(i)
                      /\ dev' = [dev EXCEPT ![i] = d]
                      /\ fd_flags' = [fd_flags EXCEPT ![i] = OpenFlags(flags)]
                      /\ alt_max_fd' = Highest(i)
                      /\ held' = held \cup {i}
                      /\ redirected' = redirected
  BY DEF Open
<1>2. /\ dev[i] = "none" /\ i \notin held
      /\ Highest(i) \in -1 .. ALT_MAX_FD - 1
      /\ i <= Highest(i) /\ alt_max_fd <= Highest(i)
  BY <1>1, FreeDescriptor
<1>3. OpenFlags(flags) \subseteq Flag
  BY DEF OpenFlags, Flag
<1>4. FileTypeOK'
  BY <1>1, <1>2, <1>3 DEF FileInv, FileTypeOK
<1>5. TableSound'
  <2> SUFFICES ASSUME NEW j \in Fd
               PROVE  /\ dev'[j] # "none" <=> j \in held'
                      /\ j \notin held' => fd_flags'[j] = {}
                      /\ j \in held' \ Standard => j <= alt_max_fd'
    BY DEF TableSound
  <2>1. CASE j = i
    BY <1>1, <1>2, <2>1, FileConstants DEF FileInv, FileTypeOK
  <2>2. CASE j # i
    <3>1. dev'[j] = dev[j] /\ fd_flags'[j] = fd_flags[j]
          /\ (j \in held' <=> j \in held)
      BY <1>1, <2>2 DEF FileInv, FileTypeOK
    <3>2. j \in held \ Standard => j <= Highest(i)
      <4>1. j \in held \ Standard => j <= alt_max_fd
        BY DEF FileInv, TableSound
      <4> QED
        BY <4>1, <1>2, FileConstants DEF FileInv, FileTypeOK
    <3> QED
      BY <1>1, <3>1, <3>2 DEF FileInv, TableSound
  <2> QED
    BY <2>1, <2>2
<1>6. BootInv'
  BY <1>1 DEF FileInv, BootInv, Program
<1> QED
  BY <1>4, <1>5, <1>6 DEF FileInv

(* Release of a descriptor that is not a standard one.                     *)
LEMMA ReleaseStep ==
  ASSUME FileInv, NEW i \in Fd, i \notin Standard, Release(i),
         held' = held \ {i}, redirected' = redirected,
         alt_max_fd' \in -1 .. ALT_MAX_FD - 1, alt_max_fd <= alt_max_fd'
  PROVE  FileInv'
<1>1. /\ dev' = [dev EXCEPT ![i] = "none"]
      /\ fd_flags' = [fd_flags EXCEPT ![i] = {}]
  BY DEF Release
<1>2. FileTypeOK'
  BY <1>1 DEF FileInv, FileTypeOK
<1>3. TableSound'
  <2> SUFFICES ASSUME NEW j \in Fd
               PROVE  /\ dev'[j] # "none" <=> j \in held'
                      /\ j \notin held' => fd_flags'[j] = {}
                      /\ j \in held' \ Standard => j <= alt_max_fd'
    BY DEF TableSound
  <2>1. CASE j = i
    BY <1>1, <2>1 DEF FileInv, FileTypeOK
  <2>2. CASE j # i
    <3>1. dev'[j] = dev[j] /\ fd_flags'[j] = fd_flags[j]
          /\ (j \in held' <=> j \in held)
      BY <1>1, <2>2 DEF FileInv, FileTypeOK
    <3>2. j \in held \ Standard => j <= alt_max_fd'
      <4>1. j \in held \ Standard => j <= alt_max_fd
        BY DEF FileInv, TableSound
      <4> QED
        BY <4>1, FileConstants DEF FileInv, FileTypeOK
    <3> QED
      BY <3>1, <3>2 DEF FileInv, TableSound
  <2> QED
    BY <2>1, <2>2
<1>4. BootInv'
  <2>1. Standard \subseteq held' /\ redirected' = redirected
    BY DEF FileInv, BootInv
  <2>2. \A j \in Fd : "EXCL" \in fd_flags'[j] => "EXCL" \in fd_flags[j]
    BY <1>1 DEF FileInv, FileTypeOK
  <2> QED
    BY <2>1, <2>2 DEF FileInv, BootInv, Program
<1> QED
  BY <1>2, <1>3, <1>4 DEF FileInv

LEMMA OpenFailsStep ==
  ASSUME FileInv, NEW d \in Device, OpenFails(d)
  PROVE  FileInv'
<1>1. PICK i \in Fd : /\ Gets(i) /\ Release(i) /\ alt_max_fd' = Highest(i)
                      /\ redirected' = redirected /\ held' = held
  BY DEF OpenFails
<1>2. i \notin Standard /\ held' = held \ {i}
      /\ Highest(i) \in -1 .. ALT_MAX_FD - 1 /\ alt_max_fd <= Highest(i)
  BY <1>1, FreeDescriptor
<1> QED
  BY <1>1, <1>2, ReleaseStep

LEMMA CloseStep ==
  ASSUME FileInv, NEW i \in Fd, Close(i)
  PROVE  FileInv'
<1>1. alt_max_fd' = alt_max_fd /\ redirected' = redirected /\ Release(i)
      /\ held' = IF i \in Standard THEN held ELSE held \ {i}
  BY DEF Close
<1>2. alt_max_fd \in -1 .. ALT_MAX_FD - 1
  BY DEF FileInv, FileTypeOK
<1>3. alt_max_fd <= alt_max_fd'
  BY <1>1, <1>2, FileConstants
<1>4. CASE i \in Standard
  BY <1>1, <1>4 DEF Release, FileInv, FileTypeOK, TableSound, BootInv, Program
<1>5. CASE i \notin Standard
  BY <1>1, <1>2, <1>3, <1>5, ReleaseStep
<1> QED
  BY <1>4, <1>5

(* alt_io_redirect does one of the three.                                  *)
LEMMA RedirectStep ==
  ASSUME FileInv, NEW i \in Standard, Redirect(i)
  PROVE  FileInv'
<1>1. PICK k \in Fd : Gets(k) /\ alt_max_fd' = Highest(k)
  BY DEF Redirect
<1>2. /\ dev' = [dev EXCEPT ![i] = Console]
      /\ fd_flags' = [fd_flags EXCEPT
                        ![i] = OpenFlags(IF i = 0 THEN {} ELSE {"WRONLY"})]
      /\ redirected' = redirected \cup {i} /\ held' = held
  BY DEF Redirect
<1>3. Highest(k) \in -1 .. ALT_MAX_FD - 1 /\ alt_max_fd <= Highest(k)
  BY <1>1, FreeDescriptor
<1>4. /\ redirected \in {{}, {1}, {0, 1}, Standard}
      /\ i = (CASE redirected = {} -> 1 [] redirected = {1} -> 0
                [] redirected = {0, 1} -> 2 [] redirected = Standard -> -1)
  BY DEF Redirect, FileInv, BootInv
<1>5. ~Program /\ redirected' \in {{}, {1}, {0, 1}, Standard}
  <2>1. redirected = {} => i = 1
    BY <1>4, FileConstants
  <2>2. redirected = {1} => i = 0
    <3>1. {1} # {}
      OBVIOUS
    <3> QED
      BY <1>4, <3>1, FileConstants
  <2>3. redirected = {0, 1} => i = 2
    <3>1. {0, 1} # {} /\ {0, 1} # {1} /\ {0, 1} # {0, 1, 2}
      OBVIOUS
    <3> QED
      BY <1>4, <3>1, FileConstants
  <2>4. redirected = {0, 1, 2} => i = -1
    <3>1. {0, 1, 2} # {} /\ {0, 1, 2} # {1} /\ {0, 1} # {0, 1, 2}
      OBVIOUS
    <3> QED
      BY <1>4, <3>1, FileConstants
  <2>5. redirected # Standard
    BY <2>4, FileConstants
  <2>6. redirected \in {{}, {1}, {0, 1}}
    BY <1>4, <2>5
  <2> QED
    BY <1>2, <2>1, <2>2, <2>3, <2>5, <2>6, FileConstants DEF Program
<1>6. /\ OpenFlags(IF i = 0 THEN {} ELSE {"WRONLY"}) \subseteq Flag
      /\ "EXCL" \notin OpenFlags(IF i = 0 THEN {} ELSE {"WRONLY"})
  BY DEF OpenFlags, Flag
<1>7. i \in Fd /\ i \in held
  BY FileConstants DEF FileInv, BootInv
<1>8. FileTypeOK'
  <2>1. redirected' \subseteq Standard
    BY <1>2 DEF FileInv, FileTypeOK
  <2> QED
    BY <1>1, <1>2, <1>3, <1>6, <1>7, <2>1, FileConstants DEF FileInv, FileTypeOK
<1>9. TableSound'
  <2> SUFFICES ASSUME NEW j \in Fd
               PROVE  /\ dev'[j] # "none" <=> j \in held'
                      /\ j \notin held' => fd_flags'[j] = {}
                      /\ j \in held' \ Standard => j <= alt_max_fd'
    BY DEF TableSound
  <2>1. CASE j = i
    BY <1>2, <1>7, <2>1, FileConstants DEF FileInv, FileTypeOK
  <2>2. CASE j # i
    <3>1. dev'[j] = dev[j] /\ fd_flags'[j] = fd_flags[j] /\ held' = held
      BY <1>2, <2>2 DEF FileInv, FileTypeOK
    <3>2. j \in held \ Standard => j <= Highest(k)
      <4>1. j \in held \ Standard => j <= alt_max_fd
        BY DEF FileInv, TableSound
      <4> QED
        BY <4>1, <1>3, FileConstants DEF FileInv, FileTypeOK
    <3> QED
      BY <1>1, <3>1, <3>2 DEF FileInv, TableSound
  <2> QED
    BY <2>1, <2>2
<1>10. BootInv'
  <2>1. \A j \in Fd : "EXCL" \notin fd_flags'[j]
    BY <1>2, <1>5, <1>6 DEF FileInv, BootInv, FileTypeOK
  <2> QED
    BY <1>2, <1>5, <2>1 DEF FileInv, BootInv
<1> QED
  BY <1>8, <1>9, <1>10 DEF FileInv

(* Calls that change the flags of a descriptor in use.                     *)
LEMMA FlagStep ==
  ASSUME FileInv, Program, NEW i \in Fd, i \in held, NEW new \in SUBSET Flag,
         fd_flags' = [fd_flags EXCEPT ![i] = new],
         UNCHANGED <<dev, alt_max_fd, redirected, held>>
  PROVE  FileInv'
<1>1. FileTypeOK'
  BY DEF FileInv, FileTypeOK
<1>2. TableSound'
  BY DEF FileInv, FileTypeOK, TableSound
<1>3. BootInv'
  BY DEF FileInv, BootInv, Program
<1> QED
  BY <1>1, <1>2, <1>3 DEF FileInv

LEMMA FileTableStep == FileInv /\ [FileNext]_fileVars => FileInv'
<1> SUFFICES ASSUME FileInv, [FileNext]_fileVars PROVE FileInv'
  OBVIOUS
<1>1. CASE UNCHANGED fileVars
  BY <1>1 DEF fileVars, FileInv, FileTypeOK, TableSound, BootInv, Program
<1>2. ASSUME NEW i \in Standard, Redirect(i) PROVE FileInv'
  BY <1>2, RedirectStep
<1>3. ASSUME Program, NEW d \in Device, OpenFails(d) PROVE FileInv'
  BY <1>3, OpenFailsStep
<1>4. ASSUME Program, NEW d \in Device, NEW flags \in SUBSET Flag,
             Open(d, flags)
      PROVE  FileInv'
  BY <1>4, OpenStep
<1>5. ASSUME Program, NEW i \in Fd, Close(i) PROVE FileInv'
  BY <1>5, CloseStep
<1>6. ASSUME Program, NEW i \in Fd, Lock(i) PROVE FileInv'
  <2>1. fd_flags[i] \cup {"EXCL"} \in SUBSET Flag
    BY DEF FileInv, FileTypeOK, Flag
  <2> QED
    BY <1>6, <2>1, FlagStep DEF Lock
<1>7. ASSUME Program, NEW i \in Fd, Unlock(i) PROVE FileInv'
  <2>1. fd_flags[i] \ {"EXCL"} \in SUBSET Flag
    BY DEF FileInv, FileTypeOK, Flag
  <2> QED
    BY <1>7, <2>1, FlagStep DEF Unlock
<1>8. ASSUME Program, NEW i \in Fd, NEW flags \in SUBSET Flag,
             SetFlags(i, flags)
      PROVE  FileInv'
  <2>1. (fd_flags[i] \ {"NONBLOCK"}) \cup (flags \cap {"NONBLOCK"})
          \in SUBSET Flag
    BY DEF FileInv, FileTypeOK, Flag
  <2> QED
    BY <1>8, <2>1, FlagStep DEF SetFlags
<1> QED
  BY <1>1, <1>2, <1>3, <1>4, <1>5, <1>6, <1>7, <1>8 DEF FileNext

THEOREM FileTableInvariant == FileSpec => []FileInv
BY FileInitInv, FileTableStep, PTL DEF FileSpec

(* The descriptors taken are exactly those the program holds, opens that   *)
(* fail leave nothing behind, and a lock does not outlive its descriptor.  *)
THEOREM FileTableSound == FileSpec => []TableSound
<1>1. FileInv => TableSound
  BY DEF FileInv
<1> QED
  BY <1>1, FileTableInvariant, PTL

(* A device that one descriptor has for itself gets no other user.         *)
LEMMA LockStep ==
  ASSUME FileInv, [FileNext]_fileVars, NEW d \in Device, NEW h \in Users(d),
         "EXCL" \in fd_flags[h]
  PROVE  Users(d)' \subseteq Users(d)
<1>1. h \in Fd /\ dev[h] = d
  BY DEF Users
<1>2. Program
  BY <1>1 DEF FileInv, BootInv
<1>3. d # "none"
  BY FileConstants
<1>4. ASSUME UNCHANGED dev PROVE Users(d)' \subseteq Users(d)
  BY <1>4 DEF Users
<1>5. ASSUME NEW i \in Fd, Release(i) PROVE Users(d)' \subseteq Users(d)
  BY <1>3, <1>5 DEF Release, Users, FileInv, FileTypeOK
<1>6. ASSUME NEW c \in Device, NEW flags \in SUBSET Flag, Open(c, flags)
      PROVE  Users(d)' \subseteq Users(d)
  <2>1. PICK i \in Fd : Gets(i) /\ ~Locked(c, i) /\ dev' = [dev EXCEPT ![i] = c]
    BY <1>6 DEF Open
  <2>2. dev[i] = "none" /\ i \in Nat /\ i > 2 /\ i <= Highest(i)
        /\ alt_max_fd <= Highest(i) /\ Highest(i) \in -1 .. ALT_MAX_FD - 1
    BY <2>1, FreeDescriptor
  <2>3. h # i
    BY <1>1, <1>3, <2>2
  <2>4. h \in 0 .. Highest(i)
    <3>1. h \in Nat /\ h \in held
      BY <1>1, <1>3, FileConstants DEF FileInv, TableSound
    <3>2. CASE h \in Standard
      BY <2>2, <3>1, <3>2, FileConstants
    <3>3. CASE h \notin Standard
      <4>1. h <= alt_max_fd
        BY <1>1, <3>1, <3>3 DEF FileInv, TableSound
      <4> QED
        BY <2>2, <3>1, <4>1, FileConstants DEF FileInv, FileTypeOK
    <3> QED
      BY <3>2, <3>3
  <2>5. c # d
    BY <1>1, <2>1, <2>3, <2>4 DEF Locked
  <2> QED
    BY <2>1, <2>5 DEF Users, FileInv, FileTypeOK
<1>7. ASSUME NEW i \in Standard, Redirect(i) PROVE FALSE
  <2>1. redirected = {0, 1, 2}
    BY <1>2, FileConstants DEF Program
  <2>2. {0, 1, 2} # {} /\ {0, 1, 2} # {1} /\ {0, 1} # {0, 1, 2}
    OBVIOUS
  <2>3. i = -1
    BY <1>7, <2>1, <2>2, FileConstants DEF Redirect
  <2> QED
    BY <2>3, FileConstants
<1>8. CASE UNCHANGED fileVars
  BY <1>4, <1>8 DEF fileVars
<1>9. CASE FileNext
  BY <1>4, <1>5, <1>6, <1>7, <1>9
     DEF FileNext, Close, Lock, Unlock, SetFlags, OpenFails
<1> QED
  BY <1>8, <1>9

(* While a descriptor has its device for itself no other descriptor of the *)
(* device comes to be.                                                     *)
THEOREM FileTableLock == FileSpec => LockKeepsOthersOut
<1>1. FileInv /\ [FileNext]_fileVars =>
        [\A d \in Device : (\E i \in Users(d) : "EXCL" \in fd_flags[i])
                             => Users(d)' \subseteq Users(d)]_fileVars
  BY LockStep
<1> QED
  BY <1>1, FileTableInvariant, PTL DEF FileSpec, LockKeepsOthersOut

(* The loop of alt_fd_lock stops below alt_max_fd, so that the lock can be *)
(* granted next to one other descriptor, the highest, and next to no more. *)
AllBut(i, max) == Users(dev[i]) \subseteq {i, max}

MaxInv == Program => alt_max_fd > 2

LEMMA MaxStep == FileInv /\ MaxInv /\ [FileNext]_fileVars => MaxInv'
<1> SUFFICES ASSUME FileInv, MaxInv, [FileNext]_fileVars PROVE MaxInv'
  OBVIOUS
<1> USE DEF MaxInv
<1>1. alt_max_fd \in -1 .. ALT_MAX_FD - 1 /\ ALT_MAX_FD \in Nat
  BY FileConstants DEF FileInv, FileTypeOK
<1>2. ASSUME NEW i \in Fd, Gets(i), alt_max_fd' = Highest(i)
      PROVE  alt_max_fd' > 2
  <2>1. i > 2 /\ i <= Highest(i) /\ i \in Nat
    BY <1>2, FreeDescriptor
  <2>2. Highest(i) \in -1 .. ALT_MAX_FD - 1
    BY <1>2, FreeDescriptor
  <2> QED
    BY <1>1, <1>2, <2>1, <2>2
<1>3. ASSUME NEW i \in Standard, Redirect(i) PROVE MaxInv'
  BY <1>2, <1>3 DEF Redirect
<1>4. ASSUME NEW d \in Device, OpenFails(d) PROVE MaxInv'
  BY <1>2, <1>4 DEF OpenFails
<1>5. ASSUME NEW d \in Device, NEW flags \in SUBSET Flag, Open(d, flags)
      PROVE  MaxInv'
  BY <1>2, <1>5 DEF Open
<1>6. ASSUME UNCHANGED <<alt_max_fd, redirected>> PROVE MaxInv'
  BY <1>6 DEF Program
<1> QED
  BY <1>3, <1>4, <1>5, <1>6
     DEF FileNext, Close, Lock, Unlock, SetFlags, fileVars

THEOREM LockMissesOneAtMost ==
  FileSpec => [][\A i \in Fd : "EXCL" \in fd_flags'[i] \ fd_flags[i]
                                => AllBut(i, alt_max_fd)]_fileVars
<1>1. ASSUME FileInv, MaxInv, FileNext, NEW i \in Fd,
             "EXCL" \in fd_flags'[i] \ fd_flags[i]
      PROVE  AllBut(i, alt_max_fd)
  <2>1. Program /\ Lock(i)
    <3>1. ASSUME NEW k \in Fd, NEW new, "EXCL" \notin new,
                 fd_flags' = [fd_flags EXCEPT ![k] = new]
          PROVE  FALSE
      BY <1>1, <3>1 DEF FileInv, FileTypeOK
    <3>2. ASSUME UNCHANGED fd_flags PROVE FALSE
      BY <1>1, <3>2
    <3>3. \A flags : "EXCL" \notin OpenFlags(flags)
      BY DEF OpenFlags
    <3>4. ASSUME NEW k \in Standard, Redirect(k) PROVE FALSE
      BY <3>1, <3>3, <3>4, FileConstants DEF Redirect
    <3>5. ASSUME NEW d \in Device, NEW flags \in SUBSET Flag, Open(d, flags)
          PROVE  FALSE
      BY <3>1, <3>3, <3>5 DEF Open
    <3>6. ASSUME NEW k \in Fd, Release(k) PROVE FALSE
      BY <3>1, <3>2, <3>6 DEF Release
    <3>7. ASSUME NEW k \in Fd, Unlock(k) PROVE FALSE
      <4>1. fd_flags'[i] \subseteq fd_flags[i]
        BY <3>7 DEF Unlock, FileInv, FileTypeOK
      <4> QED
        BY <1>1, <4>1
    <3>8. ASSUME NEW k \in Fd, NEW flags, SetFlags(k, flags) PROVE FALSE
      <4>1. "EXCL" \in fd_flags'[i] => "EXCL" \in fd_flags[i]
        BY <1>1, <3>8 DEF SetFlags, FileInv, FileTypeOK
      <4> QED
        BY <1>1, <4>1
    <3>9. ASSUME NEW k \in Fd, Lock(k) PROVE k = i
      BY <1>1, <3>9 DEF Lock, FileInv, FileTypeOK
    <3> QED
      BY <1>1, <3>2, <3>4, <3>5, <3>6, <3>7, <3>8, <3>9
         DEF FileNext, OpenFails, Close
  <2>2. /\ i \in held /\ dev[i] # "none"
        /\ \A j \in 0 .. alt_max_fd - 1 : j # i => dev[j] # dev[i]
    BY <1>1, <2>1 DEF Lock, Shared, FileInv, TableSound
  <2>3. alt_max_fd \in Int /\ alt_max_fd > 2
    BY <1>1, <2>1 DEF MaxInv, FileInv, FileTypeOK
  <2> SUFFICES ASSUME NEW j \in Fd, dev[j] = dev[i], j # i, j # alt_max_fd
               PROVE  FALSE
    BY DEF AllBut, Users
  <2>4. j \in held /\ j \in Nat
    BY <1>1, <2>2, FileConstants DEF FileInv, TableSound
  <2>5. j <= alt_max_fd
    BY <1>1, <2>3, <2>4, FileConstants DEF FileInv, TableSound
  <2> QED
    BY <2>2, <2>3, <2>4, <2>5
<1>2. FileInv /\ MaxInv /\ [FileNext]_fileVars
        => [\A i \in Fd : "EXCL" \in fd_flags'[i] \ fd_flags[i]
                            => AllBut(i, alt_max_fd)]_fileVars
  BY <1>1
<1>3. FileInit => MaxInv
  BY FileConstants DEF FileInit, MaxInv, Program
<1> QED
  BY <1>2, <1>3, MaxStep, FileTableInvariant, PTL DEF FileSpec

-----------------------------------------------------------------------------
(***************************************************************************)
(* Heap: the blocks lie below its end, which moves over none of them.      *)
(***************************************************************************)

Block == [from : Nat, to : Nat]

(* Blocks lie below the end of the heap, which may lie beyond the limit.   *)
HeapInv ==
  /\ heap_end \in Nat /\ HeapStart <= heap_end
  /\ blocks \subseteq Block
  /\ \A b \in blocks : b.to <= heap_end
  /\ BlocksApart

(* The next word boundary is the first one from p on.                      *)
LEMMA AlignedUp ==
  ASSUME NEW p \in Nat
  PROVE  /\ Aligned(p) \in Nat /\ p <= Aligned(p) /\ Aligned(p) < p + 4
         /\ Aligned(p) % 4 = 0
<1>1. PICK q \in Nat, r \in 0 .. 3 : p + 3 = 4 * q + r /\ q = (p + 3) \div 4
  BY SMT
<1>2. Aligned(p) = 4 * q
  BY <1>1 DEF Aligned
<1> QED
  BY <1>1, <1>2, SMT

LEMMA HeapInitInv == HeapInit => HeapInv
BY HalAssumption DEF HeapInit, HeapInv, BlocksApart

(* A request that is granted: the new block lies above all others, memory  *)
(* given back is taken from the last one.                                  *)
LEMMA SbrkGranted ==
  ASSUME HeapInv, NEW incr \in Increments, NEW prev \in Nat,
         heap_end <= prev, prev % 4 = 0,
         prev + incr <= HeapLimit,
         incr >= 0 \/ (prev + incr >= HeapStart
                       /\ \A b \in blocks : prev + incr >= b.from),
         heap_end' = prev + incr,
         blocks' = {Truncated(b, heap_end') : b \in blocks}
                   \cup {[from |-> prev, to |-> prev + incr] : i \in
                           {i \in {incr} : i > 0}}
  PROVE  HeapInv'
<1> DEFINE end == prev + incr
           Old == {Truncated(b, end) : b \in blocks}
           New == [from |-> prev, to |-> end]
<1>1. /\ incr \in Int /\ HeapStart \in Nat /\ HeapLimit \in Nat
      /\ heap_end \in Nat /\ HeapStart <= heap_end
  BY HalAssumption DEF HeapInv
<1>2. end \in Nat /\ HeapStart <= end
  BY <1>1
<1>3. \A b \in blocks : /\ b.from \in Nat /\ b.to \in Nat /\ b.to <= heap_end
                        /\ b.from % 4 = 0 /\ HeapStart <= b.from
                        /\ b.from <= b.to /\ b.to <= HeapLimit
                        /\ b.from <= end
  BY <1>1, <1>2 DEF HeapInv, BlocksApart, Block
<1>4. \A b \in blocks :
        LET c == Truncated(b, end)
        IN  /\ c \in Block /\ c.from = b.from
            /\ c.to = IF b.to > end THEN end ELSE b.to
  <2> TAKE b \in blocks
  <2>1. b \in Block
    BY DEF HeapInv
  <2> QED
    BY <1>2, <2>1 DEF Truncated, Block
<1>5. blocks' = Old \cup (IF incr > 0 THEN {New} ELSE {})
  OBVIOUS
<1>6. \A b \in blocks' :
        \/ incr > 0 /\ b = New
        \/ \E c \in blocks : b = Truncated(c, end)
  BY <1>5
<1>7. \A b \in blocks' : /\ b \in Block /\ b.to <= end
                         /\ b.from % 4 = 0 /\ HeapStart <= b.from
                         /\ b.from <= b.to /\ b.to <= HeapLimit
  <2> SUFFICES ASSUME NEW b \in blocks'
               PROVE  /\ b \in Block /\ b.to <= end
                      /\ b.from % 4 = 0 /\ HeapStart <= b.from
                      /\ b.from <= b.to /\ b.to <= HeapLimit
    OBVIOUS
  <2>1. CASE incr > 0 /\ b = New
    BY <2>1, <1>1, <1>2 DEF Block
  <2>2. ASSUME NEW c \in blocks, b = Truncated(c, end)
        PROVE  /\ b \in Block /\ b.to <= end
               /\ b.from % 4 = 0 /\ HeapStart <= b.from
               /\ b.from <= b.to /\ b.to <= HeapLimit
    <3>1. /\ b \in Block /\ b.from = c.from
          /\ b.to = IF c.to > end THEN end ELSE c.to
      BY <2>2, <1>4
    <3>2. /\ c.from \in Nat /\ c.to \in Nat /\ c.from % 4 = 0
          /\ HeapStart <= c.from /\ c.from <= c.to /\ c.to <= HeapLimit
          /\ c.from <= end
      BY <1>3
    <3>3. b.from % 4 = 0 /\ HeapStart <= b.from
      BY <3>1, <3>2
    <3> QED
      BY <1>1, <1>2, <3>1, <3>2, <3>3
  <2> QED
    BY <2>1, <2>2, <1>6
<1>8. \A b, c \in blocks' : b = c \/ b.to <= c.from \/ c.to <= b.from
  <2> SUFFICES ASSUME NEW b \in blocks', NEW c \in blocks'
               PROVE  b = c \/ b.to <= c.from \/ c.to <= b.from
    OBVIOUS
  <2>1. \A d \in blocks : /\ Truncated(d, end).to <= d.to
                          /\ Truncated(d, end).from = d.from
                          /\ incr > 0 => Truncated(d, end).to <= prev
    BY <1>1, <1>2, <1>3, <1>4
  <2>2. CASE incr > 0 /\ b = New /\ c # New
    BY <2>1, <2>2, <1>6
  <2>3. CASE incr > 0 /\ b # New /\ c = New
    BY <2>1, <2>3, <1>6
  <2>4. ASSUME NEW d \in blocks, b = Truncated(d, end),
               NEW e \in blocks, c = Truncated(e, end)
        PROVE  b = c \/ b.to <= c.from \/ c.to <= b.from
    <3>1. d = e \/ d.to <= e.from \/ e.to <= d.from
      BY DEF HeapInv, BlocksApart
    <3>2. /\ b.from = d.from /\ b.to <= d.to /\ b.to \in Nat
          /\ c.from = e.from /\ c.to <= e.to /\ c.to \in Nat
      BY <2>1, <2>4, <1>4, <1>7 DEF Block
    <3>3. CASE d = e
      BY <2>4, <3>3
    <3>4. CASE d.to <= e.from
      BY <3>2, <3>4, <1>3
    <3>5. CASE e.to <= d.from
      BY <3>2, <3>5, <1>3
    <3> QED
      BY <3>1, <3>3, <3>4, <3>5
  <2> QED
    BY <2>2, <2>3, <2>4, <1>6
<1> QED
  BY <1>2, <1>7, <1>8 DEF HeapInv, BlocksApart

LEMMA HeapStep == HeapInv /\ [HeapNext]_heapVars => HeapInv'
<1> SUFFICES ASSUME HeapInv, [HeapNext]_heapVars PROVE HeapInv'
  OBVIOUS
<1>1. CASE UNCHANGED heapVars
  BY <1>1 DEF heapVars, HeapInv, BlocksApart
<1>2. ASSUME NEW incr \in Increments, Sbrk(incr) PROVE HeapInv'
  <2> DEFINE prev == Aligned(heap_end)
  <2>1. prev \in Nat /\ heap_end <= prev /\ prev % 4 = 0
    BY AlignedUp DEF HeapInv
  <2>2. incr \in Int /\ HeapLimit \in Nat /\ HeapStart \in Nat
    BY HalAssumption
  <2>3. CASE Exceeds(incr)
    <3>1. heap_end' = prev /\ blocks' = blocks
      BY <1>2, <2>3 DEF Sbrk
    <3>2. /\ blocks \subseteq Block /\ heap_end \in Nat /\ HeapStart <= heap_end
          /\ \A b \in blocks : b.to <= heap_end
      BY DEF HeapInv
    <3>3. \A b \in blocks : b.to <= prev
      BY <3>2, <2>1 DEF Block
    <3>4. prev \in Nat /\ HeapStart <= prev
      BY <2>1, <2>2, <3>2
    <3>5. BlocksApart'
      BY <3>1 DEF HeapInv, BlocksApart
    <3> QED
      BY <3>1, <3>2, <3>3, <3>4, <3>5 DEF HeapInv
  <2>4. CASE ~Exceeds(incr)
    <3>1. prev + incr <= HeapLimit
      BY <2>1, <2>2, <2>4 DEF Exceeds
    <3>2. /\ heap_end' = prev + incr
          /\ blocks' = {Truncated(b, heap_end') : b \in blocks}
                       \cup {[from |-> prev, to |-> prev + incr] : i \in
                               {i \in {incr} : i > 0}}
      BY <1>2, <2>4 DEF Sbrk
    <3>3. incr >= 0 \/ (prev + incr >= HeapStart
                        /\ \A b \in blocks : prev + incr >= b.from)
      BY <1>2 DEF Sbrk, Owned
    <3> HIDE DEF prev
    <3> QED
      BY <2>1, <3>1, <3>2, <3>3, SbrkGranted
  <2> QED
    BY <2>3, <2>4
<1> QED
  BY <1>1, <1>2 DEF HeapNext

(* alt_sbrk hands out memory that is aligned, within the limits and not    *)
(* handed out yet, whatever is asked for, refused and given back.          *)
THEOREM HeapBlocksApart == HeapSpec => []BlocksApart
<1>1. HeapInv => BlocksApart
  BY DEF HeapInv
<1> QED
  BY <1>1, HeapInitInv, HeapStep, PTL DEF HeapSpec
=============================================================================
