---------------------------- MODULE AiUsageProofs ----------------------------
(* Proofs about AiUsage, for any calls, policies, settings and days. *)
EXTENDS AiUsage, Sums

USE UsageAssumption

-----------------------------------------------------------------------------
(* The inductive invariant *)

\* A key whose counter was pruned is so old that no cadence makes it current again.
CountersInv ==
  /\ \A k \in counters : end[k] > k[2]
  /\ \A k \in Keys \ counters : usedRequests[k] = 0 /\ reservedRequests[k] = 0
  /\ \A c \in Calls : \A k \in KeysOf(c) :
       /\ status[c] \in Held => k \in counters
       /\ k \notin counters => k[2] + PeriodRetention < now

\* What the place of a call's task says of its rows.
CallInv == \A c \in Calls :
  /\ pc[c] = "idle" => status[c] = "none" /\ age[c] = 0 /\ c \notin sent
  /\ pc[c] = "reserved" => status[c] \in {"none", "reserved"} /\ age[c] = 0 /\ c \notin sent
  /\ pc[c] = "sent" => c \in sent
  /\ status[c] = "none" <=> rows[c] = {}
  /\ status[c] \in Held \cup {"none"} => pruned[c] = {}
  /\ status[c] \in Closed => pc[c] = "done"
  /\ age[c] = 2 => pc[c] = "done"
  /\ age[c] >= 1 /\ pc[c] # "done" => c \in sent

\* A call that was sent is known to be, as long as its outcome is open.
SentInv == \A c \in sent :
  /\ pc[c] \in {"sent", "finishing", "done"}
  /\ status[c] = "reserved" => c \in dispatched
  /\ pc[c] = "finishing" => outcome[c].status # "released"
  /\ status[c] # "released"

ObservedInv == \A c \in Calls :
  /\ observed[c] <= 1
  /\ status[c] \in {"settled", "unknown"} => observed[c] = 1
  /\ status[c] = "reserved" => observed[c] = 0
  /\ status[c] = "none" /\ pc[c] # "done" => observed[c] = 0

\* A call that is given up has cost nothing.
ReleasedIsFree == \A c \in Calls : outcome[c].status = "released" => outcome[c].tokens = 0

UsageInv ==
  /\ UsageTypeOK /\ CountersInv /\ CallInv /\ SentInv /\ ObservedInv /\ ReleasedIsFree
  /\ RequestsMatch

-----------------------------------------------------------------------------
(* Windows and rows *)

\* A window begins on or before its day, less than its length ago.
LEMMA StartBounds ==
  ASSUME NEW d \in Nat, NEW n \in Nat \ {0}
  PROVE  Start(d, n) <= d /\ d < Start(d, n) + n
BY DEF Start

\* The row a policy gives now is one of the model's, and its window is the current one.
LEMMA RowForType ==
  ASSUME UsageTypeOK, NEW p \in Policies
  PROVE  /\ RowFor(p) \in Rows /\ KeyOf(RowFor(p)) \in Keys
         /\ RowFor(p).policy = p
         /\ RowFor(p).start + PeriodRetention >= now
         /\ RowFor(p).end > RowFor(p).start
<1>1. policy[p] \in Settings[p] /\ now \in Days /\ now \in Nat
  BY DEF UsageTypeOK, PolicySettings
<1>a. policy[p].cadence \in Nat \ {0}
  BY <1>1
<1>b. policy[p].cadence <= PeriodRetention /\ Start(now, policy[p].cadence) \in Days
  BY <1>1
<1>2. PICK first \in Days, length \in Nat \ {0} :
        /\ length <= PeriodRetention /\ first <= now /\ now < first + length
        /\ RowFor(p) = [policy |-> p, start |-> first, end |-> first + length]
  BY <1>1, <1>a, <1>b, StartBounds DEF RowFor
<1>3. PeriodRetention \in Nat /\ first \in Nat
  BY <1>2
<1>4. first + length \in Nat /\ first + length > first /\ first + PeriodRetention >= now
  BY <1>1, <1>2, <1>3
<1> QED
  BY <1>2, <1>4 DEF KeyOf, Rows, Keys

\* The keys of a call's rows are keys of the model.
LEMMA KeysOfType ==
  ASSUME UsageTypeOK, NEW c \in Calls
  PROVE  KeysOf(c) \subseteq Keys
BY DEF UsageTypeOK, KeysOf, KeyOf, Rows, Keys

\* No setting's window can be current for a counter that is old enough to be pruned.
LEMMA OldNotCurrent ==
  ASSUME UsageTypeOK, CountersInv, NEW k \in counters, OldCounter(k)
  PROVE  ~CurrentKey(k)
<1>1. SUFFICES ASSUME NEW s \in Settings[k[1]], Start(now, s.cadence) = k[2] PROVE FALSE
  BY DEF CurrentKey
<1>2. k[1] \in Policies /\ k[2] \in Nat /\ end[k] \in Nat /\ now \in Nat
  BY DEF UsageTypeOK, Keys
<1>3. s \in [on : BOOLEAN, requests : Nat, tokens : Nat, cadence : Nat \ {0}]
  BY <1>2
<1>4. s.cadence \in Nat \ {0} /\ s.cadence <= PeriodRetention /\ PeriodRetention \in Nat
  BY <1>2, <1>3
<1>5. now < k[2] + s.cadence
  BY <1>1, <1>2, <1>4, StartBounds
<1> QED
  BY <1>2, <1>4, <1>5 DEF CountersInv, OldCounter

\* Adding a call to a set of calls, or taking one away, changes their number by one.
LEMMA CallsCount ==
  ASSUME NEW S \in SUBSET Calls, NEW c \in Calls
  PROVE  /\ IsFiniteSet(S) /\ Cardinality(S) \in Nat
         /\ c \notin S => Cardinality(S \cup {c}) = Cardinality(S) + 1
         /\ c \in S => Cardinality(S \ {c}) = Cardinality(S) - 1
<1>1. IsFiniteSet(S) /\ Cardinality(S) \in Nat
  BY FS_Subset, FS_CardinalityType
<1>2. Cardinality(S \cup {c}) = IF c \in S THEN Cardinality(S) ELSE Cardinality(S) + 1
  BY <1>1, FS_AddElement
<1>3. Cardinality(S \ {c}) = IF c \in S THEN Cardinality(S) - 1 ELSE Cardinality(S)
  BY <1>1, FS_RemoveElement
<1> QED
  BY <1>1, <1>2, <1>3

-----------------------------------------------------------------------------
(* What the settlement of a call does *)

\* A held call has its rows, and each has a counter.
LEMMA HeldRows ==
  ASSUME UsageInv, NEW c \in Calls, status[c] \in Held
  PROVE  /\ Stored(c) = rows[c] /\ rows[c] # {}
         /\ {KeyOf(r) : r \in Stored(c)} = KeysOf(c) /\ KeysOf(c) \subseteq counters
BY KeysOfType DEF UsageInv, UsageTypeOK, CallInv, CountersInv, Stored, KeysOf, Held

\* Writing an outcome leaves the rows as they are, or settles, releases or holds as
\* unknown a call that was still reserved.
LEMMA WriteEffect ==
  ASSUME UsageInv, NEW c \in Calls, NEW s \in Closed \cup {"unknown"}, NEW n \in Nat,
         Write(c, s, n)
  PROVE  \/ /\ status[c] # "reserved"
            /\ UNCHANGED <<status, age, charge, counts>>
         \/ /\ status[c] = "reserved"
            /\ status' = [status EXCEPT ![c] = s]
            /\ age' = [age EXCEPT ![c] = IF s = "unknown" THEN @ ELSE 0]
            /\ charge' = [charge EXCEPT ![c] = IF s = "settled" THEN n ELSE 0]
            /\ IF s = "unknown" THEN UNCHANGED counts
               ELSE GiveBack(KeysOf(c), c, IF s = "settled" THEN 1 ELSE 0, n)
<1>1. CASE status[c] = "reserved"
  <2>1. Stored(c) # {} /\ {KeyOf(r) : r \in Stored(c)} = KeysOf(c)
    BY <1>1, HeldRows DEF Held
  <2> QED
    BY <1>1, <2>1 DEF Write
<1>2. CASE status[c] # "reserved"
  BY <1>2 DEF Write
<1> QED
  BY <1>1, <1>2

\* The counters keep their types when a covered call is given back.
LEMMA GiveBackType ==
  ASSUME UsageInv, NEW c \in Calls, status[c] \in Held, Covered(c), NEW u \in {0, 1},
         NEW n \in Nat, GiveBack(KeysOf(c), c, u, n)
  PROVE  /\ counters' = counters /\ end' = end
         /\ usedRequests' \in [Keys -> Nat] /\ reservedRequests' \in [Keys -> Nat]
         /\ usedTokens' \in [Keys -> Nat] /\ reservedTokens' \in [Keys -> Nat]
<1>1. \A k \in KeysOf(c) : reservedRequests[k] >= 1 /\ reservedTokens[k] >= TokensOf[c]
  BY HeldRows DEF Covered, KeysOf
<1>2. TokensOf[c] \in Nat
  OBVIOUS
<1> QED
  BY <1>1, <1>2 DEF UsageInv, UsageTypeOK, GiveBack

\* Giving a held call back moves its requests with it.
LEMMA GiveBackMatch ==
  ASSUME UsageInv, NEW c \in Calls, status[c] \in Held, NEW s \in Closed, NEW n \in Nat,
         status' = [status EXCEPT ![c] = s], rows' = rows,
         GiveBack(KeysOf(c), c, IF s = "settled" THEN 1 ELSE 0, n)
  PROVE  RequestsMatch'
<1> SUFFICES ASSUME NEW k \in counters'
             PROVE  /\ reservedRequests'[k] = Cardinality(CallsWith(k, Held)')
                    /\ usedRequests'[k] = Cardinality(CallsWith(k, {"settled"})')
  BY DEF RequestsMatch
<1>1. k \in counters /\ k \in Keys
  BY DEF GiveBack, UsageInv, UsageTypeOK
<1>2. /\ reservedRequests[k] = Cardinality(CallsWith(k, Held))
      /\ usedRequests[k] = Cardinality(CallsWith(k, {"settled"}))
      /\ reservedRequests[k] \in Nat /\ usedRequests[k] \in Nat
  BY <1>1 DEF UsageInv, RequestsMatch, UsageTypeOK
<1>3. CallsWith(k, Held) \subseteq Calls /\ CallsWith(k, {"settled"}) \subseteq Calls
  BY DEF CallsWith
<1>4. CASE k \in KeysOf(c)
  <2>1. /\ c \in CallsWith(k, Held) /\ c \notin CallsWith(k, {"settled"})
        /\ CallsWith(k, Held)' = CallsWith(k, Held) \ {c}
        /\ CallsWith(k, {"settled"})' = IF s = "settled" THEN CallsWith(k, {"settled"}) \cup {c}
                                        ELSE CallsWith(k, {"settled"})
    BY <1>4 DEF CallsWith, KeysOf, Held, Closed, UsageInv, UsageTypeOK
  <2>2. /\ reservedRequests'[k] = reservedRequests[k] - 1
        /\ usedRequests'[k] = usedRequests[k] + IF s = "settled" THEN 1 ELSE 0
    BY <1>1, <1>4 DEF GiveBack
  <2>3. /\ Cardinality(CallsWith(k, Held) \ {c}) = Cardinality(CallsWith(k, Held)) - 1
        /\ Cardinality(CallsWith(k, {"settled"}) \cup {c})
             = Cardinality(CallsWith(k, {"settled"})) + 1
    BY <1>3, <2>1, CallsCount
  <2>4. reservedRequests'[k] = Cardinality(CallsWith(k, Held)')
    BY <1>2, <2>1, <2>2, <2>3
  <2>5. CASE s = "settled"
    <3>1. usedRequests'[k] = usedRequests[k] + 1
      BY <2>2, <2>5
    <3> QED
      BY <1>2, <2>1, <2>3, <2>4, <2>5, <3>1
  <2>6. CASE s # "settled"
    BY <1>2, <2>1, <2>2, <2>4, <2>6
  <2> QED
    BY <2>5, <2>6
<1>5. CASE k \notin KeysOf(c)
  <2>1. /\ CallsWith(k, Held)' = CallsWith(k, Held)
        /\ CallsWith(k, {"settled"})' = CallsWith(k, {"settled"})
    BY <1>5 DEF CallsWith, KeysOf, UsageInv, UsageTypeOK
  <2>2. reservedRequests'[k] = reservedRequests[k] /\ usedRequests'[k] = usedRequests[k]
    BY <1>1, <1>2, <1>5 DEF GiveBack
  <2> QED
    BY <1>2, <2>1, <2>2
<1> QED
  BY <1>4, <1>5

-----------------------------------------------------------------------------
(* What an admission does *)

\* The rows of an admitted call, by the policies that admitted it.
LEMMA ReserveRows ==
  ASSUME UsageInv, NEW c \in Calls, Reserve(c)
  PROVE  /\ rows'[c] \subseteq Rows /\ (rows'[c] = {}) = (status'[c] = "none")
         /\ status'[c] \in {"none", "reserved"}
         /\ rows' = [rows EXCEPT ![c] = rows'[c]] /\ status' = [status EXCEPT ![c] = status'[c]]
         /\ KeysOf(c)' \subseteq Keys /\ counters' = counters \cup KeysOf(c)'
         /\ \A k \in KeysOf(c)' : k[2] + PeriodRetention >= now /\ k[1] \in Policies
         /\ \A k \in Keys : /\ k \in counters \/ k \notin KeysOf(c)' => end'[k] = end[k]
                            /\ k \notin counters /\ k \in KeysOf(c)' => end'[k] > k[2]
         /\ \A k \in Keys :
              /\ k \in KeysOf(c)' => /\ reservedRequests'[k] = reservedRequests[k] + 1
                                     /\ Admits(k, c)
              /\ k \notin KeysOf(c)' => reservedRequests'[k] = reservedRequests[k]
<1> DEFINE ps == EffectivePolicies(c)
           new == {RowFor(p) : p \in ps}
           keys == {KeyOf(r) : r \in new}
<1>1. \A p \in ps : /\ p \in Policies /\ RowFor(p) \in Rows /\ KeyOf(RowFor(p)) \in Keys
                    /\ RowFor(p).policy = p
                    /\ RowFor(p).start + PeriodRetention >= now
                    /\ RowFor(p).end > RowFor(p).start
  BY RowForType DEF UsageInv, EffectivePolicies
<1>2. /\ rows' = [rows EXCEPT ![c] = new] /\ counters' = counters \cup keys
      /\ status' = [status EXCEPT ![c] = IF new = {} THEN "none" ELSE "reserved"]
      /\ \A k \in keys : Admits(k, c)
      /\ reservedRequests' = [k \in Keys |-> reservedRequests[k] + IF k \in keys THEN 1 ELSE 0]
  BY DEF Reserve
<1>3. rows'[c] = new /\ KeysOf(c)' = keys
  BY <1>2 DEF KeysOf, KeyOf, UsageInv, UsageTypeOK
<1>4. new \subseteq Rows /\ keys \subseteq Keys
  BY <1>1
<1>5. \A k \in keys : k[1] \in Policies /\ k[2] + PeriodRetention >= now
  BY <1>1 DEF KeyOf
<1>6. \A k \in keys :
        Start(now, policy[k[1]].cadence) + policy[k[1]].cadence > k[2]
  BY <1>1 DEF KeyOf, RowFor
<1>7. \A k \in Keys : /\ k \in counters \/ k \notin keys => end'[k] = end[k]
                      /\ k \notin counters /\ k \in keys => end'[k] > k[2]
  BY <1>6 DEF Reserve
<1>8. \A k \in Keys : /\ k \in keys => reservedRequests'[k] = reservedRequests[k] + 1
                      /\ k \notin keys => reservedRequests'[k] = reservedRequests[k]
  <2>1. \A k \in Keys : reservedRequests[k] \in Nat
    BY DEF UsageInv, UsageTypeOK
  <2> HIDE DEF keys
  <2> QED
    BY <1>2, <2>1
<1>9. status'[c] = IF new = {} THEN "none" ELSE "reserved"
  BY <1>2 DEF UsageInv, UsageTypeOK
<1> HIDE DEF new, keys
<1>10. /\ rows' = [rows EXCEPT ![c] = rows'[c]] /\ status' = [status EXCEPT ![c] = status'[c]]
       /\ rows'[c] \subseteq Rows
  BY <1>2, <1>3, <1>4, <1>9
<1>11. (rows'[c] = {}) = (status'[c] = "none") /\ status'[c] \in {"none", "reserved"}
  BY <1>3, <1>9
<1> QED
  BY <1>2, <1>3, <1>4, <1>5, <1>7, <1>8, <1>10, <1>11

\* A counter an admission makes is one that no call of the past falls under: the
\* pruned ones are too old to be current.
LEMMA NewCounterUnused ==
  ASSUME UsageInv, NEW c \in Calls, Reserve(c), NEW k \in Keys, k \in KeysOf(c)', k \notin counters
  PROVE  CallsWith(k, Held) = {} /\ CallsWith(k, {"settled"}) = {}
<1>1. k[2] + PeriodRetention >= now
  BY ReserveRows
<1>2. now \in Nat /\ k[2] \in Nat /\ PeriodRetention \in Nat
  BY DEF UsageInv, UsageTypeOK, Keys
<1>3. \A d \in Calls : k \notin KeysOf(d)
  BY <1>1, <1>2 DEF UsageInv, CountersInv
<1> QED
  BY <1>3 DEF CallsWith

LEMMA ReserveMatch ==
  ASSUME UsageInv, NEW c \in Calls, Reserve(c)
  PROVE  RequestsMatch'
<1> SUFFICES ASSUME NEW k \in counters'
             PROVE  /\ reservedRequests'[k] = Cardinality(CallsWith(k, Held)')
                    /\ usedRequests'[k] = Cardinality(CallsWith(k, {"settled"})')
  BY DEF RequestsMatch
<1>1. k \in Keys /\ usedRequests' = usedRequests
  BY ReserveRows DEF UsageInv, UsageTypeOK, Reserve
<1>2. status[c] = "none" /\ rows[c] = {}
  BY DEF Reserve, UsageInv, CallInv
<1>3. CallsWith(k, Held) \subseteq Calls /\ CallsWith(k, {"settled"}) \subseteq Calls
  BY DEF CallsWith
<1>4. /\ reservedRequests[k] = Cardinality(CallsWith(k, Held))
      /\ usedRequests[k] = Cardinality(CallsWith(k, {"settled"}))
  <2>1. CASE k \in counters
    BY <2>1 DEF UsageInv, RequestsMatch
  <2>2. CASE k \notin counters
    <3>1. k \in KeysOf(c)'
      BY <2>2, ReserveRows
    <3>3. CallsWith(k, Held) = {} /\ CallsWith(k, {"settled"}) = {}
      BY <1>1, <2>2, <3>1, NewCounterUnused
    <3>4. reservedRequests[k] = 0 /\ usedRequests[k] = 0
      BY <1>1, <2>2 DEF UsageInv, CountersInv
    <3> QED
      BY <3>3, <3>4, FS_EmptySet
  <2> QED
    BY <2>1, <2>2
<1>5. CallsWith(k, {"settled"})' = CallsWith(k, {"settled"})
  BY <1>2, ReserveRows DEF CallsWith, KeysOf, UsageInv, UsageTypeOK
<1>6. CASE k \in KeysOf(c)'
  <2>1. status'[c] = "reserved"
    BY <1>6, ReserveRows DEF KeysOf
  <2>2. c \notin CallsWith(k, Held) /\ CallsWith(k, Held)' = CallsWith(k, Held) \cup {c}
    BY <1>2, <1>6, <2>1, ReserveRows DEF CallsWith, KeysOf, Held, UsageInv, UsageTypeOK
  <2>3. Cardinality(CallsWith(k, Held)') = Cardinality(CallsWith(k, Held)) + 1
    BY <1>3, <2>2, CallsCount
  <2> QED
    BY <1>1, <1>4, <1>5, <1>6, <2>3, ReserveRows
<1>7. CASE k \notin KeysOf(c)'
  <2>1. CallsWith(k, Held)' = CallsWith(k, Held)
    BY <1>2, <1>7, ReserveRows DEF CallsWith, KeysOf, Held, UsageInv, UsageTypeOK
  <2> QED
    BY <1>1, <1>4, <1>5, <1>7, <2>1, ReserveRows
<1> QED
  BY <1>6, <1>7

-----------------------------------------------------------------------------
(* Type correctness *)

LEMMA TypeStep == ASSUME UsageInv, [Next]_vars PROVE UsageTypeOK'
<1> USE DEF UsageTypeOK
<1>0. UsageTypeOK
  BY DEF UsageInv
<1>1. ASSUME NEW c \in Calls, Reserve(c) PROVE UsageTypeOK'
  <2>1. /\ counters' \subseteq Keys /\ rows' \in [Calls -> SUBSET Rows]
        /\ status' \in [Calls -> {"none"} \cup Held \cup Closed]
    BY <1>0, <1>1, ReserveRows DEF Held
  <2>2. /\ reservedRequests' \in [Keys -> Nat] /\ reservedTokens' \in [Keys -> Nat]
    BY <1>0, <1>1 DEF Reserve
  <2>3. end' \in [Keys -> Nat]
    <3>1. \A k \in Keys : Start(now, policy[k[1]].cadence) + policy[k[1]].cadence \in Nat
      <4> SUFFICES ASSUME NEW k \in Keys
                   PROVE  Start(now, policy[k[1]].cadence) + policy[k[1]].cadence \in Nat
        OBVIOUS
      <4>1. k[1] \in Policies
        BY DEF Keys
      <4>2. policy[k[1]] \in Settings[k[1]]
        BY <1>0, <4>1 DEF PolicySettings
      <4>3. policy[k[1]].cadence \in Nat
        BY <4>1, <4>2
      <4>4. Start(now, policy[k[1]].cadence) \in Nat
        BY <1>0, <4>1, <4>2
      <4> QED
        BY <4>3, <4>4
    <3> QED
      BY <1>0, <1>1, <3>1 DEF Reserve
  <2>4. pc' \in [Calls -> Places]
    BY <1>0, <1>1 DEF Reserve, Places
  <2> QED
    BY <1>0, <1>1, <2>1, <2>2, <2>3, <2>4 DEF Reserve, history
<1>2. ASSUME NEW c \in Calls, MarkDispatched(c) PROVE UsageTypeOK'
  <2>1. /\ pc' \in [Calls -> Places] /\ outcome' \in [Calls -> Outcomes]
        /\ dispatched' \subseteq Calls /\ sent' \subseteq Calls
    <3>1. Nothing \in Outcomes
      BY DEF Outcomes, Nothing, Closed
    <3> QED
      BY <1>0, <1>2, <3>1 DEF MarkDispatched, Places
  <2> QED
    BY <1>0, <1>2, <2>1 DEF MarkDispatched, counts
<1>3. ASSUME NEW c \in Calls, Answer(c) PROVE UsageTypeOK'
  <2>1. OutcomesOf(c) \subseteq Outcomes
    BY DEF OutcomesOf, Outcomes, Closed
  <2> QED
    BY <1>0, <1>3, <2>1 DEF Answer, counts, reservations, history, Places
<1>4. ASSUME NEW c \in Calls, NEW s \in Closed \cup {"unknown"}, NEW n \in Nat, Write(c, s, n)
      PROVE  /\ counters' \subseteq Keys /\ end' \in [Keys -> Nat]
             /\ usedRequests' \in [Keys -> Nat] /\ reservedRequests' \in [Keys -> Nat]
             /\ usedTokens' \in [Keys -> Nat] /\ reservedTokens' \in [Keys -> Nat]
             /\ status' \in [Calls -> {"none"} \cup Held \cup Closed]
             /\ age' \in [Calls -> 0..2] /\ charge' \in [Calls -> Nat]
             /\ observed' \in [Calls -> Nat]
  <2>1. observed' \in [Calls -> Nat] /\ Covered(c)
    BY <1>0, <1>4 DEF Write
  <2>2. CASE UNCHANGED <<status, age, charge, counts>>
    BY <1>0, <2>1, <2>2 DEF counts
  <2>3. CASE /\ status[c] = "reserved"
             /\ status' = [status EXCEPT ![c] = s]
             /\ age' = [age EXCEPT ![c] = IF s = "unknown" THEN @ ELSE 0]
             /\ charge' = [charge EXCEPT ![c] = IF s = "settled" THEN n ELSE 0]
             /\ IF s = "unknown" THEN UNCHANGED counts
                ELSE GiveBack(KeysOf(c), c, IF s = "settled" THEN 1 ELSE 0, n)
    <3>1. /\ status' \in [Calls -> {"none"} \cup Held \cup Closed]
          /\ age' \in [Calls -> 0..2] /\ charge' \in [Calls -> Nat]
      BY <1>0, <1>4, <2>3 DEF Held
    <3>2. CASE s = "unknown"
      BY <1>0, <2>1, <2>3, <3>1, <3>2 DEF counts
    <3>3. CASE s # "unknown"
      <4>1. status[c] \in Held /\ (IF s = "settled" THEN 1 ELSE 0) \in {0, 1}
        BY <2>3 DEF Held
      <4>2. GiveBack(KeysOf(c), c, IF s = "settled" THEN 1 ELSE 0, n)
        BY <2>3, <3>3
      <4> QED
        BY <1>0, <1>4, <2>1, <3>1, <4>1, <4>2, GiveBackType
    <3> QED
      BY <3>2, <3>3
  <2> QED
    BY <1>4, <2>2, <2>3, WriteEffect
<1>5. ASSUME NEW c \in Calls, Finish(c) PROVE UsageTypeOK'
  <2>1. outcome[c].status \in Closed \cup {"unknown"} /\ outcome[c].tokens \in Nat
    BY <1>0 DEF Outcomes
  <2>2. pc' \in [Calls -> Places] /\ outcome' \in [Calls -> Outcomes]
    BY <1>0, <1>5 DEF Finish, Places, Outcomes, Nothing, Closed
  <2>3. CASE Write(c, outcome[c].status, outcome[c].tokens)
    <3> DEFINE s == outcome[c].status
               n == outcome[c].tokens
    <3>1. s \in Closed \cup {"unknown"} /\ n \in Nat /\ Write(c, s, n)
      BY <2>1, <2>3
    <3> HIDE DEF s, n
    <3>2. /\ counters' \subseteq Keys /\ end' \in [Keys -> Nat]
          /\ usedRequests' \in [Keys -> Nat] /\ reservedRequests' \in [Keys -> Nat]
          /\ usedTokens' \in [Keys -> Nat] /\ reservedTokens' \in [Keys -> Nat]
          /\ status' \in [Calls -> {"none"} \cup Held \cup Closed]
          /\ age' \in [Calls -> 0..2] /\ charge' \in [Calls -> Nat]
          /\ observed' \in [Calls -> Nat]
      BY <1>4, <3>1
    <3> QED
      BY <1>0, <1>5, <2>2, <3>2 DEF Finish
  <2>4. CASE UNCHANGED <<counts, status, age, charge, observed>>
    BY <1>0, <1>5, <2>2, <2>4 DEF Finish, counts
  <2> QED
    BY <1>5, <2>3, <2>4 DEF Finish
<1>6. ASSUME NEW c \in Calls, HourPasses(c) \/ DayPasses(c) PROVE UsageTypeOK'
  BY <1>0, <1>6 DEF HourPasses, DayPasses, counts, task, history
<1>7. ASSUME NEW c \in Calls, Reconcile(c) PROVE UsageTypeOK'
  <2>1. StaleOutcome(c) \in Closed \cup {"unknown"} /\ Write(c, StaleOutcome(c), 0)
    BY <1>7 DEF Reconcile, StaleOutcome, Closed
  <2> QED
    BY <1>0, <1>4, <1>7, <2>1 DEF Reconcile, task
<1>8. ASSUME NEW c \in Calls, ResolveUnknown(c) PROVE UsageTypeOK'
  <2>1. status[c] \in Held /\ Covered(c) /\ GiveBack(KeysOf(c), c, 1, 0)
    BY <1>8, HeldRows DEF ResolveUnknown, Resolvable, Held
  <2>2. /\ counters' = counters /\ end' = end
        /\ usedRequests' \in [Keys -> Nat] /\ reservedRequests' \in [Keys -> Nat]
        /\ usedTokens' \in [Keys -> Nat] /\ reservedTokens' \in [Keys -> Nat]
    BY <2>1, GiveBackType
  <2> QED
    BY <1>0, <1>8, <2>2 DEF ResolveUnknown, task, Closed
<1>9. ASSUME NEW c \in Calls, PruneReservation(c) PROVE UsageTypeOK'
  <2>1. pruned' \in [Calls -> SUBSET Rows]
    BY <1>0, <1>9 DEF PruneReservation, Stored
  <2> QED
    BY <1>0, <1>9, <2>1 DEF PruneReservation, counts, task, history
<1>10. ASSUME NEW k \in Keys, PruneCounter(k) PROVE UsageTypeOK'
  BY <1>0, <1>10 DEF PruneCounter, task, reservations, history
<1>11. ASSUME NEW p \in Policies, SetPolicy(p) PROVE UsageTypeOK'
  <2>1. PICK s \in Settings[p] : policy' = [policy EXCEPT ![p] = s]
    BY <1>11 DEF SetPolicy
  <2>2. policy' \in PolicySettings
    <3> DEFINE All == UNION {Settings[q] : q \in Policies}
    <3>1. s \in All
      BY <2>1
    <3>2. policy \in [Policies -> All] /\ \A q \in Policies : policy[q] \in Settings[q]
      BY <1>0 DEF PolicySettings
    <3>3. PolicySettings = {f \in [Policies -> All] : \A q \in Policies : f[q] \in Settings[q]}
      BY DEF PolicySettings
    <3> HIDE DEF All
    <3>4. policy' \in [Policies -> All] /\ \A q \in Policies : policy'[q] \in Settings[q]
      BY <2>1, <3>1, <3>2
    <3> QED
      BY <3>3, <3>4
  <2> QED
    BY <1>0, <1>11, <2>2 DEF SetPolicy, counts, task, reservations, history
<1>12. CASE DateChanges
  BY <1>0, <1>12 DEF DateChanges, counts, task, reservations, history
<1>13. CASE Crash
  BY <1>0, <1>13 DEF Crash, counts, reservations, history, Places, Outcomes, Nothing, Closed
<1>14. CASE UNCHANGED vars
  BY <1>0, <1>14 DEF vars, counts, task, reservations, history
<1> QED
  BY <1>1, <1>2, <1>3, <1>5, <1>6, <1>7, <1>8, <1>9, <1>10, <1>11, <1>12, <1>13, <1>14
  DEF Next

-----------------------------------------------------------------------------
(* Calls: what a task's place says of its rows, of what was sent and observed *)

TaskInv == CallInv /\ SentInv /\ ObservedInv

LEMMA TaskStep == ASSUME UsageInv, [Next]_vars PROVE TaskInv'
<1> USE DEF TaskInv, CallInv, SentInv, ObservedInv, Held, Closed
<1>0. UsageTypeOK /\ TaskInv
  BY DEF UsageInv
<1> USE DEF UsageTypeOK
<1>1. ASSUME NEW c \in Calls, Reserve(c) PROVE TaskInv'
  <2>1. /\ (rows'[c] = {}) = (status'[c] = "none") /\ status'[c] \in {"none", "reserved"}
        /\ rows' = [rows EXCEPT ![c] = rows'[c]] /\ status' = [status EXCEPT ![c] = status'[c]]
    BY <1>1, ReserveRows
  <2>2. \E confirmed \in BOOLEAN :
          pc' = [pc EXCEPT ![c] = IF confirmed THEN "reserved" ELSE "done"]
    BY <1>1 DEF Reserve
  <2>3. pc[c] = "idle" /\ UNCHANGED <<outcome, dispatched, pruned, age, observed, sent>>
    BY <1>1 DEF Reserve, history
  <2> QED
    BY <1>0, <2>1, <2>2, <2>3
<1>2. ASSUME NEW c \in Calls, MarkDispatched(c) PROVE TaskInv'
  BY <1>0, <1>2 DEF MarkDispatched, Nothing
<1>3. ASSUME NEW c \in Calls, Answer(c) PROVE TaskInv'
  BY <1>0, <1>3 DEF Answer, OutcomesOf, reservations, history
<1>4. ASSUME NEW c \in Calls, Finish(c) PROVE TaskInv'
  <2>1. outcome[c].status \in Closed \cup {"unknown"} /\ outcome[c].tokens \in Nat
    BY <1>0 DEF Outcomes
  <2>2. /\ pc[c] = "finishing" /\ pc' = [pc EXCEPT ![c] = "done"]
        /\ outcome' = [outcome EXCEPT ![c] = Nothing]
        /\ UNCHANGED <<dispatched, rows, pruned, sent>>
    BY <1>4 DEF Finish
  <2>3. CASE UNCHANGED <<counts, status, age, charge, observed>>
    BY <1>0, <2>2, <2>3
  <2>4. CASE Write(c, outcome[c].status, outcome[c].tokens)
    <3>1. observed' = [observed EXCEPT ![c] =
            IF outcome[c].status # "released" /\ ChangesTotals(c) THEN @ + 1 ELSE @]
      BY <2>4 DEF Write
    <3>2. CASE status[c] # "reserved" /\ UNCHANGED <<status, age>>
      <4>1. status[c] = "unknown" => Stored(c) # {}
        BY HeldRows
      <4> QED
        BY <1>0, <2>2, <3>1, <3>2, <4>1 DEF ChangesTotals
    <3>3. CASE /\ status[c] = "reserved" /\ status' = [status EXCEPT ![c] = outcome[c].status]
               /\ age' = [age EXCEPT ![c] = IF outcome[c].status = "unknown" THEN @ ELSE 0]
      BY <1>0, <2>1, <2>2, <3>1, <3>3 DEF ChangesTotals
    <3> QED
      BY <2>1, <2>4, <3>2, <3>3, WriteEffect
  <2> QED
    BY <1>4, <2>3, <2>4 DEF Finish
<1>5. ASSUME NEW c \in Calls, HourPasses(c) PROVE TaskInv'
  BY <1>0, <1>5 DEF HourPasses, task, history
<1>6. ASSUME NEW c \in Calls, DayPasses(c) PROVE TaskInv'
  BY <1>0, <1>6 DEF DayPasses, task, history
<1>7. ASSUME NEW c \in Calls, Reconcile(c) PROVE TaskInv'
  <2>1. /\ status[c] = "reserved" /\ age[c] >= 1
        /\ StaleOutcome(c) \in {"released", "unknown"}
        /\ StaleOutcome(c) = "released" => c \notin dispatched
        /\ UNCHANGED <<pc, outcome, dispatched, rows, pruned, sent>>
    BY <1>7 DEF Reconcile, Stale, StaleOutcome, task
  <2>2. /\ status' = [status EXCEPT ![c] = StaleOutcome(c)]
        /\ age' = [age EXCEPT ![c] = IF StaleOutcome(c) = "unknown" THEN @ ELSE 0]
    BY <1>7, <2>1, WriteEffect DEF Reconcile
  <2>3. observed' = [observed EXCEPT ![c] = IF StaleOutcome(c) # "released" THEN @ + 1 ELSE @]
    BY <1>7, <2>1 DEF Reconcile, Write, ChangesTotals
  <2> HIDE DEF StaleOutcome
  <2> QED
    BY <1>0, <2>1, <2>2, <2>3
<1>8. ASSUME NEW c \in Calls, ResolveUnknown(c) PROVE TaskInv'
  BY <1>0, <1>8 DEF ResolveUnknown, Resolvable, task
<1>9. ASSUME NEW c \in Calls, PruneReservation(c) PROVE TaskInv'
  BY <1>0, <1>9 DEF PruneReservation, Prunable, task, history
<1>10. ASSUME NEW k \in Keys, PruneCounter(k) PROVE TaskInv'
  BY <1>0, <1>10 DEF PruneCounter, task, reservations, history
<1>11. ASSUME NEW p \in Policies, SetPolicy(p) PROVE TaskInv'
  BY <1>0, <1>11 DEF SetPolicy, task, reservations, history
<1>12. CASE DateChanges
  BY <1>0, <1>12 DEF DateChanges, task, reservations, history
<1>13. CASE Crash
  BY <1>0, <1>13 DEF Crash, Live, Places, reservations, history
<1>14. CASE UNCHANGED vars
  BY <1>0, <1>14 DEF vars, task, reservations, history
<1> QED
  BY <1>1, <1>2, <1>3, <1>4, <1>5, <1>6, <1>7, <1>8, <1>9, <1>10, <1>11, <1>12, <1>13, <1>14
  DEF Next

-----------------------------------------------------------------------------
(* Counters: they cover what is held, and what is pruned stays pruned *)

\* An admission, a pruning of a counter and a change of the date are the steps that
\* bear on the counters' ages; a step that closes or keeps calls does not.
LEMMA CountersKept ==
  ASSUME UsageInv,
         counters' = counters, end' = end, now' = now, rows' = rows,
         \A k \in Keys \ counters : usedRequests'[k] = 0 /\ reservedRequests'[k] = 0,
         \A c \in Calls : status'[c] \in Held => status[c] \in Held
  PROVE  CountersInv'
BY DEF UsageInv, CountersInv, KeysOf

LEMMA GiveBackCounters ==
  ASSUME UsageInv, NEW c \in Calls, status[c] \in Held, NEW u \in {0, 1}, NEW n \in Nat,
         GiveBack(KeysOf(c), c, u, n)
  PROVE  /\ counters' = counters /\ end' = end
         /\ \A k \in Keys \ counters : usedRequests'[k] = 0 /\ reservedRequests'[k] = 0
         /\ \A k \in Keys : reservedRequests[k] \in Nat /\ usedRequests[k] \in Nat /\
              \/ usedRequests'[k] = usedRequests[k] /\ reservedRequests'[k] = reservedRequests[k]
              \/ /\ usedRequests'[k] = usedRequests[k] + u
                 /\ reservedRequests'[k] = reservedRequests[k] - 1
         /\ \A k \in Keys : usedTokens[k] \in Nat /\ usedTokens'[k] >= usedTokens[k]
<1>1. \A k \in Keys \ counters : k \notin KeysOf(c)
  BY HeldRows
<1>2. \A k \in Keys : usedRequests[k] \in Nat /\ reservedRequests[k] \in Nat /\ usedTokens[k] \in Nat
  BY DEF UsageInv, UsageTypeOK
<1>3. \A k \in Keys \ counters : usedRequests[k] = 0 /\ reservedRequests[k] = 0
  BY DEF UsageInv, CountersInv
<1>4. \A k \in Keys : IF k \in KeysOf(c)
        THEN usedRequests'[k] = usedRequests[k] + u /\ reservedRequests'[k] = reservedRequests[k] - 1
        ELSE usedRequests'[k] = usedRequests[k] /\ reservedRequests'[k] = reservedRequests[k]
  BY <1>2 DEF GiveBack
<1>5. \A k \in Keys : usedTokens'[k] >= usedTokens[k]
  BY <1>2 DEF GiveBack
<1> QED
  BY <1>1, <1>2, <1>3, <1>4, <1>5 DEF GiveBack

\* What any step does to the counts: an admission, the return of a held call, the
\* pruning of a counter, or nothing.
Returned(c) ==
  /\ status[c] \in Held /\ rows' = rows /\ now' = now /\ policy' = policy
  /\ \E s \in Closed : \E n \in Nat :
       /\ status' = [status EXCEPT ![c] = s] /\ (s = "released" => n = 0)
       /\ charge' = [charge EXCEPT ![c] = IF s = "settled" THEN n ELSE 0]
       /\ GiveBack(KeysOf(c), c, IF s = "settled" THEN 1 ELSE 0, n)
CountsKept ==
  /\ UNCHANGED counts /\ rows' = rows /\ now' >= now
  /\ \A c \in Calls : \A ss \in {Held, {"settled"}} : (status'[c] \in ss) = (status[c] \in ss)
  /\ \A c \in Calls : status[c] = "settled" => charge'[c] = charge[c]

LEMMA CountSteps ==
  ASSUME UsageInv, [Next]_vars
  PROVE  \/ \E c \in Calls : Reserve(c) \/ Returned(c)
         \/ \E k \in Keys : PruneCounter(k)
         \/ CountsKept
<1>0. UsageTypeOK /\ now \in Nat
  BY DEF UsageInv, UsageTypeOK
<1>1. ASSUME NEW c \in Calls, NEW s \in Closed \cup {"unknown"}, NEW n \in Nat, Write(c, s, n),
             UNCHANGED <<now, policy, rows>>, s = "released" => n = 0
      PROVE  Returned(c) \/ CountsKept
  <2>1. CASE UNCHANGED <<status, charge, counts>>
    BY <1>0, <1>1, <2>1 DEF CountsKept
  <2>2. CASE /\ status[c] = "reserved" /\ status' = [status EXCEPT ![c] = s]
             /\ charge' = [charge EXCEPT ![c] = IF s = "settled" THEN n ELSE 0]
             /\ IF s = "unknown" THEN UNCHANGED counts
                ELSE GiveBack(KeysOf(c), c, IF s = "settled" THEN 1 ELSE 0, n)
    <3>1. CASE s = "unknown"
      BY <1>0, <1>1, <2>2, <3>1 DEF CountsKept, Held, UsageTypeOK
    <3>2. CASE s # "unknown"
      BY <1>1, <2>2, <3>2 DEF Returned, Held
    <3> QED
      BY <3>1, <3>2
  <2> QED
    BY <1>1, <2>1, <2>2, WriteEffect
<1>2. ASSUME NEW c \in Calls, Finish(c) PROVE Returned(c) \/ CountsKept
  <2>1. /\ outcome[c].status \in Closed \cup {"unknown"} /\ outcome[c].tokens \in Nat
        /\ outcome[c].status = "released" => outcome[c].tokens = 0
    BY <1>0 DEF Outcomes, UsageTypeOK, UsageInv, ReleasedIsFree
  <2>2. CASE Write(c, outcome[c].status, outcome[c].tokens)
    BY <1>1, <1>2, <2>1, <2>2 DEF Finish
  <2>3. CASE UNCHANGED <<counts, status, age, charge, observed>>
    BY <1>0, <1>2, <2>3 DEF Finish, CountsKept
  <2> QED
    BY <1>2, <2>2, <2>3 DEF Finish
<1>3. ASSUME NEW c \in Calls, Reconcile(c) PROVE Returned(c) \/ CountsKept
  <2>1. StaleOutcome(c) \in Closed \cup {"unknown"}
    BY DEF StaleOutcome, Closed
  <2> QED
    BY <1>1, <1>3, <2>1 DEF Reconcile
<1>4. ASSUME NEW c \in Calls, ResolveUnknown(c) PROVE Returned(c)
  <2>1. status[c] \in Held
    BY <1>4 DEF ResolveUnknown, Resolvable, Held
  <2>2. GiveBack(KeysOf(c), c, 1, 0) /\ status' = [status EXCEPT ![c] = "settled"]
    BY <1>4, <2>1, HeldRows DEF ResolveUnknown
  <2>3. GiveBack(KeysOf(c), c, IF "settled" = "settled" THEN 1 ELSE 0, 0)
    BY <2>2
  <2>4. charge' = [charge EXCEPT ![c] = IF "settled" = "settled" THEN 0 ELSE 0]
    BY <1>4 DEF ResolveUnknown
  <2> QED
    BY <1>4, <2>1, <2>2, <2>3, <2>4 DEF Returned, ResolveUnknown, Closed
<1>5. ASSUME NEW c \in Calls,
             \/ MarkDispatched(c) \/ Answer(c) \/ HourPasses(c) \/ DayPasses(c)
             \/ PruneReservation(c)
      PROVE  CountsKept
  BY <1>0, <1>5 DEF CountsKept, MarkDispatched, Answer, HourPasses, DayPasses,
    PruneReservation, reservations, history
<1>6. ASSUME \/ \E p \in Policies : SetPolicy(p)
             \/ DateChanges \/ Crash \/ UNCHANGED vars
      PROVE  CountsKept
  <2>1. CASE DateChanges
    <3>1. now' >= now
      BY <1>0, <2>1 DEF DateChanges, UsageTypeOK
    <3> QED
      BY <2>1, <3>1 DEF CountsKept, DateChanges, reservations, history
  <2>2. CASE \E p \in Policies : SetPolicy(p)
    BY <1>0, <2>2 DEF CountsKept, SetPolicy, reservations, history
  <2>3. CASE Crash \/ UNCHANGED vars
    BY <1>0, <2>3 DEF CountsKept, Crash, vars, reservations, history
  <2> QED
    BY <1>6, <2>1, <2>2, <2>3
<1> QED
  BY <1>2, <1>3, <1>4, <1>5, <1>6 DEF Next

LEMMA CountersStep == ASSUME UsageInv, [Next]_vars PROVE CountersInv'
<1>0. UsageTypeOK /\ CountersInv /\ CallInv /\ now \in Nat
  BY DEF UsageInv, UsageTypeOK
<1>1. ASSUME NEW c \in Calls, Reserve(c) PROVE CountersInv'
  <2>1. now' = now /\ usedRequests' = usedRequests
    BY <1>1 DEF Reserve
  <2>2. \A k \in counters' : k \in Keys /\ end'[k] > k[2]
    <3> SUFFICES ASSUME NEW k \in counters' PROVE k \in Keys /\ end'[k] > k[2]
      OBVIOUS
    <3>1. k \in Keys
      BY <1>0, <1>1, ReserveRows DEF UsageTypeOK
    <3>2. CASE k \in counters
      BY <1>0, <1>1, <3>1, <3>2, ReserveRows DEF CountersInv
    <3>3. CASE k \notin counters
      BY <1>1, <3>1, <3>3, ReserveRows
    <3> QED
      BY <3>1, <3>2, <3>3
  <2>3. \A k \in Keys \ counters' : usedRequests'[k] = 0 /\ reservedRequests'[k] = 0
    BY <1>0, <1>1, <2>1, ReserveRows DEF CountersInv
  <2>4. ASSUME NEW d \in Calls, NEW k \in KeysOf(d)'
        PROVE  /\ status'[d] \in Held => k \in counters'
               /\ k \notin counters' => k[2] + PeriodRetention < now'
    <3>1. CASE d = c
      BY <1>1, <2>4, <3>1, ReserveRows
    <3>2. CASE d # c
      <4>1. KeysOf(d)' = KeysOf(d) /\ status'[d] = status[d] /\ counters \subseteq counters'
        BY <1>0, <1>1, <3>2, ReserveRows DEF KeysOf, UsageTypeOK
      <4> QED
        BY <1>0, <2>1, <2>4, <4>1 DEF CountersInv
    <3> QED
      BY <3>1, <3>2
  <2> QED
    BY <2>2, <2>3, <2>4 DEF CountersInv
<1>2. ASSUME NEW c \in Calls, Returned(c) PROVE CountersInv'
  <2>1. PICK s \in Closed, n \in Nat :
          /\ status' = [status EXCEPT ![c] = s]
          /\ GiveBack(KeysOf(c), c, IF s = "settled" THEN 1 ELSE 0, n)
    BY <1>2 DEF Returned
  <2>2. (IF s = "settled" THEN 1 ELSE 0) \in {0, 1} /\ status[c] \in Held
    BY <1>2 DEF Returned
  <2>3. /\ counters' = counters /\ end' = end
        /\ \A k \in Keys \ counters : usedRequests'[k] = 0 /\ reservedRequests'[k] = 0
    BY <2>1, <2>2, GiveBackCounters
  <2>4. \A d \in Calls : status'[d] \in Held => status[d] \in Held
    BY <1>0, <2>1, <2>2 DEF UsageTypeOK
  <2> QED
    BY <1>2, <2>3, <2>4, CountersKept DEF Returned
<1>3. ASSUME NEW k \in Keys, PruneCounter(k) PROVE CountersInv'
  <2>1. /\ counters' = counters \ {k} /\ OldCounter(k) /\ k \in counters
        /\ UNCHANGED <<now, end, rows, status>>
        /\ usedRequests' = [usedRequests EXCEPT ![k] = 0]
        /\ reservedRequests' = [reservedRequests EXCEPT ![k] = 0]
    BY <1>3 DEF PruneCounter, reservations
  <2>2. k[2] + PeriodRetention < now
    <3>1. end[k] > k[2] /\ end[k] + PeriodRetention < now
      BY <1>0, <2>1 DEF CountersInv, OldCounter
    <3>2. k[2] \in Nat /\ end[k] \in Nat /\ PeriodRetention \in Nat
      BY <1>0 DEF UsageTypeOK, Keys
    <3> QED
      BY <1>0, <3>1, <3>2
  <2>3. \A c \in Calls : status[c] \in Held => k \notin KeysOf(c)
    <3> SUFFICES ASSUME NEW c \in Calls, status[c] \in Held, k \in KeysOf(c) PROVE FALSE
      OBVIOUS
    <3>1. CallsWith(k, Held) \subseteq Calls /\ c \in CallsWith(k, Held)
      BY DEF CallsWith
    <3>2. Cardinality(CallsWith(k, Held)) = 0
      BY <2>1 DEF OldCounter, UsageInv, RequestsMatch
    <3>3. IsFiniteSet(CallsWith(k, Held))
      BY <3>1, CallsCount
    <3> QED
      BY <3>1, <3>2, <3>3, FS_EmptySet
  <2>4. \A j \in Keys \ counters' : usedRequests'[j] = 0 /\ reservedRequests'[j] = 0
    BY <1>0, <2>1 DEF CountersInv, UsageTypeOK
  <2>5. ASSUME NEW c \in Calls, NEW j \in KeysOf(c)'
        PROVE  /\ status'[c] \in Held => j \in counters'
               /\ j \notin counters' => j[2] + PeriodRetention < now'
    <3>1. j \in KeysOf(c)
      BY <2>1 DEF KeysOf
    <3> QED
      BY <1>0, <2>1, <2>2, <2>3, <3>1 DEF CountersInv
  <2> QED
    BY <1>0, <2>1, <2>4, <2>5 DEF CountersInv
<1>4. CASE CountsKept
  <2>1. UNCHANGED <<counters, end, usedRequests, reservedRequests, rows>> /\ now' >= now
    BY <1>4 DEF CountsKept, counts
  <2>2. \A c \in Calls : KeysOf(c)' = KeysOf(c) /\ (status'[c] \in Held) = (status[c] \in Held)
    BY <1>4, <2>1 DEF CountsKept, KeysOf
  <2>3. \A c \in Calls : \A k \in KeysOf(c) :
          k \notin counters => k[2] + PeriodRetention < now'
    <3>1. now' \in Nat
      BY TypeStep DEF UsageTypeOK
    <3>2. \A c \in Calls : \A k \in KeysOf(c) : k[2] \in Nat
      BY <1>0, KeysOfType DEF Keys
    <3> QED
      BY <1>0, <2>1, <3>1, <3>2 DEF CountersInv
  <2> QED
    BY <1>0, <2>1, <2>2, <2>3 DEF CountersInv
<1> QED
  BY <1>1, <1>2, <1>3, <1>4, CountSteps

LEMMA FreeStep == ASSUME UsageInv, [Next]_vars PROVE ReleasedIsFree'
<1>0. UsageTypeOK /\ ReleasedIsFree
  BY DEF UsageInv
<1>1. CASE outcome' = outcome
  BY <1>0, <1>1 DEF ReleasedIsFree
<1>2. ASSUME NEW c \in Calls, MarkDispatched(c) \/ Finish(c) PROVE ReleasedIsFree'
  <2>1. outcome' = outcome \/ outcome' = [outcome EXCEPT ![c] = Nothing]
    BY <1>2 DEF MarkDispatched, Finish
  <2> QED
    BY <1>0, <2>1 DEF ReleasedIsFree, Nothing, UsageTypeOK
<1>3. ASSUME NEW c \in Calls, Answer(c) PROVE ReleasedIsFree'
  BY <1>0, <1>3 DEF Answer, OutcomesOf, ReleasedIsFree, UsageTypeOK
<1>4. CASE Crash
  BY <1>4 DEF Crash, ReleasedIsFree, Nothing
<1> QED
  BY <1>1, <1>2, <1>3, <1>4 DEF Next, Reserve, HourPasses, DayPasses, Reconcile, ResolveUnknown,
     PruneReservation, PruneCounter, SetPolicy, DateChanges, task, vars

LEMMA MatchStep == ASSUME UsageInv, [Next]_vars PROVE RequestsMatch'
<1>1. ASSUME NEW c \in Calls, Returned(c) PROVE RequestsMatch'
  <2>1. PICK s \in Closed, n \in Nat :
          /\ status' = [status EXCEPT ![c] = s]
          /\ GiveBack(KeysOf(c), c, IF s = "settled" THEN 1 ELSE 0, n)
    BY <1>1 DEF Returned
  <2> QED
    BY <1>1, <2>1, GiveBackMatch DEF Returned
<1>2. ASSUME NEW k \in Keys, PruneCounter(k) PROVE RequestsMatch'
  BY <1>2 DEF PruneCounter, reservations, RequestsMatch, CallsWith, KeysOf, UsageInv, UsageTypeOK
<1>3. CASE CountsKept
  <2>1. \A k : /\ CallsWith(k, Held)' = CallsWith(k, Held)
               /\ CallsWith(k, {"settled"})' = CallsWith(k, {"settled"})
    BY <1>3 DEF CountsKept, CallsWith, KeysOf
  <2> QED
    BY <1>3, <2>1 DEF CountsKept, counts, RequestsMatch, UsageInv
<1> QED
  BY <1>1, <1>2, <1>3, CountSteps, ReserveMatch

-----------------------------------------------------------------------------
(* The invariant and what it gives *)

LEMMA InitInv == ASSUME Init PROVE UsageInv
<1> USE DEF Init
<1>1. UsageTypeOK
  BY DEF UsageTypeOK, Places, Outcomes, Nothing, Closed
<1>2. \A c \in Calls : KeysOf(c) = {} /\ status[c] = "none"
  BY DEF KeysOf
<1>3. CountersInv /\ RequestsMatch
  BY <1>2 DEF CountersInv, RequestsMatch
<1>4. CallInv /\ SentInv /\ ObservedInv /\ ReleasedIsFree
  BY DEF CallInv, SentInv, ObservedInv, ReleasedIsFree, Nothing, Held, Closed
<1> QED
  BY <1>1, <1>3, <1>4 DEF UsageInv

LEMMA UsageInvariant == Spec => []UsageInv
<1>1. ASSUME UsageInv, [Next]_vars PROVE UsageInv'
  BY <1>1, TypeStep, CountersStep, TaskStep, FreeStep, MatchStep DEF UsageInv, TaskInv
<1> QED
  BY <1>1, InitInv, PTL DEF Spec

\* The variables keep their types.
THEOREM UsageTypeCorrect == Spec => []UsageTypeOK
<1>1. UsageInv => UsageTypeOK
  BY DEF UsageInv
<1> QED
  BY <1>1, UsageInvariant, PTL

\* Every counter's requests are those of its held and its settled reservations.
THEOREM RequestsCorrect == Spec => []RequestsMatch
<1>1. UsageInv => RequestsMatch
  BY DEF UsageInv
<1> QED
  BY <1>1, UsageInvariant, PTL

\* A call that was sent under a policy is never released.
THEOREM SentCorrect == Spec => []SentIsCounted
<1>1. UsageInv => SentIsCounted
  BY DEF UsageInv, SentInv, SentIsCounted
<1> QED
  BY <1>1, UsageInvariant, PTL

\* A call enters the monthly totals once if it is settled, and never twice.
THEOREM ObservedCorrect == Spec => []ObservedOnce
<1>1. UsageInv => ObservedOnce
  BY DEF UsageInv, ObservedInv, ObservedOnce
<1> QED
  BY <1>1, UsageInvariant, PTL

\* A call that was sent counts, and counts once.
THEOREM CountedCorrect == Spec => []CountedOnce
<1>1. SentIsCounted /\ ObservedOnce => CountedOnce
  BY DEF CountedOnce
<1> QED
  BY <1>1, SentCorrect, ObservedCorrect, PTL

\* Every held reservation has the counter rows it is to be given back to.
HeldHasCounters == \A c \in Calls : status[c] \in Held =>
  \A k \in KeysOf(c) : k \in counters /\ reservedRequests[k] >= 1
THEOREM HeldCorrect == Spec => []HeldHasCounters
<1>1. UsageInv => HeldHasCounters
  <2> SUFFICES ASSUME UsageInv, NEW c \in Calls, status[c] \in Held, NEW k \in KeysOf(c)
               PROVE  k \in counters /\ reservedRequests[k] >= 1
    BY DEF HeldHasCounters
  <2>1. k \in counters
    BY DEF UsageInv, CountersInv
  <2>2. CallsWith(k, Held) \subseteq Calls /\ c \in CallsWith(k, Held)
    BY DEF CallsWith
  <2>3. IsFiniteSet(CallsWith(k, Held)) /\ Cardinality(CallsWith(k, Held)) \in Nat
    BY <2>2, CallsCount
  <2>4. Cardinality(CallsWith(k, Held)) # 0
    BY <2>2, <2>3, FS_EmptySet
  <2>5. reservedRequests[k] = Cardinality(CallsWith(k, Held))
    BY <2>1 DEF UsageInv, RequestsMatch
  <2> QED
    BY <2>1, <2>3, <2>4, <2>5
<1> QED
  BY <1>1, UsageInvariant, PTL

\* What a period has used and promised grows only within the limit in force.
THEOREM GrowsCorrect == Spec => GrowsWithinLimit
<1> DEFINE Grows == \A k \in Keys :
       usedRequests'[k] + reservedRequests'[k] > usedRequests[k] + reservedRequests[k] =>
         usedRequests'[k] + reservedRequests'[k] <= policy[k[1]].requests
<1>1. ASSUME UsageInv, [Next]_vars PROVE Grows
  <2>0. \A k \in Keys : usedRequests[k] \in Nat /\ reservedRequests[k] \in Nat
    BY <1>1 DEF UsageInv, UsageTypeOK
  <2>1. ASSUME NEW c \in Calls, Reserve(c) PROVE Grows
    <3>1. usedRequests' = usedRequests
      BY <2>1 DEF Reserve
    <3>2. \A k \in Keys :
            \/ /\ reservedRequests'[k] = reservedRequests[k] + 1
               /\ usedRequests[k] + reservedRequests[k] + 1 <= policy[k[1]].requests
            \/ reservedRequests'[k] = reservedRequests[k]
      BY <1>1, <2>1, ReserveRows DEF Admits
    <3>3. ASSUME NEW k \in Keys
          PROVE usedRequests[k] + (reservedRequests[k] + 1) = usedRequests[k] + reservedRequests[k] + 1
      BY <2>0, <3>3
    <3> QED
      BY <2>0, <3>1, <3>2, <3>3
  <2>2. ASSUME NEW c \in Calls, Returned(c) PROVE Grows
    <3>1. PICK s \in Closed, n \in Nat :
            GiveBack(KeysOf(c), c, IF s = "settled" THEN 1 ELSE 0, n)
      BY <2>2 DEF Returned
    <3> DEFINE u == IF s = "settled" THEN 1 ELSE 0
    <3>2. u \in {0, 1} /\ status[c] \in Held /\ GiveBack(KeysOf(c), c, u, n)
      BY <2>2, <3>1 DEF Returned
    <3> HIDE DEF u
    <3>3. \A k \in Keys :
            \/ usedRequests'[k] = usedRequests[k] /\ reservedRequests'[k] = reservedRequests[k]
            \/ /\ usedRequests'[k] = usedRequests[k] + u
               /\ reservedRequests'[k] = reservedRequests[k] - 1
      BY <1>1, <3>2, GiveBackCounters
    <3> QED
      BY <2>0, <3>2, <3>3
  <2>3. ASSUME NEW k \in Keys, PruneCounter(k) PROVE Grows
    <3>1. \A j \in Keys :
            \/ usedRequests'[j] = 0 /\ reservedRequests'[j] = 0
            \/ usedRequests'[j] = usedRequests[j] /\ reservedRequests'[j] = reservedRequests[j]
      BY <1>1, <2>3 DEF PruneCounter, UsageInv, UsageTypeOK
    <3> QED
      BY <2>0, <3>1
  <2>4. CASE CountsKept
    BY <2>0, <2>4 DEF CountsKept, counts
  <2> QED
    BY <1>1, <2>1, <2>2, <2>3, <2>4, CountSteps
<1>2. UsageInv /\ [Next]_vars => [Grows]_vars
  BY <1>1
<1> QED
  BY <1>2, UsageInvariant, PTL DEF Spec, GrowsWithinLimit

\* What a period has used is not forgotten while any of the policy's windows lasts.
THEOREM KeptCorrect == Spec => CurrentUsageKept
<1> USE DEF UsageKept
<1>1. ASSUME UsageInv, [Next]_vars PROVE UsageKept
  <2>0. /\ counters \subseteq Keys
        /\ \A k \in Keys : usedRequests[k] \in Nat /\ usedTokens[k] \in Nat
    BY <1>1 DEF UsageInv, UsageTypeOK
  <2>1. ASSUME NEW c \in Calls, Reserve(c) PROVE UsageKept
    BY <2>0, <2>1 DEF Reserve
  <2>2. ASSUME NEW c \in Calls, Returned(c) PROVE UsageKept
    <3>1. PICK s \in Closed, n \in Nat :
            GiveBack(KeysOf(c), c, IF s = "settled" THEN 1 ELSE 0, n)
      BY <2>2 DEF Returned
    <3> DEFINE u == IF s = "settled" THEN 1 ELSE 0
    <3>2. u \in {0, 1} /\ status[c] \in Held /\ GiveBack(KeysOf(c), c, u, n)
      BY <2>2, <3>1 DEF Returned
    <3> HIDE DEF u
    <3>3. /\ counters' = counters
          /\ \A k \in Keys : usedRequests'[k] = usedRequests[k] \/ usedRequests'[k] = usedRequests[k] + u
          /\ \A k \in Keys : usedTokens'[k] >= usedTokens[k]
      BY <1>1, <3>2, GiveBackCounters
    <3> QED
      BY <2>0, <3>2, <3>3
  <2>3. ASSUME NEW j \in Keys, PruneCounter(j) PROVE UsageKept
    <3>1. /\ counters' = counters \ {j} /\ ~CurrentKey(j)
      BY <1>1, <2>3, OldNotCurrent DEF PruneCounter, UsageInv
    <3>2. \A k \in Keys : k # j => usedRequests'[k] = usedRequests[k] /\ usedTokens'[k] = usedTokens[k]
      BY <1>1, <2>3 DEF PruneCounter, UsageInv, UsageTypeOK
    <3> HIDE DEF CurrentKey
    <3> QED
      BY <2>0, <3>1, <3>2
  <2>4. CASE CountsKept
    BY <2>0, <2>4 DEF CountsKept, counts
  <2> QED
    BY <1>1, <2>1, <2>2, <2>3, <2>4, CountSteps
<1>2. UsageInv /\ [Next]_vars => [UsageKept]_vars
  BY <1>1
<1> HIDE DEF UsageKept
<1> QED
  BY <1>2, UsageInvariant, PTL DEF Spec, CurrentUsageKept

\* A period's use is kept while it counts and grows only within the limit.
THEOREM PolicyCorrect == Spec => WithinPolicy
  BY GrowsCorrect, KeptCorrect DEF WithinPolicy

-----------------------------------------------------------------------------
(* The tokens of the counters, on top of what is known of their requests      *)

TokensGone == \A k \in Keys \ counters : usedTokens[k] = 0 /\ reservedTokens[k] = 0
TokensInv == TokensMatch /\ TokensGone

\* Adding a call to a set of calls, or taking one away, changes their sum by its value.
LEMMA CallsSum ==
  ASSUME NEW f \in [Calls -> Nat], NEW S \in SUBSET Calls, NEW c \in Calls
  PROVE  /\ IsFiniteSet(S) /\ SumFunctionOnSet(f, S) \in Nat
         /\ c \notin S => SumFunctionOnSet(f, S \cup {c}) = SumFunctionOnSet(f, S) + f[c]
         /\ c \in S => SumFunctionOnSet(f, S \ {c}) = SumFunctionOnSet(f, S) - f[c]
<1>1. IsFiniteSet(S) /\ \A d \in S : f[d] \in Nat
  BY FS_Subset
<1>2. SumFunctionOnSet(f, S) \in Nat
  BY <1>1, SumNat
<1>3. c \notin S => SumFunctionOnSet(f, S \cup {c}) = SumFunctionOnSet(f, S) + f[c]
  <2>1. \A d \in S \cup {c} : f[d] \in Nat
    OBVIOUS
  <2> QED
    BY <1>1, <2>1, SumAdd
<1>4. c \in S => SumFunctionOnSet(f, S \ {c}) = SumFunctionOnSet(f, S) - f[c]
  <2> SUFFICES ASSUME c \in S
               PROVE  SumFunctionOnSet(f, S \ {c}) = SumFunctionOnSet(f, S) - f[c]
    OBVIOUS
  <2>1. SumFunctionOnSet(f, S) = f[c] + SumFunctionOnSet(f, S \ {c})
    BY <1>1, SumTake
  <2>2. IsFiniteSet(S \ {c}) /\ \A d \in S \ {c} : f[d] \in Nat
    BY <1>1, FS_Subset
  <2>3. SumFunctionOnSet(f, S \ {c}) \in Nat /\ f[c] \in Nat
    BY <2>2, SumNat
  <2> QED
    BY <2>1, <2>3
<1> QED
  BY <1>1, <1>2, <1>3, <1>4

\* Two functions that agree on a set of calls have the same sum over it.
LEMMA CallsSameSum ==
  ASSUME NEW f \in [Calls -> Nat], NEW g, NEW S \in SUBSET Calls, \A d \in S : f[d] = g[d]
  PROVE  SumFunctionOnSet(f, S) = SumFunctionOnSet(g, S)
<1>1. IsFiniteSet(S) /\ \A d \in S : f[d] \in Nat /\ f[d] = g[d]
  BY FS_Subset
<1> QED
  BY <1>1, SumSame

\* Giving a held call back moves its tokens: those it reserved are no longer
\* reserved, those it was charged are used.
LEMMA GiveBackTokens ==
  ASSUME UsageInv, TokensInv, NEW c \in Calls, Returned(c)
  PROVE  TokensInv'
<1>0. UsageTypeOK /\ TokensOf \in [Calls -> Nat] /\ charge \in [Calls -> Nat]
  BY DEF UsageInv, UsageTypeOK
<1>1. PICK s \in Closed, n \in Nat :
        /\ status' = [status EXCEPT ![c] = s] /\ (s = "released" => n = 0)
        /\ charge' = [charge EXCEPT ![c] = IF s = "settled" THEN n ELSE 0]
        /\ GiveBack(KeysOf(c), c, IF s = "settled" THEN 1 ELSE 0, n)
  BY DEF Returned
<1>2. /\ counters' = counters /\ rows' = rows /\ status[c] \in Held
      /\ KeysOf(c) \subseteq counters /\ counters \subseteq Keys
  BY <1>0, <1>1, HeldRows DEF Returned, GiveBack, UsageTypeOK
<1>3. ASSUME NEW k \in Keys
      PROVE  /\ reservedTokens'[k] = reservedTokens[k] - IF k \in KeysOf(c) THEN TokensOf[c] ELSE 0
             /\ usedTokens'[k] = usedTokens[k] + IF k \in KeysOf(c) THEN n ELSE 0
             /\ reservedTokens[k] \in Nat /\ usedTokens[k] \in Nat
  BY <1>0, <1>1 DEF GiveBack, UsageTypeOK
<1>4. ASSUME NEW k \in Keys \ counters'
      PROVE  usedTokens'[k] = 0 /\ reservedTokens'[k] = 0
  BY <1>2, <1>3 DEF TokensInv, TokensGone
<1>5. ASSUME NEW k \in counters'
      PROVE  /\ reservedTokens'[k] = SumFunctionOnSet(TokensOf, CallsWith(k, Held)')
             /\ usedTokens'[k] = SumFunctionOnSet(charge', CallsWith(k, {"settled"})')
  <2>0. k \in counters /\ k \in Keys
    BY <1>2
  <2>1. /\ reservedTokens[k] = SumFunctionOnSet(TokensOf, CallsWith(k, Held))
        /\ usedTokens[k] = SumFunctionOnSet(charge, CallsWith(k, {"settled"}))
    BY <2>0 DEF TokensInv, TokensMatch
  <2> DEFINE H == CallsWith(k, Held)
             U == CallsWith(k, {"settled"})
  <2>2. H \in SUBSET Calls /\ U \in SUBSET Calls
    BY DEF CallsWith
  <2>3. c \notin U
    BY <1>2 DEF CallsWith, Held
  <2>4. SumFunctionOnSet(charge, U) = SumFunctionOnSet(charge', U)
    <3>1. \A d \in U : charge[d] = charge'[d]
      BY <1>0, <1>1, <2>2, <2>3
    <3> QED
      BY <1>0, <2>2, <3>1, CallsSameSum
  <2>5. charge' \in [Calls -> Nat] /\ charge'[c] = IF s = "settled" THEN n ELSE 0
    BY <1>0, <1>1
  <2>6. CASE k \in KeysOf(c)
    <3>1. /\ c \in H
          /\ CallsWith(k, Held)' = H \ {c}
          /\ CallsWith(k, {"settled"})' = IF s = "settled" THEN U \cup {c} ELSE U
      BY <1>0, <1>1, <1>2, <2>6 DEF CallsWith, KeysOf, Held, Closed, UsageTypeOK
    <3>2. SumFunctionOnSet(TokensOf, H \ {c}) = SumFunctionOnSet(TokensOf, H) - TokensOf[c]
      BY <1>0, <2>2, <3>1, CallsSum
    <3>3. SumFunctionOnSet(charge', U \cup {c}) = SumFunctionOnSet(charge', U) + charge'[c]
      BY <2>2, <2>3, <2>5, CallsSum
    <3>4. /\ reservedTokens'[k] = reservedTokens[k] - TokensOf[c]
          /\ usedTokens'[k] = usedTokens[k] + n
      BY <1>3, <2>0, <2>6
    <3>5. reservedTokens'[k] = SumFunctionOnSet(TokensOf, CallsWith(k, Held)')
      BY <2>1, <3>1, <3>2, <3>4
    <3>6. CASE s = "settled"
      <4>1. usedTokens'[k] = SumFunctionOnSet(charge', U) + n
        BY <2>1, <2>4, <3>4
      <4>2. charge'[c] = n /\ CallsWith(k, {"settled"})' = U \cup {c}
        BY <2>5, <3>1, <3>6
      <4> QED
        BY <3>3, <3>5, <4>1, <4>2
    <3>7. CASE s # "settled"
      <4>1. n = 0 /\ CallsWith(k, {"settled"})' = U
        BY <1>1, <3>1, <3>7 DEF Closed
      <4>2. usedTokens'[k] = usedTokens[k]
        BY <1>3, <2>0, <3>4, <4>1
      <4> QED
        BY <2>1, <2>4, <3>5, <4>1, <4>2
    <3> QED
      BY <3>6, <3>7
  <2>7. CASE k \notin KeysOf(c)
    <3>1. CallsWith(k, Held)' = H /\ CallsWith(k, {"settled"})' = U
      BY <1>0, <1>1, <1>2, <2>7 DEF CallsWith, KeysOf, UsageTypeOK
    <3>2. reservedTokens'[k] = reservedTokens[k] /\ usedTokens'[k] = usedTokens[k]
      BY <1>3, <2>0, <2>7
    <3> QED
      BY <2>1, <2>4, <3>1, <3>2
  <2> QED
    BY <2>6, <2>7
<1> QED
  BY <1>4, <1>5 DEF TokensInv, TokensGone, TokensMatch, Keys

\* An admission reserves its tokens with each policy that admitted it.
LEMMA ReserveTokens ==
  ASSUME UsageInv, TokensInv, NEW c \in Calls, Reserve(c)
  PROVE  TokensInv'
<1>0. UsageTypeOK /\ TokensOf \in [Calls -> Nat]
  BY DEF UsageInv, UsageTypeOK
<1> DEFINE new == {RowFor(p) : p \in EffectivePolicies(c)}
           keys == {KeyOf(r) : r \in new}
<1>1. /\ reservedTokens' = [k \in Keys |-> reservedTokens[k] + IF k \in keys THEN TokensOf[c] ELSE 0]
      /\ rows' = [rows EXCEPT ![c] = new] /\ UNCHANGED <<usedTokens, charge>>
  BY DEF Reserve, history
<1>2. KeysOf(c)' = keys /\ counters' = counters \cup keys /\ keys \subseteq Keys
  <2>1. KeysOf(c)' = keys
    BY <1>0, <1>1 DEF KeysOf, KeyOf, UsageTypeOK
  <2> QED
    BY <2>1, ReserveRows
<1> HIDE DEF keys, new
<1>3. ASSUME NEW k \in Keys
      PROVE  /\ reservedTokens'[k] = reservedTokens[k] + IF k \in keys THEN TokensOf[c] ELSE 0
             /\ usedTokens'[k] = usedTokens[k]
             /\ reservedTokens[k] \in Nat /\ usedTokens[k] \in Nat
  BY <1>0, <1>1 DEF UsageTypeOK
<1>4. status[c] = "none" /\ rows[c] = {}
  BY DEF Reserve, UsageInv, CallInv
<1>5. ASSUME NEW k \in Keys \ counters'
      PROVE  usedTokens'[k] = 0 /\ reservedTokens'[k] = 0
  BY <1>2, <1>3 DEF TokensInv, TokensGone
<1>6. ASSUME NEW k \in counters'
      PROVE  /\ reservedTokens'[k] = SumFunctionOnSet(TokensOf, CallsWith(k, Held)')
             /\ usedTokens'[k] = SumFunctionOnSet(charge', CallsWith(k, {"settled"})')
  <2>0. k \in Keys
    BY <1>0, <1>2 DEF UsageTypeOK
  <2>1. /\ reservedTokens[k] = SumFunctionOnSet(TokensOf, CallsWith(k, Held))
        /\ usedTokens[k] = SumFunctionOnSet(charge, CallsWith(k, {"settled"}))
    <3>1. CASE k \in counters
      BY <3>1 DEF TokensInv, TokensMatch
    <3>2. CASE k \notin counters
      <4>1. CallsWith(k, Held) = {} /\ CallsWith(k, {"settled"}) = {}
        BY <1>2, <2>0, <3>2, NewCounterUnused
      <4>2. reservedTokens[k] = 0 /\ usedTokens[k] = 0
        BY <2>0, <3>2 DEF TokensInv, TokensGone
      <4> QED
        BY <4>1, <4>2, SumEmpty
    <3> QED
      BY <3>1, <3>2
  <2>2. CallsWith(k, {"settled"})' = CallsWith(k, {"settled"})
    BY <1>0, <1>4, ReserveRows DEF CallsWith, KeysOf, UsageTypeOK
  <2>3. CallsWith(k, Held) \in SUBSET Calls
    BY DEF CallsWith
  <2>4. CASE k \in keys
    <3>1. status'[c] = "reserved"
      BY <1>2, <2>4, ReserveRows DEF KeysOf
    <3>2. c \notin CallsWith(k, Held) /\ CallsWith(k, Held)' = CallsWith(k, Held) \cup {c}
      BY <1>0, <1>2, <1>4, <2>4, <3>1, ReserveRows DEF CallsWith, KeysOf, Held, UsageTypeOK
    <3>3. SumFunctionOnSet(TokensOf, CallsWith(k, Held)')
            = SumFunctionOnSet(TokensOf, CallsWith(k, Held)) + TokensOf[c]
      BY <1>0, <2>3, <3>2, CallsSum
    <3> QED
      BY <1>1, <1>3, <2>0, <2>1, <2>2, <2>4, <3>3
  <2>5. CASE k \notin keys
    <3>1. CallsWith(k, Held)' = CallsWith(k, Held)
      BY <1>0, <1>2, <1>4, <2>5, ReserveRows DEF CallsWith, KeysOf, Held, UsageTypeOK
    <3>2. reservedTokens'[k] = reservedTokens[k]
      BY <1>3, <2>0, <2>5
    <3> QED
      BY <1>1, <2>1, <2>2, <3>1, <3>2
  <2> QED
    BY <2>4, <2>5
<1> QED
  BY <1>5, <1>6 DEF TokensInv, TokensGone, TokensMatch, Keys

LEMMA TokensStep == ASSUME UsageInv, TokensInv, [Next]_vars PROVE TokensInv'
<1>0. UsageTypeOK
  BY DEF UsageInv
<1>1. ASSUME NEW k \in Keys, PruneCounter(k) PROVE TokensInv'
  <2>1. /\ counters' = counters \ {k}
        /\ usedTokens' = [usedTokens EXCEPT ![k] = 0]
        /\ reservedTokens' = [reservedTokens EXCEPT ![k] = 0]
        /\ UNCHANGED <<rows, status, charge>>
    BY <1>1 DEF PruneCounter, reservations, history
  <2>2. TokensGone'
    BY <1>0, <2>1 DEF TokensInv, TokensGone, UsageTypeOK, Keys
  <2>3. \A j, ss : CallsWith(j, ss)' = CallsWith(j, ss)
    BY <2>1 DEF CallsWith, KeysOf
  <2>4. TokensMatch'
    BY <1>0, <2>1, <2>3 DEF TokensInv, TokensMatch, UsageTypeOK
  <2> QED
    BY <2>2, <2>4 DEF TokensInv
<1>2. CASE CountsKept
  <2>1. UNCHANGED <<counters, usedTokens, reservedTokens>>
    BY <1>2 DEF CountsKept, counts
  <2>2. \A k : /\ CallsWith(k, Held)' = CallsWith(k, Held)
               /\ CallsWith(k, {"settled"})' = CallsWith(k, {"settled"})
    BY <1>2 DEF CountsKept, CallsWith, KeysOf
  <2>3. \A k : SumFunctionOnSet(charge, CallsWith(k, {"settled"}))
                 = SumFunctionOnSet(charge', CallsWith(k, {"settled"}))
    <3> SUFFICES ASSUME NEW k
                 PROVE  SumFunctionOnSet(charge, CallsWith(k, {"settled"}))
                          = SumFunctionOnSet(charge', CallsWith(k, {"settled"}))
      OBVIOUS
    <3>1. /\ CallsWith(k, {"settled"}) \in SUBSET Calls
          /\ \A d \in CallsWith(k, {"settled"}) : charge[d] = charge'[d]
      BY <1>2 DEF CountsKept, CallsWith
    <3> QED
      BY <1>0, <3>1, CallsSameSum DEF UsageTypeOK
  <2>4. TokensMatch'
    BY <2>1, <2>2, <2>3 DEF TokensInv, TokensMatch
  <2> QED
    BY <2>1, <2>4 DEF TokensInv, TokensGone, Keys
<1> QED
  BY <1>1, <1>2, CountSteps, ReserveTokens, GiveBackTokens

LEMMA TokensInit == ASSUME Init PROVE TokensInv
BY DEF Init, TokensInv, TokensMatch, TokensGone

\* What a held call reserved is part of what its counters hold.
LEMMA HeldHasRoom ==
  ASSUME UsageInv, TokensInv, NEW c \in Calls, status[c] \in Held
  PROVE  Covered(c)
<1>1. ASSUME NEW r \in Stored(c)
      PROVE  /\ KeyOf(r) \in counters
             /\ reservedRequests[KeyOf(r)] >= 1 /\ reservedTokens[KeyOf(r)] >= TokensOf[c]
  <2> DEFINE k == KeyOf(r)
             H == CallsWith(k, Held)
  <2>1. k \in counters /\ k \in KeysOf(c)
    BY HeldRows DEF KeysOf
  <2>2. H \in SUBSET Calls /\ c \in H
    BY <2>1 DEF CallsWith
  <2>3. IsFiniteSet(H) /\ Cardinality(H) \in Nat /\ Cardinality(H) # 0
    BY <2>2, CallsCount, FS_EmptySet
  <2>4. reservedRequests[k] = Cardinality(H)
    BY <2>1 DEF UsageInv, RequestsMatch
  <2>5. SumFunctionOnSet(TokensOf, H) = TokensOf[c] + SumFunctionOnSet(TokensOf, H \ {c})
    BY <2>2, <2>3, SumTake
  <2>6. SumFunctionOnSet(TokensOf, H \ {c}) \in Nat /\ TokensOf[c] \in Nat
    <3>1. H \ {c} \in SUBSET Calls /\ TokensOf \in [Calls -> Nat]
      BY <2>2
    <3> QED
      BY <3>1, CallsSum
  <2>7. reservedTokens[k] = SumFunctionOnSet(TokensOf, H)
    BY <2>1 DEF TokensInv, TokensMatch
  <2> QED
    BY <2>1, <2>3, <2>4, <2>5, <2>6, <2>7
<1> QED
  BY <1>1 DEF Covered

LEMMA TokensInvariant == Spec => [](UsageInv /\ TokensInv)
<1>1. UsageInv /\ TokensInv /\ [Next]_vars => TokensInv'
  BY TokensStep
<1>2. Init => TokensInv
  BY TokensInit
<1> QED
  BY <1>1, <1>2, UsageInvariant, PTL DEF Spec

\* A counter's tokens are those of its held and its settled calls, and every held call
\* can be given back: no settlement is refused as inconsistent with its counter.
THEOREM TokensCorrect == Spec => []TokensCovered
<1>1. UsageInv /\ TokensInv => TokensCovered
  BY HeldHasRoom DEF TokensInv, TokensCovered, HeldIsCovered
<1> QED
  BY <1>1, TokensInvariant, PTL

=============================================================================
