-------------------------- MODULE LiveStreamProofs --------------------------
(* Theorems about LiveStream, for every set of observations, every bound of   *)
(* queue, window, expiry list and retries, and any number of restarts.        *)
EXTENDS LiveStream, FiniteSetTheorems, WellFoundedInduction, TLAPS

\* m is the last message of W that tells the tab something about i.
Latest(m, W, i) == Touches(m, i) /\ \A n \in W : Touches(n, i) => n.seq <= m.seq
\* m sends i's version v, or has the tab load it.
Tells(m, i, v) == m.kind \in {"hint", "gap"} \/ m.now[i] = v
Right(W, i, v) == \A m \in W : Latest(m, W, i) => Tells(m, i, v)
Quiet(W, i) == \A m \in W : ~Touches(m, i)

\* The feeds have still to announce what they did to i.
Unannounced(i) == (i \in changed /\ store[i] # 0) \/ i \in gone \/ overflow
\* The tab needs no message about i.
Has(i) == Unannounced(i) \/ i \in lost \/ TabHas(i)

\* What the session will have passed once the message in hand is sent.
Beyond(m) == m.seq > position /\ m.seq > start /\ \A h \in hand : h.seq < m.seq
FloorPassed == floor <= position \/ floor <= start \/ \E h \in hand : floor <= h.seq
\* The messages under way; those a gap stands for are still in the window.
UnderWay ==
  hand \cup replay \cup queue \cup (IF gap THEN {m \in window : Beyond(m)} ELSE {})
After(p) == {m \in window : m.seq > p}

Distinct(W) == \A m, n \in W : m.seq = n.seq => m = n
Live(m) == m.kind \in LiveKinds

-----------------------------------------------------------------------------
(* The inductive invariant. *)

GoneIsGone == \A i \in gone : store[i] = 0

Epochs ==
  /\ epoch >= 1 /\ last.epoch <= epoch
  /\ last.epoch = epoch => last.seq <= seq

Numbers ==
  /\ floor <= seq /\ start <= seq /\ position <= seq
  /\ Distinct(window) /\ \A m \in window : floor <= m.seq /\ m.seq <= seq
  /\ Distinct(queue) /\ \A m \in queue : start < m.seq /\ m.seq <= seq
  /\ Distinct(replay) /\ \A m \in replay : m.seq <= start
  /\ \A m, n \in hand : m = n
  /\ \A m \in hand : m.seq <= seq
  /\ hand # {} => stream = "open"

\* The message in hand comes before the others, which the cursor has not passed.
Order ==
  /\ \A h \in hand : (\A m \in replay : h.seq < m.seq) /\ (\A m \in queue : Live(m) => h.seq < m.seq)
  /\ \A m \in replay \cup queue : Live(m) => m.seq > position

\* What a stream has still to send is in the window, unless it has been cut.
Windowed == \A m \in replay \cup queue : Live(m) /\ m.seq > floor => m \in window

Journal ==
  /\ \A i \in Ids : journal[i] # Same => mirror[i] = journal[i]
  /\ load = "none" => journal = NoDelta

WindowRight == \A i \in Ids : Unannounced(i) \/ Right(window, i, store[i])

StreamRight ==
  stream # "closed" /\ (gap => FloorPassed) =>
    \A i \in Ids : Unannounced(i) \/ Right(UnderWay, i, store[i])

StreamQuiet ==
  stream # "closed" /\ (stream = "open" \/ resumed) /\ (gap => FloorPassed) =>
    \A i \in Ids : Quiet(UnderWay, i) => Has(i)

\* The position the session would send is one a new session may resume from.
PositionQuiet ==
  stream # "closed" /\ (stream = "open" \/ resumed) /\ floor <= position =>
    \A i \in Ids : Quiet(After(position), i) => Has(i)

ResumeQuiet == Resumable => \A i \in Ids : Quiet(Missed, i) => Has(i)

Shape == StreamTypeOK /\ Epochs /\ Numbers /\ Order /\ Windowed
StreamInv ==
  /\ Shape /\ GoneIsGone /\ Journal
  /\ WindowRight /\ StreamRight /\ StreamQuiet /\ PositionQuiet /\ ResumeQuiet

-----------------------------------------------------------------------------
(* Least and greatest elements, and the oldest message of a set. *)

LEMMA NatLeast ==
  ASSUME NEW T, T \subseteq Nat, T # {}
  PROVE  \E x \in T : \A y \in T : x <= y
<1> DEFINE R == {ss \in Nat \X Nat : ss[1] < ss[2]}
<1>1. IsWellFoundedOn(R, Nat)
  BY NatLessThanWellFounded DEF OpToRel
<1>2. PICK x \in T : \A y \in T : ~(<<y, x>> \in R)
  <2> HIDE DEF R
  <2> QED
    BY <1>1, WFMin
<1>3. ASSUME NEW y \in T PROVE x <= y
  <2>1. x \in Nat /\ y \in Nat /\ ~(<<y, x>> \in R)
    BY <1>2
  <2> QED
    BY <2>1
<1> QED
  BY <1>3

LEMMA NatGreatest ==
  ASSUME NEW T, NEW b \in Nat, T \subseteq Nat, T # {}, \A x \in T : x <= b
  PROVE  \E x \in T : \A y \in T : y <= x
<1> DEFINE U == {u \in Nat : \A y \in T : y <= u}
<1>1. U \subseteq Nat /\ U # {}
  BY b \in U
<1>2. PICK u \in U : \A v \in U : u <= v
  <2> HIDE DEF U
  <2> QED
    BY <1>1, NatLeast
<1>3. u \in Nat /\ \A y \in T : y <= u
  OBVIOUS
<1>4. u \in T
  <2> SUFFICES ASSUME u \notin T PROVE FALSE
    OBVIOUS
  <2>1. \A y \in T : y \in Nat /\ y < u
    BY <1>3
  <2>4. PICK t \in T : TRUE
    OBVIOUS
  <2>5. u > 0 /\ \A y \in T : y <= u - 1
    BY <2>1, <2>4, <1>3
  <2>3. u # 0 /\ \A y \in T : y <= u - 1
    BY <2>5, <1>3
  <2>2. u - 1 \in U
    BY <2>3, <1>3
  <2> HIDE DEF U
  <2> QED
    BY <2>2, <1>2, <1>3
<1> QED
  BY <1>3, <1>4

LEMMA OldestIsOldest ==
  ASSUME NEW S, S \subseteq Messages, S # {}
  PROVE  Oldest(S) \in S /\ \A n \in S : Oldest(S).seq <= n.seq
<1> DEFINE T == {m.seq : m \in S}
<1>1. T \subseteq Nat /\ T # {}
  BY DEF Messages
<1>2. PICK x \in T : \A y \in T : x <= y
  <2> HIDE DEF T
  <2> QED
    BY <1>1, NatLeast
<1>3. PICK m \in S : x = m.seq
  OBVIOUS
<1>4. \A n \in S : n.seq \in T
  OBVIOUS
<1>5. \E o \in S : \A n \in S : o.seq <= n.seq
  <2> HIDE DEF T
  <2> QED
    BY <1>2, <1>3, <1>4
<1> QED
  BY <1>5 DEF Oldest

\* A message that tells something of some observation is kept for replay.
LEMMA TouchingIsLive ==
  ASSUME NEW m \in Messages, NEW i \in Ids, Touches(m, i)
  PROVE  Live(m) /\ Kept(m)
BY DEF Touches, Live, LiveKinds, Kept, ReplayableKinds

\* The last message of W that touches i exists.
LEMMA LatestExists ==
  ASSUME NEW W, W \subseteq Messages, NEW b \in Nat, \A m \in W : m.seq <= b,
         NEW i \in Ids, ~Quiet(W, i)
  PROVE  \E m \in W : Latest(m, W, i)
<1> DEFINE S == {m \in W : Touches(m, i)}
           T == {m.seq : m \in S}
<1>1. S # {}
  BY DEF Quiet
<1>2. T \subseteq Nat /\ T # {} /\ \A x \in T : x <= b
  BY <1>1 DEF Messages
<1>3. PICK x \in T : \A y \in T : y <= x
  <2> HIDE DEF T
  <2> QED
    BY <1>2, NatGreatest
<1>4. PICK m \in S : x = m.seq
  OBVIOUS
<1>5. \A n \in W : Touches(n, i) => n.seq \in T
  OBVIOUS
<1> HIDE DEF T
<1> QED
  BY <1>3, <1>4, <1>5 DEF Latest

-----------------------------------------------------------------------------
(* Publishing.  A publication is a message about everything its step changed  *)
(* that is announced with it.                                                 *)

\* What a step of the feeds leaves true of i, when it says nothing about i.
Untold(i) == Unannounced(i)' \/ (~Unannounced(i) /\ store'[i] = store[i])
Published(m) ==
  /\ m \in Messages /\ m.seq = seq + 1
  /\ seq' = seq + 1 /\ Record(m) /\ Push(m)
  /\ UNCHANGED <<epoch, stream, replay, resumed, start, position, hand, tabVars>>
  /\ \A i \in Ids : /\ Touches(m, i) => Unannounced(i)' \/ Tells(m, i, store'[i])
                    /\ ~Touches(m, i) => Untold(i)

LEMMA PublishIs ==
  ASSUME NEW kind, NEW now, NEW cats, Publish(kind, now, cats), seq \in Nat,
         kind \in ReplayableKinds \cup {"private"}, now \in Deltas, cats \in Scopes
  PROVE  LET m == [kind |-> kind, seq |-> seq + 1, now |-> now, cats |-> cats] IN
         /\ m \in Messages /\ m.seq = seq + 1 /\ m.kind = kind /\ m.now = now /\ m.cats = cats
         /\ seq' = seq + 1 /\ Record(m) /\ Push(m)
         /\ UNCHANGED <<epoch, stream, replay, resumed, start, position, hand, tabVars>>
BY DEF Publish, Messages

LEMMA SameIsNoVersion == Same \notin Versions /\ 0 \in Versions
BY StreamAssumption DEF Same, Versions

LEMMA OnlyIsDelta ==
  ASSUME NEW S, NEW versions \in [Ids -> Versions]
  PROVE  /\ Only(S, versions) \in Deltas
         /\ \A i \in Ids : Only(S, versions)[i] # Same <=> i \in S
         /\ \A i \in Ids : i \in S => Only(S, versions)[i] = versions[i]
BY SameIsNoVersion DEF Only, Deltas

LEMMA NoDeltaIsDelta == NoDelta \in Deltas /\ \A i \in Ids : NoDelta[i] = Same
BY DEF NoDelta, Deltas

LEMMA CatsOfScopes ==
  ASSUME NEW S, S \subseteq Ids
  PROVE  CatsOf(S) \in Scopes /\ \A i \in S : Covers(CatsOf(S), i)
BY DEF CatsOf, Scopes, Categories, Covers

LEMMA AnnouncePublishes ==
  ASSUME StreamTypeOK, Announce \/ AnnounceFails
  PROVE  \E m : Published(m)
<1>0. /\ store \in [Ids -> Versions] /\ changed \subseteq Ids /\ seq \in Nat
      /\ Present(changed) \subseteq changed
      /\ \A i \in changed : store[i] # 0 => i \in Present(changed)
  BY DEF StreamTypeOK, Present
<1>1. changed' = {} /\ UNCHANGED <<store, gone, overflow>>
  BY DEF Announce, AnnounceFails
<1>2. \A i \in Ids : i \notin Present(changed) => Untold(i)
  BY <1>0, <1>1 DEF Untold, Unannounced
<1>3. CASE Delta(Only(Present(changed), store))
  <2> DEFINE now == Only(Present(changed), store)
             m == [kind |-> "delta", seq |-> seq + 1, now |-> now, cats |-> {}]
  <2>1. /\ now \in Deltas
        /\ \A i \in Ids : now[i] # Same <=> i \in Present(changed)
        /\ \A i \in Ids : i \in Present(changed) => now[i] = store[i]
    BY <1>0, OnlyIsDelta
  <2> HIDE DEF now
  <2>2. Publish("delta", now, {})
    BY <1>3 DEF Delta, now
  <2>3. /\ m \in Messages /\ m.seq = seq + 1 /\ m.kind = "delta" /\ m.now = now
        /\ seq' = seq + 1 /\ Record(m) /\ Push(m)
        /\ UNCHANGED <<epoch, stream, replay, resumed, start, position, hand, tabVars>>
    BY <2>1, <2>2, <1>0, PublishIs DEF ReplayableKinds, LiveKinds, Scopes
  <2> HIDE DEF m
  <2>4. \A i \in Ids : Touches(m, i) <=> i \in Present(changed)
    BY <2>1, <2>3 DEF Touches
  <2>5. \A i \in Ids : i \in Present(changed) => Tells(m, i, store'[i])
    BY <2>1, <2>3, <1>1 DEF Tells
  <2>6. Published(m)
    BY <2>3, <2>4, <2>5, <1>2 DEF Published
  <2> QED
    BY <2>6
<1>4. ASSUME NEW S, S = Present(changed) \/ S = changed, Hint(CatsOf(S))
      PROVE  \E m : Published(m)
  <2> DEFINE m == [kind |-> "hint", seq |-> seq + 1, now |-> NoDelta, cats |-> CatsOf(S)]
  <2>1. CatsOf(S) \in Scopes /\ \A i \in S : Covers(CatsOf(S), i)
    BY <1>0, <1>4, CatsOfScopes
  <2>2. Publish("hint", NoDelta, CatsOf(S))
    BY <1>4 DEF Hint
  <2>3. /\ m \in Messages /\ m.seq = seq + 1 /\ m.kind = "hint" /\ m.cats = CatsOf(S)
        /\ seq' = seq + 1 /\ Record(m) /\ Push(m)
        /\ UNCHANGED <<epoch, stream, replay, resumed, start, position, hand, tabVars>>
    BY <2>1, <2>2, <1>0, PublishIs, NoDeltaIsDelta DEF ReplayableKinds, LiveKinds
  <2> HIDE DEF m
  <2>4. \A i \in Ids : i \in Present(changed) => Touches(m, i)
    BY <2>1, <2>3, <1>0, <1>4 DEF Touches
  <2>5. \A i \in Ids : Tells(m, i, store'[i])
    BY <2>3 DEF Tells
  <2>6. Published(m)
    BY <2>3, <2>4, <2>5, <1>2 DEF Published
  <2> QED
    BY <2>6
<1> QED
  BY <1>3, <1>4 DEF Announce, AnnounceFails

LEMMA EnrichPublishes ==
  ASSUME StreamTypeOK, NEW j \in Ids, Enrich(j)
  PROVE  \E m : Published(m)
<1>0. store \in [Ids -> Versions] /\ seq \in Nat
  BY DEF StreamTypeOK
<1>1. PICK v \in Versions \ {0, store[j]} :
         store' = [store EXCEPT ![j] = v] /\ Delta(Only({j}, store'))
  BY DEF Enrich
<1>2. UNCHANGED <<changed, gone, overflow>>
  BY DEF Enrich
<1>3. store' \in [Ids -> Versions] /\ \A i \in Ids : i # j => store'[i] = store[i]
  BY <1>0, <1>1
<1> DEFINE now == Only({j}, store')
           m == [kind |-> "delta", seq |-> seq + 1, now |-> now, cats |-> {}]
<1>4. now \in Deltas /\ (\A i \in Ids : now[i] # Same <=> i = j) /\ now[j] = store'[j]
  <2>1. PICK s : s = store'
    OBVIOUS
  <2> QED
    BY <1>3, <2>1, OnlyIsDelta
<1>5. Publish("delta", now, {})
  BY <1>1 DEF Delta
<1> HIDE DEF now
<1>6. /\ m \in Messages /\ m.seq = seq + 1 /\ m.kind = "delta" /\ m.now = now
      /\ seq' = seq + 1 /\ Record(m) /\ Push(m)
      /\ UNCHANGED <<epoch, stream, replay, resumed, start, position, hand, tabVars>>
  BY <1>4, <1>5, <1>0, PublishIs DEF ReplayableKinds, LiveKinds, Scopes
<1> HIDE DEF m
<1>7. \A i \in Ids : Touches(m, i) <=> i = j
  BY <1>4, <1>6 DEF Touches
<1>8. Tells(m, j, store'[j])
  BY <1>4, <1>6 DEF Tells
<1>9. \A i \in Ids : i # j => Untold(i)
  BY <1>2, <1>3 DEF Untold, Unannounced
<1>10. Published(m)
  BY <1>6, <1>7, <1>8, <1>9 DEF Published
<1> QED
  BY <1>10

LEMMA PrunePublishes ==
  ASSUME StreamTypeOK, GoneIsGone, Prune
  PROVE  \E m : Published(m)
<1>0. store \in [Ids -> Versions] /\ seq \in Nat /\ gone \subseteq Ids
  BY DEF StreamTypeOK
<1>1. PICK expired \in SUBSET Present(Ids) :
        /\ store' = [i \in Ids |-> IF i \in expired THEN 0 ELSE store[i]]
        /\ gone' = {} /\ overflow' = FALSE
        /\ IF overflow \/ Cardinality(expired \cup gone) > MaxGone
           THEN Publish("gap", NoDelta, {})
           ELSE Delta(Only(expired \cup gone, Empty))
        /\ UNCHANGED changed
  BY DEF Prune
<1> DEFINE missing == expired \cup gone
<1>2. CASE Publish("gap", NoDelta, {})
  <2> DEFINE m == [kind |-> "gap", seq |-> seq + 1, now |-> NoDelta, cats |-> {}]
  <2>1. /\ m \in Messages /\ m.seq = seq + 1 /\ m.kind = "gap"
        /\ seq' = seq + 1 /\ Record(m) /\ Push(m)
        /\ UNCHANGED <<epoch, stream, replay, resumed, start, position, hand, tabVars>>
    BY <1>2, <1>0, PublishIs, NoDeltaIsDelta DEF ReplayableKinds, LiveKinds, Scopes
  <2> HIDE DEF m
  <2>2. \A i \in Ids : Touches(m, i) /\ Tells(m, i, store'[i])
    BY <2>1 DEF Touches, Tells
  <2>3. Published(m)
    BY <2>1, <2>2 DEF Published
  <2> QED
    BY <2>3
<1>3. CASE ~overflow /\ Delta(Only(missing, Empty))
  <2> DEFINE now == Only(missing, Empty)
             m == [kind |-> "delta", seq |-> seq + 1, now |-> now, cats |-> {}]
  <2>1. Empty \in [Ids -> Versions] /\ \A i \in Ids : Empty[i] = 0
    BY SameIsNoVersion DEF Empty
  <2>2. /\ now \in Deltas
        /\ \A i \in Ids : now[i] # Same <=> i \in missing
        /\ \A i \in Ids : i \in missing => now[i] = 0
    BY <2>1, OnlyIsDelta
  <2> HIDE DEF now
  <2>3. Publish("delta", now, {})
    BY <1>3 DEF Delta, now
  <2>4. /\ m \in Messages /\ m.seq = seq + 1 /\ m.kind = "delta" /\ m.now = now
        /\ seq' = seq + 1 /\ Record(m) /\ Push(m)
        /\ UNCHANGED <<epoch, stream, replay, resumed, start, position, hand, tabVars>>
    BY <2>2, <2>3, <1>0, PublishIs DEF ReplayableKinds, LiveKinds, Scopes
  <2> HIDE DEF m
  <2>5. \A i \in Ids : Touches(m, i) <=> i \in missing
    BY <2>2, <2>4 DEF Touches
  <2>6. \A i \in Ids : i \in missing => store'[i] = 0
    BY <1>1, <1>0 DEF GoneIsGone
  <2>7. \A i \in Ids : i \in missing => Tells(m, i, store'[i])
    BY <2>2, <2>4, <2>6 DEF Tells
  <2>8. \A i \in Ids : i \notin missing => Untold(i)
    BY <1>1, <1>3, <1>0 DEF Untold, Unannounced
  <2>9. Published(m)
    BY <2>4, <2>5, <2>7, <2>8 DEF Published
  <2> QED
    BY <2>9
<1> QED
  BY <1>1, <1>2, <1>3

LEMMA OtherPublishes ==
  ASSUME StreamTypeOK, PublishOther
  PROVE  \E m : Published(m)
<1>1. PICK kind \in {"health", "private"} : Publish(kind, NoDelta, {})
  BY DEF PublishOther
<1> DEFINE m == [kind |-> kind, seq |-> seq + 1, now |-> NoDelta, cats |-> {}]
<1>2. seq \in Nat /\ UNCHANGED feedVars
  BY DEF StreamTypeOK, PublishOther
<1>3. /\ m \in Messages /\ m.seq = seq + 1 /\ m.kind = kind
      /\ seq' = seq + 1 /\ Record(m) /\ Push(m)
      /\ UNCHANGED <<epoch, stream, replay, resumed, start, position, hand, tabVars>>
  BY <1>1, <1>2, PublishIs, NoDeltaIsDelta DEF ReplayableKinds, LiveKinds, Scopes
<1> HIDE DEF m
<1>4. \A i \in Ids : ~Touches(m, i) /\ Untold(i)
  BY <1>2, <1>3 DEF Touches, Untold, Unannounced, feedVars
<1>5. Published(m)
  BY <1>3, <1>4 DEF Published
<1> QED
  BY <1>5

\* Every publisher of Feeds.
Publishing == Announce \/ AnnounceFails \/ Prune \/ PublishOther \/ \E i \in Ids : Enrich(i)
LEMMA Publishers ==
  ASSUME StreamTypeOK, GoneIsGone, Publishing
  PROVE  \E m : Published(m)
BY AnnouncePublishes, EnrichPublishes, PrunePublishes, OtherPublishes DEF Publishing

-----------------------------------------------------------------------------
(* The feeds.  Their steps publish M, one message or none, cut the window     *)
(* from below, and push M on the queue of the stream.                         *)

Moves(M) ==
  /\ M \subseteq Messages /\ (\A m, n \in M : m = n) /\ \A m \in M : seq < m.seq /\ m.seq <= seq'
  /\ seq' \in Nat /\ seq <= seq'
  /\ window' \subseteq window \cup M
  /\ floor' \in Nat /\ floor <= floor' /\ floor' <= seq'
  /\ \A x \in window \cup M : Live(x) => x \in window' \/ x.seq <= floor'
  /\ \A x \in window' : floor' <= x.seq
  /\ queue' \subseteq queue \cup M /\ gap' \in BOOLEAN /\ (gap => gap')
  /\ stream # "closed" => M \subseteq queue'
  /\ \A x \in queue : Live(x) => x \in queue' \/ gap'
  /\ UNCHANGED <<epoch, stream, replay, resumed, start, position, hand, tabVars>>
  /\ \A i \in Ids :
       \/ (\E m \in M : Touches(m, i)) /\ (Unannounced(i)' \/ \A m \in M : Tells(m, i, store'[i]))
       \/ (\A m \in M : ~Touches(m, i)) /\ Untold(i)

LEMMA Recorded ==
  ASSUME StreamTypeOK, Numbers, NEW m \in Messages, m.seq = seq + 1, Record(m)
  PROVE  /\ window' \subseteq window \cup {m}
         /\ floor' \in Nat /\ floor <= floor' /\ floor' <= seq + 1
         /\ \A x \in window \cup {m} : Live(x) => x \in window' \/ x.seq <= floor'
         /\ \A x \in window' : floor' <= x.seq
<1> DEFINE with == IF Kept(m) THEN window \cup {m} ELSE window
<1>0. /\ floor \in Nat /\ seq \in Nat /\ window \subseteq Messages /\ floor <= seq
      /\ Distinct(window) /\ \A x \in window : floor <= x.seq /\ x.seq <= seq
  BY DEF StreamTypeOK, Numbers
<1>1. with \subseteq Messages /\ with \subseteq window \cup {m} /\ \A x \in with : x.seq \in Nat
  BY <1>0 DEF Messages
<1>2. \A x \in window \cup {m} : Live(x) => x \in with
  BY DEF Live, Kept, ReplayableKinds
<1>3. \A x \in with : floor <= x.seq /\ x.seq <= seq + 1
  BY <1>0, <1>1
<1>4. Distinct(with)
  BY <1>0, <1>1 DEF Distinct
<1>5. CASE Cardinality(with) > MaxWindow
  <2> DEFINE o == Oldest(with)
  <2>1. with # {}
    <3> SUFFICES ASSUME with = {} PROVE FALSE
      OBVIOUS
    <3>1. Cardinality(with) = 0
      BY FS_EmptySet
    <3> HIDE DEF with
    <3> QED
      BY <3>1, <1>5, StreamAssumption
  <2>2. window' = with \ {o} /\ floor' = o.seq
    BY <1>5 DEF Record
  <2> HIDE DEF with
  <2>3. o \in with /\ \A n \in with : o.seq <= n.seq
    BY <2>1, <1>1, OldestIsOldest
  <2> HIDE DEF o
  <2>4. \A x \in window \cup {m} : Live(x) => x \in window' \/ x.seq <= floor'
    <3> SUFFICES ASSUME NEW x \in window \cup {m}, Live(x), x \notin window'
                 PROVE  x.seq <= floor'
      OBVIOUS
    <3>1. x \in with /\ x = o
      BY <1>2, <2>2
    <3> QED
      BY <3>1, <2>2, <2>3, <1>1
  <2>5. floor' \in Nat /\ floor <= floor' /\ floor' <= seq + 1
    BY <2>2, <2>3, <1>1, <1>3
  <2>6. \A x \in window' : floor' <= x.seq
    BY <2>2, <2>3
  <2> QED
    BY <2>2, <2>4, <2>5, <2>6, <1>1
<1>6. CASE ~(Cardinality(with) > MaxWindow)
  <2>1. window' = with /\ floor' = floor
    BY <1>6 DEF Record
  <2> HIDE DEF with
  <2> QED
    BY <2>1, <1>0, <1>1, <1>2, <1>3
<1> QED
  BY <1>5, <1>6

LEMMA Pushed ==
  ASSUME StreamTypeOK, NEW m \in Messages, Push(m)
  PROVE  /\ queue' \subseteq queue \cup {m} /\ gap' \in BOOLEAN /\ (gap => gap')
         /\ stream # "closed" => m \in queue'
         /\ \A x \in queue : Live(x) => x \in queue' \/ gap'
<1>0. gap \in BOOLEAN
  BY DEF StreamTypeOK
<1>1. CASE stream = "closed"
  BY <1>0, <1>1 DEF Push
<1>2. CASE stream # "closed" /\ Cardinality(queue) >= MaxQueue
  <2>1. queue' = (queue \ {Oldest(queue)}) \cup {m} /\ gap' = (gap \/ LeavesGap(Oldest(queue)))
    BY <1>2 DEF Push
  <2>2. \A x \in queue : Live(x) => x \in queue' \/ gap'
    BY <2>1 DEF Live, LeavesGap
  <2>3. gap' \in BOOLEAN /\ (gap => gap')
    BY <2>1, <1>0 DEF LeavesGap
  <2> QED
    BY <2>1, <2>2, <2>3
<1>3. CASE stream # "closed" /\ ~(Cardinality(queue) >= MaxQueue)
  BY <1>0, <1>3 DEF Push
<1> QED
  BY <1>1, <1>2, <1>3

LEMMA PublishedMoves ==
  ASSUME StreamTypeOK, Numbers, NEW m, Published(m)
  PROVE  Moves({m})
<1>0. m \in Messages /\ m.seq = seq + 1 /\ seq' = seq + 1 /\ Record(m) /\ Push(m) /\ seq \in Nat
  BY DEF Published, StreamTypeOK
<1>1. /\ window' \subseteq window \cup {m}
      /\ floor' \in Nat /\ floor <= floor' /\ floor' <= seq + 1
      /\ \A x \in window \cup {m} : Live(x) => x \in window' \/ x.seq <= floor'
      /\ \A x \in window' : floor' <= x.seq
  BY <1>0, Recorded
<1>2. /\ queue' \subseteq queue \cup {m} /\ gap' \in BOOLEAN /\ (gap => gap')
      /\ stream # "closed" => m \in queue'
      /\ \A x \in queue : Live(x) => x \in queue' \/ gap'
  BY <1>0, Pushed
<1>3. \A i \in Ids :
        \/ (\E n \in {m} : Touches(n, i)) /\ (Unannounced(i)' \/ \A n \in {m} : Tells(n, i, store'[i]))
        \/ (\A n \in {m} : ~Touches(n, i)) /\ Untold(i)
  BY DEF Published
<1>4. {m} \subseteq Messages /\ seq' \in Nat /\ seq <= seq' /\ \A n \in {m} : seq < n.seq /\ n.seq <= seq'
  BY <1>0
<1>5. UNCHANGED <<epoch, stream, replay, resumed, start, position, hand, tabVars>>
  BY DEF Published
<1> QED
  BY <1>0, <1>1, <1>2, <1>3, <1>4, <1>5 DEF Moves

\* A step that says nothing, and leaves the bus and the session alone.
LEMMA SilentMoves ==
  ASSUME StreamTypeOK, Numbers, UNCHANGED <<busVars, streamVars, tabVars>>,
         \A i \in Ids : Untold(i)
  PROVE  Moves({})
<1>0. seq \in Nat /\ floor \in Nat /\ floor <= seq /\ gap \in BOOLEAN /\ \A x \in window : floor <= x.seq
  BY DEF StreamTypeOK, Numbers
<1>1. /\ UNCHANGED <<epoch, seq, window, floor>>
      /\ UNCHANGED <<stream, queue, gap, replay, resumed, start, position, hand, tabVars>>
  BY DEF busVars, streamVars
<1> QED
  BY <1>0, <1>1 DEF Moves

LEMMA WriteMoves ==
  ASSUME StreamTypeOK, Numbers, NEW j \in Ids, Write(j) \/ Evict(j)
  PROVE  Moves({})
<1>0. store \in [Ids -> Versions]
  BY DEF StreamTypeOK
<1>1. UNCHANGED <<busVars, streamVars, tabVars>>
  BY DEF Write, Evict
<1>2. ASSUME NEW i \in Ids PROVE Untold(i)
  <2>1. CASE Write(j)
    <3>1. PICK v \in Versions \ {0, store[j]} : store' = [store EXCEPT ![j] = v]
      BY <2>1 DEF Write
    <3>2. changed' = changed \cup {j} /\ gone' = gone \ {j} /\ overflow' = overflow
      BY <2>1 DEF Write
    <3>3. CASE i = j
      <4>1. store'[i] # 0 /\ i \in changed'
        BY <3>1, <3>2, <3>3, <1>0
      <4> QED
        BY <4>1 DEF Untold, Unannounced
    <3>4. CASE i # j
      <4>1. store'[i] = store[i] /\ (i \in changed' <=> i \in changed) /\ (i \in gone' <=> i \in gone)
        BY <3>1, <3>2, <3>4, <1>0
      <4> QED
        BY <4>1, <3>2 DEF Untold, Unannounced
    <3> QED
      BY <3>3, <3>4
  <2>2. CASE Evict(j)
    <3>1. store' = [store EXCEPT ![j] = 0] /\ changed' = changed /\ AnnounceLater(j)
      BY <2>2 DEF Evict
    <3>2. CASE overflow'
      BY <3>2 DEF Untold, Unannounced
    <3>3. CASE gone' = gone \cup {j} /\ overflow' = overflow
      <4>1. CASE i = j
        BY <4>1, <3>3 DEF Untold, Unannounced
      <4>2. CASE i # j
        <5>1. store'[i] = store[i] /\ (i \in gone' <=> i \in gone)
          BY <3>1, <3>3, <4>2, <1>0
        <5> QED
          BY <5>1, <3>1, <3>3 DEF Untold, Unannounced
      <4> QED
        BY <4>1, <4>2
    <3> QED
      BY <3>1, <3>2, <3>3 DEF AnnounceLater
  <2> QED
    BY <2>1, <2>2
<1> QED
  BY <1>1, <1>2, SilentMoves

LEMMA TrimMoves ==
  ASSUME StreamTypeOK, Numbers, Trim
  PROVE  Moves({})
<1> DEFINE o == Oldest(window)
<1>0. /\ floor \in Nat /\ seq \in Nat /\ window \subseteq Messages /\ gap \in BOOLEAN
      /\ \A x \in window : floor <= x.seq /\ x.seq <= seq
  BY DEF StreamTypeOK, Numbers
<1>1. window # {} /\ window' = window \ {o} /\ floor' = o.seq
  BY DEF Trim
<1>2. o \in window /\ \A n \in window : o.seq <= n.seq
  BY <1>0, <1>1, OldestIsOldest
<1>3. o.seq \in Nat
  BY <1>0, <1>2 DEF Messages
<1> HIDE DEF o
<1>4. floor' \in Nat /\ floor <= floor' /\ floor' <= seq
  BY <1>0, <1>1, <1>2, <1>3
<1>5. \A x \in window : x \in window' \/ x.seq <= floor'
  BY <1>1, <1>2, <1>3
<1>6. \A x \in window' : floor' <= x.seq
  BY <1>1, <1>2
<1>7. /\ UNCHANGED <<store, changed, gone, overflow, epoch, seq>>
      /\ UNCHANGED <<stream, queue, gap, replay, resumed, start, position, hand, tabVars>>
  BY DEF Trim, feedVars, streamVars
<1>8. \A i \in Ids : Untold(i)
  BY <1>7 DEF Untold, Unannounced
<1> QED
  BY <1>0, <1>1, <1>4, <1>5, <1>6, <1>7, <1>8 DEF Moves

LEMMA FeedsMove ==
  ASSUME StreamTypeOK, Numbers, GoneIsGone, Feeds
  PROVE  \E M : Moves(M)
<1>1. CASE Publishing
  <2>1. PICK m : Published(m)
    BY <1>1, Publishers
  <2> QED
    BY <2>1, PublishedMoves
<1>2. ASSUME NEW i \in Ids, Write(i) \/ Evict(i) PROVE \E M : Moves(M)
  BY <1>2, WriteMoves
<1>3. CASE Trim
  BY <1>3, TrimMoves
<1> QED
  BY <1>1, <1>2, <1>3 DEF Feeds, Publishing

-----------------------------------------------------------------------------
(* What a step of the feeds leaves true. *)

LEMMA MovesShape ==
  ASSUME StreamTypeOK, Epochs, Numbers, Order, Windowed, NEW M, Moves(M)
  PROVE  Epochs' /\ Numbers' /\ Order' /\ Windowed'
<1>0. /\ seq \in Nat /\ floor \in Nat /\ start \in Nat /\ position \in Nat /\ epoch \in Nat
      /\ window \subseteq Messages /\ queue \subseteq Messages /\ replay \subseteq Messages
      /\ hand \subseteq Messages /\ last.seq \in Nat
  BY DEF StreamTypeOK
<1>1. /\ M \subseteq Messages /\ (\A m, n \in M : m = n) /\ (\A m \in M : seq < m.seq /\ m.seq <= seq')
      /\ seq' \in Nat /\ seq <= seq' /\ floor' \in Nat /\ floor <= floor' /\ floor' <= seq'
      /\ window' \subseteq window \cup M /\ queue' \subseteq queue \cup M
  BY DEF Moves
<1>2. UNCHANGED <<epoch, stream, replay, start, position, hand, last>>
  BY DEF Moves, tabVars
<1>3. \A m \in M \cup window \cup queue \cup replay \cup hand : m.seq \in Nat
  BY <1>0, <1>1 DEF Messages
<1>4. Epochs'
  BY <1>0, <1>1, <1>2 DEF Epochs
<1>5. Numbers'
  <2>1. floor' <= seq' /\ start' <= seq' /\ position' <= seq'
    BY <1>0, <1>1, <1>2 DEF Numbers
  <2>2. Distinct(window)' /\ \A m \in window' : floor' <= m.seq /\ m.seq <= seq'
    <3>1. \A m \in window' : floor' <= m.seq
      BY DEF Moves
    <3>2. \A m \in window' : m.seq <= seq'
      BY <1>0, <1>1, <1>3 DEF Numbers
    <3>3. \A m, n \in window' : m.seq = n.seq => m = n
      BY <1>0, <1>1, <1>3 DEF Numbers, Distinct
    <3> QED
      BY <3>1, <3>2, <3>3 DEF Distinct
  <2>3. Distinct(queue)' /\ \A m \in queue' : start' < m.seq /\ m.seq <= seq'
    <3>1. \A m \in queue' : start' < m.seq /\ m.seq <= seq'
      BY <1>0, <1>1, <1>2, <1>3 DEF Numbers
    <3>2. \A m, n \in queue' : m.seq = n.seq => m = n
      BY <1>0, <1>1, <1>3 DEF Numbers, Distinct
    <3> QED
      BY <3>1, <3>2 DEF Distinct
  <2>4. Distinct(replay)' /\ \A m \in replay' : m.seq <= start'
    BY <1>2 DEF Numbers, Distinct
  <2>5. (\A m, n \in hand' : m = n) /\ (\A m \in hand' : m.seq <= seq') /\ (hand' # {} => stream' = "open")
    BY <1>0, <1>1, <1>2, <1>3 DEF Numbers
  <2> QED
    BY <2>1, <2>2, <2>3, <2>4, <2>5 DEF Numbers
<1>6. Order'
  <2>1. \A h \in hand : h.seq <= seq
    BY DEF Numbers
  <2>2. \A h \in hand' : (\A m \in replay' : h.seq < m.seq) /\ (\A m \in queue' : Live(m) => h.seq < m.seq)
    BY <2>1, <1>0, <1>1, <1>2, <1>3 DEF Order
  <2>3. \A m \in replay' \cup queue' : Live(m) => m.seq > position'
    <3>1. position <= seq
      BY DEF Numbers
    <3> QED
      BY <3>1, <1>0, <1>1, <1>2, <1>3 DEF Order
  <2> QED
    BY <2>2, <2>3 DEF Order, Live
<1>7. Windowed'
  <2>1. \A x \in window \cup M : Live(x) => x \in window' \/ x.seq <= floor'
    BY DEF Moves
  <2> SUFFICES ASSUME NEW m \in replay' \cup queue', Live(m), m.seq > floor'
               PROVE  m \in window'
    BY DEF Windowed, Live
  <2>2. m \in replay \cup queue \/ m \in M
    BY <1>1, <1>2
  <2>3. m \in window \cup M
    <3>1. CASE m \in replay \cup queue
      <4>1. m.seq > floor
        BY <1>0, <1>1, <1>3, <3>1
      <4> QED
        BY <4>1, <3>1 DEF Windowed
    <3> QED
      BY <3>1, <2>2
  <2> QED
    BY <2>1, <2>3, <1>1, <1>3, <1>0
<1> QED
  BY <1>4, <1>5, <1>6, <1>7

LEMMA MovesJournal ==
  ASSUME Journal, NEW M, Moves(M)
  PROVE  Journal'
<1>1. UNCHANGED <<journal, mirror, load>>
  BY DEF Moves, tabVars, loadVars, mirrorVars
<1> QED
  BY <1>1 DEF Journal

\* A step's message comes after all others, and is in the window unless the cut
\* passed it.
LEMMA MovesWindow ==
  ASSUME StreamTypeOK, Numbers, WindowRight, NEW M, Moves(M)
  PROVE  WindowRight'
<1>0. /\ seq \in Nat /\ floor' \in Nat /\ window \subseteq Messages /\ M \subseteq Messages
      /\ window' \subseteq window \cup M /\ (\A m, n \in M : m = n) /\ (\A m \in M : seq < m.seq)
      /\ (\A x \in window : x.seq <= seq) /\ (\A x \in window' : floor' <= x.seq)
  BY DEF StreamTypeOK, Numbers, Moves
<1>1. \A x \in window \cup M, i \in Ids : Touches(x, i) => x \in window' \/ x.seq <= floor'
  <2>1. \A x \in window \cup M : Live(x) => x \in window' \/ x.seq <= floor'
    BY DEF Moves
  <2> QED
    BY <2>1, <1>0, TouchingIsLive
<1>2. \A x \in window \cup M : x.seq \in Nat
  BY <1>0 DEF Messages
<1> SUFFICES ASSUME NEW i \in Ids, ~Unannounced(i)',
                    NEW x \in window', Latest(x, window', i)
             PROVE  Tells(x, i, store'[i])
  BY DEF WindowRight, Right, Tells, Latest, Touches, Unannounced, Covers
<1>3. Touches(x, i) /\ \A n \in window' : Touches(n, i) => n.seq <= x.seq
  BY DEF Latest
<1>4. CASE (\E m \in M : Touches(m, i)) /\ (Unannounced(i)' \/ \A m \in M : Tells(m, i, store'[i]))
  <2>1. PICK m \in M : Touches(m, i)
    BY <1>4
  <2>2. x \in M
    <3> SUFFICES ASSUME x \notin M PROVE FALSE
      OBVIOUS
    <3>1. x.seq <= seq /\ seq < m.seq /\ x.seq \in Nat /\ m.seq \in Nat
      BY <1>0, <1>2
    <3>2. m \in window' => m.seq <= x.seq
      BY <1>3, <2>1
    <3>3. m \in window' \/ m.seq <= floor'
      BY <1>1, <2>1
    <3>4. floor' <= x.seq
      BY <1>0
    <3> QED
      BY <3>1, <3>2, <3>3, <3>4, <1>0
  <2> QED
    BY <2>2, <1>4
<1>5. CASE (\A m \in M : ~Touches(m, i)) /\ Untold(i)
  <2>1. ~Unannounced(i) /\ store'[i] = store[i]
    BY <1>5 DEF Untold
  <2>2. x \in window
    BY <1>0, <1>3, <1>5
  <2>3. ASSUME NEW n \in window, Touches(n, i) PROVE n.seq <= x.seq
    <3>1. n \in window' \/ n.seq <= floor'
      BY <1>1, <2>3
    <3> QED
      BY <3>1, <1>3, <2>3, <1>0, <1>2
  <2>4. Latest(x, window, i)
    BY <1>3, <2>3 DEF Latest
  <2> QED
    BY <2>1, <2>2, <2>4 DEF WindowRight, Right
<1> QED
  BY <1>4, <1>5 DEF Moves

\* What was under way still is: a message that the queue dropped for a gap is in
\* the window, if the cut has not passed the session.
LEMMA MovesUnderWay ==
  ASSUME StreamTypeOK, Numbers, Order, Windowed, NEW M, Moves(M),
         gap' => FloorPassed'
  PROVE  /\ gap => FloorPassed
         /\ stream # "closed" => M \subseteq UnderWay'
         /\ UnderWay' \subseteq UnderWay \cup M \cup {x \in window : Beyond(x)}
         /\ \A x \in UnderWay' \ (UnderWay \cup M) : gap' /\ x \in window /\ x \in window' /\ Beyond(x)
         /\ \A x \in window : Live(x) /\ Beyond(x) /\ gap' => x \in UnderWay'
         /\ \A n \in UnderWay : Live(n) => n \in UnderWay'
<1>0. /\ seq \in Nat /\ floor \in Nat /\ floor' \in Nat /\ floor <= floor'
      /\ start \in Nat /\ position \in Nat /\ gap \in BOOLEAN /\ gap' \in BOOLEAN /\ (gap => gap')
      /\ window \subseteq Messages /\ queue \subseteq Messages /\ hand \subseteq Messages
      /\ M \subseteq Messages
  BY DEF StreamTypeOK, Moves
<1>1. /\ hand' = hand /\ replay' = replay /\ position' = position /\ start' = start
  BY DEF Moves
<1>2. \A m \in window \cup queue \cup hand \cup M : m.seq \in Nat
  BY <1>0 DEF Messages
<1>3. FloorPassed' => FloorPassed
  BY <1>0, <1>1, <1>2 DEF FloorPassed
<1>4. \A m : Beyond(m)' <=> Beyond(m)
  BY <1>1 DEF Beyond
<1>5. UnderWay' = hand \cup replay \cup queue' \cup (IF gap' THEN {m \in window' : Beyond(m)} ELSE {})
  BY <1>1, <1>4 DEF UnderWay, Beyond
<1>6. window' \subseteq window \cup M /\ queue' \subseteq queue \cup M
  BY DEF Moves
<1>7. ASSUME NEW x \in window, Live(x), Beyond(x), gap' PROVE x \in UnderWay'
  <2>1. x \in window' \/ x.seq <= floor'
    BY <1>7 DEF Moves
  <2>2. ~(x.seq <= floor')
    <3> SUFFICES ASSUME x.seq <= floor' PROVE FALSE
      OBVIOUS
    <3>1. floor' <= position \/ floor' <= start \/ \E h \in hand : floor' <= h.seq
      BY <1>7, <1>1 DEF FloorPassed
    <3>2. x.seq > position /\ x.seq > start /\ \A h \in hand : h.seq < x.seq
      BY <1>7 DEF Beyond
    <3>3. x.seq \in Nat
      BY <1>2
    <3>4. CASE floor' <= position \/ floor' <= start
      BY <3>4, <3>2, <3>3, <1>0
    <3>5. ASSUME NEW h \in hand, floor' <= h.seq PROVE FALSE
      BY <3>5, <3>2, <3>3, <1>0, <1>2
    <3> QED
      BY <3>1, <3>4, <3>5
  <2> QED
    BY <2>1, <2>2, <1>5, <1>7
<1>8. ASSUME NEW n \in UnderWay, Live(n) PROVE n \in UnderWay'
  <2>1. CASE n \in hand \cup replay
    BY <2>1, <1>5
  <2>2. CASE n \in queue /\ n \notin queue'
    <3>1. gap'
      BY <2>2, <1>8 DEF Moves
    <3>2. Beyond(n)
      <4>1. n.seq > position /\ \A h \in hand : h.seq < n.seq
        BY <2>2, <1>8 DEF Order
      <4>2. start < n.seq
        BY <2>2 DEF Numbers
      <4> QED
        BY <4>1, <4>2, <1>2, <1>0, <2>2 DEF Beyond
    <3>3. floor' < n.seq
      <4>1. floor' <= position \/ floor' <= start \/ \E h \in hand : floor' <= h.seq
        BY <3>1, <1>1 DEF FloorPassed
      <4>2. n.seq \in Nat
        BY <2>2, <1>2
      <4>3. CASE floor' <= position \/ floor' <= start
        BY <4>3, <4>2, <3>2, <1>0 DEF Beyond
      <4>4. ASSUME NEW h \in hand, floor' <= h.seq PROVE floor' < n.seq
        BY <4>4, <4>2, <3>2, <1>0, <1>2 DEF Beyond
      <4> QED
        BY <4>1, <4>3, <4>4
    <3>4. n.seq > floor
      BY <3>3, <2>2, <1>0, <1>2
    <3>5. n \in window
      BY <3>4, <2>2, <1>8 DEF Windowed
    <3> QED
      BY <3>1, <3>2, <3>5, <1>7, <1>8
  <2>3. CASE n \in queue'
    BY <2>3, <1>5
  <2>4. CASE gap /\ n \in window /\ Beyond(n)
    BY <2>4, <1>0, <1>7, <1>8
  <2> QED
    BY <2>1, <2>2, <2>3, <2>4, <1>8 DEF UnderWay
<1>9. stream # "closed" => M \subseteq UnderWay'
  BY <1>5 DEF Moves
<1>10. \A x \in UnderWay' \ (UnderWay \cup M) : gap' /\ x \in window /\ x \in window' /\ Beyond(x)
  BY <1>5, <1>6 DEF UnderWay
<1>11. UnderWay' \subseteq UnderWay \cup M \cup {x \in window : Beyond(x)}
  BY <1>5, <1>6 DEF UnderWay
<1>12. gap => FloorPassed
  BY <1>0, <1>3
<1> QED
  BY <1>7, <1>8, <1>9, <1>10, <1>11, <1>12

LEMMA UnderWayMessages ==
  ASSUME StreamTypeOK, Numbers
  PROVE  UnderWay \subseteq Messages /\ \A m \in UnderWay : m.seq <= seq
<1>0. /\ window \subseteq Messages /\ queue \subseteq Messages /\ hand \subseteq Messages
      /\ replay \subseteq Messages /\ start \in Nat /\ seq \in Nat /\ start <= seq
  BY DEF StreamTypeOK, Numbers
<1>1. \A m \in replay : m.seq <= start /\ m.seq \in Nat
  BY <1>0 DEF Numbers, Messages
<1>2. \A m \in window \cup queue \cup hand : m.seq <= seq
  BY DEF Numbers
<1> QED
  BY <1>0, <1>1, <1>2 DEF UnderWay

LEMMA MovesRight ==
  ASSUME StreamTypeOK, Numbers, Order, Windowed, WindowRight, StreamRight, NEW M, Moves(M)
  PROVE  StreamRight'
<1> SUFFICES ASSUME stream' # "closed", gap' => FloorPassed',
                    NEW i \in Ids, ~Unannounced(i)', NEW x \in UnderWay', Latest(x, UnderWay', i)
             PROVE  Tells(x, i, store'[i])
  BY DEF StreamRight, Right, Tells, Latest, Touches, Unannounced, Covers
<1>0. /\ seq \in Nat /\ floor' \in Nat /\ window \subseteq Messages /\ M \subseteq Messages
      /\ (\A m, n \in M : m = n) /\ (\A m \in M : seq < m.seq)
      /\ (\A y \in window : y.seq <= seq) /\ (\A y \in window' : floor' <= y.seq)
      /\ stream # "closed" /\ position \in Nat /\ start \in Nat /\ hand \subseteq Messages
  BY DEF StreamTypeOK, Numbers, Moves
<1>1. /\ gap => FloorPassed
      /\ M \subseteq UnderWay'
      /\ UnderWay' \subseteq UnderWay \cup M \cup {y \in window : Beyond(y)}
      /\ \A y \in UnderWay' \ (UnderWay \cup M) : gap' /\ y \in window /\ y \in window' /\ Beyond(y)
      /\ \A y \in window : Live(y) /\ Beyond(y) /\ gap' => y \in UnderWay'
      /\ \A n \in UnderWay : Live(n) => n \in UnderWay'
  BY <1>0, MovesUnderWay
<1>2. UnderWay \subseteq Messages /\ \A m \in UnderWay : m.seq <= seq
  BY UnderWayMessages
<1>3. Touches(x, i) /\ \A n \in UnderWay' : Touches(n, i) => n.seq <= x.seq
  BY DEF Latest
<1>4. \A y \in UnderWay \cup window \cup M \cup hand : y.seq \in Nat
  BY <1>0, <1>2 DEF Messages
<1>5. CASE (\E m \in M : Touches(m, i)) /\ (Unannounced(i)' \/ \A m \in M : Tells(m, i, store'[i]))
  <2>1. PICK m \in M : Touches(m, i)
    BY <1>5
  <2>2. m.seq <= x.seq
    BY <2>1, <1>1, <1>3
  <2>3. \A y \in UnderWay \cup window : y.seq < m.seq
    BY <1>0, <1>2, <1>4
  <2>4. x \in M
    <3> SUFFICES ASSUME x \in UnderWay \cup window PROVE FALSE
      BY <1>1
    <3> QED
      BY <2>2, <2>3, <1>4
  <2> QED
    BY <2>4, <1>5
<1>6. CASE (\A m \in M : ~Touches(m, i)) /\ Untold(i)
  <2>1. ~Unannounced(i) /\ store'[i] = store[i]
    BY <1>6 DEF Untold
  <2>2. x \notin M
    BY <1>3, <1>6
  <2>3. CASE x \in UnderWay
    <3>1. \A n \in UnderWay : Touches(n, i) => n.seq <= x.seq
      BY <1>1, <1>2, <1>3, TouchingIsLive
    <3>2. Latest(x, UnderWay, i)
      BY <3>1, <1>3 DEF Latest
    <3>3. Right(UnderWay, i, store[i])
      BY <1>0, <1>1, <2>1 DEF StreamRight
    <3> QED
      BY <3>2, <3>3, <2>1, <2>3 DEF Right
  <2>4. CASE x \notin UnderWay
    <3>1. gap' /\ x \in window /\ x \in window' /\ Beyond(x)
      BY <2>2, <2>4, <1>1
    <3>2. ASSUME NEW n \in window, Touches(n, i) PROVE n.seq <= x.seq
      <4> SUFFICES ASSUME n.seq > x.seq PROVE FALSE
        BY <3>1, <1>4
      <4>1. n.seq \in Nat /\ x.seq \in Nat
        BY <1>4, <3>1
      <4>2. Beyond(n)
        BY <3>1, <4>1, <1>0, <1>4 DEF Beyond
      <4>3. n \in UnderWay'
        BY <3>1, <3>2, <4>2, <1>0, <1>1, TouchingIsLive
      <4> QED
        BY <4>1, <4>3, <3>2, <1>3
    <3>3. Latest(x, window, i)
      BY <3>2, <1>3 DEF Latest
    <3>4. Right(window, i, store[i])
      BY <2>1 DEF WindowRight
    <3> QED
      BY <3>1, <3>3, <3>4, <2>1 DEF Right
  <2> QED
    BY <2>3, <2>4
<1> QED
  BY <1>5, <1>6 DEF Moves

\* The tab's state is the same, and so is what it has.
LEMMA MovesHas ==
  ASSUME NEW M, Moves(M), NEW i \in Ids, store'[i] = store[i], ~Unannounced(i), Has(i)
  PROVE  Has(i)'
<1>1. UNCHANGED <<lost, wanted, batch, load, mirror, journal, scope, answer>>
  BY DEF Moves, tabVars, loadVars, mirrorVars
<1>2. i \in lost \/ TabHas(i)
  BY DEF Has
<1>3. CASE i \in lost
  BY <1>1, <1>3 DEF Has
<1>4. CASE TabHas(i)
  <2>1. TabHas(i)'
    BY <1>1, <1>4 DEF TabHas, Merged, Covers
  <2> QED
    BY <2>1 DEF Has
<1> QED
  BY <1>2, <1>3, <1>4

LEMMA MovesQuiet ==
  ASSUME StreamTypeOK, Numbers, Order, Windowed, StreamQuiet, NEW M, Moves(M)
  PROVE  StreamQuiet'
<1> SUFFICES ASSUME stream' # "closed", stream' = "open" \/ resumed', gap' => FloorPassed',
                    NEW i \in Ids, Quiet(UnderWay', i), ~Unannounced(i)'
             PROVE  Has(i)'
  BY DEF StreamQuiet, Quiet, Has, Touches, Covers, Unannounced
<1>0. stream' = stream /\ resumed' = resumed
  BY DEF Moves
<1>1. /\ gap => FloorPassed
      /\ M \subseteq UnderWay'
      /\ \A n \in UnderWay : Live(n) => n \in UnderWay'
  BY <1>0, MovesUnderWay
<1>2. UnderWay \subseteq Messages
  BY UnderWayMessages
<1>3. \A m \in M : ~Touches(m, i)
  BY <1>1 DEF Quiet
<1>4. ~Unannounced(i) /\ store'[i] = store[i]
  BY <1>3 DEF Moves, Untold
<1>5. Quiet(UnderWay, i)
  BY <1>1, <1>2, TouchingIsLive DEF Quiet
<1>6. Has(i)
  BY <1>0, <1>1, <1>5 DEF StreamQuiet
<1> QED
  BY <1>4, <1>6, MovesHas

LEMMA MovesResume ==
  ASSUME StreamTypeOK, Epochs, Numbers, ResumeQuiet, NEW M, Moves(M)
  PROVE  ResumeQuiet'
<1> SUFFICES ASSUME Resumable', NEW i \in Ids, Quiet(Missed', i), ~Unannounced(i)'
             PROVE  Has(i)'
  BY DEF ResumeQuiet, Quiet, Has, Touches, Covers, Unannounced
<1>0. /\ last' = last /\ epoch' = epoch /\ seq \in Nat /\ floor \in Nat /\ floor' \in Nat
      /\ floor <= floor' /\ M \subseteq Messages /\ window \subseteq Messages /\ last.seq \in Nat
      /\ \A m \in M : seq < m.seq
  BY DEF Moves, tabVars, StreamTypeOK
<1>1. last.epoch = epoch /\ last.seq <= seq /\ floor' <= last.seq
  BY <1>0 DEF Resumable, Epochs
<1>2. Resumable
  BY <1>0, <1>1 DEF Resumable
<1>3. Missed' = {m \in window' : m.seq > last.seq}
  BY <1>0 DEF Missed
<1>4. ASSUME NEW m \in window \cup M, Touches(m, i), m.seq > last.seq PROVE FALSE
  <2>1. m.seq \in Nat /\ Live(m)
    BY <1>0, <1>4, TouchingIsLive DEF Messages
  <2>2. m \in window' \/ m.seq <= floor'
    BY <2>1 DEF Moves
  <2>3. m \in window'
    BY <2>1, <2>2, <1>0, <1>1, <1>4
  <2> QED
    BY <2>3, <1>3, <1>4 DEF Quiet
<1>5. \A m \in M : ~Touches(m, i)
  <2>1. \A m \in M : m.seq \in Nat
    BY <1>0 DEF Messages
  <2> QED
    BY <2>1, <1>0, <1>1, <1>4
<1>6. ~Unannounced(i) /\ store'[i] = store[i]
  BY <1>5 DEF Moves, Untold
<1>7. Quiet(Missed, i)
  BY <1>4 DEF Quiet, Missed
<1>8. Has(i)
  BY <1>2, <1>7 DEF ResumeQuiet
<1> QED
  BY <1>6, <1>8, MovesHas

LEMMA MovesPosition ==
  ASSUME StreamTypeOK, Numbers, PositionQuiet, NEW M, Moves(M)
  PROVE  PositionQuiet'
<1> SUFFICES ASSUME stream' # "closed", stream' = "open" \/ resumed', floor' <= position',
                    NEW i \in Ids, Quiet(After(position)', i), ~Unannounced(i)'
             PROVE  Has(i)'
  BY DEF PositionQuiet, Quiet, Has, Touches, Covers, Unannounced
<1>0. /\ stream' = stream /\ resumed' = resumed /\ position' = position
      /\ seq \in Nat /\ floor \in Nat /\ floor' \in Nat /\ position \in Nat
      /\ floor <= floor' /\ M \subseteq Messages /\ window \subseteq Messages /\ position <= seq
      /\ \A m \in M : seq < m.seq
  BY DEF Moves, StreamTypeOK, Numbers
<1>1. After(position)' = {m \in window' : m.seq > position}
  BY <1>0 DEF After
<1>2. ASSUME NEW m \in window \cup M, Touches(m, i), m.seq > position PROVE FALSE
  <2>1. m.seq \in Nat /\ Live(m)
    BY <1>0, <1>2, TouchingIsLive DEF Messages
  <2>2. m \in window' \/ m.seq <= floor'
    BY <2>1 DEF Moves
  <2>3. m \in window'
    BY <2>1, <2>2, <1>0, <1>2
  <2> QED
    BY <2>3, <1>1, <1>2 DEF Quiet
<1>3. \A m \in M : ~Touches(m, i)
  <2>1. \A m \in M : m.seq \in Nat
    BY <1>0 DEF Messages
  <2> QED
    BY <2>1, <1>0, <1>2
<1>4. ~Unannounced(i) /\ store'[i] = store[i]
  BY <1>3 DEF Moves, Untold
<1>5. Quiet(After(position), i)
  BY <1>2 DEF Quiet, After
<1>6. floor <= position
  BY <1>0
<1>7. Has(i)
  BY <1>0, <1>5, <1>6 DEF PositionQuiet
<1> QED
  BY <1>4, <1>7, MovesHas

-----------------------------------------------------------------------------
(* Types. *)

FeedsOK ==
  /\ store \in [Ids -> Versions] /\ changed \subseteq Ids
  /\ gone \subseteq Ids /\ Cardinality(gone) <= MaxGone /\ overflow \in BOOLEAN
BusOK == epoch \in Nat /\ seq \in Nat /\ floor \in Nat /\ window \subseteq Messages
SessionOK ==
  /\ queue \subseteq Messages /\ replay \subseteq Messages
  /\ hand \subseteq Messages /\ Cardinality(hand) <= 1
  /\ stream \in {"closed", "opening", "open"} /\ gap \in BOOLEAN /\ resumed \in BOOLEAN
  /\ start \in Nat /\ position \in Nat
LoadOK ==
  /\ load \in {"none", "asked", "read"} /\ scope \in Scopes /\ soft \in BOOLEAN
  /\ answer \in [Ids -> Versions] /\ journal \in Deltas
TabOK ==
  /\ last \in [epoch : Nat, seq : Nat]
  /\ mirror \in [Ids -> Versions] /\ batch \in Deltas /\ LoadOK
  /\ wanted \in Scopes /\ complete \in BOOLEAN /\ loaded \in BOOLEAN
  /\ error \in {"none", "load", "refresh"} /\ failures \in Nat /\ lost \subseteq Ids

LEMMA TypeParts == StreamTypeOK <=> FeedsOK /\ BusOK /\ SessionOK /\ TabOK
BY DEF StreamTypeOK, FeedsOK, BusOK, SessionOK, TabOK, LoadOK

LEMMA InitType == Init => StreamTypeOK
<1> SUFFICES ASSUME Init PROVE StreamTypeOK
  OBVIOUS
<1>1. Empty \in [Ids -> Versions] /\ NoDelta \in Deltas /\ {} \in Scopes
  BY SameIsNoVersion DEF Empty, NoDelta, Deltas, Scopes
<1>2. Cardinality(gone) = 0 /\ Cardinality(hand) = 0
  BY FS_EmptySet DEF Init
<1>3. FeedsOK
  <2>1. Cardinality(gone) <= MaxGone
    BY <1>2, StreamAssumption
  <2>2. store \in [Ids -> Versions] /\ changed \subseteq Ids /\ gone \subseteq Ids /\ overflow \in BOOLEAN
    BY <1>1 DEF Init
  <2> QED
    BY <2>1, <2>2 DEF FeedsOK
<1>6. BusOK
  BY DEF Init, BusOK
<1>4. SessionOK
  <2>1. Cardinality(hand) <= 1
    BY <1>2
  <2>2. /\ queue \subseteq Messages /\ replay \subseteq Messages /\ hand \subseteq Messages
        /\ stream \in {"closed", "opening", "open"} /\ gap \in BOOLEAN /\ resumed \in BOOLEAN
        /\ start \in Nat /\ position \in Nat
    BY DEF Init
  <2> QED
    BY <2>1, <2>2 DEF SessionOK
<1>5. TabOK
  BY <1>1 DEF Init, TabOK, LoadOK, NeverConnected
<1> QED
  BY <1>3, <1>4, <1>5, <1>6, TypeParts

LEMMA FeedsKeepFeeds ==
  ASSUME FeedsOK, Feeds
  PROVE  FeedsOK'
<1>0. /\ store \in [Ids -> Versions] /\ changed \subseteq Ids
      /\ gone \subseteq Ids /\ Cardinality(gone) <= MaxGone /\ overflow \in BOOLEAN
      /\ IsFiniteSet(gone) /\ Cardinality(gone) \in Nat /\ MaxGone \in Nat
  <2>1. gone \subseteq Ids /\ IsFiniteSet(Ids)
    BY StreamAssumption DEF FeedsOK
  <2>2. IsFiniteSet(gone)
    BY <2>1, FS_Subset
  <2> QED
    BY <2>2, FS_CardinalityType, StreamAssumption DEF FeedsOK
<1>1. ASSUME NEW i \in Ids, Write(i) PROVE FeedsOK'
  <2>1. PICK v \in Versions \ {0, store[i]} : store' = [store EXCEPT ![i] = v]
    BY <1>1 DEF Write
  <2>2. changed' = changed \cup {i} /\ gone' = gone \ {i} /\ overflow' = overflow
    BY <1>1 DEF Write
  <2>3. Cardinality(gone') <= Cardinality(gone) /\ Cardinality(gone') \in Nat
    <3>1. gone' \subseteq gone
      BY <2>2
    <3> QED
      BY <3>1, <1>0, FS_Subset, FS_CardinalityType
  <2>4. store' \in [Ids -> Versions]
    BY <2>1, <1>0
  <2>5. Cardinality(gone') <= MaxGone
    BY <2>3, <1>0
  <2> QED
    BY <2>2, <2>4, <2>5, <1>0 DEF FeedsOK
<1>2. ASSUME NEW i \in Ids, Evict(i) PROVE FeedsOK'
  <2>1. store' = [store EXCEPT ![i] = 0] /\ AnnounceLater(i) /\ changed' = changed
    BY <1>2 DEF Evict
  <2>2. store' \in [Ids -> Versions]
    BY <2>1, <1>0, SameIsNoVersion
  <2>3. gone' \subseteq Ids /\ overflow' \in BOOLEAN
    BY <2>1, <1>0 DEF AnnounceLater
  <2>4. Cardinality(gone') <= MaxGone
    <3>1. CASE gone' = gone
      BY <3>1, <1>0
    <3>2. CASE gone' # gone
      <4>1. i \notin gone /\ gone' = gone \cup {i} /\ Cardinality(gone) < MaxGone
        BY <3>2, <2>1 DEF AnnounceLater
      <4>2. Cardinality(gone') = Cardinality(gone) + 1
        BY <4>1, <1>0, FS_AddElement
      <4> QED
        BY <4>1, <4>2, <1>0
    <3> QED
      BY <3>1, <3>2
  <2> QED
    BY <2>1, <2>2, <2>3, <2>4, <1>0 DEF FeedsOK
<1>3. ASSUME NEW i \in Ids, Enrich(i) PROVE FeedsOK'
  <2>1. PICK v \in Versions \ {0, store[i]} : store' = [store EXCEPT ![i] = v]
    BY <1>3 DEF Enrich
  <2>2. store' \in [Ids -> Versions]
    BY <2>1, <1>0
  <2> QED
    BY <2>2, <1>0, <1>3 DEF Enrich, FeedsOK
<1>4. CASE Announce \/ AnnounceFails
  BY <1>4, <1>0 DEF Announce, AnnounceFails, FeedsOK
<1>5. CASE Prune
  <2>1. PICK expired \in SUBSET Present(Ids) :
          /\ store' = [i \in Ids |-> IF i \in expired THEN 0 ELSE store[i]]
          /\ gone' = {} /\ overflow' = FALSE /\ UNCHANGED changed
    BY <1>5 DEF Prune
  <2>2. store' \in [Ids -> Versions]
    BY <2>1, <1>0, SameIsNoVersion
  <2>3. Cardinality(gone') = 0
    BY <2>1, FS_EmptySet
  <2>4. Cardinality(gone') <= MaxGone
    BY <2>3, <1>0
  <2>5. overflow' \in BOOLEAN /\ gone' \subseteq Ids /\ changed' \subseteq Ids
    BY <2>1, <1>0
  <2> QED
    BY <2>2, <2>4, <2>5 DEF FeedsOK
<1>6. CASE PublishOther \/ Trim
  BY <1>6, <1>0 DEF PublishOther, Trim, feedVars, FeedsOK
<1> QED
  BY <1>1, <1>2, <1>3, <1>4, <1>5, <1>6 DEF Feeds

LEMMA FeedsType ==
  ASSUME StreamTypeOK, Feeds, NEW M, Moves(M)
  PROVE  StreamTypeOK'
<1>1. FeedsOK'
  BY FeedsKeepFeeds, TypeParts
<1>2. BusOK'
  BY DEF Moves, BusOK, StreamTypeOK
<1>3. SessionOK'
  BY DEF Moves, SessionOK, StreamTypeOK
<1>4. TabOK'
  BY DEF Moves, tabVars, loadVars, mirrorVars, TabOK, LoadOK, StreamTypeOK
<1> QED
  BY <1>1, <1>2, <1>3, <1>4 DEF StreamTypeOK, FeedsOK, BusOK, SessionOK, TabOK, LoadOK

LEMMA OverTypes ==
  ASSUME NEW d \in Deltas
  PROVE  /\ \A v \in [Ids -> Versions] : Over(d, v) \in [Ids -> Versions]
         /\ \A e \in Deltas : Over(d, e) \in Deltas
         /\ Named(d) \subseteq Ids
BY DEF Over, Deltas, Named

LEMMA Nothing ==
  /\ Empty \in [Ids -> Versions] /\ NoDelta \in Deltas
  /\ {} \in Scopes /\ Everything \in Scopes /\ \A i \in Ids : Covers(Everything, i) /\ ~Covers({}, i)
BY SameIsNoVersion DEF Empty, NoDelta, Deltas, Scopes, Everything, Covers

LEMMA BeginLoadType ==
  ASSUME TabOK, NEW s \in Scopes, NEW b \in BOOLEAN, BeginLoad(s, b),
         last' \in [epoch : Nat, seq : Nat]
  PROVE  TabOK'
<1>0. /\ mirror \in [Ids -> Versions] /\ batch \in Deltas /\ lost \subseteq Ids
      /\ complete \in BOOLEAN /\ loaded \in BOOLEAN /\ failures \in Nat
      /\ error \in {"none", "load", "refresh"}
  BY DEF TabOK
<1>1. mirror' \in [Ids -> Versions] /\ batch' \in Deltas
  BY <1>0, OverTypes, Nothing DEF BeginLoad, FlushBatch
<1>2. LoadOK'
  BY Nothing DEF BeginLoad, LoadOK
<1>3. /\ wanted' \in Scopes /\ complete' \in BOOLEAN /\ loaded' \in BOOLEAN
      /\ error' \in {"none", "load", "refresh"} /\ failures' \in Nat /\ lost' \subseteq Ids
  BY <1>0, Nothing DEF BeginLoad
<1> QED
  BY <1>1, <1>2, <1>3 DEF TabOK

LEMMA HereType ==
  ASSUME epoch \in Nat, NEW p \in Nat
  PROVE  Here(p) \in [epoch : Nat, seq : Nat]
BY DEF Here

LEMMA AdvanceType ==
  ASSUME position \in Nat, start \in Nat, NEW m \in Messages
  PROVE  /\ Advance(m) \in Nat /\ position <= Advance(m) /\ m.seq <= Advance(m) /\ m.seq \in Nat
         /\ \/ Advance(m) = position \/ Advance(m) = m.seq
            \/ Advance(m) = start /\ replay = {} /\ m.seq <= start
         /\ m.seq <= start /\ replay = {} => start <= Advance(m)
<1>1. m.seq \in Nat
  BY DEF Messages
<1> QED
  BY <1>1 DEF Advance, Later

LEMMA ClosedType ==
  ASSUME Closed
  PROVE  SessionOK'
<1>1. Cardinality(hand') = 0
  BY FS_EmptySet DEF Closed
<1>2. /\ queue' \subseteq Messages /\ replay' \subseteq Messages /\ hand' \subseteq Messages
      /\ stream' \in {"closed", "opening", "open"} /\ gap' \in BOOLEAN /\ resumed' \in BOOLEAN
      /\ start' \in Nat /\ position' \in Nat
  BY DEF Closed
<1> QED
  BY <1>1, <1>2 DEF SessionOK

LEMMA SessionType ==
  ASSUME StreamTypeOK, Connect \/ Hello \/ Take \/ Checkpoint \/ AccessChanged
  PROVE  StreamTypeOK'
<1>0. FeedsOK /\ BusOK /\ SessionOK /\ TabOK
  BY TypeParts
<1>1. FeedsOK' /\ BusOK'
  BY <1>0 DEF Connect, Hello, Take, Checkpoint, AccessChanged, feedVars, busVars, FeedsOK, BusOK
<1>2. SessionOK'
  <2>1. CASE Connect
    <3>0. Cardinality(hand') = 0
      BY <2>1, FS_EmptySet DEF Connect
    <3>1. seq \in Nat /\ last.seq \in Nat /\ Resumable \in BOOLEAN
      BY <1>0 DEF BusOK, TabOK, Resumable
    <3>2. Missed \subseteq Messages
      BY <1>0 DEF Missed, BusOK
    <3>3. start' \in Nat /\ position' \in Nat /\ resumed' \in BOOLEAN /\ replay' \subseteq Messages
      BY <2>1, <3>1, <3>2 DEF Connect
    <3>4. /\ queue' \subseteq Messages /\ hand' \subseteq Messages /\ gap' \in BOOLEAN
          /\ stream' \in {"closed", "opening", "open"}
      BY <2>1 DEF Connect
    <3> QED
      BY <3>0, <3>3, <3>4 DEF SessionOK
  <2>2. CASE Take
    <3>1. queue' \subseteq Messages /\ replay' \subseteq Messages /\ gap' \in BOOLEAN
      BY <2>2, <1>0 DEF Take, SessionOK, KeepOthers
    <3>2. \E o \in Messages : hand' = {o}
      <4>1. CASE replay # {} /\ hand' = {Oldest(replay)}
        <5>1. replay \subseteq Messages
          BY <1>0 DEF SessionOK
        <5> QED
          BY <4>1, <5>1, OldestIsOldest
      <4>2. CASE queue # {} /\ hand' = {Oldest(queue)}
        <5>1. queue \subseteq Messages
          BY <1>0 DEF SessionOK
        <5> QED
          BY <4>2, <5>1, OldestIsOldest
      <4>3. CASE hand' = {StreamGap}
        <5>1. seq \in Nat /\ NoDelta \in Deltas /\ {} \in Scopes
          BY <1>0, Nothing DEF BusOK
        <5>2. StreamGap \in Messages
          BY <5>1 DEF StreamGap, Messages, ReplayableKinds, LiveKinds
        <5> QED
          BY <4>3, <5>2
      <4> QED
        BY <2>2, <4>1, <4>2, <4>3 DEF Take
    <3>3. PICK o \in Messages : hand' = {o}
      BY <3>2
    <3>4. Cardinality({o}) = 1
      BY FS_Singleton
    <3> QED
      BY <2>2, <1>0, <3>1, <3>3, <3>4 DEF Take, SessionOK
  <2>3. CASE Hello
    BY <2>3, <1>0 DEF Hello, SessionOK
  <2>4. CASE Checkpoint \/ AccessChanged
    BY <2>4, <1>0 DEF Checkpoint, AccessChanged, streamVars, SessionOK
  <2> QED
    BY <2>1, <2>2, <2>3, <2>4
<1>3. TabOK'
  <2>0. Here(position) \in [epoch : Nat, seq : Nat]
    BY <1>0, HereType DEF BusOK, SessionOK
  <2>1. CASE Connect \/ Take
    BY <2>1, <1>0 DEF Connect, Take, tabVars, loadVars, mirrorVars, TabOK, LoadOK
  <2>2. CASE Hello
    <3>1. last' \in [epoch : Nat, seq : Nat]
      BY <2>0, <2>2 DEF Hello
    <3>2. CASE BeginLoad(Everything, FALSE)
      BY <3>1, <3>2, <1>0, Nothing, BeginLoadType
    <3>3. CASE UNCHANGED <<loadVars, mirrorVars>>
      BY <3>1, <3>3, <1>0 DEF loadVars, mirrorVars, TabOK, LoadOK
    <3> QED
      BY <2>2, <3>2, <3>3 DEF Hello
  <2>3. CASE Checkpoint
    BY <2>0, <2>3, <1>0 DEF Checkpoint, loadVars, mirrorVars, TabOK, LoadOK
  <2>4. CASE AccessChanged
    <3>1. Named(batch) \subseteq Ids
      BY <1>0, OverTypes DEF TabOK
    <3>2. lost' \subseteq Ids /\ batch' \in Deltas
      BY <3>1, <2>4, <1>0, Nothing DEF AccessChanged, TabOK
    <3> QED
      BY <3>2, <2>0, <2>4, <1>0 DEF AccessChanged, loadVars, TabOK, LoadOK
  <2> QED
    BY <2>1, <2>2, <2>3, <2>4
<1> QED
  BY <1>1, <1>2, <1>3 DEF StreamTypeOK, FeedsOK, BusOK, SessionOK, TabOK, LoadOK

\* A step that sends the message in hand, or passes it over.
Sent(m) ==
  /\ hand = {m} /\ hand' = {} /\ position' = Advance(m)
  /\ UNCHANGED <<feedVars, busVars, stream, queue, gap, replay, resumed, start>>

LEMMA SendSends ==
  ASSUME Numbers, Send
  PROVE  \E m : /\ Sent(m)
                /\ \/ last' = Here(Advance(m))
                   \/ m.kind = "private" /\ UNCHANGED tabVars
                /\ \/ SendDelta /\ m.kind = "delta"
                      /\ batch' = Over(m.now, batch) /\ lost' = lost \ Named(m.now)
                   \/ SendHint /\ m.kind = "hint" /\ wanted' = wanted \cup m.cats
                   \/ SendGap /\ m.kind = "gap"
                   \/ SendOther /\ m.kind \in {"health", "private"}
<1>1. CASE SendDelta
  <2>1. PICK m \in hand : m.kind = "delta" /\ SendFrame(m)
                          /\ batch' = Over(m.now, batch) /\ lost' = lost \ Named(m.now)
    BY <1>1 DEF SendDelta
  <2>2. Sent(m) /\ last' = Here(Advance(m))
    BY <2>1 DEF SendFrame, Sent
  <2> QED
    BY <1>1, <2>1, <2>2
<1>2. CASE SendHint
  <2>1. PICK m \in hand : m.kind = "hint" /\ SendFrame(m) /\ wanted' = wanted \cup m.cats
    BY <1>2 DEF SendHint
  <2>2. Sent(m) /\ last' = Here(Advance(m))
    BY <2>1 DEF SendFrame, Sent
  <2> QED
    BY <1>2, <2>1, <2>2
<1>3. CASE SendGap
  <2>1. PICK m \in hand : m.kind = "gap" /\ SendFrame(m)
    BY <1>3 DEF SendGap
  <2>2. Sent(m) /\ last' = Here(Advance(m))
    BY <2>1 DEF SendFrame, Sent
  <2> QED
    BY <1>3, <2>1, <2>2
<1>4. CASE SendOther
  <2>1. PICK m \in hand :
          /\ m.kind \in {"health", "private"}
          /\ \/ SendFrame(m)
             \/ /\ m.kind = "private"
                /\ hand' = {} /\ position' = Advance(m)
                /\ UNCHANGED <<last, feedVars, busVars, stream, queue, gap, replay, resumed, start>>
    BY <1>4 DEF SendOther
  <2>2. UNCHANGED <<loadVars, mirrorVars>>
    BY <1>4 DEF SendOther
  <2>3. hand = {m}
    BY DEF Numbers
  <2>4. Sent(m) /\ (last' = Here(Advance(m)) \/ (m.kind = "private" /\ UNCHANGED tabVars))
    BY <2>1, <2>2, <2>3 DEF SendFrame, Sent, tabVars
  <2> QED
    BY <1>4, <2>1, <2>4
<1> QED
  BY <1>1, <1>2, <1>3, <1>4 DEF Send

LEMMA SendType ==
  ASSUME StreamTypeOK, Numbers, Send
  PROVE  StreamTypeOK'
<1>0. FeedsOK /\ BusOK /\ SessionOK /\ TabOK
  BY TypeParts
<1>1. PICK m : /\ Sent(m)
               /\ \/ last' = Here(Advance(m))
                  \/ m.kind = "private" /\ UNCHANGED tabVars
               /\ \/ SendDelta /\ m.kind = "delta"
                     /\ batch' = Over(m.now, batch) /\ lost' = lost \ Named(m.now)
                  \/ SendHint /\ m.kind = "hint" /\ wanted' = wanted \cup m.cats
                  \/ SendGap /\ m.kind = "gap"
                  \/ SendOther /\ m.kind \in {"health", "private"}
  BY SendSends
<1>2. m \in Messages
  BY <1>0, <1>1 DEF Sent, SessionOK
<1>3. Advance(m) \in Nat
  BY <1>0, <1>2, AdvanceType DEF SessionOK
<1>4. FeedsOK' /\ BusOK'
  BY <1>0, <1>1 DEF Sent, feedVars, busVars, FeedsOK, BusOK
<1>5. SessionOK'
  <2>1. Cardinality(hand') = 0
    BY <1>1, FS_EmptySet DEF Sent
  <2> QED
    BY <2>1, <1>0, <1>1, <1>3 DEF Sent, SessionOK
<1>6. last' \in [epoch : Nat, seq : Nat]
  <2>1. Here(Advance(m)) \in [epoch : Nat, seq : Nat]
    BY <1>0, <1>3, HereType DEF BusOK
  <2> QED
    BY <2>1, <1>0, <1>1 DEF tabVars, TabOK
<1>7. TabOK'
  <2>1. CASE SendDelta /\ batch' = Over(m.now, batch) /\ lost' = lost \ Named(m.now)
    <3>1. m.now \in Deltas
      BY <1>2 DEF Messages
    <3>2. batch' \in Deltas /\ lost' \subseteq Ids
      BY <2>1, <3>1, <1>0, OverTypes DEF TabOK
    <3> QED
      BY <2>1, <3>2, <1>0, <1>6 DEF SendDelta, loadVars, TabOK, LoadOK
  <2>2. CASE SendHint /\ wanted' = wanted \cup m.cats
    <3>1. m.cats \in Scopes
      BY <1>2 DEF Messages
    <3>2. wanted' \in Scopes
      BY <2>2, <3>1, <1>0 DEF TabOK, Scopes
    <3>3. mirror' \in [Ids -> Versions] /\ batch' \in Deltas /\ journal' \in Deltas
      BY <2>2, <1>0, OverTypes, Nothing DEF SendHint, FlushBatch, Journalled, TabOK, LoadOK
    <3> QED
      BY <2>2, <3>2, <3>3, <1>0, <1>6 DEF SendHint, TabOK, LoadOK
  <2>3. CASE SendGap
    <3>1. LoadOK'
      BY <2>3, Nothing DEF SendGap, LoadOK
    <3> QED
      BY <2>3, <3>1, <1>6, Nothing DEF SendGap, TabOK
  <2>4. CASE SendOther
    BY <2>4, <1>0, <1>6 DEF SendOther, loadVars, mirrorVars, TabOK, LoadOK
  <2> QED
    BY <1>1, <2>1, <2>2, <2>3, <2>4
<1> QED
  BY <1>4, <1>5, <1>7 DEF StreamTypeOK, FeedsOK, BusOK, SessionOK, TabOK, LoadOK

LEMMA NoLoadType == ASSUME NoLoad PROVE LoadOK'
BY Nothing DEF NoLoad, LoadOK

LEMMA FaultsType ==
  ASSUME StreamTypeOK, Faults
  PROVE  StreamTypeOK'
<1>0. FeedsOK /\ BusOK /\ SessionOK /\ TabOK
  BY TypeParts
<1>1. SessionOK'
  BY ClosedType DEF Faults, IdleExpires, Disconnect, Restart, Hide
<1>2. BusOK'
  BY <1>0 DEF Faults, IdleExpires, Disconnect, Restart, Hide, busVars, BusOK
<1>3. FeedsOK'
  <2>1. CASE Restart
    <3>1. Cardinality(gone') = 0
      BY <2>1, FS_EmptySet DEF Restart
    <3>2. store' \in [Ids -> Versions] /\ changed' = {} /\ gone' = {} /\ overflow' = FALSE
      BY <2>1 DEF Restart
    <3>3. Cardinality(gone') <= MaxGone
      BY <3>1, StreamAssumption
    <3> QED
      BY <3>2, <3>3 DEF FeedsOK
  <2>2. CASE IdleExpires \/ Disconnect \/ Hide
    BY <2>2, <1>0 DEF IdleExpires, Disconnect, Hide, feedVars, FeedsOK
  <2> QED
    BY <2>1, <2>2 DEF Faults
<1>4. TabOK'
  <2>1. CASE Disconnect \/ Restart
    BY <2>1, <1>0 DEF Disconnect, Restart, tabVars, loadVars, mirrorVars, TabOK, LoadOK
  <2>2. CASE Hide
    <3>1. LoadOK'
      BY <2>2, NoLoadType DEF Hide
    <3> QED
      BY <2>2, <3>1, <1>0, Nothing DEF Hide, NeverConnected, TabOK
  <2>3. CASE IdleExpires
    <3>1. Named(batch) \subseteq Ids /\ PassedOver \subseteq Ids
      BY DEF Named, PassedOver
    <3>2. last' \in [epoch : Nat, seq : Nat]
      BY <2>3, <1>0 DEF IdleExpires, Here, BusOK, SessionOK
    <3> QED
      BY <2>3, <3>1, <3>2, <1>0, Nothing DEF IdleExpires, loadVars, TabOK, LoadOK
  <2> QED
    BY <2>1, <2>2, <2>3 DEF Faults
<1> QED
  BY <1>1, <1>2, <1>3, <1>4 DEF StreamTypeOK, FeedsOK, BusOK, SessionOK, TabOK, LoadOK

LEMMA TabKeepsOthers ==
  ASSUME Tab
  PROVE  UNCHANGED <<feedVars, busVars, streamVars, last>>
BY DEF Tab, Flush, Reload, Refresh, ReadStore, ApplySnapshot, LoadFails

LEMMA TabType ==
  ASSUME StreamTypeOK, Tab
  PROVE  StreamTypeOK'
<1>0. FeedsOK /\ BusOK /\ SessionOK /\ TabOK
  BY TypeParts
<1>1. FeedsOK' /\ BusOK' /\ SessionOK' /\ last' = last
  BY <1>0, TabKeepsOthers DEF feedVars, busVars, streamVars, FeedsOK, BusOK, SessionOK
<1>2. TabOK'
  <2>1. CASE Flush
    <3>1. mirror' \in [Ids -> Versions] /\ batch' \in Deltas /\ journal' \in Deltas
      BY <2>1, <1>0, OverTypes, Nothing DEF Flush, FlushBatch, Journalled, TabOK, LoadOK
    <3> QED
      BY <2>1, <3>1, <1>0 DEF Flush, TabOK, LoadOK
  <2>2. CASE Reload
    <3>1. BeginLoad(Everything, FALSE) /\ last' \in [epoch : Nat, seq : Nat]
      BY <2>2, <1>0, <1>1 DEF Reload, TabOK
    <3> QED
      BY <3>1, <1>0, Nothing, BeginLoadType
  <2>3. CASE Refresh
    <3>1. PICK s \in Scopes : BeginLoad(s, TRUE)
      BY <2>3, <1>0, Nothing DEF Refresh, TabOK
    <3>2. last' \in [epoch : Nat, seq : Nat]
      BY <1>0, <1>1 DEF TabOK
    <3> QED
      BY <3>1, <3>2, <1>0, BeginLoadType
  <2>4. CASE ReadStore
    <3>1. answer' \in [Ids -> Versions]
      BY <2>4, <1>0 DEF ReadStore, FeedsOK
    <3> QED
      BY <2>4, <3>1, <1>0, <1>1 DEF ReadStore, mirrorVars, TabOK, LoadOK
  <2>5. CASE ApplySnapshot
    <3>1. \A i \in Ids : Merged(i) \in Versions
      BY <1>0 DEF TabOK, LoadOK, Merged, Deltas
    <3>2. mirror' \in [Ids -> Versions]
      BY <2>5, <3>1 DEF ApplySnapshot
    <3>3. LoadOK'
      BY <2>5, NoLoadType DEF ApplySnapshot
    <3>4. complete' \in BOOLEAN /\ error' \in {"none", "load", "refresh"}
      BY <2>5, <1>0 DEF ApplySnapshot, TabOK
    <3> QED
      BY <2>5, <3>2, <3>3, <3>4, <1>0 DEF ApplySnapshot, TabOK
  <2>6. CASE LoadFails
    <3>1. LoadOK'
      BY <2>6, NoLoadType DEF LoadFails
    <3>2. Asked \subseteq Ids /\ Again \in Scopes
      BY <1>0 DEF Asked, Again, TabOK, LoadOK, Scopes
    <3>3. failures' \in Nat
      BY <2>6, <1>0, StreamAssumption DEF LoadFails, TabOK
    <3>4. wanted' \in Scopes /\ lost' \subseteq Ids /\ error' \in {"none", "load", "refresh"} /\ loaded' \in BOOLEAN
      BY <2>6, <3>2, <1>0 DEF LoadFails, TabOK, Scopes
    <3> QED
      BY <2>6, <3>1, <3>3, <3>4, <1>0, <1>1 DEF LoadFails, TabOK
  <2> QED
    BY <2>1, <2>2, <2>3, <2>4, <2>5, <2>6 DEF Tab
<1> QED
  BY <1>1, <1>2 DEF StreamTypeOK, FeedsOK, BusOK, SessionOK, TabOK, LoadOK

-----------------------------------------------------------------------------
(* What the tab has, it keeps. *)

StillHas(i) == Has(i) => Has(i)'

LEMMA FlushKeeps ==
  ASSUME StreamTypeOK, FlushBatch, journal' = Journalled,
         UNCHANGED <<store, load, scope, answer>>,
         NEW i \in Ids, Covers(wanted, i) => Covers(wanted, i)', TabHas(i)
  PROVE  TabHas(i)'
<1>0. /\ store[i] # Same /\ store[i] \in Versions /\ batch' = NoDelta /\ NoDelta[i] = Same
      /\ mirror' = Over(batch, mirror)
      /\ mirror'[i] = IF batch[i] = Same THEN mirror[i] ELSE batch[i]
  BY SameIsNoVersion DEF StreamTypeOK, FlushBatch, Over, NoDelta
<1>1. journal'[i] = IF load = "none" \/ batch[i] = Same THEN journal[i] ELSE batch[i]
  BY DEF Journalled, Over
<1>2. CASE Covers(wanted, i)
  BY <1>2 DEF TabHas
<1>3. CASE batch[i] = store[i]
  <2>1. mirror'[i] = store'[i] /\ batch'[i] = Same
    BY <1>0, <1>3
  <2>2. load # "none" => Merged(i)' = store'[i]
    BY <1>0, <1>1, <1>3 DEF Merged
  <2> QED
    BY <2>1, <2>2 DEF TabHas
<1>4. CASE batch[i] = Same
  <2>1. batch'[i] = Same /\ mirror'[i] = mirror[i] /\ journal'[i] = journal[i]
    BY <1>0, <1>1, <1>4
  <2>2. Covers(scope, i)' <=> Covers(scope, i)
    BY DEF Covers
  <2>3. Merged(i)' = Merged(i)
    BY <2>1, <2>2 DEF Merged
  <2> QED
    BY <2>1, <2>2, <2>3, <1>0, <1>4 DEF TabHas
<1> QED
  BY <1>2, <1>3, <1>4 DEF TabHas

LEMMA BeginHas ==
  ASSUME NEW s, NEW b, BeginLoad(s, b), NEW i \in Ids, Covers(s, i)
  PROVE  TabHas(i)'
<1>1. load' = "asked" /\ scope' = s /\ journal'[i] = Same /\ batch'[i] = Same
  BY DEF BeginLoad, FlushBatch, NoDelta
<1> QED
  BY <1>1 DEF TabHas, Covers

LEMMA BeginKeeps ==
  ASSUME StreamTypeOK, NEW s, NEW b, BeginLoad(s, b), load = "none", store' = store,
         NEW i \in Ids, ~Covers(s, i), ~Covers(wanted, i), TabHas(i)
  PROVE  TabHas(i)'
<1>1. store[i] # Same
  BY SameIsNoVersion DEF StreamTypeOK
<1>2. /\ load' = "asked" /\ scope' = s /\ journal'[i] = Same /\ batch'[i] = Same
      /\ mirror'[i] = IF batch[i] = Same THEN mirror[i] ELSE batch[i]
  BY DEF BeginLoad, FlushBatch, NoDelta, Over
<1>3. mirror'[i] = store[i]
  BY <1>1, <1>2 DEF TabHas
<1>4. Merged(i)' = store[i]
  BY <1>2, <1>3 DEF Merged, Covers
<1> QED
  BY <1>2, <1>4 DEF TabHas

\* Nothing is said about the feeds, so the tab need only keep what it has.
LEMMA KeepsHas ==
  ASSUME UNCHANGED feedVars, NEW i \in Ids, i \in lost \/ TabHas(i) => (i \in lost \/ TabHas(i))'
  PROVE  StillHas(i)
BY DEF StillHas, Has, Unannounced, feedVars

LEMMA SameTabKeeps ==
  ASSUME UNCHANGED feedVars, UNCHANGED <<loadVars, mirrorVars>>, NEW i \in Ids
  PROVE  StillHas(i)
<1>1. TabHas(i) => TabHas(i)'
  BY DEF TabHas, Merged, Covers, feedVars, loadVars, mirrorVars
<1> QED
  BY <1>1, KeepsHas DEF mirrorVars

LEMMA EverythingKept ==
  ASSUME UNCHANGED feedVars, BeginLoad(Everything, FALSE), NEW i \in Ids
  PROVE  StillHas(i)
<1>1. TabHas(i)'
  BY BeginHas, Nothing
<1> QED
  BY <1>1 DEF StillHas, Has

LEMMA TabKeeps ==
  ASSUME StreamTypeOK, Journal, Tab, NEW i \in Ids
  PROVE  StillHas(i)
<1>0. UNCHANGED feedVars /\ store' = store
  BY TabKeepsOthers DEF feedVars
<1>1. SUFFICES ASSUME i \in lost \/ TabHas(i) PROVE (i \in lost \/ TabHas(i))'
  BY <1>0, KeepsHas
<1>2. CASE Flush
  <2>1. /\ FlushBatch /\ journal' = Journalled /\ UNCHANGED <<load, scope, answer, wanted, lost>>
    BY <1>2 DEF Flush
  <2>2. Covers(wanted, i) => Covers(wanted, i)'
    BY <2>1 DEF Covers
  <2> QED
    BY <2>1, <2>2, <1>0, <1>1, FlushKeeps
<1>3. CASE Reload
  <2>1. TabHas(i)'
    BY <1>3, BeginHas, Nothing DEF Reload
  <2> QED
    BY <2>1
<1>4. CASE Refresh
  <2>1. PICK s \in Scopes : BeginLoad(s, TRUE) /\ (Covers(wanted, i) => Covers(s, i))
    BY <1>4, Nothing DEF Refresh, StreamTypeOK
  <2>2. CASE Covers(s, i)
    BY <2>1, <2>2, BeginHas
  <2>3. CASE ~Covers(s, i)
    <3>1. i \in lost => i \in lost'
      BY <2>1, <2>3 DEF BeginLoad
    <3>2. TabHas(i) => TabHas(i)'
      BY <2>1, <2>3, <1>0, <1>4, BeginKeeps DEF Refresh
    <3> QED
      BY <3>1, <3>2, <1>1
  <2> QED
    BY <2>2, <2>3
<1>5. CASE ReadStore
  <2>1. /\ load = "asked" /\ load' = "read" /\ answer' = store
        /\ UNCHANGED <<scope, journal, mirror, batch, wanted, lost>>
    BY <1>5 DEF ReadStore, mirrorVars
  <2>2. Covers(scope, i)' <=> Covers(scope, i)
    BY <2>1 DEF Covers
  <2>3. Covers(wanted, i)' <=> Covers(wanted, i)
    BY <2>1 DEF Covers
  <2>4. CASE batch[i] = Same /\ ((journal[i] = Same /\ Covers(scope, i)) \/ Merged(i) = store[i])
    <3>1. Merged(i)' = store[i]
      BY <2>1, <2>2, <2>4 DEF Merged
    <3> QED
      BY <3>1, <2>1, <2>4, <1>0 DEF TabHas
  <2> QED
    BY <2>1, <2>3, <2>4, <1>0, <1>1 DEF TabHas
<1>6. CASE ApplySnapshot
  <2>1. /\ load = "read" /\ load' = "none" /\ mirror'[i] = Merged(i)
        /\ UNCHANGED <<batch, wanted, lost>>
    BY <1>6 DEF ApplySnapshot, NoLoad
  <2>2. Covers(wanted, i)' <=> Covers(wanted, i)
    BY <2>1 DEF Covers
  <2> QED
    BY <2>1, <2>2, <1>0, <1>1 DEF TabHas
<1>7. CASE LoadFails
  <2>1. /\ load # "none" /\ load' = "none" /\ UNCHANGED <<mirror, batch>>
        /\ \/ lost' = lost \cup Asked /\ wanted' = wanted
           \/ lost' = lost /\ wanted' = wanted \cup Again
    BY <1>7 DEF LoadFails, NoLoad
  <2>2. Covers(scope, i) => i \in lost' \/ Covers(wanted, i)'
    BY <2>1 DEF Asked, Again, Covers
  <2>3. i \in lost => i \in lost'
    BY <2>1
  <2>4. Covers(wanted, i) => Covers(wanted, i)'
    BY <2>1 DEF Covers
  <2>5. CASE batch[i] = Same /\ Merged(i) = store[i] /\ ~Covers(scope, i)
    <3>1. mirror[i] = store[i]
      BY <2>5 DEF Merged, Journal
    <3> QED
      BY <3>1, <2>1, <2>5, <1>0 DEF TabHas
  <2>6. CASE batch[i] = store[i]
    BY <2>6, <2>1, <1>0 DEF TabHas
  <2> QED
    BY <2>1, <2>2, <2>3, <2>4, <2>5, <2>6, <1>1 DEF TabHas
<1> QED
  BY <1>2, <1>3, <1>4, <1>5, <1>6, <1>7 DEF Tab

LEMMA DropBatchKeeps ==
  ASSUME StreamTypeOK, AccessChanged \/ IdleExpires, NEW i \in Ids
  PROVE  StillHas(i)
<1>1. /\ batch' = NoDelta /\ lost \cup Named(batch) \subseteq lost'
      /\ UNCHANGED <<feedVars, loadVars, mirror, wanted>>
  BY DEF AccessChanged, IdleExpires
<1>2. CASE i \in Named(batch)
  BY <1>1, <1>2 DEF StillHas, Has
<1>3. CASE i \notin Named(batch)
  <2>1. batch[i] = Same /\ batch'[i] = Same
    BY <1>1, <1>3 DEF Named, NoDelta
  <2>2. TabHas(i) => TabHas(i)'
    BY <1>1, <2>1 DEF TabHas, Merged, Covers, feedVars, loadVars
  <2> QED
    BY <1>1, <2>2, KeepsHas
<1> QED
  BY <1>2, <1>3

\* A message the tab gets brings it what it tells, and nothing else is disturbed.
LEMMA SentBrings ==
  ASSUME StreamTypeOK, NEW m \in Messages, Sent(m),
         \/ SendDelta /\ m.kind = "delta"
               /\ batch' = Over(m.now, batch) /\ lost' = lost \ Named(m.now)
         \/ SendHint /\ m.kind = "hint" /\ wanted' = wanted \cup m.cats
         \/ SendGap /\ m.kind = "gap"
         \/ SendOther /\ m.kind \in {"health", "private"},
         NEW i \in Ids
  PROVE  /\ Touches(m, i) /\ Tells(m, i, store[i]) => Has(i)'
         /\ ~Touches(m, i) => StillHas(i)
<1>0. UNCHANGED feedVars /\ store' = store
  BY DEF Sent, feedVars
<1>1. CASE SendDelta /\ m.kind = "delta" /\ batch' = Over(m.now, batch) /\ lost' = lost \ Named(m.now)
  <2>1. UNCHANGED <<loadVars, mirror, wanted>>
    BY <1>1 DEF SendDelta
  <2>2. batch'[i] = IF m.now[i] = Same THEN batch[i] ELSE m.now[i]
    BY <1>1 DEF Over
  <2>3. CASE Touches(m, i)
    <3>1. batch'[i] = m.now[i]
      BY <2>2, <2>3, <1>1 DEF Touches
    <3>2. Tells(m, i, store[i]) => TabHas(i)'
      BY <3>1, <1>0, <1>1 DEF Tells, TabHas
    <3> QED
      BY <3>2, <2>3 DEF Has
  <2>4. CASE ~Touches(m, i)
    <3>1. m.now[i] = Same /\ i \notin Named(m.now)
      BY <2>4, <1>1 DEF Touches, Named
    <3>2. batch'[i] = batch[i] /\ (i \in lost => i \in lost')
      BY <3>1, <2>2, <1>1
    <3>3. TabHas(i) => TabHas(i)'
      BY <3>2, <2>1, <1>0 DEF TabHas, Merged, Covers, loadVars
    <3> QED
      BY <3>2, <3>3, <2>4, <1>0, KeepsHas
  <2> QED
    BY <2>3, <2>4
<1>2. CASE SendHint /\ m.kind = "hint" /\ wanted' = wanted \cup m.cats
  <2>1. FlushBatch /\ journal' = Journalled /\ UNCHANGED <<load, scope, answer, lost>>
    BY <1>2 DEF SendHint
  <2>2. Touches(m, i) => Covers(wanted, i)'
    BY <1>2 DEF Touches, Covers
  <2>3. Covers(wanted, i) => Covers(wanted, i)'
    BY <1>2 DEF Covers
  <2>4. TabHas(i) => TabHas(i)'
    BY <2>1, <2>3, <1>0, FlushKeeps
  <2>5. Touches(m, i) => TabHas(i)'
    BY <2>2 DEF TabHas
  <2>6. StillHas(i)
    BY <2>1, <2>4, <1>0, KeepsHas
  <2> QED
    BY <2>5, <2>6 DEF Has
<1>3. CASE SendGap /\ m.kind = "gap"
  <2>1. load' = "asked" /\ scope' = Everything /\ batch'[i] = Same /\ journal'[i] = Same
    BY <1>3 DEF SendGap, NoDelta
  <2>2. TabHas(i)'
    BY <2>1, Nothing DEF TabHas, Covers
  <2> QED
    BY <2>2 DEF Has, StillHas
<1>4. CASE SendOther /\ m.kind \in {"health", "private"}
  <2>1. UNCHANGED <<loadVars, mirrorVars>> /\ ~Touches(m, i)
    BY <1>4 DEF SendOther, Touches
  <2> QED
    BY <2>1, <1>0, SameTabKeeps
<1> QED
  BY <1>1, <1>2, <1>3, <1>4

-----------------------------------------------------------------------------
(* The journal. *)

LEMMA JournalStep ==
  ASSUME StreamTypeOK, Journal, Session \/ Faults \/ Tab
  PROVE  Journal'
<1>0. ASSUME NoLoad PROVE Journal'
  BY <1>0 DEF NoLoad, NoDelta, Journal
<1>1. ASSUME NEW s, NEW b, BeginLoad(s, b) PROVE Journal'
  BY <1>1 DEF BeginLoad, NoDelta, Journal
<1>2. ASSUME UNCHANGED <<journal, mirror, load>> PROVE Journal'
  BY <1>2 DEF Journal
<1>3. ASSUME FlushBatch, journal' = Journalled, load' = load PROVE Journal'
  <2>1. ASSUME NEW i \in Ids, journal'[i] # Same PROVE mirror'[i] = journal'[i]
    <3>1. mirror'[i] = IF batch[i] = Same THEN mirror[i] ELSE batch[i]
      BY <1>3 DEF FlushBatch, Over
    <3>2. load # "none" => journal'[i] = IF batch[i] = Same THEN journal[i] ELSE batch[i]
      BY <1>3 DEF Journalled, Over
    <3>3. load = "none" => journal'[i] = Same
      BY <1>3 DEF Journalled, Journal, NoDelta
    <3> QED
      BY <3>1, <3>2, <3>3, <2>1 DEF Journal
  <2>2. load' = "none" => journal' = NoDelta
    BY <1>3 DEF Journalled, Journal
  <2> QED
    BY <2>1, <2>2 DEF Journal
<1>4. CASE Connect \/ Take \/ Disconnect \/ Restart
  BY <1>4, <1>2 DEF Connect, Take, Disconnect, Restart, tabVars, loadVars, mirrorVars
<1>5. CASE Hello
  <2>1. BeginLoad(Everything, FALSE) \/ UNCHANGED <<loadVars, mirrorVars>>
    BY <1>5 DEF Hello
  <2> QED
    BY <2>1, <1>1, <1>2 DEF loadVars, mirrorVars
<1>6. CASE Checkpoint \/ AccessChanged \/ IdleExpires
  BY <1>6, <1>2 DEF Checkpoint, AccessChanged, IdleExpires, loadVars, mirrorVars
<1>7. CASE SendDelta \/ SendOther
  BY <1>7, <1>2 DEF SendDelta, SendOther, loadVars, mirrorVars
<1>8. CASE SendHint
  BY <1>8, <1>3 DEF SendHint
<1>9. CASE SendGap
  BY <1>9 DEF SendGap, NoDelta, Journal
<1>10. CASE Hide \/ ApplySnapshot \/ LoadFails
  BY <1>10, <1>0 DEF Hide, ApplySnapshot, LoadFails
<1>11. CASE Flush
  BY <1>11, <1>3 DEF Flush
<1>12. CASE Reload \/ Refresh
  BY <1>12, <1>1 DEF Reload, Refresh
<1>13. CASE ReadStore
  <2>1. load # "none" /\ load' # "none" /\ UNCHANGED <<journal, mirror>>
    BY <1>13 DEF ReadStore, mirrorVars
  <2> QED
    BY <2>1 DEF Journal
<1> QED
  BY <1>4, <1>5, <1>6, <1>7, <1>8, <1>9, <1>10, <1>11, <1>12, <1>13
     DEF Session, Send, Faults, Tab

-----------------------------------------------------------------------------
(* Steps of the session and the tab, part by part of the invariant. *)

\* All that is under way lies beyond the position, and is in the window if the
\* window reaches back to it.
LEMMA PositionIsResumable ==
  ASSUME StreamTypeOK', Order', Windowed', StreamQuiet', hand' = {}
  PROVE  PositionQuiet'
<1> SUFFICES ASSUME stream' # "closed", stream' = "open" \/ resumed', floor' <= position',
                    NEW i \in Ids, Quiet(After(position)', i)
             PROVE  Has(i)'
  BY DEF PositionQuiet, Quiet, Has, Touches, Covers, Unannounced
<1>0. /\ floor' \in Nat /\ position' \in Nat
      /\ window' \subseteq Messages /\ queue' \subseteq Messages /\ replay' \subseteq Messages
  BY DEF StreamTypeOK
<1>1. After(position)' = {m \in window' : m.seq > position'}
  BY DEF After
<1>2. FloorPassed'
  BY DEF FloorPassed
<1>3. ASSUME NEW m \in UnderWay', Touches(m, i) PROVE FALSE
  <2>1. CASE m \in replay' \cup queue'
    <3>1. Live(m) /\ m.seq \in Nat
      BY <2>1, <1>3, <1>0, TouchingIsLive DEF Messages
    <3>2. m.seq > position'
      BY <2>1, <3>1 DEF Order, Live
    <3>3. m.seq > floor'
      BY <3>1, <3>2, <1>0
    <3>4. m \in window'
      BY <2>1, <3>1, <3>3 DEF Windowed, Live
    <3> QED
      BY <3>2, <3>4, <1>1, <1>3 DEF Quiet
  <2>2. CASE m \in window' /\ m.seq > position'
    BY <2>2, <1>1, <1>3 DEF Quiet
  <2> QED
    BY <2>1, <2>2, <1>3 DEF UnderWay, Beyond
<1>4. Quiet(UnderWay', i)
  BY <1>3 DEF Quiet
<1> QED
  BY <1>2, <1>4 DEF StreamQuiet, Quiet, Has, Touches, Covers, Unannounced

\* The id of a frame is the position.
LEMMA Stamped ==
  ASSUME PositionQuiet', stream' = "open", last'.seq = position'
  PROVE  ResumeQuiet'
<1> SUFFICES ASSUME Resumable', NEW i \in Ids, Quiet(Missed', i)
             PROVE  Has(i)'
  BY DEF ResumeQuiet, Quiet, Has, Touches, Covers, Unannounced
<1>1. Missed' = After(position)' /\ floor' <= position'
  BY DEF Missed, After, Resumable
<1> QED
  BY <1>1 DEF PositionQuiet, Quiet, Has, Touches, Covers, Unannounced

\* The tab keeps what it has, and the id it would send stays the same.
LEMMA ResumeKept ==
  ASSUME ResumeQuiet, UNCHANGED <<busVars, last>>, \A i \in Ids : StillHas(i)
  PROVE  ResumeQuiet'
<1> SUFFICES ASSUME Resumable', NEW i \in Ids, Quiet(Missed', i)
             PROVE  Has(i)'
  BY DEF ResumeQuiet, Quiet, Has, Touches, Covers, Unannounced
<1>1. Missed' = Missed /\ Resumable
  BY DEF Missed, Resumable, busVars
<1> QED
  BY <1>1 DEF ResumeQuiet, StillHas

\* The parts about the feeds, the bus and the session.
Delivery ==
  /\ Numbers /\ Order /\ Windowed /\ GoneIsGone
  /\ WindowRight /\ StreamRight /\ StreamQuiet /\ PositionQuiet

\* Only the tab moves.
LEMMA TabMoves ==
  ASSUME Delivery, UNCHANGED <<feedVars, busVars, streamVars>>, \A i \in Ids : StillHas(i)
  PROVE  Delivery'
<1>0. /\ UNCHANGED <<store, changed, gone, overflow, epoch, seq, window, floor>>
      /\ UNCHANGED <<stream, queue, gap, replay, resumed, start, position, hand>>
  BY DEF feedVars, busVars, streamVars
<1>1. Numbers'
  BY <1>0 DEF Delivery, Numbers, Distinct
<1>2. Order'
  BY <1>0 DEF Delivery, Order, Live
<1>3. Windowed' /\ GoneIsGone'
  BY <1>0 DEF Delivery, Windowed, Live, GoneIsGone
<1>4. (\A i : Unannounced(i)' <=> Unannounced(i)) /\ UnderWay' = UnderWay /\ (FloorPassed' <=> FloorPassed)
  BY <1>0 DEF Unannounced, UnderWay, Beyond, FloorPassed
<1>5. WindowRight'
  BY <1>0, <1>4 DEF Delivery, WindowRight, Right, Latest, Tells, Touches, Covers
<1>6. StreamRight'
  <2> SUFFICES ASSUME stream' # "closed", gap' => FloorPassed', NEW i \in Ids
               PROVE  Unannounced(i)' \/ Right(UnderWay', i, store'[i])
    BY DEF StreamRight, Right, Latest, Tells, Touches, Covers
  <2>1. Unannounced(i) \/ Right(UnderWay, i, store[i])
    BY <1>0, <1>4 DEF Delivery, StreamRight
  <2> QED
    BY <2>1, <1>0, <1>4
<1>7. StreamQuiet'
  <2> SUFFICES ASSUME stream' # "closed", stream' = "open" \/ resumed', gap' => FloorPassed',
                      NEW i \in Ids, Quiet(UnderWay', i)
               PROVE  Has(i)'
    BY DEF StreamQuiet, Quiet, Has, Touches, Covers, Unannounced
  <2>1. Has(i)
    BY <1>0, <1>4 DEF Delivery, StreamQuiet
  <2> QED
    BY <2>1 DEF StillHas
<1>8. PositionQuiet'
  <2> SUFFICES ASSUME stream' # "closed", stream' = "open" \/ resumed', floor' <= position',
                      NEW i \in Ids, Quiet(After(position)', i)
               PROVE  Has(i)'
    BY DEF PositionQuiet, Quiet, Has, Touches, Covers, Unannounced
  <2>1. After(position)' = After(position)
    BY <1>0 DEF After
  <2>2. Has(i)
    BY <2>1, <1>0 DEF Delivery, PositionQuiet
  <2> QED
    BY <2>2 DEF StillHas
<1> QED
  BY <1>1, <1>2, <1>3, <1>5, <1>6, <1>7, <1>8 DEF Delivery

LEMMA ClosedDelivers ==
  ASSUME Closed, floor' \in Nat, seq' \in Nat, floor' <= seq', Distinct(window)',
         \A m \in window' : floor' <= m.seq /\ m.seq <= seq', GoneIsGone', WindowRight'
  PROVE  Delivery'
<1>0. /\ stream' = "closed" /\ queue' = {} /\ gap' = FALSE /\ replay' = {}
      /\ resumed' = FALSE /\ start' = 0 /\ position' = 0 /\ hand' = {}
  BY DEF Closed
<1>1. Numbers'
  BY <1>0 DEF Numbers, Distinct
<1>2. Order' /\ Windowed'
  BY <1>0 DEF Order, Windowed
<1>3. StreamRight' /\ StreamQuiet' /\ PositionQuiet'
  BY <1>0 DEF StreamRight, StreamQuiet, PositionQuiet
<1> QED
  BY <1>1, <1>2, <1>3 DEF Delivery

LEMMA FaultsDeliver ==
  ASSUME StreamTypeOK, Delivery, Faults
  PROVE  Delivery'
<1>0. Closed /\ floor \in Nat /\ seq \in Nat
  BY DEF Faults, IdleExpires, Disconnect, Restart, Hide, StreamTypeOK
<1>1. CASE IdleExpires \/ Disconnect \/ Hide
  <2>1. UNCHANGED <<store, changed, gone, overflow, epoch, seq, window, floor>>
    BY <1>1 DEF IdleExpires, Disconnect, Hide, feedVars, busVars
  <2>2. GoneIsGone' /\ Distinct(window)' /\ floor' <= seq' /\ \A m \in window' : floor' <= m.seq /\ m.seq <= seq'
    BY <2>1 DEF Delivery, GoneIsGone, Numbers, Distinct
  <2>3. WindowRight'
    BY <2>1 DEF Delivery, WindowRight, Unannounced, Right, Latest, Tells, Touches, Covers
  <2> QED
    BY <2>1, <2>2, <2>3, <1>0, ClosedDelivers
<1>2. CASE Restart
  <2>1. window' = {} /\ floor' = 0 /\ seq' = 0 /\ gone' = {}
    BY <1>2 DEF Restart
  <2>2. GoneIsGone' /\ WindowRight' /\ Distinct(window)'
    BY <2>1 DEF GoneIsGone, WindowRight, Right, Distinct
  <2> QED
    BY <2>1, <2>2, <1>0, ClosedDelivers
<1> QED
  BY <1>1, <1>2 DEF Faults

LEMMA HelloDelivers ==
  ASSUME StreamTypeOK, Delivery, Hello
  PROVE  Delivery' /\ \A i \in Ids : StillHas(i)
<1>0. /\ UNCHANGED <<store, changed, gone, overflow, epoch, seq, window, floor>>
      /\ UNCHANGED <<queue, gap, replay, resumed, start, position, hand>>
      /\ stream = "opening" /\ stream' = "open" /\ UNCHANGED feedVars
  BY DEF Hello, feedVars, busVars
<1>1. \A i \in Ids : StillHas(i) /\ (resumed \/ Has(i)')
  <2>1. CASE BeginLoad(Everything, FALSE)
    <3>1. \A i \in Ids : TabHas(i)'
      BY <2>1, BeginHas, Nothing
    <3> QED
      BY <3>1 DEF Has, StillHas
  <2>2. CASE resumed /\ UNCHANGED <<loadVars, mirrorVars>>
    BY <2>2, <1>0, SameTabKeeps
  <2> QED
    BY <2>1, <2>2 DEF Hello
<1>2. Numbers'
  BY <1>0 DEF Delivery, Numbers, Distinct
<1>3. Order'
  BY <1>0 DEF Delivery, Order, Live
<1>4. Windowed' /\ GoneIsGone'
  BY <1>0 DEF Delivery, Windowed, Live, GoneIsGone
<1>5. (\A i : Unannounced(i)' <=> Unannounced(i)) /\ UnderWay' = UnderWay /\ (FloorPassed' <=> FloorPassed)
  BY <1>0 DEF Unannounced, UnderWay, Beyond, FloorPassed
<1>6. WindowRight'
  BY <1>0, <1>5 DEF Delivery, WindowRight, Right, Latest, Tells, Touches, Covers
<1>7. StreamRight'
  <2> SUFFICES ASSUME gap' => FloorPassed', NEW i \in Ids
               PROVE  Unannounced(i)' \/ Right(UnderWay', i, store'[i])
    BY DEF StreamRight, Right, Latest, Tells, Touches, Covers
  <2>1. Unannounced(i) \/ Right(UnderWay, i, store[i])
    BY <1>0, <1>5 DEF Delivery, StreamRight
  <2> QED
    BY <2>1, <1>0, <1>5
<1>8. StreamQuiet'
  <2> SUFFICES ASSUME gap' => FloorPassed', NEW i \in Ids, Quiet(UnderWay', i)
               PROVE  Has(i)'
    BY DEF StreamQuiet, Quiet, Has, Touches, Covers, Unannounced
  <2>1. resumed => Has(i)
    BY <1>0, <1>5 DEF Delivery, StreamQuiet
  <2> QED
    BY <2>1, <1>1 DEF StillHas
<1>9. PositionQuiet'
  <2> SUFFICES ASSUME floor' <= position', NEW i \in Ids, Quiet(After(position)', i)
               PROVE  Has(i)'
    BY DEF PositionQuiet, Quiet, Has, Touches, Covers, Unannounced
  <2>1. After(position)' = After(position)
    BY <1>0 DEF After
  <2>2. resumed => Has(i)
    BY <2>1, <1>0 DEF Delivery, PositionQuiet
  <2> QED
    BY <2>2, <1>1 DEF StillHas
<1> QED
  BY <1>1, <1>2, <1>3, <1>4, <1>6, <1>7, <1>8, <1>9 DEF Delivery

\* A resumed session starts with all the window holds beyond the id it was sent.
LEMMA ConnectDelivers ==
  ASSUME StreamTypeOK, Delivery, ResumeQuiet, Connect
  PROVE  Delivery'
<1>0. /\ UNCHANGED <<store, changed, gone, overflow, epoch, seq, window, floor>>
      /\ UNCHANGED <<lost, mirror, batch, load, scope, answer, journal, wanted>>
      /\ stream' = "opening" /\ queue' = {} /\ gap' = FALSE /\ hand' = {}
      /\ start' = seq /\ resumed' = Resumable
      /\ replay' = IF Resumable THEN Missed ELSE {}
      /\ position' = IF Resumable /\ Missed # {} THEN last.seq ELSE seq
  BY DEF Connect, feedVars, busVars, tabVars, loadVars, mirrorVars
<1>1. /\ seq \in Nat /\ floor \in Nat /\ window \subseteq Messages /\ last.seq \in Nat
      /\ floor <= seq /\ Distinct(window) /\ \A m \in window : floor <= m.seq /\ m.seq <= seq
  BY DEF StreamTypeOK, Delivery, Numbers
<1>2. /\ replay' \subseteq window /\ \A m \in replay' : m.seq > position'
      /\ position' <= seq
  BY <1>0, <1>1 DEF Missed, Resumable
<1>3. Numbers'
  BY <1>0, <1>1, <1>2 DEF Numbers, Distinct
<1>4. Order' /\ Windowed'
  BY <1>0, <1>2 DEF Order, Windowed
<1>5. \A i \in Ids : (Unannounced(i)' <=> Unannounced(i)) /\ (Has(i)' <=> Has(i))
  BY <1>0 DEF Unannounced, Has, TabHas, Merged, Covers
<1>6. GoneIsGone' /\ WindowRight'
  BY <1>0, <1>5 DEF Delivery, GoneIsGone, WindowRight, Right, Latest, Tells, Touches, Covers
<1>7. UnderWay' = replay'
  BY <1>0 DEF UnderWay
<1>8. StreamRight'
  <2> SUFFICES ASSUME NEW i \in Ids, ~Unannounced(i)', NEW x \in replay', Latest(x, replay', i)
               PROVE  Tells(x, i, store'[i])
    BY <1>7 DEF StreamRight, Right, Latest, Tells, Touches, Covers
  <2>1. Resumable /\ replay' = Missed
    BY <1>0
  <2>2. x \in window /\ x.seq > last.seq
    BY <2>1 DEF Missed
  <2>3. ASSUME NEW n \in window, Touches(n, i) PROVE n.seq <= x.seq
    <3>1. n.seq \in Nat /\ x.seq \in Nat
      BY <2>2, <1>1 DEF Messages
    <3>2. n.seq > last.seq => n.seq <= x.seq
      BY <2>1, <2>3 DEF Missed, Latest
    <3> QED
      BY <3>1, <3>2, <2>2, <1>1
  <2>4. Latest(x, window, i)
    BY <2>3 DEF Latest
  <2>5. Right(window, i, store[i])
    BY <1>5 DEF Delivery, WindowRight
  <2> QED
    BY <2>2, <2>4, <2>5, <1>0 DEF Right
<1>9. StreamQuiet'
  <2> SUFFICES ASSUME resumed', NEW i \in Ids, Quiet(replay', i)
               PROVE  Has(i)'
    BY <1>0, <1>7 DEF StreamQuiet, Quiet, Has, Touches, Covers, Unannounced
  <2>1. Resumable /\ replay' = Missed
    BY <1>0
  <2>2. Has(i)
    BY <2>1 DEF ResumeQuiet
  <2> QED
    BY <2>2, <1>5
<1>10. PositionQuiet'
  <2> SUFFICES ASSUME resumed', NEW i \in Ids, Quiet(After(position)', i)
               PROVE  Has(i)'
    BY <1>0 DEF PositionQuiet, Quiet, Has, Touches, Covers, Unannounced
  <2>1. Resumable
    BY <1>0
  <2>2. Quiet(Missed, i)
    BY <2>1, <1>0 DEF Missed, After, Quiet
  <2>3. Has(i)
    BY <2>1, <2>2 DEF ResumeQuiet
  <2> QED
    BY <2>3, <1>5
<1> QED
  BY <1>3, <1>4, <1>6, <1>8, <1>9, <1>10 DEF Delivery

\* Taking a message only moves it; a gap tells of everything.
LEMMA TakeDelivers ==
  ASSUME StreamTypeOK, Delivery, Take
  PROVE  Delivery'
<1>0. /\ UNCHANGED <<store, changed, gone, overflow, epoch, seq, window, floor>>
      /\ UNCHANGED <<lost, mirror, batch, load, scope, answer, journal, wanted>>
      /\ UNCHANGED <<stream, resumed, start, position>> /\ stream = "open" /\ hand = {}
  BY DEF Take, feedVars, busVars, tabVars, loadVars, mirrorVars
<1>1. /\ seq \in Nat /\ floor \in Nat /\ start \in Nat /\ position \in Nat /\ gap \in BOOLEAN
      /\ queue \subseteq Messages /\ replay \subseteq Messages /\ window \subseteq Messages
      /\ Distinct(queue) /\ Distinct(replay) /\ start <= seq
      /\ (\A m \in queue : start < m.seq /\ m.seq <= seq) /\ (\A m \in replay : m.seq <= start)
  BY DEF StreamTypeOK, Delivery, Numbers
<1>2. \A m \in queue \cup replay \cup window : m.seq \in Nat
  BY <1>1 DEF Messages
<1>3. \A i \in Ids : (Unannounced(i)' <=> Unannounced(i)) /\ (Has(i)' <=> Has(i))
  BY <1>0 DEF Unannounced, Has, TabHas, Merged, Covers
<1>4. GoneIsGone' /\ WindowRight'
  BY <1>0, <1>3 DEF Delivery, GoneIsGone, WindowRight, Right, Latest, Tells, Touches, Covers
<1>5. PositionQuiet'
  <2> SUFFICES ASSUME floor' <= position', NEW i \in Ids, Quiet(After(position)', i)
               PROVE  Has(i)'
    BY DEF PositionQuiet, Quiet, Has, Touches, Covers, Unannounced
  <2>1. After(position)' = After(position)
    BY <1>0 DEF After
  <2>2. Has(i)
    BY <2>1, <1>0 DEF Delivery, PositionQuiet
  <2> QED
    BY <2>2, <1>3
\* Nothing is added or dropped.
<1>6. ASSUME UnderWay' = UnderWay, (gap' => FloorPassed') => (gap => FloorPassed)
      PROVE  StreamRight' /\ StreamQuiet'
  <2>1. StreamRight'
    <3> SUFFICES ASSUME gap' => FloorPassed', NEW i \in Ids
                 PROVE  Unannounced(i)' \/ Right(UnderWay', i, store'[i])
      BY DEF StreamRight, Right, Latest, Tells, Touches, Covers
    <3>1. Unannounced(i) \/ Right(UnderWay, i, store[i])
      BY <1>0, <1>6 DEF Delivery, StreamRight
    <3> QED
      BY <3>1, <1>0, <1>3, <1>6
  <2>2. StreamQuiet'
    <3> SUFFICES ASSUME gap' => FloorPassed', NEW i \in Ids, Quiet(UnderWay', i)
                 PROVE  Has(i)'
      BY DEF StreamQuiet, Quiet, Has, Touches, Covers, Unannounced
    <3>1. Has(i)
      BY <1>0, <1>6 DEF Delivery, StreamQuiet
    <3> QED
      BY <3>1, <1>3
  <2> QED
    BY <2>1, <2>2
<1>7. CASE replay # {} /\ hand' = {Oldest(replay)} /\ replay' = replay \ hand' /\ UNCHANGED <<queue, gap>>
  <2> DEFINE o == Oldest(replay)
  <2>1. o \in replay /\ \A n \in replay : o.seq <= n.seq
    BY <1>7, <1>1, OldestIsOldest
  <2>2. hand' = {o} /\ replay' = replay \ {o} /\ queue' = queue /\ gap' = gap
    BY <1>7
  <2> HIDE DEF o
  <2>3. o.seq \in Nat /\ o.seq <= start
    BY <2>1, <1>1, <1>2
  <2>4. \A n \in replay' : o.seq < n.seq
    BY <2>1, <2>2, <1>1, <1>2 DEF Distinct
  <2>5. Numbers'
    <3>1. floor' <= seq' /\ start' <= seq' /\ position' <= seq'
      BY <1>0 DEF Delivery, Numbers
    <3>2. Distinct(window)' /\ (\A m \in window' : floor' <= m.seq /\ m.seq <= seq')
      BY <1>0 DEF Delivery, Numbers, Distinct
    <3>3. Distinct(queue)' /\ (\A m \in queue' : start' < m.seq /\ m.seq <= seq')
      BY <1>0, <1>1, <2>2 DEF Distinct
    <3>4. Distinct(replay)' /\ (\A m \in replay' : m.seq <= start')
      BY <1>0, <1>1, <2>2 DEF Distinct
    <3>5. (\A m, n \in hand' : m = n) /\ (\A m \in hand' : m.seq <= seq') /\ stream' = "open"
      BY <1>0, <1>1, <2>2, <2>3
    <3> QED
      BY <3>1, <3>2, <3>3, <3>4, <3>5 DEF Numbers
  <2>6. Order'
    <3>1. \A h \in hand' : (\A m \in replay' : h.seq < m.seq) /\ (\A m \in queue' : Live(m) => h.seq < m.seq)
      BY <2>2, <2>3, <2>4, <1>1, <1>2
    <3>2. \A m \in replay' \cup queue' : Live(m) => m.seq > position'
      BY <2>2, <1>0 DEF Delivery, Order
    <3> QED
      BY <3>1, <3>2 DEF Order, Live
  <2>7. Windowed'
    BY <2>2, <1>0 DEF Delivery, Windowed, Live
  <2>8. \A m \in window : Beyond(m)' <=> Beyond(m)
    BY <2>2, <2>3, <1>0, <1>1, <1>2 DEF Beyond
  <2>9. UnderWay' = UnderWay
    <3>1. {m \in window' : Beyond(m)'} = {m \in window : Beyond(m)}
      BY <2>8, <1>0
    <3> QED
      BY <3>1, <2>1, <2>2, <1>0 DEF UnderWay, Beyond
  <2>10. FloorPassed' => FloorPassed
    BY <2>2, <2>3, <1>0, <1>1 DEF FloorPassed
  <2> QED
    BY <2>2, <2>5, <2>6, <2>7, <2>9, <2>10, <1>4, <1>5, <1>6 DEF Delivery
<1>8. CASE replay = {} /\ gap /\ hand' = {StreamGap} /\ queue' = KeepOthers(queue) /\ gap' = FALSE
           /\ replay' = replay
  <2> DEFINE o == StreamGap
  <2>1. o.seq = seq /\ o.kind = "gap"
    BY DEF StreamGap
  <2>2. hand' = {o} /\ replay' = {} /\ gap' = FALSE /\ queue' \subseteq queue /\ \A m \in queue' : ~Live(m)
    BY <1>8 DEF KeepOthers, Live
  <2> HIDE DEF o
  <2>3. Numbers'
    <3>1. floor' <= seq' /\ start' <= seq' /\ position' <= seq'
      BY <1>0 DEF Delivery, Numbers
    <3>2. Distinct(window)' /\ (\A m \in window' : floor' <= m.seq /\ m.seq <= seq')
      BY <1>0 DEF Delivery, Numbers, Distinct
    <3>3. Distinct(queue)' /\ (\A m \in queue' : start' < m.seq /\ m.seq <= seq')
      BY <1>0, <1>1, <2>2 DEF Distinct
    <3>4. Distinct(replay)' /\ (\A m \in replay' : m.seq <= start')
      BY <2>2 DEF Distinct
    <3>5. (\A m, n \in hand' : m = n) /\ (\A m \in hand' : m.seq <= seq') /\ stream' = "open"
      BY <1>0, <1>1, <2>1, <2>2
    <3> QED
      BY <3>1, <3>2, <3>3, <3>4, <3>5 DEF Numbers
  <2>4. Order' /\ Windowed'
    BY <2>2 DEF Order, Windowed, Live
  <2>5. UnderWay' = {o} \cup queue'
    BY <2>2 DEF UnderWay
  <2>6. \A i \in Ids : Touches(o, i) /\ \A m \in queue' : ~Touches(m, i)
    BY <2>1, <2>2, <1>1, TouchingIsLive DEF Touches
  <2>7. StreamRight'
    <3> SUFFICES ASSUME NEW i \in Ids, NEW x \in UnderWay', Latest(x, UnderWay', i)
                 PROVE  Tells(x, i, store'[i])
      BY DEF StreamRight, Right, Latest, Tells, Touches, Covers
    <3>1. x = o
      BY <2>5, <2>6 DEF Latest
    <3> QED
      BY <3>1, <2>1 DEF Tells
  <2>8. StreamQuiet'
    <3> SUFFICES ASSUME NEW i \in Ids, Quiet(UnderWay', i)
                 PROVE  FALSE
      BY DEF StreamQuiet, Quiet, Has, Touches, Covers, Unannounced
    <3> QED
      BY <2>5, <2>6 DEF Quiet
  <2> QED
    BY <2>3, <2>4, <2>7, <2>8, <1>4, <1>5 DEF Delivery
<1>9. CASE replay = {} /\ ~gap /\ queue # {} /\ hand' = {Oldest(queue)} /\ queue' = queue \ hand'
           /\ UNCHANGED <<replay, gap>>
  <2> DEFINE o == Oldest(queue)
  <2>1. o \in queue /\ \A n \in queue : o.seq <= n.seq
    BY <1>9, <1>1, OldestIsOldest
  <2>2. hand' = {o} /\ queue' = queue \ {o} /\ replay' = {} /\ replay = {} /\ ~gap' /\ ~gap
    BY <1>9
  <2> HIDE DEF o
  <2>3. o.seq \in Nat /\ o.seq <= seq
    BY <2>1, <1>1, <1>2
  <2>4. \A n \in queue' : o.seq < n.seq
    BY <2>1, <2>2, <1>1, <1>2 DEF Distinct
  <2>5. Numbers'
    <3>1. floor' <= seq' /\ start' <= seq' /\ position' <= seq'
      BY <1>0 DEF Delivery, Numbers
    <3>2. Distinct(window)' /\ (\A m \in window' : floor' <= m.seq /\ m.seq <= seq')
      BY <1>0 DEF Delivery, Numbers, Distinct
    <3>3. Distinct(queue)' /\ (\A m \in queue' : start' < m.seq /\ m.seq <= seq')
      BY <1>0, <1>1, <2>2 DEF Distinct
    <3>4. Distinct(replay)' /\ (\A m \in replay' : m.seq <= start')
      BY <2>2 DEF Distinct
    <3>5. (\A m, n \in hand' : m = n) /\ (\A m \in hand' : m.seq <= seq') /\ stream' = "open"
      BY <1>0, <2>2, <2>3
    <3> QED
      BY <3>1, <3>2, <3>3, <3>4, <3>5 DEF Numbers
  <2>6. Order'
    <3>1. \A h \in hand' : (\A m \in replay' : h.seq < m.seq) /\ (\A m \in queue' : Live(m) => h.seq < m.seq)
      BY <2>2, <2>4
    <3>2. \A m \in replay' \cup queue' : Live(m) => m.seq > position'
      BY <2>2, <1>0 DEF Delivery, Order
    <3> QED
      BY <3>1, <3>2 DEF Order, Live
  <2>7. Windowed'
    BY <2>2, <1>0 DEF Delivery, Windowed, Live
  <2>8. UnderWay' = UnderWay
    BY <2>1, <2>2, <1>0 DEF UnderWay
  <2> QED
    BY <2>2, <2>5, <2>6, <2>7, <2>8, <1>4, <1>5, <1>6 DEF Delivery
<1> QED
  BY <1>7, <1>8, <1>9 DEF Take

\* The tab gets the message in hand, and the rest is still under way.
LEMMA SendDelivers ==
  ASSUME StreamTypeOK, StreamTypeOK', Delivery, Send
  PROVE  Delivery'
<1>1. PICK m : /\ Sent(m)
               /\ \/ SendDelta /\ m.kind = "delta"
                     /\ batch' = Over(m.now, batch) /\ lost' = lost \ Named(m.now)
                  \/ SendHint /\ m.kind = "hint" /\ wanted' = wanted \cup m.cats
                  \/ SendGap /\ m.kind = "gap"
                  \/ SendOther /\ m.kind \in {"health", "private"}
  BY SendSends DEF Delivery
<1>0. /\ UNCHANGED <<store, changed, gone, overflow, epoch, seq, window, floor>>
      /\ UNCHANGED <<stream, queue, gap, replay, resumed, start>>
      /\ hand = {m} /\ hand' = {} /\ position' = Advance(m) /\ m \in Messages
  BY <1>1 DEF Sent, feedVars, busVars, StreamTypeOK
<1>2. /\ seq \in Nat /\ floor \in Nat /\ start \in Nat /\ position \in Nat /\ gap \in BOOLEAN
      /\ queue \subseteq Messages /\ replay \subseteq Messages /\ window \subseteq Messages
  BY DEF StreamTypeOK
<1>3. \A n \in queue \cup replay \cup window : n.seq \in Nat
  BY <1>2 DEF Messages
<1>4. /\ position' \in Nat /\ position <= position' /\ m.seq <= position' /\ m.seq \in Nat
      /\ \/ position' = position \/ position' = m.seq
         \/ position' = start /\ replay = {} /\ m.seq <= start
  BY <1>0, <1>2, AdvanceType
<1>5. stream = "open" /\ start <= seq /\ position <= seq /\ m.seq <= seq
  BY <1>0 DEF Delivery, Numbers
<1>6. \A i \in Ids : /\ Touches(m, i) /\ Tells(m, i, store[i]) => Has(i)'
                     /\ ~Touches(m, i) => StillHas(i)
  BY <1>0, <1>1, SentBrings
<1>7. Numbers'
  <2>1. floor' <= seq' /\ start' <= seq' /\ position' <= seq'
    BY <1>0, <1>4, <1>5 DEF Delivery, Numbers
  <2>2. Distinct(window)' /\ (\A n \in window' : floor' <= n.seq /\ n.seq <= seq')
    BY <1>0 DEF Delivery, Numbers, Distinct
  <2>3. Distinct(queue)' /\ (\A n \in queue' : start' < n.seq /\ n.seq <= seq')
    BY <1>0 DEF Delivery, Numbers, Distinct
  <2>4. Distinct(replay)' /\ (\A n \in replay' : n.seq <= start')
    BY <1>0 DEF Delivery, Numbers, Distinct
  <2> QED
    BY <2>1, <2>2, <2>3, <2>4, <1>0 DEF Numbers
<1>8. Order'
  <2> SUFFICES ASSUME NEW n \in replay \cup queue, Live(n) PROVE n.seq > position'
    BY <1>0 DEF Order, Live
  <2>1. n.seq > position /\ m.seq < n.seq
    BY <1>0 DEF Delivery, Order
  <2>2. replay = {} => start < n.seq
    BY DEF Delivery, Numbers
  <2> QED
    BY <2>1, <2>2, <1>2, <1>3, <1>4
<1>9. Windowed' /\ GoneIsGone'
  BY <1>0 DEF Delivery, Windowed, Live, GoneIsGone
<1>10. \A i : Unannounced(i)' <=> Unannounced(i)
  BY <1>0 DEF Unannounced
<1>11. WindowRight'
  BY <1>0, <1>10 DEF Delivery, WindowRight, Right, Latest, Tells, Touches, Covers
<1>12. FloorPassed' => FloorPassed
  BY <1>0, <1>2, <1>4 DEF FloorPassed
<1>13. \A n \in window : Beyond(n)' <=> Beyond(n)
  <2>1. \A n \in window : Beyond(n)' <=> n.seq > position' /\ n.seq > start
    BY <1>0 DEF Beyond
  <2>2. \A n \in window : Beyond(n) <=> n.seq > position /\ n.seq > start /\ m.seq < n.seq
    BY <1>0 DEF Beyond
  <2> QED
    BY <2>1, <2>2, <1>2, <1>3, <1>4
<1>14. UnderWay = UnderWay' \cup {m}
  <2>1. {n \in window' : Beyond(n)'} = {n \in window : Beyond(n)}
    BY <1>13, <1>0
  <2> QED
    BY <2>1, <1>0 DEF UnderWay, Beyond
<1>15. \A n \in UnderWay', i \in Ids : Touches(n, i) => m.seq < n.seq /\ n.seq \in Nat
  <2> SUFFICES ASSUME NEW n \in UnderWay', NEW i \in Ids, Touches(n, i) PROVE m.seq < n.seq /\ n.seq \in Nat
    OBVIOUS
  <2>1. n \in queue \cup replay \/ (n \in window /\ Beyond(n))
    BY <1>0, <1>13 DEF UnderWay, Beyond
  <2>2. CASE n \in queue \cup replay
    <3>1. Live(n)
      BY <2>2, <1>2, TouchingIsLive
    <3> QED
      BY <3>1, <2>2, <1>0, <1>3 DEF Delivery, Order
  <2>3. CASE n \in window /\ Beyond(n)
    BY <2>3, <1>0, <1>3 DEF Beyond
  <2> QED
    BY <2>1, <2>2, <2>3
<1>16. StreamRight'
  <2> SUFFICES ASSUME gap' => FloorPassed', NEW i \in Ids, ~Unannounced(i)',
                      NEW x \in UnderWay', Latest(x, UnderWay', i)
               PROVE  Tells(x, i, store'[i])
    BY DEF StreamRight, Right, Latest, Tells, Touches, Covers, Unannounced
  <2>1. Latest(x, UnderWay, i)
    BY <1>4, <1>14, <1>15 DEF Latest
  <2>2. Right(UnderWay, i, store[i])
    BY <1>0, <1>5, <1>10, <1>12 DEF Delivery, StreamRight
  <2> QED
    BY <2>1, <2>2, <1>0, <1>14 DEF Right
<1>17. StreamQuiet'
  <2> SUFFICES ASSUME gap' => FloorPassed', NEW i \in Ids, Quiet(UnderWay', i)
               PROVE  Has(i)'
    BY DEF StreamQuiet, Quiet, Has, Touches, Covers, Unannounced
  <2>1. gap => FloorPassed
    BY <1>0, <1>12
  <2>2. CASE ~Touches(m, i)
    <3>1. Quiet(UnderWay, i)
      BY <2>2, <1>14 DEF Quiet
    <3>2. Has(i)
      BY <3>1, <2>1, <1>5 DEF Delivery, StreamQuiet
    <3> QED
      BY <3>2, <2>2, <1>6 DEF StillHas
  <2>3. CASE Touches(m, i)
    <3>1. Latest(m, UnderWay, i)
      BY <2>3, <1>4, <1>14 DEF Latest, Quiet
    <3>2. Unannounced(i) \/ Right(UnderWay, i, store[i])
      BY <2>1, <1>5 DEF Delivery, StreamRight
    <3>3. CASE Unannounced(i)
      BY <3>3, <1>10 DEF Has
    <3>4. CASE Right(UnderWay, i, store[i])
      <4>1. Tells(m, i, store[i])
        BY <3>1, <3>4, <1>14 DEF Right
      <4> QED
        BY <4>1, <2>3, <1>6
    <3> QED
      BY <3>2, <3>3, <3>4
  <2> QED
    BY <2>2, <2>3
<1>18. PositionQuiet'
  BY <1>0, <1>8, <1>9, <1>17, PositionIsResumable
<1> QED
  BY <1>7, <1>8, <1>9, <1>11, <1>16, <1>17, <1>18 DEF Delivery

-----------------------------------------------------------------------------
(* The invariant is inductive. *)

LEMMA InvParts == StreamInv <=> StreamTypeOK /\ Epochs /\ Delivery /\ Journal /\ ResumeQuiet
BY DEF StreamInv, Shape, Delivery

LEMMA FeedsKeepInv ==
  ASSUME StreamInv, Feeds
  PROVE  StreamInv'
<1>0. StreamTypeOK /\ Epochs /\ Delivery /\ Journal /\ ResumeQuiet
  BY InvParts
<1>1. PICK M : Moves(M)
  BY <1>0, FeedsMove DEF Delivery
<1>2. StreamTypeOK'
  BY <1>0, <1>1, FeedsType
<1>3. Epochs' /\ Numbers' /\ Order' /\ Windowed'
  BY <1>0, <1>1, MovesShape DEF Delivery
<1>4. WindowRight' /\ StreamRight' /\ StreamQuiet' /\ PositionQuiet'
  BY <1>0, <1>1, MovesWindow, MovesRight, MovesQuiet, MovesPosition DEF Delivery
<1>5. Journal' /\ ResumeQuiet'
  BY <1>0, <1>1, MovesJournal, MovesResume DEF Delivery
<1>6. GoneIsGone'
  <2>0. GoneIsGone /\ store \in [Ids -> Versions] /\ gone \subseteq Ids
    BY <1>0 DEF Delivery, StreamTypeOK
  <2>1. ASSUME NEW i \in Ids, Write(i) PROVE GoneIsGone'
    <3>1. PICK v \in Versions \ {0, store[i]} : store' = [store EXCEPT ![i] = v]
      BY <2>1 DEF Write
    <3>2. gone' = gone \ {i}
      BY <2>1 DEF Write
    <3> QED
      BY <3>1, <3>2, <2>0 DEF GoneIsGone
  <2>2. ASSUME NEW i \in Ids, Evict(i) PROVE GoneIsGone'
    <3>1. store' = [store EXCEPT ![i] = 0] /\ gone' \subseteq gone \cup {i}
      BY <2>2 DEF Evict, AnnounceLater
    <3> QED
      BY <3>1, <2>0 DEF GoneIsGone
  <2>3. ASSUME NEW i \in Ids, Enrich(i) PROVE GoneIsGone'
    <3>1. PICK v \in Versions \ {0, store[i]} : store' = [store EXCEPT ![i] = v]
      BY <2>3 DEF Enrich
    <3>2. gone' = gone /\ store[i] # 0
      BY <2>3 DEF Enrich
    <3> QED
      BY <3>1, <3>2, <2>0 DEF GoneIsGone
  <2>4. CASE Announce \/ AnnounceFails \/ PublishOther \/ Trim
    BY <2>4, <2>0 DEF Announce, AnnounceFails, PublishOther, Trim, feedVars, GoneIsGone
  <2>5. CASE Prune
    BY <2>5 DEF Prune, GoneIsGone
  <2> QED
    BY <2>1, <2>2, <2>3, <2>4, <2>5 DEF Feeds
<1> QED
  BY <1>2, <1>3, <1>4, <1>5, <1>6 DEF StreamInv, Shape

LEMMA SessionKeepsInv ==
  ASSUME StreamInv, Session
  PROVE  StreamInv'
<1>0. StreamTypeOK /\ Epochs /\ Delivery /\ Journal /\ ResumeQuiet /\ Numbers
  BY InvParts DEF Delivery
<1>1. StreamTypeOK'
  BY <1>0, SessionType, SendType DEF Session
<1>2. Journal'
  BY <1>0, JournalStep
<1>3. CASE Connect \/ Take
  <2>1. Delivery'
    BY <1>0, <1>3, ConnectDelivers, TakeDelivers
  <2>2. UNCHANGED <<feedVars, busVars, tabVars>>
    BY <1>3 DEF Connect, Take
  <2>3. \A i \in Ids : StillHas(i)
    BY <2>2, SameTabKeeps DEF tabVars
  <2>4. ResumeQuiet'
    BY <2>2, <2>3, <1>0, ResumeKept DEF tabVars
  <2>5. Epochs'
    BY <2>2, <1>0 DEF tabVars, busVars, Epochs
  <2> QED
    BY <2>1, <2>4, <2>5, <1>1, <1>2 DEF StreamInv, Shape, Delivery
\* The other steps stamp the position.
<1>4. ASSUME Delivery', UNCHANGED <<epoch, seq>>, last' = [epoch |-> epoch, seq |-> position'],
             stream' = "open"
      PROVE  StreamInv'
  <2>1. ResumeQuiet'
    BY <1>4, Stamped DEF Delivery
  <2>2. position' <= seq'
    BY <1>4 DEF Delivery, Numbers
  <2>3. Epochs'
    BY <2>2, <1>0, <1>4 DEF Epochs, StreamTypeOK
  <2> QED
    BY <2>1, <2>3, <1>1, <1>2, <1>4 DEF StreamInv, Shape, Delivery
<1>5. CASE Hello
  <2>1. Delivery'
    BY <1>0, <1>5, HelloDelivers
  <2>2. UNCHANGED <<epoch, seq>> /\ last' = [epoch |-> epoch, seq |-> position'] /\ stream' = "open"
    BY <1>5 DEF Hello, busVars, Here
  <2> QED
    BY <2>1, <2>2, <1>4
<1>6. CASE Checkpoint \/ AccessChanged
  <2>1. UNCHANGED <<feedVars, busVars, streamVars>>
    BY <1>6 DEF Checkpoint, AccessChanged
  <2>2. \A i \in Ids : StillHas(i)
    <3>1. CASE Checkpoint
      BY <3>1, SameTabKeeps DEF Checkpoint
    <3>2. CASE AccessChanged
      BY <3>2, <1>0, DropBatchKeeps
    <3> QED
      BY <1>6, <3>1, <3>2
  <2>3. Delivery'
    BY <2>1, <2>2, <1>0, TabMoves
  <2>4. UNCHANGED <<epoch, seq>> /\ last' = [epoch |-> epoch, seq |-> position'] /\ stream' = "open"
    BY <2>1, <1>6 DEF Checkpoint, AccessChanged, busVars, streamVars, Here
  <2> QED
    BY <2>3, <2>4, <1>4
<1>7. CASE Send
  <2>1. Delivery'
    BY <1>0, <1>1, <1>7, SendDelivers
  <2>2. PICK m : /\ Sent(m)
                 /\ \/ last' = Here(Advance(m))
                    \/ m.kind = "private" /\ UNCHANGED tabVars
    BY <1>0, <1>7, SendSends
  <2>3. /\ UNCHANGED <<feedVars, busVars, epoch, seq, stream>> /\ stream = "open"
        /\ position' = Advance(m)
    BY <2>2, <1>0 DEF Sent, busVars, Numbers
  <2>4. CASE last' = Here(Advance(m))
    <3>1. last' = [epoch |-> epoch, seq |-> position']
      BY <2>3, <2>4 DEF Here
    <3> QED
      BY <3>1, <2>1, <2>3, <1>4
  <2>5. CASE UNCHANGED tabVars
    <3>1. \A i \in Ids : StillHas(i)
      BY <2>3, <2>5, SameTabKeeps DEF tabVars
    <3>2. ResumeQuiet'
      BY <2>3, <2>5, <3>1, <1>0, ResumeKept DEF tabVars
    <3>3. Epochs'
      BY <2>3, <2>5, <1>0 DEF tabVars, Epochs
    <3> QED
      BY <2>1, <3>2, <3>3, <1>1, <1>2 DEF StreamInv, Shape, Delivery
  <2> QED
    BY <2>2, <2>4, <2>5
<1> QED
  BY <1>3, <1>5, <1>6, <1>7 DEF Session

LEMMA FaultsKeepInv ==
  ASSUME StreamInv, Faults
  PROVE  StreamInv'
<1>0. StreamTypeOK /\ Epochs /\ Delivery /\ Journal /\ ResumeQuiet
  BY InvParts
<1>1. StreamTypeOK' /\ Delivery' /\ Journal'
  BY <1>0, FaultsType, FaultsDeliver, JournalStep
<1>2. CASE Disconnect
  <2>1. UNCHANGED <<feedVars, busVars, tabVars>>
    BY <1>2 DEF Disconnect
  <2>2. \A i \in Ids : StillHas(i)
    BY <2>1, SameTabKeeps DEF tabVars
  <2>3. ResumeQuiet'
    BY <2>1, <2>2, <1>0, ResumeKept DEF tabVars
  <2>4. Epochs'
    BY <2>1, <1>0 DEF tabVars, busVars, Epochs
  <2> QED
    BY <2>3, <2>4, <1>1, InvParts DEF StreamInv, Shape, Delivery
<1>3. CASE Restart \/ Hide
  <2>1. last'.epoch \in Nat /\ last'.epoch < epoch' /\ epoch' >= 1
    <3>1. epoch \in Nat /\ last.epoch \in Nat /\ last.epoch <= epoch /\ epoch >= 1
      BY <1>0 DEF StreamTypeOK, Epochs
    <3>2. CASE Restart
      BY <3>1, <3>2 DEF Restart, tabVars
    <3>3. CASE Hide
      BY <3>1, <3>3 DEF Hide, busVars, NeverConnected
    <3> QED
      BY <1>3, <3>2, <3>3
  <2>2. epoch' \in Nat
    BY <1>1 DEF StreamTypeOK
  <2>3. Epochs' /\ ~Resumable'
    BY <2>1, <2>2 DEF Epochs, Resumable
  <2>4. ResumeQuiet'
    BY <2>3 DEF ResumeQuiet
  <2> QED
    BY <2>3, <2>4, <1>1 DEF StreamInv, Shape, Delivery
\* What the new position passes over is given up; the rest the tab has.
<1>4. CASE IdleExpires
  <2>1. /\ UNCHANGED <<feedVars, busVars>> /\ last' = [epoch |-> epoch, seq |-> position]
        /\ stream = "opening" /\ PassedOver \subseteq lost'
    BY <1>4 DEF IdleExpires, Here
  <2>2. /\ Numbers /\ PositionQuiet /\ \A i \in Ids : StillHas(i)
    BY <1>0, <1>4, DropBatchKeeps DEF Delivery
  <2>3. Epochs'
    BY <2>1, <2>2, <1>0 DEF busVars, Epochs, Numbers, StreamTypeOK
  <2>4. ResumeQuiet'
    <3> SUFFICES ASSUME Resumable', NEW i \in Ids, Quiet(Missed', i)
                 PROVE  Has(i)'
      BY DEF ResumeQuiet, Quiet, Touches, Covers
    <3>1. Missed' = After(position) /\ floor <= position
      BY <2>1 DEF Missed, After, Resumable, busVars
    <3>2. CASE resumed \/ TabHas(i)
      <4>1. Has(i)
        BY <3>1, <3>2, <2>1, <2>2 DEF PositionQuiet, Has
      <4> QED
        BY <4>1, <2>2 DEF StillHas
    <3>3. CASE ~resumed /\ ~TabHas(i)
      BY <3>3, <2>1 DEF PassedOver, Has
    <3> QED
      BY <3>2, <3>3
  <2> QED
    BY <2>3, <2>4, <1>1 DEF StreamInv, Shape, Delivery
<1> QED
  BY <1>2, <1>3, <1>4 DEF Faults

LEMMA TabKeepsInv ==
  ASSUME StreamInv, Tab
  PROVE  StreamInv'
<1>0. StreamTypeOK /\ Epochs /\ Delivery /\ Journal /\ ResumeQuiet
  BY InvParts
<1>1. UNCHANGED <<feedVars, busVars, streamVars, last>>
  BY TabKeepsOthers
<1>2. \A i \in Ids : StillHas(i)
  BY <1>0, TabKeeps
<1>3. StreamTypeOK' /\ Journal'
  BY <1>0, TabType, JournalStep
<1>4. Delivery' /\ ResumeQuiet'
  BY <1>0, <1>1, <1>2, TabMoves, ResumeKept
<1>5. Epochs'
  BY <1>0, <1>1 DEF busVars, Epochs
<1> QED
  BY <1>3, <1>4, <1>5 DEF StreamInv, Shape, Delivery

LEMMA StutterKeepsInv ==
  ASSUME StreamInv, UNCHANGED vars
  PROVE  StreamInv'
<1>0. StreamTypeOK /\ Epochs /\ Delivery /\ Journal /\ ResumeQuiet
  BY InvParts
<1>1. UNCHANGED <<feedVars, busVars, streamVars, last, loadVars, mirrorVars>>
  BY DEF vars, tabVars
<1>2. \A i \in Ids : StillHas(i)
  BY <1>1, SameTabKeeps
<1>3. StreamTypeOK'
  BY <1>0, <1>1 DEF feedVars, busVars, streamVars, loadVars, mirrorVars, StreamTypeOK
<1>4. Delivery' /\ ResumeQuiet'
  BY <1>0, <1>1, <1>2, TabMoves, ResumeKept
<1>5. Epochs' /\ Journal'
  BY <1>0, <1>1 DEF busVars, loadVars, mirrorVars, Epochs, Journal
<1> QED
  BY <1>3, <1>4, <1>5 DEF StreamInv, Shape, Delivery

LEMMA InitInv == Init => StreamInv
<1> SUFFICES ASSUME Init PROVE StreamInv
  OBVIOUS
<1>1. StreamTypeOK
  BY InitType
<1>2. /\ epoch = 1 /\ seq = 0 /\ window = {} /\ floor = 0 /\ stream = "closed"
      /\ queue = {} /\ replay = {} /\ hand = {} /\ start = 0 /\ position = 0 /\ gone = {}
      /\ last = NeverConnected /\ journal = NoDelta
  BY DEF Init
<1>3. Epochs /\ Numbers /\ ~Resumable
  BY <1>2 DEF Epochs, Numbers, Distinct, NeverConnected, Resumable
<1>4. Order /\ Windowed /\ GoneIsGone
  BY <1>2 DEF Order, Windowed, GoneIsGone
<1>5. WindowRight /\ StreamRight /\ StreamQuiet /\ PositionQuiet
  BY <1>2 DEF WindowRight, Right, StreamRight, StreamQuiet, PositionQuiet
<1>6. Journal /\ ResumeQuiet
  BY <1>2, <1>3 DEF Journal, NoDelta, ResumeQuiet
<1> QED
  BY <1>1, <1>3, <1>4, <1>5, <1>6 DEF StreamInv, Shape

LEMMA NextInv == StreamInv /\ [Next]_vars => StreamInv'
BY FeedsKeepInv, SessionKeepsInv, FaultsKeepInv, TabKeepsInv, StutterKeepsInv DEF Next

\* Whatever is published, cut, dropped, lost or answered late, in any order: the
\* latest thing the window or the stream says of an observation is what the store
\* holds, and where they say nothing the tab has it, unless the feeds still owe an
\* announcement or the tab gave it up.
THEOREM InvCorrect == Spec => []StreamInv
BY InitInv, NextInv, PTL DEF Spec

-----------------------------------------------------------------------------
(* What the runs check. *)

\* Every variable keeps its type, the expiry list its bound, and a session holds
\* one message at most.
THEOREM StreamTypeCorrect == Spec => []StreamTypeOK
<1>1. StreamInv => StreamTypeOK
  BY InvParts
<1> QED
  BY <1>1, InvCorrect, PTL

LEMMA RightBrings ==
  ASSUME NEW W, W \subseteq Messages, \A m \in W : m.seq <= seq, seq \in Nat, NEW i \in Ids,
         Unannounced(i) \/ Right(W, i, store[i]), Quiet(W, i) => Has(i)
  PROVE  Excused(i) \/ Brings(W, i)
<1> SUFFICES ASSUME ~Excused(i) PROVE Brings(W, i)
  OBVIOUS
<1>0. ~Unannounced(i) /\ i \notin lost
  BY DEF Excused, Unannounced
<1>1. CASE Quiet(W, i)
  <2>1. {m \in W : Touches(m, i)} = {}
    BY <1>1 DEF Quiet
  <2>2. TabHas(i)
    BY <1>0, <1>1 DEF Has
  <2> QED
    BY <2>1, <2>2 DEF Brings
<1>2. CASE ~Quiet(W, i)
  <2>1. PICK m \in W : Latest(m, W, i)
    BY <1>2, LatestExists
  <2>2. Tells(m, i, store[i])
    BY <2>1, <1>0 DEF Right
  <2>3. {n \in W : Touches(n, i)} # {}
    BY <1>2 DEF Quiet
  <2> QED
    BY <2>1, <2>2, <2>3 DEF Brings, Latest, Tells
<1> QED
  BY <1>1, <1>2

LEMMA InvCovers == StreamInv => StreamCovers
<1> SUFFICES ASSUME StreamInv, stream # "closed", ~gap, stream = "open" \/ resumed, NEW i \in Ids
             PROVE  Excused(i) \/ Brings(hand \cup replay \cup queue, i)
  BY DEF StreamCovers
<1>0. StreamTypeOK /\ Numbers /\ StreamRight /\ StreamQuiet
  BY InvParts DEF Delivery
<1>1. UnderWay = hand \cup replay \cup queue
  BY DEF UnderWay
<1>2. UnderWay \subseteq Messages /\ (\A m \in UnderWay : m.seq <= seq) /\ seq \in Nat
  BY <1>0, UnderWayMessages DEF StreamTypeOK
<1>3. Unannounced(i) \/ Right(UnderWay, i, store[i])
  BY <1>0 DEF StreamRight
<1>4. Quiet(UnderWay, i) => Has(i)
  BY <1>0 DEF StreamQuiet
<1>5. Excused(i) \/ Brings(UnderWay, i)
  BY <1>2, <1>3, <1>4, RightBrings
<1> QED
  BY <1>1, <1>5

\* What is on its way to an open stream ends in the store's versions, whatever the
\* queue dropped and in whatever order polls, prunes and snapshots came.
THEOREM CoversCorrect == Spec => []StreamCovers
BY InvCorrect, InvCovers, PTL

LEMMA InvPosition == StreamInv => PositionKept
<1> SUFFICES ASSUME StreamInv, Resumable, NEW i \in Ids
             PROVE  Excused(i) \/ Brings(Missed, i)
  BY DEF PositionKept
<1>0. /\ StreamTypeOK /\ Numbers /\ WindowRight /\ ResumeQuiet
      /\ window \subseteq Messages /\ seq \in Nat /\ last.seq \in Nat
  BY InvParts DEF Delivery, StreamTypeOK
<1>1. Missed \subseteq Messages /\ \A m \in Missed : m.seq <= seq
  BY <1>0 DEF Missed, Numbers
<1>2. Unannounced(i) \/ Right(Missed, i, store[i])
  <2> SUFFICES ASSUME ~Unannounced(i), NEW x \in Missed, Latest(x, Missed, i)
               PROVE  Tells(x, i, store[i])
    BY DEF Right
  <2>1. ASSUME NEW n \in window, Touches(n, i) PROVE n.seq <= x.seq
    <3>1. n.seq \in Nat /\ x.seq \in Nat /\ x.seq > last.seq
      BY <1>0 DEF Messages, Missed
    <3>2. n.seq > last.seq => n.seq <= x.seq
      BY <2>1 DEF Missed, Latest
    <3> QED
      BY <3>1, <3>2, <1>0
  <2>2. Latest(x, window, i) /\ x \in window
    BY <2>1 DEF Latest, Missed
  <2> QED
    BY <2>2, <1>0 DEF WindowRight, Right
<1>3. Quiet(Missed, i) => Has(i)
  BY <1>0 DEF ResumeQuiet
<1> QED
  BY <1>0, <1>1, <1>2, <1>3, RightBrings

\* If the connection broke now, the replay after the id the tab would send is all
\* the mirror needs, except for what an idle expiry before hello passed over.
THEOREM PositionCorrect == Spec => []PositionKept
BY InvCorrect, InvPosition, PTL

LEMMA CoversMirror == StreamInv => MirrorCurrent
<1> SUFFICES ASSUME StreamInv, AtRest, NEW i \in Ids, ~Excused(i)
             PROVE  mirror[i] = store[i]
  BY DEF MirrorCurrent
<1>0. /\ StreamTypeOK /\ StreamCovers /\ store[i] # Same
      /\ queue \subseteq Messages
  BY InvCovers, InvParts, SameIsNoVersion DEF StreamTypeOK
<1>1. /\ stream = "open" /\ hand = {} /\ replay = {} /\ ~gap /\ wanted = {} /\ load = "none"
      /\ batch[i] = Same /\ \A m \in queue : ~Live(m)
  BY DEF AtRest, NoDelta, Live
<1>2. Brings(queue, i)
  BY <1>0, <1>1 DEF StreamCovers
<1>3. {m \in queue : Touches(m, i)} = {}
  BY <1>0, <1>1, TouchingIsLive
<1>4. TabHas(i)
  BY <1>2, <1>3 DEF Brings
<1> QED
  BY <1>0, <1>1, <1>4 DEF TabHas, Covers

\* A tab at rest shows the store, except for what the feeds have not announced yet
\* and what the tab gave up.
THEOREM MirrorCorrect == Spec => []MirrorCurrent
BY InvCorrect, CoversMirror, PTL

=============================================================================
