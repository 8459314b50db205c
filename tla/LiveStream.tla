----------------------------- MODULE LiveStream -----------------------------
(***************************************************************************)
(* The live map: feed polls write the shared observation store and the bus *)
(* announces each change; a stream session carries the announcements to a  *)
(* browser tab, which keeps a mirror of the store and reloads a snapshot   *)
(* when it has missed some.                                                *)
(*                                                                         *)
(* One tab is modelled: streams do not touch one another.  An observation  *)
(* is an id with a version, 0 for "not in the store".  A message carries   *)
(* its sequence number, and every queue is the set of its messages, read   *)
(* in the order of those numbers.  A frame either reaches the tab in the   *)
(* step that sends it or is lost with the connection.                      *)
(***************************************************************************)
EXTENDS Integers, FiniteSets

CONSTANTS
  Ids,        \* observations
  CatOf,      \* the category (partition) of each
  MaxVersion, \* versions an observation may have
  MaxQueue,   \* the bus's max_queue
  MaxWindow,  \* MAX_REPLAY_MESSAGES
  MaxGone,    \* MAX_PRUNE_IDS
  MaxRetries, \* MAX_REFRESH_RETRIES
  MaxSeq,     \* bound: messages published by the first process
  MaxLater,   \* bound: messages published by each later process
  MaxEpoch    \* bound: processes, that is restarts of the API and one

Categories == {CatOf[i] : i \in Ids}
\* a hint that names no partition
All == 0

ASSUME StreamAssumption ==
  /\ IsFiniteSet(Ids) /\ All \notin Categories
  /\ MaxVersion \in Nat /\ MaxQueue \in Nat \ {0} /\ MaxWindow \in Nat /\ MaxGone \in Nat
  /\ MaxRetries \in Nat /\ MaxSeq \in Nat /\ MaxLater \in Nat /\ MaxEpoch \in Nat

VARIABLES
  store,    \* the version of each observation in the store
  changed,  \* ids a feed poll has written or regraded and not announced
  gone,     \* _pending_expiry: ids evicted and not announced
  overflow, \* _pending_overflow
  epoch,    \* the process
  seq,      \* last_sequence
  window,   \* the replay buffer's messages
  floor,    \* the highest sequence discarded from it
  stream,   \* the tab's stream session: closed, opening (before hello) or open
  queue,    \* the subscription's queue
  gap,      \* _resync_needed
  replay,   \* _pending: messages still to be replayed
  resumed,  \* what hello will say
  start,    \* last_sequence when the session subscribed
  position, \* the cursor's position
  hand,     \* the message taken and not yet sent, as a set
  last,     \* the tab's lastEventId: a process and a sequence number
  mirror,   \* the version of each observation the tab shows
  batch,    \* EventUpdateBatch: the latest delta of each id, not applied yet
  load,     \* the snapshot request: none, asked, or answered by the server
  scope,    \* the partitions it asks for; with All it replaces everything
  soft,     \* it is a refresh: a failure is retried
  answer,   \* the store as it was read for it
  journal,  \* deltas applied while it is open
  wanted,   \* SnapshotRefresh.requested
  complete, \* a full snapshot has completed since the mirror was cleared
  loaded,   \* the mirror shows something
  error,    \* none, a failed load, or a refresh given up
  failures, \* refreshes failed in a row
  lost      \* history: ids whose latest change the tab threw away or gave up
            \* loading, or that its position passed over

feedVars == <<store, changed, gone, overflow>>
busVars == <<epoch, seq, window, floor>>
streamVars == <<stream, queue, gap, replay, resumed, start, position, hand>>
loadVars == <<load, scope, soft, answer, journal>>
mirrorVars == <<mirror, batch, complete, loaded, error, failures, wanted, lost>>
tabVars == <<last, loadVars, mirrorVars>>
vars == <<feedVars, busVars, streamVars, tabVars>>

Versions == 0..MaxVersion
\* in a delta: this id is not mentioned
Same == -1
Deltas == [Ids -> Versions \cup {Same}]
NoDelta == [i \in Ids |-> Same]
Empty == [i \in Ids |-> 0]
Scopes == SUBSET (Categories \cup {All})
Everything == Categories \cup {All}
Covers(s, i) == CatOf[i] \in s \/ All \in s
Over(delta, versions) == [i \in Ids |-> IF delta[i] = Same THEN versions[i] ELSE delta[i]]
Named(delta) == {i \in Ids : delta[i] # Same}
Only(S, versions) == [i \in Ids |-> IF i \in S THEN versions[i] ELSE Same]

\* A delta is an upsert or an expire; a hint is a resync with the reason
\* snapshot_required; a gap is a resync with any other reason; a private message
\* is an alert, a bell or session signal.
LiveKinds == {"delta", "hint", "gap"}
ReplayableKinds == LiveKinds \cup {"health"}
Messages == [kind : ReplayableKinds \cup {"private"}, seq : Nat, now : Deltas, cats : Scopes]
NeverConnected == [epoch |-> 0, seq |-> 0]

Init ==
  /\ store = Empty /\ changed = {} /\ gone = {} /\ overflow = FALSE
  /\ epoch = 1 /\ seq = 0 /\ window = {} /\ floor = 0
  /\ stream = "closed" /\ queue = {} /\ gap = FALSE /\ replay = {}
  /\ resumed = FALSE /\ start = 0 /\ position = 0 /\ hand = {}
  /\ last = NeverConnected
  /\ mirror = Empty /\ batch = NoDelta
  /\ load = "none" /\ scope = {} /\ soft = FALSE /\ answer = Empty /\ journal = NoDelta
  /\ wanted = {} /\ complete = FALSE /\ loaded = FALSE /\ error = "none" /\ failures = 0
  /\ lost = {}

-----------------------------------------------------------------------------
(* The bus.  A definition commented "Faulty:" is a plausible mistake in the   *)
(* next one, which no action uses.                                            *)

Oldest(S) == CHOOSE m \in S : \A n \in S : m.seq <= n.seq

Kept(m) == m.kind \in ReplayableKinds

\* ReplayBuffer.record, with the bound by count of _trim
Record(m) ==
  LET with == IF Kept(m) THEN window \cup {m} ELSE window IN
  IF Cardinality(with) > MaxWindow
  THEN window' = with \ {Oldest(with)} /\ floor' = Oldest(with).seq
  ELSE window' = with /\ UNCHANGED floor

\* Faulty: a hint that is dropped leaves no gap.
DroppedDelta(m) == m.kind = "delta"
LeavesGap(m) == m.kind \in LiveKinds

\* InMemorySubscription.push, when the tab has a subscription
Push(m) ==
  IF stream = "closed" THEN UNCHANGED <<queue, gap>>
  ELSE IF Cardinality(queue) >= MaxQueue
  THEN /\ queue' = (queue \ {Oldest(queue)}) \cup {m}
       /\ gap' = (gap \/ LeavesGap(Oldest(queue)))
  ELSE queue' = queue \cup {m} /\ UNCHANGED gap

\* publish_nowait
Publish(kind, now, cats) ==
  LET m == [kind |-> kind, seq |-> seq + 1, now |-> now, cats |-> cats] IN
  /\ seq' = seq + 1
  /\ Record(m) /\ Push(m)
  /\ UNCHANGED <<epoch, stream, replay, resumed, start, position, hand, tabVars>>
Delta(now) == Publish("delta", now, {})
Hint(cats) == Publish("hint", NoDelta, cats)

\* Publications the present state still owes; the bound on messages leaves room
\* for them, so that it never keeps a change from being announced.
Owed == (IF changed = {} THEN 0 ELSE 1) + (IF gone = {} /\ ~overflow THEN 0 ELSE 1)
RoomFor(n) == seq + Owed + n <= IF epoch = 1 THEN MaxSeq ELSE MaxLater

-----------------------------------------------------------------------------
(* The store and its publishers. *)

\* _insert and _remove by a poll's upsert, or by the regrading of neighbours.
Write(i) ==
  /\ RoomFor(1)
  /\ \E v \in Versions \ {0, store[i]} : store' = [store EXCEPT ![i] = v]
  /\ changed' = changed \cup {i}
  /\ gone' = gone \ {i}
  /\ UNCHANGED <<overflow, busVars, streamVars, tabVars>>

\* Faulty: no bound.
AnnounceAll(i) == gone' = gone \cup {i} /\ UNCHANGED overflow
\* _announce_later
AnnounceLater(i) ==
  IF i \in gone \/ Cardinality(gone) < MaxGone
  THEN gone' = gone \cup {i} /\ UNCHANGED overflow
  ELSE overflow' = TRUE /\ UNCHANGED gone

\* Eviction for the memory budget, or the withdrawal of a disabled source.
Evict(i) ==
  /\ RoomFor(1)
  /\ store[i] # 0
  /\ store' = [store EXCEPT ![i] = 0]
  /\ AnnounceLater(i)
  /\ UNCHANGED <<changed, busVars, streamVars, tabVars>>

Present(S) == {i \in S : store[i] # 0}
CatsOf(S) == {CatOf[i] : i \in S}

\* The end of _store_and_announce: the batch as the store holds it now, which
\* the bus turns into a hint when it is too large.
Announce ==
  /\ changed # {}
  /\ changed' = {}
  /\ \/ Delta(Only(Present(changed), store))
     \/ Present(changed) # {} /\ Hint(CatsOf(Present(changed)))
  /\ UNCHANGED <<store, gone, overflow>>

\* _announce_resync: the write began and then something failed.
AnnounceFails ==
  /\ changed # {}
  /\ changed' = {}
  /\ Hint(CatsOf(changed))
  /\ UNCHANGED <<store, gone, overflow>>

\* A translation or a screening verdict: put and publish without a pause.
Enrich(i) ==
  /\ RoomFor(1)
  /\ store[i] # 0
  /\ \E v \in Versions \ {0, store[i]} :
       /\ store' = [store EXCEPT ![i] = v]
       /\ Delta(Only({i}, store'))
  /\ UNCHANGED <<changed, gone, overflow>>

\* FeedPoller.prune: retention, then everything removed since the last prune.
Prune ==
  \E expired \in SUBSET Present(Ids) :
    LET missing == expired \cup gone IN
    /\ missing # {} \/ overflow
    /\ gone = {} /\ ~overflow => RoomFor(1)
    /\ store' = [i \in Ids |-> IF i \in expired THEN 0 ELSE store[i]]
    /\ gone' = {} /\ overflow' = FALSE
    /\ IF overflow \/ Cardinality(missing) > MaxGone
       THEN Publish("gap", NoDelta, {})
       ELSE Delta(Only(missing, Empty))
    /\ UNCHANGED changed

\* Source health, alerts, bell and session signals.
PublishOther ==
  /\ RoomFor(1)
  /\ \E kind \in {"health", "private"} : Publish(kind, NoDelta, {})
  /\ UNCHANGED feedVars

\* The other bounds of _trim, age and bytes, cut the window at any time.
Trim ==
  /\ window # {}
  /\ window' = window \ {Oldest(window)}
  /\ floor' = Oldest(window).seq
  /\ UNCHANGED <<feedVars, epoch, seq, streamVars, tabVars>>

-----------------------------------------------------------------------------
(* What the tab holds. *)

\* Faulty: the response replaces what arrived while it was open.
AnswerWins(i) == IF Covers(scope, i) THEN answer[i] ELSE mirror[i]
\* The response outside the journal, and only the partitions asked for.
Merged(i) ==
  IF journal[i] # Same THEN journal[i] ELSE IF Covers(scope, i) THEN answer[i] ELSE mirror[i]

\* What the tab holds of i becomes the store's version without another message.
TabHas(i) ==
  \/ Covers(wanted, i)
  \/ batch[i] = store[i]
  \/ /\ batch[i] = Same
     /\ \/ load = "none" /\ mirror[i] = store[i]
        \/ load = "asked" /\ journal[i] = Same /\ Covers(scope, i)
        \/ load # "none" /\ Merged(i) = store[i]

-----------------------------------------------------------------------------
(* The stream session. *)

Closed ==
  /\ stream' = "closed" /\ queue' = {} /\ gap' = FALSE /\ replay' = {}
  /\ resumed' = FALSE /\ start' = 0 /\ position' = 0 /\ hand' = {}

\* bus.replay
Resumable == last.epoch = epoch /\ last.seq <= seq /\ last.seq >= floor
Missed == {m \in window : m.seq > last.seq}

\* frames, up to the await of the access check
Connect ==
  /\ stream = "closed"
  /\ stream' = "opening"
  /\ queue' = {} /\ gap' = FALSE /\ hand' = {}
  /\ start' = seq
  /\ resumed' = Resumable
  /\ replay' = IF Resumable THEN Missed ELSE {}
  /\ position' = IF Resumable /\ Missed # {} THEN last.seq ELSE seq
  /\ UNCHANGED <<feedVars, busVars, tabVars>>

\* What _resynchronise leaves in the queue
KeepOthers(Q) == {m \in Q : m.kind \notin LiveKinds}
StreamGap == [kind |-> "gap", seq |-> seq, now |-> NoDelta, cats |-> {}]

\* _next_message: replayed messages first, then a pending gap, then the queue.
Take ==
  /\ stream = "open" /\ hand = {}
  /\ \/ /\ replay # {}
        /\ hand' = {Oldest(replay)} /\ replay' = replay \ hand'
        /\ UNCHANGED <<queue, gap>>
     \/ /\ replay = {} /\ gap
        /\ hand' = {StreamGap} /\ queue' = KeepOthers(queue) /\ gap' = FALSE
        /\ UNCHANGED replay
     \/ /\ replay = {} /\ ~gap /\ queue # {}
        /\ hand' = {Oldest(queue)} /\ queue' = queue \ hand'
        /\ UNCHANGED <<replay, gap>>
  /\ UNCHANGED <<feedVars, busVars, stream, resumed, start, position, tabVars>>

Later(a, b) == IF a < b THEN b ELSE a
\* Faulty: the cursor reaches the start with the first replayed message.
AdvanceEarly(m) == Later(Later(position, m.seq), start)
\* cursor.advance, once more at the end of the replay
Advance(m) ==
  LET reached == Later(position, m.seq) IN
  IF m.seq <= start /\ replay = {} THEN Later(reached, start) ELSE reached

Here(p) == [epoch |-> epoch, seq |-> p]
\* A frame with its id; what the tab does with it is said by the action.
SendFrame(m) ==
  /\ hand = {m} /\ hand' = {}
  /\ position' = Advance(m)
  /\ last' = Here(Advance(m))
  /\ UNCHANGED <<feedVars, busVars, stream, queue, gap, replay, resumed, start>>

\* What the first position of a session that does not resume passes over.
PassedOver == IF resumed THEN {} ELSE {i \in Ids : ~TabHas(i)}

\* The access check before hello finds the session idle: access.changed and bye
\* carry the session's first position, although nothing was replayed or reloaded.
\* The tab connects again with it if its refresh is still accepted.
IdleExpires ==
  /\ stream = "opening"
  /\ Closed
  /\ last' = Here(position)
  /\ batch' = NoDelta
  /\ lost' = lost \cup Named(batch) \cup PassedOver
  /\ UNCHANGED <<feedVars, busVars, loadVars,
                 mirror, complete, loaded, error, failures, wanted>>

\* A bye, a network failure or the idle timeout: nothing in hand was sent, and
\* the position is the one already sent.
Disconnect ==
  /\ stream # "closed"
  /\ Closed
  /\ UNCHANGED <<feedVars, busVars, tabVars>>

\* The API process ends; the next one restores some snapshot file.
Restart ==
  /\ epoch < MaxEpoch
  /\ epoch' = epoch + 1 /\ seq' = 0 /\ window' = {} /\ floor' = 0
  /\ store' \in [Ids -> Versions]
  /\ changed' = {} /\ gone' = {} /\ overflow' = FALSE
  /\ Closed
  /\ UNCHANGED tabVars

-----------------------------------------------------------------------------
(* The tab. *)

\* applyBatch with everything batched so far
FlushBatch ==
  /\ mirror' = Over(batch, mirror)
  /\ batch' = NoDelta

\* begin(): flush, forget the hints, open a new request and its journal.
BeginLoad(s, isSoft) ==
  /\ FlushBatch
  /\ load' = "asked" /\ scope' = s /\ soft' = isSoft
  /\ answer' = Empty /\ journal' = NoDelta
  /\ wanted' = {}
  /\ error' = IF All \in s THEN "none" ELSE error
  /\ lost' = {i \in lost : ~Covers(s, i)}
  /\ UNCHANGED <<complete, loaded, failures>>
NoLoad ==
  /\ load' = "none" /\ scope' = {} /\ soft' = FALSE /\ answer' = Empty /\ journal' = NoDelta

Healthy == error = "none" /\ (loaded \/ load # "none")

\* hello and onHello.  After an unresumable position the session also sends a
\* hint under the same id, which the tab skips.
Hello ==
  /\ stream = "opening"
  /\ stream' = "open"
  /\ last' = Here(position)
  /\ IF resumed /\ Healthy THEN UNCHANGED <<loadVars, mirrorVars>> ELSE BeginLoad(Everything, FALSE)
  /\ UNCHANGED <<feedVars, busVars, queue, gap, replay, resumed, start, position, hand>>

\* EventUpdateBatch.receive of an upsert or an expire
SendDelta ==
  /\ \E m \in hand : m.kind = "delta" /\ SendFrame(m)
                     /\ batch' = Over(m.now, batch)
                     /\ lost' = lost \ Named(m.now)
  /\ UNCHANGED <<loadVars, mirror, complete, loaded, error, failures, wanted>>

\* Deltas applied to the mirror are journalled while a request is open.
Journalled == IF load = "none" THEN journal ELSE Over(batch, journal)

\* A hint: flush, then ask for a refresh.
SendHint ==
  /\ \E m \in hand : m.kind = "hint" /\ SendFrame(m) /\ wanted' = wanted \cup m.cats
  /\ FlushBatch /\ journal' = Journalled
  /\ UNCHANGED <<load, scope, soft, answer, complete, loaded, error, failures, lost>>

\* A gap or an expiry overflow: clear everything and load.
SendGap ==
  /\ \E m \in hand : m.kind = "gap" /\ SendFrame(m)
  /\ mirror' = Empty /\ batch' = NoDelta
  /\ load' = "asked" /\ scope' = Everything /\ soft' = FALSE
  /\ answer' = Empty /\ journal' = NoDelta
  /\ wanted' = {} /\ error' = "none" /\ failures' = 0
  /\ complete' = FALSE /\ loaded' = FALSE /\ lost' = {}

\* Health, alerts, bell: the mirror is not concerned.  For what is not encoded
\* the position is sent with a later frame or with an id-only one.
SendOther ==
  /\ \E m \in hand :
       /\ m.kind \in {"health", "private"}
       /\ \/ SendFrame(m)
          \/ /\ m.kind = "private"
             /\ hand' = {} /\ position' = Advance(m)
             /\ UNCHANGED <<last, feedVars, busVars, stream, queue, gap, replay, resumed, start>>
  /\ UNCHANGED <<loadVars, mirrorVars>>

\* StreamCursor.checkpoint on an idle wake
Checkpoint ==
  /\ stream = "open" /\ hand = {}
  /\ last # Here(position)
  /\ last' = Here(position)
  /\ UNCHANGED <<feedVars, busVars, streamVars, loadVars, mirrorVars>>

\* _recheck finds changed access: the tab clears its batch and reloads what
\* depends on access, which the mirror does not.
AccessChanged ==
  /\ stream = "open"
  /\ last' = Here(position)
  /\ batch' = NoDelta
  /\ lost' = lost \cup Named(batch)
  /\ UNCHANGED <<feedVars, busVars, streamVars, loadVars,
                 mirror, complete, loaded, error, failures, wanted>>

\* The timer of EventUpdateBatch
Flush ==
  /\ batch # NoDelta
  /\ FlushBatch /\ journal' = Journalled
  /\ UNCHANGED <<feedVars, busVars, streamVars, last, load, scope, soft, answer,
                 complete, loaded, error, failures, wanted, lost>>

\* The fallback timer of useLiveEvents, or a reload by the user.
Reload ==
  /\ BeginLoad(Everything, FALSE)
  /\ UNCHANGED <<feedVars, busVars, streamVars, last>>

\* The timer of SnapshotRefresh
Refresh ==
  /\ load = "none" /\ wanted # {}
  /\ BeginLoad(IF All \in wanted \/ ~complete THEN Everything ELSE wanted, TRUE)
  /\ UNCHANGED <<feedVars, busVars, streamVars, last>>

\* The server reads the store for the request.
ReadStore ==
  /\ load = "asked"
  /\ load' = "read" /\ answer' = store
  /\ UNCHANGED <<feedVars, busVars, streamVars, last, scope, soft, journal, mirrorVars>>

\* publish and the end of run
ApplySnapshot ==
  /\ load = "read"
  /\ mirror' = [i \in Ids |-> Merged(i)]
  /\ loaded' = TRUE /\ failures' = 0
  /\ complete' = (complete \/ All \in scope)
  /\ error' = IF All \in scope \/ error = "refresh" THEN "none" ELSE error
  /\ NoLoad
  /\ UNCHANGED <<feedVars, busVars, streamVars, last, batch, wanted, lost>>

\* Faulty: the failed partitions are not asked for again.
DropFailed == {}
\* The observations the request was for
Asked == {i \in Ids : Covers(scope, i)}
Again == IF All \in scope THEN {All} ELSE scope
\* The catch of run
LoadFails ==
  /\ load # "none"
  /\ NoLoad
  /\ \/ /\ ~soft
        /\ error' = "load" /\ loaded' = TRUE
        /\ lost' = lost \cup Asked
        /\ UNCHANGED <<failures, wanted>>
     \/ /\ soft /\ failures < MaxRetries
        /\ failures' = failures + 1 /\ wanted' = wanted \cup Again
        /\ UNCHANGED <<error, loaded, lost>>
     \/ /\ soft /\ failures >= MaxRetries
        /\ failures' = MaxRetries + 1 /\ error' = "refresh"
        /\ lost' = lost \cup Asked
        /\ UNCHANGED <<wanted, loaded>>
  /\ UNCHANGED <<feedVars, busVars, streamVars, last, mirror, batch, complete>>

\* The tab is hidden or the globe is left: the client stops, and the next one
\* has no position.
Hide ==
  /\ stream # "closed" \/ last # NeverConnected
  /\ Closed
  /\ last' = NeverConnected
  /\ batch' = NoDelta /\ wanted' = {}
  /\ NoLoad
  /\ UNCHANGED <<feedVars, busVars, mirror, complete, loaded, error, failures, lost>>

-----------------------------------------------------------------------------
Feeds == \/ \E i \in Ids : Write(i) \/ Evict(i) \/ Enrich(i)
         \/ Announce \/ AnnounceFails \/ Prune \/ PublishOther \/ Trim
Send == SendDelta \/ SendHint \/ SendGap \/ SendOther
Session == Connect \/ Hello \/ Take \/ Send \/ Checkpoint \/ AccessChanged
Faults == IdleExpires \/ Disconnect \/ Restart \/ Hide
Tab == Flush \/ Reload \/ Refresh \/ ReadStore \/ ApplySnapshot \/ LoadFails
Next == Feeds \/ Session \/ Faults \/ Tab
Spec == Init /\ [][Next]_vars

\* The feeds, the browser's loop and timers and the server's requests go on.
PruneOwed == Prune /\ (gone # {} \/ overflow)
Fairness ==
  /\ WF_vars(Announce) /\ WF_vars(PruneOwed)
  /\ WF_vars(Connect) /\ WF_vars(Hello) /\ WF_vars(Take) /\ WF_vars(Send)
  /\ WF_vars(Flush) /\ WF_vars(Refresh) /\ WF_vars(ReadStore) /\ WF_vars(ApplySnapshot)
FairSpec == Spec /\ Fairness

-----------------------------------------------------------------------------
(* Properties. *)

\* Every variable has its type; a session holds at most one message.
StreamTypeOK ==
  /\ store \in [Ids -> Versions] /\ changed \subseteq Ids
  /\ gone \subseteq Ids /\ Cardinality(gone) <= MaxGone /\ overflow \in BOOLEAN
  /\ epoch \in Nat /\ seq \in Nat /\ floor \in Nat
  /\ window \subseteq Messages /\ queue \subseteq Messages
  /\ replay \subseteq Messages /\ hand \subseteq Messages /\ Cardinality(hand) <= 1
  /\ stream \in {"closed", "opening", "open"} /\ gap \in BOOLEAN /\ resumed \in BOOLEAN
  /\ start \in Nat /\ position \in Nat /\ last \in [epoch : Nat, seq : Nat]
  /\ mirror \in [Ids -> Versions] /\ batch \in Deltas
  /\ load \in {"none", "asked", "read"} /\ scope \in Scopes /\ soft \in BOOLEAN
  /\ answer \in [Ids -> Versions] /\ journal \in Deltas
  /\ wanted \in Scopes /\ complete \in BOOLEAN /\ loaded \in BOOLEAN
  /\ error \in {"none", "load", "refresh"} /\ failures \in Nat /\ lost \subseteq Ids

Touches(m, i) ==
  \/ m.kind = "delta" /\ m.now[i] # Same
  \/ m.kind = "hint" /\ Covers(m.cats, i)
  \/ m.kind = "gap"

\* The messages W bring the tab to the store's version of i, or ask it to load.
Brings(W, i) ==
  LET T == {m \in W : Touches(m, i)} IN
  IF T = {} THEN TabHas(i)
  ELSE \E m \in T : /\ \A n \in T : n.seq <= m.seq
                    /\ m.kind \in {"hint", "gap"} \/ m.now[i] = store[i]

\* A change the feeds have still to announce, or one the tab gave up.
Excused(i) ==
  (i \in changed /\ store[i] # 0) \/ i \in gone \/ overflow \/ i \in lost

\* Whatever the queue dropped and in whatever order polls, prunes and snapshots
\* came: what is on its way to an open stream ends in the store's versions.
StreamCovers ==
  stream # "closed" /\ ~gap /\ (stream = "open" \/ resumed) =>
    \A i \in Ids : Excused(i) \/ Brings(hand \cup replay \cup queue, i)

\* "A browser holding it has every replayable public message up to that
\* sequence": if the connection broke now and the id it would send is accepted,
\* the replay is all the mirror needs.  What an idle expiry before hello passes
\* over is excepted (it is in `lost`): there the code breaks that promise.
PositionKept ==
  Resumable => \A i \in Ids : Excused(i) \/ Brings(Missed, i)

\* No messages on the way, nothing to apply, no request: the tab rests.
AtRest ==
  /\ stream = "open" /\ hand = {} /\ replay = {} /\ ~gap
  /\ \A m \in queue : m.kind \notin LiveKinds
  /\ batch = NoDelta /\ load = "none" /\ wanted = {}

\* A tab at rest shows the store, except for what feeds have not announced yet and
\* what the tab gave up.
MirrorCurrent ==
  AtRest => \A i \in Ids : Excused(i) \/ mirror[i] = store[i]

\* Once connections, requests and processes stop failing, the tab comes to show
\* the store, whatever was dropped, cut or refused before.
Breaks == IdleExpires \/ Disconnect \/ Restart \/ Hide \/ AccessChanged \/ LoadFails \/ Reload
Catches ==
  <>[][~Breaks]_vars => <>[](AtRest /\ \A i \in Ids : i \in lost \/ mirror[i] = store[i])
=============================================================================
