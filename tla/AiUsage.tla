------------------------------- MODULE AiUsage -------------------------------
(***************************************************************************)
(* The allowance ledger in front of every provider call: admission under   *)
(* each applicable policy, the record that the request was dispatched, the *)
(* settlement that may be lost, the reconciliation of what was left behind *)
(* and the pruning of what is old.                                         *)
(*                                                                         *)
(* Each step of application/ai_usage.py is one short transaction, and the  *)
(* rows it touches are locked by their conditional updates, so each is one *)
(* action.  A batch of reconciliation or pruning is taken one row at a     *)
(* time: it is one of the interleavings of these smaller steps.  An        *)
(* override is an edit of the limits its policy enforces.                  *)
(***************************************************************************)
EXTENDS Integers, FiniteSets, Functions

CONSTANTS
  Calls,        \* provider calls: call_id
  Policies,     \* allowance policies
  PoliciesFor,  \* the policies a call's attribution falls under
  TokensOf,     \* requested_tokens of a call
  Settings,     \* what each policy may be set to: enabled, limits and cadence
  Charges,      \* token counts a provider reports (0: none, of a failed call); a bound
  Days,         \* the calendar days the model looks at, with the first of each window
  ReservationRetention, PeriodRetention  \* days kept after the period's end

\* period_bounds: the first day of the window of the cadence that day d falls in
Start(d, cadence) == d - (d % cadence)

ASSUME UsageAssumption ==
  /\ IsFiniteSet(Calls) /\ PoliciesFor \in [Calls -> SUBSET Policies]
  /\ TokensOf \in [Calls -> Nat \ {0}] /\ Charges \subseteq Nat /\ 0 \in Charges
  /\ Settings \in [Policies -> SUBSET [on : BOOLEAN, requests : Nat, tokens : Nat,
                                       cadence : Nat \ {0}]]
  /\ Days \subseteq Nat /\ 0 \in Days
  /\ ReservationRetention \in Nat \ {0} /\ PeriodRetention \in Nat
  \* 400 days against a month: a current period is never old
  /\ \A p \in Policies : \A s \in Settings[p] :
       s.cadence <= PeriodRetention /\ \A d \in Days : Start(d, s.cadence) \in Days

VARIABLES
  now,               \* the day
  policy,            \* the setting of each policy
  counters, end,     \* the counter rows there are, by policy and period_start,
                     \* and their period_end
  usedRequests, reservedRequests, usedTokens, reservedTokens,
  pc, outcome,       \* where a call's task is, and what it is about to write
  status, dispatched, rows,
                     \* a call's reservations: their common status, dispatched_at,
                     \* and one row per policy with the period it falls in
  pruned,            \* the rows of a call that retention has deleted
  age,               \* of a held reservation; 0: under an hour, 1: over, 2: over a day
  charge,            \* history: the tokens a settled call was charged
  sent,              \* history: the calls sent to the provider
  observed           \* history: how often a call was added to the monthly totals

counts == <<counters, end, usedRequests, reservedRequests, usedTokens, reservedTokens>>
reservations == <<status, dispatched, rows, pruned, age>>
task == <<pc, outcome>>
history == <<charge, sent, observed>>
vars == <<now, policy, counts, task, reservations, history>>

Keys == Policies \X Days
Rows == [policy : Policies, start : Days, end : Nat]
Held == {"reserved", "unknown"}
Closed == {"settled", "released"}
\* before admission; reserved, mark_dispatched is next; waiting for the answer;
\* writing the outcome; over, by a return, an exception or the end of the process
Places == {"idle", "reserved", "sent", "finishing", "done"}
Outcomes == [status : Closed \cup {"unknown"}, tokens : Nat]
\* what NOT_DISPATCHED writes
Nothing == [status |-> "released", tokens |-> 0]

PolicySettings == {f \in [Policies -> UNION {Settings[p] : p \in Policies}] :
                     \A p \in Policies : f[p] \in Settings[p]}

Init ==
  /\ now = 0 /\ policy \in PolicySettings
  /\ counters = {} /\ end = [k \in Keys |-> 0]
  /\ usedRequests = [k \in Keys |-> 0] /\ reservedRequests = [k \in Keys |-> 0]
  /\ usedTokens = [k \in Keys |-> 0] /\ reservedTokens = [k \in Keys |-> 0]
  /\ pc = [c \in Calls |-> "idle"] /\ outcome = [c \in Calls |-> Nothing]
  /\ status = [c \in Calls |-> "none"] /\ dispatched = {}
  /\ rows = [c \in Calls |-> {}] /\ pruned = [c \in Calls |-> {}]
  /\ age = [c \in Calls |-> 0] /\ charge = [c \in Calls |-> 0]
  /\ sent = {} /\ observed = [c \in Calls |-> 0]

-----------------------------------------------------------------------------
(* Reading the ledger.  A definition commented "Faulty:" is a plausible      *)
(* mistake in the next one that the specification never uses.                *)

RowFor(p) == LET s == Start(now, policy[p].cadence)
             IN [policy |-> p, start |-> s, end |-> s + policy[p].cadence]
KeyOf(r) == <<r.policy, r.start>>
KeysOf(c) == {KeyOf(r) : r \in rows[c]}
Stored(c) == rows[c] \ pruned[c]

EffectivePolicies(c) == {p \in PoliciesFor[c] : policy[p].on}

\* the guard of the counter's conditional update
Admits(k, c) ==
  /\ usedRequests[k] + reservedRequests[k] + 1 <= policy[k[1]].requests
  /\ usedTokens[k] + reservedTokens[k] + TokensOf[c] <= policy[k[1]].tokens

\* the counter of every reservation can give it back: otherwise the settlement
\* raises "AI usage counter is inconsistent with its reservation"
Covered(c) ==
  \A r \in Stored(c) :
    /\ KeyOf(r) \in counters
    /\ reservedRequests[KeyOf(r)] >= 1 /\ reservedTokens[KeyOf(r)] >= TokensOf[c]

Live(c) == pc[c] \in {"reserved", "sent", "finishing"}

-----------------------------------------------------------------------------
(* AiUsageAccounting and metered_call: the steps of one call.                *)

\* reserve: every effective policy admits the call in one transaction, or none
\* keeps anything.  The commit may land without its caller learning of it.
Reserve(c) ==
  LET ps == EffectivePolicies(c)
      new == {RowFor(p) : p \in ps}
      keys == {KeyOf(r) : r \in new}
  IN
  /\ pc[c] = "idle"
  /\ \A k \in keys : Admits(k, c)
  /\ counters' = counters \cup keys
  /\ end' = [k \in Keys |-> IF k \in keys \ counters
                            THEN Start(now, policy[k[1]].cadence) + policy[k[1]].cadence
                            ELSE end[k]]
  /\ reservedRequests' = [k \in Keys |-> reservedRequests[k] + IF k \in keys THEN 1 ELSE 0]
  /\ reservedTokens' = [k \in Keys |->
                          reservedTokens[k] + IF k \in keys THEN TokensOf[c] ELSE 0]
  /\ rows' = [rows EXCEPT ![c] = new]
  /\ status' = [status EXCEPT ![c] = IF new = {} THEN "none" ELSE "reserved"]
  /\ \E confirmed \in BOOLEAN :
       pc' = [pc EXCEPT ![c] = IF confirmed THEN "reserved" ELSE "done"]
  /\ UNCHANGED <<now, policy, usedRequests, usedTokens, outcome, dispatched, pruned, age, history>>

\* mark_dispatched, which writes nothing for a call without reservations and
\* changes no row that is not reserved; a confirmed mark is followed by the request,
\* any other way out by the release, whether or not the mark has landed
MarkDispatched(c) ==
  /\ pc[c] = "reserved"
  /\ \E landed, confirmed \in BOOLEAN :
       /\ confirmed => landed
       /\ rows[c] = {} => confirmed
       /\ dispatched' = IF landed /\ status[c] = "reserved" THEN dispatched \cup {c} ELSE dispatched
       /\ IF confirmed
          THEN /\ pc' = [pc EXCEPT ![c] = "sent"]
               /\ sent' = sent \cup {c}
               /\ UNCHANGED outcome
          ELSE /\ pc' = [pc EXCEPT ![c] = "finishing"]
               /\ outcome' = [outcome EXCEPT ![c] = Nothing]
               /\ UNCHANGED sent
  /\ UNCHANGED <<now, policy, counts, status, rows, pruned, age, charge, observed>>

\* Faulty: the outcome itself, not the status _STATUS maps it to
OutcomesUnmapped(c) == {[status |-> o, tokens |-> 0] : o \in {"completed", "failed", "unknown"}}

\* the answers metered_call tells apart, with charged_tokens: what was reported, the
\* whole reservation when a completed call reports no counts, nothing when unknown
OutcomesOf(c) ==
  {[status |-> "settled", tokens |-> n] : n \in Charges \cup {TokensOf[c]}}
    \cup {[status |-> "unknown", tokens |-> 0]}

Answer(c) ==
  /\ pc[c] = "sent"
  /\ \E o \in OutcomesOf(c) : outcome' = [outcome EXCEPT ![c] = o]
  /\ pc' = [pc EXCEPT ![c] = "finishing"]
  /\ UNCHANGED <<now, policy, counts, reservations, history>>

\* Faulty: the request is not counted when it has cost no token
GiveBackUncharged(ks, c, used, n) ==
  /\ reservedRequests' = [k \in Keys |-> reservedRequests[k] - IF k \in ks THEN 1 ELSE 0]
  /\ reservedTokens' = [k \in Keys |-> reservedTokens[k] - IF k \in ks THEN TokensOf[c] ELSE 0]
  /\ usedRequests' = [k \in Keys |-> usedRequests[k] + IF k \in ks /\ n > 0 THEN used ELSE 0]
  /\ usedTokens' = [k \in Keys |-> usedTokens[k] + IF k \in ks THEN n ELSE 0]
  /\ UNCHANGED <<counters, end>>

\* Faulty: the reserved tokens are given back only as far as they were used
GiveBackUsed(ks, c, used, n) ==
  /\ reservedRequests' = [k \in Keys |-> reservedRequests[k] - IF k \in ks THEN 1 ELSE 0]
  /\ reservedTokens' = [k \in Keys |-> reservedTokens[k] - IF k \in ks THEN n ELSE 0]
  /\ usedRequests' = [k \in Keys |-> usedRequests[k] + IF k \in ks THEN used ELSE 0]
  /\ usedTokens' = [k \in Keys |-> usedTokens[k] + IF k \in ks THEN n ELSE 0]
  /\ UNCHANGED <<counters, end>>

\* _apply_counter and the counters of resolve_unknown
GiveBack(ks, c, used, n) ==
  /\ reservedRequests' = [k \in Keys |-> reservedRequests[k] - IF k \in ks THEN 1 ELSE 0]
  /\ reservedTokens' = [k \in Keys |-> reservedTokens[k] - IF k \in ks THEN TokensOf[c] ELSE 0]
  /\ usedRequests' = [k \in Keys |-> usedRequests[k] + IF k \in ks THEN used ELSE 0]
  /\ usedTokens' = [k \in Keys |-> usedTokens[k] + IF k \in ks THEN n ELSE 0]
  /\ UNCHANGED <<counters, end>>

\* SqlAiLedger.finish: only rows still reserved change, and a call without any row
\* is observed all the same
ChangesTotals(c) == status[c] = "reserved" \/ Stored(c) = {}

Write(c, s, n) ==
  /\ Covered(c)
  /\ observed' = [observed EXCEPT ![c] = IF s # "released" /\ ChangesTotals(c) THEN @ + 1 ELSE @]
  /\ IF status[c] = "reserved" /\ Stored(c) # {}
     THEN /\ status' = [status EXCEPT ![c] = s]
          /\ age' = [age EXCEPT ![c] = IF s = "unknown" THEN @ ELSE 0]
          /\ charge' = [charge EXCEPT ![c] = IF s = "settled" THEN n ELSE 0]
          /\ IF s = "unknown"
             THEN UNCHANGED counts
             ELSE GiveBack({KeyOf(r) : r \in Stored(c)}, c, IF s = "settled" THEN 1 ELSE 0, n)
     ELSE UNCHANGED <<status, age, charge, counts>>

\* finish_with_deadline: written, or lost and never tried again
Finish(c) ==
  /\ pc[c] = "finishing"
  /\ pc' = [pc EXCEPT ![c] = "done"]
  /\ outcome' = [outcome EXCEPT ![c] = Nothing]
  /\ \/ Write(c, outcome[c].status, outcome[c].tokens)
     \/ UNCHANGED <<counts, status, age, charge, observed>>
  /\ UNCHANGED <<now, policy, dispatched, rows, pruned, sent>>

\* the process ends: nothing of its calls is left but their rows
Crash ==
  /\ \E c \in Calls : Live(c)
  /\ pc' = [c \in Calls |-> IF Live(c) THEN "done" ELSE pc[c]]
  /\ outcome' = [c \in Calls |-> Nothing]
  /\ UNCHANGED <<now, policy, counts, reservations, history>>

-----------------------------------------------------------------------------
(* Time, administration, reconciliation and pruning.                         *)

\* STALE_RESERVATION_AGE passes: not within the SETTLEMENT_SECONDS that marking the
\* dispatch and giving it up are bounded by
HourPasses(c) ==
  /\ status[c] \in Held /\ age[c] = 0 /\ pc[c] \in {"sent", "done"}
  /\ age' = [age EXCEPT ![c] = 1]
  /\ UNCHANGED <<now, policy, counts, task, status, dispatched, rows, pruned, history>>

\* UNKNOWN_RESOLUTION_AGE passes: no call lasts that long
DayPasses(c) ==
  /\ status[c] \in Held /\ age[c] = 1 /\ pc[c] = "done"
  /\ age' = [age EXCEPT ![c] = 2]
  /\ UNCHANGED <<now, policy, counts, task, status, dispatched, rows, pruned, history>>

DateChanges ==
  /\ \E d \in Days : d > now /\ now' = d
  /\ UNCHANGED <<policy, counts, task, reservations, history>>

\* AiUsageAdmin: an edit, a disabling, an override that starts or ends
SetPolicy(p) ==
  /\ \E s \in Settings[p] : policy' = [policy EXCEPT ![p] = s]
  /\ UNCHANGED <<now, counts, task, reservations, history>>

\* Faulty: every stale reservation is released
StaleReleased(c) == "released"

\* reconcile, for one stale call
StaleOutcome(c) == IF c \in dispatched THEN "unknown" ELSE "released"

\* Faulty: a reservation whose dispatch was never recorded is not looked for
StaleDispatched(c) == status[c] = "reserved" /\ age[c] >= 1 /\ c \in dispatched

\* stale_reservations, whether dispatched or not
Stale(c) == status[c] = "reserved" /\ age[c] >= 1
Reconcile(c) ==
  /\ Stale(c)
  /\ Write(c, StaleOutcome(c), 0)
  /\ UNCHANGED <<now, policy, task, dispatched, rows, pruned, sent>>

\* _resolve_unknown, for one call: a failed request that reported no tokens
Resolvable(c) == status[c] = "unknown" /\ age[c] = 2
ResolveUnknown(c) ==
  /\ Resolvable(c)
  /\ Covered(c)
  /\ status' = [status EXCEPT ![c] = "settled"]
  /\ age' = [age EXCEPT ![c] = 0]
  /\ charge' = [charge EXCEPT ![c] = 0]
  /\ GiveBack({KeyOf(r) : r \in Stored(c)}, c, 1, 0)
  /\ UNCHANGED <<now, policy, task, dispatched, rows, pruned, sent, observed>>

\* prune_reservations, for one row
Prunable(c) == status[c] \in Closed
PruneReservation(c) ==
  /\ Prunable(c)
  /\ \E r \in Stored(c) :
       /\ r.end + ReservationRetention < now
       /\ pruned' = [pruned EXCEPT ![c] = @ \cup {r}]
  /\ UNCHANGED <<now, policy, counts, task, status, dispatched, rows, age, history>>

\* Faulty: a counter may go once it holds nothing, whatever its period
EmptyCounter(k) == reservedRequests[k] = 0 /\ reservedTokens[k] = 0

\* prune_counters, for one row
OldCounter(k) ==
  /\ end[k] + PeriodRetention < now
  /\ reservedRequests[k] = 0 /\ reservedTokens[k] = 0
PruneCounter(k) ==
  /\ k \in counters /\ OldCounter(k)
  /\ counters' = counters \ {k}
  /\ usedRequests' = [usedRequests EXCEPT ![k] = 0]
  /\ reservedRequests' = [reservedRequests EXCEPT ![k] = 0]
  /\ usedTokens' = [usedTokens EXCEPT ![k] = 0]
  /\ reservedTokens' = [reservedTokens EXCEPT ![k] = 0]
  /\ UNCHANGED <<now, policy, end, task, reservations, history>>

Next ==
  \/ \E c \in Calls :
       \/ Reserve(c) \/ MarkDispatched(c) \/ Answer(c) \/ Finish(c)
       \/ HourPasses(c) \/ DayPasses(c)
       \/ Reconcile(c) \/ ResolveUnknown(c) \/ PruneReservation(c)
  \/ \E k \in Keys : PruneCounter(k)
  \/ \E p \in Policies : SetPolicy(p)
  \/ DateChanges \/ Crash

Spec == Init /\ [][Next]_vars

\* A call's own steps run on the event loop, with a deadline on every one; time passes;
\* and the first admission a minute after the last reconciliation starts another.
Runs(c) == MarkDispatched(c) \/ Answer(c) \/ Finish(c)
Ages(c) == HourPasses(c) \/ DayPasses(c)
Maintains(c) == Reconcile(c) \/ ResolveUnknown(c)
UsageFairness ==
  \A c \in Calls : WF_vars(Runs(c)) /\ WF_vars(Ages(c)) /\ WF_vars(Maintains(c))
FairSpec == Spec /\ UsageFairness

-----------------------------------------------------------------------------
(* Properties.                                                               *)

\* The types of the variables.
UsageTypeOK ==
  /\ now \in Days /\ policy \in PolicySettings
  /\ counters \subseteq Keys /\ end \in [Keys -> Nat]
  /\ usedRequests \in [Keys -> Nat] /\ reservedRequests \in [Keys -> Nat]
  /\ usedTokens \in [Keys -> Nat] /\ reservedTokens \in [Keys -> Nat]
  /\ pc \in [Calls -> Places] /\ outcome \in [Calls -> Outcomes]
  /\ status \in [Calls -> {"none"} \cup Held \cup Closed]
  /\ dispatched \subseteq Calls /\ sent \subseteq Calls
  /\ rows \in [Calls -> SUBSET Rows] /\ pruned \in [Calls -> SUBSET Rows]
  /\ age \in [Calls -> 0..2] /\ charge \in [Calls -> Nat] /\ observed \in [Calls -> Nat]

\* A counter's requests are those of its reservations: the held ones are reserved and
\* the settled ones used, each once, whatever was lost, reconciled, resolved or pruned.
CallsWith(k, ss) == {c \in Calls : status[c] \in ss /\ k \in KeysOf(c)}
RequestsMatch ==
  \A k \in counters : /\ reservedRequests[k] = Cardinality(CallsWith(k, Held))
                      /\ usedRequests[k] = Cardinality(CallsWith(k, {"settled"}))

\* So are its tokens: what the held calls may still cost and the settled ones did.
TokensMatch ==
  \A k \in counters :
    /\ reservedTokens[k] = SumFunctionOnSet(TokensOf, CallsWith(k, Held))
    /\ usedTokens[k] = SumFunctionOnSet(charge, CallsWith(k, {"settled"}))

\* The counter of every held reservation can give it back, so a settlement is never
\* refused as inconsistent and no stale row blocks the batch it is in.
HeldIsCovered == \A c \in Calls : status[c] \in Held => Covered(c)

\* The tokens of a counter are those of its calls, and what is held can be given back.
TokensCovered == TokensMatch /\ HeldIsCovered

\* A call that was sent under a policy is never released as if it had not been.
SentIsCounted == \A c \in sent : status[c] # "released"

\* A call enters the monthly totals at most once, and a settled one exactly once.
ObservedOnce ==
  \A c \in Calls : /\ observed[c] <= 1
                   /\ status[c] \in {"settled", "unknown"} => observed[c] = 1

\* A call that was sent counts, and counts once.
CountedOnce == SentIsCounted /\ ObservedOnce

\* What a period has used and promised grows only within the limit then in force.
GrowsWithinLimit ==
  [][\A k \in Keys :
       usedRequests'[k] + reservedRequests'[k] > usedRequests[k] + reservedRequests[k] =>
         usedRequests'[k] + reservedRequests'[k] <= policy[k[1]].requests]_vars

\* What a period has used is not forgotten while it lasts, whichever cadence its
\* policy is given.
CurrentKey(k) == \E s \in Settings[k[1]] : Start(now, s.cadence) = k[2]
UsageKept ==
  \A k \in counters : CurrentKey(k) => /\ k \in counters'
                                       /\ usedRequests'[k] >= usedRequests[k]
                                       /\ usedTokens'[k] >= usedTokens[k]
CurrentUsageKept == [][UsageKept]_vars

\* A period's use is never forgotten while it counts and grows only within the limit.
WithinPolicy == GrowsWithinLimit /\ CurrentUsageKept

\* A reservation does not hold its allowance for ever: it is settled or released.
AllowanceReturns ==
  \A c \in Calls : (status[c] \in Held) ~> (status[c] \in Closed)

=============================================================================
