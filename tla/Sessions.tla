------------------------------ MODULE Sessions ------------------------------
(***************************************************************************)
(* One account's sign-in sessions.  A login opens a family of refresh      *)
(* tokens; each refresh claims the token presented and issues its child,   *)
(* under a lock on the account's row.  The browser's tabs share one cookie *)
(* and take turns by a Web Lock.                                           *)
(*                                                                         *)
(* What happens under the row lock is committed whole and seen by nobody   *)
(* before, so a request that the clock cannot overtake is one step.  A     *)
(* refresh reads its token before the lock and the clock again before the  *)
(* commit, and has a step for each; a heartbeat commits what an earlier    *)
(* reading of the clock allowed.  Validation takes no lock.  Time is in    *)
(* minutes.  The account keeps its role, and its administrator's second    *)
(* factor is not modelled.                                                 *)
(***************************************************************************)
EXTENDS Integers, FiniteSets

CONSTANTS
  MaxTokens,  \* bound: refresh-token rows
  MaxFamilies, \* bound: token families, one for each login
  Clients,    \* requests a browser may have open at once
  Idle,       \* SessionIdlePolicy.minutes
  Ttl,        \* refresh_ttl
  MaxTime,    \* bound: the clock
  MaxVersion  \* bound: credential changes

\* Rows and families are numbered in the order they are made
Tokens == 1..MaxTokens
Families == 1..MaxFamilies
\* an empty cookie, and a row that is not there yet
NoToken == 0
NoFamily == 0

ASSUME SessionsAssumption ==
  /\ MaxTokens \in Nat /\ MaxFamilies \in Nat
  /\ Idle \in Nat \ {0} /\ Ttl \in Nat \ {0}
  /\ MaxTime \in Nat /\ MaxVersion \in Nat

VARIABLES
  now,
  version,  \* the account's security_version
  active,   \* is_active
  state,    \* of each token row: unused, live or used (revoked_at is set)
  family,   \* family_id
  expires,  \* expires_at
  ended,    \* families with a revocation row
  last,     \* last_activity_at of each family, NoTime before it is opened
  born,     \* history: the security_version its login proved
  cookie,   \* the refresh token in the browser's cookie
  req,      \* the browser's requests
  lost      \* history: families of which the browser missed a refresh's answer

accountVars == <<version, active>>
rowVars == <<state, family, expires, ended, last, born>>
browserVars == <<cookie, req, lost>>
vars == <<now, accountVars, rowVars, browserVars>>

NoTime == -1

\* Stages of a request.  A refresh: reused or valid by what the token row said
\* before the lock, claimed (child flushed, row locked), answered.  A logout:
\* left, when its answer is on the way.  A login: challenged (a second factor
\* is due), opened (answer on the way).  A heartbeat: touched, not committed.
Refreshing == {"reused", "valid", "claimed"}
Answers == {"answered", "left", "opened"}
Stages == Refreshing \cup Answers \cup {"idle", "challenged", "touched"}
\* those with a step to take while they hold the account's row
Holding == {"claimed", "touched"}
\* at: the clock at the claim or the touch, or the challenge's security_version;
\* touch: the claim moves last_activity_at; heard: the tab still listens
Requests == [stage : Stages, token : Tokens \cup {NoToken},
             at : Nat, touch : BOOLEAN, heard : BOOLEAN]
Request(s, k, t) == [stage |-> s, token |-> k, at |-> t, touch |-> FALSE, heard |-> TRUE]
IdleRequest == Request("idle", NoToken, 0)

Live(k) == state[k] = "live"
\* the next row to be inserted
Unused(k) == state[k] = "unused" /\ \A j \in Tokens : j < k => state[j] # "unused"
Used(f) == \E k \in Tokens : state[k] # "unused" /\ family[k] = f
Opened(f) == last[f] # NoTime
IdleOver(f) == now >= last[f] + Idle
FamilyIsActive(f) ==
  /\ f \notin ended /\ Opened(f) /\ ~IdleOver(f)
  /\ \E k \in Tokens : Live(k) /\ family[k] = f /\ now < expires[k]
\* validate_current_session, for claims of the family's login
Authorised(f) == active /\ born[f] = version /\ FamilyIsActive(f)

RowFree == \A c \in Clients : req[c].stage \notin Holding
\* Faulty: no lock (a browser without Web Locks)
AlwaysFree == TRUE
\* withRefreshLock: no tab still listening holds the Web Lock
WebLockFree == \A c \in Clients :
  req[c].stage \in Refreshing \cup {"answered", "left"} => ~req[c].heard

SessionsInit ==
  /\ now = 0 /\ version = 0 /\ active = TRUE
  /\ state = [k \in Tokens |-> "unused"]
  /\ family = [k \in Tokens |-> NoFamily]
  /\ expires = [k \in Tokens |-> 0]
  /\ ended = {} /\ last = [f \in Families |-> NoTime] /\ born = [f \in Families |-> 0]
  /\ cookie = NoToken /\ req = [c \in Clients |-> IdleRequest] /\ lost = {}

Tick ==
  /\ now < MaxTime /\ now' = now + 1
  /\ UNCHANGED <<accountVars, rowVars, browserVars>>

----------------------------------------------------------------------------
\* Rows written under the account's lock

\* revoke_family, revoke_others and record_user_revocations
EndFamilies(F) ==
  /\ ended' = ended \cup F
  /\ state' = [k \in Tokens |-> IF family[k] \in F /\ Live(k) THEN "used" ELSE state[k]]
  /\ UNCHANGED <<family, expires, last, born>>

\* Faulty: rows that are not the account's
AllFamilies == {family[k] : k \in Tokens}
UserFamilies == {f \in Families : Used(f)}

\* SessionFactory.start without a family: the login's first token
NewFamily(f, k, v) ==
  /\ ~Opened(f) /\ (\A g \in Families : g < f => Opened(g)) /\ Unused(k)
  /\ last' = [last EXCEPT ![f] = now]
  /\ born' = [born EXCEPT ![f] = v]
  /\ family' = [family EXCEPT ![k] = f]
  /\ expires' = [expires EXCEPT ![k] = now + Ttl]

Put(c, r) == req' = [req EXCEPT ![c] = r]
Done(c) == Put(c, IdleRequest)
AtStage(c, s) == req[c].stage = s

----------------------------------------------------------------------------
\* Refresh: RefreshUseCase.execute

\* A tab that has the Web Lock sends the cookie as it is now, and the server
\* reads its row (get_by_hash) before the lock.  An expired one is refused.
SendRefresh(c) ==
  /\ AtStage(c, "idle") /\ WebLockFree /\ cookie # NoToken
  /\ Live(cookie) => now < expires[cookie]
  /\ Put(c, Request(IF Live(cookie) THEN "valid" ELSE "reused", cookie, 0))
  /\ UNCHANGED <<now, accountVars, rowVars, cookie, lost>>

\* the family of the token a request carries
FamilyOf(c) == family[req[c].token]

\* _reject_reuse and record_idle_expiry: the family ends and the request fails
EndAndFail(c) ==
  /\ EndFamilies({FamilyOf(c)}) /\ Done(c)
  /\ UNCHANGED <<now, accountVars, cookie, lost>>

RejectReuse(c) == AtStage(c, "reused") /\ RowFree /\ EndAndFail(c)

\* the checks repeated under the lock on the copy read before it
StillEligible(c) == active /\ now < expires[req[c].token]

Refuse(c) ==
  /\ AtStage(c, "valid") /\ RowFree /\ ~StillEligible(c) /\ Done(c)
  /\ UNCHANGED <<now, accountVars, rowVars, cookie, lost>>

RefuseIdle(c) ==
  /\ AtStage(c, "valid") /\ RowFree /\ StillEligible(c) /\ IdleOver(FamilyOf(c))
  /\ EndAndFail(c)

\* Faulty: any live token of the family will do
ClaimByFamily(c) == FamilyIsActive(FamilyOf(c))
\* consume: the row is claimed only if it is still live in the database
Claimable(c) == FamilyIsActive(FamilyOf(c)) /\ Live(req[c].token)

RejectStale(c) ==
  /\ AtStage(c, "valid") /\ RowFree /\ StillEligible(c) /\ ~IdleOver(FamilyOf(c))
  /\ ~Claimable(c)
  /\ EndAndFail(c)

Claim(c) ==
  /\ AtStage(c, "valid") /\ RowFree /\ StillEligible(c) /\ ~IdleOver(FamilyOf(c))
  /\ Claimable(c)
  /\ \E signal \in BOOLEAN :
       Put(c, [req[c] EXCEPT !.stage = "claimed", !.at = now,
                 !.touch = signal /\ last[FamilyOf(c)] <= now - 1])
  /\ UNCHANGED <<now, accountVars, rowVars, cookie, lost>>

ActivityAtClaim(c) == IF req[c].touch THEN req[c].at ELSE last[FamilyOf(c)]

\* SessionFactory.start for the claimed family, then the commit
Rotate(c, k) ==
  LET f == FamilyOf(c)
  IN  /\ AtStage(c, "claimed") /\ Unused(k)
      /\ now < ActivityAtClaim(c) + Idle
      /\ state' = [state EXCEPT ![req[c].token] = "used", ![k] = "live"]
      /\ family' = [family EXCEPT ![k] = f]
      /\ expires' = [expires EXCEPT ![k] = now + Ttl]
      /\ last' = [last EXCEPT ![f] = ActivityAtClaim(c)]
      /\ IF req[c].heard THEN Put(c, Request("answered", k, 0)) ELSE Done(c)
      /\ UNCHANGED <<now, accountVars, ended, born, cookie, lost>>

\* The refresh's deadline passed after the claim, or a transaction failed:
\* what it wrote is rolled back
RollBack(c) ==
  /\ req[c].stage \in Holding /\ Done(c)
  /\ UNCHANGED <<now, accountVars, rowVars, cookie, lost>>

----------------------------------------------------------------------------
\* Logout and login

\* LogoutUseCase.execute for the tab's own family: revoked, idle or not.  Under
\* another family's cookie (expected_family) nothing changes.
Logout(c) ==
  /\ AtStage(c, "idle") /\ WebLockFree /\ cookie # NoToken /\ RowFree
  /\ EndFamilies({family[cookie]})
  /\ Put(c, Request("left", NoToken, 0))
  /\ UNCHANGED <<now, accountVars, cookie, lost>>

\* LoginUseCase for an account without a second factor.  It takes no Web Lock.
Login(c, f, k) ==
  /\ AtStage(c, "idle") /\ RowFree /\ active
  /\ NewFamily(f, k, version) /\ state' = [state EXCEPT ![k] = "live"]
  /\ Put(c, Request("opened", k, 0))
  /\ UNCHANGED <<now, accountVars, ended, cookie, lost>>

\* The password is right and a factor is due: a challenge of this version.
\* The answer clears the cookie if it arrives.
Challenge(c) ==
  /\ AtStage(c, "idle") /\ RowFree /\ active
  /\ Put(c, Request("challenged", NoToken, version))
  /\ cookie' \in {cookie, NoToken}
  /\ UNCHANGED <<now, accountVars, rowVars, lost>>

\* Faulty: a challenge begun under older credentials
AnyChallenge(c) == active
ChallengeStands(c) == active /\ req[c].at = version

VerifyChallenge(c, f, k) ==
  /\ AtStage(c, "challenged") /\ RowFree /\ ChallengeStands(c)
  /\ NewFamily(f, k, req[c].at) /\ state' = [state EXCEPT ![k] = "live"]
  /\ Put(c, Request("opened", k, 0))
  /\ UNCHANGED <<now, accountVars, ended, cookie, lost>>

\* The challenge enrols the first factor: every older session ends with it
EnrolAndOpen(c, f, k) ==
  /\ AtStage(c, "challenged") /\ RowFree /\ ChallengeStands(c) /\ version < MaxVersion
  /\ version' = version + 1
  /\ NewFamily(f, k, req[c].at + 1)
  /\ ended' = ended \cup UserFamilies
  /\ state' = [j \in Tokens |-> IF j = k THEN "live" ELSE IF Live(j) THEN "used" ELSE state[j]]
  /\ Put(c, Request("opened", k, 0))
  /\ UNCHANGED <<now, active, cookie, lost>>

DropChallenge(c) ==
  /\ AtStage(c, "challenged") /\ Done(c)
  /\ UNCHANGED <<now, accountVars, rowVars, cookie, lost>>

\* An answer reaches the browser, which stores or clears the cookie
Deliver(c) ==
  /\ req[c].stage \in Answers
  /\ cookie' = req[c].token
  /\ Done(c)
  /\ UNCHANGED <<now, accountVars, rowVars, lost>>

\* The answer is lost on the way
LoseAnswer(c) ==
  /\ req[c].stage \in Answers
  /\ lost' = IF AtStage(c, "answered") THEN lost \cup {FamilyOf(c)} ELSE lost
  /\ Done(c)
  /\ UNCHANGED <<now, accountVars, rowVars, cookie>>

\* The tab closes or its connection breaks: the Web Lock is free and the server goes on
Abandon(c) ==
  /\ req[c].stage \in Refreshing /\ req[c].heard
  /\ Put(c, [req[c] EXCEPT !.heard = FALSE])
  /\ lost' = lost \cup {FamilyOf(c)}
  /\ UNCHANGED <<now, accountVars, rowVars, cookie>>

----------------------------------------------------------------------------
\* Other requests under the account's lock

\* Faulty: the session is not validated under the lock
LateHeartbeat(c, k) ==
  /\ AtStage(c, "idle") /\ RowFree /\ Live(k) /\ last[family[k]] <= now - 1
  /\ Put(c, Request("touched", k, now))
  /\ UNCHANGED <<now, accountVars, rowVars, cookie, lost>>
\* SessionActivityUseCase: a session still accepted under the lock is touched,
\* at most once a minute.  The request names its family, here by its live token.
Heartbeat(c, k) ==
  /\ AtStage(c, "idle") /\ RowFree /\ Live(k) /\ Authorised(family[k])
  /\ last[family[k]] <= now - 1
  /\ Put(c, Request("touched", k, now))
  /\ UNCHANGED <<now, accountVars, rowVars, cookie, lost>>

\* Read back and committed, the deadline not looked at again
CommitHeartbeat(c) ==
  /\ AtStage(c, "touched") /\ Done(c)
  /\ last' = [last EXCEPT ![FamilyOf(c)] = req[c].at]
  /\ UNCHANGED <<now, accountVars, state, family, expires, ended, born, cookie, lost>>

\* A heartbeat that finds the idle deadline passed ends the family
HeartbeatExpires(f) ==
  /\ RowFree /\ Opened(f) /\ active /\ born[f] = version /\ IdleOver(f)
  /\ EndFamilies({f})
  /\ UNCHANGED <<now, accountVars, browserVars>>

\* Logout with idle_only: ends the family unless the server still finds it active
IdleCheck(f) ==
  /\ RowFree /\ Used(f) /\ ~(active /\ FamilyIsActive(f))
  /\ EndFamilies({f})
  /\ UNCHANGED <<now, accountVars, browserVars>>

\* AccountSessionManagement.revoke and revoke_others, from a session that validates
RevokeSelected(f, g) ==
  /\ RowFree /\ Authorised(f) /\ Used(g)
  /\ EndFamilies({g})
  /\ UNCHANGED <<now, accountVars, browserVars>>

RevokeOthers(f) ==
  /\ RowFree /\ Authorised(f)
  /\ EndFamilies(UserFamilies \ {f})
  /\ UNCHANGED <<now, accountVars, browserVars>>

\* Password, reset link, factor and role changes, and an administrator's switch
ChangeAccount(on) ==
  /\ RowFree /\ version < MaxVersion
  /\ version' = version + 1 /\ active' = on
  /\ EndFamilies(UserFamilies)
  /\ UNCHANGED <<now, browserVars>>

\* The API process restarts: what it had not committed is rolled back
Crash ==
  /\ req' = [c \in Clients |->
       IF req[c].stage \in Refreshing \cup Holding THEN IdleRequest ELSE req[c]]
  /\ UNCHANGED <<now, accountVars, rowVars, cookie, lost>>

----------------------------------------------------------------------------
RefreshStep(c) ==
  \/ SendRefresh(c) \/ RejectReuse(c) \/ Refuse(c) \/ RefuseIdle(c)
  \/ RejectStale(c) \/ Claim(c) \/ (\E k \in Tokens : Rotate(c, k)) \/ RollBack(c)
HeartbeatStep(c) == (\E k \in Tokens : Heartbeat(c, k)) \/ CommitHeartbeat(c)
EntryStep(c) ==
  \/ Logout(c) \/ Challenge(c) \/ DropChallenge(c)
  \/ \E f \in Families, k \in Tokens :
       Login(c, f, k) \/ VerifyChallenge(c, f, k) \/ EnrolAndOpen(c, f, k)
  \/ Deliver(c) \/ LoseAnswer(c) \/ Abandon(c)
AccountStep ==
  \/ \E f \in Families : HeartbeatExpires(f) \/ IdleCheck(f) \/ RevokeOthers(f)
  \/ \E f, g \in Families : RevokeSelected(f, g)
  \/ \E on \in BOOLEAN : ChangeAccount(on)

SessionsNext ==
  \/ Tick \/ AccountStep \/ Crash
  \/ \E c \in Clients : RefreshStep(c) \/ HeartbeatStep(c) \/ EntryStep(c)
SessionsSpec == SessionsInit /\ [][SessionsNext]_vars

----------------------------------------------------------------------------
(* Every variable has its type.                                            *)
SessionsTypeOK ==
  /\ now \in Nat /\ version \in Nat /\ active \in BOOLEAN
  /\ state \in [Tokens -> {"unused", "live", "used"}]
  /\ family \in [Tokens -> Families \cup {NoFamily}]
  /\ expires \in [Tokens -> Nat]
  /\ ended \subseteq Families /\ lost \subseteq Families
  /\ last \in [Families -> Nat \cup {NoTime}] /\ born \in [Families -> Nat]
  /\ cookie \in Tokens \cup {NoToken} /\ req \in [Clients -> Requests]

(* A family has at most one token that can still be refreshed, however     *)
(* requests that read the same token before the lock interleave, and none  *)
(* once it has been revoked.                                               *)
OneLiveToken ==
  \A j, k \in Tokens : Live(j) =>
    /\ family[j] \notin ended
    /\ Live(k) /\ family[j] = family[k] => j = k

(* A live session was opened by a login that proved the credentials in     *)
(* force: one begun before a password, factor or activation change never   *)
(* opens a session after it.                                               *)
LiveIsProven == \A k \in Tokens : Live(k) => active /\ born[family[k]] = version

(* A session that validation has refused is not accepted again, unless a   *)
(* refresh or heartbeat let in while it was accepted has still to commit:  *)
(* one such commit can save a session refused for idleness meanwhile.      *)
(* With none under way it is over for good, and a revoked one always is,   *)
(* whatever refreshes, heartbeats, logins and restarts follow.             *)
UnderWay(f) == \E c \in Clients : req[c].stage \in Holding /\ FamilyOf(c) = f
Over(f) == Opened(f) /\ ~Authorised(f) /\ (UnderWay(f) => f \in ended)
NoRevival == [][\A f \in Families : Over(f) => Over(f)']_vars

(* The token a browser presents for refresh is its family's live one, so   *)
(* reuse detection never ends an honest session, unless the family is      *)
(* already over or the browser missed the answer to an earlier refresh.    *)
HonestRefresh == \A c \in Clients :
  req[c].stage \in {"reused", "valid"} => Live(req[c].token) \/ FamilyOf(c) \in ended \cup lost
=============================================================================
