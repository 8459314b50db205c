--------------------------- MODULE SessionsProofs ---------------------------
(* Proofs about Sessions, for every number of tabs, logins and tokens.     *)
EXTENDS Sessions, TLAPS

\* The request carries a refresh token
Carries(c) == req[c].stage \in Refreshing \cup {"answered", "opened"}

(* Token rows: a row in use belongs to an opened family, and only opened   *)
(* families are ended.                                                     *)
RowsSound ==
  /\ \A k \in Tokens : state[k] # "unused" => family[k] \in Families /\ Opened(family[k])
  /\ \A f \in ended : Opened(f)

(* Requests and the cookie name rows in use; at most one request holds the *)
(* account's row, and its token is live, for nothing else may write.       *)
RequestsSound ==
  /\ cookie # NoToken => state[cookie] # "unused"
  /\ \A c \in Clients : Carries(c) =>
       req[c].token # NoToken /\ state[req[c].token] # "unused"
  /\ \A c \in Clients : req[c].stage = "left" => req[c].token = NoToken
  /\ \A c, d \in Clients : req[c].stage \in Holding /\ req[d].stage \in Holding => c = d
  /\ \A c \in Clients : req[c].stage \in Holding => req[c].token # NoToken /\ Live(req[c].token)

(* Tabs that listen take turns; a refresh whose tab has gone, and only it, *)
(* runs beside another.                                                    *)
TurnsTaken ==
  /\ \A c \in Clients : req[c].stage \in Answers => req[c].heard
  /\ \A c \in Clients : req[c].stage \in Refreshing /\ ~req[c].heard => FamilyOf(c) \in lost
  /\ \A c, d \in Clients :
       /\ req[c].stage \in Refreshing \cup {"answered", "left"} /\ req[c].heard
       /\ req[d].stage \in Refreshing \cup {"answered", "left"} /\ req[d].heard
       => c = d

(* Where a family's live token is: with the request that carries it, or in *)
(* the cookie, or on its way to the cookie.                                *)
Spent(k) == family[k] \in ended \cup lost
TokensInHand ==
  /\ \A c \in Clients : Carries(c) => Live(req[c].token) \/ Spent(req[c].token)
  /\ cookie # NoToken =>
       \/ Live(cookie) \/ Spent(cookie)
       \/ \E c \in Clients : AtStage(c, "answered") /\ FamilyOf(c) = family[cookie]
  /\ \A c \in Clients : AtStage(c, "opened") =>
       /\ cookie # req[c].token
       /\ \A d \in Clients : Carries(d) /\ req[d].token = req[c].token => c = d

SessionsInv ==
  /\ SessionsTypeOK /\ RowsSound /\ RequestsSound /\ TurnsTaken
  /\ OneLiveToken /\ LiveIsProven /\ TokensInHand
-----------------------------------------------------------------------------
(* Type correctness: the requests first, then the rows they write. *)
LEMMA PutTyped ==
  ASSUME req \in [Clients -> Requests], NEW c \in Clients, NEW r \in Requests, Put(c, r)
  PROVE  req' \in [Clients -> Requests]
  BY DEF Put

LEMMA RequestTyped ==
  ASSUME NEW s \in Stages, NEW k \in Tokens \cup {NoToken}, NEW t \in Nat
  PROVE  Request(s, k, t) \in Requests
  BY DEF Request, Requests

LEMMA DoneTyped ==
  ASSUME req \in [Clients -> Requests], NEW c \in Clients, Done(c)
  PROVE  req' \in [Clients -> Requests]
<1>1. IdleRequest \in Requests
  BY RequestTyped DEF IdleRequest, Stages
<1> QED
  BY <1>1, PutTyped DEF Done

LEMMA RequestsTypeStep ==
  ASSUME SessionsTypeOK, [SessionsNext]_vars
  PROVE  req' \in [Clients -> Requests]
<1> USE DEF SessionsTypeOK, AtStage
<1>1. ASSUME Tick
      PROVE  req' \in [Clients -> Requests]
  BY <1>1 DEF Tick, browserVars
<1>2. ASSUME Crash
      PROVE  req' \in [Clients -> Requests]
  <2>1. IdleRequest \in Requests
    BY RequestTyped DEF IdleRequest, Stages
  <2> QED
    BY <1>2, <2>1 DEF Crash
<1>3. ASSUME NEW c \in Clients, SendRefresh(c)
      PROVE  req' \in [Clients -> Requests]
  <2> DEFINE r == Request(IF Live(cookie) THEN "valid" ELSE "reused", cookie, 0)
  <2>1. r \in Requests
    BY RequestTyped DEF Stages, Refreshing
  <2>2. Put(c, r)
    BY <1>3 DEF SendRefresh
  <2> QED
    BY <2>1, <2>2, PutTyped
<1>4. ASSUME NEW c \in Clients, RejectReuse(c)
      PROVE  req' \in [Clients -> Requests]
  BY <1>4, DoneTyped DEF RejectReuse, EndAndFail
<1>5. ASSUME NEW c \in Clients, Refuse(c)
      PROVE  req' \in [Clients -> Requests]
  BY <1>5, DoneTyped DEF Refuse
<1>6. ASSUME NEW c \in Clients, RefuseIdle(c)
      PROVE  req' \in [Clients -> Requests]
  BY <1>6, DoneTyped DEF RefuseIdle, EndAndFail
<1>7. ASSUME NEW c \in Clients, RejectStale(c)
      PROVE  req' \in [Clients -> Requests]
  BY <1>7, DoneTyped DEF RejectStale, EndAndFail
<1>8. ASSUME NEW c \in Clients, Claim(c)
      PROVE  req' \in [Clients -> Requests]
  <2> USE DEF Requests, Stages, Refreshing
  <2> DEFINE r(signal) == [req[c] EXCEPT !.stage = "claimed", !.at = now,
                             !.touch = signal /\ last[FamilyOf(c)] <= now - 1]
  <2>1. PICK signal \in BOOLEAN : Put(c, r(signal))
    BY <1>8 DEF Claim
  <2>2. req[c] \in Requests /\ (signal /\ last[FamilyOf(c)] <= now - 1) \in BOOLEAN
    OBVIOUS
  <2>3. r(signal) \in Requests
    <3>1. ASSUME NEW x \in Requests, NEW b \in BOOLEAN
          PROVE  [x EXCEPT !.stage = "claimed", !.at = now, !.touch = b] \in Requests
      OBVIOUS
    <3> QED
      BY <2>2, <3>1
  <2> QED
    BY <2>1, <2>3, PutTyped
<1>9. ASSUME NEW c \in Clients, NEW k \in Tokens, Rotate(c, k)
      PROVE  req' \in [Clients -> Requests]
  <2>1. Request("answered", k, 0) \in Requests
    BY RequestTyped DEF Stages, Answers
  <2> QED
    BY <1>9, <2>1, PutTyped, DoneTyped DEF Rotate
<1>10. ASSUME NEW c \in Clients, RollBack(c)
      PROVE  req' \in [Clients -> Requests]
  BY <1>10, DoneTyped DEF RollBack
<1>11. ASSUME NEW c \in Clients, Logout(c)
      PROVE  req' \in [Clients -> Requests]
  <2>1. Request("left", NoToken, 0) \in Requests
    BY RequestTyped DEF Stages, Answers
  <2> QED
    BY <1>11, <2>1, PutTyped DEF Logout
<1>12. ASSUME NEW c \in Clients, Challenge(c)
      PROVE  req' \in [Clients -> Requests]
  <2>1. Request("challenged", NoToken, version) \in Requests
    BY RequestTyped DEF Stages
  <2> QED
    BY <1>12, <2>1, PutTyped DEF Challenge
<1>13. ASSUME NEW c \in Clients, DropChallenge(c)
      PROVE  req' \in [Clients -> Requests]
  BY <1>13, DoneTyped DEF DropChallenge
<1>14. ASSUME NEW c \in Clients, NEW f \in Families, NEW k \in Tokens, Login(c, f, k)
      PROVE  req' \in [Clients -> Requests]
  <2>1. Request("opened", k, 0) \in Requests
    BY RequestTyped DEF Stages, Answers
  <2> QED
    BY <1>14, <2>1, PutTyped DEF Login
<1>15. ASSUME NEW c \in Clients, NEW f \in Families, NEW k \in Tokens, VerifyChallenge(c, f, k)
      PROVE  req' \in [Clients -> Requests]
  <2>1. Request("opened", k, 0) \in Requests
    BY RequestTyped DEF Stages, Answers
  <2> QED
    BY <1>15, <2>1, PutTyped DEF VerifyChallenge
<1>16. ASSUME NEW c \in Clients, NEW f \in Families, NEW k \in Tokens, EnrolAndOpen(c, f, k)
      PROVE  req' \in [Clients -> Requests]
  <2>1. Request("opened", k, 0) \in Requests
    BY RequestTyped DEF Stages, Answers
  <2> QED
    BY <1>16, <2>1, PutTyped DEF EnrolAndOpen
<1>17. ASSUME NEW c \in Clients, Deliver(c)
      PROVE  req' \in [Clients -> Requests]
  BY <1>17, DoneTyped DEF Deliver
<1>18. ASSUME NEW c \in Clients, LoseAnswer(c)
      PROVE  req' \in [Clients -> Requests]
  BY <1>18, DoneTyped DEF LoseAnswer
<1>19. ASSUME NEW c \in Clients, Abandon(c)
      PROVE  req' \in [Clients -> Requests]
  <2>1. req[c] \in Requests /\ [req[c] EXCEPT !.heard = FALSE] \in Requests
    BY DEF Requests
  <2> QED
    BY <1>19, <2>1, PutTyped DEF Abandon
<1>20. ASSUME NEW f \in Families, HeartbeatExpires(f)
      PROVE  req' \in [Clients -> Requests]
  BY <1>20 DEF HeartbeatExpires, browserVars
<1>21. ASSUME NEW f \in Families, IdleCheck(f)
      PROVE  req' \in [Clients -> Requests]
  BY <1>21 DEF IdleCheck, browserVars
<1>22. ASSUME NEW f \in Families, RevokeOthers(f)
      PROVE  req' \in [Clients -> Requests]
  BY <1>22 DEF RevokeOthers, browserVars
<1>23. ASSUME NEW f \in Families, NEW g \in Families, RevokeSelected(f, g)
      PROVE  req' \in [Clients -> Requests]
  BY <1>23 DEF RevokeSelected, browserVars
<1>24. ASSUME NEW on \in BOOLEAN, ChangeAccount(on)
      PROVE  req' \in [Clients -> Requests]
  BY <1>24 DEF ChangeAccount, browserVars
<1>26. ASSUME NEW c \in Clients, NEW k \in Tokens, Heartbeat(c, k)
      PROVE  req' \in [Clients -> Requests]
  <2>1. Request("touched", k, now) \in Requests
    BY RequestTyped DEF Stages
  <2> QED
    BY <1>26, <2>1, PutTyped DEF Heartbeat
<1>27. ASSUME NEW c \in Clients, CommitHeartbeat(c)
      PROVE  req' \in [Clients -> Requests]
  BY <1>27, DoneTyped DEF CommitHeartbeat
<1>25. CASE UNCHANGED vars
  BY <1>25 DEF vars, browserVars
<1> QED
  BY <1>1, <1>2, <1>3, <1>4, <1>5, <1>6, <1>7, <1>8, <1>9, <1>10, <1>11, <1>12, <1>13, <1>14,
     <1>15, <1>16, <1>17, <1>18, <1>19, <1>20, <1>21, <1>22, <1>23, <1>24, <1>25, <1>26, <1>27 DEF
     SessionsNext, RefreshStep, HeartbeatStep, EntryStep, AccountStep


LEMMA SessionsTypeStep ==
  ASSUME SessionsAssumption, SessionsTypeOK, RowsSound, RequestsSound, [SessionsNext]_vars
  PROVE  SessionsTypeOK'
<1> USE DEF SessionsAssumption, SessionsTypeOK, Tokens, Families
<1>0. req' \in [Clients -> Requests]
  BY RequestsTypeStep
<1>u. UserFamilies \subseteq Families
  BY DEF UserFamilies

<1>1. ASSUME Tick
      PROVE  SessionsTypeOK'
  BY <1>1, <1>0 DEF Tick, accountVars, rowVars, browserVars
<1>2. ASSUME Crash
      PROVE  SessionsTypeOK'
  BY <1>2, <1>0 DEF Crash, accountVars, rowVars
<1>3. ASSUME NEW c \in Clients, SendRefresh(c)
      PROVE  SessionsTypeOK'
  BY <1>3, <1>0 DEF SendRefresh, accountVars, rowVars
<1>4. ASSUME NEW c \in Clients, RejectReuse(c)
      PROVE  SessionsTypeOK'
  <2>1. FamilyOf(c) \in Families
    BY <1>4 DEF RejectReuse, RequestsSound, RowsSound, Carries, AtStage, Refreshing, NoToken,
       Requests, FamilyOf, Live
  <2> QED
    BY <1>0, <1>4, <2>1 DEF RejectReuse, EndAndFail, EndFamilies, accountVars
<1>5. ASSUME NEW c \in Clients, Refuse(c)
      PROVE  SessionsTypeOK'
  BY <1>5, <1>0 DEF Refuse, accountVars, rowVars, Done
<1>6. ASSUME NEW c \in Clients, RefuseIdle(c)
      PROVE  SessionsTypeOK'
  <2>1. FamilyOf(c) \in Families
    BY <1>6 DEF RefuseIdle, RequestsSound, RowsSound, Carries, AtStage, Refreshing, NoToken,
       Requests, FamilyOf, Live
  <2> QED
    BY <1>0, <1>6, <2>1 DEF RefuseIdle, EndAndFail, EndFamilies, accountVars
<1>7. ASSUME NEW c \in Clients, RejectStale(c)
      PROVE  SessionsTypeOK'
  <2>1. FamilyOf(c) \in Families
    BY <1>7 DEF RejectStale, RequestsSound, RowsSound, Carries, AtStage, Refreshing, NoToken,
       Requests, FamilyOf, Live
  <2> QED
    BY <1>0, <1>7, <2>1 DEF RejectStale, EndAndFail, EndFamilies, accountVars
<1>8. ASSUME NEW c \in Clients, Claim(c)
      PROVE  SessionsTypeOK'
  BY <1>8, <1>0 DEF Claim, accountVars, rowVars
<1>9. ASSUME NEW c \in Clients, NEW k \in Tokens, Rotate(c, k)
      PROVE  SessionsTypeOK'
  <2>1. req[c] \in Requests /\ req[c].token \in Tokens /\ FamilyOf(c) \in Families
    BY <1>9 DEF Rotate, RequestsSound, RowsSound, Carries, AtStage, Refreshing, NoToken,
       Requests, FamilyOf, Live
  <2>2. ActivityAtClaim(c) \in Nat \cup {NoTime}
    BY <2>1 DEF ActivityAtClaim, Requests
  <2>3. state' \in [Tokens -> {"unused", "live", "used"}]
    BY <1>9, <2>1 DEF Rotate
  <2>4. family' \in [Tokens -> Families \cup {NoFamily}] /\ expires' \in [Tokens -> Nat]
    BY <1>9, <2>1 DEF Rotate
  <2>5. last' \in [Families -> Nat \cup {NoTime}]
    BY <1>9, <2>1, <2>2 DEF Rotate
  <2> QED
    BY <1>0, <1>9, <2>3, <2>4, <2>5 DEF Rotate, accountVars
<1>10. ASSUME NEW c \in Clients, RollBack(c)
      PROVE  SessionsTypeOK'
  BY <1>10, <1>0 DEF RollBack, accountVars, rowVars, Done
<1>11. ASSUME NEW c \in Clients, Logout(c)
      PROVE  SessionsTypeOK'
  <2>1. family[cookie] \in Families
    BY <1>11 DEF Logout, RequestsSound, RowsSound, NoToken
  <2> QED
    BY <1>0, <1>11, <2>1 DEF Logout, EndFamilies, accountVars
<1>12. ASSUME NEW c \in Clients, Challenge(c)
      PROVE  SessionsTypeOK'
  BY <1>12, <1>0 DEF Challenge, accountVars, rowVars
<1>13. ASSUME NEW c \in Clients, DropChallenge(c)
      PROVE  SessionsTypeOK'
  BY <1>13, <1>0 DEF DropChallenge, accountVars, rowVars, Done
<1>14. ASSUME NEW c \in Clients, NEW f \in Families, NEW k \in Tokens, Login(c, f, k)
      PROVE  SessionsTypeOK'
  BY <1>14, <1>0 DEF Login, accountVars, NewFamily, Unused
<1>15. ASSUME NEW c \in Clients, NEW f \in Families, NEW k \in Tokens, VerifyChallenge(c, f, k)
      PROVE  SessionsTypeOK'
  BY <1>15, <1>0 DEF VerifyChallenge, accountVars, NewFamily, Unused, ChallengeStands
<1>16. ASSUME NEW c \in Clients, NEW f \in Families, NEW k \in Tokens, EnrolAndOpen(c, f, k)
      PROVE  SessionsTypeOK'
  <2>1. state' \in [Tokens -> {"unused", "live", "used"}]
    BY <1>16 DEF EnrolAndOpen
  <2>2. family' \in [Tokens -> Families \cup {NoFamily}] /\ expires' \in [Tokens -> Nat]
    BY <1>16 DEF EnrolAndOpen, NewFamily
  <2>3. last' \in [Families -> Nat \cup {NoTime}] /\ born' \in [Families -> Nat]
    BY <1>16 DEF EnrolAndOpen, NewFamily, ChallengeStands
  <2> QED
    BY <1>0, <1>16, <1>u, <2>1, <2>2, <2>3 DEF EnrolAndOpen
<1>17. ASSUME NEW c \in Clients, Deliver(c)
      PROVE  SessionsTypeOK'
  BY <1>17, <1>0 DEF Deliver, accountVars, rowVars, Done, Requests
<1>18. ASSUME NEW c \in Clients, LoseAnswer(c)
      PROVE  SessionsTypeOK'
  <2>1. AtStage(c, "answered") => FamilyOf(c) \in Families
    BY DEF RequestsSound, RowsSound, Carries, AtStage, NoToken, Requests, FamilyOf, Live
  <2> QED
    BY <1>0, <1>18, <2>1 DEF LoseAnswer, accountVars, rowVars
<1>19. ASSUME NEW c \in Clients, Abandon(c)
      PROVE  SessionsTypeOK'
  <2>1. FamilyOf(c) \in Families
    BY <1>19 DEF Abandon, RequestsSound, RowsSound, Carries, AtStage, NoToken, Requests,
       FamilyOf, Live
  <2> QED
    BY <1>0, <1>19, <2>1 DEF Abandon, accountVars, rowVars
<1>20. ASSUME NEW f \in Families, HeartbeatExpires(f)
      PROVE  SessionsTypeOK'
  BY <1>20, <1>0 DEF HeartbeatExpires, accountVars, browserVars, EndFamilies
<1>21. ASSUME NEW f \in Families, IdleCheck(f)
      PROVE  SessionsTypeOK'
  BY <1>21, <1>0 DEF IdleCheck, accountVars, browserVars, EndFamilies
<1>22. ASSUME NEW f \in Families, RevokeOthers(f)
      PROVE  SessionsTypeOK'
  BY <1>22, <1>u, <1>0 DEF RevokeOthers, accountVars, browserVars, EndFamilies
<1>23. ASSUME NEW f \in Families, NEW g \in Families, RevokeSelected(f, g)
      PROVE  SessionsTypeOK'
  BY <1>23, <1>0 DEF RevokeSelected, accountVars, browserVars, EndFamilies
<1>24. ASSUME NEW on \in BOOLEAN, ChangeAccount(on)
      PROVE  SessionsTypeOK'
  BY <1>24, <1>u, <1>0 DEF ChangeAccount, browserVars, EndFamilies
<1>26. ASSUME NEW c \in Clients, NEW k \in Tokens, Heartbeat(c, k)
      PROVE  SessionsTypeOK'
  BY <1>26, <1>0 DEF Heartbeat, accountVars, rowVars
<1>27. ASSUME NEW c \in Clients, CommitHeartbeat(c)
      PROVE  SessionsTypeOK'
  <2>1. req[c].at \in Nat
    BY DEF Requests
  <2> QED
    BY <1>27, <1>0, <2>1 DEF CommitHeartbeat, accountVars
<1>25. CASE UNCHANGED vars
  BY <1>25 DEF vars, accountVars, rowVars, browserVars
<1> QED
  BY <1>1, <1>2, <1>3, <1>4, <1>5, <1>6, <1>7, <1>8, <1>9, <1>10, <1>11, <1>12, <1>13, <1>14,
     <1>15, <1>16, <1>17, <1>18, <1>19, <1>20, <1>21, <1>22, <1>23, <1>24, <1>25, <1>26, <1>27 DEF
     SessionsNext, RefreshStep, HeartbeatStep, EntryStep, AccountStep

----------------------------------------------------------------------------
\* What a step may do to the account and the token rows
KeepsRows == UNCHANGED <<accountVars, rowVars>>
EndsFamilies ==
  \E F \in SUBSET Families :
    /\ RowFree /\ EndFamilies(F) /\ now' = now /\ \A f \in F : Opened(f)
    /\ UNCHANGED accountVars \/ UserFamilies \subseteq F
MovesActivity == \E c \in Clients : CommitHeartbeat(c)
OpensFamily ==
  \E f \in Families, k \in Tokens :
    /\ RowFree /\ now' = now /\ active' /\ ~Opened(f) /\ Unused(k)
    /\ last' = [last EXCEPT ![f] = now] /\ born' = [born EXCEPT ![f] = version']
    /\ family' = [family EXCEPT ![k] = f] /\ expires' = [expires EXCEPT ![k] = now + Ttl]
    /\ \/ /\ state' = [state EXCEPT ![k] = "live"] /\ ended' = ended
          /\ UNCHANGED accountVars
       \/ /\ state' = [j \in Tokens |-> IF j = k THEN "live"
                                        ELSE IF Live(j) THEN "used" ELSE state[j]]
          /\ ended' = ended \cup UserFamilies
Rotates == \E c \in Clients, k \in Tokens : Rotate(c, k)
RowStep == KeepsRows \/ EndsFamilies \/ MovesActivity \/ OpensFamily \/ Rotates

LEMMA CarriedFamily ==
  ASSUME SessionsTypeOK, RowsSound, RequestsSound
  PROVE  /\ cookie # NoToken => cookie \in Tokens /\ family[cookie] \in Families /\ Opened(family[cookie])
         /\ \A c \in Clients : Carries(c) =>
              req[c].token \in Tokens /\ FamilyOf(c) \in Families /\ Opened(FamilyOf(c))
  BY DEF SessionsTypeOK, RowsSound, RequestsSound, FamilyOf, Requests

LEMMA UsedOpened ==
  ASSUME SessionsTypeOK, RowsSound
  PROVE  /\ UserFamilies \subseteq Families
         /\ \A f \in Families : Used(f) => Opened(f)
         /\ \A f \in UserFamilies : Opened(f)
         /\ \A k \in Tokens : Live(k) => family[k] \in UserFamilies
  BY DEF UserFamilies, Used, RowsSound, Live, SessionsTypeOK

LEMMA RowSteps ==
  ASSUME SessionsTypeOK, RowsSound, RequestsSound, [SessionsNext]_vars
  PROVE  RowStep
<1>1. ASSUME Tick
      PROVE  RowStep
  BY <1>1 DEF Tick, accountVars, rowVars, browserVars, KeepsRows, RowStep
<1>2. ASSUME Crash
      PROVE  RowStep
  BY <1>2 DEF Crash, accountVars, rowVars, KeepsRows, RowStep
<1>3. ASSUME NEW c \in Clients, SendRefresh(c)
      PROVE  RowStep
  BY <1>3 DEF SendRefresh, accountVars, rowVars, KeepsRows, RowStep
<1>4. ASSUME NEW c \in Clients, RejectReuse(c)
      PROVE  RowStep
  <2>1. FamilyOf(c) \in Families /\ Opened(FamilyOf(c))
    BY <1>4, CarriedFamily DEF RejectReuse, Carries, AtStage, Refreshing
  <2>2. EndsFamilies
    BY <1>4, <2>1 DEF RejectReuse, EndAndFail, EndsFamilies
  <2> QED
    BY <2>2 DEF RowStep
<1>5. ASSUME NEW c \in Clients, Refuse(c)
      PROVE  RowStep
  BY <1>5 DEF Refuse, accountVars, rowVars, Done, KeepsRows, RowStep
<1>6. ASSUME NEW c \in Clients, RefuseIdle(c)
      PROVE  RowStep
  <2>1. FamilyOf(c) \in Families /\ Opened(FamilyOf(c))
    BY <1>6, CarriedFamily DEF RefuseIdle, Carries, AtStage, Refreshing
  <2>2. EndsFamilies
    BY <1>6, <2>1 DEF RefuseIdle, EndAndFail, EndsFamilies
  <2> QED
    BY <2>2 DEF RowStep
<1>7. ASSUME NEW c \in Clients, RejectStale(c)
      PROVE  RowStep
  <2>1. FamilyOf(c) \in Families /\ Opened(FamilyOf(c))
    BY <1>7, CarriedFamily DEF RejectStale, Carries, AtStage, Refreshing
  <2>2. EndsFamilies
    BY <1>7, <2>1 DEF RejectStale, EndAndFail, EndsFamilies
  <2> QED
    BY <2>2 DEF RowStep
<1>8. ASSUME NEW c \in Clients, Claim(c)
      PROVE  RowStep
  BY <1>8 DEF Claim, accountVars, rowVars, KeepsRows, RowStep
<1>9. ASSUME NEW c \in Clients, NEW k \in Tokens, Rotate(c, k)
      PROVE  RowStep
  BY <1>9 DEF RowStep, Rotates
<1>10. ASSUME NEW c \in Clients, RollBack(c)
      PROVE  RowStep
  BY <1>10 DEF RollBack, accountVars, rowVars, Done, KeepsRows, RowStep
<1>11. ASSUME NEW c \in Clients, Logout(c)
      PROVE  RowStep
  <2>1. family[cookie] \in Families /\ Opened(family[cookie])
    BY <1>11, CarriedFamily DEF Logout
  <2>2. EndsFamilies
    BY <1>11, <2>1 DEF Logout, EndsFamilies
  <2> QED
    BY <2>2 DEF RowStep
<1>12. ASSUME NEW c \in Clients, Challenge(c)
      PROVE  RowStep
  BY <1>12 DEF Challenge, accountVars, rowVars, KeepsRows, RowStep
<1>13. ASSUME NEW c \in Clients, DropChallenge(c)
      PROVE  RowStep
  BY <1>13 DEF DropChallenge, accountVars, rowVars, Done, KeepsRows, RowStep
<1>14. ASSUME NEW c \in Clients, NEW f \in Families, NEW k \in Tokens, Login(c, f, k)
      PROVE  RowStep
  <2>1. OpensFamily
    BY <1>14 DEF Login, OpensFamily, NewFamily, ChallengeStands, accountVars, SessionsTypeOK
  <2> QED
    BY <2>1 DEF RowStep
<1>15. ASSUME NEW c \in Clients, NEW f \in Families, NEW k \in Tokens, VerifyChallenge(c, f, k)
      PROVE  RowStep
  <2>1. OpensFamily
    BY <1>15 DEF VerifyChallenge, OpensFamily, NewFamily, ChallengeStands, accountVars,
       SessionsTypeOK
  <2> QED
    BY <2>1 DEF RowStep
<1>16. ASSUME NEW c \in Clients, NEW f \in Families, NEW k \in Tokens, EnrolAndOpen(c, f, k)
      PROVE  RowStep
  <2>1. OpensFamily
    BY <1>16 DEF EnrolAndOpen, OpensFamily, NewFamily, ChallengeStands, SessionsTypeOK
  <2> QED
    BY <2>1 DEF RowStep
<1>17. ASSUME NEW c \in Clients, Deliver(c)
      PROVE  RowStep
  BY <1>17 DEF Deliver, accountVars, rowVars, Done, KeepsRows, RowStep
<1>18. ASSUME NEW c \in Clients, LoseAnswer(c)
      PROVE  RowStep
  BY <1>18 DEF LoseAnswer, accountVars, rowVars, Done, KeepsRows, RowStep
<1>19. ASSUME NEW c \in Clients, Abandon(c)
      PROVE  RowStep
  BY <1>19 DEF Abandon, accountVars, rowVars, KeepsRows, RowStep
<1>20. ASSUME NEW f \in Families, HeartbeatExpires(f)
      PROVE  RowStep
  <2>1. EndsFamilies
    BY <1>20 DEF HeartbeatExpires, EndsFamilies
  <2> QED
    BY <2>1 DEF RowStep
<1>21. ASSUME NEW f \in Families, IdleCheck(f)
      PROVE  RowStep
  <2>1. EndsFamilies
    BY <1>21, UsedOpened DEF IdleCheck, EndsFamilies
  <2> QED
    BY <2>1 DEF RowStep
<1>22. ASSUME NEW f \in Families, RevokeOthers(f)
      PROVE  RowStep
  <2>1. EndsFamilies
    BY <1>22, UsedOpened DEF RevokeOthers, EndsFamilies
  <2> QED
    BY <2>1 DEF RowStep
<1>23. ASSUME NEW f \in Families, NEW g \in Families, RevokeSelected(f, g)
      PROVE  RowStep
  <2>1. EndsFamilies
    BY <1>23, UsedOpened DEF RevokeSelected, EndsFamilies
  <2> QED
    BY <2>1 DEF RowStep
<1>24. ASSUME NEW on \in BOOLEAN, ChangeAccount(on)
      PROVE  RowStep
  <2>1. EndsFamilies
    BY <1>24, UsedOpened DEF ChangeAccount, EndsFamilies
  <2> QED
    BY <2>1 DEF RowStep
<1>26. ASSUME NEW c \in Clients, NEW k \in Tokens, Heartbeat(c, k)
      PROVE  RowStep
  BY <1>26 DEF Heartbeat, accountVars, rowVars, KeepsRows, RowStep
<1>27. ASSUME NEW c \in Clients, CommitHeartbeat(c)
      PROVE  RowStep
  BY <1>27 DEF RowStep, MovesActivity
<1>25. CASE UNCHANGED vars
  BY <1>25 DEF vars, accountVars, rowVars, browserVars, KeepsRows, RowStep
<1> QED
  BY <1>1, <1>2, <1>3, <1>4, <1>5, <1>6, <1>7, <1>8, <1>9, <1>10, <1>11, <1>12, <1>13, <1>14,
     <1>15, <1>16, <1>17, <1>18, <1>19, <1>20, <1>21, <1>22, <1>23, <1>24, <1>25, <1>26, <1>27 DEF
     SessionsNext, RefreshStep, HeartbeatStep, EntryStep, AccountStep

LEMMA RowsSoundStep ==
  ASSUME SessionsTypeOK, RowsSound, RequestsSound, RowStep
  PROVE  RowsSound'
<1> USE DEF SessionsTypeOK, RowsSound, Opened
<1>1. CASE KeepsRows
  BY <1>1 DEF KeepsRows, rowVars
<1>2. CASE EndsFamilies
  BY <1>2 DEF EndsFamilies, EndFamilies, Live
<1>3. CASE MovesActivity
  BY <1>3 DEF MovesActivity, CommitHeartbeat, NoTime, Requests
<1>4. CASE OpensFamily
  <2>1. PICK f \in Families, k \in Tokens : OpensFamily!(f, k)
    BY <1>4 DEF OpensFamily
  <2>2. \A j \in Tokens : j # k /\ state'[j] # "unused" => state[j] # "unused" /\ family'[j] = family[j]
    BY <2>1 DEF Live
  <2>3. \A g \in Families : Opened(g) => Opened(g)'
    BY <2>1 DEF NoTime
  <2>4. family'[k] = f /\ Opened(f)'
    BY <2>1 DEF NoTime
  <2>5. \A g \in ended' : Opened(g)
    BY <2>1, UsedOpened
  <2> QED
    BY <2>2, <2>3, <2>4, <2>5, <2>1
<1>5. CASE Rotates
  <2>1. PICK c \in Clients, k \in Tokens : Rotate(c, k)
    BY <1>5 DEF Rotates
  <2>2. req[c].token \in Tokens /\ FamilyOf(c) \in Families /\ Opened(FamilyOf(c)) /\ Live(req[c].token)
    BY <2>1, CarriedFamily DEF Rotate, Carries, AtStage, Refreshing, Holding, RequestsSound
  <2>3. req[c].at # NoTime
    BY DEF Requests, NoTime
  <2>4. \A g \in Families : Opened(g) => Opened(g)'
    BY <2>1, <2>2, <2>3 DEF Rotate, ActivityAtClaim
  <2>5. \A j \in Tokens : j # k /\ state'[j] # "unused" => state[j] # "unused" /\ family'[j] = family[j]
    BY <2>1, <2>2 DEF Rotate, Live
  <2>6. family'[k] = FamilyOf(c) /\ ended' = ended
    BY <2>1 DEF Rotate
  <2> QED
    BY <2>2, <2>4, <2>5, <2>6
<1> QED
  BY <1>1, <1>2, <1>3, <1>4, <1>5 DEF RowStep

LEMMA OneLiveTokenStep ==
  ASSUME SessionsTypeOK, RowsSound, RequestsSound, OneLiveToken, RowStep
  PROVE  OneLiveToken'
<1> USE DEF SessionsTypeOK, RowsSound, OneLiveToken, Live
<1>1. CASE KeepsRows
  BY <1>1 DEF KeepsRows, rowVars
<1>2. CASE EndsFamilies
  BY <1>2 DEF EndsFamilies, EndFamilies
<1>3. CASE MovesActivity
  BY <1>3 DEF MovesActivity, CommitHeartbeat
<1>4. CASE OpensFamily
  <2>1. PICK f \in Families, k \in Tokens : OpensFamily!(f, k)
    BY <1>4 DEF OpensFamily
  <2>2. f \notin ended /\ f \notin UserFamilies
    BY <2>1, UsedOpened
  <2>3. \A j \in Tokens : state'[j] = "live" /\ j # k =>
          Live(j) /\ family'[j] = family[j] /\ family[j] # f /\ ended' = ended
    BY <2>1
  <2>4. f \notin ended' /\ family'[k] = f
    BY <2>1, <2>2
  <2> QED
    BY <2>3, <2>4
<1>5. CASE Rotates
  <2>1. PICK c \in Clients, k \in Tokens : Rotate(c, k)
    BY <1>5 DEF Rotates
  <2>2. req[c].token \in Tokens /\ Live(req[c].token)
    BY <2>1, CarriedFamily DEF Rotate, Carries, AtStage, Refreshing, Holding, RequestsSound
  <2>3. \A j \in Tokens : state'[j] = "live" /\ j # k =>
          Live(j) /\ family'[j] = family[j] /\ j # req[c].token
    BY <2>1, <2>2 DEF Rotate
  <2>4. family'[k] = family[req[c].token] /\ ended' = ended
    BY <2>1 DEF Rotate, FamilyOf
  <2> QED
    BY <2>2, <2>3, <2>4
<1> QED
  BY <1>1, <1>2, <1>3, <1>4, <1>5 DEF RowStep

LEMMA LiveIsProvenStep ==
  ASSUME SessionsTypeOK, RowsSound, RequestsSound, LiveIsProven, RowStep
  PROVE  LiveIsProven'
<1> USE DEF SessionsTypeOK, RowsSound, LiveIsProven, Live, accountVars
<1>1. CASE KeepsRows
  BY <1>1 DEF KeepsRows, rowVars
<1>2. CASE EndsFamilies
  BY <1>2, UsedOpened DEF EndsFamilies, EndFamilies
<1>3. CASE MovesActivity
  BY <1>3 DEF MovesActivity, CommitHeartbeat
<1>4. CASE OpensFamily
  <2>1. PICK f \in Families, k \in Tokens : OpensFamily!(f, k)
    BY <1>4 DEF OpensFamily
  <2>2. \A j \in Tokens : state'[j] = "live" /\ j # k =>
          Live(j) /\ family'[j] = family[j] /\ family[j] # f /\ UNCHANGED accountVars
    BY <2>1
  <2>3. family'[k] = f /\ born'[f] = version' /\ active'
    BY <2>1
  <2>4. \A g \in Families : g # f => born'[g] = born[g]
    BY <2>1
  <2> QED
    BY <2>2, <2>3, <2>4
<1>5. CASE Rotates
  <2>1. PICK c \in Clients, k \in Tokens : Rotate(c, k)
    BY <1>5 DEF Rotates
  <2>2. req[c].token \in Tokens /\ Live(req[c].token)
    BY <2>1, CarriedFamily DEF Rotate, Carries, AtStage, Refreshing, Holding, RequestsSound
  <2>3. \A j \in Tokens : state'[j] = "live" /\ j # k => Live(j) /\ family'[j] = family[j]
    BY <2>1, <2>2 DEF Rotate
  <2>4. family'[k] = family[req[c].token] /\ UNCHANGED <<accountVars, born>>
    BY <2>1 DEF Rotate, FamilyOf
  <2> QED
    BY <2>2, <2>3, <2>4
<1> QED
  BY <1>1, <1>2, <1>3, <1>4, <1>5 DEF RowStep


\* A row once used stays used and keeps its family
LEMMA RowsStayUsed ==
  ASSUME SessionsTypeOK, RowsSound, RequestsSound, RowStep
  PROVE  \A k \in Tokens : state[k] # "unused" => state'[k] # "unused" /\ family'[k] = family[k]
<1> USE DEF SessionsTypeOK, Live
<1>1. CASE KeepsRows
  BY <1>1 DEF KeepsRows, rowVars
<1>2. CASE EndsFamilies
  BY <1>2 DEF EndsFamilies, EndFamilies
<1>3. CASE MovesActivity
  BY <1>3 DEF MovesActivity, CommitHeartbeat
<1>4. CASE OpensFamily
  BY <1>4 DEF OpensFamily, Unused
<1>5. CASE Rotates
  <2>1. PICK c \in Clients, k \in Tokens : Rotate(c, k)
    BY <1>5 DEF Rotates
  <2>2. req[c].token \in Tokens
    BY <2>1, CarriedFamily DEF Rotate, Carries, AtStage, Refreshing
  <2> QED
    BY <2>1, <2>2 DEF Rotate, Unused
<1> QED
  BY <1>1, <1>2, <1>3, <1>4, <1>5 DEF RowStep

\* One request changes, and no claim suffers
CarrySet == Refreshing \cup {"answered", "opened"}
LEMMA PutSound ==
  ASSUME SessionsTypeOK, RequestsSound, NEW c \in Clients, NEW r \in Requests, Put(c, r),
         \A k \in Tokens : state[k] # "unused" => state'[k] # "unused",
         cookie' \in {cookie, NoToken, r.token, req[c].token},
         cookie' # NoToken => cookie' \in Tokens /\ state'[cookie'] # "unused",
         r.stage \in CarrySet => r.token # NoToken /\ state'[r.token] # "unused",
         r.stage = "left" => r.token = NoToken,
         r.stage \in Holding => /\ r.token # NoToken /\ state'[r.token] = "live"
                                /\ \A d \in Clients : req[d].stage \notin Holding,
         \A d \in Clients \ {c} : req[d].stage \in Holding => state'[req[d].token] = "live"
  PROVE  RequestsSound'
<1>1. /\ req'[c] = r /\ \A d \in Clients \ {c} : req'[d] = req[d]
      /\ \A d \in Clients : req[d].token \in Tokens \cup {NoToken}
  BY DEF Put, SessionsTypeOK, Requests
<1> QED
  BY <1>1 DEF RequestsSound, Carries, AtStage, Live, CarrySet, Refreshing

\* A request that is done, while its row is free or nothing is written
LEMMA DoneSound ==
  ASSUME SessionsTypeOK, RowsSound, RequestsSound, RowStep, NEW c \in Clients, Done(c),
         cookie' = cookie \/ (cookie' = req[c].token /\ req[c].stage \in Answers),
         RowFree \/ UNCHANGED state
  PROVE  RequestsSound'
<1>1. Put(c, IdleRequest) /\ IdleRequest \in Requests /\ IdleRequest.stage = "idle"
  BY RequestTyped DEF Done, IdleRequest, Request, Stages
<1>2. \A k \in Tokens : state[k] # "unused" => state'[k] # "unused"
  BY RowsStayUsed
<1>3. cookie' # NoToken => cookie' \in Tokens /\ state'[cookie'] # "unused"
  BY <1>2 DEF SessionsTypeOK, Requests, RequestsSound, Carries, Answers
<1>4. \A d \in Clients \ {c} : req[d].stage \in Holding => state'[req[d].token] = "live"
  BY DEF RequestsSound, RowFree, AtStage, Live
<1> QED
  BY <1>1, <1>2, <1>3, <1>4, PutSound DEF CarrySet, Refreshing, Holding

LEMMA RequestsSoundStep ==
  ASSUME SessionsTypeOK, RowsSound, RequestsSound, [SessionsNext]_vars
  PROVE  RequestsSound'
<1>0. RowStep
  BY RowSteps
<1>00. /\ req \in [Clients -> Requests] /\ cookie \in Tokens \cup {NoToken}
       /\ \A c \in Clients : req[c].token \in Tokens \cup {NoToken}
       /\ \A k \in Tokens : state[k] # "unused" => state'[k] # "unused"
  BY <1>0, RowsStayUsed DEF SessionsTypeOK, Requests
<1>free. RowFree \/ UNCHANGED state => 
           \A d \in Clients : req[d].stage \in Holding => state'[req[d].token] = "live"
  BY DEF RequestsSound, RowFree, AtStage, Live
<1>1. ASSUME Tick
      PROVE  RequestsSound'
  <2>1. UNCHANGED <<cookie, req>> /\ (RowFree \/ UNCHANGED state)
    BY <1>1 DEF Tick, rowVars, browserVars
  <2> QED
    BY <2>1, <1>00 DEF RequestsSound, Carries, AtStage, RowFree, Live
<1>2. ASSUME Crash
      PROVE  RequestsSound'
  <2>1. \A c \in Clients : req'[c] = req[c] \/ req'[c] = IdleRequest
    BY <1>2 DEF Crash
  <2>2. IdleRequest.stage = "idle"
    BY DEF IdleRequest, Request
  <2> QED
    BY <1>2, <2>1, <2>2, <1>00 DEF Crash, rowVars, RequestsSound, Carries, AtStage, Refreshing, Live, Holding
<1>3. ASSUME NEW c \in Clients, SendRefresh(c)
      PROVE  RequestsSound'
  <2> DEFINE r == Request(IF Live(cookie) THEN "valid" ELSE "reused", cookie, 0)
  <2>1. r \in Requests /\ Put(c, r) /\ r.stage = IF Live(cookie) THEN "valid" ELSE "reused"
    <3>1. r \in Requests
      BY <1>3, <1>00, RequestTyped DEF SendRefresh, Stages, Refreshing, Answers, SessionsTypeOK
    <3>2. Put(c, r) /\ r.stage = IF Live(cookie) THEN "valid" ELSE "reused"
      BY <1>3 DEF SendRefresh, Request
    <3> QED
      BY <3>1, <3>2
  <2>2. r.token = cookie /\ cookie # NoToken /\ state[cookie] # "unused" /\ cookie' = cookie
    BY <1>3 DEF SendRefresh, RequestsSound, Request
  <2>3. RowFree \/ UNCHANGED state
    BY <1>3 DEF SendRefresh, rowVars
  <2> HIDE DEF r
  <2> QED
    BY <2>1, <2>2, <2>3, <1>00, <1>free, PutSound DEF CarrySet, Refreshing, Holding
<1>4. ASSUME NEW c \in Clients, RejectReuse(c)
      PROVE  RequestsSound'
  <2>1. Done(c) /\ cookie' = cookie /\ RowFree
    BY <1>4 DEF RejectReuse, EndAndFail
  <2> QED
    BY <2>1, <1>0, DoneSound
<1>5. ASSUME NEW c \in Clients, Refuse(c)
      PROVE  RequestsSound'
  <2>1. Done(c) /\ cookie' = cookie /\ UNCHANGED state
    BY <1>5 DEF Refuse, rowVars
  <2> QED
    BY <2>1, <1>0, DoneSound
<1>6. ASSUME NEW c \in Clients, RefuseIdle(c)
      PROVE  RequestsSound'
  <2>1. Done(c) /\ cookie' = cookie /\ RowFree
    BY <1>6 DEF RefuseIdle, EndAndFail
  <2> QED
    BY <2>1, <1>0, DoneSound
<1>7. ASSUME NEW c \in Clients, RejectStale(c)
      PROVE  RequestsSound'
  <2>1. Done(c) /\ cookie' = cookie /\ RowFree
    BY <1>7 DEF RejectStale, EndAndFail
  <2> QED
    BY <2>1, <1>0, DoneSound
<1>8. ASSUME NEW c \in Clients, Claim(c)
      PROVE  RequestsSound'
  <2>1. PICK signal \in BOOLEAN :
          Put(c, [req[c] EXCEPT !.stage = "claimed", !.at = now,
                    !.touch = signal /\ last[FamilyOf(c)] <= now - 1])
    BY <1>8 DEF Claim
  <2> DEFINE r == [req[c] EXCEPT !.stage = "claimed", !.at = now,
                     !.touch = signal /\ last[FamilyOf(c)] <= now - 1]
  <2>2. req'[c] = r /\ r.stage = "claimed" /\ r.token = req[c].token /\ \A d \in Clients \ {c} : req'[d] = req[d]
    BY <2>1, <1>00 DEF Put, Requests
  <2>3. UNCHANGED <<state, cookie>> /\ RowFree /\ Live(req[c].token) /\ AtStage(c, "valid")
    BY <1>8 DEF Claim, rowVars, Claimable
  <2> HIDE DEF r
  <2> QED
    BY <2>2, <2>3, <1>00 DEF RequestsSound, Carries, AtStage, RowFree, Refreshing, Live, Holding
<1>9. ASSUME NEW c \in Clients, NEW k \in Tokens, Rotate(c, k)
      PROVE  RequestsSound'
  <2>1. \A d \in Clients \ {c} : req'[d] = req[d] /\ req[d].stage \notin Holding
    BY <1>9, <1>00 DEF Rotate, Put, Done, RequestsSound, AtStage, Holding
  <2>2. (req'[c].stage = "answered" /\ req'[c].token = k) \/ req'[c].stage = "idle"
    BY <1>9, <1>00 DEF Rotate, Put, Done, Request, IdleRequest
  <2>3. state'[k] # "unused" /\ k # NoToken /\ cookie' = cookie
    BY <1>9 DEF Rotate, SessionsTypeOK, Tokens, NoToken
  <2> QED
    BY <2>1, <2>2, <2>3, <1>00 DEF RequestsSound, Carries, AtStage, Refreshing, Holding
<1>10. ASSUME NEW c \in Clients, RollBack(c)
      PROVE  RequestsSound'
  <2>1. Done(c) /\ cookie' = cookie /\ UNCHANGED state
    BY <1>10 DEF RollBack, rowVars
  <2> QED
    BY <2>1, <1>0, DoneSound
<1>11. ASSUME NEW c \in Clients, Logout(c)
      PROVE  RequestsSound'
  <2> DEFINE r == Request("left", NoToken, 0)
  <2>1. r \in Requests /\ Put(c, r) /\ r.stage = "left"
    <3>1. r \in Requests
      BY <1>11, <1>00, RequestTyped DEF Logout, Stages, Refreshing, Answers, SessionsTypeOK
    <3>2. Put(c, r) /\ r.stage = "left"
      BY <1>11 DEF Logout, Request
    <3> QED
      BY <3>1, <3>2
  <2>2. r.token = NoToken /\ cookie' = cookie /\ (cookie # NoToken => state[cookie] # "unused")
    BY <1>11 DEF Logout, RequestsSound, Request
  <2>3. RowFree \/ UNCHANGED state
    BY <1>11 DEF Logout
  <2> HIDE DEF r
  <2> QED
    BY <2>1, <2>2, <2>3, <1>00, <1>free, PutSound DEF CarrySet, Refreshing, Holding
<1>12. ASSUME NEW c \in Clients, Challenge(c)
      PROVE  RequestsSound'
  <2> DEFINE r == Request("challenged", NoToken, version)
  <2>1. r \in Requests /\ Put(c, r) /\ r.stage = "challenged"
    <3>1. r \in Requests
      BY <1>12, <1>00, RequestTyped DEF Challenge, Stages, Refreshing, Answers, SessionsTypeOK
    <3>2. Put(c, r) /\ r.stage = "challenged"
      BY <1>12 DEF Challenge, Request
    <3> QED
      BY <3>1, <3>2
  <2>2. r.token = NoToken /\ cookie' \in {cookie, NoToken} /\ (cookie # NoToken => state[cookie] # "unused")
    BY <1>12 DEF Challenge, RequestsSound, Request
  <2>3. RowFree \/ UNCHANGED state
    BY <1>12 DEF Challenge
  <2> HIDE DEF r
  <2> QED
    BY <2>1, <2>2, <2>3, <1>00, <1>free, PutSound DEF CarrySet, Refreshing, Holding
<1>13. ASSUME NEW c \in Clients, DropChallenge(c)
      PROVE  RequestsSound'
  <2>1. Done(c) /\ cookie' = cookie /\ UNCHANGED state
    BY <1>13 DEF DropChallenge, rowVars
  <2> QED
    BY <2>1, <1>0, DoneSound
<1>14. ASSUME NEW c \in Clients, NEW f \in Families, NEW k \in Tokens, Login(c, f, k)
      PROVE  RequestsSound'
  <2> DEFINE r == Request("opened", k, 0)
  <2>1. r \in Requests /\ Put(c, r) /\ r.stage = "opened"
    <3>1. r \in Requests
      BY <1>14, <1>00, RequestTyped DEF Login, Stages, Refreshing, Answers, SessionsTypeOK
    <3>2. Put(c, r) /\ r.stage = "opened"
      BY <1>14 DEF Login, Request
    <3> QED
      BY <3>1, <3>2
  <2>2. r.token = k /\ cookie' = cookie /\ (cookie # NoToken => state[cookie] # "unused")
    BY <1>14 DEF Login, RequestsSound, Request
  <2>3. /\ RowFree \/ UNCHANGED state
        /\ state'[k] # "unused" /\ k # NoToken
    BY <1>14 DEF Login, SessionsTypeOK, Tokens, NoToken
  <2> HIDE DEF r
  <2> QED
    BY <2>1, <2>2, <2>3, <1>00, <1>free, PutSound DEF CarrySet, Refreshing, Holding
<1>15. ASSUME NEW c \in Clients, NEW f \in Families, NEW k \in Tokens, VerifyChallenge(c, f, k)
      PROVE  RequestsSound'
  <2> DEFINE r == Request("opened", k, 0)
  <2>1. r \in Requests /\ Put(c, r) /\ r.stage = "opened"
    <3>1. r \in Requests
      BY <1>15, <1>00, RequestTyped DEF VerifyChallenge, Stages, Refreshing, Answers, SessionsTypeOK
    <3>2. Put(c, r) /\ r.stage = "opened"
      BY <1>15 DEF VerifyChallenge, Request
    <3> QED
      BY <3>1, <3>2
  <2>2. r.token = k /\ cookie' = cookie /\ (cookie # NoToken => state[cookie] # "unused")
    BY <1>15 DEF VerifyChallenge, RequestsSound, Request
  <2>3. /\ RowFree \/ UNCHANGED state
        /\ state'[k] # "unused" /\ k # NoToken
    BY <1>15 DEF VerifyChallenge, SessionsTypeOK, Tokens, NoToken
  <2> HIDE DEF r
  <2> QED
    BY <2>1, <2>2, <2>3, <1>00, <1>free, PutSound DEF CarrySet, Refreshing, Holding
<1>16. ASSUME NEW c \in Clients, NEW f \in Families, NEW k \in Tokens, EnrolAndOpen(c, f, k)
      PROVE  RequestsSound'
  <2> DEFINE r == Request("opened", k, 0)
  <2>1. r \in Requests /\ Put(c, r) /\ r.stage = "opened"
    <3>1. r \in Requests
      BY <1>16, <1>00, RequestTyped DEF EnrolAndOpen, Stages, Refreshing, Answers, SessionsTypeOK
    <3>2. Put(c, r) /\ r.stage = "opened"
      BY <1>16 DEF EnrolAndOpen, Request
    <3> QED
      BY <3>1, <3>2
  <2>2. r.token = k /\ cookie' = cookie /\ (cookie # NoToken => state[cookie] # "unused")
    BY <1>16 DEF EnrolAndOpen, RequestsSound, Request
  <2>3. /\ RowFree \/ UNCHANGED state
        /\ state'[k] # "unused" /\ k # NoToken
    BY <1>16 DEF EnrolAndOpen, SessionsTypeOK, Tokens, NoToken
  <2> HIDE DEF r
  <2> QED
    BY <2>1, <2>2, <2>3, <1>00, <1>free, PutSound DEF CarrySet, Refreshing, Holding
<1>17. ASSUME NEW c \in Clients, Deliver(c)
      PROVE  RequestsSound'
  BY <1>17, <1>0, DoneSound DEF Deliver, accountVars, rowVars, Done
<1>18. ASSUME NEW c \in Clients, LoseAnswer(c)
      PROVE  RequestsSound'
  BY <1>18, <1>0, DoneSound DEF LoseAnswer, accountVars, rowVars, Done
<1>19. ASSUME NEW c \in Clients, Abandon(c)
      PROVE  RequestsSound'
  <2> DEFINE r == [req[c] EXCEPT !.heard = FALSE]
  <2>2. /\ req'[c] = r /\ r.stage = req[c].stage /\ r.token = req[c].token
        /\ \A d \in Clients \ {c} : req'[d] = req[d]
    BY <1>19, <1>00 DEF Abandon, Put, Requests
  <2>3. UNCHANGED <<state, cookie>>
    BY <1>19 DEF Abandon, rowVars
  <2> HIDE DEF r
  <2> QED
    BY <2>2, <2>3, <1>00 DEF RequestsSound, Carries, AtStage, RowFree, Refreshing, Live, Holding
<1>20. ASSUME NEW f \in Families, HeartbeatExpires(f)
      PROVE  RequestsSound'
  <2>1. UNCHANGED <<cookie, req>> /\ (RowFree \/ UNCHANGED state)
    BY <1>20 DEF HeartbeatExpires, browserVars
  <2> QED
    BY <2>1, <1>00 DEF RequestsSound, Carries, AtStage, RowFree, Live
<1>21. ASSUME NEW f \in Families, IdleCheck(f)
      PROVE  RequestsSound'
  <2>1. UNCHANGED <<cookie, req>> /\ (RowFree \/ UNCHANGED state)
    BY <1>21 DEF IdleCheck, browserVars
  <2> QED
    BY <2>1, <1>00 DEF RequestsSound, Carries, AtStage, RowFree, Live
<1>22. ASSUME NEW f \in Families, RevokeOthers(f)
      PROVE  RequestsSound'
  <2>1. UNCHANGED <<cookie, req>> /\ (RowFree \/ UNCHANGED state)
    BY <1>22 DEF RevokeOthers, browserVars
  <2> QED
    BY <2>1, <1>00 DEF RequestsSound, Carries, AtStage, RowFree, Live
<1>23. ASSUME NEW f \in Families, NEW g \in Families, RevokeSelected(f, g)
      PROVE  RequestsSound'
  <2>1. UNCHANGED <<cookie, req>> /\ (RowFree \/ UNCHANGED state)
    BY <1>23 DEF RevokeSelected, browserVars
  <2> QED
    BY <2>1, <1>00 DEF RequestsSound, Carries, AtStage, RowFree, Live
<1>24. ASSUME NEW on \in BOOLEAN, ChangeAccount(on)
      PROVE  RequestsSound'
  <2>1. UNCHANGED <<cookie, req>> /\ (RowFree \/ UNCHANGED state)
    BY <1>24 DEF ChangeAccount, browserVars
  <2> QED
    BY <2>1, <1>00 DEF RequestsSound, Carries, AtStage, RowFree, Live
<1>26. ASSUME NEW c \in Clients, NEW k \in Tokens, Heartbeat(c, k)
      PROVE  RequestsSound'
  <2>1. /\ req'[c].stage = "touched" /\ req'[c].token = k /\ k # NoToken
        /\ \A d \in Clients \ {c} : req'[d] = req[d]
    BY <1>26, <1>00 DEF Heartbeat, Put, Request, Tokens, NoToken
  <2>2. UNCHANGED <<state, cookie>> /\ RowFree /\ Live(k)
    BY <1>26 DEF Heartbeat, rowVars
  <2> QED
    BY <2>1, <2>2, <1>00 DEF RequestsSound, Carries, AtStage, RowFree, Refreshing, Live, Holding
<1>27. ASSUME NEW c \in Clients, CommitHeartbeat(c)
      PROVE  RequestsSound'
  <2>1. Done(c) /\ cookie' = cookie /\ UNCHANGED state
    BY <1>27 DEF CommitHeartbeat
  <2> QED
    BY <2>1, <1>0, DoneSound
<1>25. CASE UNCHANGED vars
  BY <1>25 DEF vars, rowVars, browserVars, RequestsSound, Carries, AtStage, Live
<1> QED
  BY <1>1, <1>2, <1>3, <1>4, <1>5, <1>6, <1>7, <1>8, <1>9, <1>10, <1>11, <1>12, <1>13, <1>14,
     <1>15, <1>16, <1>17, <1>18, <1>19, <1>20, <1>21, <1>22, <1>23, <1>24, <1>25, <1>26, <1>27 DEF
     SessionsNext, RefreshStep, HeartbeatStep, EntryStep, AccountStep


\* The stages of a request that takes a turn with the browser's other tabs
Turn == Refreshing \cup {"answered", "left"}

LEMMA PutTurns ==
  ASSUME SessionsTypeOK, RequestsSound, TurnsTaken, NEW c \in Clients, NEW r \in Requests, Put(c, r),
         \A k \in Tokens : state[k] # "unused" => family'[k] = family[k],
         lost \subseteq lost',
         r.stage \in Answers => r.heard,
         r.stage \in Refreshing /\ ~r.heard => family'[r.token] \in lost',
         r.stage \in Turn /\ r.heard => WebLockFree \/ (req[c].stage \in Turn /\ req[c].heard)
  PROVE  TurnsTaken'
<1>1. /\ req'[c] = r /\ \A d \in Clients \ {c} : req'[d] = req[d]
      /\ \A d \in Clients : req[d].token \in Tokens \cup {NoToken}
      /\ \A d \in Clients : req[d].heard \in BOOLEAN
  BY DEF Put, SessionsTypeOK, Requests
<1>2. \A d \in Clients : req[d].stage \in Refreshing => family'[req[d].token] = family[req[d].token]
  BY <1>1 DEF RequestsSound, Carries
<1>3. \A d \in Clients : req'[d].stage \in Answers => req'[d].heard
  BY <1>1 DEF TurnsTaken
<1>4. \A d \in Clients : req'[d].stage \in Refreshing /\ ~req'[d].heard => family'[req'[d].token] \in lost'
  BY <1>1, <1>2 DEF TurnsTaken, FamilyOf
<1>5. \A d, e \in Clients :
        (req'[d].stage \in Turn /\ req'[d].heard /\ req'[e].stage \in Turn /\ req'[e].heard) => d = e
  BY <1>1 DEF TurnsTaken, WebLockFree, Turn
<1> QED
  BY <1>3, <1>4, <1>5 DEF TurnsTaken, FamilyOf, Turn

LEMMA DoneTurns ==
  ASSUME SessionsTypeOK, RowsSound, RequestsSound, TurnsTaken, RowStep, NEW c \in Clients, Done(c),
         lost \subseteq lost'
  PROVE  TurnsTaken'
<1>1. Put(c, IdleRequest) /\ IdleRequest \in Requests /\ IdleRequest.stage = "idle"
  BY RequestTyped DEF Done, IdleRequest, Request, Stages
<1> QED
  BY <1>1, RowsStayUsed, PutTurns DEF Turn, Refreshing, Answers

LEMMA TurnsTakenStep ==
  ASSUME SessionsTypeOK, RowsSound, RequestsSound, TurnsTaken, [SessionsNext]_vars
  PROVE  TurnsTaken'
<1>0. RowStep
  BY RowSteps
<1>00. /\ req \in [Clients -> Requests]
       /\ \A k \in Tokens : state[k] # "unused" => family'[k] = family[k]
       /\ \A c \in Clients : Carries(c) => req[c].token \in Tokens /\ state[req[c].token] # "unused"
  BY <1>0, RowsStayUsed DEF SessionsTypeOK, Requests, RequestsSound
<1>1. ASSUME Tick
      PROVE  TurnsTaken'
  <2>1. UNCHANGED <<lost, req>>
    BY <1>1 DEF Tick, rowVars, browserVars
  <2> QED
    BY <2>1, <1>00 DEF TurnsTaken, FamilyOf, Carries
<1>2. ASSUME Crash
      PROVE  TurnsTaken'
  <2>1. \A c \in Clients : req'[c] = req[c] \/ req'[c] = IdleRequest
    BY <1>2 DEF Crash
  <2>2. IdleRequest.stage = "idle"
    BY DEF IdleRequest, Request
  <2>3. lost' = lost
    BY <1>2 DEF Crash
  <2>4. UNCHANGED family
    BY <1>2 DEF Crash, rowVars
  <2> QED
    BY <2>1, <2>2, <2>3, <2>4 DEF TurnsTaken, FamilyOf, Refreshing, Answers
<1>3. ASSUME NEW c \in Clients, SendRefresh(c)
      PROVE  TurnsTaken'
  <2> DEFINE r == Request(IF Live(cookie) THEN "valid" ELSE "reused", cookie, 0)
  <2>1. r \in Requests
    BY <1>3, RequestTyped DEF SendRefresh, Stages, Refreshing, Answers, SessionsTypeOK
  <2>2. Put(c, r) /\ r.stage \in {"valid", "reused"} /\ r.heard /\ WebLockFree
    BY <1>3 DEF SendRefresh, Request
  <2>3. lost' = lost
    BY <1>3 DEF SendRefresh
  <2> HIDE DEF r
  <2> QED
    BY <2>1, <2>2, <2>3, <1>00, PutTurns DEF Turn, Refreshing, Answers
<1>4. ASSUME NEW c \in Clients, RejectReuse(c)
      PROVE  TurnsTaken'
  <2>1. Done(c) /\ lost' = lost
    BY <1>4 DEF RejectReuse, EndAndFail
  <2> QED
    BY <2>1, <1>0, DoneTurns
<1>5. ASSUME NEW c \in Clients, Refuse(c)
      PROVE  TurnsTaken'
  <2>1. Done(c) /\ lost' = lost
    BY <1>5 DEF Refuse, EndAndFail
  <2> QED
    BY <2>1, <1>0, DoneTurns
<1>6. ASSUME NEW c \in Clients, RefuseIdle(c)
      PROVE  TurnsTaken'
  <2>1. Done(c) /\ lost' = lost
    BY <1>6 DEF RefuseIdle, EndAndFail
  <2> QED
    BY <2>1, <1>0, DoneTurns
<1>7. ASSUME NEW c \in Clients, RejectStale(c)
      PROVE  TurnsTaken'
  <2>1. Done(c) /\ lost' = lost
    BY <1>7 DEF RejectStale, EndAndFail
  <2> QED
    BY <2>1, <1>0, DoneTurns
<1>8. ASSUME NEW c \in Clients, Claim(c)
      PROVE  TurnsTaken'
  <2>1. PICK signal \in BOOLEAN :
          Put(c, [req[c] EXCEPT !.stage = "claimed", !.at = now,
                    !.touch = signal /\ last[FamilyOf(c)] <= now - 1])
    BY <1>8 DEF Claim
  <2> DEFINE r == [req[c] EXCEPT !.stage = "claimed", !.at = now,
                     !.touch = signal /\ last[FamilyOf(c)] <= now - 1]
  <2>2. /\ req'[c] = r /\ r.stage = "claimed" /\ r.token = req[c].token /\ r.heard = req[c].heard
        /\ \A d \in Clients \ {c} : req'[d] = req[d]
    BY <2>1, <1>00 DEF Put, Requests
  <2>3. UNCHANGED <<family, lost>> /\ AtStage(c, "valid")
    BY <1>8 DEF Claim, rowVars
  <2> HIDE DEF r
  <2> QED
    BY <2>2, <2>3 DEF TurnsTaken, FamilyOf, AtStage, Refreshing, Answers
<1>9. ASSUME NEW c \in Clients, NEW k \in Tokens, Rotate(c, k)
      PROVE  TurnsTaken'
  <2>1. AtStage(c, "claimed") /\ lost' = lost
    BY <1>9 DEF Rotate
  <2>2. CASE req[c].heard
    <3> DEFINE r == Request("answered", k, 0)
    <3>1. r \in Requests
      BY RequestTyped DEF Stages, Answers
    <3>2. Put(c, r) /\ r.stage = "answered" /\ r.heard
      BY <1>9, <2>2 DEF Rotate, Request
    <3> HIDE DEF r
    <3> QED
      BY <2>1, <2>2, <3>1, <3>2, <1>00, PutTurns DEF Turn, Refreshing, Answers, AtStage
  <2>3. CASE ~req[c].heard
    <3>1. Done(c)
      BY <1>9, <2>3 DEF Rotate
    <3> QED
      BY <2>1, <3>1, <1>0, DoneTurns
  <2> QED
    BY <2>2, <2>3
<1>10. ASSUME NEW c \in Clients, RollBack(c)
      PROVE  TurnsTaken'
  <2>1. Done(c) /\ lost' = lost
    BY <1>10 DEF RollBack, EndAndFail
  <2> QED
    BY <2>1, <1>0, DoneTurns
<1>11. ASSUME NEW c \in Clients, Logout(c)
      PROVE  TurnsTaken'
  <2> DEFINE r == Request("left", NoToken, 0)
  <2>1. r \in Requests
    BY <1>11, RequestTyped DEF Logout, Stages, Refreshing, Answers, SessionsTypeOK
  <2>2. Put(c, r) /\ r.stage = "left" /\ r.heard /\ WebLockFree
    BY <1>11 DEF Logout, Request
  <2>3. lost' = lost
    BY <1>11 DEF Logout
  <2> HIDE DEF r
  <2> QED
    BY <2>1, <2>2, <2>3, <1>00, PutTurns DEF Turn, Refreshing, Answers
<1>12. ASSUME NEW c \in Clients, Challenge(c)
      PROVE  TurnsTaken'
  <2> DEFINE r == Request("challenged", NoToken, version)
  <2>1. r \in Requests
    BY <1>12, RequestTyped DEF Challenge, Stages, Refreshing, Answers, SessionsTypeOK
  <2>2. Put(c, r) /\ r.stage = "challenged" /\ r.heard
    BY <1>12 DEF Challenge, Request
  <2>3. lost' = lost
    BY <1>12 DEF Challenge
  <2> HIDE DEF r
  <2> QED
    BY <2>1, <2>2, <2>3, <1>00, PutTurns DEF Turn, Refreshing, Answers
<1>13. ASSUME NEW c \in Clients, DropChallenge(c)
      PROVE  TurnsTaken'
  <2>1. Done(c) /\ lost' = lost
    BY <1>13 DEF DropChallenge, EndAndFail
  <2> QED
    BY <2>1, <1>0, DoneTurns
<1>14. ASSUME NEW c \in Clients, NEW f \in Families, NEW k \in Tokens, Login(c, f, k)
      PROVE  TurnsTaken'
  <2> DEFINE r == Request("opened", k, 0)
  <2>1. r \in Requests
    BY <1>14, RequestTyped DEF Login, Stages, Refreshing, Answers, SessionsTypeOK
  <2>2. Put(c, r) /\ r.stage = "opened" /\ r.heard
    BY <1>14 DEF Login, Request
  <2>3. lost' = lost
    BY <1>14 DEF Login
  <2> HIDE DEF r
  <2> QED
    BY <2>1, <2>2, <2>3, <1>00, PutTurns DEF Turn, Refreshing, Answers
<1>15. ASSUME NEW c \in Clients, NEW f \in Families, NEW k \in Tokens, VerifyChallenge(c, f, k)
      PROVE  TurnsTaken'
  <2> DEFINE r == Request("opened", k, 0)
  <2>1. r \in Requests
    BY <1>15, RequestTyped DEF VerifyChallenge, Stages, Refreshing, Answers, SessionsTypeOK
  <2>2. Put(c, r) /\ r.stage = "opened" /\ r.heard
    BY <1>15 DEF VerifyChallenge, Request
  <2>3. lost' = lost
    BY <1>15 DEF VerifyChallenge
  <2> HIDE DEF r
  <2> QED
    BY <2>1, <2>2, <2>3, <1>00, PutTurns DEF Turn, Refreshing, Answers
<1>16. ASSUME NEW c \in Clients, NEW f \in Families, NEW k \in Tokens, EnrolAndOpen(c, f, k)
      PROVE  TurnsTaken'
  <2> DEFINE r == Request("opened", k, 0)
  <2>1. r \in Requests
    BY <1>16, RequestTyped DEF EnrolAndOpen, Stages, Refreshing, Answers, SessionsTypeOK
  <2>2. Put(c, r) /\ r.stage = "opened" /\ r.heard
    BY <1>16 DEF EnrolAndOpen, Request
  <2>3. lost' = lost
    BY <1>16 DEF EnrolAndOpen
  <2> HIDE DEF r
  <2> QED
    BY <2>1, <2>2, <2>3, <1>00, PutTurns DEF Turn, Refreshing, Answers
<1>17. ASSUME NEW c \in Clients, Deliver(c)
      PROVE  TurnsTaken'
  <2>1. Done(c) /\ lost' = lost
    BY <1>17 DEF Deliver, EndAndFail
  <2> QED
    BY <2>1, <1>0, DoneTurns
<1>18. ASSUME NEW c \in Clients, LoseAnswer(c)
      PROVE  TurnsTaken'
  <2>1. Done(c) /\ lost \subseteq lost'
    BY <1>18 DEF LoseAnswer
  <2> QED
    BY <2>1, <1>0, DoneTurns
<1>19. ASSUME NEW c \in Clients, Abandon(c)
      PROVE  TurnsTaken'
  <2> DEFINE r == [req[c] EXCEPT !.heard = FALSE]
  <2>2. /\ req'[c] = r /\ r.stage = req[c].stage /\ r.token = req[c].token /\ r.heard = FALSE
        /\ \A d \in Clients \ {c} : req'[d] = req[d]
    BY <1>19, <1>00 DEF Abandon, Put, Requests
  <2>3. UNCHANGED family /\ lost' = lost \cup {FamilyOf(c)} /\ req[c].stage \in Refreshing
    BY <1>19 DEF Abandon, rowVars
  <2> HIDE DEF r
  <2> QED
    BY <2>2, <2>3 DEF TurnsTaken, FamilyOf, Refreshing, Answers
<1>20. ASSUME NEW f \in Families, HeartbeatExpires(f)
      PROVE  TurnsTaken'
  <2>1. UNCHANGED <<lost, req>>
    BY <1>20 DEF HeartbeatExpires, browserVars
  <2> QED
    BY <2>1, <1>00 DEF TurnsTaken, FamilyOf, Carries
<1>21. ASSUME NEW f \in Families, IdleCheck(f)
      PROVE  TurnsTaken'
  <2>1. UNCHANGED <<lost, req>>
    BY <1>21 DEF IdleCheck, browserVars
  <2> QED
    BY <2>1, <1>00 DEF TurnsTaken, FamilyOf, Carries
<1>22. ASSUME NEW f \in Families, RevokeOthers(f)
      PROVE  TurnsTaken'
  <2>1. UNCHANGED <<lost, req>>
    BY <1>22 DEF RevokeOthers, browserVars
  <2> QED
    BY <2>1, <1>00 DEF TurnsTaken, FamilyOf, Carries
<1>23. ASSUME NEW f \in Families, NEW g \in Families, RevokeSelected(f, g)
      PROVE  TurnsTaken'
  <2>1. UNCHANGED <<lost, req>>
    BY <1>23 DEF RevokeSelected, browserVars
  <2> QED
    BY <2>1, <1>00 DEF TurnsTaken, FamilyOf, Carries
<1>24. ASSUME NEW on \in BOOLEAN, ChangeAccount(on)
      PROVE  TurnsTaken'
  <2>1. UNCHANGED <<lost, req>>
    BY <1>24 DEF ChangeAccount, browserVars
  <2> QED
    BY <2>1, <1>00 DEF TurnsTaken, FamilyOf, Carries
<1>26. ASSUME NEW c \in Clients, NEW k \in Tokens, Heartbeat(c, k)
      PROVE  TurnsTaken'
  <2> DEFINE r == Request("touched", k, now)
  <2>1. r \in Requests
    BY RequestTyped DEF Stages, SessionsTypeOK
  <2>2. Put(c, r) /\ r.stage = "touched" /\ r.heard /\ lost' = lost
    BY <1>26 DEF Heartbeat, Request
  <2> HIDE DEF r
  <2> QED
    BY <2>1, <2>2, <1>00, PutTurns DEF Turn, Refreshing, Answers
<1>27. ASSUME NEW c \in Clients, CommitHeartbeat(c)
      PROVE  TurnsTaken'
  <2>1. Done(c) /\ lost' = lost
    BY <1>27 DEF CommitHeartbeat
  <2> QED
    BY <2>1, <1>0, DoneTurns
<1>25. CASE UNCHANGED vars
  BY <1>25 DEF vars, rowVars, browserVars, TurnsTaken, FamilyOf
<1> QED
  BY <1>1, <1>2, <1>3, <1>4, <1>5, <1>6, <1>7, <1>8, <1>9, <1>10, <1>11, <1>12, <1>13, <1>14,
     <1>15, <1>16, <1>17, <1>18, <1>19, <1>20, <1>21, <1>22, <1>23, <1>24, <1>25, <1>26, <1>27 DEF
     SessionsNext, RefreshStep, HeartbeatStep, EntryStep, AccountStep


Fresh(k) == Live(k) \/ Spent(k)

\* Only a rotation makes a live token stale in a family that goes on
LEMMA FreshStays ==
  ASSUME SessionsTypeOK, RowsSound, RequestsSound, RowStep, ~Rotates, lost \subseteq lost',
         NEW j \in Tokens, state[j] # "unused", Fresh(j)
  PROVE  Fresh(j)'
<1> USE DEF SessionsTypeOK, Live, Fresh, Spent
<1>1. CASE KeepsRows
  BY <1>1 DEF KeepsRows, rowVars
<1>2. CASE EndsFamilies
  BY <1>2 DEF EndsFamilies, EndFamilies
<1>3. CASE MovesActivity
  BY <1>3 DEF MovesActivity, CommitHeartbeat
<1>4. CASE OpensFamily
  <2>1. PICK f \in Families, k \in Tokens : OpensFamily!(f, k)
    BY <1>4 DEF OpensFamily
  <2>2. j # k /\ family'[j] = family[j] /\ (Live(j) => family[j] \in UserFamilies)
    BY <2>1, UsedOpened DEF Unused
  <2> QED
    BY <2>1, <2>2
<1> QED
  BY <1>1, <1>2, <1>3, <1>4 DEF RowStep

LEMMA PutInHand ==
  ASSUME SessionsTypeOK, RowsSound, RequestsSound, TokensInHand, RowStep, ~Rotates,
         lost \subseteq lost', NEW c \in Clients, NEW r \in Requests, Put(c, r),
         r.stage \in CarrySet => Fresh(r.token)',
         r.stage \in CarrySet => \/ r.token = cookie /\ cookie # NoToken
                                 \/ r.token = req[c].token /\ Carries(c)
                                 \/ r.token \in Tokens /\ state[r.token] = "unused",
         \/ /\ cookie' = cookie
            /\ AtStage(c, "answered") => FamilyOf(c) \in lost'
         \/ cookie' = NoToken
         \/ cookie' = req[c].token /\ Carries(c),
         r.stage = "opened" => /\ r.token \in Tokens /\ state[r.token] = "unused"
                               /\ cookie' = cookie
  PROVE  TokensInHand'
<1>1. /\ req'[c] = r /\ \A d \in Clients \ {c} : req'[d] = req[d]
      /\ \A d \in Clients : req[d].token \in Tokens \cup {NoToken}
      /\ cookie \in Tokens \cup {NoToken}
      /\ \A j \in Tokens : state[j] # "unused" => family'[j] = family[j]
      /\ \A j \in Tokens : state[j] # "unused" /\ Fresh(j) => Fresh(j)'
      /\ \A d \in Clients : Carries(d) => req[d].token \in Tokens /\ state[req[d].token] # "unused"
      /\ cookie # NoToken => state[cookie] # "unused"
  BY FreshStays, RowsStayUsed DEF Put, SessionsTypeOK, Requests, RequestsSound
<1>3. \A d \in Clients : Carries(d)' => Fresh(req[d].token)'
  <2> TAKE d \in Clients
  <2>1. CASE d # c
    <3>1. Carries(d)' => Carries(d)
      BY <1>1, <2>1 DEF Carries
    <3>2. Carries(d) => Fresh(req[d].token)
      BY DEF TokensInHand, Fresh
    <3> QED
      BY <1>1, <2>1, <3>1, <3>2 DEF Fresh, Live, Spent
  <2>2. CASE d = c
    <3>1. Carries(c)' => r.stage \in CarrySet
      BY <1>1 DEF Carries, CarrySet
    <3> QED
      BY <1>1, <2>2, <3>1 DEF Fresh, Live, Spent
  <2> QED
    BY <2>1, <2>2
<1>4. cookie' # NoToken =>
        \/ Fresh(cookie)'
        \/ \E d \in Clients : AtStage(d, "answered")' /\ FamilyOf(d)' = family'[cookie']
  <2>1. CASE cookie' = cookie /\ (AtStage(c, "answered") => FamilyOf(c) \in lost')
    <3>1. CASE cookie # NoToken /\ Fresh(cookie)
      BY <1>1, <2>1, <3>1 DEF Fresh, Live, Spent
    <3>2. CASE cookie # NoToken /\ \E d \in Clients : AtStage(d, "answered") /\ FamilyOf(d) = family[cookie]
      <4>1. PICK d \in Clients : AtStage(d, "answered") /\ FamilyOf(d) = family[cookie]
        BY <3>2
      <4>2. family'[cookie] = family[cookie] /\ cookie \in Tokens
        BY <1>1, <3>2
      <4>3. CASE d = c
        BY <2>1, <4>1, <4>2, <4>3 DEF Fresh, Spent
      <4>4. CASE d # c
        <5>1. req'[d] = req[d] /\ family'[req[d].token] = family[req[d].token]
          BY <1>1, <4>1, <4>4 DEF AtStage, Carries
        <5> QED
          BY <2>1, <4>1, <4>2, <5>1 DEF AtStage, FamilyOf
      <4> QED
        BY <4>3, <4>4
    <3> QED
      BY <2>1, <3>1, <3>2 DEF TokensInHand, Fresh
  <2>2. CASE cookie' = req[c].token /\ Carries(c)
    <3>1. Fresh(req[c].token) /\ req[c].token \in Tokens /\ state[req[c].token] # "unused"
      BY <1>1, <2>2 DEF TokensInHand, Fresh
    <3> QED
      BY <1>1, <2>2, <3>1 DEF Fresh, Live, Spent
  <2> QED
    BY <2>1, <2>2
<1>5. \A d \in Clients : AtStage(d, "opened")' =>
        /\ cookie' # req'[d].token
        /\ \A e \in Clients : Carries(e)' /\ req'[e].token = req'[d].token => d = e
  <2> TAKE d \in Clients
  <2>1. CASE d = c
    BY <1>1, <2>1 DEF AtStage, Carries, NoToken, Tokens
  <2>2. CASE d # c
    <3>1. AtStage(d, "opened")' => AtStage(d, "opened") /\ req'[d] = req[d] /\ Carries(d)
      BY <1>1, <2>2 DEF AtStage, Carries
    <3>2. AtStage(d, "opened") => cookie # req[d].token /\ NoToken # req[d].token
      BY <3>1 DEF TokensInHand, RequestsSound, Carries, AtStage
    <3>3. AtStage(d, "opened") /\ Carries(c) => req[c].token # req[d].token
      BY <2>2 DEF TokensInHand
    <3>4. AtStage(d, "opened")' => cookie' # req'[d].token
      BY <3>1, <3>2, <3>3
    <3>5. AtStage(d, "opened")' /\ Carries(c)' => req'[c].token # req'[d].token
      BY <1>1, <3>1, <3>2, <3>3 DEF Carries, CarrySet
    <3>6. \A e \in Clients \ {c} : AtStage(d, "opened")' /\ Carries(e)' /\ req'[e].token = req'[d].token => d = e
      BY <1>1, <3>1 DEF TokensInHand, Carries
    <3> QED
      BY <3>4, <3>5, <3>6
  <2> QED
    BY <2>1, <2>2
<1> QED
  BY <1>3, <1>4, <1>5 DEF TokensInHand, Fresh

LEMMA DoneInHand ==
  ASSUME SessionsTypeOK, RowsSound, RequestsSound, TokensInHand, RowStep, ~Rotates,
         lost \subseteq lost', NEW c \in Clients, Done(c),
         \/ cookie' = cookie /\ (AtStage(c, "answered") => FamilyOf(c) \in lost')
         \/ cookie' = req[c].token /\ (Carries(c) \/ req[c].token = NoToken)
  PROVE  TokensInHand'
<1>1. Put(c, IdleRequest) /\ IdleRequest \in Requests /\ IdleRequest.stage = "idle"
  BY RequestTyped DEF Done, IdleRequest, Request, Stages
<1> QED
  BY <1>1, PutInHand DEF CarrySet, Refreshing

\* The token claimed is passed on in the answer, which the browser awaits, or
\* its family counts as one of which an answer was missed
LEMMA RotateInHand ==
  ASSUME SessionsTypeOK, RowsSound, RequestsSound, TurnsTaken, TokensInHand,
         NEW c \in Clients, NEW k \in Tokens, Rotate(c, k)
  PROVE  TokensInHand'
<1> DEFINE t == req[c].token
<1>1. /\ AtStage(c, "claimed") /\ Carries(c) /\ cookie' = cookie /\ lost' = lost /\ ended' = ended
      /\ t \in Tokens /\ Live(t) /\ Unused(k) /\ k # t
  BY CarriedFamily DEF Rotate, RequestsSound, Carries, AtStage, Refreshing, Holding, Unused, Live
<1>2. /\ state'[k] = "live" /\ family'[k] = family[t] /\ state'[t] = "used"
      /\ \A j \in Tokens \ {k, t} : state'[j] = state[j]
      /\ \A j \in Tokens \ {k} : family'[j] = family[j]
  BY <1>1 DEF Rotate, SessionsTypeOK, FamilyOf
<1>3. /\ \A d \in Clients \ {c} : req'[d] = req[d]
      /\ req[c].heard => req'[c].stage = "answered" /\ req'[c].token = k
      /\ ~req[c].heard => req'[c].stage = "idle"
      /\ \A d \in Clients : Carries(d) => req[d].token \in Tokens /\ state[req[d].token] # "unused" /\ req[d].token # k
      /\ cookie # NoToken => cookie \in Tokens /\ cookie # k
  BY <1>1 DEF Rotate, Put, Done, Request, IdleRequest, SessionsTypeOK, RequestsSound,
     Requests, Unused, Carries
<1>4. ~req[c].heard => family[t] \in lost
  BY <1>1 DEF TurnsTaken, FamilyOf, AtStage, Refreshing
<1>5. \A d \in Clients \ {c} : Carries(d) /\ req[d].token = t => family[t] \in lost
  <2> TAKE d \in Clients \ {c}
  <2> HAVE Carries(d) /\ req[d].token = t
  <2>1. ~AtStage(d, "opened")
    BY <1>1 DEF TokensInHand
  <2>2. req[d].stage \in Refreshing \cup {"answered"}
    BY <2>1 DEF Carries, AtStage
  <2>3. ~req[c].heard \/ ~req[d].heard
    BY <1>1, <2>2 DEF TurnsTaken, AtStage, Refreshing
  <2>4. ~req[d].heard => FamilyOf(d) \in lost
    BY <2>2 DEF TurnsTaken, Answers
  <2> QED
    BY <1>4, <2>3, <2>4 DEF FamilyOf
<1>6. \A j \in Tokens \ {k, t} : Fresh(j) => Fresh(j)'
  BY <1>1, <1>2 DEF Fresh, Live, Spent
<1>7. \A d \in Clients : Carries(d)' => Fresh(req[d].token)'
  <2> TAKE d \in Clients
  <2>1. CASE d = c
    BY <1>2, <1>3, <2>1 DEF Carries, Fresh, Live, Refreshing
  <2>2. CASE d # c
    <3>1. Carries(d)' => Carries(d) /\ Fresh(req[d].token)
      BY <1>3, <2>2 DEF Carries, TokensInHand, Fresh
    <3>2. CASE req[d].token = t
      BY <1>1, <1>2, <1>3, <1>5, <2>2, <3>1, <3>2 DEF Fresh, Spent
    <3>3. CASE req[d].token # t
      <4>1. Carries(d)' => Fresh(req[d].token) /\ req[d].token \in Tokens \ {k, t}
        BY <1>3, <3>1, <3>3
      <4>2. req'[d] = req[d]
        BY <1>3, <2>2
      <4> QED
        BY <1>6, <4>1, <4>2 DEF Fresh, Live, Spent
    <3> QED
      BY <3>2, <3>3
  <2> QED
    BY <2>1, <2>2
<1>8. cookie' # NoToken =>
        \/ Fresh(cookie)'
        \/ \E d \in Clients : AtStage(d, "answered")' /\ FamilyOf(d)' = family'[cookie']
  <2> SUFFICES ASSUME cookie' # NoToken PROVE \/ Fresh(cookie)'
        \/ \E d \in Clients : AtStage(d, "answered")' /\ FamilyOf(d)' = family'[cookie']
    OBVIOUS
  <2>1. cookie' = cookie /\ cookie \in Tokens /\ cookie # k /\ family'[cookie] = family[cookie]
    BY <1>1, <1>2, <1>3
  <2>2. CASE cookie = t
    <3>1. CASE req[c].heard
      BY <1>2, <1>3, <2>1, <2>2, <3>1 DEF AtStage, FamilyOf
    <3>2. CASE ~req[c].heard
      BY <1>1, <1>4, <2>1, <2>2, <3>2 DEF Fresh, Spent
    <3> QED
      BY <3>1, <3>2
  <2>3. CASE cookie # t /\ Fresh(cookie)
    BY <1>6, <2>1, <2>3 DEF Fresh, Live, Spent
  <2>4. CASE \E d \in Clients : AtStage(d, "answered") /\ FamilyOf(d) = family[cookie]
    <3>1. PICK d \in Clients : AtStage(d, "answered") /\ FamilyOf(d) = family[cookie]
      BY <2>4
    <3>2. d # c /\ req'[d] = req[d] /\ family'[req[d].token] = family[req[d].token]
      BY <1>1, <1>2, <1>3, <3>1 DEF AtStage, Carries
    <3> QED
      BY <2>1, <3>1, <3>2 DEF AtStage, FamilyOf
  <2> QED
    BY <2>1, <2>2, <2>3, <2>4 DEF TokensInHand, Fresh
<1>9. \A d \in Clients : AtStage(d, "opened")' =>
        /\ cookie' # req'[d].token
        /\ \A e \in Clients : Carries(e)' /\ req'[e].token = req'[d].token => d = e
  <2> TAKE d \in Clients
  <2>1. AtStage(d, "opened")' => d # c /\ req'[d] = req[d] /\ AtStage(d, "opened") /\ Carries(d)
    BY <1>1, <1>3 DEF AtStage, Carries
  <2>2. AtStage(d, "opened") => cookie # req[d].token /\ req[d].token # k
    BY <1>3 DEF TokensInHand, Carries, AtStage
  <2>3. \A e \in Clients \ {c} : AtStage(d, "opened") /\ Carries(e)' /\ req'[e].token = req[d].token => d = e
    BY <1>3 DEF TokensInHand, Carries
  <2>4. AtStage(d, "opened") /\ Carries(c)' => req'[c].token # req[d].token
    BY <1>3, <2>2 DEF Carries, Refreshing
  <2> QED
    BY <1>1, <2>1, <2>2, <2>3, <2>4
<1> QED
  BY <1>7, <1>8, <1>9 DEF TokensInHand, Fresh

LEMMA TokensInHandStep ==
  ASSUME SessionsTypeOK, RowsSound, RequestsSound, TurnsTaken, TokensInHand, [SessionsNext]_vars
  PROVE  TokensInHand'
<1>0. RowStep
  BY RowSteps
<1>1. CASE Rotates
  BY <1>1, RotateInHand DEF Rotates
<1>2. CASE ~Rotates
  <2>0. /\ req \in [Clients -> Requests] /\ cookie \in Tokens \cup {NoToken}
        /\ \A j \in Tokens : state[j] # "unused" => family'[j] = family[j]
        /\ \A c \in Clients : Carries(c) => req[c].token \in Tokens /\ state[req[c].token] # "unused"
        /\ cookie # NoToken => state[cookie] # "unused"
        /\ lost \subseteq lost' => \A j \in Tokens : state[j] # "unused" /\ Fresh(j) => Fresh(j)'
    BY <1>0, <1>2, RowsStayUsed, FreshStays DEF SessionsTypeOK, Requests, RequestsSound
  <2>00. UNCHANGED <<cookie, req, lost>> => TokensInHand'
    BY <2>0 DEF TokensInHand, Fresh, Carries, AtStage, FamilyOf
  <2>1. ASSUME Tick
        PROVE  TokensInHand'
    BY <2>1, <2>00 DEF Tick, browserVars
  <2>2. ASSUME Crash
        PROVE  TokensInHand'
    <3>1. /\ \A c \in Clients : req'[c] = req[c] \/ req'[c] = IdleRequest
          /\ \A c \in Clients : req[c].stage \in Answers => req'[c] = req[c]
      BY <2>2 DEF Crash, Refreshing, Holding, Answers
    <3>2. IdleRequest.stage = "idle"
      BY DEF IdleRequest, Request
    <3>3. UNCHANGED <<cookie, lost, state, family, ended>>
      BY <2>2 DEF Crash, rowVars
    <3> QED
      BY <3>1, <3>2, <3>3 DEF TokensInHand, Carries, AtStage, FamilyOf, Live, Spent,
         Refreshing, Answers
  <2>3. ASSUME NEW c \in Clients, SendRefresh(c)
        PROVE  TokensInHand'
    <3>1. Request(IF Live(cookie) THEN "valid" ELSE "reused", cookie, 0) \in Requests
      BY <2>3, RequestTyped DEF SendRefresh, Stages, Refreshing, SessionsTypeOK
    <3>2. PICK r \in Requests :
            Put(c, r) /\ r.stage \in {"valid", "reused"} /\ r.token = cookie
      BY <2>3, <3>1 DEF SendRefresh, Request
    <3>3. /\ cookie # NoToken /\ UNCHANGED <<cookie, lost, state, family, ended>>
          /\ ~AtStage(c, "answered")
      BY <2>3 DEF SendRefresh, rowVars, AtStage
    <3>4. ~ \E d \in Clients : AtStage(d, "answered") /\ FamilyOf(d) = family[cookie]
      BY <2>3 DEF SendRefresh, WebLockFree, TurnsTaken, AtStage, Answers
    <3>5. Fresh(r.token)'
      BY <3>2, <3>3, <3>4 DEF TokensInHand, Fresh, Live, Spent
    <3> QED
      BY <3>2, <3>3, <3>5, <1>0, <1>2, PutInHand DEF CarrySet, Refreshing
  <2>4. ASSUME NEW c \in Clients, RejectReuse(c)
        PROVE  TokensInHand'
    <3>1. Done(c) /\ lost' = lost /\ cookie' = cookie /\ ~AtStage(c, "answered")
      BY <2>4 DEF RejectReuse, EndAndFail, AtStage
    <3> QED
      BY <3>1, <1>0, <1>2, DoneInHand
  <2>5. ASSUME NEW c \in Clients, Refuse(c)
        PROVE  TokensInHand'
    <3>1. Done(c) /\ lost' = lost /\ cookie' = cookie /\ ~AtStage(c, "answered")
      BY <2>5 DEF Refuse, EndAndFail, AtStage
    <3> QED
      BY <3>1, <1>0, <1>2, DoneInHand
  <2>6. ASSUME NEW c \in Clients, RefuseIdle(c)
        PROVE  TokensInHand'
    <3>1. Done(c) /\ lost' = lost /\ cookie' = cookie /\ ~AtStage(c, "answered")
      BY <2>6 DEF RefuseIdle, EndAndFail, AtStage
    <3> QED
      BY <3>1, <1>0, <1>2, DoneInHand
  <2>7. ASSUME NEW c \in Clients, RejectStale(c)
        PROVE  TokensInHand'
    <3>1. Done(c) /\ lost' = lost /\ cookie' = cookie /\ ~AtStage(c, "answered")
      BY <2>7 DEF RejectStale, EndAndFail, AtStage
    <3> QED
      BY <3>1, <1>0, <1>2, DoneInHand
  <2>8. ASSUME NEW c \in Clients, Claim(c)
        PROVE  TokensInHand'
    <3>1. PICK signal \in BOOLEAN :
            Put(c, [req[c] EXCEPT !.stage = "claimed", !.at = now,
                      !.touch = signal /\ last[FamilyOf(c)] <= now - 1])
      BY <2>8 DEF Claim
    <3> DEFINE r == [req[c] EXCEPT !.stage = "claimed", !.at = now,
                       !.touch = signal /\ last[FamilyOf(c)] <= now - 1]
    <3>2. /\ r.stage = "claimed" /\ r.token = req[c].token
          /\ req'[c] = r /\ \A d \in Clients \ {c} : req'[d] = req[d]
      BY <3>1, <2>0 DEF Put, Requests
    <3>3. UNCHANGED <<state, family, ended, lost, cookie>> /\ AtStage(c, "valid")
      BY <2>8 DEF Claim, rowVars
    <3> HIDE DEF r
    <3> QED
      BY <3>2, <3>3 DEF TokensInHand, Carries, AtStage, FamilyOf, Live, Spent, Refreshing
  <2>9. ASSUME NEW c \in Clients, NEW k \in Tokens, Rotate(c, k)
        PROVE  TokensInHand'
    BY <2>9, <1>2 DEF Rotates
  <2>10. ASSUME NEW c \in Clients, RollBack(c)
        PROVE  TokensInHand'
    <3>1. Done(c) /\ lost' = lost /\ cookie' = cookie /\ ~AtStage(c, "answered")
      BY <2>10 DEF RollBack, Holding, AtStage
    <3> QED
      BY <3>1, <1>0, <1>2, DoneInHand
  <2>11. ASSUME NEW c \in Clients, Logout(c)
        PROVE  TokensInHand'
    <3> DEFINE r == Request("left", NoToken, 0)
    <3>1. r \in Requests
      BY <2>11, RequestTyped DEF Logout, Stages, Refreshing, Answers, SessionsTypeOK
    <3>2. Put(c, r) /\ r.stage = "left" /\ lost' = lost /\ ~AtStage(c, "answered")
      BY <2>11 DEF Logout, Request, AtStage
    <3>3. cookie' = cookie
      BY <2>11 DEF Logout
    <3>4. TRUE
      OBVIOUS
    <3> HIDE DEF r
    <3> QED
      BY <3>1, <3>2, <3>3, <3>4, <1>0, <1>2, PutInHand DEF CarrySet, Refreshing
  <2>12. ASSUME NEW c \in Clients, Challenge(c)
        PROVE  TokensInHand'
    <3> DEFINE r == Request("challenged", NoToken, version)
    <3>1. r \in Requests
      BY <2>12, RequestTyped DEF Challenge, Stages, Refreshing, Answers, SessionsTypeOK
    <3>2. Put(c, r) /\ r.stage = "challenged" /\ lost' = lost /\ ~AtStage(c, "answered")
      BY <2>12 DEF Challenge, Request, AtStage
    <3>3. cookie' = cookie \/ cookie' = NoToken
      BY <2>12 DEF Challenge
    <3>4. TRUE
      OBVIOUS
    <3> HIDE DEF r
    <3> QED
      BY <3>1, <3>2, <3>3, <3>4, <1>0, <1>2, PutInHand DEF CarrySet, Refreshing
  <2>13. ASSUME NEW c \in Clients, DropChallenge(c)
        PROVE  TokensInHand'
    <3>1. Done(c) /\ lost' = lost /\ cookie' = cookie /\ ~AtStage(c, "answered")
      BY <2>13 DEF DropChallenge, EndAndFail, AtStage
    <3> QED
      BY <3>1, <1>0, <1>2, DoneInHand
  <2>14. ASSUME NEW c \in Clients, NEW f \in Families, NEW k \in Tokens, Login(c, f, k)
        PROVE  TokensInHand'
    <3> DEFINE r == Request("opened", k, 0)
    <3>1. r \in Requests
      BY <2>14, RequestTyped DEF Login, Stages, Refreshing, Answers, SessionsTypeOK
    <3>2. Put(c, r) /\ r.stage = "opened" /\ lost' = lost /\ ~AtStage(c, "answered")
      BY <2>14 DEF Login, Request, AtStage
    <3>3. r.token = k /\ cookie' = cookie /\ state[k] = "unused"
      BY <2>14 DEF Login, Request, NewFamily, Unused
    <3>4. Fresh(r.token)'
      BY <2>14, <3>3 DEF Login, SessionsTypeOK, Fresh, Live
    <3> HIDE DEF r
    <3> QED
      BY <3>1, <3>2, <3>3, <3>4, <1>0, <1>2, PutInHand DEF CarrySet, Refreshing
  <2>15. ASSUME NEW c \in Clients, NEW f \in Families, NEW k \in Tokens, VerifyChallenge(c, f, k)
        PROVE  TokensInHand'
    <3> DEFINE r == Request("opened", k, 0)
    <3>1. r \in Requests
      BY <2>15, RequestTyped DEF VerifyChallenge, Stages, Refreshing, Answers, SessionsTypeOK
    <3>2. Put(c, r) /\ r.stage = "opened" /\ lost' = lost /\ ~AtStage(c, "answered")
      BY <2>15 DEF VerifyChallenge, Request, AtStage
    <3>3. r.token = k /\ cookie' = cookie /\ state[k] = "unused"
      BY <2>15 DEF VerifyChallenge, Request, NewFamily, Unused
    <3>4. Fresh(r.token)'
      BY <2>15, <3>3 DEF VerifyChallenge, SessionsTypeOK, Fresh, Live
    <3> HIDE DEF r
    <3> QED
      BY <3>1, <3>2, <3>3, <3>4, <1>0, <1>2, PutInHand DEF CarrySet, Refreshing
  <2>16. ASSUME NEW c \in Clients, NEW f \in Families, NEW k \in Tokens, EnrolAndOpen(c, f, k)
        PROVE  TokensInHand'
    <3> DEFINE r == Request("opened", k, 0)
    <3>1. r \in Requests
      BY <2>16, RequestTyped DEF EnrolAndOpen, Stages, Refreshing, Answers, SessionsTypeOK
    <3>2. Put(c, r) /\ r.stage = "opened" /\ lost' = lost /\ ~AtStage(c, "answered")
      BY <2>16 DEF EnrolAndOpen, Request, AtStage
    <3>3. r.token = k /\ cookie' = cookie /\ state[k] = "unused"
      BY <2>16 DEF EnrolAndOpen, Request, NewFamily, Unused
    <3>4. Fresh(r.token)'
      BY <2>16, <3>3 DEF EnrolAndOpen, SessionsTypeOK, Fresh, Live
    <3> HIDE DEF r
    <3> QED
      BY <3>1, <3>2, <3>3, <3>4, <1>0, <1>2, PutInHand DEF CarrySet, Refreshing
  <2>17. ASSUME NEW c \in Clients, Deliver(c)
        PROVE  TokensInHand'
    <3>1. Done(c) /\ lost' = lost /\ cookie' = req[c].token /\ (Carries(c) \/ req[c].token = NoToken)
      BY <2>17 DEF Deliver, Answers, Carries, RequestsSound
    <3> QED
      BY <3>1, <1>0, <1>2, DoneInHand
  <2>18. ASSUME NEW c \in Clients, LoseAnswer(c)
        PROVE  TokensInHand'
    <3>1. /\ Done(c) /\ lost \subseteq lost' /\ cookie' = cookie
          /\ AtStage(c, "answered") => FamilyOf(c) \in lost'
      BY <2>18 DEF LoseAnswer
    <3> QED
      BY <3>1, <1>0, <1>2, DoneInHand
  <2>19. ASSUME NEW c \in Clients, Abandon(c)
        PROVE  TokensInHand'
    <3> DEFINE r == [req[c] EXCEPT !.heard = FALSE]
    <3>2. /\ r.stage = req[c].stage /\ r.token = req[c].token
          /\ req'[c] = r /\ \A d \in Clients \ {c} : req'[d] = req[d]
      BY <2>19, <2>0 DEF Abandon, Put, Requests
    <3>3. UNCHANGED <<state, family, ended, cookie>> /\ lost \subseteq lost' /\ req[c].stage \in Refreshing
      BY <2>19 DEF Abandon, rowVars
    <3> HIDE DEF r
    <3> QED
      BY <3>2, <3>3 DEF TokensInHand, Carries, AtStage, FamilyOf, Live, Spent, Refreshing
  <2>20. ASSUME NEW f \in Families, HeartbeatExpires(f)
        PROVE  TokensInHand'
    BY <2>20, <2>00 DEF HeartbeatExpires, browserVars
  <2>21. ASSUME NEW f \in Families, IdleCheck(f)
        PROVE  TokensInHand'
    BY <2>21, <2>00 DEF IdleCheck, browserVars
  <2>22. ASSUME NEW f \in Families, RevokeOthers(f)
        PROVE  TokensInHand'
    BY <2>22, <2>00 DEF RevokeOthers, browserVars
  <2>23. ASSUME NEW f \in Families, NEW g \in Families, RevokeSelected(f, g)
        PROVE  TokensInHand'
    BY <2>23, <2>00 DEF RevokeSelected, browserVars
  <2>24. ASSUME NEW on \in BOOLEAN, ChangeAccount(on)
        PROVE  TokensInHand'
    BY <2>24, <2>00 DEF ChangeAccount, browserVars
  <2>26. ASSUME NEW c \in Clients, NEW k \in Tokens, Heartbeat(c, k)
        PROVE  TokensInHand'
    <3> DEFINE r == Request("touched", k, now)
    <3>1. r \in Requests
      BY RequestTyped DEF Stages, SessionsTypeOK
    <3>2. Put(c, r) /\ r.stage = "touched" /\ lost' = lost /\ ~AtStage(c, "answered")
      BY <2>26 DEF Heartbeat, Request, AtStage
    <3>3. cookie' = cookie
      BY <2>26 DEF Heartbeat
    <3> HIDE DEF r
    <3> QED
      BY <3>1, <3>2, <3>3, <1>0, <1>2, PutInHand DEF CarrySet, Refreshing
  <2>27. ASSUME NEW c \in Clients, CommitHeartbeat(c)
        PROVE  TokensInHand'
    <3>1. Done(c) /\ lost' = lost /\ cookie' = cookie /\ ~AtStage(c, "answered")
      BY <2>27 DEF CommitHeartbeat, AtStage
    <3> QED
      BY <3>1, <1>0, <1>2, DoneInHand
  <2>25. CASE UNCHANGED vars
    BY <2>25, <2>00 DEF vars, browserVars
  <2> QED
    BY <2>1, <2>2, <2>3, <2>4, <2>5, <2>6, <2>7, <2>8, <2>9, <2>10, <2>11, <2>12, <2>13,
       <2>14, <2>15, <2>16, <2>17, <2>18, <2>19, <2>20, <2>21, <2>22, <2>23, <2>24, <2>25, <2>26, <2>27 DEF
       SessionsNext, RefreshStep, HeartbeatStep, EntryStep, AccountStep
<1> QED
  BY <1>1, <1>2


----------------------------------------------------------------------------
LEMMA SessionsInvInit ==
  ASSUME SessionsAssumption, SessionsInit
  PROVE  SessionsInv
<1> USE DEF SessionsInit
<1>1. IdleRequest \in Requests /\ IdleRequest.stage = "idle"
  BY RequestTyped DEF IdleRequest, Request, Stages
<1>2. SessionsTypeOK
  BY <1>1 DEF SessionsTypeOK, NoTime
<1>3. RowsSound /\ OneLiveToken /\ LiveIsProven
  BY DEF RowsSound, OneLiveToken, LiveIsProven, Live
<1>4. RequestsSound /\ TurnsTaken /\ TokensInHand
  BY <1>1 DEF RequestsSound, TurnsTaken, TokensInHand, Carries, AtStage, Refreshing, Holding, Answers
<1> QED
  BY <1>2, <1>3, <1>4 DEF SessionsInv

LEMMA SessionsInvStep ==
  ASSUME SessionsAssumption, SessionsInv, [SessionsNext]_vars
  PROVE  SessionsInv'
<1> USE DEF SessionsInv
<1>1. RowStep
  BY RowSteps
<1>2. SessionsTypeOK' /\ RequestsSound' /\ TurnsTaken' /\ TokensInHand'
  BY SessionsTypeStep, RequestsSoundStep, TurnsTakenStep, TokensInHandStep
<1>3. RowsSound' /\ OneLiveToken' /\ LiveIsProven'
  BY <1>1, RowsSoundStep, OneLiveTokenStep, LiveIsProvenStep
<1> QED
  BY <1>2, <1>3

(* The invariant: rows and requests agree, the browser's tabs take turns,  *)
(* and a family's live token is in the browser's hands.                    *)
THEOREM SessionsInvariant == SessionsSpec => []SessionsInv
<1>1. SessionsInit => SessionsInv
  BY SessionsInvInit, SessionsAssumption
<1>2. SessionsInv /\ [SessionsNext]_vars => SessionsInv'
  BY SessionsInvStep, SessionsAssumption
<1> QED
  BY <1>1, <1>2, PTL DEF SessionsSpec

(* Type correctness of the sessions and the browser's requests.            *)
THEOREM SessionsTypeCorrect == SessionsSpec => []SessionsTypeOK
  BY SessionsInvariant, PTL DEF SessionsInv

(* A family never has two tokens that can be refreshed, and none once it   *)
(* is revoked (RefreshUseCase, claim under the account's lock).            *)
THEOREM OneLiveCorrect == SessionsSpec => []OneLiveToken
  BY SessionsInvariant, PTL DEF SessionsInv

(* A live session's login proved the credentials in force (the version a   *)
(* challenge carries is compared under the lock).                          *)
THEOREM ProvenCorrect == SessionsSpec => []LiveIsProven
  BY SessionsInvariant, PTL DEF SessionsInv

(* Reuse detection never meets the token of an honest browser that heard   *)
(* every answer (withRefreshLock and the one cookie).                      *)
THEOREM HonestCorrect == SessionsSpec => []HonestRefresh
<1>1. SessionsInv => HonestRefresh
  BY DEF SessionsInv, TokensInHand, HonestRefresh, Carries, Refreshing, Spent, FamilyOf
<1> QED
  BY <1>1, SessionsInvariant, PTL

----------------------------------------------------------------------------
(* No step revives a session.  Claim and Heartbeat alone put work under    *)
(* way for a family, and they do so while its session is authorised.       *)
LEMMA OverIsIdle ==
  ASSUME SessionsInv, NEW f \in Families, Over(f)
  PROVE  ~UnderWay(f)
<1> SUFFICES ASSUME NEW c \in Clients, req[c].stage \in Holding, FamilyOf(c) = f
             PROVE  FALSE
  BY DEF UnderWay
<1>1. Live(req[c].token) /\ req[c].token \in Tokens
  BY DEF SessionsInv, SessionsTypeOK, Requests, RequestsSound
<1>2. f \in ended
  BY DEF Over, UnderWay
<1> QED
  BY <1>1, <1>2 DEF SessionsInv, OneLiveToken, FamilyOf

LEMMA NoNewWork ==
  ASSUME SessionsInv, [SessionsNext]_vars, NEW f \in Families, Over(f)
  PROVE  ~UnderWay(f)'
<1> USE DEF SessionsInv
<1>0. /\ req \in [Clients -> Requests]
      /\ \A c \in Clients : Carries(c) \/ req[c].stage \in Holding => req[c].token \in Tokens /\ family'[req[c].token] = family[req[c].token]
  BY RowSteps, RowsStayUsed DEF SessionsTypeOK, Requests, RequestsSound, Live
<1> SUFFICES ASSUME NEW d \in Clients, req'[d].stage \in Holding, family'[req'[d].token] = f
             PROVE  FALSE
  BY DEF UnderWay, FamilyOf
<1>00. req'[d] # req[d]
  BY <1>0, OverIsIdle DEF UnderWay, FamilyOf
<1>1. ASSUME Tick
      PROVE  FALSE
  BY <1>1, <1>00 DEF Tick, browserVars
<1>2. ASSUME Crash
      PROVE  FALSE
  BY <1>2, <1>0, <1>00 DEF Crash, IdleRequest, Request, Holding
<1>3. ASSUME NEW c \in Clients, SendRefresh(c)
      PROVE  FALSE
  BY <1>3, <1>0, <1>00 DEF SendRefresh, Put, Request, Holding
<1>4. ASSUME NEW c \in Clients, RejectReuse(c)
      PROVE  FALSE
  BY <1>4, <1>0, <1>00 DEF RejectReuse, EndAndFail, Done, Put, IdleRequest, Request, Holding
<1>5. ASSUME NEW c \in Clients, Refuse(c)
      PROVE  FALSE
  BY <1>5, <1>0, <1>00 DEF Refuse, EndAndFail, Done, Put, IdleRequest, Request, Holding
<1>6. ASSUME NEW c \in Clients, RefuseIdle(c)
      PROVE  FALSE
  BY <1>6, <1>0, <1>00 DEF RefuseIdle, EndAndFail, Done, Put, IdleRequest, Request, Holding
<1>7. ASSUME NEW c \in Clients, RejectStale(c)
      PROVE  FALSE
  BY <1>7, <1>0, <1>00 DEF RejectStale, EndAndFail, Done, Put, IdleRequest, Request, Holding
<1>8. ASSUME NEW c \in Clients, Claim(c)
      PROVE  FALSE
  <2>1. d = c /\ req'[c].token = req[c].token
    BY <1>8, <1>0, <1>00 DEF Claim, Put, Requests
  <2>2. FamilyOf(c) = f /\ req[c].token \in Tokens
    BY <1>8, <1>0, <2>1 DEF Claim, FamilyOf, Carries, AtStage, Refreshing
  <2>3. active /\ FamilyIsActive(f) /\ Live(req[c].token)
    BY <1>8, <2>2 DEF Claim, StillEligible, Claimable
  <2>4. born[f] = version
    BY <2>2, <2>3 DEF LiveIsProven, FamilyOf
  <2> QED
    BY <2>3, <2>4 DEF Over, Authorised
<1>9. ASSUME NEW c \in Clients, NEW k \in Tokens, Rotate(c, k)
      PROVE  FALSE
  BY <1>9, <1>0, <1>00 DEF Rotate, Done, Put, IdleRequest, Request, Holding
<1>10. ASSUME NEW c \in Clients, RollBack(c)
      PROVE  FALSE
  BY <1>10, <1>0, <1>00 DEF RollBack, EndAndFail, Done, Put, IdleRequest, Request, Holding
<1>11. ASSUME NEW c \in Clients, Logout(c)
      PROVE  FALSE
  BY <1>11, <1>0, <1>00 DEF Logout, Put, Request, Holding
<1>12. ASSUME NEW c \in Clients, Challenge(c)
      PROVE  FALSE
  BY <1>12, <1>0, <1>00 DEF Challenge, Put, Request, Holding
<1>13. ASSUME NEW c \in Clients, DropChallenge(c)
      PROVE  FALSE
  BY <1>13, <1>0, <1>00 DEF DropChallenge, EndAndFail, Done, Put, IdleRequest, Request, Holding
<1>14. ASSUME NEW c \in Clients, NEW g \in Families, NEW k \in Tokens, Login(c, g, k)
      PROVE  FALSE
  BY <1>14, <1>0, <1>00 DEF Login, Put, Request, Holding
<1>15. ASSUME NEW c \in Clients, NEW g \in Families, NEW k \in Tokens, VerifyChallenge(c, g, k)
      PROVE  FALSE
  BY <1>15, <1>0, <1>00 DEF VerifyChallenge, Put, Request, Holding
<1>16. ASSUME NEW c \in Clients, NEW g \in Families, NEW k \in Tokens, EnrolAndOpen(c, g, k)
      PROVE  FALSE
  BY <1>16, <1>0, <1>00 DEF EnrolAndOpen, Put, Request, Holding
<1>17. ASSUME NEW c \in Clients, Deliver(c)
      PROVE  FALSE
  BY <1>17, <1>0, <1>00 DEF Deliver, EndAndFail, Done, Put, IdleRequest, Request, Holding
<1>18. ASSUME NEW c \in Clients, LoseAnswer(c)
      PROVE  FALSE
  BY <1>18, <1>0, <1>00 DEF LoseAnswer, EndAndFail, Done, Put, IdleRequest, Request, Holding
<1>19. ASSUME NEW c \in Clients, Abandon(c)
      PROVE  FALSE
  <2>1. d = c /\ req'[c].token = req[c].token /\ req'[c].stage = req[c].stage
    BY <1>19, <1>0, <1>00 DEF Abandon, Put, Requests
  <2> QED
    BY <1>0, <2>1, OverIsIdle DEF UnderWay, FamilyOf
<1>20. ASSUME NEW g \in Families, HeartbeatExpires(g)
      PROVE  FALSE
  BY <1>20, <1>00 DEF HeartbeatExpires, browserVars
<1>21. ASSUME NEW g \in Families, IdleCheck(g)
      PROVE  FALSE
  BY <1>21, <1>00 DEF IdleCheck, browserVars
<1>22. ASSUME NEW g \in Families, RevokeOthers(g)
      PROVE  FALSE
  BY <1>22, <1>00 DEF RevokeOthers, browserVars
<1>23. ASSUME NEW g \in Families, NEW h \in Families, RevokeSelected(g, h)
      PROVE  FALSE
  BY <1>23, <1>00 DEF RevokeSelected, browserVars
<1>24. ASSUME NEW on \in BOOLEAN, ChangeAccount(on)
      PROVE  FALSE
  BY <1>24, <1>00 DEF ChangeAccount, browserVars
<1>26. ASSUME NEW c \in Clients, NEW k \in Tokens, Heartbeat(c, k)
      PROVE  FALSE
  <2>1. d = c /\ req'[c].token = k /\ UNCHANGED family /\ Authorised(family[k])
    BY <1>26, <1>0, <1>00 DEF Heartbeat, Put, Request, rowVars
  <2> QED
    BY <2>1 DEF Over
<1>27. ASSUME NEW c \in Clients, CommitHeartbeat(c)
      PROVE  FALSE
  BY <1>27, <1>0, <1>00 DEF CommitHeartbeat, Done, Put, IdleRequest, Request, Holding
<1>25. CASE UNCHANGED vars
  BY <1>25, <1>00 DEF vars, browserVars
<1> QED
  BY <1>1, <1>2, <1>3, <1>4, <1>5, <1>6, <1>7, <1>8, <1>9, <1>10, <1>11, <1>12, <1>13, <1>14,
     <1>15, <1>16, <1>17, <1>18, <1>19, <1>20, <1>21, <1>22, <1>23, <1>24, <1>25, <1>26, <1>27 DEF
     SessionsNext, RefreshStep, HeartbeatStep, EntryStep, AccountStep

\* Rows of a session that is over: it does not become acceptable by any step
LEMMA NotAuthorisedAgain ==
  ASSUME SessionsAssumption, SessionsInv, RowStep, now' \in Nat, now <= now',
         NEW f \in Families, Over(f)
  PROVE  Opened(f)' /\ ~Authorised(f)'
<1> USE DEF SessionsInv, SessionsTypeOK, SessionsAssumption
<1>0. Opened(f) /\ ~Authorised(f) /\ last[f] \in Nat
  BY DEF Over, Opened
<1>1. CASE KeepsRows
  <2>1. UNCHANGED <<version, active, state, family, expires, ended, last, born>>
    BY <1>1 DEF KeepsRows, accountVars, rowVars
  <2>2. FamilyIsActive(f)' => FamilyIsActive(f)
    BY <1>0, <2>1 DEF FamilyIsActive, Opened, IdleOver, Live
  <2> QED
    BY <1>0, <2>1, <2>2 DEF Authorised, Opened
<1>2. CASE EndsFamilies
  <2>1. PICK F \in SUBSET Families : EndsFamilies!(F)
    BY <1>2 DEF EndsFamilies
  <2>2. /\ UNCHANGED <<now, family, expires, last, born>> /\ ended \subseteq ended'
        /\ \A k \in Tokens : state'[k] = "live" => Live(k) /\ family[k] \notin F
    BY <2>1 DEF EndFamilies, Live
  <2>3. FamilyIsActive(f)' => FamilyIsActive(f)
    BY <1>0, <2>2 DEF FamilyIsActive, Opened, IdleOver, Live
  <2>4. CASE UNCHANGED accountVars
    BY <1>0, <2>2, <2>3, <2>4 DEF Authorised, Opened, accountVars
  <2>5. CASE UserFamilies \subseteq F
    <3>1. \A k \in Tokens : state'[k] # "live"
      BY <2>2, <2>5, UsedOpened
    <3> QED
      BY <1>0, <2>2, <3>1 DEF Authorised, FamilyIsActive, Opened, Live
  <2> QED
    BY <2>1, <2>4, <2>5
<1>3. CASE MovesActivity
  <2>1. PICK c \in Clients : CommitHeartbeat(c)
    BY <1>3 DEF MovesActivity
  <2>2. FamilyOf(c) # f /\ last'[f] = last[f]
    BY <2>1, OverIsIdle DEF CommitHeartbeat, UnderWay, AtStage, Holding
  <2>3. UNCHANGED <<now, accountVars, state, family, expires, ended, born>>
    BY <2>1 DEF CommitHeartbeat
  <2>4. FamilyIsActive(f)' => FamilyIsActive(f)
    BY <1>0, <2>2, <2>3 DEF FamilyIsActive, Opened, IdleOver, Live
  <2> QED
    BY <1>0, <2>2, <2>3, <2>4 DEF Authorised, Opened, accountVars
<1>4. CASE OpensFamily
  <2>1. PICK g \in Families, k \in Tokens : OpensFamily!(g, k)
    BY <1>4 DEF OpensFamily
  <2>2. g # f /\ last'[f] = last[f] /\ born'[f] = born[f] /\ now' = now
    BY <1>0, <2>1
  <2>3. \A j \in Tokens : state'[j] = "live" /\ family'[j] = f =>
          Live(j) /\ family[j] = f /\ expires'[j] = expires[j] /\ UNCHANGED <<accountVars, ended>>
    BY <2>1, <2>2 DEF Live
  <2>4. Authorised(f)' => FamilyIsActive(f) /\ UNCHANGED accountVars
    BY <1>0, <2>2, <2>3 DEF Authorised, FamilyIsActive, Opened, IdleOver, Live
  <2> QED
    BY <1>0, <2>2, <2>4 DEF Authorised, Opened, accountVars
<1>5. CASE Rotates
  <2>1. PICK c \in Clients, k \in Tokens : Rotate(c, k)
    BY <1>5 DEF Rotates
  <2>2. FamilyOf(c) # f /\ AtStage(c, "claimed") /\ req[c].token \in Tokens /\ FamilyOf(c) \in Families
    BY <2>1, CarriedFamily, OverIsIdle DEF Rotate, UnderWay, Carries, AtStage, Refreshing, Holding
  <2>3. last'[f] = last[f] /\ UNCHANGED <<now, accountVars, ended, born>>
    BY <2>1, <2>2 DEF Rotate
  <2>4. \A j \in Tokens : state'[j] = "live" /\ family'[j] = f =>
          Live(j) /\ family[j] = f /\ expires'[j] = expires[j]
    BY <2>1, <2>2 DEF Rotate, Live
  <2>5. FamilyIsActive(f)' => FamilyIsActive(f)
    BY <1>0, <2>3, <2>4 DEF FamilyIsActive, Opened, IdleOver, Live
  <2> QED
    BY <1>0, <2>3, <2>5 DEF Authorised, Opened, accountVars
<1> QED
  BY <1>1, <1>2, <1>3, <1>4, <1>5 DEF RowStep

LEMMA ClockMovesOn ==
  ASSUME SessionsTypeOK, [SessionsNext]_vars
  PROVE  now' \in Nat /\ now <= now'

<1>1. ASSUME Tick
      PROVE  now' \in Nat /\ now <= now'
  BY <1>1 DEF Tick, SessionsTypeOK
<1>2. ASSUME Crash
      PROVE  now' \in Nat /\ now <= now'
  BY <1>2 DEF Crash, SessionsTypeOK
<1>3. ASSUME NEW c \in Clients, SendRefresh(c)
      PROVE  now' \in Nat /\ now <= now'
  BY <1>3 DEF SendRefresh, SessionsTypeOK
<1>4. ASSUME NEW c \in Clients, RejectReuse(c)
      PROVE  now' \in Nat /\ now <= now'
  BY <1>4 DEF RejectReuse, SessionsTypeOK, EndAndFail
<1>5. ASSUME NEW c \in Clients, Refuse(c)
      PROVE  now' \in Nat /\ now <= now'
  BY <1>5 DEF Refuse, SessionsTypeOK
<1>6. ASSUME NEW c \in Clients, RefuseIdle(c)
      PROVE  now' \in Nat /\ now <= now'
  BY <1>6 DEF RefuseIdle, SessionsTypeOK, EndAndFail
<1>7. ASSUME NEW c \in Clients, RejectStale(c)
      PROVE  now' \in Nat /\ now <= now'
  BY <1>7 DEF RejectStale, SessionsTypeOK, EndAndFail
<1>8. ASSUME NEW c \in Clients, Claim(c)
      PROVE  now' \in Nat /\ now <= now'
  BY <1>8 DEF Claim, SessionsTypeOK
<1>9. ASSUME NEW c \in Clients, NEW k \in Tokens, Rotate(c, k)
      PROVE  now' \in Nat /\ now <= now'
  BY <1>9 DEF Rotate, SessionsTypeOK
<1>10. ASSUME NEW c \in Clients, RollBack(c)
      PROVE  now' \in Nat /\ now <= now'
  BY <1>10 DEF RollBack, SessionsTypeOK
<1>11. ASSUME NEW c \in Clients, Logout(c)
      PROVE  now' \in Nat /\ now <= now'
  BY <1>11 DEF Logout, SessionsTypeOK
<1>12. ASSUME NEW c \in Clients, Challenge(c)
      PROVE  now' \in Nat /\ now <= now'
  BY <1>12 DEF Challenge, SessionsTypeOK
<1>13. ASSUME NEW c \in Clients, DropChallenge(c)
      PROVE  now' \in Nat /\ now <= now'
  BY <1>13 DEF DropChallenge, SessionsTypeOK
<1>14. ASSUME NEW c \in Clients, NEW f \in Families, NEW k \in Tokens, Login(c, f, k)
      PROVE  now' \in Nat /\ now <= now'
  BY <1>14 DEF Login, SessionsTypeOK
<1>15. ASSUME NEW c \in Clients, NEW f \in Families, NEW k \in Tokens, VerifyChallenge(c, f, k)
      PROVE  now' \in Nat /\ now <= now'
  BY <1>15 DEF VerifyChallenge, SessionsTypeOK
<1>16. ASSUME NEW c \in Clients, NEW f \in Families, NEW k \in Tokens, EnrolAndOpen(c, f, k)
      PROVE  now' \in Nat /\ now <= now'
  BY <1>16 DEF EnrolAndOpen, SessionsTypeOK
<1>17. ASSUME NEW c \in Clients, Deliver(c)
      PROVE  now' \in Nat /\ now <= now'
  BY <1>17 DEF Deliver, SessionsTypeOK
<1>18. ASSUME NEW c \in Clients, LoseAnswer(c)
      PROVE  now' \in Nat /\ now <= now'
  BY <1>18 DEF LoseAnswer, SessionsTypeOK
<1>19. ASSUME NEW c \in Clients, Abandon(c)
      PROVE  now' \in Nat /\ now <= now'
  BY <1>19 DEF Abandon, SessionsTypeOK
<1>20. ASSUME NEW f \in Families, HeartbeatExpires(f)
      PROVE  now' \in Nat /\ now <= now'
  BY <1>20 DEF HeartbeatExpires, SessionsTypeOK
<1>21. ASSUME NEW f \in Families, IdleCheck(f)
      PROVE  now' \in Nat /\ now <= now'
  BY <1>21 DEF IdleCheck, SessionsTypeOK
<1>22. ASSUME NEW f \in Families, RevokeOthers(f)
      PROVE  now' \in Nat /\ now <= now'
  BY <1>22 DEF RevokeOthers, SessionsTypeOK
<1>23. ASSUME NEW f \in Families, NEW g \in Families, RevokeSelected(f, g)
      PROVE  now' \in Nat /\ now <= now'
  BY <1>23 DEF RevokeSelected, SessionsTypeOK
<1>24. ASSUME NEW on \in BOOLEAN, ChangeAccount(on)
      PROVE  now' \in Nat /\ now <= now'
  BY <1>24 DEF ChangeAccount, SessionsTypeOK
<1>26. ASSUME NEW c \in Clients, NEW k \in Tokens, Heartbeat(c, k)
      PROVE  now' \in Nat /\ now <= now'
  BY <1>26 DEF Heartbeat, SessionsTypeOK
<1>27. ASSUME NEW c \in Clients, CommitHeartbeat(c)
      PROVE  now' \in Nat /\ now <= now'
  BY <1>27 DEF CommitHeartbeat, SessionsTypeOK
<1>25. CASE UNCHANGED vars
  BY <1>25 DEF vars, SessionsTypeOK
<1> QED
  BY <1>1, <1>2, <1>3, <1>4, <1>5, <1>6, <1>7, <1>8, <1>9, <1>10, <1>11, <1>12, <1>13, <1>14,
     <1>15, <1>16, <1>17, <1>18, <1>19, <1>20, <1>21, <1>22, <1>23, <1>24, <1>25, <1>26, <1>27 DEF
     SessionsNext, RefreshStep, HeartbeatStep, EntryStep, AccountStep

(* A session that validation has refused is never accepted again, but by   *)
(* the commit of a refresh or heartbeat let in while it was accepted.      *)
THEOREM RevivalCorrect == SessionsSpec => NoRevival
<1> DEFINE Kept == \A f \in Families : Over(f) => Over(f)'
<1>1. SessionsInv /\ [SessionsNext]_vars => Kept
  <2> SUFFICES ASSUME SessionsInv, [SessionsNext]_vars, NEW f \in Families, Over(f)
               PROVE  Over(f)'
    OBVIOUS
  <2>1. RowStep /\ now' \in Nat /\ now <= now'
    BY RowSteps, ClockMovesOn DEF SessionsInv
  <2>2. Opened(f)' /\ ~Authorised(f)' /\ ~UnderWay(f)'
    BY <2>1, NoNewWork, NotAuthorisedAgain, SessionsAssumption
  <2> QED
    BY <2>2 DEF Over
<1> HIDE DEF Kept
<1>2. [][SessionsNext]_vars /\ []SessionsInv => [][Kept]_vars
  BY <1>1, PTL
<1> QED
  BY <1>2, SessionsInvariant, PTL DEF SessionsSpec, NoRevival, Kept

=============================================================================
