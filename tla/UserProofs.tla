------------------------------ MODULE UserProofs ------------------------------
(***************************************************************************)
(* What holds of any user: of their session and of their document.          *)
(*                                                                         *)
(* Session: for any number of tabs and calls, and however often tokens     *)
(* expire and sessions end, a tab refreshes its tokens with one call at a  *)
(* time, and no tab is signed out by what another tab does.  SingleFlight  *)
(* is inductive as it stands.  KeptSignedIn is not: a refresh that was     *)
(* denied will take the tokens of its tab, and the server denies one only  *)
(* after the user has logged out, which Denials remembers.                 *)
(*                                                                         *)
(* Account: AnsweredKept is not inductive either.  What it needs is that a *)
(* document read earlier says no more than the one stored now (ReadsFit),  *)
(* because documents and matches only grow, and that a count which is not  *)
(* raced was computed from the count that is stored (CountsFit).           *)
(***************************************************************************)
EXTENDS Session, Account, FiniteSetTheorems, TLAPS

(* Session *)

\* What the server has denied, or would deny now, is the end of the session.
Denials ==
    /\ refreshTokenHash = "none" => excused = Tabs
    /\ \A q \in Calls : calls[q].at = "denied" => TabOf[q] \in excused

SessionInv == SessionTypeOK /\ SingleFlight /\ Denials /\ KeptSignedIn

-----------------------------------------------------------------------------

LEMMA SessionInitInv == SessionInit => SessionInv
<1> SUFFICES ASSUME SessionInit PROVE SessionInv
  OBVIOUS
<1> USE SessionAssumption DEF SessionInit
<1>1. SessionTypeOK
  BY DEF SessionTypeOK, Call
<1>2. SingleFlight
  BY DEF SingleFlight, Refreshing, OfTab
<1>3. Denials /\ KeptSignedIn
  BY DEF Denials, KeptSignedIn
<1> QED
  BY <1>1, <1>2, <1>3 DEF SessionInv

\* Every step keeps the types.
LEMMA SessionTypes ==
  ASSUME SessionTypeOK, SessionNext
  PROVE  SessionTypeOK'
<1> USE SessionAssumption DEF SessionTypeOK, Call
<1>1. ASSUME NEW q \in Calls, Send(q) PROVE SessionTypeOK'
  BY <1>1 DEF Send
<1>2. ASSUME NEW q \in Calls, CallStep(q) \/ RefreshLost(q) PROVE SessionTypeOK'
  <2>1. CASE Succeed(q) \/ FailTwice(q)
    BY <2>1 DEF Succeed, FailTwice
  <2>2. CASE Wait(q) \/ StartRefresh(q) \/ NoRefreshToken(q)
    BY <2>2 DEF Wait, StartRefresh, NoRefreshToken
  <2>3. CASE VerifyRefresh(q) \/ Reissue(q)
    BY <2>3 DEF VerifyRefresh, Reissue
  <2>4. CASE Refreshed(q)
    BY <2>4 DEF Refreshed, Queued
  <2>5. CASE RefreshDenied(q) \/ RefreshLost(q)
    BY <2>5 DEF RefreshDenied, RefreshLost, GiveUpRefresh, Queued, Ending
  <2> HIDE DEF SessionTypeOK
  <2> QED
    BY <1>2, <2>1, <2>2, <2>3, <2>4, <2>5 DEF CallStep
<1>3. ASSUME NEW c \in Tabs, SignOut(c) \/ SignIn(c) \/ LogOut(c) PROVE SessionTypeOK'
  BY <1>3 DEF SignOut, SignIn, LogOut, Ending
<1>4. ASSUME NEW c \in Tabs, Expire(c) PROVE SessionTypeOK'
  <2>1. ASSUME NEW q \in Calls PROVE calls'[q] \in Call
    <3>1. calls'[q] \in {calls[q], [calls[q] EXCEPT !.token = "expired"]}
      BY <1>4 DEF Expire
    <3> QED
      BY <3>1
  <2> QED
    BY <1>4, <2>1 DEF Expire
<1> HIDE DEF SessionTypeOK
<1> QED
  BY <1>1, <1>2, <1>3, <1>4 DEF SessionNext

\* A call that is answered, whatever it does next.
LEMMA AnswerInv ==
  ASSUME SessionInv, NEW q \in Calls,
         \/ Send(q) \/ Succeed(q) \/ FailTwice(q) \/ Wait(q) \/ NoRefreshToken(q)
         \/ StartRefresh(q) \/ VerifyRefresh(q) \/ Reissue(q)
  PROVE  SingleFlight' /\ Denials' /\ KeptSignedIn'
<1> USE SessionAssumption
    DEF SessionInv, SessionTypeOK, Call, SingleFlight, Refreshing, OfTab, Unauthorized
<1>1. SingleFlight'
  <2>1. CASE Send(q) \/ Succeed(q) \/ FailTwice(q) \/ NoRefreshToken(q)
    <3>1. /\ isRefreshing' = isRefreshing /\ pendingQueue' = pendingQueue
          /\ calls[q].at \in {"new", "sent"} /\ calls'[q].at \in {"sent", "ok", "failed"}
          /\ \A p \in Calls \ {q} : calls'[p] = calls[p]
      BY <2>1 DEF Send, Succeed, FailTwice, NoRefreshToken
    <3>2. \A c \in Tabs : Refreshing(c)' = Refreshing(c)
      BY <3>1
    <3> QED
      BY <3>1, <3>2
  <2>2. CASE Wait(q)
    BY <2>2 DEF Wait
  <2>3. CASE StartRefresh(q)
    BY <2>3 DEF StartRefresh
  <2>4. CASE VerifyRefresh(q)
    BY <2>4 DEF VerifyRefresh
  <2>5. CASE Reissue(q)
    BY <2>5 DEF Reissue
  <2> QED
    BY <2>1, <2>2, <2>3, <2>4, <2>5
<1> HIDE DEF SingleFlight
<1>2. Denials' /\ KeptSignedIn'
  BY DEF Send, Succeed, FailTwice, Wait, NoRefreshToken, StartRefresh, VerifyRefresh, Reissue,
         Denials, KeptSignedIn
<1> QED
  BY <1>1, <1>2

\* A refresh that ends, with new tokens or without: its call was the only one.
LEMMA RefreshEndInv ==
  ASSUME SessionInv, NEW q \in Calls, Refreshed(q) \/ RefreshDenied(q) \/ RefreshLost(q)
  PROVE  SingleFlight' /\ Denials' /\ KeptSignedIn'
<1> USE SessionAssumption
    DEF SessionInv, SessionTypeOK, Call, Refreshing, OfTab, Queued
<1>1. Refreshing(TabOf[q]) = {q} /\ TabOf[q] \in isRefreshing /\ TabOf[q] \in Tabs
  <2>1. q \in Refreshing(TabOf[q]) /\ TabOf[q] \in Tabs
    BY DEF Refreshed, RefreshDenied, RefreshLost
  <2> QED
    BY <2>1 DEF SingleFlight
<1>2. /\ isRefreshing' = isRefreshing \ {TabOf[q]}
      /\ pendingQueue' = pendingQueue \ OfTab(TabOf[q])
      /\ \A p \in Calls : TabOf[p] # TabOf[q] => calls'[p] = calls[p]
      /\ \A p \in Calls : TabOf[p] = TabOf[q] =>
            calls'[p].at \in {"sent", "failed"} \/ (p \notin pendingQueue /\ p # q /\ calls'[p] = calls[p])
  <2>1. CASE Refreshed(q)
    BY <2>1 DEF Refreshed
  <2>2. CASE RefreshDenied(q) \/ RefreshLost(q)
    BY <2>2 DEF RefreshDenied, RefreshLost, GiveUpRefresh
  <2> QED
    BY <2>1, <2>2
<1>3. SingleFlight'
  BY <1>1, <1>2 DEF SingleFlight
<1>4. excused \subseteq excused' /\ refreshTokenHash' = refreshTokenHash /\ excused' \subseteq Tabs
  BY <1>1 DEF Refreshed, RefreshDenied, RefreshLost
<1>5. \A p \in Calls : calls'[p].at = "denied" => calls[p].at = "denied"
  BY <1>2
<1>6. Denials'
  BY <1>4, <1>5 DEF Denials
<1>7. KeptSignedIn'
  <2>1. CASE Refreshed(q)
    BY <2>1 DEF Refreshed, KeptSignedIn
  <2>2. CASE RefreshDenied(q) \/ RefreshLost(q)
    <3>1. TabOf[q] \in excused'
      BY <2>2 DEF RefreshDenied, RefreshLost, Denials
    <3> QED
      BY <2>2, <3>1, <1>4 DEF RefreshDenied, RefreshLost, GiveUpRefresh, KeptSignedIn
  <2> QED
    BY <2>1, <2>2
<1> QED
  BY <1>3, <1>6, <1>7

\* What the user does, and time.
LEMMA UserInv ==
  ASSUME SessionInv, NEW c \in Tabs, SignOut(c) \/ SignIn(c) \/ Expire(c) \/ LogOut(c)
  PROVE  SingleFlight' /\ Denials' /\ KeptSignedIn'
<1> USE SessionAssumption
    DEF SessionInv, SessionTypeOK, Call, SignOut, SignIn, Expire, LogOut
<1>1. \A q \in Calls : calls'[q].at = calls[q].at
  OBVIOUS
<1>2. isRefreshing' = isRefreshing /\ pendingQueue' = pendingQueue
  OBVIOUS
<1>3. SingleFlight'
  BY <1>1, <1>2 DEF SingleFlight, Refreshing, OfTab
<1>4. Denials'
  <2>1. CASE SignOut(c) \/ Expire(c)
    BY <1>1, <2>1 DEF Denials
  <2>2. CASE LogOut(c)
    BY <1>1, <2>2 DEF Denials
  <2>3. CASE SignIn(c)
    <3>1. ASSUME NEW q \in Calls, calls[q].at = "denied" PROVE TabOf[q] \in excused'
      <4>1. TabOf[q] = c => q \in Refreshing(c)
        BY <3>1 DEF Refreshing, OfTab
      <4> QED
        BY <2>3, <3>1, <4>1 DEF Denials
    <3> QED
      BY <1>1, <2>3, <3>1 DEF Denials
  <2> QED
    BY <2>1, <2>2, <2>3
<1>5. KeptSignedIn'
  BY DEF KeptSignedIn
<1> QED
  BY <1>3, <1>4, <1>5

LEMMA SessionStepInv ==
  ASSUME SessionInv, [SessionNext]_sessionVars
  PROVE  SessionInv'
<1>1. CASE SessionNext
  <2>1. SessionTypeOK'
    BY <1>1, SessionTypes DEF SessionInv
  <2>2. SingleFlight' /\ Denials' /\ KeptSignedIn'
    BY <1>1, AnswerInv, RefreshEndInv, UserInv DEF SessionNext, CallStep
  <2> QED
    BY <2>1, <2>2 DEF SessionInv
<1>2. CASE UNCHANGED sessionVars
  BY <1>2 DEF sessionVars, SessionInv, SessionTypeOK, SingleFlight, Denials, KeptSignedIn,
              Refreshing, OfTab
<1> QED
  BY <1>1, <1>2

LEMMA SessionInvariance == SessionSpec => []SessionInv
  BY SessionInitInv, SessionStepInv, PTL DEF SessionSpec

\* The axios interceptor refreshes the tokens of a tab with one call at a time, and
\* nothing waits in its queue when no refresh is running.
THEOREM OneRefresh == SessionSpec => []SingleFlight
<1>1. SessionInv => SingleFlight
  BY DEF SessionInv
<1> QED
  BY <1>1, SessionInvariance, PTL

\* Tabs of a user that refresh the same session do not sign each other out: a tab's
\* tokens go only for one of the reasons recorded in excused.
THEOREM TabsKeepSession == SessionSpec => []KeptSignedIn
<1>1. SessionInv => KeptSignedIn
  BY DEF SessionInv
<1> QED
  BY <1>1, SessionInvariance, PTL

-----------------------------------------------------------------------------
(* Account *)

\* A trust level that claims no more than was verified.
TierFits(p) ==
    /\ p.kycTier # "tier_1_basic" => p.verified
    /\ p.kycTier = "tier_3_pro" => p.payout

\* Nothing that was set in a document is lost in a later one.
Grows(p, later) ==
    /\ p.verified => later.verified
    /\ p.payout => later.payout
    /\ p.preferences => later.preferences

\* What a handler has read is no more than what is stored.
ReadsFit == \A c \in AccountCalls :
    /\ handlers[c].at = "save" =>
          TierFits(handlers[c].read) /\ Grows(handlers[c].read, profile[handlers[c].about])
    /\ handlers[c].at = "match" =>
          \A s \in Sides : handlers[c].seen[s] => rating[handlers[c].about][s]
    /\ handlers[c].at \in {"review", "user", "count"} =>
          rating[handlers[c].about][handlers[c].side]

\* A rating that is not raced will count from the count that is stored.
CountsFit == \A u \in Users \ raced : \A c \in Counting(u) :
    /\ handlers[c].read.count = profile[u].count
    /\ Counting(u) = {c}

AccountInv ==
    /\ AccountTypeOK /\ ReadsFit /\ CountsFit
    /\ SetupKept /\ RatingsKept /\ RatingsCounted

-----------------------------------------------------------------------------
(* What save() leaves in a document *)

LEMMA SavedFields ==
  ASSUME NEW stored \in Profile, NEW read \in Profile, NEW new \in Profile
  PROVE  /\ Saved(stored, read, new) \in Profile
         /\ \A p \in {"verified", "payout", "preferences", "carrier", "kycTier", "count"} :
               Saved(stored, read, new)[p] = IF new[p] # read[p] THEN new[p] ELSE stored[p]
  BY DEF Saved, Profile

LEMMA SetUpFields ==
  ASSUME NEW kind \in SetupKinds, NEW p \in Profile
  PROVE  /\ SetUpProfile(kind, p) \in Profile
         /\ SetUpProfile(kind, p).count = p.count
         /\ Grows(p, SetUpProfile(kind, p))
         /\ SetUpProfile(kind, p)[kind]
         /\ TierFits(p) => TierFits(SetUpProfile(kind, p))
  BY DEF SetupKinds, SetUpProfile, Profile, Grows, TierFits

LEMMA SetUpSaved ==
  ASSUME NEW kind \in SetupKinds, NEW stored \in Profile, NEW read \in Profile,
         TierFits(stored), TierFits(read), Grows(read, stored)
  PROVE  LET p == Saved(stored, read, SetUpProfile(kind, read)) IN
         /\ p \in Profile /\ p.count = stored.count
         /\ Grows(stored, p) /\ TierFits(p) /\ p[kind]
<1> DEFINE new == SetUpProfile(kind, read)
           p == Saved(stored, read, new)
<1>1. /\ new \in Profile /\ new.count = read.count
      /\ Grows(read, new) /\ new[kind] /\ TierFits(new)
  BY SetUpFields
<1>2. /\ p \in Profile
      /\ \A f \in {"verified", "payout", "preferences", "carrier", "kycTier", "count"} :
            p[f] = IF new[f] # read[f] THEN new[f] ELSE stored[f]
  BY <1>1, SavedFields
<1> HIDE DEF new, p
<1>3. p.count = stored.count
  BY <1>1, <1>2
<1>4. Grows(stored, p)
  BY <1>1, <1>2 DEF Grows, Profile
<1>5. p[kind]
  BY <1>1, <1>2 DEF Grows, Profile, SetupKinds
<1>6. TierFits(p)
  BY <1>1, <1>2 DEF Grows, Profile, TierFits
<1> QED
  BY <1>2, <1>3, <1>4, <1>5, <1>6 DEF new, p

LEMMA CountSaved ==
  ASSUME NEW stored \in Profile, NEW read \in Profile
  PROVE  LET p == Saved(stored, read, [read EXCEPT !.count = @ + 1]) IN
         /\ p \in Profile /\ p.count = read.count + 1
         /\ Grows(stored, p)
         /\ TierFits(stored) => TierFits(p)
<1>1. [read EXCEPT !.count = @ + 1] \in Profile
  BY DEF Profile
<1> QED
  BY <1>1, SavedFields DEF Profile, Grows, TierFits

-----------------------------------------------------------------------------

LEMMA AccountInitInv == AccountInit => AccountInv
<1> SUFFICES ASSUME AccountInit PROVE AccountInv
  OBVIOUS
<1> USE AccountAssumption DEF AccountInit
<1>1. AccountTypeOK
  BY DEF AccountTypeOK, Plain, Unrated, Profile, Rating
<1>2. ReadsFit /\ CountsFit
  BY DEF ReadsFit, CountsFit, Counting, RatingsAt, Free
<1>3. SetupKept /\ RatingsKept
  BY DEF SetupKept, RatingsKept, Plain
<1>4. RatingsCounted
  <2>1. \A u \in Users : Uncounted(u) = {}
    BY DEF Uncounted, RatingsAt, Free
  <2>2. \A u \in Users : profile[u].count = 0 /\ due[u] = 0
    BY DEF Plain
  <2>3. Cardinality({}) = 0
    BY FS_EmptySet
  <2>4. \A u \in Users : profile[u].count + Cardinality(Uncounted(u)) = due[u]
    BY <2>1, <2>2, <2>3
  <2> QED
    BY <2>4 DEF RatingsCounted
<1> QED
  BY <1>1, <1>2, <1>3, <1>4 DEF AccountInv

\* The parameters of a call that has begun.
LEMMA CallFields ==
  ASSUME AccountTypeOK, NEW c \in AccountCalls
  PROVE  /\ handlers[c].at = "save" => handlers[c] \in SetUpCall
         /\ handlers[c].at \in {"match", "review", "user", "count"} => handlers[c] \in RateCall
  BY DEF AccountTypeOK, SetUpCall, RateCall, Free

LEMMA RatedIsUser ==
  ASSUME NEW h \in RateCall
  PROVE  RatedUser(h.about, h.side) \in Users
  BY AccountAssumption DEF RateCall, RatedUser, Sides

\* No step takes back what a document says, nor lets it claim too much.
LEMMA ProfilesGrow ==
  ASSUME AccountInv, [AccountNext]_accountVars
  PROVE  /\ profile' \in [Users -> Profile]
         /\ \A u \in Users : Grows(profile[u], profile'[u]) /\ TierFits(profile'[u])
<1> DEFINE Goal == /\ profile' \in [Users -> Profile]
                   /\ \A u \in Users : Grows(profile[u], profile'[u]) /\ TierFits(profile'[u])
<1>1. profile \in [Users -> Profile] /\ \A u \in Users : TierFits(profile[u])
  BY DEF AccountInv, AccountTypeOK, SetupKept, TierFits
<1>2. ASSUME UNCHANGED profile PROVE Goal
  BY <1>1, <1>2 DEF Grows
<1>3. ASSUME NEW c \in AccountCalls, SetUpSave(c) PROVE Goal
  <2> DEFINE u == handlers[c].about
             p == Saved(profile[u], handlers[c].read,
                        SetUpProfile(handlers[c].kind, handlers[c].read))
  <2>1. handlers[c] \in SetUpCall
    BY <1>3, CallFields DEF AccountInv, SetUpSave
  <2>2. /\ u \in Users /\ handlers[c].kind \in SetupKinds /\ handlers[c].read \in Profile
        /\ TierFits(handlers[c].read) /\ Grows(handlers[c].read, profile[u])
    BY <1>3, <2>1 DEF SetUpCall, SetUpSave, AccountInv, ReadsFit
  <2>3. p \in Profile /\ Grows(profile[u], p) /\ TierFits(p)
    BY <1>1, <2>2, SetUpSaved
  <2>4. profile' = [profile EXCEPT ![u] = p]
    BY <1>3 DEF SetUpSave
  <2> HIDE DEF u, p
  <2> QED
    BY <1>1, <2>2, <2>3, <2>4 DEF Grows
<1>4. ASSUME NEW c \in AccountCalls, RateCount(c) PROVE Goal
  <2> DEFINE u == RatedUser(handlers[c].about, handlers[c].side)
             p == Saved(profile[u], handlers[c].read, [handlers[c].read EXCEPT !.count = @ + 1])
  <2>1. handlers[c] \in RateCall
    BY <1>4, CallFields DEF AccountInv, RateCount
  <2>2. u \in Users /\ handlers[c].read \in Profile
    BY <2>1, RatedIsUser DEF RateCall
  <2>3. p \in Profile /\ Grows(profile[u], p) /\ TierFits(p)
    BY <1>1, <2>2, CountSaved
  <2>4. profile' = [profile EXCEPT ![u] = p]
    BY <1>4 DEF RateCount
  <2> HIDE DEF u, p
  <2> QED
    BY <1>1, <2>2, <2>3, <2>4 DEF Grows
<1>5. ASSUME NEW u \in Users, VerifyId(u) \/ Penalize(u) PROVE Goal
  <2> DEFINE verified == [profile[u] EXCEPT !.verified = TRUE, !.kycTier = "tier_2_verified"]
             penalized == [profile[u] EXCEPT !.count = @ + 1]
  <2>1. profile[u] \in Profile /\ TierFits(profile[u])
    BY <1>1
  <2>2. verified \in Profile /\ Grows(profile[u], verified) /\ TierFits(verified)
    BY <2>1 DEF Profile, Grows, TierFits
  <2>3. penalized \in Profile /\ Grows(profile[u], penalized) /\ TierFits(penalized)
    BY <2>1 DEF Profile, Grows, TierFits
  <2>4. profile' \in {[profile EXCEPT ![u] = verified], [profile EXCEPT ![u] = penalized]}
    BY <1>1, <1>5 DEF VerifyId, Penalize
  <2> HIDE DEF verified, penalized
  <2> QED
    BY <1>1, <2>2, <2>3, <2>4 DEF Grows
<1>6. ASSUME \E c \in AccountCalls :
                \/ RateSave(c) \/ RateReview(c) \/ RateReadUser(c) \/ HandlerFails(c)
                \/ \E kind \in SetupKinds, u \in Users : SetUpRead(c, kind, u)
                \/ \E d \in Deliveries, side \in Sides : RateRead(c, d, side)
      PROVE  Goal
  BY <1>2, <1>6 DEF RateSave, RateReview, RateReadUser, HandlerFails, SetUpRead, RateRead
<1>7. ASSUME UNCHANGED accountVars PROVE Goal
  BY <1>2, <1>7 DEF accountVars
<1>8. Goal
  <2> HIDE DEF Goal
  <2>1. CASE \E u \in Users : VerifyId(u) \/ Penalize(u)
    BY <1>5, <2>1
  <2>2. CASE \E c \in AccountCalls : SetUpSave(c) \/ RateCount(c)
    BY <1>3, <1>4, <2>2
  <2> QED
    BY <1>6, <1>7, <2>1, <2>2 DEF AccountNext
<1> QED
  BY <1>8

\* No step takes back a rating in a match.
LEMMA RatingsGrow ==
  ASSUME AccountInv, [AccountNext]_accountVars
  PROVE  /\ rating' \in [Deliveries -> Rating]
         /\ \A d \in Deliveries, s \in Sides : rating[d][s] => rating'[d][s]
<1>1. rating \in [Deliveries -> Rating]
  BY DEF AccountInv, AccountTypeOK
<1>2. CASE UNCHANGED rating
  BY <1>1, <1>2
<1>3. ASSUME NEW c \in AccountCalls, RateSave(c)
      PROVE  /\ rating' \in [Deliveries -> Rating]
             /\ \A d \in Deliveries, s \in Sides : rating[d][s] => rating'[d][s]
  <2> DEFINE h == handlers[c]
             r == Saved(rating[h.about], h.seen, [h.seen EXCEPT ![h.side] = TRUE])
  <2>1. h \in RateCall
    BY <1>3, CallFields DEF AccountInv, RateSave
  <2>2. h.about \in Deliveries /\ h.side \in Sides /\ h.seen \in Rating /\ rating[h.about] \in Rating
    BY <1>1, <2>1 DEF RateCall
  <2>3. r \in Rating /\ \A s \in Sides : rating[h.about][s] => r[s]
    BY <2>2 DEF Saved, Rating
  <2>4. rating' = [rating EXCEPT ![h.about] = r]
    BY <1>3 DEF RateSave
  <2> HIDE DEF h, r
  <2> QED
    BY <1>1, <2>2, <2>3, <2>4
<1>4. CASE \E c \in AccountCalls :
          \/ SetUpSave(c) \/ RateReview(c) \/ RateReadUser(c) \/ RateCount(c) \/ HandlerFails(c)
          \/ \E kind \in SetupKinds, u \in Users : SetUpRead(c, kind, u)
          \/ \E d \in Deliveries, side \in Sides : RateRead(c, d, side)
  BY <1>2, <1>4 DEF SetUpSave, RateReview, RateReadUser, RateCount, HandlerFails, SetUpRead, RateRead
<1>5. CASE \E u \in Users : VerifyId(u) \/ Penalize(u)
  BY <1>2, <1>5 DEF VerifyId, Penalize
<1> QED
  BY <1>2, <1>3, <1>4, <1>5 DEF AccountNext, accountVars

LEMMA AccountTypes ==
  ASSUME AccountInv, [AccountNext]_accountVars
  PROVE  AccountTypeOK'
<1>1. profile' \in [Users -> Profile] /\ rating' \in [Deliveries -> Rating]
  BY ProfilesGrow, RatingsGrow
<1>2. AccountTypeOK
  BY DEF AccountInv
<1>3. profile \in [Users -> Profile] /\ rating \in [Deliveries -> Rating]
  BY <1>2 DEF AccountTypeOK
<1>4. Plain \in Profile /\ Unrated \in Rating
  BY DEF Plain, Unrated, Profile, Rating
<1> USE AccountAssumption
<1> HIDE DEF Profile, Rating
<1>5. CASE UNCHANGED accountVars
  BY <1>2, <1>5 DEF AccountTypeOK, accountVars
<1>6. ASSUME NEW c \in AccountCalls, NEW kind \in SetupKinds, NEW u \in Users, SetUpRead(c, kind, u)
      PROVE  AccountTypeOK'
  <2>1. [Free EXCEPT !.at = "save", !.kind = kind, !.about = u, !.read = profile[u]] \in SetUpCall
    BY <1>3 DEF Free, SetUpCall
  <2> QED
    BY <1>1, <1>2, <1>6, <2>1 DEF AccountTypeOK, SetUpRead, Requested
<1>7. ASSUME NEW c \in AccountCalls, SetUpSave(c) PROVE AccountTypeOK'
  <2>1. handlers[c] \in SetUpCall
    BY <1>2, <1>7, CallFields DEF SetUpSave
  <2>2. <<handlers[c].about, handlers[c].kind>> \in Users \X SetupKinds
    BY <2>1 DEF SetUpCall
  <2> QED
    BY <1>1, <1>2, <1>7, <2>2 DEF AccountTypeOK, SetUpSave
<1>8. ASSUME NEW c \in AccountCalls, NEW d \in Deliveries, NEW side \in Sides, RateRead(c, d, side)
      PROVE  AccountTypeOK'
  <2>1. [Free EXCEPT !.at = "match", !.kind = "rate", !.about = d, !.side = side, !.seen = rating[d]]
          \in RateCall
    BY <1>3, <1>4 DEF Free, RateCall
  <2> QED
    BY <1>1, <1>2, <1>8, <2>1 DEF AccountTypeOK, RateRead, Requested
<1>9. ASSUME NEW c \in AccountCalls, RateSave(c) \/ RateReview(c) \/ RateReadUser(c) \/ RateCount(c)
      PROVE  AccountTypeOK'
  <2> DEFINE u == RatedUser(handlers[c].about, handlers[c].side)
  <2>1. handlers[c] \in RateCall
    BY <1>2, <1>9, CallFields DEF RateSave, RateReview, RateReadUser, RateCount
  <2>2. u \in Users
    BY <2>1, RatedIsUser
  <2>3. <<handlers[c].about, handlers[c].side>> \in Deliveries \X Sides
    BY <2>1 DEF RateCall
  <2>4. /\ [handlers[c] EXCEPT !.at = "review"] \in RateCall
        /\ [handlers[c] EXCEPT !.at = "user"] \in RateCall
        /\ [handlers[c] EXCEPT !.at = "count", !.read = profile[u]] \in RateCall
    BY <1>3, <2>1, <2>2 DEF RateCall
  <2>5. CASE RateSave(c)
    BY <1>1, <1>2, <2>2, <2>4, <2>5 DEF AccountTypeOK, RateSave
  <2>6. CASE RateReview(c)
    BY <1>1, <1>2, <2>4, <2>6 DEF AccountTypeOK, RateReview
  <2>7. CASE RateReadUser(c)
    BY <1>1, <1>2, <2>2, <2>4, <2>7 DEF AccountTypeOK, RateReadUser
  <2>8. CASE RateCount(c)
    BY <1>1, <1>2, <2>3, <2>8 DEF AccountTypeOK, RateCount
  <2> QED
    BY <1>9, <2>5, <2>6, <2>7, <2>8
<1>10. ASSUME NEW c \in AccountCalls, HandlerFails(c) PROVE AccountTypeOK'
  <2>1. handlers[c].at \in {"review", "user", "count"} =>
          RatedUser(handlers[c].about, handlers[c].side) \in Users
    BY <1>2, CallFields, RatedIsUser
  <2> QED
    BY <1>1, <1>2, <1>10, <2>1 DEF AccountTypeOK, HandlerFails
<1>11. ASSUME NEW u \in Users, VerifyId(u) \/ Penalize(u) PROVE AccountTypeOK'
  BY <1>1, <1>2, <1>11 DEF AccountTypeOK, VerifyId, Penalize, Requested, SetupKinds
<1> QED
  BY <1>5, <1>6, <1>7, <1>8, <1>9, <1>10, <1>11 DEF AccountNext

-----------------------------------------------------------------------------

\* A call whose handler did not move still fits: documents and matches only grow.
LEMMA ReadStillFits ==
  ASSUME AccountInv, [AccountNext]_accountVars, NEW x \in AccountCalls, handlers'[x] = handlers[x]
  PROVE  /\ handlers'[x].at = "save" =>
               /\ TierFits(handlers'[x].read)
               /\ Grows(handlers'[x].read, profile'[handlers'[x].about])
         /\ handlers'[x].at = "match" =>
               \A s \in Sides : handlers'[x].seen[s] => rating'[handlers'[x].about][s]
         /\ handlers'[x].at \in {"review", "user", "count"} =>
               rating'[handlers'[x].about][handlers'[x].side]
<1>1. /\ \A u \in Users : Grows(profile[u], profile'[u])
      /\ \A d \in Deliveries, s \in Sides : rating[d][s] => rating'[d][s]
  BY ProfilesGrow, RatingsGrow
<1>2. CASE handlers[x].at = "save"
  BY <1>1, <1>2, CallFields DEF AccountInv, ReadsFit, SetUpCall, Grows
<1>3. CASE handlers[x].at \in {"match", "review", "user", "count"}
  BY <1>1, <1>3, CallFields DEF AccountInv, ReadsFit, RateCall
<1> QED
  BY <1>2, <1>3

LEMMA ReadsFitKept ==
  ASSUME AccountInv, [AccountNext]_accountVars
  PROVE  ReadsFit'
<1> DEFINE Fits(x) ==
             /\ handlers'[x].at = "save" =>
                   /\ TierFits(handlers'[x].read)
                   /\ Grows(handlers'[x].read, profile'[handlers'[x].about])
             /\ handlers'[x].at = "match" =>
                   \A s \in Sides : handlers'[x].seen[s] => rating'[handlers'[x].about][s]
             /\ handlers'[x].at \in {"review", "user", "count"} =>
                   rating'[handlers'[x].about][handlers'[x].side]
<1> SUFFICES ASSUME NEW x \in AccountCalls PROVE Fits(x)
  BY DEF ReadsFit
<1>1. CASE handlers'[x] = handlers[x]
  BY <1>1, ReadStillFits
<1>2. handlers \in [AccountCalls -> {Free} \union SetUpCall \union RateCall]
  BY DEF AccountInv, AccountTypeOK
<1>3. CASE handlers'[x] = Free
  BY <1>3 DEF Free
<1>4. ASSUME NEW kind \in SetupKinds, NEW u \in Users, SetUpRead(x, kind, u) PROVE Fits(x)
  <2>1. handlers'[x] = [Free EXCEPT !.at = "save", !.kind = kind, !.about = u, !.read = profile[u]]
    BY <1>2, <1>4 DEF SetUpRead
  <2>2. /\ handlers'[x].at = "save" /\ handlers'[x].about = u
        /\ handlers'[x].read = profile[u] /\ profile' = profile
    BY <1>4, <2>1 DEF Free, SetUpRead
  <2> QED
    BY <2>2, ProfilesGrow DEF Grows
<1>5. ASSUME NEW d \in Deliveries, NEW side \in Sides, RateRead(x, d, side) PROVE Fits(x)
  <2>1. handlers'[x] = [Free EXCEPT !.at = "match", !.kind = "rate", !.about = d,
                                    !.side = side, !.seen = rating[d]]
    BY <1>2, <1>5 DEF RateRead
  <2>2. rating' = rating
    BY <1>5 DEF RateRead
  <2>3. /\ handlers'[x].at = "match" /\ handlers'[x].about = d
        /\ handlers'[x].seen = rating[d] /\ rating' = rating
    BY <2>1, <2>2 DEF Free
  <2> QED
    BY <2>3
<1>6. CASE RateSave(x)
  <2> DEFINE h == handlers[x]
             r == Saved(rating[h.about], h.seen, [h.seen EXCEPT ![h.side] = TRUE])
  <2>1. h \in RateCall /\ h.at = "match"
    BY <1>6, CallFields DEF AccountInv, RateSave
  <2>2. /\ h.about \in Deliveries /\ h.side \in Sides /\ h.seen \in Rating
        /\ rating \in [Deliveries -> Rating]
        /\ h.seen[h.side] => rating[h.about][h.side]
    BY <2>1 DEF AccountInv, AccountTypeOK, ReadsFit, RateCall
  <2>3. r[h.side]
    BY <2>2 DEF Saved, Rating
  <2>4. rating'[h.about] = r
    BY <1>6, <2>2 DEF RateSave
  <2>5. handlers'[x].at = "review" /\ handlers'[x].about = h.about /\ handlers'[x].side = h.side
    BY <1>2, <1>6, <2>1 DEF RateSave, RateCall
  <2> QED
    BY <2>3, <2>4, <2>5
<1>7. CASE RateReview(x) \/ RateReadUser(x)
  <2>1. handlers[x] \in RateCall /\ handlers[x].at \in {"review", "user"} /\ rating' = rating
    BY <1>7, CallFields DEF AccountInv, RateReview, RateReadUser
  <2>2. /\ handlers'[x].at \in {"user", "count"}
        /\ handlers'[x].about = handlers[x].about /\ handlers'[x].side = handlers[x].side
    BY <1>2, <1>7, <2>1 DEF RateReview, RateReadUser, RateCall
  <2> QED
    BY <2>1, <2>2 DEF AccountInv, ReadsFit
<1>8. \/ handlers'[x] = handlers[x] \/ handlers'[x] = Free
      \/ RateSave(x) \/ RateReview(x) \/ RateReadUser(x)
      \/ \E kind \in SetupKinds, u \in Users : SetUpRead(x, kind, u)
      \/ \E d \in Deliveries, side \in Sides : RateRead(x, d, side)
  <2>1. ASSUME NEW c \in AccountCalls, SetUpSave(c) \/ RateCount(c) \/ HandlerFails(c)
        PROVE  handlers'[x] \in {handlers[x], Free}
    BY <1>2, <2>1 DEF SetUpSave, RateCount, HandlerFails
  <2>2. ASSUME NEW c \in AccountCalls, c # x, RateSave(c) \/ RateReview(c) \/ RateReadUser(c)
        PROVE  handlers'[x] = handlers[x]
    BY <1>2, <2>2 DEF RateSave, RateReview, RateReadUser
  <2>3. ASSUME NEW c \in AccountCalls, c # x, NEW kind \in SetupKinds, NEW u \in Users,
               SetUpRead(c, kind, u)
        PROVE  handlers'[x] = handlers[x]
    BY <1>2, <2>3 DEF SetUpRead
  <2>4. ASSUME NEW c \in AccountCalls, c # x, NEW d \in Deliveries, NEW side \in Sides,
               RateRead(c, d, side)
        PROVE  handlers'[x] = handlers[x]
    BY <1>2, <2>4 DEF RateRead
  <2>5. ASSUME NEW u \in Users, VerifyId(u) \/ Penalize(u) PROVE handlers'[x] = handlers[x]
    BY <2>5 DEF VerifyId, Penalize
  <2>6. CASE UNCHANGED accountVars
    BY <2>6 DEF accountVars
  <2> QED
    BY <2>1, <2>2, <2>3, <2>4, <2>5, <2>6 DEF AccountNext
<1> HIDE DEF Fits
<1> QED
  BY <1>1, <1>3, <1>4, <1>5, <1>6, <1>7, <1>8

LEMMA SetupKeeps ==
  ASSUME AccountInv, [AccountNext]_accountVars
  PROVE  SetupKept'
<1>1. \A u \in Users : Grows(profile[u], profile'[u]) /\ TierFits(profile'[u])
  BY ProfilesGrow
<1>2. setUp \subseteq Users \X SetupKinds /\ \A s \in setUp : profile[s[1]][s[2]]
  BY DEF AccountInv, AccountTypeOK, SetupKept
<1>3. \A s \in setUp : profile'[s[1]][s[2]]
  BY <1>1, <1>2 DEF Grows, SetupKinds
<1>4. \A u \in Users : /\ profile'[u].kycTier # "tier_1_basic" => profile'[u].verified
                       /\ profile'[u].kycTier = "tier_3_pro" => profile'[u].payout
  BY <1>1 DEF TierFits
<1>5. ASSUME NEW c \in AccountCalls, SetUpSave(c) PROVE \A s \in setUp' : profile'[s[1]][s[2]]
  <2> DEFINE u == handlers[c].about
             kind == handlers[c].kind
             p == Saved(profile[u], handlers[c].read, SetUpProfile(kind, handlers[c].read))
  <2>1. handlers[c] \in SetUpCall
    BY <1>5, CallFields DEF AccountInv, SetUpSave
  <2>2. /\ u \in Users /\ kind \in SetupKinds /\ handlers[c].read \in Profile
        /\ TierFits(handlers[c].read) /\ Grows(handlers[c].read, profile[u])
    BY <1>5, <2>1 DEF SetUpCall, SetUpSave, AccountInv, ReadsFit
  <2>3. profile \in [Users -> Profile] /\ TierFits(profile[u])
    BY <2>2 DEF AccountInv, AccountTypeOK, SetupKept, TierFits
  <2>4. p[kind]
    BY <2>2, <2>3, SetUpSaved
  <2>5. profile'[u] = p /\ setUp' = setUp \union {<<u, kind>>}
    BY <1>5, <2>2, <2>3 DEF SetUpSave
  <2> QED
    BY <1>3, <2>4, <2>5
<1>6. ASSUME NEW u \in Users, VerifyId(u) PROVE \A s \in setUp' : profile'[s[1]][s[2]]
  <2>1. setUp' = setUp \union {<<u, "verified">>}
    BY <1>6 DEF VerifyId
  <2>2. profile'[u].verified
    BY <1>6 DEF VerifyId, AccountInv, AccountTypeOK, Profile
  <2> QED
    BY <1>3, <2>1, <2>2
<1>7. CASE UNCHANGED setUp
  BY <1>3, <1>4, <1>7 DEF SetupKept
<1>8. CASE \E c \in AccountCalls :
          \/ RateSave(c) \/ RateReview(c) \/ RateReadUser(c) \/ RateCount(c) \/ HandlerFails(c)
          \/ \E kind \in SetupKinds, u \in Users : SetUpRead(c, kind, u)
          \/ \E d \in Deliveries, side \in Sides : RateRead(c, d, side)
  BY <1>7, <1>8 DEF RateSave, RateReview, RateReadUser, RateCount, HandlerFails, SetUpRead, RateRead
<1>9. CASE \E u \in Users : Penalize(u)
  BY <1>7, <1>9 DEF Penalize
<1> QED
  BY <1>4, <1>5, <1>6, <1>7, <1>8, <1>9 DEF AccountNext, accountVars, SetupKept

LEMMA RatingsKeep ==
  ASSUME AccountInv, [AccountNext]_accountVars
  PROVE  RatingsKept'
<1>1. /\ thanked \subseteq Deliveries \X Sides /\ \A t \in thanked : rating[t[1]][t[2]]
      /\ \A d \in Deliveries, s \in Sides : rating[d][s] => rating'[d][s]
  BY RatingsGrow DEF AccountInv, AccountTypeOK, RatingsKept
<1>2. \A t \in thanked : rating'[t[1]][t[2]]
  BY <1>1
<1>3. CASE UNCHANGED thanked
  BY <1>2, <1>3 DEF RatingsKept
<1>4. ASSUME NEW c \in AccountCalls, RateCount(c) PROVE RatingsKept'
  <2>1. rating[handlers[c].about][handlers[c].side] /\ rating' = rating
    BY <1>4 DEF RateCount, AccountInv, ReadsFit
  <2>2. thanked' = thanked \union {<<handlers[c].about, handlers[c].side>>}
    BY <1>4 DEF RateCount
  <2> QED
    BY <1>2, <2>1, <2>2 DEF RatingsKept
<1>5. CASE \E c \in AccountCalls :
          \/ SetUpSave(c) \/ RateSave(c) \/ RateReview(c) \/ RateReadUser(c) \/ HandlerFails(c)
          \/ \E kind \in SetupKinds, u \in Users : SetUpRead(c, kind, u)
          \/ \E d \in Deliveries, side \in Sides : RateRead(c, d, side)
  BY <1>3, <1>5 DEF SetUpSave, RateSave, RateReview, RateReadUser, HandlerFails, SetUpRead, RateRead
<1>6. CASE \E u \in Users : VerifyId(u) \/ Penalize(u)
  BY <1>3, <1>6 DEF VerifyId, Penalize
<1> QED
  BY <1>3, <1>4, <1>5, <1>6 DEF AccountNext, accountVars

-----------------------------------------------------------------------------
(* Counts *)

\* Ratings a call has saved and not yet counted, and how often a user is read for them.
LEMMA UncountedFinite ==
  ASSUME NEW u
  PROVE  IsFiniteSet(Uncounted(u)) /\ Cardinality(Uncounted(u)) \in Nat
<1>1. Uncounted(u) \subseteq AccountCalls
  BY DEF Uncounted, RatingsAt
<1> QED
  BY <1>1, FS_Subset, FS_CardinalityType, AccountAssumption

\* A step that moves no call to or from these places, and no count.
LEMMA CountsUntouched ==
  ASSUME AccountInv,
         \A u \in Users : /\ profile'[u].count = profile[u].count
                          /\ Uncounted(u)' = Uncounted(u)
                          /\ \A c \in Counting(u)' : c \in Counting(u) /\ handlers'[c] = handlers[c],
         due' = due, raced' = raced, cutOff' = cutOff
  PROVE  CountsFit' /\ RatingsCounted'
<1>1. ASSUME NEW u \in Users \ raced', NEW c \in Counting(u)'
      PROVE  handlers'[c].read.count = profile'[u].count /\ Counting(u)' = {c}
  BY <1>1 DEF AccountInv, CountsFit
<1>2. CountsFit'
  BY <1>1 DEF CountsFit
<1>3. RatingsCounted'
  BY DEF AccountInv, RatingsCounted
<1> QED
  BY <1>2, <1>3

LEMMA SetUpCounts ==
  ASSUME AccountInv, NEW c \in AccountCalls,
         \/ \E kind \in SetupKinds, u \in Users : SetUpRead(c, kind, u)
         \/ SetUpSave(c)
         \/ \E d \in Deliveries, side \in Sides : RateRead(c, d, side)
         \/ RateReview(c)
  PROVE  CountsFit' /\ RatingsCounted'
<1>1. handlers \in [AccountCalls -> {Free} \union SetUpCall \union RateCall]
  BY DEF AccountInv, AccountTypeOK
<1>2. \A u \in Users : profile'[u].count = profile[u].count
  <2>1. CASE SetUpSave(c)
    <3> DEFINE u == handlers[c].about
               p == Saved(profile[u], handlers[c].read,
                          SetUpProfile(handlers[c].kind, handlers[c].read))
    <3>1. /\ u \in Users /\ handlers[c].kind \in SetupKinds /\ handlers[c].read \in Profile
          /\ TierFits(handlers[c].read) /\ Grows(handlers[c].read, profile[u])
      BY <2>1, CallFields DEF AccountInv, SetUpCall, SetUpSave, ReadsFit
    <3>2. profile \in [Users -> Profile] /\ TierFits(profile[u])
      BY <3>1 DEF AccountInv, AccountTypeOK, SetupKept, TierFits
    <3>3. p.count = profile[u].count
      BY <3>1, <3>2, SetUpSaved
    <3>4. profile' = [profile EXCEPT ![u] = p]
      BY <2>1 DEF SetUpSave
    <3> HIDE DEF u, p
    <3> QED
      BY <3>2, <3>3, <3>4
  <2>2. CASE ~ SetUpSave(c)
    BY <2>2 DEF SetUpRead, RateRead, RateReview
  <2> QED
    BY <2>1, <2>2
<1>3. /\ \A x \in AccountCalls \ {c} : handlers'[x] = handlers[x]
      /\ handlers'[c].at # "count" /\ handlers[c].at # "count"
      /\ \/ handlers'[c].at \in {"idle", "save", "match"} /\ handlers[c].at \in {"idle", "save", "match"}
         \/ /\ handlers[c].at = "review" /\ handlers'[c].at = "user"
            /\ handlers'[c].about = handlers[c].about /\ handlers'[c].side = handlers[c].side
  <2>1. CASE \E kind \in SetupKinds, u \in Users : SetUpRead(c, kind, u)
    <3>1. PICK kind \in SetupKinds, u \in Users : SetUpRead(c, kind, u)
      BY <2>1
    <3>2. /\ handlers[c] = Free
          /\ handlers' = [handlers EXCEPT ![c] =
                [Free EXCEPT !.at = "save", !.kind = kind, !.about = u, !.read = profile[u]]]
      BY <3>1 DEF SetUpRead
    <3> QED
      BY <1>1, <3>2 DEF Free
  <2>2. CASE SetUpSave(c)
    BY <1>1, <2>2 DEF SetUpSave, Free
  <2>3. CASE \E d \in Deliveries, side \in Sides : RateRead(c, d, side)
    <3>1. PICK d \in Deliveries, side \in Sides : RateRead(c, d, side)
      BY <2>3
    <3>2. /\ handlers[c] = Free
          /\ handlers' = [handlers EXCEPT ![c] = [Free EXCEPT !.at = "match", !.kind = "rate",
                              !.about = d, !.side = side, !.seen = rating[d]]]
      BY <3>1 DEF RateRead
    <3> QED
      BY <1>1, <3>2 DEF Free
  <2>4. CASE RateReview(c)
    <3>1. handlers[c] \in RateCall
      BY <2>4, CallFields DEF AccountInv, RateReview
    <3> QED
      BY <1>1, <2>4, <3>1 DEF RateReview, RateCall
  <2> QED
    BY <2>1, <2>2, <2>3, <2>4
<1>4. \A u \in Users : Uncounted(u)' = Uncounted(u)
  BY <1>3 DEF Uncounted, RatingsAt
<1>5. \A u \in Users : \A x \in Counting(u)' : x \in Counting(u) /\ handlers'[x] = handlers[x]
  BY <1>3 DEF Counting, RatingsAt
<1>6. due' = due /\ raced' = raced /\ cutOff' = cutOff
  BY DEF SetUpRead, SetUpSave, RateRead, RateReview
<1> QED
  BY <1>2, <1>4, <1>5, <1>6, CountsUntouched

LEMMA RateSaveCounts ==
  ASSUME AccountInv, NEW c \in AccountCalls, RateSave(c)
  PROVE  CountsFit' /\ RatingsCounted'
<1> DEFINE u == RatedUser(handlers[c].about, handlers[c].side)
<1>1. handlers[c] \in RateCall /\ handlers[c].at = "match"
  BY CallFields DEF AccountInv, RateSave
<1>2. /\ u \in Users /\ due \in [Users -> Nat] /\ profile \in [Users -> Profile]
      /\ handlers \in [AccountCalls -> {Free} \union SetUpCall \union RateCall]
  BY <1>1, RatedIsUser DEF AccountInv, AccountTypeOK
<1>3. /\ handlers' = [handlers EXCEPT ![c].at = "review"] /\ due' = [due EXCEPT ![u] = @ + 1]
      /\ profile' = profile /\ raced' = raced /\ cutOff' = cutOff
  BY DEF RateSave
<1>4. /\ \A x \in AccountCalls \ {c} : handlers'[x] = handlers[x]
      /\ handlers'[c].at = "review"
      /\ handlers'[c].about = handlers[c].about /\ handlers'[c].side = handlers[c].side
  BY <1>1, <1>2, <1>3 DEF RateCall
<1>5. CountsFit'
  <2>1. \A v \in Users : /\ Counting(v)' = Counting(v)
                         /\ \A x \in Counting(v) : handlers'[x] = handlers[x]
    BY <1>1, <1>4 DEF Counting, RatingsAt
  <2> QED
    BY <1>3, <2>1 DEF AccountInv, CountsFit
<1>6. ASSUME NEW v \in Users \ (raced' \union cutOff')
      PROVE  profile'[v].count + Cardinality(Uncounted(v)') = due'[v]
  <2>1. profile[v].count + Cardinality(Uncounted(v)) = due[v]
    BY <1>3, <1>6 DEF AccountInv, RatingsCounted
  <2>2. CASE v = u
    <3>1. Uncounted(v)' = Uncounted(v) \union {c} /\ c \notin Uncounted(v)
      BY <1>1, <1>4, <2>2 DEF Uncounted, RatingsAt
    <3>2. Cardinality(Uncounted(v)') = Cardinality(Uncounted(v)) + 1
      BY <3>1, UncountedFinite, FS_AddElement
    <3>3. due'[v] = due[v] + 1 /\ profile[v].count \in Nat /\ Cardinality(Uncounted(v)) \in Nat
      BY <1>2, <1>3, <2>2, UncountedFinite DEF Profile
    <3> QED
      BY <1>3, <2>1, <3>2, <3>3
  <2>3. CASE v # u
    <3>1. Uncounted(v)' = Uncounted(v)
      BY <1>1, <1>4, <2>3 DEF Uncounted, RatingsAt
    <3> QED
      BY <1>2, <1>3, <2>1, <2>3, <3>1
  <2> QED
    BY <2>2, <2>3
<1> QED
  BY <1>5, <1>6 DEF RatingsCounted

LEMMA RateReadUserCounts ==
  ASSUME AccountInv, NEW c \in AccountCalls, RateReadUser(c)
  PROVE  CountsFit' /\ RatingsCounted'
<1> DEFINE u == RatedUser(handlers[c].about, handlers[c].side)
<1>1. handlers[c] \in RateCall /\ handlers[c].at = "user"
  BY CallFields DEF AccountInv, RateReadUser
<1>2. handlers \in [AccountCalls -> {Free} \union SetUpCall \union RateCall]
  BY DEF AccountInv, AccountTypeOK
<1>3. /\ handlers' = [handlers EXCEPT ![c].at = "count", ![c].read = profile[u]]
      /\ raced' = IF Counting(u) = {} THEN raced ELSE raced \union {u}
      /\ profile' = profile /\ due' = due /\ cutOff' = cutOff
  BY DEF RateReadUser
<1>4. /\ \A x \in AccountCalls \ {c} : handlers'[x] = handlers[x]
      /\ handlers'[c].at = "count" /\ handlers'[c].read = profile[u]
      /\ handlers'[c].about = handlers[c].about /\ handlers'[c].side = handlers[c].side
  BY <1>1, <1>2, <1>3 DEF RateCall
<1>5. ASSUME NEW v \in Users \ raced', NEW x \in Counting(v)'
      PROVE  handlers'[x].read.count = profile'[v].count /\ Counting(v)' = {x}
  <2>1. v \notin raced
    BY <1>3, <1>5
  <2>2. CASE v = u
    <3>1. Counting(v) = {}
      BY <1>3, <1>5, <2>2
    <3>2. Counting(v)' = {c}
      BY <1>1, <1>4, <2>2, <3>1 DEF Counting, RatingsAt
    <3> QED
      BY <1>3, <1>4, <1>5, <2>2, <3>2
  <2>3. CASE v # u
    <3>1. Counting(v)' = Counting(v) /\ handlers'[x] = handlers[x]
      BY <1>1, <1>4, <1>5, <2>3 DEF Counting, RatingsAt
    <3>2. handlers[x].read.count = profile[v].count /\ Counting(v) = {x}
      BY <1>5, <2>1, <3>1 DEF AccountInv, CountsFit
    <3> QED
      BY <1>3, <3>1, <3>2
  <2> QED
    BY <2>2, <2>3
<1>6. \A v \in Users : Uncounted(v)' = Uncounted(v)
  BY <1>1, <1>4 DEF Uncounted, RatingsAt
<1>7. RatingsCounted'
  BY <1>3, <1>6 DEF AccountInv, RatingsCounted
<1> QED
  BY <1>5, <1>7 DEF CountsFit

LEMMA RateCountCounts ==
  ASSUME AccountInv, NEW c \in AccountCalls, RateCount(c)
  PROVE  CountsFit' /\ RatingsCounted'
<1> DEFINE u == RatedUser(handlers[c].about, handlers[c].side)
           p == Saved(profile[u], handlers[c].read, [handlers[c].read EXCEPT !.count = @ + 1])
<1>1. handlers[c] \in RateCall /\ handlers[c].at = "count"
  BY CallFields DEF AccountInv, RateCount
<1>2. /\ u \in Users /\ profile \in [Users -> Profile]
      /\ handlers \in [AccountCalls -> {Free} \union SetUpCall \union RateCall]
  BY <1>1, RatedIsUser DEF AccountInv, AccountTypeOK
<1>3. /\ handlers' = [handlers EXCEPT ![c] = Free] /\ profile' = [profile EXCEPT ![u] = p]
      /\ due' = due /\ raced' = raced /\ cutOff' = cutOff
  BY DEF RateCount
<1>4. /\ \A x \in AccountCalls \ {c} : handlers'[x] = handlers[x]
      /\ handlers'[c].at = "idle"
  BY <1>2, <1>3 DEF Free
<1>5. c \in Counting(u) /\ c \in Uncounted(u)
  BY <1>1 DEF Counting, Uncounted, RatingsAt
<1>6. p.count = handlers[c].read.count + 1
  BY <1>1, <1>2, CountSaved DEF RateCall
<1>7. ASSUME NEW v \in Users \ raced', NEW x \in Counting(v)'
      PROVE  handlers'[x].read.count = profile'[v].count /\ Counting(v)' = {x}
  <2>1. x # c /\ x \in Counting(v) /\ v \notin raced
    BY <1>3, <1>4, <1>7 DEF Counting, RatingsAt
  <2>2. Counting(v) = {x} /\ handlers[x].read.count = profile[v].count
    BY <2>1 DEF AccountInv, CountsFit
  <2>3. v # u
    BY <1>5, <2>1, <2>2
  <2>4. Counting(v)' = Counting(v) /\ handlers'[x] = handlers[x]
    BY <1>1, <1>4, <2>1, <2>3 DEF Counting, RatingsAt
  <2> HIDE DEF u, p
  <2>5. profile'[v] = profile[v]
    BY <1>2, <1>3, <2>3
  <2> QED
    BY <2>2, <2>4, <2>5
<1>8. ASSUME NEW v \in Users \ (raced' \union cutOff')
      PROVE  profile'[v].count + Cardinality(Uncounted(v)') = due'[v]
  <2>1. profile[v].count + Cardinality(Uncounted(v)) = due[v] /\ v \notin raced
    BY <1>3, <1>8 DEF AccountInv, RatingsCounted
  <2>2. CASE v = u
    <3>1. Uncounted(v)' = Uncounted(v) \ {c}
      BY <1>1, <1>4, <2>2 DEF Uncounted, RatingsAt
    <3>2. Cardinality(Uncounted(v)') = Cardinality(Uncounted(v)) - 1
      <4>1. c \in Uncounted(v) /\ IsFiniteSet(Uncounted(v))
        BY <1>5, <2>2, UncountedFinite
      <4> HIDE DEF u, p
      <4> QED
        BY <3>1, <4>1, FS_RemoveElement
    <3>3. handlers[c].read.count = profile[v].count
      BY <1>2, <1>5, <2>1, <2>2 DEF AccountInv, CountsFit
    <3>4. profile[v].count \in Nat /\ Cardinality(Uncounted(v)) \in Nat
      BY <1>2, <2>2, UncountedFinite DEF Profile
    <3> HIDE DEF u, p
    <3>5. profile'[v] = p
      BY <1>2, <1>3, <2>2
    <3> QED
      BY <1>3, <1>6, <2>1, <3>2, <3>3, <3>4, <3>5
  <2>3. CASE v # u
    <3>1. Uncounted(v)' = Uncounted(v)
      BY <1>1, <1>4, <2>3 DEF Uncounted, RatingsAt
    <3> HIDE DEF u, p
    <3> QED
      BY <1>2, <1>3, <2>1, <2>3, <3>1
  <2> QED
    BY <2>2, <2>3
<1> HIDE DEF u, p
<1> QED
  BY <1>7, <1>8 DEF CountsFit, RatingsCounted

LEMMA HandlerFailsCounts ==
  ASSUME AccountInv, NEW c \in AccountCalls, HandlerFails(c)
  PROVE  CountsFit' /\ RatingsCounted'
<1> DEFINE u == RatedUser(handlers[c].about, handlers[c].side)
           counted == handlers[c].at \in {"review", "user", "count"}
<1>1. handlers \in [AccountCalls -> {Free} \union SetUpCall \union RateCall]
  BY DEF AccountInv, AccountTypeOK
<1>2. /\ handlers' = [handlers EXCEPT ![c] = Free]
      /\ cutOff' = IF counted THEN cutOff \union {u} ELSE cutOff
      /\ profile' = profile /\ due' = due /\ raced' = raced
  BY DEF HandlerFails
<1>3. /\ \A x \in AccountCalls \ {c} : handlers'[x] = handlers[x]
      /\ handlers'[c].at = "idle"
  BY <1>1, <1>2 DEF Free
<1>4. ASSUME NEW v \in Users \ raced', NEW x \in Counting(v)'
      PROVE  handlers'[x].read.count = profile'[v].count /\ Counting(v)' = {x}
  <2>1. x # c /\ x \in Counting(v) /\ v \notin raced /\ handlers'[x] = handlers[x]
    BY <1>2, <1>3, <1>4 DEF Counting, RatingsAt
  <2>2. Counting(v) = {x} /\ handlers[x].read.count = profile[v].count
    BY <2>1 DEF AccountInv, CountsFit
  <2>3. Counting(v)' = {x}
    BY <1>3, <1>4, <2>2 DEF Counting, RatingsAt
  <2> QED
    BY <1>2, <2>1, <2>2, <2>3
<1>5. ASSUME NEW v \in Users \ (raced' \union cutOff')
      PROVE  profile'[v].count + Cardinality(Uncounted(v)') = due'[v]
  <2>1. profile[v].count + Cardinality(Uncounted(v)) = due[v]
    BY <1>2, <1>5 DEF AccountInv, RatingsCounted
  <2>2. c \notin Uncounted(v)
    BY <1>2, <1>5 DEF Uncounted, RatingsAt
  <2>3. Uncounted(v)' = Uncounted(v)
    BY <1>3, <2>2 DEF Uncounted, RatingsAt
  <2> QED
    BY <1>2, <2>1, <2>3
<1> QED
  BY <1>4, <1>5 DEF CountsFit, RatingsCounted

LEMMA UserCounts ==
  ASSUME AccountInv, NEW u \in Users, VerifyId(u) \/ Penalize(u)
  PROVE  CountsFit' /\ RatingsCounted'
<1>1. /\ profile \in [Users -> Profile] /\ due \in [Users -> Nat]
      /\ handlers' = handlers /\ cutOff' = cutOff
  BY DEF AccountInv, AccountTypeOK, VerifyId, Penalize
<1>2. \A v \in Users : Counting(v)' = Counting(v) /\ Uncounted(v)' = Uncounted(v)
  BY <1>1 DEF Counting, Uncounted, RatingsAt
<1>3. CASE VerifyId(u)
  <2>1. \A v \in Users : profile'[v].count = profile[v].count
    BY <1>1, <1>3 DEF VerifyId, Profile
  <2>2. due' = due /\ raced' = raced
    BY <1>3 DEF VerifyId
  <2> QED
    BY <1>1, <1>2, <2>1, <2>2, CountsUntouched
<1>4. CASE Penalize(u)
  <2>1. /\ profile'[u].count = profile[u].count + 1 /\ profile[u].count \in Nat
        /\ \A v \in Users \ {u} : profile'[v] = profile[v]
    BY <1>1, <1>4 DEF Penalize, Profile
  <2>2. /\ due' = [due EXCEPT ![u] = @ + 1]
        /\ raced' = IF Counting(u) = {} THEN raced ELSE raced \union {u}
    BY <1>4 DEF Penalize
  <2>3. ASSUME NEW v \in Users \ raced', NEW x \in Counting(v)'
        PROVE  handlers'[x].read.count = profile'[v].count /\ Counting(v)' = {x}
    <3>1. v # u /\ v \notin raced
      BY <1>2, <2>2, <2>3
    <3> QED
      BY <1>1, <1>2, <2>1, <2>3, <3>1 DEF AccountInv, CountsFit
  <2>4. ASSUME NEW v \in Users \ (raced' \union cutOff')
        PROVE  profile'[v].count + Cardinality(Uncounted(v)') = due'[v]
    <3>1. profile[v].count + Cardinality(Uncounted(v)) = due[v] /\ Cardinality(Uncounted(v)) \in Nat
      BY <1>1, <2>2, <2>4, UncountedFinite DEF AccountInv, RatingsCounted
    <3> QED
      BY <1>1, <1>2, <2>1, <2>2, <3>1
  <2> QED
    BY <2>3, <2>4 DEF CountsFit, RatingsCounted
<1> QED
  BY <1>3, <1>4

-----------------------------------------------------------------------------

LEMMA AccountStepInv ==
  ASSUME AccountInv, [AccountNext]_accountVars
  PROVE  AccountInv'
<1>1. AccountTypeOK' /\ ReadsFit' /\ SetupKept' /\ RatingsKept'
  BY AccountTypes, ReadsFitKept, SetupKeeps, RatingsKeep
<1>2. CountsFit' /\ RatingsCounted'
  <2>1. CASE UNCHANGED accountVars
    <3>1. /\ profile' = profile /\ handlers' = handlers
          /\ due' = due /\ raced' = raced /\ cutOff' = cutOff
      BY <2>1 DEF accountVars
    <3>2. \A u \in Users : Counting(u)' = Counting(u) /\ Uncounted(u)' = Uncounted(u)
      BY <3>1 DEF Counting, Uncounted, RatingsAt
    <3> QED
      BY <3>1, <3>2, CountsUntouched
  <2> QED
    BY <2>1, SetUpCounts, RateSaveCounts, RateReadUserCounts, RateCountCounts,
       HandlerFailsCounts, UserCounts DEF AccountNext
<1> QED
  BY <1>1, <1>2 DEF AccountInv

\* However set-up steps, ratings and penalties of any users overlap, and wherever their
\* handlers end: what one was thanked for no other undoes, no trust level claims more
\* than was verified, and a count is lost only to a count computed from the same read
\* or to a handler that ended (user.service.ts 46-205, match.service.ts 417-482).
THEOREM AnswersKept == AccountSpec => []AnsweredKept
<1>1. AccountInit => AccountInv
  BY AccountInitInv
<1>2. AccountInv /\ [AccountNext]_accountVars => AccountInv'
  BY AccountStepInv
<1>3. AccountInv => AnsweredKept
  BY DEF AccountInv, AnsweredKept
<1> QED
  BY <1>1, <1>2, <1>3, PTL DEF AccountSpec
=============================================================================
