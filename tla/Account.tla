------------------------------ MODULE Account ------------------------------
(***************************************************************************)
(* What a user document says of its owner: identity, payout method,         *)
(* preferences, trust level and rating.  The handlers of the carrier's      *)
(* set-up and of ratings read the document, await, and save it; Mongoose    *)
(* sends the paths whose value they have changed and no others.  A rating   *)
(* is first saved in its Match, which both sides may rate at once.          *)
(***************************************************************************)
EXTENDS Naturals, FiniteSets

CONSTANTS Users,
          Deliveries,          \* delivered matches
          CarrierOf, SenderOf,
          AccountCalls,        \* what may run at once: one handler each
          MaxRequests,         \* bound: requests, and penalties of the SLA audit
          MaxAccountFaults     \* bound: handlers that end early

ASSUME AccountAssumption ==
    /\ CarrierOf \in [Deliveries -> Users] /\ SenderOf \in [Deliveries -> Users]
    /\ IsFiniteSet(AccountCalls)
    /\ MaxRequests \in Nat /\ MaxAccountFaults \in Nat

Sides == {"sender", "carrier"}

\* The user a side of a delivery rates.
RatedUser(d, side) == IF side = "sender" THEN CarrierOf[d] ELSE SenderOf[d]

VARIABLES
    profile,   \* User: verified, payout, preferences, carrier (its role), kycTier, rating.count
    rating,    \* Match.rating of a delivery: which side has rated
    handlers,  \* the calls
    requests, accountFaults,
    setUp,     \* history: set-up steps that were answered with success
    thanked,   \* history: ratings that were answered with success
    due,       \* history: ratings in matches, and penalties, a user has got
    raced,     \* history: users of whom a rating or penalty came between another's read and save
    cutOff       \* history: users of whom a rating ended halfway

accountVars == <<profile, rating, handlers, requests, accountFaults,
                 setUp, thanked, due, raced, cutOff>>

Plain == [verified |-> FALSE, payout |-> FALSE, preferences |-> FALSE, carrier |-> FALSE,
          kycTier |-> "tier_1_basic", count |-> 0]
Unrated == [s \in Sides |-> FALSE]

Free == [at |-> "idle", kind |-> "none", about |-> "none", read |-> Plain,
         side |-> "none", seen |-> Unrated]

AccountInit ==
    /\ profile = [u \in Users |-> Plain]
    /\ rating = [d \in Deliveries |-> Unrated]
    /\ handlers = [c \in AccountCalls |-> Free]
    /\ requests = 0 /\ accountFaults = 0
    /\ setUp = {} /\ thanked = {}
    /\ due = [u \in Users |-> 0] /\ raced = {} /\ cutOff = {}

Requested == requests < MaxRequests /\ requests' = requests + 1

\* Mutant of Saved: save() writes the document as the handler has it.
SavedWhole(stored, read, new) == new

\* save() of a document that was read before, with new values for some paths.
Saved(stored, read, new) ==
    [p \in DOMAIN stored |-> IF new[p] # read[p] THEN new[p] ELSE stored[p]]

-----------------------------------------------------------------------------
(* The set-up of a carrier *)

SetupKinds == {"verified", "payout", "preferences"}

\* verifyCarrierAadhaarDigiLocker, saveCarrierPayoutMethod, saveCarrierPreferences: the
\* document they make of the one they read.
SetUpProfile(kind, p) ==
    CASE kind = "verified" ->
            [p EXCEPT !.verified = TRUE, !.carrier = TRUE,
                      !.kycTier = IF p.payout THEN "tier_3_pro" ELSE "tier_2_verified"]
      [] kind = "payout" ->
            [p EXCEPT !.payout = TRUE,
                      !.kycTier = IF p.verified THEN "tier_3_pro" ELSE @]
      [] kind = "preferences" -> [p EXCEPT !.preferences = TRUE, !.carrier = TRUE]

SetUpRead(c, kind, u) ==
    /\ handlers[c] = Free
    /\ Requested
    /\ handlers' = [handlers EXCEPT ![c] = [Free EXCEPT !.at = "save", !.kind = kind,
                                                        !.about = u, !.read = profile[u]]]
    /\ UNCHANGED <<profile, rating, accountFaults, setUp, thanked, due, raced, cutOff>>

SetUpSave(c) ==
    LET u == handlers[c].about
        kind == handlers[c].kind
    IN  /\ handlers[c].at = "save"
        /\ profile' = [profile EXCEPT ![u] =
                          Saved(@, handlers[c].read, SetUpProfile(kind, handlers[c].read))]
        /\ handlers' = [handlers EXCEPT ![c] = Free]
        /\ setUp' = setUp \union {<<u, kind>>}
        /\ UNCHANGED <<rating, requests, accountFaults, thanked, due, raced, cutOff>>

\* verifyGovernmentId: one update, whatever level the user had.
VerifyId(u) ==
    /\ Requested
    /\ profile' = [profile EXCEPT ![u].verified = TRUE, ![u].kycTier = "tier_2_verified"]
    /\ setUp' = setUp \union {<<u, "verified">>}
    /\ UNCHANGED <<rating, handlers, accountFaults, thanked, due, raced, cutOff>>

-----------------------------------------------------------------------------
(* Ratings *)

\* Calls of rateMatch that are to count a rating of a user, or have read the user for it.
RatingsAt(u, steps) == {c \in AccountCalls : /\ handlers[c].at \in steps
                                             /\ RatedUser(handlers[c].about, handlers[c].side) = u}
Uncounted(u) == RatingsAt(u, {"review", "user", "count"})
Counting(u)  == RatingsAt(u, {"count"})

\* rateMatch reads the match; a side that has rated is refused.
RateRead(c, d, side) ==
    /\ handlers[c] = Free
    /\ Requested
    /\ ~ rating[d][side]
    /\ handlers' = [handlers EXCEPT ![c] = [Free EXCEPT !.at = "match", !.kind = "rate",
                                               !.about = d, !.side = side, !.seen = rating[d]]]
    /\ UNCHANGED <<profile, rating, accountFaults, setUp, thanked, due, raced, cutOff>>

RateSave(c) ==
    LET h == handlers[c]
        u == RatedUser(h.about, h.side)
    IN  /\ h.at = "match"
        /\ rating' = [rating EXCEPT ![h.about] = Saved(@, h.seen, [h.seen EXCEPT ![h.side] = TRUE])]
        /\ due' = [due EXCEPT ![u] = @ + 1]
        /\ handlers' = [handlers EXCEPT ![c].at = "review"]
        /\ UNCHANGED <<profile, requests, accountFaults, setUp, thanked, raced, cutOff>>

\* The upsert of the Review, on which nothing else depends.
RateReview(c) ==
    /\ handlers[c].at = "review"
    /\ handlers' = [handlers EXCEPT ![c].at = "user"]
    /\ UNCHANGED <<profile, rating, requests, accountFaults, setUp, thanked, due, raced, cutOff>>

RateReadUser(c) ==
    LET u == RatedUser(handlers[c].about, handlers[c].side)
    IN  /\ handlers[c].at = "user"
        /\ handlers' = [handlers EXCEPT ![c].at = "count", ![c].read = profile[u]]
        /\ raced' = IF Counting(u) = {} THEN raced ELSE raced \union {u}
        /\ UNCHANGED <<profile, rating, requests, accountFaults, setUp, thanked, due, cutOff>>

RateCount(c) ==
    LET h == handlers[c]
        u == RatedUser(h.about, h.side)
    IN  /\ h.at = "count"
        /\ profile' = [profile EXCEPT ![u] = Saved(@, h.read, [h.read EXCEPT !.count = @ + 1])]
        /\ handlers' = [handlers EXCEPT ![c] = Free]
        /\ thanked' = thanked \union {<<h.about, h.side>>}
        /\ UNCHANGED <<rating, requests, accountFaults, setUp, due, raced, cutOff>>

\* processSlaRematchAudit counts a rating without a score against a carrier.
Penalize(u) ==
    /\ Requested
    /\ profile' = [profile EXCEPT ![u].count = @ + 1]
    /\ due' = [due EXCEPT ![u] = @ + 1]
    /\ raced' = IF Counting(u) = {} THEN raced ELSE raced \union {u}
    /\ UNCHANGED <<rating, handlers, accountFaults, setUp, thanked, cutOff>>

\* A MongoDB call that rejects, or a process that dies.
HandlerFails(c) ==
    LET h == handlers[c]
    IN  /\ h # Free
        /\ accountFaults < MaxAccountFaults /\ accountFaults' = accountFaults + 1
        /\ handlers' = [handlers EXCEPT ![c] = Free]
        /\ cutOff' = IF h.at \in {"review", "user", "count"}
                   THEN cutOff \union {RatedUser(h.about, h.side)} ELSE cutOff
        /\ UNCHANGED <<profile, rating, requests, setUp, thanked, due, raced>>

-----------------------------------------------------------------------------
AccountNext ==
    \/ \E c \in AccountCalls :
          \/ \E kind \in SetupKinds, u \in Users : SetUpRead(c, kind, u)
          \/ SetUpSave(c)
          \/ \E d \in Deliveries, side \in Sides : RateRead(c, d, side)
          \/ RateSave(c) \/ RateReview(c) \/ RateReadUser(c) \/ RateCount(c)
          \/ HandlerFails(c)
    \/ \E u \in Users : VerifyId(u) \/ Penalize(u)

AccountSpec == AccountInit /\ [][AccountNext]_accountVars

-----------------------------------------------------------------------------
Profile == [verified : BOOLEAN, payout : BOOLEAN, preferences : BOOLEAN, carrier : BOOLEAN,
            kycTier : {"tier_1_basic", "tier_2_verified", "tier_3_pro"}, count : Nat]
Rating == [Sides -> BOOLEAN]

SetUpCall == [at : {"save"}, kind : SetupKinds, about : Users, read : Profile,
              side : {"none"}, seen : {Unrated}]
RateCall == [at : {"match", "review", "user", "count"}, kind : {"rate"}, about : Deliveries,
             read : Profile, side : Sides, seen : Rating]

AccountTypeOK ==
    /\ profile \in [Users -> Profile]
    /\ rating \in [Deliveries -> Rating]
    /\ handlers \in [AccountCalls -> {Free} \union SetUpCall \union RateCall]
    /\ requests \in Nat /\ accountFaults \in Nat
    /\ setUp \subseteq Users \X SetupKinds /\ thanked \subseteq Deliveries \X Sides
    /\ due \in [Users -> Nat] /\ raced \subseteq Users /\ cutOff \subseteq Users

\* What a set-up handler has answered stays in the document, and the trust level
\* claims no more than was verified.
SetupKept ==
    /\ \A s \in setUp : profile[s[1]][s[2]]
    /\ \A u \in Users :
          /\ profile[u].kycTier # "tier_1_basic" => profile[u].verified
          /\ profile[u].kycTier = "tier_3_pro" => profile[u].payout

\* A rating that was answered stays in its match, also when both sides rate at once.
RatingsKept == \A t \in thanked : rating[t[1]][t[2]]

\* A user's count is that of the ratings and penalties they got, but for those under
\* way, as long as no two of them were computed from the same document and none was
\* cut off.
RatingsCounted == \A u \in Users \ (raced \union cutOff) :
    profile[u].count + Cardinality(Uncounted(u)) = due[u]

\* No handler undoes what another one was thanked for, however they overlap: set-up
\* steps and ratings change one document from copies read earlier, and keep each other's
\* changes; what is lost is a count, and only to another count.
AnsweredKept == SetupKept /\ RatingsKept /\ RatingsCounted
=============================================================================
