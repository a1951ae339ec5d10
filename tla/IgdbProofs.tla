------------------------------ MODULE IgdbProofs ------------------------------
(***************************************************************************)
(* Proofs about IgdbSearch, for any number of callers, any names, any      *)
(* answers and any number of tokens.                                       *)
(*                                                                         *)
(* RetryIsFresh: from the moment a caller has cleared the cached token for *)
(* its retry, whatever token is cached was granted after the refusal       *)
(* (Fresh), because tokens are granted under the mutex and numbered.       *)
(*                                                                         *)
(* The search properties: what was asked and what is left of the plan are  *)
(* together the queries that the name calls for, in order (Ordered); every  *)
(* query but the one under way was answered (Progress); and no answer but  *)
(* the last has an acceptable title (Found).                               *)
(***************************************************************************)
EXTENDS IgdbSearch, SequenceTheorems, WellFoundedInduction, TLAPS

USE ApiAssumption

\* What the search does to the state of IgdbApi.
ApiNext ==
    \/ \E c \in Callers : Request(c) \/ Return(c) \/ ApiLocked(c) \/ ApiReply(c)
    \/ Revoke \/ Expire

LEMMA SearchStep ==
    ASSUME [Next]_vars
    PROVE  ApiNext \/ UNCHANGED apiVars
<1>1. CASE Next
  BY <1>1 DEF Next, Start, Caller, Query, NoneLeft, QueryFails, QueryAnswered,
              QueryDetails, DetailsAnswered, ApiNext
<1>2. CASE UNCHANGED vars
  BY <1>2 DEF vars
<1> QED
  BY <1>1, <1>2

\* A call of apiRequest when token t is cached and n tokens were granted: what
\* it sent so far, and that a retry meets no token from before the refusal.
CallType(n) ==
    [at : {"idle", "token", "grant", "sent", "clear", "answered"},
     tok : 0 .. n, retried : BOOLEAN, ok : BOOLEAN, sends : 0 .. 2, refusedAt : 0 .. n]

CallOK(x, t, n) ==
    /\ x \in CallType(n)
    /\ x.at \in {"token", "grant"} => x.sends = (IF x.retried THEN 1 ELSE 0)
    /\ x.at \in {"clear", "sent"} => x.sends = (IF x.retried THEN 2 ELSE 1)
    /\ x.at = "clear" => ~x.retried
    /\ x.at \in {"token", "grant"} /\ x.retried => t = NoToken \/ t > x.refusedAt
    /\ x.at = "sent" /\ x.retried => x.tok = NoToken \/ x.tok > x.refusedAt

\* The state shared by the calls.
SharedOK ==
    /\ mu \in Callers \union {Free}
    /\ granted \in 0 .. MaxTokens
    /\ token \in 0 .. granted
    /\ accepted \subseteq 1 .. granted
    /\ unexpired \in BOOLEAN
    /\ DOMAIN call = Callers
    /\ call = [d \in Callers |-> call[d]]

\* The holder of the mutex is the one caller that asks for a token.
MutexHeld == \A d \in Callers : call[d].at = "grant" <=> mu = d

ApiInv == SharedOK /\ MutexHeld /\ \A d \in Callers : CallOK(call[d], token, granted)

LEMMA InvImplies == ApiInv => ApiTypeOK /\ OneTokenRequest /\ RetryIsFresh
<1> SUFFICES ASSUME ApiInv PROVE ApiTypeOK /\ OneTokenRequest /\ RetryIsFresh
  OBVIOUS
<1>1. ApiTypeOK
  <2>1. \A d \in Callers : call[d] \in CallType(granted)
    BY DEF ApiInv, CallOK
  <2> QED
    BY <2>1 DEF ApiInv, SharedOK, ApiTypeOK, CallType
<1>2. OneTokenRequest
  BY DEF ApiInv, MutexHeld, OneTokenRequest
<1>3. RetryIsFresh
  BY DEF ApiInv, CallOK, RetryIsFresh
<1> QED
  BY <1>1, <1>2, <1>3

\* The records that the actions build are of the right type.
LEMMA BuiltCalls ==
    ASSUME NEW n \in Nat, NEW x \in CallType(n), NEW t \in 0 .. n
    PROVE  /\ \A at \in {"idle", "token"} : [NoCall EXCEPT !.at = at] \in CallType(n)
           /\ x.sends \in 0 .. 1 =>
                 [x EXCEPT !.at = "sent", !.tok = t, !.sends = @ + 1] \in CallType(n)
           /\ [x EXCEPT !.at = "clear", !.refusedAt = n] \in CallType(n)
<1>1. ASSUME NEW at \in {"idle", "token"}
      PROVE  [NoCall EXCEPT !.at = at] \in CallType(n)
  <2>1. NoCall \in CallType(n)
    BY DEF CallType, NoCall, NoToken
  <2> QED
    BY <2>1 DEF CallType
<1>2. ASSUME x.sends \in 0 .. 1
      PROVE  [x EXCEPT !.at = "sent", !.tok = t, !.sends = @ + 1] \in CallType(n)
  <2>1. x.sends + 1 \in 0 .. 2
    BY <1>2
  <2> QED
    BY <2>1 DEF CallType
<1>3. [x EXCEPT !.at = "clear", !.refusedAt = n] \in CallType(n)
  <2>1. n \in 0 .. n
    OBVIOUS
  <2> QED
    BY <2>1 DEF CallType
<1> QED
  BY <1>1, <1>2, <1>3

LEMMA InvInit == Init => ApiInv
<1> SUFFICES ASSUME Init PROVE ApiInv
  OBVIOUS
<1>1. CallOK(NoCall, 0, 0)
  <2>1. NoCall \in CallType(0)
    BY DEF CallType, NoCall, NoToken
  <2> QED
    BY <2>1 DEF CallOK, NoCall
<1>2. \A d \in Callers : call[d] = NoCall
  BY DEF Init, ApiInit
<1>3. SharedOK
  <2>1. call = [d \in Callers |-> call[d]]
    BY DEF Init, ApiInit
  <2>2. token = 0 /\ granted = 0 /\ accepted = {} /\ unexpired = FALSE /\ mu = Free
    BY DEF Init, ApiInit, NoToken
  <2>3. DOMAIN call = Callers
    BY <2>1
  <2>4. granted \in 0 .. MaxTokens /\ token \in 0 .. granted
    BY <2>2, ApiAssumption
  <2> QED
    BY <2>1, <2>2, <2>3, <2>4 DEF SharedOK
<1>4. MutexHeld
  BY <1>2 DEF Init, ApiInit, MutexHeld, NoCall
<1>5. token = 0 /\ granted = 0
  BY DEF Init, ApiInit, NoToken
<1> QED
  BY <1>1, <1>2, <1>3, <1>4, <1>5 DEF ApiInv

\* A step of caller c that leaves its call at x.
LEMMA OneCall ==
    ASSUME ApiInv,
           NEW c \in Callers, NEW x, call' = [call EXCEPT ![c] = x],
           mu' \in Callers \union {Free}, granted' \in 0 .. MaxTokens,
           token' \in 0 .. granted', accepted' \subseteq 1 .. granted',
           unexpired' \in BOOLEAN,
           CallOK(x, token', granted'),
           \A d \in Callers \ {c} : CallOK(call[d], token', granted'),
           x.at = "grant" <=> mu' = c,
           \A d \in Callers \ {c} : mu' = d <=> mu = d
    PROVE  ApiInv'
<1>1. \A d \in Callers : call'[d] = IF d = c THEN x ELSE call[d]
  BY DEF ApiInv, SharedOK
<1>2. SharedOK'
  BY DEF ApiInv, SharedOK
<1>3. MutexHeld'
  BY <1>1 DEF ApiInv, MutexHeld
<1>4. \A d \in Callers : CallOK(call'[d], token', granted')
  BY <1>1
<1> QED
  BY <1>2, <1>3, <1>4 DEF ApiInv

LEMMA InvStep ==
    ASSUME ApiInv, [Next]_vars
    PROVE  ApiInv'
<1>0. /\ SharedOK /\ MutexHeld /\ MaxTokens \in Nat
      /\ \A d \in Callers : CallOK(call[d], token, granted)
  BY DEF ApiInv
<1>1. ASSUME NEW c \in Callers, NEW x, call' = [call EXCEPT ![c] = x],
             UNCHANGED <<mu, token, unexpired, accepted, granted>>,
             CallOK(x, token, granted), x.at # "grant", call[c].at # "grant"
      PROVE  ApiInv'
  BY <1>0, <1>1, OneCall DEF SharedOK, MutexHeld
<1>2. ASSUME NEW c \in Callers, Request(c) \/ Return(c)
      PROVE  ApiInv'
  <2>0. granted \in Nat /\ 0 \in 0 .. granted /\ call[c] \in CallType(granted)
    BY <1>0 DEF SharedOK, CallOK
  <2>1. /\ UNCHANGED <<mu, token, unexpired, accepted, granted>>
        /\ call[c].at # "grant"
        /\ \E at \in {"idle", "token"} : call' = [call EXCEPT ![c] = [NoCall EXCEPT !.at = at]]
    BY <1>2 DEF Request, Return, NoCall, Becomes
  <2>2. PICK at \in {"idle", "token"} : call' = [call EXCEPT ![c] = [NoCall EXCEPT !.at = at]]
    BY <2>1
  <2>3. CallOK([NoCall EXCEPT !.at = at], token, granted)
    <3>1. [NoCall EXCEPT !.at = at] \in CallType(granted)
      BY <1>0, <2>0, BuiltCalls
    <3>2. /\ [NoCall EXCEPT !.at = at].at = at
          /\ [NoCall EXCEPT !.at = at].sends = 0
          /\ [NoCall EXCEPT !.at = at].retried = FALSE
      BY DEF NoCall
    <3> QED
      BY <3>1, <3>2 DEF CallOK
  <2>4. [NoCall EXCEPT !.at = at].at # "grant"
    BY DEF NoCall
  <2> QED
    BY <1>1, <2>1, <2>2, <2>3, <2>4
<1>3. ASSUME NEW c \in Callers, CachedToken(c)
      PROVE  ApiInv'
  <2>1. /\ UNCHANGED <<mu, token, unexpired, accepted, granted>>
        /\ call[c].at = "token" /\ CallOK(call[c], token, granted)
        /\ call' = [call EXCEPT ![c] = Sent(c, token)]
    BY <1>0, <1>3 DEF CachedToken, Becomes
  <2>2. CallOK(Sent(c, token), token, granted)
    <3>1. Sent(c, token) \in CallType(granted)
      <4>1. granted \in Nat /\ token \in 0 .. granted
        BY <1>0 DEF SharedOK
      <4>2. call[c] \in CallType(granted) /\ call[c].sends \in 0 .. 1
        BY <2>1 DEF CallOK
      <4> QED
        BY <4>1, <4>2, BuiltCalls DEF Sent
    <3>2. /\ Sent(c, token).at = "sent"
          /\ Sent(c, token).tok = token
          /\ Sent(c, token).retried = call[c].retried
          /\ Sent(c, token).sends = call[c].sends + 1
          /\ Sent(c, token).refusedAt = call[c].refusedAt
      BY <2>1 DEF Sent, CallOK, CallType
    <3> QED
      BY <2>1, <3>1, <3>2 DEF CallOK
  <2>3. Sent(c, token).at # "grant"
    BY <2>1 DEF Sent, CallOK, CallType
  <2> QED
    BY <1>1, <2>1, <2>2, <2>3
<1>4. ASSUME NEW c \in Callers, AskToken(c)
      PROVE  ApiInv'
  <2> DEFINE x == [call[c] EXCEPT !.at = "grant"]
  <2>1. /\ UNCHANGED <<token, unexpired, accepted, granted>>
        /\ mu = Free /\ mu' = c
        /\ call[c].at = "token" /\ CallOK(call[c], token, granted)
        /\ call' = [call EXCEPT ![c] = x]
    BY <1>0, <1>4 DEF AskToken, Becomes
  <2>2. CallOK(x, token, granted) /\ x.at = "grant"
    BY <2>1 DEF CallOK, CallType
  <2>3. \A d \in Callers \ {c} : mu' = d <=> mu = d
    BY <2>1
  <2> HIDE DEF x
  <2> QED
    BY <1>0, <2>1, <2>2, <2>3, OneCall DEF SharedOK
<1>5. ASSUME NEW c \in Callers, ClearToken(c)
      PROVE  ApiInv'
  <2> DEFINE x == [call[c] EXCEPT !.at = "token", !.retried = TRUE]
  <2>1. /\ UNCHANGED <<mu, unexpired, accepted, granted>>
        /\ token' = 0
        /\ call[c].at = "clear" /\ CallOK(call[c], token, granted)
        /\ call' = [call EXCEPT ![c] = x]
    BY <1>0, <1>5 DEF ClearToken, Becomes, NoToken
  <2>2. CallOK(x, 0, granted) /\ x.at = "token"
    BY <2>1 DEF CallOK, CallType, NoToken
  <2>3. \A d \in Callers : CallOK(call[d], 0, granted)
    BY <1>0 DEF CallOK, NoToken
  <2>4. mu # c
    BY <1>0, <2>1 DEF MutexHeld
  <2> HIDE DEF x
  <2> QED
    BY <1>0, <2>1, <2>2, <2>3, <2>4, OneCall DEF SharedOK
<1>6. ASSUME NEW c \in Callers, Granted(c)
      PROVE  ApiInv'
  <2>1. /\ call[c].at = "grant" /\ CallOK(call[c], token, granted)
        /\ mu = c /\ mu' = Free /\ unexpired' \in BOOLEAN
        /\ call' = [call EXCEPT ![c] = Sent(c, token')]
    BY <1>0, <1>6 DEF Granted, MutexHeld, Becomes
  <2>2. /\ granted \in Nat /\ granted' \in 0 .. MaxTokens /\ granted <= granted'
        /\ token' = 0 \/ (token' = granted' /\ granted' = granted + 1)
        /\ token' \in 0 .. granted'
        /\ accepted' \subseteq 1 .. granted'
    BY <1>0, <1>6 DEF Granted, SharedOK, NoToken
  <2>3. ASSUME NEW d \in Callers
        PROVE  CallOK(call[d], token', granted')
    <3>1. CallOK(call[d], token, granted)
      BY <1>0
    <3>2. call[d] \in CallType(granted') /\ call[d].refusedAt <= granted
      BY <2>2, <3>1 DEF CallOK, CallType
    <3>3. token' = NoToken \/ token' > call[d].refusedAt
      BY <2>2, <3>1, <3>2 DEF CallOK, CallType, NoToken
    <3> QED
      BY <3>1, <3>2, <3>3 DEF CallOK
  <2>4. CallOK(Sent(c, token'), token', granted') /\ Sent(c, token').at # "grant"
    <3>1. CallOK(call[c], token', granted')
      BY <2>3
    <3>2. Sent(c, token') \in CallType(granted')
      <4>1. granted' \in Nat /\ token' \in 0 .. granted'
        BY <2>2
      <4>2. call[c] \in CallType(granted') /\ call[c].sends \in 0 .. 1
        BY <2>1, <3>1 DEF CallOK
      <4> QED
        BY <4>1, <4>2, BuiltCalls DEF Sent
    <3>3. /\ Sent(c, token').at = "sent"
          /\ Sent(c, token').tok = token'
          /\ Sent(c, token').retried = call[c].retried
          /\ Sent(c, token').sends = call[c].sends + 1
          /\ Sent(c, token').refusedAt = call[c].refusedAt
      BY <3>1 DEF Sent, CallOK, CallType
    <3> QED
      BY <2>1, <3>1, <3>2, <3>3 DEF CallOK
  <2>5. mu' # c /\ \A d \in Callers \ {c} : mu' = d <=> mu = d
    BY <2>1, ApiAssumption
  <2> QED
    BY <2>1, <2>2, <2>3, <2>4, <2>5, OneCall
<1>7. ASSUME NEW c \in Callers, GrantFails(c)
      PROVE  ApiInv'
  <2>1. /\ UNCHANGED <<token, unexpired, accepted, granted>>
        /\ call[c].at = "grant" /\ CallOK(call[c], token, granted)
        /\ mu = c /\ mu' = Free
        /\ call' = [call EXCEPT ![c] = Answered(c, FALSE)]
    BY <1>0, <1>7 DEF GrantFails, MutexHeld, Becomes
  <2>2. CallOK(Answered(c, FALSE), token, granted) /\ Answered(c, FALSE).at # "grant"
    BY <2>1 DEF Answered, CallOK, CallType
  <2>3. mu' # c /\ \A d \in Callers \ {c} : mu' = d <=> mu = d
    BY <2>1, ApiAssumption
  <2> QED
    BY <1>0, <2>1, <2>2, <2>3, OneCall DEF SharedOK
<1>8. ASSUME NEW c \in Callers, Succeeds(c) \/ Fails(c) \/ Refused(c)
      PROVE  ApiInv'
  <2> DEFINE y == [call[c] EXCEPT !.at = "clear", !.refusedAt = granted]
  <2>1. /\ UNCHANGED <<mu, token, unexpired, accepted, granted>>
        /\ call[c].at = "sent" /\ CallOK(call[c], token, granted)
        /\ \/ \E b \in BOOLEAN : call' = [call EXCEPT ![c] = Answered(c, b)]
           \/ ~call[c].retried /\ call' = [call EXCEPT ![c] = y]
    BY <1>0, <1>8 DEF Succeeds, Fails, Refused, Becomes
  <2>2. \A b \in BOOLEAN :
           CallOK(Answered(c, b), token, granted) /\ Answered(c, b).at # "grant"
    BY <2>1 DEF Answered, CallOK, CallType
  <2>3. ~call[c].retried => CallOK(y, token, granted) /\ y.at # "grant"
    <3>1. y \in CallType(granted)
      <4>1. granted \in Nat /\ 0 \in 0 .. granted /\ call[c] \in CallType(granted)
        BY <1>0 DEF SharedOK, CallOK
      <4> QED
        BY <4>1, BuiltCalls
    <3>2. y.at = "clear" /\ y.sends = call[c].sends /\ y.retried = call[c].retried
      BY <2>1 DEF CallOK, CallType
    <3> HIDE DEF y
    <3> QED
      BY <2>1, <3>1, <3>2 DEF CallOK
  <2> HIDE DEF y
  <2> QED
    BY <1>1, <2>1, <2>2, <2>3
<1>9. CASE Revoke \/ Expire
  BY <1>0, <1>9 DEF ApiInv, Revoke, Expire, SharedOK, MutexHeld
<1>10. CASE UNCHANGED apiVars
  BY <1>0, <1>10 DEF ApiInv, apiVars, SharedOK, MutexHeld
<1> QED
  BY <1>2, <1>3, <1>4, <1>5, <1>6, <1>7, <1>8, <1>9, <1>10, SearchStep
     DEF ApiNext, ApiLocked, ApiReply

LEMMA InvHolds == Spec => []ApiInv
<1> QED
  BY InvInit, InvStep, PTL DEF Spec

\* The retry of Fetcher.apiRequest after a 401 is sent with a token granted
\* after the refusal, whatever other requests do with the cached one.
THEOREM RetriesAreFresh == Spec => []RetryIsFresh
<1> QED
  BY InvImplies, InvHolds, PTL

\* At most one request for a token is under way (Fetcher.mu), and no call of
\* apiRequest sends more than two requests to IGDB (ApiTypeOK).
THEOREM TokensAreShared == Spec => [](ApiTypeOK /\ OneTokenRequest)
<1> QED
  BY InvImplies, InvHolds, PTL

-----------------------------------------------------------------------------
(* The search of each caller *)

\* The queries that a name may be searched with.
Variants == UNION {Range(NameVariants(CleanName(raw))) : raw \in RawNames}
Queries  == [name : Variants, constrained : BOOLEAN]

\* Constrained queries first, and none twice.
Ordered(qs) ==
    \A i, j \in 1 .. Len(qs) :
        i < j => qs[i] # qs[j] /\ (qs[j].constrained => qs[i].constrained)

\* A title at m that no other title of the answer beats, or none to accept.
Best(answer, constrained, m) ==
    /\ Rank(answer[m], constrained) > 0
    /\ \A j \in DOMAIN answer :
          /\ Rank(answer[j], constrained) <= Rank(answer[m], constrained)
          /\ j < m => Rank(answer[j], constrained) < Rank(answer[m], constrained)
Unfit(answer, constrained) == \A j \in DOMAIN answer : Rank(answer[j], constrained) = 0

Searches ==
    [at : {"idle", "search", "details"}, plan : Seq(Queries), wanted : SUBSET Queries,
     asked : Seq(Queries), answers : Seq(Answers), match : Nat,
     verdict : {"none", "noMatch", "error", "details", "gone"}]

\* Every query made so far was answered, but the one under way.
Progress(s, x) ==
    /\ Len(s.answers) <= Len(s.asked)
    /\ s.at = "idle" => x.at = "idle"
    /\ s.at = "search" =>
          /\ s.match = 0 /\ s.verdict = "none"
          /\ Len(s.asked) = Len(s.answers) + (IF x.at = "idle" THEN 0 ELSE 1)
    /\ s.at = "details" => s.match > 0 /\ s.verdict = "none"
    /\ s.verdict = "noMatch" => s.match = 0 /\ s.plan = <<>> /\ Len(s.asked) = Len(s.answers)

\* Only the last answer can have a match, and it is the best that answer lists.
Found(s) ==
    LET n == Len(s.answers)
    IN  /\ s.match > 0 => n > 0 /\ Best(s.answers[n], s.asked[n].constrained, s.match)
        /\ \A i \in 1 .. n : i < n \/ s.match = 0 => Unfit(s.answers[i], s.asked[i].constrained)

SearchOK(s, x) ==
    /\ s \in Searches
    /\ Ordered(s.asked \o s.plan) /\ Range(s.asked \o s.plan) = s.wanted
    /\ Progress(s, x) /\ Found(s)

SearchInv == DOMAIN search = Callers /\ \A c \in Callers : SearchOK(search[c], call[c])

-----------------------------------------------------------------------------
(* What the operators of the search return *)

LEMMA Smallest ==
    ASSUME NEW S \in SUBSET Nat, S # {}
    PROVE  Min(S) \in S /\ \A y \in S : Min(S) <= y
<1>1. PICK x \in S : \A y \in S : ~(<<y, x>> \in OpToRel(<, Nat))
  BY NatLessThanWellFounded, WFMin
<1>2. \A y \in S : x <= y
  <2> SUFFICES ASSUME NEW y \in S, y < x PROVE FALSE
    OBVIOUS
  <2>1. <<y, x>> \in Nat \X Nat /\ y < x
    OBVIOUS
  <2>2. <<y, x>> \in OpToRel(<, Nat)
    BY <2>1 DEF OpToRel
  <2> QED
    BY <1>1, <2>2
<1> QED
  BY <1>2 DEF Min

\* First of Match: where a title is listed first, or 0.
FirstAt(answer, grade) ==
    LET I == {i \in 1 .. Len(answer) : answer[i] = grade}
    IN  IF I # {} THEN Min(I) ELSE 0

LEMMA FirstIsFirst ==
    ASSUME NEW S, NEW answer \in Seq(S), NEW grade
    PROVE  /\ FirstAt(answer, grade) \in 0 .. Len(answer)
           /\ FirstAt(answer, grade) > 0 => answer[FirstAt(answer, grade)] = grade
           /\ \A j \in 1 .. Len(answer) :
                 j < FirstAt(answer, grade) \/ FirstAt(answer, grade) = 0 => answer[j] # grade
<1> DEFINE I == {i \in 1 .. Len(answer) : answer[i] = grade}
           m == FirstAt(answer, grade)
<1>1. Len(answer) \in Nat /\ I \in SUBSET Nat
  OBVIOUS
<1>2. m = IF I # {} THEN Min(I) ELSE 0
  BY DEF FirstAt
<1>3. \A i \in 1 .. Len(answer) : i \in I <=> answer[i] = grade
  OBVIOUS
<1>4. I \subseteq 1 .. Len(answer)
  OBVIOUS
<1> HIDE DEF I, m
<1>5. CASE I = {}
  BY <1>1, <1>2, <1>3, <1>5 DEF m
<1>6. CASE I # {}
  <2>1. m \in I /\ \A y \in I : m <= y
    BY <1>1, <1>2, <1>6, Smallest
  <2>2. m \in 1 .. Len(answer) /\ answer[m] = grade
    BY <1>3, <1>4, <2>1
  <2>3. \A j \in 1 .. Len(answer) : j < m => answer[j] # grade
    BY <1>1, <1>3, <2>1, <2>2
  <2> QED
    BY <1>1, <2>2, <2>3 DEF m
<1> QED
  BY <1>5, <1>6

\* Match accepts the best title of an answer, if one is acceptable at all.
LEMMA MatchIsBest ==
    ASSUME NEW answer \in Answers, NEW constrained \in BOOLEAN
    PROVE  /\ Match(answer, constrained) \in Nat
           /\ Match(answer, constrained) = 0 => Unfit(answer, constrained)
           /\ Match(answer, constrained) > 0 => Best(answer, constrained, Match(answer, constrained))
<1> DEFINE e == FirstAt(answer, "exact")
           f == FirstAt(answer, "folded")
           n == Len(answer)
           m == Match(answer, constrained)
           R(j) == Rank(answer[j], constrained)
<1>0. /\ answer \in Seq({"exact", "folded", "other"})
      /\ n \in Nat /\ DOMAIN answer = 1 .. n
      /\ \A j \in 1 .. n : answer[j] \in {"exact", "folded", "other"}
      /\ answer # <<>> <=> n # 0
  BY SearchAssumption
<1>1. /\ e \in 0 .. n /\ (e > 0 => answer[e] = "exact")
      /\ \A j \in 1 .. n : j < e \/ e = 0 => answer[j] # "exact"
  BY <1>0, FirstIsFirst
<1>2. /\ f \in 0 .. n /\ (f > 0 => answer[f] = "folded")
      /\ \A j \in 1 .. n : j < f \/ f = 0 => answer[j] # "folded"
  BY <1>0, FirstIsFirst
<1>3. m = CASE e > 0 -> e
            [] e = 0 /\ f > 0 -> f
            [] OTHER -> IF constrained /\ answer # <<>> THEN 1 ELSE 0
  BY DEF Match, SelectInSeq, FirstAt
<1>4. \A j \in 1 .. n :
         /\ R(j) \in 0 .. 3
         /\ answer[j] = "exact" => R(j) = 3
         /\ answer[j] = "folded" => R(j) = 2
         /\ answer[j] = "other" => R(j) = IF constrained THEN 1 ELSE 0
  BY <1>0 DEF Rank
<1>5. m > 0 /\ m \in 1 .. n =>
         (Best(answer, constrained, m) <=>
            R(m) > 0 /\ \A j \in 1 .. n : R(j) <= R(m) /\ (j < m => R(j) < R(m)))
  BY <1>0 DEF Best
<1>6. Unfit(answer, constrained) <=> \A j \in 1 .. n : R(j) = 0
  BY <1>0 DEF Unfit
<1> HIDE DEF e, f, n, m, R
<1>7. CASE e > 0
  <2>1. m = e /\ e \in 1 .. n /\ R(e) = 3
    BY <1>0, <1>1, <1>3, <1>4, <1>7
  <2>2. \A j \in 1 .. n : j < e => R(j) < 3
    BY <1>0, <1>1, <1>4
  <2>3. Best(answer, constrained, m)
    BY <1>0, <1>4, <1>5, <2>1, <2>2
  <2> QED
    BY <1>0, <2>1, <2>3 DEF m
<1>8. CASE e = 0 /\ f > 0
  <2>1. m = f /\ f \in 1 .. n /\ R(f) = 2
    BY <1>0, <1>2, <1>3, <1>4, <1>8
  <2>2. \A j \in 1 .. n : R(j) <= 2 /\ (j < f => R(j) < 2)
    BY <1>0, <1>1, <1>2, <1>4, <1>8
  <2>3. Best(answer, constrained, m)
    BY <1>0, <1>4, <1>5, <2>1, <2>2
  <2> QED
    BY <1>0, <2>1, <2>3 DEF m
<1>9. CASE e = 0 /\ f = 0
  <2>1. \A j \in 1 .. n : answer[j] = "other" /\ R(j) = IF constrained THEN 1 ELSE 0
    BY <1>0, <1>1, <1>2, <1>4, <1>9
  <2>2. m = IF constrained /\ n # 0 THEN 1 ELSE 0
    BY <1>0, <1>3, <1>9
  <2>3. CASE constrained /\ n # 0
    <3>1. m = 1 /\ m \in 1 .. n /\ \A j \in 1 .. n : R(j) = 1
      BY <1>0, <2>1, <2>2, <2>3
    <3>2. Best(answer, constrained, m)
      BY <1>0, <1>5, <3>1
    <3> QED
      BY <3>1, <3>2 DEF m
  <2>4. CASE ~(constrained /\ n # 0)
    <3>1. m = 0 /\ \A j \in 1 .. n : R(j) = 0
      BY <1>0, <2>1, <2>2, <2>4
    <3> QED
      BY <1>6, <3>1 DEF m
  <2> QED
    BY <2>3, <2>4
<1> QED
  BY <1>0, <1>1, <1>2, <1>7, <1>8, <1>9

\* NameVariants lists no name twice.
Distinct(s) == \A i, j \in 1 .. Len(s) : i < j => s[i] # s[j]

LEMMA VariantAdded ==
    ASSUME NEW S, NEW variants \in Seq(S), Distinct(variants), NEW name \in S
    PROVE  AddVariant(variants, name) \in Seq(S) /\ Distinct(AddVariant(variants, name))
<1> DEFINE t == Append(variants, name)
           n == Len(variants)
<1>1. CASE name = <<>> \/ Contains(variants, name)
  BY <1>1 DEF AddVariant
<1>2. CASE ~(name = <<>> \/ Contains(variants, name))
  <2>1. AddVariant(variants, name) = t
    BY <1>2 DEF AddVariant
  <2>2. t \in Seq(S) /\ Len(t) = n + 1 /\ n \in Nat /\ t[n + 1] = name
        /\ \A i \in 1 .. n : t[i] = variants[i] /\ variants[i] # name
    BY <1>2 DEF Contains
  <2> HIDE DEF t, n
  <2>3. Distinct(t)
    <3> SUFFICES ASSUME NEW i \in 1 .. n + 1, NEW j \in 1 .. n + 1, i < j
                 PROVE  t[i] # t[j]
      BY <2>2 DEF Distinct
    <3>1. i \in 1 .. n
      BY <2>2
    <3>2. CASE j = n + 1
      BY <2>2, <3>1, <3>2
    <3>3. CASE j # n + 1
      <4>1. j \in 1 .. n
        BY <2>2, <3>3
      <4> QED
        BY <2>2, <3>1, <4>1 DEF Distinct, n
    <3> QED
      BY <3>2, <3>3
  <2> QED
    BY <2>1, <2>2, <2>3
<1> QED
  BY <1>1, <1>2

LEMMA VariantsDistinct ==
    ASSUME NEW name
    PROVE  /\ NameVariants(name) \in Seq(Range(NameVariants(name)))
           /\ Distinct(NameVariants(name))
<1> DEFINE a == DashesToColons(name)
           b == SpacesRemoved(name)
           c == SubtitleDropped(name)
           S == {name, a, b, c}
           v == NameVariants(name)
<1>1. \E T : v \in Seq(T) /\ Distinct(v)
  <2>1. CASE name = <<>>
    <3>1. v = <<>> /\ v \in Seq({})
      BY <2>1 DEF NameVariants
    <3>2. Distinct(v)
      BY <3>1 DEF Distinct
    <3> QED
      BY <3>1, <3>2
  <2>2. CASE name # <<>>
    <3>1. v = AddVariant(AddVariant(AddVariant(<<name>>, a), b), c)
      BY <2>2 DEF NameVariants
    <3> HIDE DEF a, b, c, v
    <3>2. <<name>> \in Seq(S) /\ Distinct(<<name>>)
      BY DEF Distinct
    <3>3. name \in S /\ a \in S /\ b \in S /\ c \in S
      OBVIOUS
    <3> HIDE DEF S
    <3>4. v \in Seq(S) /\ Distinct(v)
      BY <3>1, <3>2, <3>3, VariantAdded
    <3> QED
      BY <3>4
  <2> QED
    BY <2>1, <2>2
<1> HIDE DEF v
<1>2. PICK T : v \in Seq(T)
  BY <1>1
<1>3. v \in Seq(Range(v))
  <2>1. Len(v) \in Nat /\ DOMAIN v = 1 .. Len(v)
    BY <1>2
  <2>2. \A i \in 1 .. Len(v) : v[i] \in Range(v)
    BY <2>1 DEF Range
  <2>3. v = [i \in 1 .. Len(v) |-> v[i]]
    BY <1>2
  <2> QED
    BY <2>1, <2>2, <2>3
<1> QED
  BY <1>1, <1>3 DEF v

\* Plan is a search of all variants, in the order that search makes it.
LEMMA PlanIsOrdered ==
    ASSUME NEW raw \in RawNames, NEW ids \in BOOLEAN
    PROVE  LET plan == Plan(CleanName(raw), ids)
           IN  /\ plan \in Seq(Queries) /\ Ordered(plan)
               /\ Range(plan) = Wanted(CleanName(raw), ids)
<1> DEFINE v == NameVariants(CleanName(raw))
           n == Len(v)
           q(k) == [i \in DOMAIN v |-> [name |-> v[i], constrained |-> k]]
           plan == Plan(CleanName(raw), ids)
<1>1. plan = (IF ids THEN q(TRUE) ELSE <<>>) \o q(FALSE)
  BY DEF Plan
<1>2. v \in Seq(Range(v)) /\ Distinct(v)
  BY VariantsDistinct
<1>3. Range(v) \subseteq Variants
  BY DEF Variants
<1>4. n \in Nat /\ DOMAIN v = 1 .. n /\ \A i \in 1 .. n : v[i] \in Variants
  BY <1>2, <1>3
<1>5. \A i, j \in 1 .. n : i < j => v[i] # v[j]
  BY <1>2 DEF Distinct
<1> HIDE DEF v, n, plan
<1>6. ASSUME NEW k \in BOOLEAN
      PROVE  /\ q(k) \in Seq(Queries) /\ Len(q(k)) = n
             /\ \A i \in 1 .. n : q(k)[i].name = v[i] /\ q(k)[i].constrained = k
  <2>1. \A i \in 1 .. n : [name |-> v[i], constrained |-> k] \in Queries
    BY <1>4 DEF Queries
  <2>2. q(k) = [i \in 1 .. n |-> [name |-> v[i], constrained |-> k]]
    BY <1>4
  <2> QED
    BY <1>4, <2>1, <2>2
<1> DEFINE a == q(TRUE)
           b == q(FALSE)
<1>7. /\ a \in Seq(Queries) /\ Len(a) = n
      /\ \A i \in 1 .. n : a[i].name = v[i] /\ a[i].constrained = TRUE
  BY <1>6
<1>8. /\ b \in Seq(Queries) /\ Len(b) = n
      /\ \A i \in 1 .. n : b[i].name = v[i] /\ b[i].constrained = FALSE
  BY <1>6
<1>9. plan = (IF ids THEN a ELSE <<>>) \o b
  BY <1>1
<1> HIDE DEF a, b, q
<1>10. ASSUME NEW x \in Queries, NEW y \in Queries, x.name = y.name,
              x.constrained = y.constrained
       PROVE  x = y
  BY <1>10 DEF Queries
<1> DEFINE W == Wanted(CleanName(raw), ids)
           K == IF ids THEN BOOLEAN ELSE {FALSE}
<1>0. W = [name : Range(v), constrained : K] /\ Range(v) = {v[i] : i \in 1 .. n}
  <2>1. W = [name : Range(v), constrained : K]
    BY DEF Wanted, v
  <2>2. Range(v) = {v[i] : i \in 1 .. n}
    BY <1>4 DEF Range
  <2> QED
    BY <2>1, <2>2
<1>13. ASSUME NEW w \in W
       PROVE  w \in Queries /\ w.constrained \in K /\ \E i \in 1 .. n : w.name = v[i]
  <2>1. K \subseteq BOOLEAN
    OBVIOUS
  <2> HIDE DEF W, K
  <2>2. w \in [name : Range(v), constrained : K]
    BY <1>0
  <2>3. w \in Queries
    BY <1>3, <2>1, <2>2 DEF Queries
  <2>4. w.constrained \in K /\ w.name \in Range(v)
    BY <2>2
  <2> QED
    BY <1>0, <2>3, <2>4
<1>14. ASSUME NEW x \in Queries, x.constrained \in K, NEW i \in 1 .. n, x.name = v[i]
       PROVE  x \in W
  <2> HIDE DEF W, K
  <2>1. x = [name |-> x.name, constrained |-> x.constrained]
    BY DEF Queries
  <2>2. x.name \in Range(v)
    BY <1>0, <1>14
  <2> QED
    BY <1>0, <1>14, <2>1, <2>2
<1>11. CASE ~ids
  <2>1. plan = b
    <3>1. <<>> \o b = b
      BY <1>8, ConcatEmptySeq
    <3> QED
      BY <1>9, <1>11, <3>1
  <2>2. Ordered(b)
    BY <1>5, <1>8 DEF Ordered
  <2>3. Range(b) = W
    <3>1. DOMAIN b = 1 .. n
      BY <1>8
    <3>2. ASSUME NEW i \in 1 .. n  PROVE b[i] \in W
      <4>1. b[i] \in Queries /\ b[i].constrained = FALSE /\ b[i].name = v[i]
        BY <1>8
      <4>2. FALSE \in K
        BY <1>11
      <4> HIDE DEF K, W
      <4>3. b[i].constrained \in K
        BY <4>1, <4>2
      <4> QED
        BY <1>14, <4>1, <4>3
    <3>3. ASSUME NEW w \in W  PROVE \E i \in 1 .. n : b[i] = w
      <4>1. w \in Queries /\ w.constrained = FALSE
        BY <1>11, <1>13
      <4>2. PICK i \in 1 .. n : w.name = v[i]
        BY <1>13
      <4>3. b[i] \in Queries /\ b[i].constrained = FALSE /\ b[i].name = v[i]
        BY <1>8
      <4>4. b[i] = w
        BY <1>10, <4>1, <4>2, <4>3
      <4> QED
        BY <4>4
    <3> HIDE DEF W
    <3> QED
      BY <3>1, <3>2, <3>3 DEF Range
  <2> QED
    BY <1>8, <2>1, <2>2, <2>3 DEF plan
<1>12. CASE ids
  <2>1. plan = a \o b
    BY <1>9, <1>12
  <2>2. /\ plan \in Seq(Queries) /\ Len(plan) = n + n
        /\ \A i \in 1 .. n : plan[i] = a[i]
        /\ \A i \in n + 1 .. n + n : plan[i] = b[i - n]
    <3>1. /\ plan \in Seq(Queries) /\ Len(plan) = n + n
          /\ \A i \in 1 .. n + n : plan[i] = IF i <= n THEN a[i] ELSE b[i - n]
      <4>1. /\ a \o b \in Seq(Queries) /\ Len(a \o b) = Len(a) + Len(b)
            /\ \A i \in 1 .. Len(a) + Len(b) :
                  (a \o b)[i] = IF i <= Len(a) THEN a[i] ELSE b[i - Len(a)]
        <5>1. a \in Seq(Queries) /\ b \in Seq(Queries)
          BY <1>7, <1>8
        <5> QED
          BY <5>1, ConcatProperties
      <4>2. Len(a) = n /\ Len(b) = n
        BY <1>7, <1>8
      <4> QED
        BY <2>1, <4>1, <4>2
    <3>2. \A i \in 1 .. n : i \in 1 .. n + n /\ i <= n
      BY <1>4
    <3>3. \A i \in n + 1 .. n + n : i \in 1 .. n + n /\ ~(i <= n)
      BY <1>4
    <3> QED
      BY <3>1, <3>2, <3>3
  <2>3. \A i \in 1 .. n + n : i \in 1 .. n \/ (i \in n + 1 .. n + n /\ i - n \in 1 .. n)
    BY <1>4
  <2>4. Ordered(plan)
    <3> SUFFICES ASSUME NEW i \in 1 .. n + n, NEW j \in 1 .. n + n, i < j
                 PROVE  plan[i] # plan[j] /\ (plan[j].constrained => plan[i].constrained)
      BY <2>2 DEF Ordered
    <3>1. CASE j \in 1 .. n
      <4>1. i \in 1 .. n
        BY <1>4, <3>1
      <4>2. plan[i] = a[i] /\ plan[j] = a[j] /\ v[i] # v[j]
        BY <1>5, <2>2, <3>1, <4>1
      <4> QED
        BY <1>7, <3>1, <4>1, <4>2
    <3>2. CASE i \in 1 .. n /\ j \in n + 1 .. n + n
      <4>1. plan[i] = a[i] /\ plan[j] = b[j - n] /\ j - n \in 1 .. n
        BY <1>4, <2>2, <3>2
      <4>2. plan[i].constrained = TRUE /\ plan[j].constrained = FALSE
        BY <1>7, <1>8, <3>2, <4>1
      <4> QED
        BY <4>2
    <3>3. CASE i \in n + 1 .. n + n /\ j \in n + 1 .. n + n
      <4>1. plan[i] = b[i - n] /\ plan[j] = b[j - n] /\ i - n \in 1 .. n /\ j - n \in 1 .. n
        BY <1>4, <2>2, <3>3
      <4>2. v[i - n] # v[j - n]
        BY <1>4, <1>5, <4>1
      <4> QED
        BY <1>8, <4>1, <4>2
    <3> QED
      BY <2>3, <3>1, <3>2, <3>3
  <2>5. Range(plan) = W
    <3>1. DOMAIN plan = 1 .. n + n
      BY <2>2
    <3>2. ASSUME NEW i \in 1 .. n + n  PROVE plan[i] \in W
      <4>1. plan[i] \in Queries
        BY <2>2
      <4>2. plan[i].constrained \in K
        <5>1. plan[i].constrained \in BOOLEAN
          BY <4>1 DEF Queries
        <5>2. K = BOOLEAN
          BY <1>12
        <5> QED
          BY <5>1, <5>2
      <4>3. \E k \in 1 .. n : plan[i].name = v[k]
        <5>1. CASE i \in 1 .. n
          BY <1>7, <2>2, <5>1
        <5>2. CASE i \in n + 1 .. n + n /\ i - n \in 1 .. n
          BY <1>8, <2>2, <5>2
        <5> QED
          BY <2>3, <5>1, <5>2
      <4>4. PICK k \in 1 .. n : plan[i].name = v[k]
        BY <4>3
      <4> HIDE DEF K, W
      <4> QED
        BY <1>14, <4>1, <4>2, <4>4
    <3>3. ASSUME NEW w \in W  PROVE \E i \in 1 .. n + n : plan[i] = w
      <4>1. w \in Queries /\ w.constrained \in BOOLEAN
        BY <1>12, <1>13
      <4>2. PICK k \in 1 .. n : w.name = v[k]
        BY <1>13
      <4> HIDE DEF W
      <4>3. CASE w.constrained = TRUE
        <5>1. a[k] \in Queries /\ a[k].constrained = TRUE /\ a[k].name = v[k]
          BY <1>7
        <5>2. a[k] = w
          BY <1>10, <4>1, <4>2, <4>3, <5>1
        <5>3. k \in 1 .. n + n /\ plan[k] = a[k]
          BY <1>4, <2>2
        <5> QED
          BY <5>2, <5>3
      <4>4. CASE w.constrained = FALSE
        <5>1. b[k] \in Queries /\ b[k].constrained = FALSE /\ b[k].name = v[k]
          BY <1>8
        <5>2. b[k] = w
          BY <1>10, <4>1, <4>2, <4>4, <5>1
        <5>3. n + k \in 1 .. n + n /\ plan[n + k] = b[k]
          BY <1>4, <2>2
        <5> QED
          BY <5>2, <5>3
      <4> QED
        BY <4>1, <4>3, <4>4
    <3> HIDE DEF W
    <3> QED
      BY <3>1, <3>2, <3>3 DEF Range
  <2> QED
    BY <2>2, <2>4, <2>5 DEF plan
<1> QED
  BY <1>11, <1>12

\* The next query moves from the plan to those made.
LEMMA QueryMoves ==
    ASSUME NEW asked \in Seq(Queries), NEW plan \in Seq(Queries), plan # <<>>
    PROVE  LET a == Append(asked, Head(plan))
           IN  /\ a \in Seq(Queries) /\ Tail(plan) \in Seq(Queries)
               /\ a \o Tail(plan) = asked \o plan
               /\ Len(a) = Len(asked) + 1
               /\ \A i \in 1 .. Len(asked) : a[i] = asked[i]
<1> DEFINE a == Append(asked, Head(plan))
           n == Len(asked)
           k == Len(plan)
<1>1. /\ n \in Nat /\ k \in Nat /\ k > 0
      /\ Head(plan) = plan[1] /\ Head(plan) \in Queries
      /\ Tail(plan) \in Seq(Queries) /\ Len(Tail(plan)) = k - 1
      /\ \A i \in 1 .. k - 1 : Tail(plan)[i] = plan[i + 1]
  OBVIOUS
<1>2. /\ a \in Seq(Queries) /\ Len(a) = n + 1
      /\ \A i \in 1 .. n : a[i] = asked[i]
      /\ a[n + 1] = plan[1]
  BY <1>1
<1> HIDE DEF a
<1>3. /\ a \o Tail(plan) \in Seq(Queries) /\ Len(a \o Tail(plan)) = n + k
      /\ \A i \in 1 .. n + k :
            (a \o Tail(plan))[i] = IF i <= n + 1 THEN a[i] ELSE Tail(plan)[i - (n + 1)]
  <2>1. (n + 1) + (k - 1) = n + k
    BY <1>1
  <2> HIDE DEF n, k
  <2> QED
    <3>1. LET t == Tail(plan)
          IN  /\ a \o t \in Seq(Queries) /\ Len(a \o t) = Len(a) + Len(t)
              /\ \A i \in 1 .. Len(a) + Len(t) :
                    (a \o t)[i] = IF i <= Len(a) THEN a[i] ELSE t[i - Len(a)]
      BY <1>1, <1>2, ConcatProperties
    <3>2. Len(a) = n + 1 /\ Len(Tail(plan)) = k - 1
      BY <1>1, <1>2
    <3> QED
      BY <2>1, <3>1, <3>2
<1>4. /\ asked \o plan \in Seq(Queries) /\ Len(asked \o plan) = n + k
      /\ \A i \in 1 .. n + k :
            (asked \o plan)[i] = IF i <= n THEN asked[i] ELSE plan[i - n]
  OBVIOUS
<1> HIDE DEF n, k
<1>5. ASSUME NEW i \in 1 .. n + k
      PROVE  (a \o Tail(plan))[i] = (asked \o plan)[i]
  <2>1. CASE i <= n
    BY <1>1, <1>2, <1>3, <1>4, <2>1
  <2>2. CASE i = n + 1
    BY <1>1, <1>2, <1>3, <1>4, <2>2
  <2>3. CASE i > n + 1
    <3>1. i - (n + 1) \in 1 .. k - 1 /\ (i - (n + 1)) + 1 = i - n
      BY <1>1, <2>3
    <3> QED
      BY <1>1, <1>3, <1>4, <2>3, <3>1
  <2>4. i <= n \/ i = n + 1 \/ i > n + 1
    BY <1>1
  <2> QED
    BY <2>1, <2>2, <2>3, <2>4
<1>6. a \o Tail(plan) = asked \o plan
  BY <1>3, <1>4, <1>5, SeqEqual
<1> QED
  BY <1>1, <1>2, <1>6 DEF a, n

\* What SearchOK says is about these fields only.
LEMMA SameSearch ==
    ASSUME NEW p \in Searches, NEW x, SearchOK(p, x), NEW s \in Searches, NEW y,
           s.asked \o s.plan = p.asked \o p.plan, Len(p.asked) <= Len(s.asked),
           \A i \in 1 .. Len(p.asked) : s.asked[i] = p.asked[i],
           s.answers = p.answers, s.match = p.match, s.wanted = p.wanted,
           Progress(s, y)
    PROVE  SearchOK(s, y)
<1>1. Ordered(s.asked \o s.plan) /\ Range(s.asked \o s.plan) = s.wanted
  BY DEF SearchOK
<1>2. Found(p) /\ Progress(p, x)
  BY DEF SearchOK
<1> DEFINE n == Len(p.answers)
<1>3. n \in Nat /\ Len(p.asked) \in Nat /\ n <= Len(p.asked)
  BY <1>2 DEF Searches, Progress
<1>4. \A i \in 1 .. n : s.asked[i] = p.asked[i]
  BY <1>3
<1>5. n > 0 => n \in 1 .. n
  BY <1>3
<1>6. Found(s)
  BY <1>2, <1>4, <1>5 DEF Found
<1> QED
  BY <1>1, <1>6 DEF SearchOK

LEMMA SearchInit == Init => SearchInv
<1> SUFFICES ASSUME Init PROVE SearchInv
  OBVIOUS
<1>1. DOMAIN search = Callers /\ \A c \in Callers : search[c] = NoSearch /\ call[c] = NoCall
  BY DEF Init, ApiInit
<1>2. NoSearch \in Searches
  BY DEF NoSearch, Searches
<1>3. /\ NoSearch.at = "idle" /\ NoSearch.asked = <<>> /\ NoSearch.plan = <<>>
      /\ NoSearch.answers = <<>> /\ NoSearch.match = 0 /\ NoSearch.verdict = "none"
      /\ NoSearch.wanted = {}
  BY DEF NoSearch
<1>4. <<>> \o <<>> = <<>> /\ Ordered(<<>>) /\ Range(<<>>) = {}
  BY DEF Ordered, Range
<1>5. NoCall.at = "idle"
  BY DEF NoCall
<1>6. Progress(NoSearch, NoCall) /\ Found(NoSearch)
  BY <1>3, <1>5 DEF Progress, Found
<1> QED
  BY <1>1, <1>2, <1>3, <1>4, <1>6 DEF SearchInv, SearchOK

\* A step of the search of c.
LEMMA OneSearch ==
    ASSUME SearchInv, NEW c \in Callers, NEW s, search' = [search EXCEPT ![c] = s],
           \A d \in Callers \ {c} : call'[d] = call[d],
           SearchOK(s, call'[c])
    PROVE  SearchInv'
<1>1. DOMAIN search' = Callers /\ search'[c] = s
      /\ \A d \in Callers \ {c} : search'[d] = search[d]
  BY DEF SearchInv
<1>2. \A d \in Callers : SearchOK(search'[d], call'[d])
  BY <1>1 DEF SearchInv
<1> QED
  BY <1>1, <1>2 DEF SearchInv

\* Only Request and Return start and end a call.
LEMMA CallsGoOn ==
    ASSUME ApiInv, NEW c \in Callers, ApiLocked(c) \/ ApiReply(c)
    PROVE  \A d \in Callers : call'[d].at = "idle" <=> call[d].at = "idle"
<1>1. call = [d \in Callers |-> call[d]] /\ \A d \in Callers : call[d] \in CallType(granted)
  BY DEF ApiInv, SharedOK, CallOK
<1>2. PICK x : /\ call[c].at # "idle" /\ x.at # "idle"
               /\ call' = [call EXCEPT ![c] = x]
  <2>1. \A t : Sent(c, t).at = "sent"
    BY <1>1 DEF Sent, CallType
  <2>2. \A b : Answered(c, b).at = "answered"
    BY <1>1 DEF Answered, CallType
  <2>3. /\ [call[c] EXCEPT !.at = "grant"].at = "grant"
        /\ [call[c] EXCEPT !.at = "token", !.retried = TRUE].at = "token"
        /\ [call[c] EXCEPT !.at = "clear", !.refusedAt = granted].at = "clear"
    BY <1>1 DEF CallType
  <2>4. CASE ApiLocked(c)
    BY <2>1, <2>3, <2>4 DEF ApiLocked, CachedToken, AskToken, ClearToken, Becomes
  <2>5. CASE ApiReply(c)
    BY <2>1, <2>2, <2>3, <2>5
       DEF ApiReply, Granted, GrantFails, Succeeds, Fails, Refused, Becomes
  <2> QED
    BY <2>4, <2>5
<1>3. \A d \in Callers : call'[d] = IF d = c THEN x ELSE call[d]
  BY <1>1, <1>2
<1> QED
  BY <1>2, <1>3

\* Progress looks at a call only to see whether one is under way.
LEMMA SearchKept ==
    ASSUME SearchInv, UNCHANGED search,
           \A d \in Callers : call'[d].at = "idle" <=> call[d].at = "idle"
    PROVE  SearchInv'
<1>1. ASSUME NEW d \in Callers  PROVE SearchOK(search'[d], call'[d])
  <2>1. SearchOK(search[d], call[d])
    BY DEF SearchInv
  <2> QED
    BY <2>1 DEF SearchOK, Progress
<1> QED
  BY <1>1 DEF SearchInv

LEMMA SearchStepInv ==
    ASSUME ApiInv, SearchInv, [Next]_vars
    PROVE  SearchInv'
<1>0. call = [d \in Callers |-> call[d]]
  BY DEF ApiInv, SharedOK
<1>1. ASSUME NEW c \in Callers, NEW f, NEW x, Becomes(c, f, x)
      PROVE  call[c].at = f /\ call'[c] = x /\ \A d \in Callers \ {c} : call'[d] = call[d]
  BY <1>0, <1>1 DEF Becomes
<1>2. NoCall.at = "idle" /\ [NoCall EXCEPT !.at = "token"].at = "token"
  BY DEF NoCall
<1>3. ASSUME NEW c \in Callers
      PROVE  search[c] \in Searches /\ SearchOK(search[c], call[c])
  BY DEF SearchInv, SearchOK
<1>4. ASSUME NEW c \in Callers, Start(c)
      PROVE  SearchInv'
  <2>1. PICK raw \in RawNames, ids \in BOOLEAN :
           Goto(c, "idle", [NoSearch EXCEPT !.at = "search",
                                            !.plan = Plan(CleanName(raw), ids),
                                            !.wanted = Wanted(CleanName(raw), ids)])
    BY <1>4 DEF Start
  <2> DEFINE plan == Plan(CleanName(raw), ids)
             w == Wanted(CleanName(raw), ids)
             s == [NoSearch EXCEPT !.at = "search", !.plan = plan, !.wanted = w]
  <2>2. plan \in Seq(Queries) /\ Ordered(plan) /\ Range(plan) = w
    BY PlanIsOrdered
  <2>9. w \in SUBSET Queries
    <3>1. DOMAIN plan = 1 .. Len(plan) /\ \A i \in 1 .. Len(plan) : plan[i] \in Queries
      BY <2>2
    <3> HIDE DEF plan, w
    <3> QED
      BY <2>2, <3>1 DEF Range
  <2>3. search[c].at = "idle" /\ search' = [search EXCEPT ![c] = s] /\ UNCHANGED call
    BY <1>4, <2>1 DEF Start, Goto, apiVars
  <2> HIDE DEF plan, w
  <2>4. /\ s \in Searches /\ s.wanted = w /\ s.at = "search" /\ s.plan = plan /\ s.asked = <<>>
        /\ s.answers = <<>> /\ s.match = 0 /\ s.verdict = "none"
    <3>1. <<>> \in Seq(Queries) /\ <<>> \in Seq(Answers) /\ 0 \in Nat
      OBVIOUS
    <3>2. /\ NoSearch \in Searches /\ NoSearch.asked = <<>> /\ NoSearch.answers = <<>>
          /\ NoSearch.match = 0 /\ NoSearch.verdict = "none"
      BY <3>1 DEF NoSearch, Searches
    <3>3. s \in Searches
      BY <2>2, <2>9, <3>2 DEF Searches
    <3>4. /\ s.at = "search" /\ s.plan = plan /\ s.wanted = w /\ s.asked = NoSearch.asked
          /\ s.answers = NoSearch.answers /\ s.match = NoSearch.match
          /\ s.verdict = NoSearch.verdict
      BY <3>2 DEF Searches
    <3> QED
      BY <3>2, <3>3, <3>4
  <2> HIDE DEF s
  <2>5. s.asked \o s.plan = plan
    BY <2>2, <2>4, ConcatEmptySeq
  <2>6. call[c].at = "idle"
    BY <1>3, <2>3 DEF SearchOK, Progress
  <2>7. Progress(s, call[c]) /\ Found(s)
    BY <2>4, <2>6 DEF Progress, Found
  <2>8. SearchOK(s, call'[c])
    BY <2>2, <2>3, <2>4, <2>5, <2>7 DEF SearchOK
  <2> QED
    BY <2>3, <2>8, OneSearch
<1>5. ASSUME NEW c \in Callers, Query(c)
      PROVE  SearchInv'
  <2> DEFINE p == search[c]
             s == [p EXCEPT !.plan = Tail(@), !.asked = Append(@, Head(p.plan))]
  <2>1. /\ p.plan # <<>> /\ p.at = "search" /\ search' = [search EXCEPT ![c] = s]
        /\ Becomes(c, "idle", [NoCall EXCEPT !.at = "token"])
    BY <1>5 DEF Query, Goto, Request
  <2>2. call[c].at = "idle" /\ call'[c].at = "token" /\ \A d \in Callers \ {c} : call'[d] = call[d]
    <3> DEFINE x == [NoCall EXCEPT !.at = "token"]
    <3>1. x.at = "token" /\ Becomes(c, "idle", x)
      BY <1>2, <2>1
    <3> HIDE DEF x
    <3>2. call[c].at = "idle" /\ call'[c] = x /\ \A d \in Callers \ {c} : call'[d] = call[d]
      BY <1>1, <3>1
    <3> QED
      BY <3>1, <3>2
  <2>3. p \in Searches /\ SearchOK(p, call[c])
    BY <1>3
  <2> HIDE DEF p
  <2>4. p.plan \in Seq(Queries) /\ p.asked \in Seq(Queries)
    BY <2>3 DEF Searches
  <2> DEFINE a == Append(p.asked, Head(p.plan))
  <2>5. /\ a \in Seq(Queries) /\ Tail(p.plan) \in Seq(Queries)
        /\ a \o Tail(p.plan) = p.asked \o p.plan
        /\ Len(a) = Len(p.asked) + 1
        /\ \A i \in 1 .. Len(p.asked) : a[i] = p.asked[i]
    BY <2>1, <2>4, QueryMoves
  <2>6. s = [p EXCEPT !.plan = Tail(p.plan), !.asked = a]
    OBVIOUS
  <2> HIDE DEF a, s
  <2>7. /\ s \in Searches /\ s.asked = a /\ s.plan = Tail(p.plan) /\ s.at = p.at
        /\ s.answers = p.answers /\ s.match = p.match /\ s.verdict = p.verdict
        /\ s.wanted = p.wanted
    BY <2>3, <2>5, <2>6 DEF Searches
  <2>8. Len(p.asked) \in Nat
    BY <2>4
  <2>9. p.match = 0 /\ p.verdict = "none" /\ Len(p.asked) = Len(p.answers)
    BY <2>1, <2>2, <2>3, <2>8 DEF SearchOK, Progress, Searches
  <2>10. Progress(s, call'[c])
    BY <2>1, <2>2, <2>5, <2>7, <2>8, <2>9 DEF Progress
  <2>11. s.asked \o s.plan = p.asked \o p.plan /\ Len(p.asked) <= Len(s.asked)
    <3>1. s.asked \o s.plan = p.asked \o p.plan
      BY <2>5, <2>7
    <3>2. Len(s.asked) = Len(p.asked) + 1
      BY <2>5, <2>7
    <3> QED
      BY <2>8, <3>1, <3>2
  <2>12. SearchOK(s, call'[c])
    BY <2>3, <2>5, <2>7, <2>10, <2>11, SameSearch
  <2> QED
    BY <2>1, <2>2, <2>12, OneSearch
<1>6. ASSUME NEW c \in Callers, NEW v \in {"noMatch", "error", "details", "gone"},
             search' = [search EXCEPT ![c] = [search[c] EXCEPT !.at = "idle", !.verdict = v]],
             call'[c].at = "idle", \A d \in Callers \ {c} : call'[d] = call[d],
             v = "noMatch" => /\ search[c].match = 0 /\ search[c].plan = <<>>
                              /\ Len(search[c].asked) = Len(search[c].answers)
      PROVE  SearchInv'
  <2> DEFINE p == search[c]
             s == [p EXCEPT !.at = "idle", !.verdict = v]
  <2>1. p \in Searches /\ SearchOK(p, call[c])
    BY <1>3
  <2>2. search' = [search EXCEPT ![c] = s]
    BY <1>6
  <2>3. v = "noMatch" => p.match = 0 /\ p.plan = <<>> /\ Len(p.asked) = Len(p.answers)
    BY <1>6
  <2> HIDE DEF p
  <2>4. /\ s \in Searches /\ s.asked = p.asked /\ s.plan = p.plan /\ s.at = "idle"
        /\ s.answers = p.answers /\ s.match = p.match /\ s.verdict = v
        /\ s.wanted = p.wanted
    BY <2>1 DEF Searches
  <2> HIDE DEF s
  <2>5. Len(p.answers) <= Len(p.asked) /\ Len(p.asked) \in Nat
    BY <2>1 DEF SearchOK, Progress, Searches
  <2>6. Progress(s, call'[c])
    BY <1>6, <2>3, <2>4, <2>5 DEF Progress
  <2>7. SearchOK(s, call'[c])
    <3>1. s.asked \o s.plan = p.asked \o p.plan /\ Len(p.asked) <= Len(s.asked)
      BY <2>4, <2>5
    <3>2. \A i \in 1 .. Len(p.asked) : s.asked[i] = p.asked[i]
      BY <2>4
    <3>3. /\ p \in Searches /\ s \in Searches /\ s.answers = p.answers /\ s.match = p.match
          /\ s.wanted = p.wanted
      BY <2>1, <2>4
    <3> QED
      BY <2>1, <2>6, <3>1, <3>2, <3>3, SameSearch
  <2> QED
    BY <1>6, <2>2, <2>7, OneSearch
<1>7. ASSUME NEW c \in Callers, NoneLeft(c)
      PROVE  SearchInv'
  <2>1. /\ search[c].plan = <<>> /\ call[c].at = "idle" /\ search[c].at = "search"
        /\ search' = [search EXCEPT ![c] = [search[c] EXCEPT !.at = "idle", !.verdict = "noMatch"]]
        /\ UNCHANGED call
    BY <1>7 DEF NoneLeft, Goto, apiVars
  <2>2. search[c].match = 0 /\ Len(search[c].asked) = Len(search[c].answers)
    <3> DEFINE p == search[c]
    <3>1. p \in Searches /\ Progress(p, call[c]) /\ p.at = "search" /\ call[c].at = "idle"
      BY <1>3, <2>1 DEF SearchOK
    <3> HIDE DEF p
    <3>2. Len(p.answers) \in Nat /\ Len(p.asked) \in Nat
      BY <3>1 DEF Searches
    <3>3. p.match = 0 /\ Len(p.asked) = Len(p.answers)
      BY <3>1, <3>2 DEF Progress
    <3> QED
      BY <3>3 DEF p
  <2> QED
    BY <1>6, <2>1, <2>2
<1>8. ASSUME NEW c \in Callers, QueryFails(c) \/ DetailsAnswered(c)
      PROVE  SearchInv'
  <2>1. Becomes(c, "answered", NoCall)
    BY <1>8 DEF QueryFails, DetailsAnswered, Return
  <2>2. call'[c].at = "idle" /\ \A d \in Callers \ {c} : call'[d] = call[d]
    BY <1>1, <1>2, <2>1
  <2>3. \E v \in {"error", "details", "gone"} :
           search' = [search EXCEPT ![c] = [search[c] EXCEPT !.at = "idle", !.verdict = v]]
    BY <1>8 DEF QueryFails, DetailsAnswered, Goto
  <2> QED
    BY <1>6, <2>2, <2>3
<1>9. ASSUME NEW c \in Callers, QueryDetails(c)
      PROVE  SearchInv'
  <2>1. search[c].at = "details" /\ UNCHANGED search
        /\ Becomes(c, "idle", [NoCall EXCEPT !.at = "token"])
    BY <1>9 DEF QueryDetails, Request
  <2>2. \A d \in Callers \ {c} : call'[d] = call[d]
    BY <1>1, <2>1
  <2>3. SearchOK(search[c], call'[c])
    BY <1>3, <2>1 DEF SearchOK, Progress
  <2>4. \A d \in Callers : SearchOK(search[d], call'[d])
    BY <1>3, <2>2, <2>3
  <2> QED
    BY <2>1, <2>4 DEF SearchInv
<1>10. ASSUME NEW c \in Callers, QueryAnswered(c)
       PROVE  SearchInv'
  <2> DEFINE p == search[c]
             n == Len(p.asked)
  <2>1. Becomes(c, "answered", NoCall) /\ p.at = "search"
    BY <1>10 DEF QueryAnswered, Return, Goto
  <2>2. call[c].at = "answered" /\ call'[c].at = "idle"
        /\ \A d \in Callers \ {c} : call'[d] = call[d]
    BY <1>1, <1>2, <2>1
  <2>3. PICK answer \in Answers :
           LET m == Match(answer, Last(p.asked).constrained)
           IN  search' = [search EXCEPT ![c] =
                   [p EXCEPT !.at = IF m = 0 THEN "search" ELSE "details", !.match = m,
                             !.answers = Append(@, answer)]]
    BY <1>10 DEF QueryAnswered, Goto
  <2>4. p \in Searches /\ SearchOK(p, call[c])
    BY <1>3
  <2> HIDE DEF p
  <2>5. /\ p.asked \in Seq(Queries) /\ p.plan \in Seq(Queries) /\ p.answers \in Seq(Answers)
        /\ p.verdict \in {"none", "noMatch", "error", "details", "gone"}
    BY <2>4 DEF Searches
  <2>6. n \in Nat /\ n = Len(p.answers) + 1 /\ Len(p.answers) \in Nat /\ p.match = 0
        /\ p.verdict = "none"
    BY <2>1, <2>2, <2>4, <2>5 DEF SearchOK, Progress
  <2>7. Last(p.asked) = p.asked[n] /\ p.asked[n] \in Queries
    BY <2>5, <2>6 DEF Last
  <2>8. p.asked[n].constrained \in BOOLEAN
    BY <2>7 DEF Queries
  <2> DEFINE m == Match(answer, p.asked[n].constrained)
             b == Append(p.answers, answer)
             at == IF m = 0 THEN "search" ELSE "details"
             s == [p EXCEPT !.at = at, !.match = m, !.answers = b]
  <2>9. search' = [search EXCEPT ![c] = s]
    BY <2>3, <2>7
  <2>10. /\ m \in Nat
         /\ m = 0 => Unfit(answer, p.asked[n].constrained)
         /\ m > 0 => Best(answer, p.asked[n].constrained, m)
    BY <2>8, MatchIsBest
  <2>11. /\ b \in Seq(Answers) /\ Len(b) = n /\ b[n] = answer
         /\ \A i \in 1 .. n : i < n => b[i] = p.answers[i] /\ i \in 1 .. Len(p.answers)
    BY <2>5, <2>6
  <2> HIDE DEF m, b
  <2>12. /\ s \in Searches /\ s.at = at /\ s.match = m /\ s.answers = b
         /\ s.asked = p.asked /\ s.plan = p.plan /\ s.verdict = p.verdict
         /\ s.wanted = p.wanted
    BY <2>4, <2>10, <2>11 DEF Searches
  <2> HIDE DEF s
  <2>13. Progress(s, call'[c])
    BY <2>2, <2>6, <2>10, <2>11, <2>12 DEF Progress
  <2>14. Found(s)
    <3>1. \A i \in 1 .. Len(p.answers) : Unfit(p.answers[i], p.asked[i].constrained)
      BY <2>4, <2>6 DEF SearchOK, Found
    <3>2. \A i \in 1 .. n : i < n => Unfit(b[i], p.asked[i].constrained)
      BY <2>11, <3>1
    <3>3. n > 0
      BY <2>6
    <3> HIDE DEF n
    <3>4. \A i \in 1 .. n : i < n \/ i = n
      BY <2>6
    <3> QED
      BY <2>10, <2>11, <2>12, <3>2, <3>3, <3>4 DEF Found
  <2>15. SearchOK(s, call'[c])
    BY <2>4, <2>12, <2>13, <2>14 DEF SearchOK
  <2> QED
    BY <2>2, <2>9, <2>15, OneSearch
<1>11. ASSUME NEW c \in Callers, (ApiLocked(c) \/ ApiReply(c)) /\ UNCHANGED search
       PROVE  SearchInv'
  BY <1>11, CallsGoOn, SearchKept
<1>12. CASE (Revoke \/ Expire) /\ UNCHANGED search
  <2>1. UNCHANGED call
    BY <1>12 DEF Revoke, Expire
  <2> QED
    BY <1>12, <2>1, SearchKept
<1>13. CASE UNCHANGED vars
  <2>1. UNCHANGED <<call, search>>
    BY <1>13 DEF vars, apiVars
  <2> QED
    BY <2>1, SearchKept
<1> QED
  BY <1>4, <1>5, <1>7, <1>8, <1>9, <1>10, <1>11, <1>12, <1>13 DEF Next, Caller

LEMMA SearchHolds == Spec => [](ApiInv /\ SearchInv)
<1>1. Init => ApiInv /\ SearchInv
  BY InvInit, SearchInit
<1>2. ApiInv /\ SearchInv /\ [Next]_vars => (ApiInv /\ SearchInv)'
  BY InvStep, SearchStepInv
<1> QED
  BY <1>1, <1>2, PTL DEF Spec

-----------------------------------------------------------------------------
(* What follows from it *)

\* search reports that a game is unknown only after every variant of its name was
\* searched for, without the platform constraint and, where the console has platform
\* IDs, with it, each with an answer, and no title of an answer was acceptable.
THEOREM NoMatchIsKnown == Spec => []NoMatchMeansAllAnswered
<1>1. SearchInv => NoMatchMeansAllAnswered
  <2> SUFFICES ASSUME SearchInv, NEW c \in Callers, search[c].verdict = "noMatch"
               PROVE  LET s == search[c]
                      IN  /\ Range(s.asked) = s.wanted
                          /\ Len(s.answers) = Len(s.asked)
                          /\ \A i \in DOMAIN s.asked :
                                /\ s.answers[i] \in Answers
                                /\ \A g \in Range(s.answers[i]) :
                                      Rank(g, s.asked[i].constrained) = 0
    BY DEF NoMatchMeansAllAnswered
  <2> DEFINE s == search[c]
  <2>1. SearchOK(s, call[c])
    BY DEF SearchInv
  <2>2. s.verdict = "noMatch"
    OBVIOUS
  <2> HIDE DEF s
  <2>3. s.asked \in Seq(Queries) /\ s.answers \in Seq(Answers)
    BY <2>1 DEF SearchOK, Searches
  <2>4. s.match = 0 /\ s.plan = <<>> /\ Len(s.asked) = Len(s.answers)
    BY <2>1, <2>2 DEF SearchOK, Progress
  <2>5. s.asked \o s.plan = s.asked
    BY <2>3, <2>4, ConcatEmptySeq
  <2>6. Range(s.asked) = s.wanted
    BY <2>1, <2>5 DEF SearchOK
  <2>7. \A i \in 1 .. Len(s.asked) :
           s.answers[i] \in Answers /\ Unfit(s.answers[i], s.asked[i].constrained)
    BY <2>1, <2>3, <2>4 DEF SearchOK, Found
  <2>8. DOMAIN s.asked = 1 .. Len(s.asked)
    BY <2>3
  <2> QED
    BY <2>4, <2>6, <2>7, <2>8 DEF Unfit, Range, s
<1> QED
  BY <1>1, SearchHolds, PTL

\* SearchGame: the match is the best title of the first answer with an acceptable one.
THEOREM BestMatchWins == Spec => []FirstMatchWins
<1>1. SearchInv => FirstMatchWins
  <2> SUFFICES ASSUME SearchInv, NEW c \in Callers, search[c].match > 0
               PROVE  LET s == search[c]
                          n == Len(s.answers)
                          R(i, j) == Rank(s.answers[i][j], s.asked[i].constrained)
                      IN  /\ R(n, s.match) > 0
                          /\ \A j \in DOMAIN s.answers[n] :
                                R(n, j) <= R(n, s.match) /\ (j < s.match => R(n, j) < R(n, s.match))
                          /\ \A i \in 1 .. n - 1 : \A j \in DOMAIN s.answers[i] : R(i, j) = 0
    BY DEF FirstMatchWins
  <2> DEFINE s == search[c]
             n == Len(s.answers)
  <2>1. SearchOK(s, call[c])
    BY DEF SearchInv
  <2>2. n \in Nat
    BY <2>1 DEF SearchOK, Searches
  <2>3. Best(s.answers[n], s.asked[n].constrained, s.match)
    BY <2>1 DEF SearchOK, Found
  <2>4. \A i \in 1 .. n - 1 : Unfit(s.answers[i], s.asked[i].constrained)
    BY <2>1, <2>2 DEF SearchOK, Found
  <2> QED
    BY <2>3, <2>4 DEF Best, Unfit
<1> QED
  BY <1>1, SearchHolds, PTL

\* search and tryVariants: the constrained queries first, and none twice.
THEOREM ConstrainedFirst == Spec => []QueriesOrdered
<1>1. SearchInv => QueriesOrdered
  <2> SUFFICES ASSUME SearchInv, NEW c \in Callers
               PROVE  LET s == search[c].asked \o search[c].plan
                      IN  \A i, j \in DOMAIN s :
                             i < j => s[i] # s[j] /\ (s[j].constrained => s[i].constrained)
    BY DEF QueriesOrdered
  <2> DEFINE s == search[c].asked \o search[c].plan
  <2>1. SearchOK(search[c], call[c])
    BY DEF SearchInv
  <2>2. search[c].asked \in Seq(Queries) /\ search[c].plan \in Seq(Queries) /\ Ordered(s)
    BY <2>1 DEF SearchOK, Searches
  <2>3. s \in Seq(Queries)
    BY <2>2
  <2> HIDE DEF s
  <2>4. DOMAIN s = 1 .. Len(s)
    BY <2>3
  <2> QED
    BY <2>2, <2>4 DEF Ordered, s
<1> QED
  BY <1>1, SearchHolds, PTL
=============================================================================
