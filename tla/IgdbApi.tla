------------------------------- MODULE IgdbApi -------------------------------
(***************************************************************************)
(* Fetcher.apiRequest of internal/igdb/fetcher.go: the cached OAuth token  *)
(* under Fetcher.mu, and the one retry after a 401.  Twitch and IGDB       *)
(* answer as they like; each call ends at the latest by the client's       *)
(* timeout of 10 s.  Tokens are numbered in the order they are granted.    *)
(***************************************************************************)
EXTENDS Integers

CONSTANTS
    Callers,   \* goroutines calling SearchGame or FetchDetailsByID
    Free,      \* Fetcher.mu is not held
    MaxTokens  \* bound: tokens that the token endpoint ever grants

ASSUME ApiAssumption ==
    /\ Free \notin Callers
    /\ MaxTokens \in Nat

NoToken == 0   \* "", also what a 200 without an access_token grants

VARIABLES
    mu,         \* the holder of Fetcher.mu
    token,      \* Fetcher.token
    unexpired,  \* now is before Fetcher.tokenExpiry
    accepted,   \* the tokens that IGDB accepts
    granted,    \* how many tokens were granted
    call        \* the apiRequest of each caller

apiVars == <<mu, token, unexpired, accepted, granted, call>>

\* tok is the token sent; sends and refusedAt are history: the requests sent
\* for this call, and how many tokens had been granted when IGDB refused one.
NoCall == [at |-> "idle", tok |-> NoToken, retried |-> FALSE, ok |-> FALSE,
           sends |-> 0, refusedAt |-> 0]

ApiTypeOK ==
    /\ mu \in Callers \union {Free}
    /\ token \in 0 .. granted
    /\ unexpired \in BOOLEAN
    /\ accepted \subseteq 1 .. granted
    /\ granted \in 0 .. MaxTokens
    /\ call \in [Callers ->
          [at : {"idle", "token", "grant", "sent", "clear", "answered"},
           tok : 0 .. granted, retried : BOOLEAN, ok : BOOLEAN,
           sends : 0 .. 2, refusedAt : 0 .. granted]]

ApiInit ==
    /\ mu = Free
    /\ token = NoToken
    /\ unexpired = FALSE
    /\ accepted = {}
    /\ granted = 0
    /\ call = [c \in Callers |-> NoCall]

Becomes(c, from, with) ==
    /\ call[c].at = from
    /\ call' = [call EXCEPT ![c] = with]

\* doRequest sends with the token it was given.
Sent(c, tok) == [call[c] EXCEPT !.at = "sent", !.tok = tok, !.sends = @ + 1]

Answered(c, ok) == [call[c] EXCEPT !.at = "answered", !.ok = ok]

-----------------------------------------------------------------------------
\* apiRequest is called.
Request(c) ==
    /\ Becomes(c, "idle", [NoCall EXCEPT !.at = "token"])
    /\ UNCHANGED <<mu, token, unexpired, accepted, granted>>

\* getToken has a token that should still be good.
CachedToken(c) ==
    /\ mu = Free
    /\ token # NoToken /\ unexpired
    /\ Becomes(c, "token", Sent(c, token))
    /\ UNCHANGED <<mu, token, unexpired, accepted, granted>>

\* getToken asks for one, with the mutex held until the answer is there.
AskToken(c) ==
    /\ mu = Free
    /\ token = NoToken \/ ~unexpired
    /\ Becomes(c, "token", [call[c] EXCEPT !.at = "grant"])
    /\ mu' = c
    /\ UNCHANGED <<token, unexpired, accepted, granted>>

\* expires_in may be zero, and access_token missing.
Granted(c) ==
    /\ mu' = Free
    /\ unexpired' \in BOOLEAN
    /\ \/ /\ granted < MaxTokens
          /\ granted' = granted + 1
          /\ token' = granted'
          /\ accepted' = accepted \union {token'}
       \/ /\ token' = NoToken
          /\ UNCHANGED <<granted, accepted>>
    /\ Becomes(c, "grant", Sent(c, token'))

\* No answer, another status than 200, or one that does not parse.
GrantFails(c) ==
    /\ Becomes(c, "grant", Answered(c, FALSE))
    /\ mu' = Free
    /\ UNCHANGED <<token, unexpired, accepted, granted>>

\* IGDB answers 200, to an accepted token only.
Succeeds(c) ==
    /\ call[c].tok \in accepted
    /\ Becomes(c, "sent", Answered(c, TRUE))
    /\ UNCHANGED <<mu, token, unexpired, accepted, granted>>

\* No answer, a body that breaks off or does not parse, or another status.
Fails(c) ==
    /\ Becomes(c, "sent", Answered(c, FALSE))
    /\ UNCHANGED <<mu, token, unexpired, accepted, granted>>

\* IGDB answers 401, for whatever reason: the first time leads to a retry,
\* the second is a failure.
Refused(c) ==
    /\ Becomes(c, "sent",
               IF call[c].retried THEN Answered(c, FALSE)
               ELSE [call[c] EXCEPT !.at = "clear", !.refusedAt = granted])
    /\ UNCHANGED <<mu, token, unexpired, accepted, granted>>

\* Mutant of ClearToken: the retry starts with the token that was refused.
ClearTokenKept(c) ==
    /\ mu = Free
    /\ Becomes(c, "clear", [call[c] EXCEPT !.at = "token", !.retried = TRUE])
    /\ UNCHANGED <<mu, token, unexpired, accepted, granted>>

\* The cached token is dropped, whichever it is by now, and the retry starts.
ClearToken(c) ==
    /\ mu = Free
    /\ Becomes(c, "clear", [call[c] EXCEPT !.at = "token", !.retried = TRUE])
    /\ token' = NoToken
    /\ UNCHANGED <<mu, unexpired, accepted, granted>>

ApiLocked(c)  == CachedToken(c) \/ AskToken(c) \/ ClearToken(c)
ApiReply(c) == Granted(c) \/ GrantFails(c) \/ Succeeds(c) \/ Fails(c) \/ Refused(c)

\* IGDB stops accepting a token before or after its expiry.
Revoke ==
    /\ \E t \in accepted : accepted' = accepted \ {t}
    /\ UNCHANGED <<mu, token, unexpired, granted, call>>

Expire ==
    /\ unexpired
    /\ unexpired' = FALSE
    /\ UNCHANGED <<mu, token, accepted, granted, call>>

-----------------------------------------------------------------------------
(* Properties *)

\* The one retry after a 401 is never spent on a token that is older than the
\* refusal, whoever refreshes or clears the cached token meanwhile.
RetryIsFresh ==
    \A c \in Callers :
        call[c].at = "sent" /\ call[c].retried =>
            call[c].tok = NoToken \/ call[c].tok > call[c].refusedAt

\* One caller at a time asks for a token; the others wait and share it.
OneTokenRequest ==
    \A c, d \in Callers : call[c].at = "grant" /\ call[d].at = "grant" => c = d
=============================================================================
