------------------------------ MODULE IgdbSearch ------------------------------
(***************************************************************************)
(* What fetchOne of internal/details does between its look at the cache    *)
(* and its writes: search with the variants of the game's name, then the   *)
(* details of the match.  Every query is an apiRequest (IgdbApi).          *)
(***************************************************************************)
EXTENDS IgdbApi, Names

CONSTANTS
    RawNames,  \* names of ROM files without extension
    Answers    \* what IGDB may list for a query: its titles, each by how it
               \* compares with the name searched for

ASSUME SearchAssumption == Answers \subseteq Seq({"exact", "folded", "other"})

VARIABLE
    search     \* the fetchOne of each caller

vars == <<apiVars, search>>

\* wanted, asked and answers are history: the queries that the name calls for,
\* those made so far and their answers.
NoSearch == [at |-> "idle", plan |-> <<>>, wanted |-> {}, asked |-> <<>>, answers |-> <<>>,
             match |-> 0, verdict |-> "none"]

\* Every variant of the name without a constraint, and with it where the console
\* has platform IDs.
Wanted(name, ids) ==
    [name : Range(NameVariants(name)), constrained : IF ids THEN BOOLEAN ELSE {FALSE}]

\* Mutant of Plan: a console with platform IDs is searched with them only.
PlanEither(name, ids) ==
    [i \in DOMAIN NameVariants(name) |->
        [name |-> NameVariants(name)[i], constrained |-> ids]]

\* search: every variant with the platform constraint, if the console has
\* platform IDs, then every variant without.
Plan(name, ids) ==
    LET queries(constrained) ==
            [i \in DOMAIN NameVariants(name) |->
                [name |-> NameVariants(name)[i], constrained |-> constrained]]
    IN  (IF ids THEN queries(TRUE) ELSE <<>>) \o queries(FALSE)

\* Mutant of Match: the first result is taken for every query.
MatchAny(answer, constrained) ==
    LET First(grade) == SelectInSeq(answer, LAMBDA g : g = grade)
    IN  CASE First("exact") > 0 -> First("exact")
          [] First("exact") = 0 /\ First("folded") > 0 -> First("folded")
          [] OTHER -> IF answer # <<>> THEN 1 ELSE 0

\* SearchGame: the title listed first among the equal ones ("exact"), else
\* among those equal but for diacritics ("folded"); else the first of all, if
\* the query was constrained to platforms.  0 is no match.
Match(answer, constrained) ==
    LET First(grade) == SelectInSeq(answer, LAMBDA g : g = grade)
    IN  CASE First("exact") > 0 -> First("exact")
          [] First("exact") = 0 /\ First("folded") > 0 -> First("folded")
          [] OTHER -> IF constrained /\ answer # <<>> THEN 1 ELSE 0

Init == ApiInit /\ search = [c \in Callers |-> NoSearch]

Goto(c, from, with) ==
    /\ search[c].at = from
    /\ search' = [search EXCEPT ![c] = with]

\* fetchOne found nothing in the cache for a name that is safe in a path.
Start(c) ==
    /\ \E raw \in RawNames, ids \in BOOLEAN :
          /\ CleanName(raw) # <<>>
          /\ Goto(c, "idle", [NoSearch EXCEPT !.at = "search",
                                              !.plan = Plan(CleanName(raw), ids),
                                              !.wanted = Wanted(CleanName(raw), ids)])
    /\ UNCHANGED apiVars

\* tryVariants: the next query of the plan.
Query(c) ==
    /\ search[c].plan # <<>>
    /\ Goto(c, "search", [search[c] EXCEPT !.plan = Tail(@),
                                           !.asked = Append(@, Head(search[c].plan))])
    /\ Request(c)

NoneLeft(c) ==
    /\ search[c].plan = <<>>
    /\ call[c].at = "idle"
    /\ Goto(c, "search", [search[c] EXCEPT !.at = "idle", !.verdict = "noMatch"])
    /\ UNCHANGED apiVars

Return(c) == Becomes(c, "answered", NoCall) /\ UNCHANGED <<mu, token, unexpired, accepted, granted>>

\* Mutant of QueryFails: the search goes on with the next variant.
QueryFailsOn(c) ==
    /\ ~call[c].ok
    /\ Return(c)
    /\ Goto(c, "search", [search[c] EXCEPT !.answers = Append(@, <<"none">>)])

\* Mutant of QueryFails: a query that failed is made again.
QueryFailsAgain(c) ==
    /\ ~call[c].ok
    /\ Return(c)
    /\ IF search[c].at = "details" THEN UNCHANGED search
       ELSE Goto(c, "search", [search[c] EXCEPT !.plan = <<Last(search[c].asked)>> \o @,
                                                !.asked = Front(@)])

\* An error ends the search without a verdict: the game is retried later.
QueryFails(c) ==
    /\ ~call[c].ok
    /\ Return(c)
    /\ Goto(c, search[c].at, [search[c] EXCEPT !.at = "idle", !.verdict = "error"])

\* A match ends the search, and the details of that game are asked for.
QueryAnswered(c) ==
    /\ call[c].ok
    /\ Return(c)
    /\ \E answer \in Answers :
          LET m == Match(answer, Last(search[c].asked).constrained)
          IN  Goto(c, "search",
                   [search[c] EXCEPT !.at = IF m = 0 THEN "search" ELSE "details",
                                     !.match = m,
                                     !.answers = Append(@, answer)])

QueryDetails(c) ==
    /\ search[c].at = "details"
    /\ Request(c)
    /\ UNCHANGED search

\* FetchDetailsByID: the game, or nothing if IGDB no longer has it.
DetailsAnswered(c) ==
    /\ call[c].ok
    /\ Return(c)
    /\ \E v \in {"details", "gone"} :
          Goto(c, "details", [search[c] EXCEPT !.at = "idle", !.verdict = v])

Caller(c) ==
    \/ Query(c) \/ NoneLeft(c) \/ QueryFails(c) \/ QueryAnswered(c)
    \/ QueryDetails(c) \/ DetailsAnswered(c)

Next ==
    \/ \E c \in Callers :
          \/ Start(c) \/ Caller(c)
          \/ (ApiLocked(c) \/ ApiReply(c)) /\ UNCHANGED search
    \/ (Revoke \/ Expire) /\ UNCHANGED search

\* The client's timeout ends every exchange; sync.Mutex starves no waiter.
Fairness ==
    \A c \in Callers :
        /\ WF_vars(Caller(c))
        /\ WF_vars(ApiReply(c) /\ UNCHANGED search)
        /\ SF_vars(ApiLocked(c) /\ UNCHANGED search)

Spec == Init /\ [][Next]_vars /\ Fairness

-----------------------------------------------------------------------------
(* Properties *)

TypeOK ==
    /\ ApiTypeOK
    /\ \A c \in Callers :
          /\ search[c].at \in {"idle", "search", "details"}
          /\ search[c].verdict \in {"none", "noMatch", "error", "details", "gone"}
          /\ Len(search[c].answers) <= Len(search[c].asked)
          /\ search[c].at = "details" => search[c].match > 0

\* How good a title is as a match; 0 is not acceptable.
Rank(grade, constrained) ==
    CASE grade = "exact" -> 3 [] grade = "folded" -> 2
      [] OTHER -> IF constrained THEN 1 ELSE 0

\* A game is declared absent from IGDB, and tombstoned for good, only if every
\* variant of its name was searched, with and without the constraint, and
\* every query was answered without a match: none is left out, and no failure
\* counts as an answer.
NoMatchMeansAllAnswered ==
    \A c \in Callers :
        LET s == search[c]
        IN  s.verdict = "noMatch" =>
                /\ Range(s.asked) = s.wanted
                /\ Len(s.answers) = Len(s.asked)
                /\ \A i \in DOMAIN s.asked :
                      /\ s.answers[i] \in Answers
                      /\ \A g \in Range(s.answers[i]) : Rank(g, s.asked[i].constrained) = 0

\* The match is a title of the first query that listed an acceptable one, and
\* no title of that query is better, nor as good and listed before it; a title
\* that differs is never accepted from an unconstrained query.
FirstMatchWins ==
    \A c \in Callers :
        LET s == search[c]
            n == Len(s.answers)
            R(i, j) == Rank(s.answers[i][j], s.asked[i].constrained)
        IN  s.match > 0 =>
                /\ R(n, s.match) > 0
                /\ \A j \in DOMAIN s.answers[n] :
                      R(n, j) <= R(n, s.match) /\ (j < s.match => R(n, j) < R(n, s.match))
                /\ \A i \in 1 .. n - 1 : \A j \in DOMAIN s.answers[i] : R(i, j) = 0

\* The platform's own games come first: nothing is searched without the
\* constraint as long as a constrained query is left, and none is repeated.
QueriesOrdered ==
    \A c \in Callers :
        LET s == search[c].asked \o search[c].plan
        IN  \A i, j \in DOMAIN s :
                i < j => s[i] # s[j] /\ (s[j].constrained => s[i].constrained)

\* Every search ends, whatever IGDB answers and however often tokens are lost.
SearchEnds == \A c \in Callers : search[c].at # "idle" ~> search[c].at = "idle"
=============================================================================
