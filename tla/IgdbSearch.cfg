SPECIFICATION Spec
CONSTANTS
    Callers = {c1}
    Free = free
    MaxTokens = 2
    RawNames <- MCRawNames
    Answers <- MCAnswers
INVARIANTS
    RetryIsFresh
    NoMatchMeansAllAnswered
    FirstMatchWins
    QueriesOrdered
PROPERTIES
    SearchEnds
