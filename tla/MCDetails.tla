------------------------------ MODULE MCDetails ------------------------------
EXTENDS Details

\* Two regional variants of one game, of which one has an unsafe name and can
\* only be looked up, and a game whose files go wrong.
MCGames == {1, 2, 3}
MCKeyOf == [g \in MCGames |-> IF g < 3 THEN "game" ELSE "broken"]
Broken  == {"broken"}

\* Files of an earlier process; its images matter only once they are used.
MCInit ==
    /\ Init
    /\ thumbs = {} /\ covers = {} /\ pics = {}

MCSpec == MCInit /\ [][Next]_vars
=============================================================================
