----------------------------- MODULE MCLibrary -----------------------------
EXTENDS Library

MCGames == {1, 2}

OwnKeys == [g \in MCGames |-> IF g = 1 THEN "alpha" ELSE "beta"]

\* Three games with keys of their own: what it takes to save a game in each
\* of the three iterations.
Three == {1, 2, 3}
ThreeKeys == [g \in Three |-> g]

\* The first start of a server, with all the ROM files and no files of its
\* own yet, and with nobody editing them meanwhile.
FirstInit ==
    /\ Init
    /\ configured = TRUE
    /\ roms = Games
    /\ covers = {} /\ details = {} /\ notFound = {} /\ thumbs = {}

FirstSpec == FirstInit /\ [][ServerNext]_vars /\ Fairness

\* Any start, after which nobody touches the files.
QuietSpec == Init /\ [][ServerNext]_vars /\ Fairness
=============================================================================
