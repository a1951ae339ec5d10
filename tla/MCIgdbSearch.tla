----------------------------- MODULE MCIgdbSearch -----------------------------
EXTENDS IgdbSearch

\* "Tetris (tag) # hash": one variant; "Sim City - Classic": four.
MCRawNames == {<<"Tetris", Tag, Hash>>, <<"Sim", Space, "City", Dash, "Classic", Tag>>}

MCAnswers == {<<>>, <<"other">>, <<"folded", "exact">>, <<"other", "folded">>}
=============================================================================
