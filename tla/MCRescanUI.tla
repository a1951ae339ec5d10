---------------------------- MODULE MCRescanUI ----------------------------
EXTENDS RescanUI

MCGames == {1}
MCKeyOf == [g \in MCGames |-> g]
=============================================================================
