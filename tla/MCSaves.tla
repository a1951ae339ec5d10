------------------------------- MODULE MCSaves -------------------------------
EXTENDS Saves

CONSTANT First   \* the page whose game starts twice

MCStarts == [p \in Pages |-> IF p = First THEN 2 ELSE 1]
=============================================================================
