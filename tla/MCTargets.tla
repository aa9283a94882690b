------------------------------ MODULE MCTargets ------------------------------
EXTENDS Targets

CONSTANTS e, h, s, t, g

MCExported == {e}
MCStored == [x \in Shapes |-> IF x = g THEN s ELSE x]
==============================================================================
