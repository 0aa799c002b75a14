-------------------------------- MODULE MCSmp --------------------------------
\* Smp with two timers, the first at half the speed of the last.
EXTENDS Smp

MCFrequency == [t \in {0, 2} |-> IF t = 0 THEN 4 ELSE 2]
\* A cycle, and a "glitchy" one that is longer than its ticks
MCWaits == {<<1, 1>>, <<3, 2>>}
=============================================================================
