------------------------------ MODULE MCPlayer ------------------------------
EXTENDS Player

\* An input of both media whose audio changes its parameters on the way.
MCPackets == <<"audio", "video", "audio", "video", "audio">>
MCFormat == [k \in {1, 3, 5} |-> IF k = 5 THEN "flt" ELSE "s16"]

\* A shorter one, still enough to fill both bounded queues.
MCShort == <<"audio", "video", "video", "audio">>
MCShortFormat == [k \in {1, 4} |-> "s16"]
=============================================================================
