--------------------------- MODULE MCRedisBuffer ---------------------------
EXTENDS RedisBuffer

CONSTANTS a, b

\* The second event is one of a subclass.
MCTyped == {2}

\* The second subscriber is a slow one: it takes nothing.  Nobody subscribes
\* after close(); a listener that it passed over goes on.
MCNext == Next /\ ~Take(b) /\ (closer = "closed" => UNCHANGED registered)

MCSpec == Init /\ [][MCNext]_vars /\ Fairness
=============================================================================
