----------------------------- MODULE MCDelivery -----------------------------
EXTENDS Delivery

\* Two mishaps with one task, one mishap with more.
MCNext == Next /\ (Cardinality(started') > 1 => timeouts' + faults' <= 1)

MCSpec == Init /\ [][MCNext]_vars
=============================================================================
