-------------------------- MODULE MCNetstackEgress --------------------------
EXTENDS NetstackEgress

CONSTANTS a, b, c, d

\* Two long and two short packets.
MCSize == [p \in Packet |-> IF p \in {a, c} THEN 2 ELSE 1]
=============================================================================
