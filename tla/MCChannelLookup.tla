--------------------------- MODULE MCChannelLookup ---------------------------
(* Two generations of one channel and another channel, found by id.        *)
EXTENDS ChannelLookup

CONSTANTS first, second, other, a, b

MCScript == {first, second, other}
MCId     == {a, b}
MCIdOf   == [s \in MCScript |-> IF s = other THEN b ELSE a]
=============================================================================
