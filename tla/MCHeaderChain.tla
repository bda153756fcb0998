--------------------------- MODULE MCHeaderChain ---------------------------
(* Model of HeaderChain for TLC. *)
EXTENDS HeaderChain

\* Every count up to the whole chain, and in every second block one that wraps.
WrappedCount(hs) == IF hs.block_num % 2 = 0 THEN {hs.block_num + 2} ELSE {}

AnyCount(hs, producer) == 0..hs.block_num \cup WrappedCount(hs)

\* producer_plugin: all blocks since the producer's last one, or none when the
\* node has lost its watermark.
WatermarkOf(hs, producer) ==
    IF producer \in DOMAIN hs.producer_to_last_produced
    THEN hs.producer_to_last_produced[producer] ELSE hs.block_num

SinceWatermark(hs, producer) == {hs.block_num - WatermarkOf(hs, producer)}

ThreeOrTwo == {<<"a", "b", "c">>, <<"a", "b">>}
FourThreeNone == {<<"a", "b", "c", "d">>, <<"a", "b", "c">>, <<>>}
=============================================================================
