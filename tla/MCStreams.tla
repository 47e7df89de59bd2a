----------------------------- MODULE MCStreams ------------------------------
EXTENDS Streams

MCMaxes == {-1, 0, 2}
=============================================================================
