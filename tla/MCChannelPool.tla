--------------------------- MODULE MCChannelPool ---------------------------
EXTENDS ChannelPool
CONSTANTS c1, c2, j1, j2, g1, g2
=============================================================================
