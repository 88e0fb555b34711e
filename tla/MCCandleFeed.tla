---------------------------- MODULE MCCandleFeed ----------------------------
EXTENDS CandleFeed
=============================================================================
