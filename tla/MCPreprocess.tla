---------------------------- MODULE MCPreprocess ----------------------------
EXTENDS Preprocess

\* Parameters a client may send: legal, zero, negative, overlap >= size.
MCGiven == -1..4
=============================================================================
