---------------------------- MODULE MCTurnstile ----------------------------
EXTENDS Turnstile, TLC

CONSTANTS w1, w2, w3

MCThread == {w1, w2, w3}
=============================================================================
