---------------------------- MODULE MCBackfiller ----------------------------
EXTENDS Backfiller

CONSTANTS oak, elm
=============================================================================
