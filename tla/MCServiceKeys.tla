----------------------------- MODULE MCServiceKeys -----------------------------
EXTENDS ServiceKeys

CONSTANTS inst1, inst2

MCInstances == {inst1, inst2}
=============================================================================
