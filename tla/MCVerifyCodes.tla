---------------------------- MODULE MCVerifyCodes ----------------------------
EXTENDS VerifyCodes

CONSTANTS req1, req2, req3, code1, code2

MCRequests == {req1, req2, req3}
MCCodes == {code1, code2}
=============================================================================
