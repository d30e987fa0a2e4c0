SPECIFICATION Spec
CONSTANTS
    req1 = req1
    req2 = req2
    req3 = req3
    code1 = code1
    code2 = code2
    Requests <- MCRequests
    Codes <- MCCodes
    Expires = 2
    MaxTime = 3
    None = None
INVARIANT FreshMobileGetsCode
CHECK_DEADLOCK FALSE
