\* The jwt and paseto set-ups of the tests and a few more; one user; time
\* runs to tick 4, past every access token's expiry.
SPECIFICATION Spec
CONSTANTS
    Configs <- MCConfigs
    Pem <- MCPem
    KeySize <- MCKeySize
    Users = {"u1"}
    JwtExpiresIn = 2
    JwtRefreshExpiresIn = 3
    RandKey = "rand32"
    Forged <- MCForged
    MaxNow = 4
    None = None
INVARIANT InspectRejectsExpired
