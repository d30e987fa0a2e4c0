----------------------------- MODULE VerifyCodes -----------------------------
(***************************************************************************)
(* The mobile verify codes of auth/identities.go: GenVerifyCode and        *)
(* GetVerifyCode, called by concurrent request handlers for one            *)
(* (client_id, mobile) key, over the gorm repository of                    *)
(* repository/gorm.go.  The verify_codes table holds at most one row per   *)
(* key (the two fields are its primary key), so one key is one row.        *)
(***************************************************************************)
EXTENDS Naturals, Sequences

CONSTANTS
    Requests,   \* concurrent request handlers
    Codes,      \* values GenVerifyCode() may draw
    Expires,    \* codeExpires, in clock ticks
    MaxTime,    \* last clock tick explored
    None

ASSUME Expires \in Nat \ {0} /\ MaxTime \in Nat /\ None \notin Codes

Rows == [code : Codes, expireAt : 0..(MaxTime + Expires)]

\* What a call returned: a code, the empty string with a nil error, or an
\* error.
Results == Codes \cup {"empty", "error"}

VARIABLES
    row,      \* the verify_codes row of the key, or None
    now,      \* time.Now(), in ticks
    pc,       \* each handler's position
    c,        \* the handler's *VerifyCode built by NewVerifyCode
    result,   \* what the call returned, None while it runs
    issued    \* codes GenVerifyCode returned, in the order it returned them

vars == <<row, now, pc, c, result, issued>>

Labels == {"idle", "gen_write", "get_delete", "get_read", "done"}

TypeOK ==
    /\ row \in Rows \cup {None}
    /\ now \in 0..MaxTime
    /\ pc \in [Requests -> Labels]
    /\ c \in [Requests -> Rows \cup {None}]
    /\ result \in [Requests -> Results \cup {None}]
    /\ issued \in Seq(Codes)

\* Rows already in the table were written at some earlier time 0.
Init ==
    /\ row \in {None} \cup {r \in Rows : r.expireAt = Expires}
    /\ now = 0
    /\ pc = [r \in Requests |-> "idle"]
    /\ c = [r \in Requests |-> None]
    /\ result = [r \in Requests |-> None]
    /\ issued = <<>>

-----------------------------------------------------------------------------
(* The verify code and the gorm calls, repository/gorm.go.               *)

\* NewVerifyCode: the key, a drawn code, and an expiry `duration` from now.
NewVerifyCode(code) == [code |-> code, expireAt |-> now + Expires]

\* Exists(c) with no params: First(c, params) by c's primary key;
\* RowsAffected > 0, and ErrRecordNotFound when there is no row.
ExistsResult == [found |-> row # None, err |-> row = None]

\* Update(c): Updates(c) writes c's fields into the row with c's key;
\* with no such row nothing changes and no error is returned.
Updated(v) == IF row = None THEN None ELSE v

\* Delete(c, "expire_at< ?", now): the params slice is one condition that
\* gorm reads as primary-key values, so the expiry test never reaches
\* SQL.  Nothing is deleted, or the database rejects the statement.
DeleteOutcomes == {"ok", "error"}

\* Get(c): First(c) by the primary key; no row is ErrRecordNotFound.
GetResult == IF row = None THEN [err |-> TRUE] ELSE [err |-> FALSE, code |-> row.code]

Return(r, v) ==
    /\ pc' = [pc EXCEPT ![r] = "done"]
    /\ result' = [result EXCEPT ![r] = v]

-----------------------------------------------------------------------------
(* GenVerifyCode, lines 38-45: NewVerifyCode draws a code that expires    *)
(* codeExpires from now, then Exists looks the key up.  Not found is an   *)
(* error and the call returns it; the Add branch is never reached.        *)
GenExists(r) ==
    /\ pc[r] = "idle"
    /\ \E code \in Codes : c' = [c EXCEPT ![r] = NewVerifyCode(code)]
    /\ IF ExistsResult.err
         THEN Return(r, "error")
         ELSE pc' = [pc EXCEPT ![r] = "gen_write"] /\ UNCHANGED result
    /\ UNCHANGED <<row, now, issued>>

\* GenVerifyCode, lines 45-55: Update(c) writes the row if it is still
\* there, and the code is returned; a database error is returned instead.
GenWrite(r) ==
    /\ pc[r] = "gen_write"
    /\ \/ /\ row' = Updated(c[r])
          /\ Return(r, c[r].code)
          /\ issued' = Append(issued, c[r].code)
       \/ /\ Return(r, "error")
          /\ UNCHANGED <<row, issued>>
    /\ UNCHANGED <<now, c>>

(* GetVerifyCode, lines 60-71: an empty client id or mobile is refused   *)
(* before any store call.                                                 *)
GetRefused(r) ==
    /\ pc[r] = "idle"
    /\ Return(r, "error")
    /\ UNCHANGED <<row, now, c, issued>>

GetBegin(r) ==
    /\ pc[r] = "idle"
    /\ pc' = [pc EXCEPT ![r] = "get_delete"]
    /\ UNCHANGED <<row, now, c, result, issued>>

\* GetVerifyCode, lines 73-75: the expiry delete removes nothing; if the
\* database rejects the statement the call returns its error.
GetDelete(r) ==
    /\ pc[r] = "get_delete"
    /\ \E out \in DeleteOutcomes :
         IF out = "ok" THEN pc' = [pc EXCEPT ![r] = "get_read"] /\ UNCHANGED result
         ELSE Return(r, "error")
    /\ UNCHANGED <<row, now, c, issued>>

\* GetVerifyCode, lines 77-81: Get reads the row; not found returns ""
\* with a nil error.  The row is left in the table.
GetRead(r) ==
    /\ pc[r] = "get_read"
    /\ Return(r, IF GetResult.err THEN "empty" ELSE GetResult.code)
    /\ c' = [c EXCEPT ![r] = row]
    /\ UNCHANGED <<row, now, issued>>

\* The clock advances.
Tick ==
    /\ now < MaxTime
    /\ now' = now + 1
    /\ UNCHANGED <<row, pc, c, result, issued>>

Next ==
    \/ \E r \in Requests :
         GenExists(r) \/ GenWrite(r) \/ GetRefused(r) \/ GetBegin(r)
         \/ GetDelete(r) \/ GetRead(r)
    \/ Tick

Spec == Init /\ [][Next]_vars

-----------------------------------------------------------------------------
\* GenVerifyCode issues a code to a mobile that has none: the test
\* TestVerifyCode expects GenVerifyCode on a fresh client and mobile to
\* succeed, and GetVerifyCode to return the same code.  A GenVerifyCode
\* that returned an error (it drew a code into c, so it is not a
\* GetVerifyCode) must have met a row; no step removes a row.
FreshMobileGetsCode ==
    \A r \in Requests :
         pc[r] = "done" /\ c[r] # None /\ result[r] = "error" => row # None

=============================================================================
