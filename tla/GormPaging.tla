------------------------------ MODULE GormPaging ------------------------------
(***************************************************************************)
(* The paging state of the gorm repository (repository/gorm.go).  One     *)
(* gormRepos is shared by every caller; Limit and Skip store their         *)
(* argument in its limit and skip fields and return the repository, so a  *)
(* caller writes r.Limit(n).Skip(m).All(&rows).  All pages its Find with   *)
(* the fields and then zeroes them; Query pages its Find and its Count     *)
(* with them and leaves them as they are.                                  *)
(*                                                                         *)
(* Each handler makes one paged call.  Its own arguments are chosen when  *)
(* it starts; 0 stands for "Limit (or Skip) not called", which is also    *)
(* the fields' zero value.  Each field access is a step of its own: the   *)
(* fields are plain ints read and written without a lock.                  *)
(*                                                                         *)
(* A login is a caller too: idManager.Valid (auth/identities.go) looks the *)
(* identity up with Get, which is a Query that never calls Limit or Skip,  *)
(* and then compares the password with the row's secret.  The identity    *)
(* exists and the password is right; the table has that one matching row. *)
(***************************************************************************)
EXTENDS Naturals

CONSTANTS
    Handlers,   \* request handlers sharing the repository
    Pages,      \* page sizes and offsets callers pass (positive)
    UseQuery,   \* callers may page Query as well as All
    Overlap     \* calls of different handlers may interleave

ASSUME 0 \notin Pages /\ UseQuery \in BOOLEAN /\ Overlap \in BOOLEAN

Paging == [limit : {0} \cup Pages, skip : {0} \cup Pages]
Methods == IF UseQuery THEN {"all", "query", "valid"} ELSE {"all", "valid"}

VARIABLES
    limit, skip,   \* gormRepos.limit, gormRepos.skip
    pc,            \* each handler's position
    want,          \* the Limit / Skip arguments of the handler's call
    method,        \* "all" or "query"
    used,          \* the paging the handler's Find ran with, or a 0 limit
                   \* and skip before it ran
    answer         \* what Valid returned to a login, None before

vars == <<limit, skip, pc, want, method, used, answer>>

Labels == {"idle", "set_limit", "set_skip", "find", "reset", "count",
           "compare", "done"}
None == "none"
Answers == {None, "ok", "ErrWrongPassword"}
NotRun == [limit |-> 0, skip |-> 0]

TypeOK ==
    /\ limit \in {0} \cup Pages /\ skip \in {0} \cup Pages
    /\ pc \in [Handlers -> Labels]
    /\ want \in [Handlers -> Paging]
    /\ method \in [Handlers -> Methods]
    /\ used \in [Handlers -> Paging]
    /\ answer \in [Handlers -> Answers]

\* New returns &gormRepos{db: db}: both fields zero.
Init ==
    /\ limit = 0 /\ skip = 0
    /\ pc = [h \in Handlers |-> "idle"]
    /\ method \in [Handlers -> Methods]
    /\ want \in {w \in [Handlers -> Paging] :
                  \A h \in Handlers : method[h] = "valid" => w[h] = NotRun}
    /\ used = [h \in Handlers |-> NotRun]
    /\ answer = [h \in Handlers |-> None]

Goto(h, lbl) == pc' = [pc EXCEPT ![h] = lbl]

\* Without overlap a caller starts only when no other call is under way.
Begin(h) ==
    /\ pc[h] = "idle"
    /\ Overlap \/ \A o \in Handlers : pc[o] \in {"idle", "done"}
    /\ Goto(h, "set_limit")
    /\ UNCHANGED <<limit, skip, want, method, used, answer>>

\* Limit, lines 21-24, when the caller calls it.
SetLimit(h) ==
    /\ pc[h] = "set_limit"
    /\ limit' = IF want[h].limit # 0 THEN want[h].limit ELSE limit
    /\ Goto(h, "set_skip")
    /\ UNCHANGED <<skip, want, method, used, answer>>

\* Skip, lines 26-29, when the caller calls it.
SetSkip(h) ==
    /\ pc[h] = "set_skip"
    /\ skip' = IF want[h].skip # 0 THEN want[h].skip ELSE skip
    /\ Goto(h, "find")
    /\ UNCHANGED <<limit, want, method, used, answer>>

\* All, line 65, and Query, lines 76-79: Find with Limit(r.limit) and
\* Offset(r.skip).
Find(h) ==
    /\ pc[h] = "find"
    /\ used' = [used EXCEPT ![h] = [limit |-> limit, skip |-> skip]]
    /\ Goto(h, IF method[h] = "all" THEN "reset" ELSE "count")
    /\ UNCHANGED <<limit, skip, want, method, answer>>

\* All, lines 66-67: the fields go back to zero.
Reset(h) ==
    /\ pc[h] = "reset"
    /\ limit' = 0 /\ skip' = 0
    /\ Goto(h, "count")
    /\ UNCHANGED <<want, method, used, answer>>

\* All, lines 68-72, and Query, lines 80-91: the count query; it changes
\* no field.  Get (identities.go 93-108) then returns the row it found, or
\* a zero Identity, as Find reports no error for an empty result.
Count(h) ==
    /\ pc[h] = "count"
    /\ Goto(h, IF method[h] = "valid" THEN "compare" ELSE "done")
    /\ UNCHANGED <<limit, skip, want, method, used, answer>>

\* The one matching row is in the page a Find with this paging returns:
\* no offset (a limit of 0 is no limit, and any other keeps one row).
RowInPage(p) == p.skip = 0

\* Valid, identities.go 24-34: Get's error would be ErrUserNotFound, but a
\* zero Identity comes back without one, and bcrypt refuses its empty
\* secret.
Compare(h) ==
    /\ pc[h] = "compare"
    /\ answer' = [answer EXCEPT ![h] =
                     IF RowInPage(used[h]) THEN "ok" ELSE "ErrWrongPassword"]
    /\ Goto(h, "done")
    /\ UNCHANGED <<limit, skip, want, method, used>>

Next ==
    \E h \in Handlers :
        Begin(h) \/ SetLimit(h) \/ SetSkip(h) \/ Find(h) \/ Reset(h)
        \/ Count(h) \/ Compare(h)

Spec == Init /\ [][Next]_vars

-----------------------------------------------------------------------------
\* A user who exists and gives the right password is let in: Valid never
\* answers a login with ErrWrongPassword, whatever other handlers page.
ValidAcceptsUser ==
    \A h \in Handlers : method[h] = "valid" => answer[h] \in {None, "ok"}

=============================================================================
