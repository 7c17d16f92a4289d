----------------------------- MODULE UserAccess -----------------------------
(***************************************************************************)
(* The rows of the users, the administrators that change them, one API     *)
(* token per user, the copies of both in Redis, and the two ways in: the   *)
(* session or access token of the dashboard (authHelper) and the API token *)
(* of the relay (TokenAuth).                                               *)
(*                                                                         *)
(* User.Update writes every non-zero field of a copy of the row that the   *)
(* handler read before, status and role included.  A reader that misses    *)
(* the cache fills it from a goroutine of its own.  Redis is in use.       *)
(* Passwords, groups, quotas and settings are left out.                    *)
(***************************************************************************)
EXTENDS Integers, FiniteSets

CONSTANTS
    Root, Users,    \* the account of the setup; the others
    Clients,        \* the users with an API token, whose copies in Redis are followed
    MaxCalls,       \* bound on calls of the dashboard
    MaxJobs,        \* bound on goroutines that wait to write the cache
    None

Guest == 0
Common == 1
Admin == 10
RootRole == 100
All == Users \cup {Root}
Roles == {Common, Admin, RootRole}
Rows == [role : Roles, status : {"enabled", "disabled"}, live : BOOLEAN]
Sessions == [role : Roles, status : {"enabled", "disabled"}]

ASSUME AccountsAssumption == Root \notin Users /\ None \notin Rows /\ None \notin Sessions

VARIABLES
    user,       \* [All]: [role, status, live] of the row, or None
    session,    \* [All]: role and status stored in the session, or None
    access,     \* users with an access token for the dashboard
    token,      \* [Clients]: status of the API token, or None
    ucache,     \* [Clients]: status in the hash user:<id>, or None
    tcache,     \* [Clients]: status in the hash token:<hmac>, or None
    jobs,       \* goroutines that will write the cache: [kind, of, status]
    edit,       \* [All, Slots]: a handler between reading and writing the row
    req,        \* [Clients]: the relay request of the user
    calls,      \* number of calls of the dashboard
    redis,      \* common.RedisEnabled
    granted     \* history: users that root made administrators

tables == <<user, session, access, token>>
caches == <<ucache, tcache, jobs>>
history == granted
vars == <<tables, caches, edit, req, calls, redis, history>>

Slots == {"self", "admin"}
NoEdit == [pc |-> "idle", row |-> None, act |-> "none"]

Init ==
    /\ user = [x \in All |-> None] /\ session = [x \in All |-> None] /\ access = {}
    /\ token = [x \in Clients |-> None]
    /\ ucache = [x \in Clients |-> None] /\ tcache = [x \in Clients |-> None] /\ jobs = {}
    /\ edit = [x \in All |-> [s \in Slots |-> NoEdit]]
    /\ req = [x \in Clients |-> "idle"]
    /\ calls = 0 /\ redis \in BOOLEAN /\ granted = {}

\* The default scope of gorm: rows that are not soft-deleted.
Live(x) == user[x] # None /\ user[x].live
Usable(x) == Live(x) /\ user[x].status = "enabled"

Call == calls < MaxCalls /\ calls' = calls + 1
NewRow(role) == [role |-> role, status |-> "enabled", live |-> TRUE]

-----------------------------------------------------------------------------
(* Accounts.                                                               *)

PostSetup ==
    /\ user[Root] = None
    /\ user' = [user EXCEPT ![Root] = NewRow(RootRole)]
    /\ UNCHANGED <<session, access, token, caches, edit, req, calls, redis, history>>

\* Register; with GenerateDefaultToken the user has a token at once.
Register(x) ==
    /\ user[Root] # None /\ user[x] = None
    /\ user' = [user EXCEPT ![x] = NewRow(Common)]
    /\ \/ UNCHANGED token
       \/ x \in Clients /\ token' = [token EXCEPT ![x] = "enabled"]
    /\ UNCHANGED <<session, access, caches, edit, req, calls, redis, history>>

\* ValidateAndFill and setupLogin: the session keeps the role and status of this moment.
setupLogin(x) ==
    /\ Usable(x) /\ session[x] = None
    /\ session' = [session EXCEPT ![x] = [role |-> user[x].role, status |-> user[x].status]]
    /\ UNCHANGED <<user, access, token, caches, edit, req, calls, redis, history>>

Logout(x) ==
    /\ session[x] # None /\ session' = [session EXCEPT ![x] = None]
    /\ UNCHANGED <<user, access, token, caches, edit, req, calls, redis, history>>

\* authHelper: the session as it was stored, else the row the access token names.
authHelper(x, minRole) ==
    LET who == IF session[x] # None THEN session[x]
               ELSE IF x \in access /\ Live(x) THEN user[x] ELSE None
    IN  who # None /\ who.status = "enabled" /\ who.role >= minRole
MyRole(x) ==
    IF session[x] # None THEN session[x].role ELSE IF Live(x) THEN user[x].role ELSE Guest

-----------------------------------------------------------------------------
(* User.Update, in its three steps.                                        *)

ToSlot(x, s, pc, row, act) ==
    edit' = [edit EXCEPT ![x][s] = [pc |-> pc, row |-> row, act |-> act]]

\* The fields are taken from the copy; a row that is gone is not changed.
UpdateRow(x, s) ==
    /\ edit[x][s].pc = "update"
    /\ user' = IF Live(x)
               THEN [user EXCEPT ![x] = [edit[x][s].row EXCEPT !.live = TRUE]] ELSE user
    /\ edit' = [edit EXCEPT ![x][s].pc = "cache"]
    /\ UNCHANGED <<session, access, token, caches, req, calls, redis, history>>

\* updateUserCache(*user), whether or not the row was found.
updateUserCache(x, s) ==
    /\ edit[x][s].pc = "cache"
    /\ ucache' = IF redis /\ x \in Clients THEN [ucache EXCEPT ![x] = edit[x][s].row.status] ELSE ucache
    /\ edit' = [edit EXCEPT ![x][s].pc =
                    IF edit[x][s].act \in {"disable", "promote", "demote"}
                    THEN "invalidate" ELSE "done"]
    /\ UNCHANGED <<tables, tcache, jobs, req, calls, redis, history>>

\* InvalidateUserCache and InvalidateUserTokensCache at the end of ManageUser.
InvalidateUserTokensCache(x, s) ==
    /\ edit[x][s].pc = "invalidate"
    /\ ucache' = [ucache EXCEPT ![x] = None]
    /\ tcache' = [tcache EXCEPT ![x] = None]
    /\ edit' = [edit EXCEPT ![x][s] = NoEdit]
    /\ UNCHANGED <<tables, jobs, req, calls, redis, history>>

Answer(x, s) ==
    /\ edit[x][s].pc = "done" /\ edit' = [edit EXCEPT ![x][s] = NoEdit]
    /\ UNCHANGED <<tables, caches, req, calls, redis, history>>

-----------------------------------------------------------------------------
(* Handlers of the user's own row.                                         *)

\* The row is read; what the handler changes is not part of the model.
SelfEdit(x) ==
    /\ authHelper(x, Common) /\ Live(x) /\ edit[x]["self"].pc = "idle"
    /\ Call
    /\ ToSlot(x, "self", "update", user[x], "none")
    /\ UNCHANGED <<user, session, token, caches, req, redis, history>>

UpdateSelf(x) == SelfEdit(x) /\ UNCHANGED access
UpdateUserSetting(x) == SelfEdit(x) /\ UNCHANGED access
EmailBind(x) == SelfEdit(x) /\ UNCHANGED access
GenerateAccessToken(x) == SelfEdit(x) /\ access' = access \cup {x}

\* Soft deletion; the tokens stay.
DeleteSelf(x) ==
    /\ authHelper(x, Common) /\ Call /\ Live(x) /\ user[x].role # RootRole
    /\ user' = [user EXCEPT ![x].live = FALSE]
    /\ ucache' = [ucache EXCEPT ![x] = None]
    /\ UNCHANGED <<session, access, token, tcache, jobs, edit, req, redis, history>>

-----------------------------------------------------------------------------
(* Handlers of the administrators.                                         *)

AdminCall(a) == authHelper(a, Admin) /\ Call

\* An equal or higher account is out of reach, except for root.
MayManage(a, x) == MyRole(a) > user[x].role \/ MyRole(a) = RootRole

\* No comparison with the caller's own role.
CreatableRole_Any(a, role) == role \in {Common, Admin}
CreatableRole(a, role) == role \in {Common, Admin} /\ role < MyRole(a)

CreateUser(a, x) ==
    /\ AdminCall(a) /\ user[x] = None
    /\ \E role \in {Common, Admin} :
         /\ CreatableRole(a, role)
         /\ user' = [user EXCEPT ![x] = NewRow(role)]
         /\ granted' = IF role = Admin /\ MyRole(a) = RootRole THEN granted \cup {x} ELSE granted
    /\ UNCHANGED <<session, access, token, caches, edit, req, redis>>

\* UpdateUser: Edit writes other columns, and the cache from the row it read.
UpdateUser(a, x) ==
    /\ AdminCall(a) /\ Live(x) /\ MayManage(a, x) /\ edit[x]["admin"].pc = "idle"
    /\ ToSlot(x, "admin", "cache", user[x], "none")
    /\ UNCHANGED <<tables, caches, req, redis, history>>

\* AdminClearUserBinding: ClearBinding updates one column and reads the row again.
AdminClearUserBinding(a, x) == UpdateUser(a, x)

\* ManageUser reads the row, deleted or not, changes the copy and updates.
Manage(a, x, act, row) ==
    /\ AdminCall(a) /\ user[x] # None /\ MayManage(a, x) /\ edit[x]["admin"].pc = "idle"
    /\ ToSlot(x, "admin", "update", row, act)
    /\ UNCHANGED <<session, access, token, req, redis>>

ManageEnable(a, x) ==
    /\ user[x] # None /\ Manage(a, x, "enable", [user[x] EXCEPT !.status = "enabled"])
    /\ UNCHANGED <<user, caches, granted>>
ManageDisable(a, x) ==
    /\ user[x] # None /\ user[x].role # RootRole
    /\ Manage(a, x, "disable", [user[x] EXCEPT !.status = "disabled"])
    /\ UNCHANGED <<user, caches, granted>>
ManagePromote(a, x) ==
    /\ user[x] # None /\ MyRole(a) = RootRole /\ user[x].role < Admin
    /\ Manage(a, x, "promote", [user[x] EXCEPT !.role = Admin])
    /\ granted' = granted \cup {x} /\ UNCHANGED <<user, caches>>
ManageDemote(a, x) ==
    /\ user[x] # None /\ user[x].role = Admin
    /\ Manage(a, x, "demote", [user[x] EXCEPT !.role = Common])
    /\ UNCHANGED <<user, caches, granted>>

\* The deletion clears both caches and then goes on to User.Update like the others.
ManageDelete(a, x) ==
    /\ user[x] # None /\ user[x].role # RootRole
    /\ Manage(a, x, "delete", user[x])
    /\ user' = [user EXCEPT ![x].live = FALSE]
    /\ ucache' = [ucache EXCEPT ![x] = None] /\ tcache' = [tcache EXCEPT ![x] = None]
    /\ UNCHANGED <<jobs, granted>>

\* HardDeleteUserById: the row is gone, the cache is not told.
DeleteUser(a, x) ==
    /\ AdminCall(a) /\ Live(x) /\ MyRole(a) > user[x].role
    /\ user' = [user EXCEPT ![x] = None]
    /\ UNCHANGED <<session, access, token, caches, edit, req, redis, history>>

-----------------------------------------------------------------------------
(* API tokens.                                                             *)

Enqueue(kind, x, status) ==
    /\ redis => Cardinality(jobs) < MaxJobs
    /\ jobs' = IF redis THEN jobs \cup {[kind |-> kind, of |-> x, status |-> status]} ELSE jobs

\* CountUserTokens is below the limit, here one.
AddToken(x) ==
    /\ x \in Clients /\ authHelper(x, Common) /\ Call /\ token[x] = None
    /\ token' = [token EXCEPT ![x] = "enabled"]
    /\ UNCHANGED <<user, session, access, caches, edit, req, redis, history>>

\* The row at once, the cache from a goroutine.
UpdateToken(x, status) ==
    /\ x \in Clients /\ authHelper(x, Common) /\ Call /\ token[x] \notin {None, status}
    /\ token' = [token EXCEPT ![x] = status]
    /\ Enqueue("token", x, status)
    /\ UNCHANGED <<user, session, access, ucache, tcache, edit, req, redis, history>>

DeleteToken(x) ==
    /\ x \in Clients /\ authHelper(x, Common) /\ Call /\ token[x] # None
    /\ token' = [token EXCEPT ![x] = None]
    /\ Enqueue("token", x, None)
    /\ UNCHANGED <<user, session, access, ucache, tcache, edit, req, redis, history>>

DeleteTokenBatch(x) == DeleteToken(x)

\* The goroutines of cacheSetToken, cacheDeleteToken and GetUserCache.
RunJob(j) ==
    /\ jobs' = jobs \ {j}
    /\ IF j.kind = "token" THEN tcache' = [tcache EXCEPT ![j.of] = j.status] /\ UNCHANGED ucache
       ELSE ucache' = [ucache EXCEPT ![j.of] = j.status] /\ UNCHANGED tcache
    /\ UNCHANGED <<tables, edit, req, calls, redis, history>>

\* The keys expire.
ExpireUserKey(x) ==
    /\ ucache[x] # None /\ ucache' = [ucache EXCEPT ![x] = None]
    /\ UNCHANGED <<tables, tcache, jobs, edit, req, calls, redis, history>>
ExpireTokenKey(x) ==
    /\ tcache[x] # None /\ tcache' = [tcache EXCEPT ![x] = None]
    /\ UNCHANGED <<tables, ucache, jobs, edit, req, calls, redis, history>>

-----------------------------------------------------------------------------
(* TokenAuth.                                                              *)

\* ValidateUserToken: the hash, else the row, which then fills the hash.
GetTokenByKey(x) ==
    LET status == IF tcache[x] # None THEN tcache[x] ELSE token[x]
    IN  /\ req[x] = "idle" /\ status # None
        /\ req' = [req EXCEPT ![x] = IF status = "enabled" THEN "token" ELSE "refused"]
        /\ IF tcache[x] # None THEN UNCHANGED jobs ELSE Enqueue("token", x, status)
        /\ UNCHANGED <<tables, ucache, tcache, edit, calls, redis, history>>

\* A hit writes the hash again, so that it never expires under load.
GetUserCache_Renew(x) ==
    LET status == IF ucache[x] # None THEN ucache[x]
                  ELSE IF Live(x) THEN user[x].status ELSE None
    IN  /\ req[x] = "token"
        /\ req' = [req EXCEPT ![x] = IF status = "enabled" THEN "admitted" ELSE "refused"]
        /\ IF status = None THEN UNCHANGED jobs ELSE Enqueue("user", x, status)
        /\ UNCHANGED <<tables, ucache, tcache, edit, calls, redis, history>>

\* GetUserCache: the hash, else the row, which then fills the hash; without a row the
\* request is refused.
GetUserCache(x) ==
    LET status == IF ucache[x] # None THEN ucache[x]
                  ELSE IF Live(x) THEN user[x].status ELSE None
    IN  /\ req[x] = "token"
        /\ req' = [req EXCEPT ![x] = IF status = "enabled" THEN "admitted" ELSE "refused"]
        /\ IF ucache[x] # None \/ status = None THEN UNCHANGED jobs
           ELSE Enqueue("user", x, status)
        /\ UNCHANGED <<tables, ucache, tcache, edit, calls, redis, history>>

EndRequest(x) ==
    /\ req[x] \in {"admitted", "refused"} /\ req' = [req EXCEPT ![x] = "idle"]
    /\ UNCHANGED <<tables, caches, edit, calls, redis, history>>

-----------------------------------------------------------------------------
Manages(a, x) ==
    \/ ManageEnable(a, x) \/ ManageDisable(a, x) \/ ManagePromote(a, x) \/ ManageDemote(a, x)
    \/ ManageDelete(a, x) \/ DeleteUser(a, x) \/ UpdateUser(a, x)
    \/ AdminClearUserBinding(a, x)

Own(x) ==
    \/ setupLogin(x) \/ Logout(x)
    \/ UpdateSelf(x) \/ UpdateUserSetting(x) \/ EmailBind(x) \/ GenerateAccessToken(x)
    \/ DeleteSelf(x) \/ AddToken(x) \/ DeleteToken(x) \/ DeleteTokenBatch(x)
    \/ \E s \in {"enabled", "disabled"} : UpdateToken(x, s)

Saving(x, s) ==
    UpdateRow(x, s) \/ updateUserCache(x, s) \/ InvalidateUserTokensCache(x, s) \/ Answer(x, s)

Relay(x) == GetTokenByKey(x) \/ GetUserCache(x) \/ EndRequest(x)

Next ==
    \/ PostSetup
    \/ \E x \in Users : Register(x) \/ \E a \in All : CreateUser(a, x)
    \/ \E x \in All : Own(x)
    \/ \E x \in Clients : Relay(x) \/ ExpireUserKey(x) \/ ExpireTokenKey(x)
    \/ \E x \in All, a \in All : Manages(a, x)
    \/ \E x \in All, s \in Slots : Saving(x, s)
    \/ \E j \in jobs : RunJob(j)

Spec == Init /\ [][Next]_vars

\* Goroutines and handlers run on, requests end, and keys expire.
Fairness ==
    /\ WF_vars(\E j \in jobs : RunJob(j))
    /\ \A x \in All, s \in Slots : WF_vars(Saving(x, s))
    /\ \A x \in Clients :
          /\ WF_vars(GetUserCache(x)) /\ WF_vars(EndRequest(x))
          /\ WF_vars(ExpireUserKey(x)) /\ WF_vars(ExpireTokenKey(x))

-----------------------------------------------------------------------------
(* Properties.                                                             *)

\* Whatever users and administrators with old sessions and old copies of rows do to each
\* other, the root account stays in place and enabled, and nobody is an administrator
\* whom root did not make one.
RanksHeld ==
    \A x \in All : user[x] # None =>
        /\ x = Root => Usable(x) /\ user[x].role = RootRole
        /\ x # Root => user[x].role \in {Common, Admin}
        /\ x # Root /\ user[x].role = Admin => x \in granted

\* A user who is disabled or deleted for good is in the end refused by TokenAuth: copies
\* of the old status, those of goroutines that were late included, do not renew each other.
BlockedInTheEnd ==
    \A x \in Clients : <>[](~ Usable(x)) => <>[](req[x] # "admitted")
=============================================================================
