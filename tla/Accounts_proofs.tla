--------------------------- MODULE Accounts_proofs --------------------------
(***************************************************************************)
(* Who a user is and what that allows: roles and sessions (UserAccess),    *)
(* accounts of visitors of other services (OAuthBinding) and second        *)
(* factors (SignIn), for any users, browsers, identities, providers,       *)
(* limits and timeouts.                                                    *)
(***************************************************************************)
EXTENDS UserAccess, OAuthBinding, SignIn, FiniteSetTheorems, NaturalsInduction,
        WellFoundedInduction, TLAPS

-----------------------------------------------------------------------------
(***************************************************************************)
(* Roles. A handler writes back the row it read some time ago, so the      *)
(* invariant speaks of the copies in hand as well as of the rows: a copy   *)
(* of root's row is enabled and has root's role, and a copy that says      *)
(* administrator is of a user whom root has made one at some time. A       *)
(* session keeps the role of the moment of login, which is root's for root *)
(* only.                                                                   *)
(***************************************************************************)

Edits == [pc : {"idle", "update", "cache", "invalidate", "done"}, row : Rows \cup {None},
          act : {"none", "enable", "disable", "promote", "demote", "delete"}]

\* What may stand in a row of x, or in a copy of it, when root has made administrators of g.
GoodRow(g, x, r) ==
    /\ r \in Rows
    /\ x = Root => r.role = RootRole /\ r.status = "enabled" /\ r.live
    /\ x # Root => r.role \in {Common, Admin}
    /\ (x # Root /\ r.role = Admin) => x \in g

RowsInv ==
    /\ user \in [All -> Rows \cup {None}]
    /\ \A x \in All : user[x] \in Rows => GoodRow(granted, x, user[x])
SessionsInv ==
    /\ session \in [All -> Sessions \cup {None}]
    /\ \A x \in All : (session[x] \in Sessions /\ session[x].role = RootRole) => x = Root
EditsInv ==
    /\ edit \in [All -> [Slots -> Edits]]
    /\ \A x \in All, s \in Slots : edit[x][s].pc = "update" => GoodRow(granted, x, edit[x][s].row)

RanksInv == RowsInv /\ SessionsInv /\ EditsInv

\* Whoever acts with root's role is root.
OnlyRoot == \A a \in All : MyRole(a) = RootRole => a = Root

-----------------------------------------------------------------------------
(* Facts about the parts of a step.                                        *)

LEMMA RoleType ==
    ASSUME RanksInv, NEW a \in All
    PROVE  /\ MyRole(a) \in {Guest, Common, Admin, RootRole}
           /\ MyRole(a) = RootRole => a = Root
  <1> USE AccountsAssumption DEF Guest, Common, Admin, RootRole
  <1>1. CASE session[a] # None
    BY <1>1 DEF MyRole, RanksInv, SessionsInv, Sessions, Roles
  <1>2. CASE session[a] = None /\ Live(a)
    <2>1. user[a] \in Rows /\ GoodRow(granted, a, user[a])
      BY <1>2 DEF Live, RanksInv, RowsInv
    <2> QED BY <1>2, <2>1 DEF MyRole, GoodRow, Rows, Roles
  <1>3. CASE session[a] = None /\ ~ Live(a)
    BY <1>3 DEF MyRole
  <1> QED BY <1>1, <1>2, <1>3

LEMMA RowFacts ==
    ASSUME RanksInv, NEW x \in All, user[x] # None
    PROVE  GoodRow(granted, x, user[x])
  BY DEF RanksInv, RowsInv

\* Copies of rows stay good: nobody leaves granted.
LEMMA GrantedGrows ==
    ASSUME RanksInv, granted \subseteq granted',
           NEW x \in All, NEW r, GoodRow(granted, x, r)
    PROVE  GoodRow(granted', x, r)
  BY DEF GoodRow

\* A row is replaced.
LEMMA SetRow ==
    ASSUME RanksInv, NEW x \in All, NEW r, user' = [user EXCEPT ![x] = r], granted \subseteq granted',
           r = None \/ GoodRow(granted', x, r)
    PROVE  RowsInv'
  <1>1. r \in Rows \cup {None}
    BY DEF GoodRow
  <1>2. user' \in [All -> Rows \cup {None}]
    BY <1>1 DEF RanksInv, RowsInv
  <1>3. ASSUME NEW y \in All, user'[y] \in Rows PROVE GoodRow(granted', y, user'[y])
    <2>1. CASE y = x
      <3>1. user'[y] = r /\ r # None
        BY <1>3, <2>1, AccountsAssumption DEF RanksInv, RowsInv
      <3> QED BY <2>1, <3>1
    <2>2. CASE y # x
      <3>1. user'[y] = user[y]
        BY <2>2 DEF RanksInv, RowsInv
      <3>2. GoodRow(granted, y, user[y])
        BY <1>3, <3>1 DEF RanksInv, RowsInv
      <3> QED BY <3>1, <3>2, GrantedGrows
    <2> QED BY <2>1, <2>2
  <1> QED BY <1>2, <1>3 DEF RowsInv

LEMMA KeepRows ==
    ASSUME RanksInv, user' = user, granted \subseteq granted'
    PROVE  RowsInv'
  BY GrantedGrows DEF RanksInv, RowsInv

LEMMA KeepSessions == ASSUME RanksInv, session' = session PROVE SessionsInv'
  BY DEF RanksInv, SessionsInv

LEMMA KeepEdits ==
    ASSUME RanksInv, edit' = edit, granted \subseteq granted'
    PROVE  EditsInv'
  <1>1. edit' \in [All -> [Slots -> Edits]]
    BY DEF RanksInv, EditsInv
  <1>2. ASSUME NEW x \in All, NEW s \in Slots, edit'[x][s].pc = "update" PROVE GoodRow(granted', x, edit'[x][s].row)
    <2>1. GoodRow(granted, x, edit[x][s].row)
      BY <1>2 DEF RanksInv, EditsInv
    <2> QED BY <2>1, GrantedGrows
  <1> QED BY <1>1, <1>2 DEF EditsInv

\* A handler takes a copy of a row, or goes on.
LEMMA SetEdit ==
    ASSUME RanksInv, NEW x \in All, NEW s \in Slots, NEW e \in Edits, edit' = [edit EXCEPT ![x][s] = e],
           e.pc = "update" => GoodRow(granted', x, e.row), granted \subseteq granted'
    PROVE  EditsInv'
  <1>1. edit \in [All -> [Slots -> Edits]]
    BY DEF RanksInv, EditsInv
  <1>2. /\ edit' \in [All -> [Slots -> Edits]] /\ edit'[x][s] = e
        /\ \A y \in All, z \in Slots : (y # x \/ z # s) => edit'[y][z] = edit[y][z]
    BY <1>1
  <1>3. ASSUME NEW y \in All, NEW z \in Slots, edit'[y][z].pc = "update" PROVE GoodRow(granted', y, edit'[y][z].row)
    <2>1. CASE y = x /\ z = s
      BY <1>2, <1>3, <2>1
    <2>2. CASE y # x \/ z # s
      <3>1. edit'[y][z] = edit[y][z] /\ GoodRow(granted, y, edit[y][z].row)
        BY <1>2, <1>3, <2>2 DEF RanksInv, EditsInv
      <3> QED BY <3>1, GrantedGrows
    <2> QED BY <2>1, <2>2
  <1> QED BY <1>2, <1>3 DEF EditsInv

-----------------------------------------------------------------------------
(* The actions.                                                            *)

\* Steps that touch neither rows, sessions nor copies.
LEMMA Elsewhere == ASSUME RanksInv, UNCHANGED <<user, session, edit, granted>> PROVE RanksInv'
  BY KeepRows, KeepSessions, KeepEdits DEF RanksInv

LEMMA NewRowFacts ==
    ASSUME NEW g, NEW x \in Users, NEW role \in {Common, Admin}, role = Admin => x \in g
    PROVE  GoodRow(g, x, NewRow(role))
  BY AccountsAssumption DEF GoodRow, NewRow, Rows, Roles

LEMMA SetupStep == ASSUME RanksInv, PostSetup PROVE RanksInv'
  <1>1. user' = [user EXCEPT ![Root] = NewRow(RootRole)] /\ UNCHANGED <<session, edit, granted>>
    BY DEF PostSetup, history
  <1>2. GoodRow(granted', Root, NewRow(RootRole)) /\ Root \in All
    BY DEF GoodRow, NewRow, Rows, Roles, All
  <1> QED BY <1>1, <1>2, SetRow, KeepSessions, KeepEdits DEF RanksInv

LEMMA RegisterStep == ASSUME RanksInv, NEW x \in Users, Register(x) PROVE RanksInv'
  <1>1. user' = [user EXCEPT ![x] = NewRow(Common)] /\ UNCHANGED <<session, edit, granted>> /\ x \in All
    BY DEF Register, history, All
  <1>2. GoodRow(granted', x, NewRow(Common))
    BY NewRowFacts DEF Common, Admin
  <1> QED BY <1>1, <1>2, SetRow, KeepSessions, KeepEdits DEF RanksInv

\* Only root's role is above an administrator's, so a new administrator is root's.
LEMMA CreateUserStep ==
    ASSUME RanksInv, NEW x \in Users, NEW a \in All, CreateUser(a, x)
    PROVE  RanksInv'
  <1>1. PICK role \in {Common, Admin} :
          /\ role < MyRole(a) /\ user' = [user EXCEPT ![x] = NewRow(role)]
          /\ granted' = IF role = Admin /\ MyRole(a) = RootRole THEN granted \cup {x} ELSE granted
    BY DEF CreateUser, CreatableRole
  <1>2. UNCHANGED <<session, edit>> /\ x \in All /\ granted \subseteq granted'
    BY <1>1 DEF CreateUser, All
  <1>3. role = Admin => x \in granted'
    BY <1>1, RoleType DEF Guest, Common, Admin, RootRole
  <1>4. GoodRow(granted', x, NewRow(role))
    BY <1>3, NewRowFacts
  <1> QED BY <1>1, <1>2, <1>4, SetRow, KeepSessions, KeepEdits DEF RanksInv

LEMMA LoginStep == ASSUME RanksInv, NEW x \in All, setupLogin(x) \/ Logout(x) PROVE RanksInv'
  <1>1. UNCHANGED <<user, edit, granted>>
    BY DEF setupLogin, Logout, history
  <1>2. session \in [All -> Sessions \cup {None}]
    BY DEF RanksInv, SessionsInv
  <1>3. CASE setupLogin(x)
    <2> DEFINE n == [role |-> user[x].role, status |-> user[x].status]
    <2>1. GoodRow(granted, x, user[x])
      BY <1>3, RowFacts DEF setupLogin, Usable, Live
    <2>2. n \in Sessions /\ (n.role = RootRole => x = Root)
      BY <2>1 DEF GoodRow, Rows, Sessions, Common, Admin, RootRole
    <2>3. session' = [session EXCEPT ![x] = n]
      BY <1>3 DEF setupLogin
    <2> HIDE DEF n
    <2>4. SessionsInv'
      BY <1>2, <2>2, <2>3 DEF RanksInv, SessionsInv
    <2> QED BY <1>1, <2>4, KeepRows, KeepEdits DEF RanksInv
  <1>4. CASE Logout(x)
    <2>1. SessionsInv'
      BY <1>2, <1>4, AccountsAssumption DEF Logout, RanksInv, SessionsInv
    <2> QED BY <1>1, <2>1, KeepRows, KeepEdits DEF RanksInv
  <1> QED BY <1>3, <1>4

\* A handler that reads the row and writes it later.
LEMMA ToSlotStep ==
    ASSUME RanksInv, NEW x \in All, NEW s \in Slots, NEW pc \in {"update", "cache"}, NEW r,
           NEW act \in {"none", "enable", "disable", "promote", "demote", "delete"},
           ToSlot(x, s, pc, r, act), granted \subseteq granted', GoodRow(granted', x, r)
    PROVE  EditsInv'
  <1> DEFINE e == [pc |-> pc, row |-> r, act |-> act]
  <1>1. e \in Edits /\ e.row = r
    BY DEF Edits, GoodRow
  <1>2. edit' = [edit EXCEPT ![x][s] = e]
    BY DEF ToSlot
  <1> HIDE DEF e
  <1> QED BY <1>1, <1>2, SetEdit

LEMMA SelfEditStep == ASSUME RanksInv, NEW x \in All, SelfEdit(x) PROVE RanksInv'
  <1>1. ToSlot(x, "self", "update", user[x], "none") /\ UNCHANGED <<user, session, granted>> /\ user[x] # None
    BY DEF SelfEdit, history, Live
  <1>2. GoodRow(granted', x, user[x])
    BY <1>1, RowFacts
  <1>3. EditsInv'
    BY <1>1, <1>2, ToSlotStep DEF Slots
  <1> QED BY <1>1, <1>3, KeepRows, KeepSessions DEF RanksInv

\* A soft deletion of an account other than root's.
LEMMA Softly ==
    ASSUME RanksInv, NEW x \in All, user[x] # None, user[x].role # RootRole, user' = [user EXCEPT ![x].live = FALSE],
           granted \subseteq granted'
    PROVE  RowsInv'
  <1> DEFINE n == [user[x] EXCEPT !.live = FALSE]
  <1>1. GoodRow(granted, x, user[x]) /\ x # Root
    BY RowFacts DEF GoodRow
  <1>2. GoodRow(granted', x, n)
    BY <1>1 DEF GoodRow, Rows
  <1>3. user' = [user EXCEPT ![x] = n]
    BY DEF RanksInv, RowsInv
  <1> HIDE DEF n
  <1> QED BY <1>2, <1>3, SetRow

LEMMA DeleteSelfStep == ASSUME RanksInv, NEW x \in All, DeleteSelf(x) PROVE RanksInv'
  <1>1. /\ user[x] # None /\ user[x].role # RootRole /\ user' = [user EXCEPT ![x].live = FALSE]
        /\ UNCHANGED <<session, edit, granted>>
    BY DEF DeleteSelf, Live, history
  <1> QED BY <1>1, Softly, KeepSessions, KeepEdits DEF RanksInv

\* ManageUser changes the copy it read: never root's role or status, and to administrator
\* only for root.
LEMMA ManageStep ==
    ASSUME RanksInv, NEW x \in All, NEW a \in All,
           ManageEnable(a, x) \/ ManageDisable(a, x) \/ ManagePromote(a, x) \/ ManageDemote(a, x)
    PROVE  RanksInv'
  <1>1. GoodRow(granted, x, user[x]) /\ "admin" \in Slots
    BY RowFacts DEF ManageEnable, ManageDisable, ManagePromote, ManageDemote, Slots
  <1>2. UNCHANGED <<user, session>> /\ granted \subseteq granted'
    BY DEF ManageEnable, ManageDisable, ManagePromote, ManageDemote, Manage
  <1>3. PICK r \in Rows, act \in {"none", "enable", "disable", "promote", "demote", "delete"} :
          ToSlot(x, "admin", "update", r, act) /\ GoodRow(granted', x, r)
    <2>1. CASE ManageEnable(a, x)
      <3> DEFINE n == [user[x] EXCEPT !.status = "enabled"]
      <3>1. GoodRow(granted', x, n)
        BY <1>1, <2>1 DEF ManageEnable, GoodRow, Rows
      <3>2. ToSlot(x, "admin", "update", n, "enable")
        BY <2>1 DEF ManageEnable, Manage
      <3>3. n \in Rows
        BY <3>1 DEF GoodRow
      <3> HIDE DEF n
      <3> QED BY <3>1, <3>2, <3>3
    <2>2. CASE ManageDisable(a, x)
      <3> DEFINE n == [user[x] EXCEPT !.status = "disabled"]
      <3>1. GoodRow(granted', x, n)
        BY <1>1, <2>2 DEF ManageDisable, GoodRow, Rows
      <3>2. ToSlot(x, "admin", "update", n, "disable")
        BY <2>2 DEF ManageDisable, Manage
      <3>3. n \in Rows
        BY <3>1 DEF GoodRow
      <3> HIDE DEF n
      <3> QED BY <3>1, <3>2, <3>3
    <2>3. CASE ManagePromote(a, x)
      <3> DEFINE n == [user[x] EXCEPT !.role = Admin]
      <3>1. GoodRow(granted', x, n)
        BY <1>1, <2>3 DEF ManagePromote, GoodRow, Rows, Roles, Admin, RootRole
      <3>2. ToSlot(x, "admin", "update", n, "promote")
        BY <2>3 DEF ManagePromote, Manage
      <3>3. n \in Rows
        BY <3>1 DEF GoodRow
      <3> HIDE DEF n
      <3> QED BY <3>1, <3>2, <3>3
    <2>4. CASE ManageDemote(a, x)
      <3> DEFINE n == [user[x] EXCEPT !.role = Common]
      <3>1. GoodRow(granted', x, n)
        BY <1>1, <2>4 DEF ManageDemote, GoodRow, Rows, Roles, Common, Admin, RootRole
      <3>2. ToSlot(x, "admin", "update", n, "demote")
        BY <2>4 DEF ManageDemote, Manage
      <3>3. n \in Rows
        BY <3>1 DEF GoodRow
      <3> HIDE DEF n
      <3> QED BY <3>1, <3>2, <3>3
    <2> QED BY <2>1, <2>2, <2>3, <2>4
  <1>4. EditsInv'
    BY <1>1, <1>2, <1>3, ToSlotStep
  <1> QED BY <1>2, <1>4, KeepRows, KeepSessions DEF RanksInv

LEMMA ManageDeleteStep ==
    ASSUME RanksInv, NEW x \in All, NEW a \in All, ManageDelete(a, x)
    PROVE  RanksInv'
  <1>1. /\ user[x] # None /\ user[x].role # RootRole /\ user' = [user EXCEPT ![x].live = FALSE]
        /\ ToSlot(x, "admin", "update", user[x], "delete") /\ UNCHANGED <<session, granted>>
    BY DEF ManageDelete, Manage
  <1>2. GoodRow(granted', x, user[x]) /\ "admin" \in Slots
    BY <1>1, RowFacts DEF Slots
  <1>3. EditsInv'
    BY <1>1, <1>2, ToSlotStep
  <1> QED BY <1>1, <1>3, Softly, KeepSessions DEF RanksInv

LEMMA DeleteUserStep ==
    ASSUME RanksInv, NEW x \in All, NEW a \in All, DeleteUser(a, x)
    PROVE  RanksInv'
  <1>1. user' = [user EXCEPT ![x] = None] /\ UNCHANGED <<session, edit, granted>>
    BY DEF DeleteUser, history
  <1> QED BY <1>1, SetRow, KeepSessions, KeepEdits DEF RanksInv

LEMMA UpdateUserStep ==
    ASSUME RanksInv, NEW x \in All, NEW a \in All, UpdateUser(a, x)
    PROVE  RanksInv'
  <1>1. ToSlot(x, "admin", "cache", user[x], "none") /\ UNCHANGED <<user, session, granted>> /\ user[x] # None
    BY DEF UpdateUser, tables, history, Live
  <1>2. GoodRow(granted', x, user[x])
    BY <1>1, RowFacts
  <1>3. EditsInv'
    BY <1>1, <1>2, ToSlotStep DEF Slots
  <1> QED BY <1>1, <1>3, KeepRows, KeepSessions DEF RanksInv

\* The copy is written back, the cache follows, the handler answers.
LEMMA SavingStep ==
    ASSUME RanksInv, NEW x \in All, NEW s \in Slots, Saving(x, s)
    PROVE  RanksInv'
  <1>1. edit \in [All -> [Slots -> Edits]] /\ edit[x][s] \in Edits
    BY DEF RanksInv, EditsInv
  <1>2. CASE UpdateRow(x, s)
    <2> DEFINE n == [edit[x][s].row EXCEPT !.live = TRUE]
               e == [edit[x][s] EXCEPT !.pc = "cache"]
    <2>1. GoodRow(granted, x, edit[x][s].row) /\ UNCHANGED <<session, granted>>
      BY <1>2 DEF UpdateRow, RanksInv, EditsInv, history
    <2>2. GoodRow(granted', x, n)
      BY <2>1 DEF GoodRow, Rows
    <2>3. user' = user \/ user' = [user EXCEPT ![x] = n]
      BY <1>2 DEF UpdateRow
    <2>4. e \in Edits /\ e.pc = "cache"
      BY <1>1 DEF Edits
    <2>5. edit' = [edit EXCEPT ![x][s] = e]
      BY <1>1, <1>2 DEF UpdateRow
    <2> HIDE DEF n, e
    <2>6. RowsInv'
      BY <2>1, <2>2, <2>3, SetRow, KeepRows
    <2>7. EditsInv'
      BY <2>1, <2>4, <2>5, SetEdit
    <2> QED BY <2>1, <2>6, <2>7, KeepSessions DEF RanksInv
  <1>3. CASE updateUserCache(x, s)
    <2> DEFINE pc == IF edit[x][s].act \in {"disable", "promote", "demote"} THEN "invalidate" ELSE "done"
               e == [edit[x][s] EXCEPT !.pc = pc]
    <2>1. e \in Edits /\ e.pc # "update"
      BY <1>1 DEF Edits
    <2>2. edit' = [edit EXCEPT ![x][s] = e] /\ UNCHANGED <<user, session, granted>>
      BY <1>1, <1>3 DEF updateUserCache, tables, history
    <2> HIDE DEF e
    <2>3. EditsInv'
      BY <2>1, <2>2, SetEdit
    <2> QED BY <2>2, <2>3, KeepRows, KeepSessions DEF RanksInv
  <1>4. CASE InvalidateUserTokensCache(x, s) \/ Answer(x, s)
    <2>1. NoEdit \in Edits /\ NoEdit.pc # "update"
      BY DEF NoEdit, Edits
    <2>2. edit' = [edit EXCEPT ![x][s] = NoEdit] /\ UNCHANGED <<user, session, granted>>
      BY <1>4 DEF InvalidateUserTokensCache, Answer, tables, history
    <2>3. EditsInv'
      BY <2>1, <2>2, SetEdit
    <2> QED BY <2>2, <2>3, KeepRows, KeepSessions DEF RanksInv
  <1> QED BY <1>2, <1>3, <1>4 DEF Saving

-----------------------------------------------------------------------------
(* The theorems.                                                           *)

LEMMA InitRanks == ASSUME Init PROVE RanksInv
  <1>1. NoEdit \in Edits /\ NoEdit.pc # "update"
    BY DEF NoEdit, Edits
  <1>2. EditsInv
    BY <1>1 DEF Init, EditsInv
  <1>3. RowsInv /\ SessionsInv
    BY AccountsAssumption DEF Init, RowsInv, SessionsInv
  <1> QED BY <1>2, <1>3 DEF RanksInv

LEMMA OwnStep == ASSUME RanksInv, NEW x \in All, Own(x) PROVE RanksInv'
  <1>1. CASE setupLogin(x) \/ Logout(x)
    BY <1>1, LoginStep
  <1>2. CASE UpdateSelf(x) \/ UpdateUserSetting(x) \/ EmailBind(x) \/ GenerateAccessToken(x)
    BY <1>2, SelfEditStep DEF UpdateSelf, UpdateUserSetting, EmailBind, GenerateAccessToken
  <1>3. CASE DeleteSelf(x)
    BY <1>3, DeleteSelfStep
  <1>4. CASE AddToken(x) \/ DeleteToken(x) \/ DeleteTokenBatch(x)
    BY <1>4, Elsewhere DEF AddToken, DeleteToken, DeleteTokenBatch, history
  <1>5. CASE \E st \in {"enabled", "disabled"} : UpdateToken(x, st)
    BY <1>5, Elsewhere DEF UpdateToken, history
  <1> QED BY <1>1, <1>2, <1>3, <1>4, <1>5 DEF Own

LEMMA ManagesStep == ASSUME RanksInv, NEW x \in All, NEW a \in All, Manages(a, x) PROVE RanksInv'
  BY ManageStep, ManageDeleteStep, DeleteUserStep, UpdateUserStep DEF Manages, AdminClearUserBinding

LEMMA NextRanks == ASSUME RanksInv, [Next]_vars PROVE RanksInv'
  <1>1. ASSUME NEW x \in Clients, Relay(x) \/ ExpireUserKey(x) \/ ExpireTokenKey(x)
        PROVE  UNCHANGED <<user, session, edit, granted>>
    BY <1>1 DEF Relay, GetTokenByKey, GetUserCache, EndRequest, ExpireUserKey, ExpireTokenKey, tables, history
  <1>2. ASSUME NEW j \in jobs, RunJob(j) PROVE UNCHANGED <<user, session, edit, granted>>
    BY <1>2 DEF RunJob, tables, history
  <1>3. CASE UNCHANGED vars
    BY <1>3, Elsewhere DEF vars, tables, history
  <1> QED BY <1>1, <1>2, <1>3, Elsewhere, SetupStep, RegisterStep, CreateUserStep, OwnStep, ManagesStep,
             SavingStep DEF Next

\* Rows, sessions and the copies handlers hold keep the inductive invariant.
THEOREM RanksInvariant == Spec => []RanksInv
  <1>1. Init => RanksInv
    BY InitRanks
  <1>2. RanksInv /\ [Next]_vars => RanksInv'
    BY NextRanks
  <1> QED BY <1>1, <1>2, PTL DEF Spec

\* Whatever users and administrators with old sessions and old copies of rows do to each
\* other (User.Update writes the whole copy, ManageUser reads before it writes), the root
\* account stays in place and enabled, and nobody is an administrator whom nobody with
\* root's role made one.
THEOREM RanksHeldThm == Spec => []RanksHeld
  <1>1. RanksInv => RanksHeld
    <2> SUFFICES ASSUME RanksInv, NEW x \in All, user[x] # None
                 PROVE  /\ x = Root => Usable(x) /\ user[x].role = RootRole
                        /\ x # Root => user[x].role \in {Common, Admin}
                        /\ (x # Root /\ user[x].role = Admin) => x \in granted
      BY DEF RanksHeld
    <2> QED BY RowFacts DEF GoodRow, Usable, Live
  <1> QED BY <1>1, RanksInvariant, PTL

\* Nobody but root acts with root's role, neither by the role a session kept from its
\* login nor by the row an access token names (authHelper).
THEOREM OnlyRootThm == Spec => []OnlyRoot
  <1>1. RanksInv => OnlyRoot
    BY RoleType DEF OnlyRoot
  <1> QED BY <1>1, RanksInvariant, PTL

-----------------------------------------------------------------------------
(***************************************************************************)
(* Visitors of other services. For a custom provider the unique index of   *)
(* the bindings makes the second account impossible (CustomHeld). A built- *)
(* in provider has no index: a callback that has seen the id free creates  *)
(* an account whatever happened since, so accounts and waiting callbacks   *)
(* together are no more than the browsers (Overlap), and none begins to    *)
(* wait while a column holds the id (ColumnHeld).                          *)
(***************************************************************************)

CallbackRecords ==
    [pc : {"idle", "known", "free"}, prov : AllProviders \cup {Absent}, id : Idents \cup {Absent}]

OAuthTypes ==
    /\ account \in [Accounts -> {Absent, "live", "deleted"}]
    /\ column \in [Accounts -> Idents \cup {Absent}]
    /\ bind \subseteq [user : Accounts, prov : Providers, id : Idents]
    /\ registry \in [Slugs -> Providers \cup {Absent}]
    /\ visitor \in [Browsers -> Accounts \cup {Absent}]
    /\ callback \in [Browsers -> CallbackRecords]
    /\ \A b \in Browsers :
         callback[b].pc # "idle" => callback[b].prov \in AllProviders /\ callback[b].id \in Idents
    /\ created \in [AllProviders -> [Idents -> Nat]]

\* An account counted for an id of a custom provider still holds the binding.
CustomHeld ==
    \A p \in Providers, i \in Idents :
        /\ created[p][i] <= 1
        /\ created[p][i] > 0 => \E r \in bind : r.prov = p /\ r.id = i

\* An id that was given accounts is in a column, and columns are of rows.
ColumnHeld ==
    /\ \A a \in Accounts : column[a] # Absent => account[a] # Absent
    /\ \A i \in Idents : created[Builtin][i] > 0 => \E a \in Accounts : column[a] = i

\* The callbacks that have seen the id free and may still create an account for it.
Waiting(i) ==
    {b \in Browsers : callback[b].pc = "free" /\ callback[b].prov = Builtin /\ callback[b].id = i}
Overlap ==
    \A i \in Idents : created[Builtin][i] + Cardinality(Waiting(i)) <= Cardinality(Browsers)

OneAccountInv == OAuthTypes /\ CustomHeld /\ ColumnHeld /\ Overlap

-----------------------------------------------------------------------------
LEMMA WaitingFacts ==
    ASSUME NEW i
    PROVE  /\ IsFiniteSet(Waiting(i)) /\ Cardinality(Waiting(i)) \in Nat
           /\ Cardinality(Waiting(i)) <= Cardinality(Browsers) /\ Cardinality(Browsers) \in Nat
  <1>1. Waiting(i) \subseteq Browsers
    BY DEF Waiting
  <1> QED BY <1>1, OAuthAssumption, FS_Subset, FS_CardinalityType

\* When no callback comes to wait and no account is counted, the bound remains.
LEMMA OverlapShrinks ==
    ASSUME OneAccountInv, OAuthTypes',
           \A i \in Idents : Waiting(i)' \subseteq Waiting(i) /\ created'[Builtin][i] <= created[Builtin][i]
    PROVE  Overlap'
  <1> SUFFICES ASSUME NEW i \in Idents
               PROVE  created'[Builtin][i] + Cardinality(Waiting(i)') <= Cardinality(Browsers)
    BY DEF Overlap
  <1>1. /\ IsFiniteSet(Waiting(i)) /\ Cardinality(Waiting(i)) \in Nat
        /\ Cardinality(Browsers) \in Nat
    BY WaitingFacts
  <1>2. Cardinality(Waiting(i)') <= Cardinality(Waiting(i)) /\ Cardinality(Waiting(i)') \in Nat
    BY <1>1, FS_Subset, FS_CardinalityType
  <1>3. created[Builtin][i] \in Nat /\ created'[Builtin][i] \in Nat
    BY DEF OneAccountInv, OAuthTypes, AllProviders
  <1>4. created[Builtin][i] + Cardinality(Waiting(i)) <= Cardinality(Browsers)
    BY DEF OneAccountInv, Overlap
  <1> QED BY <1>1, <1>2, <1>3, <1>4

\* A step that leaves accounts, bindings and counts alone and lets nobody wait.
LEMMA RestUnchanged ==
    ASSUME OneAccountInv, OAuthTypes', UNCHANGED <<account, column, bind, created>>,
           \A i \in Idents : Waiting(i)' \subseteq Waiting(i)
    PROVE  OneAccountInv'
  <1>1. CustomHeld' /\ ColumnHeld'
    BY DEF OneAccountInv, CustomHeld, ColumnHeld
  <1>2. \A i \in Idents : created'[Builtin][i] <= created[Builtin][i]
    BY DEF OneAccountInv, OAuthTypes, AllProviders
  <1> QED BY <1>1, <1>2, OverlapShrinks DEF OneAccountInv

\* A callback that is not put among the waiting ones lets nobody wait.
LEMMA CallbackMoves ==
    ASSUME OAuthTypes, NEW b \in Browsers, NEW c, callback' = [callback EXCEPT ![b] = c],
           c.pc # "free", NEW i
    PROVE  Waiting(i)' = Waiting(i) \ {b}
  BY DEF OAuthTypes, Waiting

LEMMA IdleCallback == NoCallback \in CallbackRecords /\ NoCallback.pc = "idle"
  BY DEF NoCallback, CallbackRecords

LEMMA CallbackTypes ==
    ASSUME OAuthTypes, NEW b \in Browsers, NEW c \in CallbackRecords,
           c.pc # "idle" => c.prov \in AllProviders /\ c.id \in Idents,
           callback' = [callback EXCEPT ![b] = c]
    PROVE  /\ callback' \in [Browsers -> CallbackRecords]
           /\ \A x \in Browsers :
                callback'[x].pc # "idle" => callback'[x].prov \in AllProviders /\ callback'[x].id \in Idents
  BY DEF OAuthTypes
-----------------------------------------------------------------------------
(* Providers.                                                              *)

LEMMA ProviderSteps ==
    ASSUME OneAccountInv,
           \/ \E p \in Providers, s \in Slugs :
                CreateCustomOAuthProvider(p, s) \/ UpdateCustomOAuthProvider(p, s)
           \/ \E p \in Providers : DeleteCustomOAuthProvider(p)
           \/ FinishDelete \/ LoadCustomProviders
    PROVE  OneAccountInv'
  <1>1. ASSUME NEW p \in Providers, NEW s \in Slugs,
               CreateCustomOAuthProvider(p, s) \/ UpdateCustomOAuthProvider(p, s)
        PROVE  OneAccountInv'
    <2>1. /\ UNCHANGED <<account, column, bind, created, visitor, callback>>
          /\ registry' \in [Slugs -> Providers \cup {Absent}]
      BY <1>1 DEF CreateCustomOAuthProvider, UpdateCustomOAuthProvider, OneAccountInv, OAuthTypes
    <2>2. OAuthTypes' /\ \A i \in Idents : Waiting(i)' = Waiting(i)
      BY <2>1 DEF OneAccountInv, OAuthTypes, Waiting
    <2> QED BY <2>1, <2>2, RestUnchanged
  <1>2. ASSUME NEW p \in Providers, DeleteCustomOAuthProvider(p)
        PROVE  OneAccountInv'
    <2>1. UNCHANGED <<account, column, bind, created, visitor, callback, registry>>
      BY <1>2 DEF DeleteCustomOAuthProvider
    <2>2. OAuthTypes' /\ \A i \in Idents : Waiting(i)' = Waiting(i)
      BY <2>1 DEF OneAccountInv, OAuthTypes, Waiting
    <2> QED BY <2>1, <2>2, RestUnchanged
  <1>3. CASE FinishDelete
    <2>1. /\ UNCHANGED <<account, column, bind, created, visitor, callback>>
          /\ registry' \in [Slugs -> Providers \cup {Absent}]
      BY <1>3 DEF FinishDelete, OneAccountInv, OAuthTypes
    <2>2. OAuthTypes' /\ \A i \in Idents : Waiting(i)' = Waiting(i)
      BY <2>1 DEF OneAccountInv, OAuthTypes, Waiting
    <2> QED BY <2>1, <2>2, RestUnchanged
  <1>4. CASE LoadCustomProviders
    <2>1. /\ UNCHANGED <<account, column, bind, created, visitor>>
          /\ callback' = [b \in Browsers |-> NoCallback]
          /\ registry' \in [Slugs -> Providers \cup {Absent}]
      BY <1>4 DEF LoadCustomProviders
    <2>2. OAuthTypes' /\ \A i \in Idents : Waiting(i)' = {}
      BY <2>1, IdleCallback DEF OneAccountInv, OAuthTypes, Waiting
    <2> QED BY <2>1, <2>2, RestUnchanged
  <1> QED BY <1>1, <1>2, <1>3, <1>4

-----------------------------------------------------------------------------
(* Callbacks.                                                              *)

\* A callback begins, ends or finds the id taken; a session or an account ends.
LEMMA QuietSteps ==
    ASSUME OneAccountInv, NEW b \in Browsers,
           \/ \E i \in Idents : HandleBuiltin(b, i) \/ \E s \in Slugs : HandleOAuth(b, s, i)
           \/ FillUserByProviderID(b) \/ AlreadyBound(b) \/ HandlerEnds(b) \/ OAuthLogout(b)
    PROVE  OneAccountInv'
  <1>1. ASSUME NEW i \in Idents, NEW p \in AllProviders, ExchangeToken(b, p, i) PROVE OneAccountInv'
    <2> DEFINE c == [pc |-> "known", prov |-> p, id |-> i]
    <2>1. /\ UNCHANGED <<account, column, bind, created, visitor, registry>>
          /\ callback' = [callback EXCEPT ![b] = c]
      BY <1>1 DEF ExchangeToken
    <2>2. c \in CallbackRecords /\ c.pc = "known" /\ c.prov \in AllProviders /\ c.id \in Idents
      BY DEF CallbackRecords
    <2> HIDE DEF c
    <2>3. OAuthTypes'
      BY <2>1, <2>2, CallbackTypes DEF OneAccountInv, OAuthTypes
    <2>4. \A k \in Idents : Waiting(k)' = Waiting(k) \ {b}
      BY <2>1, <2>2, CallbackMoves DEF OneAccountInv
    <2> QED BY <2>1, <2>3, <2>4, RestUnchanged
  <1>2. ASSUME NEW i \in Idents, HandleBuiltin(b, i) PROVE OneAccountInv'
    BY <1>1, <1>2 DEF HandleBuiltin, AllProviders
  <1>3. ASSUME NEW i \in Idents, NEW s \in Slugs, HandleOAuth(b, s, i) PROVE OneAccountInv'
    <2>1. registry[s] \in AllProviders
      BY <1>3 DEF HandleOAuth, AllProviders, OneAccountInv, OAuthTypes
    <2> QED BY <1>1, <1>3, <2>1 DEF HandleOAuth
  <1>4. CASE FillUserByProviderID(b)
    <2>1. /\ UNCHANGED <<account, column, bind, created, registry>>
          /\ callback' = [callback EXCEPT ![b] = NoCallback]
      BY <1>4 DEF FillUserByProviderID
    <2>2. visitor' \in [Browsers -> Accounts \cup {Absent}]
      <3> DEFINE held == Holders(callback[b].prov, callback[b].id)
                 live == {a \in held : account[a] = "live"}
                 who == CHOOSE a \in live : \A c \in live : a <= c
      <3>1. visitor' = [visitor EXCEPT ![b] = IF live = {} THEN Absent ELSE who]
        BY <1>4 DEF FillUserByProviderID
      <3>2. live \subseteq Accounts
        BY DEF Holders
      <3>3. ASSUME live # {} PROVE who \in live
        <4>1. live \subseteq Nat
          BY <3>2, OAuthAssumption
        <4>2. \E a \in live : \A c \in live : a <= c
          <5> HIDE DEF live
          <5>1. PICK a \in live : TRUE
            BY <3>3
          <5>2. \E n \in live : \A m \in live : <<m, n>> \notin OpToRel(<, Nat)
            BY <4>1, <5>1, NatLessThanWellFounded, WFMin
          <5>3. PICK n \in live : \A m \in live : <<m, n>> \notin OpToRel(<, Nat)
            BY <5>2
          <5>4. ASSUME NEW m \in live PROVE ~ (m < n)
            <6>1. m \in Nat /\ n \in Nat
              BY <4>1
            <6> QED BY <5>3, <6>1, Zenon DEF OpToRel
          <5>5. ASSUME NEW m \in live PROVE n <= m
            BY <4>1, <5>4
          <5> QED BY <5>5
        <4> QED BY <4>2
      <3> HIDE DEF live, who
      <3> QED BY <3>1, <3>2, <3>3 DEF OneAccountInv, OAuthTypes
    <2>3. OAuthTypes'
      BY <2>1, <2>2, CallbackTypes, IdleCallback DEF OneAccountInv, OAuthTypes
    <2>4. \A k \in Idents : Waiting(k)' = Waiting(k) \ {b}
      BY <2>1, IdleCallback, CallbackMoves DEF OneAccountInv
    <2> QED BY <2>1, <2>3, <2>4, RestUnchanged
  <1>5. CASE AlreadyBound(b) \/ HandlerEnds(b)
    <2>1. /\ UNCHANGED <<account, column, bind, created, visitor, registry>>
          /\ callback' = [callback EXCEPT ![b] = NoCallback]
      BY <1>5 DEF AlreadyBound, HandlerEnds
    <2>3. OAuthTypes'
      BY <2>1, CallbackTypes, IdleCallback DEF OneAccountInv, OAuthTypes
    <2>4. \A k \in Idents : Waiting(k)' = Waiting(k) \ {b}
      BY <2>1, IdleCallback, CallbackMoves DEF OneAccountInv
    <2> QED BY <2>1, <2>3, <2>4, RestUnchanged
  <1>6. CASE OAuthLogout(b)
    <2>1. OAuthTypes' /\ UNCHANGED <<account, column, bind, created>> /\ \A i \in Idents : Waiting(i)' = Waiting(i)
      BY <1>6 DEF OAuthLogout, OneAccountInv, OAuthTypes, Waiting
    <2> QED BY <2>1, RestUnchanged
  <1> QED BY <1>2, <1>3, <1>4, <1>5, <1>6

\* An account is counted for the built-in id only while it is in a column.
LEMMA FreeIsUncounted ==
    ASSUME OneAccountInv, NEW i \in Idents, Holders(Builtin, i) = {}
    PROVE  created[Builtin][i] = 0
  <1>1. created[Builtin][i] \in Nat
    BY DEF OneAccountInv, OAuthTypes, AllProviders
  <1>2. ASSUME created[Builtin][i] > 0 PROVE FALSE
    <2>1. PICK a \in Accounts : column[a] = i
      BY <1>2 DEF OneAccountInv, ColumnHeld
    <2>2. i # Absent
      BY OAuthAssumption
    <2>3. a \in Holders(Builtin, i)
      BY <2>1, <2>2 DEF Holders, OneAccountInv, ColumnHeld
    <2> QED BY <2>3
  <1> QED BY <1>1, <1>2

LEMMA NotTakenStep ==
    ASSUME OneAccountInv, NEW b \in Browsers, NotTaken(b)
    PROVE  OneAccountInv'
  <1> DEFINE c == [callback[b] EXCEPT !.pc = "free"]
             p == callback[b].prov
             k == callback[b].id
  <1>1. /\ UNCHANGED <<account, column, bind, created, visitor, registry>>
        /\ callback' = [callback EXCEPT ![b] = c] /\ callback[b].pc = "known" /\ Holders(p, k) = {}
    BY DEF NotTaken
  <1>2. p \in AllProviders /\ k \in Idents /\ callback[b] \in CallbackRecords
    BY <1>1 DEF OneAccountInv, OAuthTypes
  <1>3. c \in CallbackRecords /\ c.pc = "free" /\ c.prov = p /\ c.id = k
    BY <1>2 DEF CallbackRecords
  <1> HIDE DEF c, p, k
  <1>4. OAuthTypes'
    BY <1>1, <1>2, <1>3, CallbackTypes DEF OneAccountInv, OAuthTypes
  <1>5. CustomHeld' /\ ColumnHeld'
    BY <1>1 DEF OneAccountInv, CustomHeld, ColumnHeld
  <1>6. ASSUME NEW i \in Idents
        PROVE  created'[Builtin][i] + Cardinality(Waiting(i)') <= Cardinality(Browsers)
    <2>1. CASE p = Builtin /\ i = k
      <3>1. created'[Builtin][i] = 0
        BY <1>1, <1>2, <2>1, FreeIsUncounted
      <3>2. Waiting(i)' \subseteq Browsers
        BY DEF Waiting
      <3>3. /\ Cardinality(Waiting(i)') <= Cardinality(Browsers) /\ Cardinality(Waiting(i)') \in Nat
            /\ Cardinality(Browsers) \in Nat
        BY <3>2, OAuthAssumption, FS_Subset, FS_CardinalityType
      <3> QED BY <3>1, <3>3
    <2>2. CASE ~ (p = Builtin /\ i = k)
      <3>1. Waiting(i)' = Waiting(i)
        BY <1>1, <1>3, <2>2 DEF Waiting, OneAccountInv, OAuthTypes, p, k
      <3> QED BY <1>1, <3>1 DEF OneAccountInv, Overlap
    <2> QED BY <2>1, <2>2
  <1> QED BY <1>4, <1>5, <1>6 DEF OneAccountInv, Overlap

\* An account more for an id, one callback less that waits for it.
LEMMA InsertStep ==
    ASSUME OneAccountInv, NEW b \in Browsers, NEW a \in Accounts, InsertWithTx(b, a)
    PROVE  OneAccountInv'
  <1> DEFINE p == callback[b].prov
             k == callback[b].id
             row == [user |-> a, prov |-> p, id |-> k]
  <1>1. /\ callback[b].pc = "free" /\ account[a] = Absent
        /\ p = Builtin \/ Insertable(a, p, k)
        /\ account' = [account EXCEPT ![a] = "live"]
        /\ column' = [column EXCEPT ![a] = IF p = Builtin THEN k ELSE Absent]
        /\ bind' = IF p = Builtin THEN bind ELSE bind \cup {row}
        /\ created' = [created EXCEPT ![p][k] = @ + 1]
        /\ visitor' = [visitor EXCEPT ![b] = a] /\ callback' = [callback EXCEPT ![b] = NoCallback]
        /\ registry' = registry
    BY DEF InsertWithTx, NextId, Counted
  <1>2. p \in AllProviders /\ k \in Idents
    BY <1>1 DEF OneAccountInv, OAuthTypes
  <1>3. /\ created' \in [AllProviders -> [Idents -> Nat]] /\ created'[p][k] = created[p][k] + 1
        /\ \A q \in AllProviders, i \in Idents : (q # p \/ i # k) => created'[q][i] = created[q][i]
        /\ \A q \in AllProviders, i \in Idents : created[q][i] \in Nat
    BY <1>1, <1>2 DEF OneAccountInv, OAuthTypes
  <1> HIDE DEF p, k
  <1>4. OAuthTypes'
    <2>1. bind' \subseteq [user : Accounts, prov : Providers, id : Idents]
      BY <1>1, <1>2 DEF OneAccountInv, OAuthTypes, AllProviders
    <2>2. /\ callback' \in [Browsers -> CallbackRecords]
          /\ \A x \in Browsers :
               callback'[x].pc # "idle" => callback'[x].prov \in AllProviders /\ callback'[x].id \in Idents
      BY <1>1, CallbackTypes, IdleCallback DEF OneAccountInv
    <2>3. /\ account' \in [Accounts -> {Absent, "live", "deleted"}]
          /\ column' \in [Accounts -> Idents \cup {Absent}]
          /\ visitor' \in [Browsers -> Accounts \cup {Absent}]
          /\ registry' \in [Slugs -> Providers \cup {Absent}]
      BY <1>1, <1>2 DEF OneAccountInv, OAuthTypes
    <2> QED BY <1>3, <2>1, <2>2, <2>3 DEF OAuthTypes
  <1>5. CustomHeld'
    <2> SUFFICES ASSUME NEW q \in Providers, NEW i \in Idents
                 PROVE  created'[q][i] <= 1 /\ (created'[q][i] > 0 => \E r \in bind' : r.prov = q /\ r.id = i)
      BY DEF CustomHeld
    <2>0. q \in AllProviders /\ q # Builtin
      BY OAuthAssumption DEF AllProviders, Builtin
    <2>1. created[q][i] <= 1 /\ (created[q][i] > 0 => \E r \in bind : r.prov = q /\ r.id = i)
      BY DEF OneAccountInv, CustomHeld
    <2>2. CASE q = p /\ i = k
      <3>1. ~ \E r \in bind : r.prov = q /\ r.id = i
        BY <1>1, <2>0, <2>2 DEF Insertable
      <3>2. created[q][i] = 0
        BY <1>3, <2>0, <2>1, <3>1
      <3>3. row \in bind' /\ row.prov = q /\ row.id = i
        BY <1>1, <2>0, <2>2
      <3> QED BY <1>3, <2>2, <3>2, <3>3
    <2>3. CASE ~ (q = p /\ i = k)
      BY <1>1, <1>3, <2>0, <2>1, <2>3
    <2> QED BY <2>2, <2>3
  <1>6. ColumnHeld'
    <2>1. column[a] = Absent
      BY <1>1 DEF OneAccountInv, ColumnHeld
    <2>2. \A x \in Accounts : column'[x] # Absent => account'[x] # Absent
      BY <1>1, OAuthAssumption DEF OneAccountInv, ColumnHeld, OAuthTypes
    <2>3. ASSUME NEW i \in Idents, created'[Builtin][i] > 0 PROVE \E x \in Accounts : column'[x] = i
      <3>1. CASE p = Builtin /\ i = k
        BY <1>1, <3>1 DEF OneAccountInv, OAuthTypes
      <3>2. CASE ~ (p = Builtin /\ i = k)
        <4>1. created[Builtin][i] > 0
          BY <1>3, <2>3, <3>2 DEF AllProviders
        <4>2. PICK x \in Accounts : column[x] = i
          BY <4>1 DEF OneAccountInv, ColumnHeld
        <4>3. x # a
          BY <2>1, <4>2, OAuthAssumption
        <4> QED BY <1>1, <4>2, <4>3 DEF OneAccountInv, OAuthTypes
      <3> QED BY <3>1, <3>2
    <2> QED BY <2>2, <2>3 DEF ColumnHeld
  <1>7. Overlap'
    <2> SUFFICES ASSUME NEW i \in Idents
                 PROVE  created'[Builtin][i] + Cardinality(Waiting(i)') <= Cardinality(Browsers)
      BY DEF Overlap
    <2>1. Waiting(i)' = Waiting(i) \ {b}
      BY <1>1, CallbackMoves, IdleCallback DEF OneAccountInv
    <2>2. /\ IsFiniteSet(Waiting(i)) /\ Cardinality(Waiting(i)) \in Nat /\ Cardinality(Browsers) \in Nat
          /\ created[Builtin][i] + Cardinality(Waiting(i)) <= Cardinality(Browsers)
      BY WaitingFacts DEF OneAccountInv, Overlap
    <2>3. CASE p = Builtin /\ i = k
      <3>1. b \in Waiting(i)
        BY <1>1, <2>3 DEF Waiting, p, k
      <3>2. Cardinality(Waiting(i)') = Cardinality(Waiting(i)) - 1
        BY <2>1, <2>2, <3>1, FS_RemoveElement
      <3>3. created'[Builtin][i] = created[Builtin][i] + 1 /\ created[Builtin][i] \in Nat
        BY <1>2, <1>3, <2>3
      <3> QED BY <2>2, <3>2, <3>3
    <2>4. CASE ~ (p = Builtin /\ i = k)
      <3>1. created'[Builtin][i] = created[Builtin][i] /\ created[Builtin][i] \in Nat
        BY <1>3, <2>4 DEF AllProviders
      <3>2. Cardinality(Waiting(i)') <= Cardinality(Waiting(i)) /\ Cardinality(Waiting(i)') \in Nat
        BY <2>1, <2>2, FS_Subset, FS_CardinalityType
      <3> QED BY <2>2, <3>1, <3>2
    <2> QED BY <2>3, <2>4
  <1> QED BY <1>4, <1>5, <1>6, <1>7 DEF OneAccountInv

\* A column is overwritten: the count of an id that no column holds any more starts again.
LEMMA BindColumnStep ==
    ASSUME OneAccountInv, NEW b \in Browsers, BindColumn(b)
    PROVE  OneAccountInv'
  <1>1. /\ callback[b].pc = "free" /\ visitor[b] \in Accounts
        /\ column' = IF account[visitor[b]] = "live"
                     THEN [column EXCEPT ![visitor[b]] = callback[b].id] ELSE column
        /\ created' = [created EXCEPT ![Builtin] = [i \in Idents |->
                          IF \A a \in Accounts : column'[a] # i THEN 0 ELSE @[i]]]
        /\ callback' = [callback EXCEPT ![b] = NoCallback]
        /\ UNCHANGED <<account, bind, registry, visitor>>
    BY DEF BindColumn, OneAccountInv, OAuthTypes
  <1>2. callback[b].id \in Idents
    BY <1>1 DEF OneAccountInv, OAuthTypes
  <1>3. /\ created' \in [AllProviders -> [Idents -> Nat]]
        /\ \A i \in Idents : /\ created[Builtin][i] \in Nat
                             /\ (\A a \in Accounts : column'[a] # i) => created'[Builtin][i] = 0
                             /\ (\E a \in Accounts : column'[a] = i)
                                  => created'[Builtin][i] = created[Builtin][i]
        /\ \A q \in AllProviders : q # Builtin => created'[q] = created[q]
    BY <1>1 DEF OneAccountInv, OAuthTypes, AllProviders
  <1>4. column' \in [Accounts -> Idents \cup {Absent}]
    BY <1>1, <1>2 DEF OneAccountInv, OAuthTypes
  <1>5. OAuthTypes'
    <2>1. /\ callback' \in [Browsers -> CallbackRecords]
          /\ \A x \in Browsers :
               callback'[x].pc # "idle" => callback'[x].prov \in AllProviders /\ callback'[x].id \in Idents
      BY <1>1, CallbackTypes, IdleCallback DEF OneAccountInv
    <2> QED BY <1>1, <1>3, <1>4, <2>1 DEF OneAccountInv, OAuthTypes
  <1>6. CustomHeld'
    <2>1. \A q \in Providers : q \in AllProviders /\ q # Builtin
      BY OAuthAssumption DEF AllProviders, Builtin
    <2> QED BY <1>1, <1>3, <2>1 DEF OneAccountInv, CustomHeld
  <1>7. ColumnHeld'
    <2>1. \A a \in Accounts : column'[a] # Absent => account'[a] # Absent
      BY <1>1, <1>2, OAuthAssumption DEF OneAccountInv, ColumnHeld, OAuthTypes
    <2>2. \A i \in Idents : created'[Builtin][i] > 0 => \E a \in Accounts : column'[a] = i
      BY <1>3
    <2> QED BY <2>1, <2>2 DEF ColumnHeld
  <1>8. \A i \in Idents : Waiting(i)' = Waiting(i) \ {b} /\ created'[Builtin][i] <= created[Builtin][i]
    <2>1. \A i \in Idents : Waiting(i)' = Waiting(i) \ {b}
      BY <1>1, CallbackMoves, IdleCallback DEF OneAccountInv
    <2>2. \A i \in Idents : created'[Builtin][i] <= created[Builtin][i]
      BY <1>3
    <2> QED BY <2>1, <2>2
  <1> QED BY <1>5, <1>6, <1>7, <1>8, OverlapShrinks DEF OneAccountInv

\* A binding takes the place of the user's old one: the count of the id given up starts again.
LEMMA UpdateBindingStep ==
    ASSUME OneAccountInv, NEW b \in Browsers, UpdateUserOAuthBinding(b)
    PROVE  OneAccountInv'
  <1> DEFINE a == visitor[b]
             p == callback[b].prov
             k == callback[b].id
             mine == {r \in bind : r.user = a /\ r.prov = p}
             row == [user |-> a, prov |-> p, id |-> k]
  <1>1. /\ callback[b].pc = "free" /\ a # Absent /\ p # Builtin
        /\ bind' = IF \E r \in bind : r.prov = p /\ r.id = k THEN bind ELSE (bind \ mine) \cup {row}
        /\ created' = [created EXCEPT ![p] = [i \in Idents |->
                          IF \E r \in mine : r.id = i /\ r \notin bind' THEN 0 ELSE @[i]]]
        /\ callback' = [callback EXCEPT ![b] = NoCallback]
        /\ UNCHANGED <<account, column, registry, visitor>>
    BY DEF UpdateUserOAuthBinding
  <1>2. p \in Providers /\ k \in Idents /\ a \in Accounts
    BY <1>1 DEF OneAccountInv, OAuthTypes, AllProviders
  <1>3. /\ created' \in [AllProviders -> [Idents -> Nat]]
        /\ \A i \in Idents : /\ created[p][i] \in Nat
                             /\ (\E r \in mine : r.id = i /\ r \notin bind') => created'[p][i] = 0
                             /\ (~ \E r \in mine : r.id = i /\ r \notin bind')
                                  => created'[p][i] = created[p][i]
        /\ \A q \in AllProviders : q # p => created'[q] = created[q]
    BY <1>1, <1>2 DEF OneAccountInv, OAuthTypes, AllProviders
  <1> HIDE DEF a, p, k
  <1>4. bind' \subseteq [user : Accounts, prov : Providers, id : Idents]
    BY <1>1, <1>2 DEF OneAccountInv, OAuthTypes
  <1>5. OAuthTypes'
    <2>1. /\ callback' \in [Browsers -> CallbackRecords]
          /\ \A x \in Browsers :
               callback'[x].pc # "idle" => callback'[x].prov \in AllProviders /\ callback'[x].id \in Idents
      BY <1>1, CallbackTypes, IdleCallback DEF OneAccountInv
    <2> QED BY <1>1, <1>3, <1>4, <2>1 DEF OneAccountInv, OAuthTypes
  <1>6. CustomHeld'
    <2> SUFFICES ASSUME NEW q \in Providers, NEW i \in Idents
                 PROVE  created'[q][i] <= 1 /\ (created'[q][i] > 0 => \E r \in bind' : r.prov = q /\ r.id = i)
      BY DEF CustomHeld
    <2>1. created[q][i] <= 1 /\ (created[q][i] > 0 => \E r \in bind : r.prov = q /\ r.id = i)
      BY DEF OneAccountInv, CustomHeld
    <2>2. q \in AllProviders
      BY DEF AllProviders
    <2>3. ASSUME created'[q][i] > 0
          PROVE  created'[q][i] = created[q][i] /\ \E r \in bind' : r.prov = q /\ r.id = i
      <3>1. created'[q][i] = created[q][i] /\ (q = p => ~ \E r \in mine : r.id = i /\ r \notin bind')
        BY <1>3, <2>2, <2>3
      <3>2. PICK r \in bind : r.prov = q /\ r.id = i
        BY <2>1, <2>3, <3>1
      <3>3. CASE r \in mine
        BY <3>1, <3>2, <3>3
      <3>4. CASE r \notin mine
        <4>1. r \in bind'
          BY <1>1, <3>2, <3>4
        <4> QED BY <3>1, <3>2, <4>1
      <3> QED BY <3>3, <3>4
    <2>4. created'[q][i] \in Nat
      BY <1>3, <2>2
    <2> QED BY <2>1, <2>3, <2>4
  <1>7. Builtin \in AllProviders /\ p # Builtin
    BY <1>1 DEF AllProviders
  <1>8. ColumnHeld'
    BY <1>1, <1>3, <1>7 DEF OneAccountInv, ColumnHeld
  <1>9. \A i \in Idents : Waiting(i)' = Waiting(i) \ {b} /\ created'[Builtin][i] <= created[Builtin][i]
    <2>1. \A i \in Idents : created[Builtin][i] \in Nat
      BY <1>7 DEF OneAccountInv, OAuthTypes
    <2>2. \A i \in Idents : Waiting(i)' = Waiting(i) \ {b}
      BY <1>1, CallbackMoves, IdleCallback DEF OneAccountInv
    <2>3. \A i \in Idents : created'[Builtin][i] <= created[Builtin][i]
      BY <1>3, <1>7, <2>1
    <2> QED BY <2>2, <2>3
  <1> QED BY <1>5, <1>6, <1>8, <1>9, OverlapShrinks DEF OneAccountInv

\* A binding is removed, and the count with it.
LEMMA DeleteBindingStep ==
    ASSUME OneAccountInv, NEW x \in bind, DeleteUserOAuthBinding(x)
    PROVE  OneAccountInv'
  <1>1. x.prov \in Providers /\ x.id \in Idents /\ x.prov \in AllProviders
    BY DEF OneAccountInv, OAuthTypes, AllProviders
  <1>2. /\ bind' = bind \ {x} /\ created' = [created EXCEPT ![x.prov][x.id] = 0]
        /\ UNCHANGED <<account, column, registry, visitor, callback>>
    BY DEF DeleteUserOAuthBinding
  <1>3. /\ created' \in [AllProviders -> [Idents -> Nat]] /\ created'[x.prov][x.id] = 0
        /\ \A q \in AllProviders, i \in Idents :
             (q # x.prov \/ i # x.id) => created'[q][i] = created[q][i]
    BY <1>1, <1>2 DEF OneAccountInv, OAuthTypes
  <1>4. OAuthTypes'
    BY <1>2, <1>3 DEF OneAccountInv, OAuthTypes
  <1>5. CustomHeld'
    <2> SUFFICES ASSUME NEW q \in Providers, NEW i \in Idents
                 PROVE  created'[q][i] <= 1 /\ (created'[q][i] > 0 => \E r \in bind' : r.prov = q /\ r.id = i)
      BY DEF CustomHeld
    <2>1. q \in AllProviders
      BY DEF AllProviders
    <2>2. created[q][i] <= 1 /\ (created[q][i] > 0 => \E r \in bind : r.prov = q /\ r.id = i)
      BY DEF OneAccountInv, CustomHeld
    <2>3. CASE q = x.prov /\ i = x.id
      BY <1>3, <2>3
    <2>4. CASE ~ (q = x.prov /\ i = x.id)
      BY <1>2, <1>3, <2>1, <2>2, <2>4
    <2> QED BY <2>3, <2>4
  <1>6. Builtin \in AllProviders /\ x.prov # Builtin
    BY <1>1, OAuthAssumption DEF AllProviders, Builtin
  <1>7. ColumnHeld'
    BY <1>2, <1>3, <1>6 DEF OneAccountInv, ColumnHeld
  <1>8. \A i \in Idents : Waiting(i)' = Waiting(i) /\ created'[Builtin][i] <= created[Builtin][i]
    <2>1. \A i \in Idents : created[Builtin][i] \in Nat
      BY <1>6 DEF OneAccountInv, OAuthTypes
    <2> QED BY <1>2, <1>3, <1>6, <2>1 DEF Waiting
  <1> QED BY <1>4, <1>5, <1>7, <1>8, OverlapShrinks DEF OneAccountInv

\* A deleted account keeps its column and its bindings.
LEMMA DeleteStep ==
    ASSUME OneAccountInv, NEW b \in Browsers, Delete(b)
    PROVE  OneAccountInv'
  <1>1. /\ account' = [account EXCEPT ![visitor[b]] = "deleted"]
        /\ UNCHANGED <<column, bind, registry, visitor, callback, created>>
    BY DEF Delete
  <1>2. OAuthTypes'
    BY <1>1 DEF OneAccountInv, OAuthTypes
  <1>3. CustomHeld'
    BY <1>1 DEF OneAccountInv, CustomHeld
  <1>4. ColumnHeld'
    <2>1. \A a \in Accounts : account[a] # Absent => account'[a] # Absent
      BY <1>1, OAuthAssumption DEF OneAccountInv, OAuthTypes
    <2> QED BY <1>1, <2>1 DEF OneAccountInv, ColumnHeld
  <1>5. \A i \in Idents : Waiting(i)' = Waiting(i) /\ created'[Builtin][i] <= created[Builtin][i]
    BY <1>1 DEF Waiting, OneAccountInv, OAuthTypes, AllProviders
  <1> QED BY <1>2, <1>3, <1>4, <1>5, OverlapShrinks DEF OneAccountInv

-----------------------------------------------------------------------------
LEMMA OneAccountInit == OAuthInit => OneAccountInv
  <1> SUFFICES ASSUME OAuthInit PROVE OneAccountInv
    OBVIOUS
  <1>1. OAuthTypes
    BY IdleCallback DEF OAuthInit, OAuthTypes
  <1>2. \A q \in AllProviders, i \in Idents : created[q][i] = 0
    BY DEF OAuthInit
  <1>3. CustomHeld /\ ColumnHeld
    BY <1>2 DEF CustomHeld, ColumnHeld, AllProviders, OAuthInit
  <1>4. Overlap
    <2> SUFFICES ASSUME NEW i \in Idents
                 PROVE  created[Builtin][i] + Cardinality(Waiting(i)) <= Cardinality(Browsers)
      BY DEF Overlap
    <2>1. created[Builtin][i] = 0
      BY <1>2 DEF AllProviders
    <2> QED BY <2>1, WaitingFacts
  <1> QED BY <1>1, <1>3, <1>4 DEF OneAccountInv

LEMMA OneAccountNext == OneAccountInv /\ [OAuthNext]_oauthVars => OneAccountInv'
  <1> SUFFICES ASSUME OneAccountInv, [OAuthNext]_oauthVars PROVE OneAccountInv'
    OBVIOUS
  <1>1. CASE UNCHANGED oauthVars
    <2>1. OAuthTypes' /\ UNCHANGED <<account, column, bind, created>> /\ \A i \in Idents : Waiting(i)' = Waiting(i)
      BY <1>1 DEF oauthVars, OneAccountInv, OAuthTypes, Waiting
    <2> QED BY <2>1, RestUnchanged
  <1>2. CASE OAuthNext
    BY <1>2, ProviderSteps, QuietSteps, NotTakenStep, InsertStep, BindColumnStep, UpdateBindingStep,
       DeleteBindingStep, DeleteStep DEF OAuthNext, Callbacks
  <1> QED BY <1>1, <1>2

\* A visitor of another service gets one account (see OneAccount), for any accounts,
\* browsers, identities and providers.
THEOREM VisitorsHaveOneAccount == OAuthSpec => []OneAccount
  <1>1. OneAccountInv => OneAccount
    <2> SUFFICES ASSUME OneAccountInv, NEW i \in Idents
                 PROVE  /\ \A p \in Providers : created[p][i] <= 1
                        /\ created[Builtin][i] <= Cardinality(Browsers)
      BY DEF OneAccount
    <2>1. /\ created[Builtin][i] + Cardinality(Waiting(i)) <= Cardinality(Browsers)
          /\ created[Builtin][i] \in Nat
      BY DEF OneAccountInv, Overlap, OAuthTypes, AllProviders
    <2>2. Cardinality(Waiting(i)) \in Nat /\ Cardinality(Browsers) \in Nat
      BY WaitingFacts
    <2> QED BY <2>1, <2>2 DEF OneAccountInv, CustomHeld
  <1> QED BY <1>1, OneAccountInit, OneAccountNext, PTL DEF OAuthSpec

-----------------------------------------------------------------------------
(***************************************************************************)
(* Second factors. A wrong code is counted in a copy of the TwoFA row. A   *)
(* copy whose count lacks a of the limit lets a codes through, and can     *)
(* take the other browser's count back to where it was: two requests that  *)
(* lack a and b can try min(a, b) + T(max(a, b)) codes, T the triangular   *)
(* numbers (Chances). Every save lowers that sum by the code it stands for *)
(* (ChancesFall); a row that was deleted and set up anew leaves one stray  *)
(* copy, whose code is counted and not saved (Strays).                     *)
(*                                                                         *)
(* The markers of the step-up verification are bounded by the time of the  *)
(* last second factor of their browser (ShownBefore).                      *)
(***************************************************************************)

(* The sums of the counts a stale copy can take back.                      *)

Triangle(k) == (k * (k + 1)) \div 2

\* The wrong codes two requests can still try, with counts that lack a and b of the limit:
\* the one that lacks less first, and then the other's copy again and again.
Chances(a, b) == IF a <= b THEN a + Triangle(b) ELSE b + Triangle(a)

LEMMA TriangleStep ==
    ASSUME NEW k \in Nat
    PROVE  Triangle(k) \in Nat /\ Triangle(k + 1) = Triangle(k) + k + 1
  <1> DEFINE p == k * (k + 1)
  <1>1. (k + 1) * ((k + 1) + 1) = p + 2 * (k + 1)
    OBVIOUS
  <1>2. p \in Nat
    OBVIOUS
  <1>3. Triangle(k) = p \div 2
    BY DEF Triangle
  <1>4. Triangle(k + 1) = (p + 2 * (k + 1)) \div 2
    BY <1>1 DEF Triangle
  <1> HIDE DEF p
  <1> QED BY <1>2, <1>3, <1>4

LEMMA TriangleGrows ==
    ASSUME NEW i \in Nat, NEW k \in Nat, i <= k
    PROVE  Triangle(i) <= Triangle(k)
  <1> DEFINE p == i * (i + 1)
             q == k * (k + 1)
  <1>1. p \in Nat /\ q \in Nat
    OBVIOUS
  <1>2. p <= q
    <2>1. PICK d \in Nat : k = i + d
      <3>1. k - i \in Nat /\ k = i + (k - i)
        OBVIOUS
      <3> QED BY <3>1
    <2>2. q = p + (d * (2 * i + d + 1))
      BY <2>1
    <2>3. d * (2 * i + d + 1) \in Nat
      OBVIOUS
    <2> HIDE DEF p, q
    <2>4. PICK e \in Nat : e = d * (2 * i + d + 1)
      BY <2>3
    <2> QED BY <1>1, <2>2, <2>4
  <1>3. Triangle(i) = p \div 2 /\ Triangle(k) = q \div 2
    BY DEF Triangle
  <1> HIDE DEF p, q
  <1> QED BY <1>1, <1>2, <1>3

LEMMA TriangleOfFew == Triangle(0) = 0 /\ Triangle(1) = 1
  BY DEF Triangle

LEMMA TriangleBefore ==
    ASSUME NEW w \in Nat \ {0}
    PROVE  w - 1 \in Nat /\ Triangle(w) = Triangle(w - 1) + w /\ Triangle(w) \in Nat /\ Triangle(w - 1) \in Nat
  <1>1. PICK k \in Nat : k = w - 1 /\ w = k + 1
    OBVIOUS
  <1>2. Triangle(k) \in Nat /\ Triangle(k + 1) = Triangle(k) + k + 1
    BY TriangleStep
  <1>3. Triangle(w) = Triangle(k + 1) /\ Triangle(w - 1) = Triangle(k)
    BY <1>1
  <1> QED BY <1>1, <1>2, <1>3

LEMMA ChancesGrow ==
    ASSUME NEW a \in Nat, NEW b \in Nat, NEW c \in Nat, NEW d \in Nat, a <= c, b <= d
    PROVE  Chances(a, b) <= Chances(c, d) /\ Chances(a, b) \in Nat /\ Chances(c, d) \in Nat
           /\ Chances(a, b) = Chances(b, a)
  <1>1. /\ Triangle(a) \in Nat /\ Triangle(b) \in Nat /\ Triangle(c) \in Nat /\ Triangle(d) \in Nat
    BY TriangleStep
  <1>2. Triangle(a) <= Triangle(c) /\ Triangle(b) <= Triangle(d)
    BY TriangleGrows
  <1>3. (c <= d => Triangle(a) <= Triangle(d)) /\ (d <= c => Triangle(b) <= Triangle(c))
    <2>1. c <= d => a <= d
      OBVIOUS
    <2>2. d <= c => b <= c
      OBVIOUS
    <2> QED BY <2>1, <2>2, TriangleGrows
  <1>4. a <= b /\ b <= a => a = b
    OBVIOUS
  <1> QED BY <1>1, <1>2, <1>3, <1>4 DEF Chances

LEMMA ChancesTyped ==
    ASSUME NEW a \in Nat, NEW b \in Nat
    PROVE  Chances(a, b) \in Nat
  BY TriangleStep DEF Chances

\* A count that goes up takes a chance with it.
LEMMA ChancesFall ==
    ASSUME NEW w \in Nat \ {0}, NEW y \in Nat
    PROVE  /\ 1 + Chances(w - 1, y) <= Chances(w, y)
           /\ 1 + Chances(w - 1, w - 1) <= Chances(w, y)
           /\ y # 0 => 2 + Chances(w - 1, w - 1) <= Chances(w, y)
  <1>1. w - 1 \in Nat /\ Triangle(w) = Triangle(w - 1) + w /\ Triangle(w) \in Nat /\ Triangle(w - 1) \in Nat
    BY TriangleBefore
  <1>2. Triangle(y) \in Nat
    BY TriangleStep
  <1>3. w <= y => Triangle(w) <= Triangle(y)
    BY TriangleGrows
  <1>4. 1 + Chances(w - 1, y) <= Chances(w, y)
    BY <1>1, <1>2 DEF Chances
  <1>5. Chances(w - 1, w - 1) = (w - 1) + Triangle(w - 1)
    BY <1>1 DEF Chances
  <1>6. Triangle(w) <= Chances(w, y) /\ (y # 0 => 1 + Triangle(w) <= Chances(w, y))
    BY <1>1, <1>2, <1>3 DEF Chances
  <1>7. Chances(w, y) \in Nat
    BY <1>1, <1>2 DEF Chances
  <1> QED BY <1>1, <1>4, <1>5, <1>6, <1>7

LEMMA ChancesAtMost ==
    ASSUME NEW a \in Nat, NEW b \in Nat, NEW M \in Nat, a <= M, b <= M
    PROVE  Chances(a, b) <= M + Triangle(M)
  <1>1. Triangle(a) \in Nat /\ Triangle(b) \in Nat /\ Triangle(M) \in Nat
    BY TriangleStep
  <1>2. Triangle(a) <= Triangle(M) /\ Triangle(b) <= Triangle(M)
    BY TriangleGrows
  <1> QED BY <1>1, <1>2 DEF Chances

-----------------------------------------------------------------------------
(* Types.                                                                  *)

Row == [id : Nat, on : BOOLEAN, fails : Nat, lock : Int \cup {Unset}]
Uses == {"login", "disable", "regenerate", "stepup"}
Session == [user : BOOLEAN, pending : BOOLEAN, ready : Nat \cup {Unset}, verified : Nat \cup {Unset},
            ceremony : {Unset, "register", "login", "verify"}]
Request == [pc : {"idle", "check", "backup", "valid", "reset"}, copy : Row \cup {Unset},
            for : Uses \cup {"none", "reset"}]

SignTypes ==
    /\ now \in Nat /\ setups \in Nat /\ guesses \in Nat
    /\ twofa \in Row \cup {Unset}
    /\ sess \in [Devices -> Session]
    /\ run \in [Devices -> Request]
    /\ proof \in [Devices -> Nat \cup {Unset}]
    /\ \A b \in Devices : run[b].pc \in {"check", "backup"} => run[b].copy \in Row
    /\ \A b \in Devices : run[b].pc \in {"check", "backup", "valid"} => run[b].for \in Uses

\* What a save may leave in the table.
LEMMA UpdateTyped ==
    ASSUME SignTypes, NEW row \in Row, Update(row)
    PROVE  twofa' \in Row \cup {Unset}
  BY DEF SignTypes, Update

LEMMA CountedTyped ==
    ASSUME NEW row \in Row, NEW n \in Nat, NEW l \in Int \cup {Unset}
    PROVE  [row EXCEPT !.fails = n, !.lock = l] \in Row
  BY DEF Row

LEMMA IdleTyped == Idle \in Request /\ Idle.pc = "idle"
  BY DEF Idle, Request

\* The table, the requests and the clock stay typed when a browser goes to another step.
LEMMA RequestTyped ==
    ASSUME SignTypes, NEW b \in Devices, NEW r \in Request, run' = [run EXCEPT ![b] = r],
           r.pc \in {"check", "backup"} => r.copy \in Row,
           r.pc \in {"check", "backup", "valid"} => r.for \in Uses
    PROVE  /\ run' \in [Devices -> Request]
           /\ \A c \in Devices : run'[c].pc \in {"check", "backup"} => run'[c].copy \in Row
           /\ \A c \in Devices : run'[c].pc \in {"check", "backup", "valid"} => run'[c].for \in Uses
  BY DEF SignTypes

LEMMA SignTypesInit == InitSign => SignTypes
  BY SignInAssumption DEF InitSign, SignTypes, Session, Request, NoSession, Idle

LEMMA SessionsTyped ==
    ASSUME SignTypes, NEW b \in Devices
    PROVE  /\ setupSession(b) => sess' \in [Devices -> Session]
           /\ setSecureVerificationSession(b) => sess' \in [Devices -> Session]
           /\ sess' = [sess EXCEPT ![b].ceremony = Unset, ![b].ready = now, ![b].verified = Unset]
              => sess' \in [Devices -> Session]
  <1>1. sess \in [Devices -> Session] /\ now \in Nat
    BY DEF SignTypes
  <1>2. ASSUME NEW s \in [Devices -> Session]
        PROVE  /\ [s EXCEPT ![b].user = TRUE] \in [Devices -> Session]
               /\ [s EXCEPT ![b].pending = FALSE] \in [Devices -> Session]
               /\ \A t \in Nat \cup {Unset} : /\ [s EXCEPT ![b].ready = t] \in [Devices -> Session]
                                             /\ [s EXCEPT ![b].verified = t] \in [Devices -> Session]
               /\ [s EXCEPT ![b].ceremony = Unset] \in [Devices -> Session]
    BY DEF Session
  <1>3. setupSession(b) => sess' \in [Devices -> Session]
    <2>1. PICK s \in [Devices -> Session] : s = [sess EXCEPT ![b].user = TRUE]
      BY <1>1, <1>2
    <2>2. setupSession(b) => sess' = [s EXCEPT ![b].pending = FALSE]
      BY <2>1, Zenon DEF setupSession
    <2> QED BY <1>2, <2>2
  <1>4. setSecureVerificationSession(b) => sess' \in [Devices -> Session]
    <2>1. PICK s : s = [sess[b] EXCEPT !.ready = Unset, !.verified = now]
      OBVIOUS
    <2>2. s \in Session
      <3>1. s = [user |-> sess[b].user, pending |-> sess[b].pending, ready |-> Unset, verified |-> now,
                 ceremony |-> sess[b].ceremony]
        BY <1>1, <2>1 DEF Session
      <3> QED BY <1>1, <3>1 DEF Session
    <2>3. [sess EXCEPT ![b].ready = Unset, ![b].verified = now] = [sess EXCEPT ![b] = s]
      BY <1>1, <2>1
    <2> QED BY <1>1, <2>2, <2>3 DEF setSecureVerificationSession
  <1>5. sess' = [sess EXCEPT ![b].ceremony = Unset, ![b].ready = now, ![b].verified = Unset]
        => sess' \in [Devices -> Session]
    <2>1. PICK s : s = [sess[b] EXCEPT !.ceremony = Unset, !.ready = now, !.verified = Unset]
      OBVIOUS
    <2>2. s \in Session
      <3>1. s = [user |-> sess[b].user, pending |-> sess[b].pending, ready |-> now, verified |-> Unset,
                 ceremony |-> Unset]
        BY <1>1, <2>1 DEF Session
      <3> QED BY <1>1, <3>1 DEF Session
    <2>3. [sess EXCEPT ![b].ceremony = Unset, ![b].ready = now, ![b].verified = Unset]
          = [sess EXCEPT ![b] = s]
      BY <1>1, <2>1
    <2> QED BY <1>1, <2>2, <2>3
  <1> QED BY <1>3, <1>4, <1>5

\* The steps that only write the session.
SessionStep ==
    /\ sess' \in [Devices -> Session]
    /\ UNCHANGED <<now, twofa, setups, run, guesses>>
    /\ proof' \in [Devices -> Nat \cup {Unset}]

LEMMA SessionTyped ==
    ASSUME SignTypes, SessionStep
    PROVE  SignTypes'
  BY DEF SignTypes, SessionStep

LEMMA SetupTyped ==
    ASSUME SignTypes, NEW b \in Devices, Setup2FA(b) \/ Enable2FA(b) \/ AdminDisable2FA
    PROVE  SignTypes'
  <1>1. CASE Setup2FA(b)
    <2>1. twofa' \in Row
      BY <1>1 DEF SignTypes, Setup2FA, Row
    <2> QED BY <1>1, <2>1 DEF SignTypes, Setup2FA
  <1>2. CASE Enable2FA(b)
    <2>1. twofa' \in Row
      BY <1>2 DEF SignTypes, Enable2FA, Row
    <2> QED BY <1>2, <2>1 DEF SignTypes, Enable2FA
  <1>3. CASE AdminDisable2FA
    BY <1>3 DEF SignTypes, AdminDisable2FA, DisableTwoFA
  <1> QED BY <1>1, <1>2, <1>3

LEMMA ReadTyped ==
    ASSUME SignTypes, NEW b \in Devices, NEW for \in Uses, ReadTwoFA(b, for)
    PROVE  SignTypes'
  <1> DEFINE r == [pc |-> "check", copy |-> twofa, for |-> for]
  <1>1. r \in Request /\ r.copy \in Row /\ r.for \in Uses
    BY DEF SignTypes, ReadTwoFA, IsTwoFAEnabled, Request
  <1>2. run' = [run EXCEPT ![b] = r]
    BY DEF ReadTwoFA
  <1> HIDE DEF r
  <1> QED BY <1>1, <1>2, RequestTyped DEF SignTypes, ReadTwoFA

LEMMA CheckedTyped ==
    ASSUME SignTypes, NEW b \in Devices,
           IncrementFailedAttempts(b) \/ ValidateTOTPAndUpdateUsage(b) \/ ValidateBackupCodeAndUpdateUsage(b)
    PROVE  SignTypes'
  <1> DEFINE copy == run[b].copy
  <1>1. copy \in Row /\ copy.fails \in Nat /\ copy.lock \in Int \cup {Unset}
    BY DEF SignTypes, IncrementFailedAttempts, ValidateTOTPAndUpdateUsage, ValidateBackupCodeAndUpdateUsage, Row
  <1>2. PICK row \in Row : Update(row)
    <2>1. CASE IncrementFailedAttempts(b)
      <3> DEFINE n == copy.fails + 1
                 l == IF n >= MaxFailAttempts THEN now + LockoutDuration ELSE copy.lock
      <3>1. n \in Nat /\ l \in Int \cup {Unset}
        BY <1>1, SignInAssumption DEF SignTypes
      <3>2. [copy EXCEPT !.fails = n, !.lock = l] \in Row
        <4> HIDE DEF n, l, copy
        <4> QED BY <1>1, <3>1, CountedTyped
      <3>3. Update([copy EXCEPT !.fails = n, !.lock = l])
        BY <2>1 DEF IncrementFailedAttempts
      <3> QED BY <3>2, <3>3
    <2>2. [copy EXCEPT !.fails = 0, !.lock = Unset] \in Row
      <3> HIDE DEF copy
      <3> QED BY <1>1, CountedTyped
    <2>3. CASE ValidateTOTPAndUpdateUsage(b)
      BY <2>2, <2>3 DEF ValidateTOTPAndUpdateUsage
    <2>4. CASE ValidateBackupCodeAndUpdateUsage(b)
      BY <2>2, <2>4 DEF ValidateBackupCodeAndUpdateUsage
    <2> QED BY <2>1, <2>3, <2>4
  <1>3. twofa' \in Row \cup {Unset}
    BY <1>2, UpdateTyped
  <1>4. CASE IncrementFailedAttempts(b)
    <2>1. run' = [run EXCEPT ![b] = Idle] /\ UNCHANGED <<now, setups, sess, proof>> /\ guesses' = guesses + 1
      BY <1>4 DEF IncrementFailedAttempts
    <2> QED BY <1>3, <2>1, IdleTyped, RequestTyped DEF SignTypes
  <1>5. CASE ValidateTOTPAndUpdateUsage(b) \/ ValidateBackupCodeAndUpdateUsage(b)
    <2>1. /\ run' = [run EXCEPT ![b].pc = "valid"] /\ UNCHANGED <<now, setups, sess>> /\ guesses' = 0
          /\ proof' = [proof EXCEPT ![b] = now] /\ run[b].pc \in {"check", "backup"}
      BY <1>5 DEF ValidateTOTPAndUpdateUsage, ValidateBackupCodeAndUpdateUsage
    <2>2. PICK r : r = [run[b] EXCEPT !.pc = "valid"]
      OBVIOUS
    <2>3. r \in Request /\ r.pc = "valid" /\ r.for \in Uses
      BY <2>1, <2>2 DEF SignTypes, Request
    <2>4. run' = [run EXCEPT ![b] = r]
      BY <2>1, <2>2 DEF SignTypes
    <2>5. proof' \in [Devices -> Nat \cup {Unset}]
      BY <2>1 DEF SignTypes
    <2> QED BY <1>3, <2>1, <2>3, <2>4, <2>5, RequestTyped DEF SignTypes
  <1> QED BY <1>4, <1>5

LEMMA RequestsTyped ==
    ASSUME SignTypes, NEW b \in Devices,
           ValidateBackupCode(b) \/ AfterValid(b) \/ ResetPassword(b) \/ DeleteKey(b)
    PROVE  SignTypes'
  <1>1. CASE ValidateBackupCode(b)
    <2>1. run[b].pc = "check" /\ run' = [run EXCEPT ![b].pc = "backup"]
          /\ UNCHANGED <<now, twofa, setups, sess, guesses, proof>>
      BY <1>1 DEF ValidateBackupCode
    <2>2. PICK r : r = [run[b] EXCEPT !.pc = "backup"]
      OBVIOUS
    <2>3. r \in Request /\ r.copy \in Row /\ r.for \in Uses
      BY <2>1, <2>2 DEF SignTypes, Request
    <2>4. run' = [run EXCEPT ![b] = r]
      BY <2>1, <2>2 DEF SignTypes
    <2> QED BY <2>1, <2>3, <2>4, RequestTyped DEF SignTypes
  <1>2. CASE AfterValid(b)
    <2>1. run[b].pc = "valid" /\ run' = [run EXCEPT ![b] = Idle]
          /\ UNCHANGED <<now, setups, guesses, proof>>
      BY <1>2 DEF AfterValid
    <2>2. twofa' \in {twofa, Unset} /\ (sess' = sess \/ setupSession(b) \/ setSecureVerificationSession(b))
      <3>1. run[b].for \in Uses
        BY <2>1 DEF SignTypes
      <3> QED BY <1>2, <3>1 DEF AfterValid, Uses, DisableTwoFA
    <2>3. sess' \in [Devices -> Session]
      BY <2>2, SessionsTyped DEF SignTypes
    <2> QED BY <2>1, <2>2, <2>3, IdleTyped, RequestTyped DEF SignTypes
  <1>3. CASE ResetPassword(b)
    <2> DEFINE r == [pc |-> "reset", copy |-> Unset, for |-> "reset"]
    <2>1. r \in Request /\ r.pc = "reset"
      BY DEF Request
    <2>2. run' = [run EXCEPT ![b] = r] /\ UNCHANGED <<now, twofa, setups, sess, guesses, proof>>
      BY <1>3 DEF ResetPassword
    <2> HIDE DEF r
    <2> QED BY <2>1, <2>2, RequestTyped DEF SignTypes
  <1>4. CASE DeleteKey(b)
    BY <1>4, IdleTyped, RequestTyped DEF SignTypes, DeleteKey
  <1> QED BY <1>1, <1>2, <1>3, <1>4

\* The requests that are one step, and touch nothing but the session of their browser.
OneStep(b) ==
    \/ Login(b) \/ EndSession(b) \/ Passkeys(b) \/ SecureVerificationRequired(b)

LEMMA OneStepTyped ==
    ASSUME SignTypes, NEW b \in Devices, OneStep(b)
    PROVE  SessionStep
  <1> USE DEF SignTypes, SessionStep, Session
  <1>1. CASE Login(b)
    <2>1. CASE setupSession(b)
      BY <1>1, <2>1, SessionsTyped DEF Login
    <2>2. CASE sess' = [sess EXCEPT ![b].pending = TRUE]
      BY <1>1, <2>2 DEF Login
    <2> QED BY <1>1, <2>1, <2>2 DEF Login
  <1>2. CASE EndSession(b)
    BY <1>2 DEF EndSession, NoSession
  <1>3. CASE PasskeyRegisterBegin(b) \/ PasskeyLoginBegin(b) \/ PasskeyVerifyBegin(b)
    BY <1>3 DEF PasskeyRegisterBegin, PasskeyLoginBegin, PasskeyVerifyBegin, SaveSessionData
  <1>4. CASE PasskeyRegisterFinish(b)
    BY <1>4 DEF PasskeyRegisterFinish
  <1>5. CASE PasskeyLoginFinish(b)
    BY <1>5 DEF PasskeyLoginFinish
  <1>6. CASE PasskeyVerifyFinish(b)
    BY <1>6, SessionsTyped DEF PasskeyVerifyFinish
  <1>7. CASE CeremonyFails(b)
    BY <1>7 DEF CeremonyFails
  <1>8. CASE consumePasskeyReady(b)
    <2>1. CASE setSecureVerificationSession(b)
      BY <1>8, <2>1, SessionsTyped DEF consumePasskeyReady
    <2>2. CASE sess' = [sess EXCEPT ![b].ready = Unset]
      BY <1>8, <2>2 DEF consumePasskeyReady
    <2> QED BY <1>8, <2>1, <2>2 DEF consumePasskeyReady
  <1>9. CASE PasskeyDelete(b)
    BY <1>9 DEF PasskeyDelete
  <1>10. CASE SecureVerificationRequired(b)
    BY <1>10 DEF SecureVerificationRequired
  <1> QED BY <1>1, <1>2, <1>3, <1>4, <1>5, <1>6, <1>7, <1>8, <1>9, <1>10 DEF OneStep, Passkeys

LEMMA NextCases ==
    ASSUME NextSign
    PROVE  \/ Tick \/ AdminDisable2FA
           \/ UNCHANGED <<now, twofa, setups, sess, run, guesses, proof>>
           \/ \E b \in Devices :
                \/ OneStep(b) \/ Setup2FA(b) \/ Enable2FA(b)
                \/ \E for \in Uses : ReadTwoFA(b, for)
                \/ IncrementFailedAttempts(b)
                \/ ValidateTOTPAndUpdateUsage(b) \/ ValidateBackupCodeAndUpdateUsage(b)
                \/ ValidateBackupCode(b) \/ AfterValid(b) \/ ResetPassword(b) \/ DeleteKey(b)
  <1>1. AdminResetPasskey \/ SendPasswordResetEmail
        => UNCHANGED <<now, twofa, setups, sess, run, guesses, proof>>
    BY DEF AdminResetPasskey, SendPasswordResetEmail
  <1>2. ASSUME NEW b \in Devices, Codes(b)
        PROVE  \/ \E for \in Uses : ReadTwoFA(b, for)
               \/ IncrementFailedAttempts(b)
               \/ ValidateTOTPAndUpdateUsage(b) \/ ValidateBackupCodeAndUpdateUsage(b)
               \/ ValidateBackupCode(b) \/ AfterValid(b)
    BY <1>2, Zenon DEF Codes, Verify2FALogin, Disable2FA, RegenerateBackupCodes, UniversalVerify, Uses
  <1> QED BY <1>1, <1>2, Zenon DEF NextSign, OneStep

LEMMA SignTypesNext ==
    ASSUME SignTypes, NextSign
    PROVE  SignTypes'
  <1>1. CASE Tick
    BY <1>1 DEF SignTypes, Tick
  <1>2. CASE UNCHANGED <<now, twofa, setups, sess, run, guesses, proof>>
    BY <1>2 DEF SignTypes
  <1>3. CASE AdminDisable2FA
    BY <1>3 DEF SignTypes, AdminDisable2FA, DisableTwoFA
  <1>4. ASSUME NEW b \in Devices, OneStep(b)
        PROVE  SignTypes'
    BY <1>4, OneStepTyped, SessionTyped
  <1>5. ASSUME NEW b \in Devices, \E for \in Uses : ReadTwoFA(b, for)
        PROVE  SignTypes'
    BY <1>5, ReadTyped
  <1> QED
    BY <1>1, <1>2, <1>3, <1>4, <1>5, NextCases, SetupTyped, CheckedTyped, RequestsTyped, Zenon

-----------------------------------------------------------------------------
(* The step-up verification.  A marker is never newer than the last second *)
(* factor its browser has shown by more than a ready marker may wait.      *)

ShownBefore(b) ==
    /\ proof[b] # Unset => proof[b] <= now
    /\ sess[b].ready # Unset => proof[b] # Unset /\ sess[b].ready <= proof[b]
    /\ sess[b].verified # Unset =>
          /\ proof[b] # Unset /\ sess[b].verified <= now
          /\ sess[b].verified - proof[b] < PasskeyReadyTimeout
    /\ run[b].pc = "valid" => proof[b] = now

Shown == \A b \in Devices : ShownBefore(b)

LEMMA ShownInit == InitSign => Shown
  BY SignInAssumption DEF InitSign, Shown, ShownBefore, NoSession, Idle

\* A step of one browser leaves the others alone.
LEMMA ShownByOne ==
    ASSUME Shown, NEW b \in Devices, ShownBefore(b)', now' = now,
           \A c \in Devices \ {b} : sess'[c] = sess[c] /\ run'[c] = run[c] /\ proof'[c] = proof[c]
    PROVE  Shown'
  <1> SUFFICES ASSUME NEW c \in Devices, c # b
               PROVE  ShownBefore(c)'
    BY DEF Shown
  <1>1. ShownBefore(c)
    BY DEF Shown
  <1> QED BY <1>1 DEF ShownBefore

\* What a browser's session keeps, or loses, is as good as before.
LEMMA ShownKept ==
    ASSUME SignTypes, Shown, NEW b \in Devices, now' = now, proof' = proof,
           sess'[b].ready \in {sess[b].ready, Unset}, sess'[b].verified \in {sess[b].verified, Unset},
           run'[b].pc # "valid"
    PROVE  ShownBefore(b)'
  <1>1. ShownBefore(b)
    BY DEF Shown
  <1> QED BY <1>1 DEF ShownBefore

\* After a second factor every marker of the browser is old enough.
LEMMA ShownNow ==
    ASSUME SignTypes, Shown, NEW b \in Devices, now' = now, proof'[b] = now,
           sess'[b].ready \in {sess[b].ready, now, Unset},
           sess'[b].verified \in {sess[b].verified, now, Unset}
    PROVE  ShownBefore(b)'
  <1>1. ShownBefore(b) /\ now \in Nat /\ proof[b] \in Nat \cup {Unset}
        /\ sess[b].ready \in Nat \cup {Unset} /\ sess[b].verified \in Nat \cup {Unset}
    BY DEF Shown, SignTypes, Session
  <1>2. now # Unset
    BY <1>1, SignInAssumption
  <1>3. sess'[b].ready # Unset => sess'[b].ready <= now
    BY <1>1 DEF ShownBefore
  <1>4. sess'[b].verified # Unset => sess'[b].verified <= now /\ sess'[b].verified - now < PasskeyReadyTimeout
    BY <1>1, SignInAssumption DEF ShownBefore
  <1> QED BY <1>1, <1>2, <1>3, <1>4 DEF ShownBefore

\* What a request does to the markers in the session of its browser.
LEMMA MarkersWritten ==
    ASSUME SignTypes, NEW b \in Devices
    PROVE  /\ setupSession(b) =>
                sess'[b].ready = sess[b].ready /\ sess'[b].verified = sess[b].verified
           /\ setSecureVerificationSession(b) =>
                sess'[b].ready = Unset /\ sess'[b].verified = now
           /\ setupSession(b) \/ setSecureVerificationSession(b) =>
                \A c \in Devices \ {b} : sess'[c] = sess[c]
  BY DEF SignTypes, Session, setupSession, setSecureVerificationSession

LEMMA ShownOneStep ==
    ASSUME SignTypes, Shown, NEW b \in Devices, OneStep(b)
    PROVE  Shown'
  <1> DEFINE Others == \A c \in Devices \ {b} : sess'[c] = sess[c] /\ proof'[c] = proof[c]
             Less == sess'[b].ready \in {sess[b].ready, Unset} /\ sess'[b].verified \in {sess[b].verified, Unset}
  <1>1. run' = run /\ now' = now
    BY OneStepTyped DEF SessionStep
  <1>2. run[b].pc = "idle"
    BY DEF OneStep, Passkeys, Login, EndSession, SecureVerificationRequired, PasskeyRegisterBegin,
           PasskeyRegisterFinish, PasskeyLoginBegin, PasskeyLoginFinish, PasskeyVerifyBegin,
           PasskeyVerifyFinish, CeremonyFails, consumePasskeyReady, PasskeyDelete, SignedIn, PopSessionData, Free
  <1>3. Others /\ ((Less /\ proof' = proof) \/ ShownBefore(b)')
    <2> USE DEF SignTypes, Session
    <2>1. CASE Login(b)
      <3>1. CASE setupSession(b)
        BY <2>1, <3>1, MarkersWritten DEF Login
      <3>2. CASE sess' = [sess EXCEPT ![b].pending = TRUE]
        BY <2>1, <3>2 DEF Login
      <3> QED BY <2>1, <3>1, <3>2 DEF Login
    <2>2. CASE EndSession(b)
      BY <2>2 DEF EndSession, NoSession
    <2>3. CASE PasskeyRegisterBegin(b) \/ PasskeyLoginBegin(b) \/ PasskeyVerifyBegin(b)
      BY <2>3 DEF PasskeyRegisterBegin, PasskeyLoginBegin, PasskeyVerifyBegin, SaveSessionData
    <2>4. CASE PasskeyRegisterFinish(b)
      BY <2>4 DEF PasskeyRegisterFinish
    <2>5. CASE CeremonyFails(b)
      BY <2>5 DEF CeremonyFails
    <2>6. CASE PasskeyDelete(b)
      BY <2>6 DEF PasskeyDelete
    <2>7. CASE SecureVerificationRequired(b)
      BY <2>7 DEF SecureVerificationRequired
    <2>8. CASE PasskeyLoginFinish(b)
      <3>1. Others /\ proof'[b] = now /\ sess'[b].ready = sess[b].ready /\ sess'[b].verified = sess[b].verified
        BY <2>8 DEF PasskeyLoginFinish
      <3> QED BY <1>1, <3>1, ShownNow
    <2>9. CASE PasskeyVerifyFinish(b)
      <3>1. Others /\ proof'[b] = now /\ sess'[b].ready = now /\ sess'[b].verified = Unset
        BY <2>9 DEF PasskeyVerifyFinish
      <3> QED BY <1>1, <3>1, ShownNow
    <2>10. CASE consumePasskeyReady(b)
      <3>1. CASE ~ Fresh(b)
        BY <2>10, <3>1 DEF consumePasskeyReady
      <3>2. CASE Fresh(b)
        <4>1. /\ proof' = proof /\ sess[b].ready # Unset /\ now - sess[b].ready < PasskeyReadyTimeout
              /\ sess'[b].ready = Unset /\ sess'[b].verified = now
              /\ \A c \in Devices \ {b} : sess'[c] = sess[c]
          BY <2>10, <3>2, MarkersWritten DEF consumePasskeyReady, Fresh
        <4>2. ShownBefore(b) /\ proof[b] \in Nat \cup {Unset} /\ now \in Nat /\ sess[b].ready \in Nat \cup {Unset}
          BY DEF Shown
        <4>3. proof[b] # Unset /\ proof[b] <= now /\ now - proof[b] < PasskeyReadyTimeout
          BY <4>1, <4>2, SignInAssumption DEF ShownBefore
        <4>4. ShownBefore(b)'
          BY <1>1, <1>2, <4>1, <4>2, <4>3 DEF ShownBefore
        <4> QED BY <4>1, <4>4
      <3> QED BY <3>1, <3>2
    <2> QED BY <2>1, <2>2, <2>3, <2>4, <2>5, <2>6, <2>7, <2>8, <2>9, <2>10 DEF OneStep, Passkeys
  <1>4. ShownBefore(b)'
    BY <1>1, <1>2, <1>3, ShownKept
  <1> QED BY <1>1, <1>3, <1>4, ShownByOne

LEMMA ShownNext ==
    ASSUME SignTypes, Shown, NextSign
    PROVE  Shown'
  <1>1. CASE Tick
    <2> SUFFICES ASSUME NEW b \in Devices
                 PROVE  ShownBefore(b)'
      BY DEF Shown
    <2>1. ShownBefore(b) /\ now \in Nat /\ proof[b] \in Nat \cup {Unset}
          /\ sess[b].ready \in Nat \cup {Unset} /\ sess[b].verified \in Nat \cup {Unset}
      BY DEF Shown, SignTypes, Session
    <2>2. now' = now + 1 /\ sess' = sess /\ proof' = proof /\ run' = run /\ run[b].pc # "valid"
      BY <1>1 DEF Tick
    <2>3. (proof[b] # Unset => proof[b] <= now + 1) /\ (sess[b].verified # Unset => sess[b].verified <= now + 1)
      BY <2>1 DEF ShownBefore
    <2> QED BY <2>1, <2>2, <2>3 DEF ShownBefore
  <1>2. CASE UNCHANGED <<now, sess, run, proof>>
    BY <1>2 DEF Shown, ShownBefore
  <1>3. ASSUME NEW b \in Devices, NEW for \in Uses, ReadTwoFA(b, for)
        PROVE  Shown'
    <2>1. now' = now /\ sess' = sess /\ proof' = proof /\ run'[b].pc = "check"
          /\ \A c \in Devices \ {b} : run'[c] = run[c]
      BY <1>3 DEF ReadTwoFA, SignTypes
    <2> QED BY <2>1, ShownKept, ShownByOne
  <1>4. ASSUME NEW b \in Devices,
               IncrementFailedAttempts(b) \/ ValidateBackupCode(b) \/ ResetPassword(b) \/ DeleteKey(b)
        PROVE  Shown'
    <2>1. now' = now /\ sess' = sess /\ proof' = proof /\ run'[b].pc # "valid"
          /\ \A c \in Devices \ {b} : run'[c] = run[c]
      BY <1>4 DEF IncrementFailedAttempts, ValidateBackupCode, ResetPassword, DeleteKey, SignTypes, Idle, Request
    <2> QED BY <2>1, ShownKept, ShownByOne
  <1>5. ASSUME NEW b \in Devices, ValidateTOTPAndUpdateUsage(b) \/ ValidateBackupCodeAndUpdateUsage(b)
        PROVE  Shown'
    <2>1. now' = now /\ sess' = sess /\ proof'[b] = now
          /\ \A c \in Devices \ {b} : run'[c] = run[c] /\ proof'[c] = proof[c]
      BY <1>5 DEF ValidateTOTPAndUpdateUsage, ValidateBackupCodeAndUpdateUsage, SignTypes
    <2> QED BY <2>1, ShownNow, ShownByOne
  <1>6. ASSUME NEW b \in Devices, AfterValid(b)
        PROVE  Shown'
    <2>1. run[b].pc = "valid" /\ now' = now /\ proof' = proof /\ run' = [run EXCEPT ![b] = Idle]
      BY <1>6 DEF AfterValid
    <2>2. sess' = sess \/ setupSession(b) \/ setSecureVerificationSession(b)
      <3>1. run[b].for \in Uses
        BY <2>1 DEF SignTypes
      <3> QED BY <1>6, <3>1 DEF AfterValid, Uses
    <2>3. proof[b] = now
      BY <2>1 DEF Shown, ShownBefore
    <2>4. ShownBefore(b)'
      BY <2>1, <2>2, <2>3, MarkersWritten, ShownNow
    <2>5. \A c \in Devices \ {b} : run'[c] = run[c] /\ sess'[c] = sess[c]
      BY <2>1, <2>2, MarkersWritten DEF SignTypes
    <2> QED BY <2>1, <2>4, <2>5, ShownByOne
  <1>7. ASSUME NEW b \in Devices, Setup2FA(b) \/ Enable2FA(b) \/ AdminDisable2FA
        PROVE  Shown'
    BY <1>2, <1>7 DEF Setup2FA, Enable2FA, AdminDisable2FA
  <1>8. AdminDisable2FA => Shown'
    BY <1>2 DEF AdminDisable2FA
  <1> QED
    BY <1>1, <1>2, <1>3, <1>4, <1>5, <1>6, <1>7, <1>8, NextCases, ShownOneStep, Zenon

LEMMA ShownIsFresh ==
    ASSUME SignTypes, Shown
    PROVE  StepUpFresh
  <1> SUFFICES ASSUME NEW b \in Devices, Open(b)
               PROVE  /\ proof[b] # Unset
                      /\ now - proof[b] < PasskeyReadyTimeout + SecureVerificationTimeout
    BY DEF StepUpFresh
  <1>1. ShownBefore(b) /\ now \in Nat /\ proof[b] \in Nat \cup {Unset} /\ sess[b].verified \in Nat \cup {Unset}
    BY DEF Shown, SignTypes, Session
  <1>2. sess[b].verified # Unset /\ now - sess[b].verified < SecureVerificationTimeout
    BY DEF Open
  <1> QED BY <1>1, <1>2, SignInAssumption DEF ShownBefore

-----------------------------------------------------------------------------
(* The guesses.  There are at most two browsers; one that is alone has an  *)
(* empty seat beside it, which never holds a copy.                         *)

Few == Cardinality(Devices) <= 2
Seats == IF Cardinality(Devices) = 2 THEN Devices ELSE Devices \cup {Unset}

LEMMA TwoSeats ==
    ASSUME Few
    PROVE  IsFiniteSet(Seats) /\ Cardinality(Seats) = 2 /\ Devices \subseteq Seats
  <1>1. IsFiniteSet(Devices) /\ Unset \notin Devices /\ Devices # {}
    BY SignInAssumption
  <1>2. Cardinality(Devices) \in Nat /\ Cardinality(Devices) # 0
    BY <1>1, FS_CardinalityType, FS_EmptySet
  <1>3. /\ IsFiniteSet(Devices \cup {Unset})
        /\ Cardinality(Devices \cup {Unset}) = Cardinality(Devices) + 1
    BY <1>1, FS_AddElement
  <1>4. CASE Cardinality(Devices) = 2
    BY <1>1, <1>4 DEF Seats
  <1>5. CASE Cardinality(Devices) # 2
    <2>1. Cardinality(Devices) = 1
      BY <1>2, <1>5 DEF Few
    <2> QED BY <1>3, <2>1 DEF Seats
  <1> QED BY <1>4, <1>5

LEMMA OnlyTwo ==
    ASSUME Few, NEW a \in Seats, NEW b \in Seats, NEW c \in Seats, a # b
    PROVE  c \in {a, b}
  <1> SUFFICES ASSUME c # a, c # b PROVE FALSE
    OBVIOUS
  <1>1. IsFiniteSet(Seats) /\ Cardinality(Seats) = 2
    BY TwoSeats
  <1>2. IsFiniteSet({a}) /\ Cardinality({a}) = 1
    BY FS_Singleton
  <1>3. IsFiniteSet({a} \cup {b}) /\ Cardinality({a} \cup {b}) = 2
    BY <1>2, FS_AddElement
  <1>4. IsFiniteSet(({a} \cup {b}) \cup {c}) /\ Cardinality(({a} \cup {b}) \cup {c}) = 3
    BY <1>3, FS_AddElement
  <1>5. ({a} \cup {b}) \cup {c} \subseteq Seats
    OBVIOUS
  <1>6. Cardinality(({a} \cup {b}) \cup {c}) <= Cardinality(Seats)
    BY <1>1, <1>5, FS_Subset
  <1> QED BY <1>1, <1>4, <1>6

LEMMA TheOther ==
    ASSUME Few, NEW a \in Seats
    PROVE  \E b \in Seats : a # b
  <1>1. IsFiniteSet(Seats) /\ Cardinality(Seats) = 2
    BY TwoSeats
  <1>2. Cardinality({a}) = 1
    BY FS_Singleton
  <1>3. Seats # {a}
    BY <1>1, <1>2
  <1> QED BY <1>3

\* The wrong codes a count lets through before it locks its row: a row whose lock has
\* ended has the count that set it, and lets one through.
Weight(row) == IF MaxFailAttempts - row.fails >= 1 THEN MaxFailAttempts - row.fails ELSE 1

\* The weight a request that reads the row now would hold.
Room ==
    IF twofa = Unset THEN 0
    ELSE IF ~ twofa.on \/ IsLocked(twofa) THEN 0 ELSE Weight(twofa)

CopyHolders == {b \in Devices : run[b].pc \in {"check", "backup"}}
Margins == [b \in Seats |-> IF b \in CopyHolders THEN Weight(run[b].copy) ELSE Room]

\* The requests that hold a copy of a row whose place another row has taken.
Strays == {b \in CopyHolders : twofa # Unset /\ twofa.id # run[b].copy.id}

Limit == MaxFailAttempts + Triangle(MaxFailAttempts) + 1

PairKept(a, b) ==
    /\ guesses + Chances(Margins[a], Margins[b]) <= Limit
    /\ b \in Strays => a \notin Strays /\ guesses + 1 + Chances(Room, Margins[a]) <= Limit

ChancesKept == Few => \A a, b \in Seats : a # b => PairKept(a, b)

LEMMA WeightTyped ==
    ASSUME NEW row \in Row
    PROVE  Weight(row) \in Nat /\ 1 <= Weight(row) /\ Weight(row) <= MaxFailAttempts
  BY SignInAssumption DEF Row, Weight

MarginsGood ==
    /\ Room \in Nat /\ Room <= MaxFailAttempts /\ Strays \subseteq CopyHolders
    /\ CopyHolders \subseteq Devices
    /\ \A b \in Seats : Margins[b] \in Nat /\ Margins[b] <= MaxFailAttempts
    /\ \A b \in Seats : b \in CopyHolders => Margins[b] = Weight(run[b].copy) /\ Margins[b] >= 1
    /\ \A b \in Seats : b \notin CopyHolders => Margins[b] = Room

LEMMA MarginsTyped == SignTypes => MarginsGood
  <1> SUFFICES ASSUME SignTypes PROVE MarginsGood
    OBVIOUS
  <1>1. Room \in Nat /\ Room <= MaxFailAttempts
    BY WeightTyped, SignInAssumption DEF SignTypes, Room
  <1>2. \A b \in Seats : Margins[b] = IF b \in CopyHolders THEN Weight(run[b].copy) ELSE Room
    BY DEF Margins
  <1>3. \A b \in CopyHolders : run[b].copy \in Row
    BY DEF SignTypes, CopyHolders
  <1>4. \A b \in CopyHolders : LET w == Weight(run[b].copy) IN w \in Nat /\ 1 <= w /\ w <= MaxFailAttempts
    BY <1>3, WeightTyped
  <1>5. Strays \subseteq CopyHolders /\ CopyHolders \subseteq Devices
    BY DEF Strays, CopyHolders
  <1> QED BY <1>1, <1>2, <1>4, <1>5 DEF MarginsGood

LEMMA MarginsTypedNext == SignTypes' => MarginsGood'
  BY MarginsTyped, PTL

\* Steps after which no request can try more than before.
LEMMA ChancesDown ==
    ASSUME SignTypes, SignTypes', ChancesKept, guesses' <= guesses, Room' <= Room,
           \A b \in Seats : Margins'[b] <= Margins[b], Strays' \subseteq Strays
    PROVE  ChancesKept'
  <1> SUFFICES ASSUME Few, NEW a \in Seats, NEW b \in Seats, a # b
               PROVE  PairKept(a, b)'
    BY DEF ChancesKept
  <1>1. PairKept(a, b)
    BY DEF ChancesKept
  <1>2. /\ Margins[a] \in Nat /\ Margins[b] \in Nat /\ Room \in Nat
        /\ Margins'[a] \in Nat /\ Margins'[b] \in Nat /\ Room' \in Nat
        /\ guesses \in Nat /\ guesses' \in Nat
    BY MarginsTyped, MarginsTypedNext DEF SignTypes, MarginsGood
  <1>3. /\ Chances(Margins'[a], Margins'[b]) <= Chances(Margins[a], Margins[b])
        /\ Chances(Margins'[a], Margins'[b]) \in Nat /\ Chances(Margins[a], Margins[b]) \in Nat
    BY <1>2, ChancesGrow
  <1>4. /\ Chances(Room', Margins'[a]) <= Chances(Room, Margins[a])
        /\ Chances(Room', Margins'[a]) \in Nat /\ Chances(Room, Margins[a]) \in Nat
    BY <1>2, ChancesGrow
  <1>5. Limit \in Nat
    BY TriangleStep, SignInAssumption DEF Limit
  <1> QED BY <1>1, <1>2, <1>3, <1>4, <1>5 DEF PairKept

\* Steps that begin a new count.
LEMMA ChancesAnew ==
    ASSUME SignTypes', guesses' = 0,
           \A a, b \in Devices : a # b /\ Few => ~ (a \in Strays' /\ b \in Strays')
    PROVE  ChancesKept'
  <1> SUFFICES ASSUME Few, NEW a \in Seats, NEW b \in Seats, a # b
               PROVE  PairKept(a, b)'
    BY DEF ChancesKept
  <1>1. /\ Margins'[a] \in Nat /\ Margins'[b] \in Nat /\ Room' \in Nat
        /\ Margins'[a] <= MaxFailAttempts /\ Margins'[b] <= MaxFailAttempts /\ Room' <= MaxFailAttempts
        /\ Strays' \subseteq Devices
    BY MarginsTypedNext DEF MarginsGood
  <1>2. MaxFailAttempts \in Nat /\ Triangle(MaxFailAttempts) \in Nat
    BY TriangleStep, SignInAssumption
  <1>3. /\ Chances(Margins'[a], Margins'[b]) <= MaxFailAttempts + Triangle(MaxFailAttempts)
        /\ Chances(Room', Margins'[a]) <= MaxFailAttempts + Triangle(MaxFailAttempts)
    BY <1>1, <1>2, ChancesAtMost
  <1>4. Chances(Margins'[a], Margins'[b]) \in Nat /\ Chances(Room', Margins'[a]) \in Nat
    BY <1>1, ChancesTyped
  <1>5. ~ (a \in Strays' /\ b \in Strays')
    BY <1>1
  <1> QED BY <1>2, <1>3, <1>4, <1>5 DEF PairKept, Limit

LEMMA ChancesInit == InitSign /\ SignTypes => ChancesKept
  <1> SUFFICES ASSUME InitSign, SignTypes, Few, NEW a \in Seats, NEW b \in Seats, a # b
               PROVE  PairKept(a, b)
    BY DEF ChancesKept
  <1>1. /\ Margins[a] \in Nat /\ Margins[b] \in Nat
        /\ Margins[a] <= MaxFailAttempts /\ Margins[b] <= MaxFailAttempts
    BY MarginsTyped DEF MarginsGood
  <1>2. MaxFailAttempts \in Nat /\ Triangle(MaxFailAttempts) \in Nat
    BY TriangleStep, SignInAssumption
  <1>3. Chances(Margins[a], Margins[b]) <= MaxFailAttempts + Triangle(MaxFailAttempts)
    BY <1>1, <1>2, ChancesAtMost
  <1>4. Chances(Margins[a], Margins[b]) \in Nat
    BY <1>1, ChancesTyped
  <1>5. b \notin Strays /\ guesses = 0
    BY DEF InitSign, Strays
  <1> QED BY <1>2, <1>3, <1>4, <1>5 DEF PairKept, Limit

LEMMA ChancesBound ==
    ASSUME SignTypes, ChancesKept
    PROVE  GuessesBounded
  <1> SUFFICES ASSUME Few PROVE guesses <= Limit
    BY DEF GuessesBounded, Few, Limit, Triangle
  <1>1. PICK a \in Seats : TRUE
    BY TwoSeats, SignInAssumption
  <1>2. PICK b \in Seats : a # b
    BY TheOther
  <1>3. guesses + Chances(Margins[a], Margins[b]) <= Limit
    BY <1>2 DEF ChancesKept, PairKept
  <1>4. Margins[a] \in Nat /\ Margins[b] \in Nat /\ guesses \in Nat
    BY MarginsTyped DEF MarginsGood, SignTypes
  <1>5. Chances(Margins[a], Margins[b]) \in Nat
    BY <1>4, ChancesTyped
  <1>6. Limit \in Nat
    BY TriangleStep, SignInAssumption DEF Limit
  <1> QED BY <1>3, <1>4, <1>5, <1>6

\* A request that reads nothing and saves nothing: the row is left alone or deleted.
LEMMA ChancesSame ==
    ASSUME SignTypes, SignTypes', ChancesKept, guesses' = guesses, now' = now,
           twofa' \in {twofa, Unset}, CopyHolders' = CopyHolders,
           \A b \in CopyHolders : run'[b].copy = run[b].copy
    PROVE  ChancesKept'
  <1>1. MarginsGood /\ MarginsGood' /\ guesses \in Nat
    BY MarginsTyped, MarginsTypedNext DEF SignTypes
  <1>2. Room' <= Room
    <2>1. CASE twofa' = twofa
      <3>1. Room' = Room
        BY <2>1 DEF Room, IsLocked
      <3> QED BY <1>1, <3>1 DEF MarginsGood
    <2>2. CASE twofa' = Unset
      <3>1. Room' = 0
        BY <2>2 DEF Room
      <3> QED BY <1>1, <3>1 DEF MarginsGood
    <2> QED BY <2>1, <2>2
  <1>3. ASSUME NEW b \in Seats PROVE Margins'[b] <= Margins[b]
    <2>1. CASE b \in CopyHolders
      <3>1. Margins'[b] = Margins[b]
        BY <1>1, <2>1 DEF MarginsGood
      <3> QED BY <1>1, <3>1 DEF MarginsGood
    <2>2. CASE b \notin CopyHolders
      <3>1. Margins'[b] = Room' /\ Margins[b] = Room
        BY <1>1, <2>2 DEF MarginsGood
      <3> QED BY <1>2, <3>1
    <2> QED BY <2>1, <2>2
  <1>4. Strays' \subseteq Strays
    BY DEF Strays
  <1>5. guesses' <= guesses
    BY <1>1
  <1> QED BY <1>2, <1>3, <1>4, <1>5, ChancesDown

LEMMA ChancesRead ==
    ASSUME SignTypes, SignTypes', ChancesKept, NEW b \in Devices, NEW for, ReadTwoFA(b, for)
    PROVE  ChancesKept'
  <1>1. MarginsGood /\ MarginsGood' /\ guesses \in Nat
    BY MarginsTyped, MarginsTypedNext DEF SignTypes
  <1>2. /\ twofa # Unset /\ twofa.on /\ ~ IsLocked(twofa) /\ run[b].pc = "idle"
        /\ twofa' = twofa /\ now' = now /\ guesses' = guesses
        /\ run'[b].pc = "check" /\ run'[b].copy = twofa
        /\ \A c \in Devices \ {b} : run'[c] = run[c]
    BY DEF ReadTwoFA, IsTwoFAEnabled, Free, SignTypes
  <1>3. Room' = Room /\ Room = Weight(twofa)
    BY <1>2 DEF Room, IsLocked
  <1>4. CopyHolders' = CopyHolders \cup {b} /\ b \notin CopyHolders
    BY <1>2 DEF CopyHolders
  <1>5. ASSUME NEW c \in Seats PROVE Margins'[c] = Margins[c]
    <2>1. CASE c = b
      BY <1>1, <1>2, <1>3, <1>4, <2>1 DEF MarginsGood
    <2>2. CASE c # b /\ c \in CopyHolders
      <3>1. run'[c] = run[c]
        BY <1>1, <1>2, <2>2 DEF MarginsGood
      <3> QED BY <1>1, <1>4, <2>2, <3>1 DEF MarginsGood
    <2>3. CASE c # b /\ c \notin CopyHolders
      BY <1>1, <1>3, <1>4, <2>3 DEF MarginsGood
    <2> QED BY <2>1, <2>2, <2>3
  <1>6. Strays' \subseteq Strays
    BY <1>2, <1>4 DEF Strays, CopyHolders
  <1>7. Room' <= Room /\ guesses' <= guesses /\ \A c \in Seats : Margins'[c] <= Margins[c]
    BY <1>1, <1>2, <1>3, <1>5 DEF MarginsGood
  <1> QED BY <1>6, <1>7, ChancesDown

LEMMA ChancesTick ==
    ASSUME SignTypes, SignTypes', ChancesKept, Tick
    PROVE  ChancesKept'
  <1>1. MarginsGood /\ MarginsGood' /\ guesses \in Nat /\ now \in Nat /\ twofa \in Row \cup {Unset}
    BY MarginsTyped, MarginsTypedNext DEF SignTypes
  <1>2. /\ now' = now + 1 /\ twofa' = twofa /\ run' = run
        /\ guesses' = IF twofa # Unset /\ twofa.lock = now + 1 THEN 0 ELSE guesses
    BY DEF Tick
  <1>3. CopyHolders' = CopyHolders /\ Strays' = Strays
    BY <1>2 DEF CopyHolders, Strays
  <1>4. CASE twofa # Unset /\ twofa.lock = now + 1
    <2>1. \A a, b \in Devices : a # b /\ Few => ~ (a \in Strays' /\ b \in Strays')
      BY <1>3, TwoSeats DEF ChancesKept, PairKept
    <2> QED BY <1>2, <1>4, <2>1, ChancesAnew
  <1>5. CASE ~ (twofa # Unset /\ twofa.lock = now + 1)
    <2>1. Room' <= Room
      <3>1. CASE twofa = Unset
        BY <1>2, <3>1 DEF Room
      <3>2. CASE twofa # Unset
        <4>1. twofa.lock \in Int \cup {Unset} /\ twofa.lock # now + 1
          BY <1>1, <1>5, <3>2 DEF Row
        <4>2. IsLocked(twofa)' <=> IsLocked(twofa)
          BY <1>1, <1>2, <4>1 DEF IsLocked
        <4>3. Room' = Room
          BY <1>2, <4>2 DEF Room
        <4> QED BY <1>1, <4>3 DEF MarginsGood
      <3> QED BY <3>1, <3>2
    <2>2. ASSUME NEW b \in Seats PROVE Margins'[b] <= Margins[b]
      <3>1. CASE b \in CopyHolders
        <4>1. Margins'[b] = Margins[b]
          BY <1>1, <1>2, <1>3, <3>1 DEF MarginsGood
        <4> QED BY <1>1, <4>1 DEF MarginsGood
      <3>2. CASE b \notin CopyHolders
        BY <1>1, <1>3, <2>1, <3>2 DEF MarginsGood
      <3> QED BY <3>1, <3>2
    <2>3. guesses' <= guesses
      BY <1>1, <1>2, <1>5
    <2> QED BY <1>3, <2>1, <2>2, <2>3, ChancesDown
  <1> QED BY <1>4, <1>5

LEMMA ChancesEnable ==
    ASSUME SignTypes, SignTypes', ChancesKept, NEW b \in Devices, Enable2FA(b)
    PROVE  ChancesKept'
  <1>1. twofa # Unset /\ twofa' # Unset /\ twofa'.id = twofa.id /\ run' = run /\ guesses' = 0
    <2>1. twofa \in Row
      BY DEF SignTypes, Enable2FA
    <2>2. twofa' \in Row /\ twofa'.id = twofa.id
      BY <2>1, SignInAssumption DEF Enable2FA, Row
    <2> QED BY <2>2, SignInAssumption DEF Enable2FA, Row
  <1>2. Strays' = Strays
    BY <1>1 DEF Strays, CopyHolders
  <1>3. \A a, c \in Devices : a # c /\ Few => ~ (a \in Strays' /\ c \in Strays')
    BY <1>2, TwoSeats DEF ChancesKept, PairKept
  <1> QED BY <1>1, <1>3, ChancesAnew

\* A new row makes a stray of the copy the other browser holds, and of no other.
LEMMA ChancesSetup ==
    ASSUME SignTypes, SignTypes', ChancesKept, NEW d \in Devices, Setup2FA(d)
    PROVE  ChancesKept'
  <1>1. MarginsGood /\ MarginsGood' /\ guesses \in Nat
    BY MarginsTyped, MarginsTypedNext DEF SignTypes
  <1>2. /\ twofa = Unset \/ ~ twofa.on
        /\ twofa' # Unset /\ ~ twofa'.on /\ run' = run /\ guesses' = guesses /\ now' = now
        /\ run[d].pc = "idle"
    <2>1. twofa' \in Row
      BY DEF SignTypes, Setup2FA, Row
    <2> QED BY <2>1, SignInAssumption DEF Setup2FA, SignedIn, Free, IsTwoFAEnabled, Row
  <1>3. Room = 0 /\ Room' = 0
    BY <1>2 DEF Room
  <1>4. CopyHolders' = CopyHolders /\ d \notin CopyHolders
    BY <1>2 DEF CopyHolders
  <1>5. \A c \in Seats : Margins'[c] = Margins[c]
    BY <1>1, <1>2, <1>3, <1>4 DEF MarginsGood
  <1> SUFFICES ASSUME Few, NEW a \in Seats, NEW b \in Seats, a # b
               PROVE  PairKept(a, b)'
    BY DEF ChancesKept
  <1>6. PairKept(a, b)
    BY DEF ChancesKept
  <1>7. guesses + Chances(Margins'[a], Margins'[b]) <= Limit
    BY <1>5, <1>6 DEF PairKept
  <1>8. ASSUME b \in Strays' PROVE a \notin Strays' /\ guesses + 1 + Chances(Room', Margins'[a]) <= Limit
    <2>1. b \in CopyHolders /\ b # d
      BY <1>1, <1>4, <1>8 DEF MarginsGood
    <2>2. a = d
      BY <2>1, OnlyTwo, TwoSeats
    <2>3. a \notin Strays'
      BY <1>1, <1>4, <2>2 DEF MarginsGood
    <2>4. Margins[a] = 0 /\ Margins[a] \in Nat /\ Margins[b] \in Nat /\ Margins[b] >= 1
      BY <1>1, <1>3, <1>4, <2>1, <2>2 DEF MarginsGood
    <2>5. Chances(0, 0) = 0 /\ Chances(0, Margins[b]) >= 1
      <3>1. Triangle(Margins[b]) >= Triangle(1) /\ Triangle(Margins[b]) \in Nat
        BY <2>4, TriangleGrows, TriangleStep
      <3> QED BY <2>4, <3>1, TriangleOfFew DEF Chances
    <2>6. Chances(Margins[a], Margins[b]) \in Nat /\ Limit \in Nat
      <3>1. Chances(Margins[a], Margins[b]) \in Nat
        BY <2>4, ChancesTyped
      <3>2. Limit \in Nat
        BY TriangleStep, SignInAssumption DEF Limit
      <3> QED BY <3>1, <3>2
    <2>7. guesses + 1 <= Limit
      BY <1>1, <1>6, <2>4, <2>5, <2>6 DEF PairKept
    <2> QED BY <1>1, <1>3, <1>5, <2>3, <2>4, <2>5, <2>7
  <1> QED BY <1>2, <1>7, <1>8 DEF PairKept

LEMMA ChancesValidate ==
    ASSUME SignTypes, SignTypes', NEW d \in Devices,
           ValidateTOTPAndUpdateUsage(d) \/ ValidateBackupCodeAndUpdateUsage(d)
    PROVE  ChancesKept'
  <1>1. guesses' = 0 /\ run'[d].pc = "valid"
    BY DEF ValidateTOTPAndUpdateUsage, ValidateBackupCodeAndUpdateUsage, SignTypes, Request
  <1>2. d \notin Strays'
    BY <1>1 DEF Strays, CopyHolders
  <1>3. Strays' \subseteq Devices
    BY MarginsTypedNext DEF MarginsGood
  <1>4. \A a, b \in Devices : a # b /\ Few => ~ (a \in Strays' /\ b \in Strays')
    BY <1>2, OnlyTwo, TwoSeats
  <1> QED BY <1>1, <1>4, ChancesAnew

\* A wrong code that is saved: the row now lets one less through than the copy did, and
\* none when that was the last one.
LEMMA CountSaved ==
    ASSUME SignTypes, SignTypes', NEW d \in Devices, IncrementFailedAttempts(d),
           twofa = Unset \/ twofa.id = run[d].copy.id
    PROVE  /\ Room' <= Weight(run[d].copy) - 1
           /\ twofa' # Unset /\ twofa'.id = run[d].copy.id
  <1>1. PICK copy \in Row : copy = run[d].copy
    BY DEF SignTypes, IncrementFailedAttempts
  <1>2. copy.fails \in Nat /\ copy.lock \in Int \cup {Unset} /\ now \in Nat
    BY DEF Row, SignTypes
  <1>3. PICK n \in Nat : n = copy.fails + 1
    BY <1>2
  <1>4. PICK l \in Int \cup {Unset} : l = IF n >= MaxFailAttempts THEN now + LockoutDuration ELSE copy.lock
    BY <1>2, <1>3, SignInAssumption
  <1>5. twofa' = [copy EXCEPT !.fails = n, !.lock = l] /\ now' = now
    BY <1>1, <1>3, <1>4 DEF IncrementFailedAttempts, Update
  <1>6. PICK row \in Row : row = twofa' /\ row.fails = n /\ row.lock = l /\ row.id = copy.id
    <2>1. [copy EXCEPT !.fails = n, !.lock = l] \in Row
      BY CountedTyped
    <2>2. [copy EXCEPT !.fails = n, !.lock = l].fails = n /\ [copy EXCEPT !.fails = n, !.lock = l].lock = l
          /\ [copy EXCEPT !.fails = n, !.lock = l].id = copy.id
      BY DEF Row
    <2> QED BY <1>5, <2>1, <2>2
  <1>7. Unset \notin Row
    BY SignInAssumption DEF Row
  <1>8. Weight(copy) \in Nat /\ 1 <= Weight(copy)
    BY WeightTyped
  <1>9. Room' <= Weight(copy) - 1
    <2>1. CASE n >= MaxFailAttempts
      <3>1. l = now + LockoutDuration /\ now < l /\ l # Unset
        BY <1>2, <1>4, <2>1, SignInAssumption
      <3>2. Room' = 0
        BY <1>5, <1>6, <3>1 DEF Room, IsLocked
      <3> QED BY <1>8, <3>2
    <2>2. CASE ~ (n >= MaxFailAttempts)
      <3>1. MaxFailAttempts - copy.fails >= 1 /\ Weight(copy) = MaxFailAttempts - copy.fails
        BY <1>2, <1>3, <2>2, SignInAssumption DEF Weight
      <3>2. Weight(row) = MaxFailAttempts - n
        BY <1>2, <1>3, <1>6, <2>2, SignInAssumption DEF Weight
      <3>3. Room' \in {0, Weight(row)}
        BY <1>6 DEF Room, Weight
      <3> QED BY <1>2, <1>3, <1>8, <3>1, <3>2, <3>3, SignInAssumption
    <2> QED BY <2>1, <2>2
  <1> QED BY <1>1, <1>6, <1>7, <1>9

LEMMA ChancesCount ==
    ASSUME SignTypes, SignTypes', ChancesKept, NEW d \in Devices, IncrementFailedAttempts(d)
    PROVE  ChancesKept'
  <1> SUFFICES ASSUME Few PROVE \A a, b \in Seats : a # b => PairKept(a, b)'
    BY DEF ChancesKept
  <1>1. MarginsGood /\ MarginsGood' /\ guesses \in Nat
    BY MarginsTyped, MarginsTypedNext DEF SignTypes
  <1>2. /\ guesses' = guesses + 1 /\ now' = now /\ run[d].pc = "check"
        /\ run'[d].pc = "idle" /\ \A c \in Devices \ {d} : run'[c] = run[c]
        /\ d \in Seats
    BY TwoSeats DEF IncrementFailedAttempts, SignTypes, Idle
  <1>3. CopyHolders' = CopyHolders \ {d} /\ d \in CopyHolders
    BY <1>2 DEF CopyHolders
  <1>4. PICK e \in Seats : d # e
    BY <1>2, TheOther
  <1>5. \A c \in Seats : c \in {d, e}
    BY <1>2, <1>4, OnlyTwo
  <1>6. PICK w : w = Margins[d]
    OBVIOUS
  <1>7. PICK y : y = Margins[e]
    OBVIOUS
  <1>8. w \in Nat \ {0} /\ y \in Nat /\ w = Weight(run[d].copy) /\ Room \in Nat /\ Room' \in Nat
    BY <1>1, <1>2, <1>3, <1>6, <1>7 DEF MarginsGood
  <1>9. e \in CopyHolders => Margins'[e] = y /\ y # 0
    <2> SUFFICES ASSUME e \in CopyHolders PROVE Margins'[e] = y /\ y # 0
      OBVIOUS
    <2>1. e \in Devices /\ run'[e] = run[e] /\ e \in CopyHolders'
      BY <1>1, <1>2, <1>3, <1>4 DEF MarginsGood
    <2> QED BY <1>1, <1>7, <2>1 DEF MarginsGood
  <1>10. e \notin CopyHolders => Margins'[e] = Room' /\ y = Room
    BY <1>1, <1>3, <1>7 DEF MarginsGood
  <1>11. Margins'[d] = Room' /\ d \notin Strays'
    BY <1>1, <1>2, <1>3 DEF MarginsGood
  <1>12. /\ guesses + Chances(w, y) <= Limit
         /\ d \in Strays => e \notin Strays /\ guesses + 1 + Chances(Room, y) <= Limit
    BY <1>2, <1>4, <1>6, <1>7 DEF ChancesKept, PairKept
  <1>13. Limit \in Nat
    BY TriangleStep, SignInAssumption DEF Limit
  <1>14. SUFFICES /\ guesses' + Chances(Margins'[d], Margins'[e]) <= Limit
                  /\ e \in Strays' => guesses' + 1 + Chances(Room', Room') <= Limit
    <2>1. Chances(Margins'[d], Margins'[e]) = Chances(Margins'[e], Margins'[d])
      <3>1. Margins'[d] \in Nat /\ Margins'[e] \in Nat
        BY <1>1, <1>2 DEF MarginsGood
      <3> QED BY <3>1, ChancesGrow
    <2>2. PairKept(d, e)'
      BY <1>11, <1>14 DEF PairKept
    <2>3. PairKept(e, d)'
      BY <1>11, <1>14, <2>1 DEF PairKept
    <2>4. \A a, b \in Seats : a # b => (a = d /\ b = e) \/ (a = e /\ b = d)
      BY <1>5
    <2> QED BY <2>2, <2>3, <2>4
  <1>15. CASE twofa = Unset \/ twofa.id = run[d].copy.id
    <2>1. Room' <= w - 1 /\ w - 1 \in Nat
      BY <1>8, <1>15, CountSaved
    <2>2. /\ 1 + Chances(w - 1, y) <= Chances(w, y)
          /\ 1 + Chances(w - 1, w - 1) <= Chances(w, y)
          /\ y # 0 => 2 + Chances(w - 1, w - 1) <= Chances(w, y)
      BY <1>8, ChancesFall
    <2>3. /\ Chances(w, y) \in Nat /\ Chances(w - 1, y) \in Nat /\ Chances(w - 1, w - 1) \in Nat
          /\ Chances(Room', Room') \in Nat /\ Chances(Room', y) \in Nat
      BY <1>8, <2>1, ChancesTyped
    <2>4. Chances(Room', y) <= Chances(w - 1, y) /\ Chances(Room', Room') <= Chances(w - 1, w - 1)
      BY <1>8, <2>1, ChancesGrow
    <2>5. e \in Strays' => e \in CopyHolders
      BY <1>1, <1>3 DEF MarginsGood
    <2>6. CASE e \in CopyHolders
      BY <1>1, <1>2, <1>9, <1>11, <1>12, <1>13, <2>2, <2>3, <2>4, <2>6
    <2>7. CASE e \notin CopyHolders
      BY <1>1, <1>2, <1>10, <1>11, <1>12, <1>13, <2>2, <2>3, <2>4, <2>5, <2>7
    <2> QED BY <2>6, <2>7
  <1>16. CASE ~ (twofa = Unset \/ twofa.id = run[d].copy.id)
    <2>1. twofa' = twofa
      <3>1. PICK row : Update(row) /\ row.id = run[d].copy.id
        <4>1. run[d].copy \in Row
          BY <1>2 DEF SignTypes
        <4>2. PICK row : Update(row) /\ \E n, l : row = [run[d].copy EXCEPT !.fails = n, !.lock = l]
          BY Zenon DEF IncrementFailedAttempts
        <4>3. row.id = run[d].copy.id
          BY <4>1, <4>2 DEF Row
        <4> QED BY <4>2, <4>3
      <3> QED BY <1>16, <3>1 DEF Update
    <2>2. Room' = Room
      BY <1>2, <2>1 DEF Room, IsLocked
    <2>3. d \in Strays
      BY <1>3, <1>16 DEF Strays
    <2>4. e \notin Strays'
      <3>1. e \notin Strays
        BY <1>12, <2>3
      <3>2. e \in CopyHolders' => e \in CopyHolders /\ run'[e] = run[e]
        BY <1>1, <1>2, <1>3, <1>4 DEF MarginsGood
      <3> QED BY <2>1, <3>1, <3>2 DEF Strays
    <2>5. Margins'[e] = y
      BY <1>9, <1>10, <2>2
    <2>6. guesses' + Chances(Margins'[d], Margins'[e]) = guesses + 1 + Chances(Room, y)
      BY <1>2, <1>11, <2>2, <2>5
    <2> QED BY <1>12, <2>3, <2>4, <2>6
  <1> QED BY <1>15, <1>16

LEMMA ChancesNext ==
    ASSUME SignTypes, SignTypes', ChancesKept, NextSign
    PROVE  ChancesKept'
  <1>1. CASE UNCHANGED <<now, twofa, run, guesses>>
    <2>1. CopyHolders' = CopyHolders
      BY <1>1 DEF CopyHolders
    <2> QED BY <1>1, <2>1, ChancesSame
  <1>2. CASE AdminDisable2FA
    <2>1. UNCHANGED <<now, run, guesses>> /\ twofa' = Unset
      BY <1>2 DEF AdminDisable2FA, DisableTwoFA
    <2>2. CopyHolders' = CopyHolders
      BY <2>1 DEF CopyHolders
    <2> QED BY <2>1, <2>2, ChancesSame
  <1>3. ASSUME NEW b \in Devices, OneStep(b)
        PROVE  ChancesKept'
    BY <1>1, <1>3, OneStepTyped DEF SessionStep
  <1>4. ASSUME NEW b \in Devices,
               ValidateBackupCode(b) \/ AfterValid(b) \/ ResetPassword(b) \/ DeleteKey(b)
        PROVE  ChancesKept'
    <2>1. CASE ValidateBackupCode(b)
      <3>1. UNCHANGED <<now, twofa, guesses>> /\ run[b].pc = "check" /\ run' = [run EXCEPT ![b].pc = "backup"]
        BY <2>1 DEF ValidateBackupCode
      <3>2. CopyHolders' = CopyHolders /\ \A c \in Devices : run'[c].copy = run[c].copy
        BY <3>1 DEF CopyHolders, SignTypes, Request
      <3> QED BY <3>1, <3>2, ChancesSame DEF CopyHolders
    <2>2. CASE AfterValid(b) \/ ResetPassword(b) \/ DeleteKey(b)
      <3>1. UNCHANGED <<now, guesses>> /\ twofa' \in {twofa, Unset}
        <4>1. AfterValid(b) => run[b].for \in Uses
          BY DEF AfterValid, SignTypes
        <4> QED BY <2>2, <4>1 DEF AfterValid, ResetPassword, DeleteKey, Uses, DisableTwoFA
      <3>2. run[b].pc \notin {"check", "backup"} /\ run'[b].pc \notin {"check", "backup"}
            /\ \A c \in Devices \ {b} : run'[c] = run[c]
        <4>1. CASE AfterValid(b)
          BY <4>1 DEF AfterValid, SignTypes, Idle
        <4>2. CASE ResetPassword(b)
          BY <4>2 DEF ResetPassword, Free, SignTypes
        <4>3. CASE DeleteKey(b)
          BY <4>3 DEF DeleteKey, SignTypes, Idle
        <4> QED BY <2>2, <4>1, <4>2, <4>3
      <3>3. CopyHolders' = CopyHolders /\ \A c \in CopyHolders : run'[c].copy = run[c].copy
        BY <3>2 DEF CopyHolders
      <3> QED BY <3>1, <3>3, ChancesSame
    <2> QED BY <1>4, <2>1, <2>2
  <1>5. ASSUME NEW b \in Devices, \E for \in Uses : ReadTwoFA(b, for)
        PROVE  ChancesKept'
    BY <1>5, ChancesRead
  <1> QED
    BY <1>1, <1>2, <1>3, <1>4, <1>5, ChancesTick, ChancesEnable, ChancesSetup, ChancesValidate,
       ChancesCount, NextCases, Zenon

-----------------------------------------------------------------------------

SignInv == SignTypes /\ Shown /\ ChancesKept

(* Whatever the limit of wrong codes, the length of the lock and the timeouts   *)
(* are, and although Verify2FALogin, Disable2FA, RegenerateBackupCodes and      *)
(* UniversalVerify check and save copies of the TwoFA row: two browsers try no  *)
(* more than M + M(M+1)/2 + 1 wrong codes in one count, and any number of       *)
(* browsers pass SecureVerificationRequired only after a second factor that is  *)
(* younger than both timeouts together.                                         *)
THEOREM IdentityIsProved == SpecSign => []IdentityProved
  <1>1. InitSign => SignInv
    BY SignTypesInit, ShownInit, ChancesInit DEF SignInv
  <1>2. SignInv /\ [NextSign]_signVars => SignInv'
    <2> SUFFICES ASSUME SignInv, [NextSign]_signVars PROVE SignInv'
      OBVIOUS
    <2>1. CASE NextSign
      BY <2>1, SignTypesNext, ShownNext, ChancesNext DEF SignInv
    <2>2. CASE UNCHANGED signVars
      <3>1. UNCHANGED <<now, twofa, setups, sess, run, guesses, proof>>
        BY <2>2 DEF signVars
      <3>2. SignTypes' /\ Shown'
        BY <3>1 DEF SignInv, SignTypes, Shown, ShownBefore
      <3>3. CopyHolders' = CopyHolders
        BY <3>1 DEF CopyHolders
      <3>4. ChancesKept'
        BY <3>1, <3>2, <3>3, ChancesSame DEF SignInv
      <3> QED BY <3>2, <3>4 DEF SignInv
    <2> QED BY <2>1, <2>2
  <1>3. SignInv => IdentityProved
    BY ShownIsFresh, ChancesBound DEF SignInv, IdentityProved
  <1> QED BY <1>1, <1>2, <1>3, PTL DEF SpecSign

=============================================================================
