---------------------------- MODULE OAuthBinding ----------------------------
(***************************************************************************)
(* Sign-in through other services.  A built-in provider (GitHub, Discord,  *)
(* OIDC, LinuxDO, WeChat, Telegram) keeps the external id in a column of   *)
(* the user row, without a unique index; a custom provider keeps it in     *)
(* user_oauth_bindings, with unique indexes on (user, provider) and        *)
(* (provider, external id).  The registry of the process holds the         *)
(* providers by slug and is changed after the table.                       *)
(*                                                                         *)
(* A handler takes its provider from the registry, talks to the service,   *)
(* asks whether the id is taken and then writes: other requests run        *)
(* between these steps.                                                    *)
(***************************************************************************)
EXTENDS Integers, FiniteSets

CONSTANTS
    Accounts,       \* rows that can exist
    Browsers,
    Idents,         \* external ids
    Providers,      \* ids of custom providers
    Slugs,
    MaxAdmin,       \* bound on changes of providers, unbinding calls and restarts
    Absent

\* Row numbers are numbers; the built-in providers are none of the custom ones.
ASSUME OAuthAssumption ==
    /\ Accounts \subseteq Nat /\ Absent \notin Nat /\ IsFiniteSet(Browsers)
    /\ Absent \notin Idents \cup Providers \cup Slugs \cup {"builtin", "live", "deleted"}
    /\ "builtin" \notin Providers

VARIABLES
    account,    \* [Accounts]: Absent, "live" or "deleted" (soft)
    column,     \* [Accounts]: the id in the built-in column, or Absent
    bind,       \* the rows of user_oauth_bindings: [user, prov, id]
    table,      \* [Providers]: slug of the row, or Absent
    registry,   \* [Slugs]: the provider registered, or Absent; "builtin" has its own slug
    removing,   \* the custom provider whose deletion has counted its bindings, or Absent
    visitor,    \* [Browsers]: account signed in, or Absent
    callback,   \* [Browsers]: the callback being handled: [pc, prov, id]
    admin,      \* number of these calls
    created     \* history: [prov, id]: accounts created for it since it was last unbound

oauthVars == <<account, column, bind, table, registry, removing, visitor, callback, admin, created>>

Builtin == "builtin"
AllProviders == Providers \cup {Builtin}
NoCallback == [pc |-> "idle", prov |-> Absent, id |-> Absent]

OAuthInit ==
    /\ account = [a \in Accounts |-> Absent] /\ column = [a \in Accounts |-> Absent]
    /\ bind = {} /\ table = [p \in Providers |-> Absent]
    /\ registry = [s \in Slugs |-> Absent] /\ removing = Absent
    /\ visitor = [b \in Browsers |-> Absent] /\ callback = [b \in Browsers |-> NoCallback]
    /\ admin = 0
    /\ created = [p \in AllProviders |-> [i \in Idents |-> 0]]

ProviderCall == admin < MaxAdmin /\ admin' = admin + 1

-----------------------------------------------------------------------------
(* Custom providers.                                                       *)

CreateCustomOAuthProvider(p, s) ==
    /\ ProviderCall /\ table[p] = Absent /\ \A q \in Providers : table[q] # s
    /\ table' = [table EXCEPT ![p] = s] /\ registry' = [registry EXCEPT ![s] = p]
    /\ UNCHANGED <<account, column, bind, removing, visitor, callback, created>>

\* The old slug is unregistered when it changes.
UpdateCustomOAuthProvider(p, s) ==
    /\ ProviderCall /\ table[p] \notin {Absent, s} /\ \A q \in Providers : table[q] # s
    /\ table' = [table EXCEPT ![p] = s]
    /\ registry' = [registry EXCEPT ![table[p]] = Absent, ![s] = p]
    /\ UNCHANGED <<account, column, bind, removing, visitor, callback, created>>

\* A provider with bindings is kept; the deletion is a second statement.
DeleteCustomOAuthProvider(p) ==
    /\ ProviderCall /\ removing = Absent /\ table[p] # Absent /\ ~ \E r \in bind : r.prov = p
    /\ removing' = p
    /\ UNCHANGED <<account, column, bind, table, registry, visitor, callback, created>>
FinishDelete ==
    /\ removing # Absent /\ table[removing] # Absent
    /\ registry' = [registry EXCEPT ![table[removing]] = Absent]
    /\ table' = [table EXCEPT ![removing] = Absent] /\ removing' = Absent
    /\ UNCHANGED <<account, column, bind, visitor, callback, admin, created>>

\* A restart forgets the requests and loads the registry from the table.
LoadCustomProviders ==
    /\ ProviderCall /\ registry' = [s \in Slugs |-> IF \E p \in Providers : table[p] = s
                                    THEN CHOOSE p \in Providers : table[p] = s ELSE Absent]
    /\ callback' = [b \in Browsers |-> NoCallback] /\ removing' = Absent
    /\ UNCHANGED <<account, column, bind, table, visitor, created>>

-----------------------------------------------------------------------------
(* The callbacks.                                                          *)

\* HandleOAuth, WeChatAuth, WeChatBind, TelegramBind: the provider is found, the service
\* says who the visitor is.
ExchangeToken(b, p, i) ==
    /\ callback[b].pc = "idle"
    /\ callback' = [callback EXCEPT ![b] = [pc |-> "known", prov |-> p, id |-> i]]
    /\ UNCHANGED <<account, column, bind, table, registry, removing, visitor, admin, created>>

HandleOAuth(b, s, i) == registry[s] # Absent /\ ExchangeToken(b, registry[s], i)
HandleBuiltin(b, i) == ExchangeToken(b, Builtin, i)

\* IsUserIDTaken looks at deleted users too.
Holders(p, i) ==
    IF p = Builtin THEN {a \in Accounts : account[a] # Absent /\ column[a] = i}
    ELSE {a \in Accounts : [user |-> a, prov |-> p, id |-> i] \in bind}

\* findOrCreateOAuthUser when the id is taken: the first row that is not deleted signs in.
FillUserByProviderID(b) ==
    LET held == Holders(callback[b].prov, callback[b].id)
        live == {a \in held : account[a] = "live"}
    IN  /\ callback[b].pc = "known" /\ visitor[b] = Absent /\ held # {}
        /\ visitor' = [visitor EXCEPT ![b] = IF live = {} THEN Absent
                                       ELSE CHOOSE a \in live : \A c \in live : a <= c]
        /\ callback' = [callback EXCEPT ![b] = NoCallback]
        /\ UNCHANGED <<account, column, bind, table, registry, removing, admin, created>>

\* handleOAuthBind refuses an id that is taken.
AlreadyBound(b) ==
    /\ callback[b].pc = "known" /\ visitor[b] # Absent
    /\ Holders(callback[b].prov, callback[b].id) # {}
    /\ callback' = [callback EXCEPT ![b] = NoCallback]
    /\ UNCHANGED <<account, column, bind, table, registry, removing, visitor, admin, created>>

NotTaken(b) ==
    /\ callback[b].pc = "known" /\ Holders(callback[b].prov, callback[b].id) = {}
    /\ callback' = [callback EXCEPT ![b].pc = "free"]
    /\ UNCHANGED <<account, column, bind, table, registry, removing, visitor, admin, created>>

\* The unique indexes of user_oauth_bindings.
Insertable(a, p, i) ==
    ~ \E r \in bind : r.prov = p /\ (r.user = a \/ r.id = i)

\* Ids are handed out in order.
NextId(a) == account[a] = Absent /\ \A c \in Accounts : c < a => account[c] # Absent
Counted(p, i) == created' = [created EXCEPT ![p][i] = @ + 1]

\* The row is inserted and the binding after it, in no transaction.
InsertWithTx_NoTx(b, a) ==
    LET p == callback[b].prov i == callback[b].id
    IN  /\ callback[b].pc = "free" /\ visitor[b] = Absent /\ NextId(a)
        /\ account' = [account EXCEPT ![a] = "live"]
        /\ column' = [column EXCEPT ![a] = IF p = Builtin THEN i ELSE Absent]
        /\ bind' = IF p # Builtin /\ Insertable(a, p, i)
                   THEN bind \cup {[user |-> a, prov |-> p, id |-> i]} ELSE bind
        /\ Counted(p, i)
        /\ visitor' = [visitor EXCEPT ![b] = a] /\ callback' = [callback EXCEPT ![b] = NoCallback]
        /\ UNCHANGED <<table, registry, removing, admin>>

\* The transaction that creates the user with its column or its binding.
InsertWithTx(b, a) ==
    LET p == callback[b].prov i == callback[b].id
    IN  /\ callback[b].pc = "free" /\ visitor[b] = Absent /\ NextId(a)
        /\ p = Builtin \/ Insertable(a, p, i)
        /\ account' = [account EXCEPT ![a] = "live"]
        /\ column' = [column EXCEPT ![a] = IF p = Builtin THEN i ELSE Absent]
        /\ bind' = IF p = Builtin THEN bind ELSE bind \cup {[user |-> a, prov |-> p, id |-> i]}
        /\ Counted(p, i)
        /\ visitor' = [visitor EXCEPT ![b] = a] /\ callback' = [callback EXCEPT ![b] = NoCallback]
        /\ UNCHANGED <<table, registry, removing, admin>>

\* SetProviderUserID and User.Update for a column.
BindColumn(b) ==
    /\ callback[b].pc = "free" /\ visitor[b] # Absent /\ callback[b].prov = Builtin
    /\ column' = IF account[visitor[b]] = "live"
                 THEN [column EXCEPT ![visitor[b]] = callback[b].id] ELSE column
    /\ created' = [created EXCEPT ![Builtin] = [i \in Idents |->
                      IF \A a \in Accounts : column'[a] # i THEN 0 ELSE @[i]]]
    /\ callback' = [callback EXCEPT ![b] = NoCallback]
    /\ UNCHANGED <<account, bind, table, registry, removing, visitor, admin>>

\* UpdateUserOAuthBinding: the row of the user is created or gets the new id; an id that
\* has another owner by now is refused.
UpdateUserOAuthBinding(b) ==
    LET a == visitor[b] p == callback[b].prov i == callback[b].id
        mine == {r \in bind : r.user = a /\ r.prov = p}
    IN  /\ callback[b].pc = "free" /\ a # Absent /\ p # Builtin
        /\ bind' = IF \E r \in bind : r.prov = p /\ r.id = i THEN bind
                   ELSE (bind \ mine) \cup {[user |-> a, prov |-> p, id |-> i]}
        /\ created' = [created EXCEPT ![p] = [k \in Idents |->
                          IF \E r \in mine : r.id = k /\ r \notin bind' THEN 0 ELSE @[k]]]
        /\ callback' = [callback EXCEPT ![b] = NoCallback]
        /\ UNCHANGED <<account, column, table, registry, removing, visitor, admin>>

\* An error of the service, or of the transaction.
HandlerEnds(b) ==
    /\ callback[b].pc # "idle" /\ callback' = [callback EXCEPT ![b] = NoCallback]
    /\ UNCHANGED <<account, column, bind, table, registry, removing, visitor, admin, created>>

-----------------------------------------------------------------------------
(* The end of a binding, a session, an account.                            *)

OAuthLogout(b) ==
    /\ visitor[b] # Absent /\ callback[b].pc = "idle" /\ visitor' = [visitor EXCEPT ![b] = Absent]
    /\ UNCHANGED <<account, column, bind, table, registry, removing, callback, admin, created>>

\* UnbindCustomOAuth, UnbindCustomOAuthByAdmin.
DeleteUserOAuthBinding(r) ==
    /\ ProviderCall
    /\ bind' = bind \ {r} /\ created' = [created EXCEPT ![r.prov][r.id] = 0]
    /\ UNCHANGED <<account, column, table, registry, removing, visitor, callback>>

\* Soft deletion keeps columns and bindings.
Delete(b) ==
    /\ visitor[b] # Absent /\ account[visitor[b]] = "live" /\ callback[b].pc = "idle"
    /\ account' = [account EXCEPT ![visitor[b]] = "deleted"]
    /\ UNCHANGED <<column, bind, table, registry, removing, visitor, callback, admin, created>>

-----------------------------------------------------------------------------
Callbacks(b) ==
    \/ \E i \in Idents : HandleBuiltin(b, i) \/ \E s \in Slugs : HandleOAuth(b, s, i)
    \/ FillUserByProviderID(b) \/ AlreadyBound(b) \/ NotTaken(b)
    \/ \E a \in Accounts : InsertWithTx(b, a)
    \/ BindColumn(b) \/ UpdateUserOAuthBinding(b) \/ HandlerEnds(b)

OAuthNext ==
    \/ \E p \in Providers, s \in Slugs :
         CreateCustomOAuthProvider(p, s) \/ UpdateCustomOAuthProvider(p, s)
    \/ \E p \in Providers : DeleteCustomOAuthProvider(p)
    \/ FinishDelete \/ LoadCustomProviders
    \/ \E b \in Browsers : Callbacks(b) \/ OAuthLogout(b) \/ Delete(b)
    \/ \E r \in bind : DeleteUserOAuthBinding(r)

OAuthSpec == OAuthInit /\ [][OAuthNext]_oauthVars

-----------------------------------------------------------------------------
\* A visitor of another service gets one account: however callbacks of the same person
\* overlap, whatever becomes of the provider and of the account, no second account is
\* created for an id of a custom provider until it is unbound, and no more than
\* overlapping callbacks for an id of a built-in one, whose column has no index.
OneAccount ==
    \A i \in Idents :
        /\ \A p \in Providers : created[p][i] <= 1
        /\ created[Builtin][i] <= Cardinality(Browsers)
=============================================================================
