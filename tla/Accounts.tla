------------------------------ MODULE Accounts ------------------------------
(***************************************************************************)
(* Accounts: npm logins, GitHub sign-in and linking, sessions, unlinking   *)
(* and deletion, as concurrent requests over the SQLite tables, one action *)
(* per statement or transaction.  A transaction whose snapshot has become  *)
(* stale fails, so each one is a single step.                              *)
(*                                                                         *)
(* A request draws at most one secret (token, session, OAuth state) and    *)
(* writes at most one event: tables are functions from requests, and 0 or  *)
(* a No... value stands for "no row".  Time is left out: a secret that may *)
(* have expired is one that a request may fail to verify.                  *)
(***************************************************************************)
EXTENDS Naturals, Sequences, FiniteSets

CONSTANTS
  Requests,     \* HTTP requests; each one draws its own random secret
  Names,        \* user names
  Passwords,    \* npm passwords
  NoPassword,   \* the NULL password_hash of accounts that a provider created
  Providers,    \* OAuth providers
  Externals,    \* provider accounts
  ProviderOf,   \* the provider of each
  MaxId,        \* the bound on user ids
  NameChoices   \* the names a sign-up tries for each: login, login-gh, ...

Ids == 1..MaxId
NoUser == [name |-> "none"]
NoHandle == [id |-> 0]
NoState == [kind |-> "none"]

ASSUME MaxIdAssumption == MaxId \in Nat \ {0}
ASSUME ExternalsAssumption == IsFiniteSet(Externals)
ASSUME PasswordsAssumption == NoPassword \notin Passwords
ASSUME ProvidersAssumption == ProviderOf \in [Externals -> Providers]
ASSUME NameChoicesAssumption ==
  \A e \in Externals : NameChoices[e] \in Seq(Names) /\ NameChoices[e] # <<>>

VARIABLES
  users,       \* id -> its row; born (history) is the request that created it
  identities,  \* provider account -> its owner's id; by (history): who linked it
  tokens,      \* request -> the account its npm token opens
  sessions,    \* request -> the account its website session opens
  states,      \* request -> the OAuth state it started
  events,      \* request -> the account in whose feed its event is
  pc,          \* where each request is
  given,       \* the name and password of an npm login; the name that confirms
  acct,        \* the account the request acts for: id, and born (history)
  oauth,       \* the state a callback has consumed
  ext,         \* the provider account GitHub answered with
  late         \* history: requests that were running when their account went

tables == <<users, identities, tokens, sessions, states, events>>
request == <<given, acct, oauth, ext>>
vars == <<users, identities, tokens, sessions, states, events,
          pc, given, acct, oauth, ext, late>>

Rows == [name : Names, password : Passwords \cup {NoPassword}, born : Requests]
Handles == [id : Ids, born : Requests]
Secrets == Requests

(* user_id is 0 for a login: nobody is signed in.                          *)
States == [kind : {"login", "connect"}, provider : Providers, id : Ids \cup {0}]
Consumed == [kind : {"login", "connect"}, provider : Providers, id : Ids \cup {0},
             secret : Secrets]

Existing == { i \in Ids : users[i] # NoUser }
NamesUsed == { users[i].name : i \in Existing }

(* INTEGER PRIMARY KEY without AUTOINCREMENT: one more than the largest id *)
(* there is.  The id of a deleted account is used again.                   *)
IsNextId(i) == /\ \A j \in Existing : j < i
               /\ i = 1 \/ i - 1 \in Existing

Handle(i) == [id |-> i, born |-> users[i].born]

(* The database after a first GitHub sign-up: one account, its session.    *)
Init ==
  \E f \in Requests, e \in Externals :
    /\ users = [i \in Ids |-> IF i = 1
                  THEN [name |-> NameChoices[e][1], password |-> NoPassword, born |-> f]
                  ELSE NoUser]
    /\ identities = [x \in Externals |-> IF x = e THEN [id |-> 1, by |-> f] ELSE NoHandle]
    /\ tokens = [r \in Requests |-> 0]
    /\ sessions = [r \in Requests |-> IF r = f THEN 1 ELSE 0]
    /\ states = [r \in Requests |-> NoState]
    /\ events = [r \in Requests |-> IF r = f THEN 1 ELSE 0]
    /\ pc = [r \in Requests |-> IF r = f THEN "done" ELSE "idle"]
    /\ given = [r \in Requests |-> NoUser]
    /\ acct = [r \in Requests |-> IF r = f THEN [id |-> 1, born |-> f] ELSE NoHandle]
    /\ oauth = [r \in Requests |-> NoState]
    /\ ext = [r \in Requests |-> CHOOSE x \in Externals : TRUE]
    /\ late = {}

----------------------------------------------------------------------------
Goto(r, from, to) == pc[r] = from /\ pc' = [pc EXCEPT ![r] = to]
Running(r) == pc[r] \notin {"idle", "done", "failed"}

(* The request ends without success: a refusal (also of a sign-up when     *)
(* DISABLE_SIGNUP is set), a failed or cancelled database or GitHub call,  *)
(* or the process dies.  Transactions roll back.                           *)
Fail(r) ==
  /\ Running(r)
  /\ pc' = [pc EXCEPT ![r] = "failed"]
  /\ UNCHANGED <<tables, request, late>>

(* A client has a secret when the request that drew it was answered.       *)
Known(s) == pc[s] = "done"

(* VerifySession and Verify: any secret that opens an account, read with   *)
(* that account's row.                                                     *)
Opened(table) == { table[s] : s \in { q \in Requests : Known(q) } } \cap Existing
Visitors == { Handle(i) : i \in Opened(sessions) }
Bearers  == { Handle(i) : i \in Opened(tokens) }

(* A request of a signed-in visitor; the others are answered 401.          *)
Enter(r, visitors, to) ==
  /\ Goto(r, "idle", to)
  /\ \E h \in visitors : acct' = [acct EXCEPT ![r] = h]
  /\ UNCHANGED <<tables, given, oauth, ext, late>>

----------------------------------------------------------------------------
(* npm login.                                                              *)

(* Login: the row is read and the password compared with it.  A wrong      *)
(* password changes no table: that request stays idle here.                *)
FindUser(r) ==
  /\ pc[r] = "idle"
  /\ \E n \in Names, p \in Passwords :
       /\ given' = [given EXCEPT ![r] = [name |-> n, password |-> p]]
       /\ \/ \E i \in Existing :
               /\ users[i].name = n
               /\ users[i].password = p
               /\ acct' = [acct EXCEPT ![r] = Handle(i)]
               /\ pc' = [pc EXCEPT ![r] = "issueToken"]
          \/ /\ n \notin NamesUsed
             /\ pc' = [pc EXCEPT ![r] = "createUser"]
             /\ UNCHANGED acct
  /\ UNCHANGED <<tables, oauth, ext, late>>

InsertUser(r, i, n, p) ==
  /\ IsNextId(i)
  /\ users' = [users EXCEPT ![i] = [name |-> n, password |-> p, born |-> r]]
  /\ acct' = [acct EXCEPT ![r] = [id |-> i, born |-> r]]

(* Mutant: a taken name logs in to the account that has it.                *)
CreateUser_Upsert(r) ==
  /\ Goto(r, "createUser", "issueToken")
  /\ \/ /\ given[r].name \notin NamesUsed
        /\ \E i \in Ids : InsertUser(r, i, given[r].name, given[r].password)
     \/ \E i \in Existing : /\ users[i].name = given[r].name
                            /\ acct' = [acct EXCEPT ![r] = Handle(i)]
                            /\ UNCHANGED users
  /\ UNCHANGED <<identities, tokens, sessions, states, events, given, oauth, ext, late>>

(* UNIQUE (username): whoever comes second fails.                          *)
CreateUser(r) ==
  /\ Goto(r, "createUser", "issueToken")
  /\ given[r].name \notin NamesUsed
  /\ \E i \in Ids : InsertUser(r, i, given[r].name, given[r].password)
  /\ UNCHANGED <<identities, tokens, sessions, states, events, given, oauth, ext, late>>

(* Mutant: foreign keys are not switched on.                               *)
IssueToken_NoForeignKey(r) ==
  /\ Goto(r, "issueToken", "event")
  /\ tokens' = [tokens EXCEPT ![r] = acct[r].id]
  /\ UNCHANGED <<users, identities, sessions, states, events, request, late>>

(* A row needs its user: the foreign key fails the insert otherwise.       *)
IssueToken(r) ==
  /\ Goto(r, "issueToken", "event")
  /\ acct[r].id \in Existing
  /\ tokens' = [tokens EXCEPT ![r] = acct[r].id]
  /\ UNCHANGED <<users, identities, sessions, states, events, request, late>>

----------------------------------------------------------------------------
(* OAuth round trips.                                                      *)

(* handleOAuthStart: with a session the state is for linking.              *)
StartConnect(r) == Enter(r, Visitors, "newState")

StartLogin(r) == /\ Goto(r, "idle", "newState")
                 /\ UNCHANGED <<tables, request, late>>

NewState(r) ==
  /\ Goto(r, "newState", "done")
  /\ \E p \in Providers :
       states' = [states EXCEPT ![r] =
         [kind |-> IF acct[r] = NoHandle THEN "login" ELSE "connect",
          provider |-> p, id |-> acct[r].id]]
  /\ UNCHANGED <<users, identities, tokens, sessions, events, request, late>>

(* The browser comes back, signed in (the cookie is verified first) or not.*)
CallbackSignedIn(r) == Enter(r, Visitors, "consume")

CallbackAnonymous(r) == /\ Goto(r, "idle", "consume")
                        /\ UNCHANGED <<tables, request, late>>

(* Mutant: the state is looked up and not deleted.                         *)
ConsumeState_Keeps(r) ==
  /\ Goto(r, "consume", "exchange")
  /\ \E s \in Requests :
       /\ states[s] # NoState
       /\ oauth' = [oauth EXCEPT ![r] =
            [kind |-> states[s].kind, provider |-> states[s].provider,
             id |-> states[s].id, secret |-> s]]
  /\ UNCHANGED <<tables, given, acct, ext, late>>

(* ConsumeState: DELETE ... RETURNING.                                     *)
ConsumeState(r) ==
  /\ Goto(r, "consume", "exchange")
  /\ \E s \in Requests :
       /\ states[s] # NoState
       /\ states' = [states EXCEPT ![s] = NoState]
       /\ oauth' = [oauth EXCEPT ![r] =
            [kind |-> states[s].kind, provider |-> states[s].provider,
             id |-> states[s].id, secret |-> s]]
  /\ UNCHANGED <<users, identities, tokens, sessions, events, given, acct, ext, late>>

(* The provider answers who the visitor is, and that account's owner is    *)
(* looked up.                                                              *)
Exchanged(r, e) ==
  /\ pc[r] = "exchange"
  /\ ProviderOf[e] = oauth[r].provider
  /\ ext' = [ext EXCEPT ![r] = e]

(* oauthLogin.                                                             *)
LoginLookup(r) ==
  /\ oauth[r].kind = "login"
  /\ \E e \in Externals :
       /\ Exchanged(r, e)
       /\ \/ /\ identities[e].id \in Existing
             /\ acct' = [acct EXCEPT ![r] = Handle(identities[e].id)]
             /\ pc' = [pc EXCEPT ![r] = "createSession"]
          \/ /\ identities[e].id \notin Existing
             /\ pc' = [pc EXCEPT ![r] = "signup"]
             /\ UNCHANGED acct
  /\ UNCHANGED <<tables, given, oauth, late>>

FirstFree(e, n) ==
  \E k \in DOMAIN NameChoices[e] :
    /\ n = NameChoices[e][k]
    /\ n \notin NamesUsed
    /\ \A j \in 1..(k - 1) : NameChoices[e][j] \in NamesUsed

(* SignupWithIdentity: the profile and its identity, or neither.           *)
Signup(r) ==
  /\ Goto(r, "signup", "createSession")
  /\ identities[ext[r]] = NoHandle
  /\ \E i \in Ids, n \in Names :
       /\ FirstFree(ext[r], n)
       /\ InsertUser(r, i, n, NoPassword)
       /\ identities' = [identities EXCEPT ![ext[r]] = [id |-> i, by |-> r]]
  /\ UNCHANGED <<tokens, sessions, states, events, given, oauth, ext, late>>

CreateSession(r) ==
  /\ Goto(r, "createSession", "event")
  /\ acct[r].id \in Existing
  /\ sessions' = [sessions EXCEPT ![r] = acct[r].id]
  /\ UNCHANGED <<users, identities, tokens, states, events, request, late>>

(* oauthConnect and LinkIdentity: another session than the one that began, *)
(* and an identity of someone else, are refused (Fail).                    *)
ConnectLookup(r) ==
  /\ oauth[r].kind = "connect"
  /\ \E e \in Externals :
       /\ Exchanged(r, e)
       /\ \/ /\ acct[r].id = oauth[r].id
             /\ identities[e].id \notin Existing
             /\ pc' = [pc EXCEPT ![r] = "hasProvider"]
          \/ /\ acct[r].id = oauth[r].id
             /\ identities[e].id = acct[r].id
             /\ identities[e].id \in Existing
             /\ pc' = [pc EXCEPT ![r] = "event"]
  /\ UNCHANGED <<tables, given, acct, oauth, late>>

HasOf(i, p) == \E e \in Externals : identities[e].id = i /\ ProviderOf[e] = p

HasProvider(r) ==
  /\ Goto(r, "hasProvider", "insertIdentity")
  /\ ~HasOf(acct[r].id, ProviderOf[ext[r]])
  /\ UNCHANGED <<tables, request, late>>

Link(r) ==
  identities' = [identities EXCEPT ![ext[r]] = [id |-> acct[r].id, by |-> r]]

(* Mutant: UNIQUE (user_id, provider) is missing.                          *)
InsertIdentity_NotUnique(r) ==
  /\ Goto(r, "insertIdentity", "event")
  /\ acct[r].id \in Existing
  /\ identities[ext[r]] = NoHandle
  /\ Link(r)
  /\ UNCHANGED <<users, tokens, sessions, states, events, request, late>>

(* UNIQUE (provider, provider_account_id), UNIQUE (user_id, provider).     *)
InsertIdentity(r) ==
  /\ Goto(r, "insertIdentity", "event")
  /\ acct[r].id \in Existing
  /\ identities[ext[r]] = NoHandle
  /\ ~HasOf(acct[r].id, ProviderOf[ext[r]])
  /\ Link(r)
  /\ UNCHANGED <<users, tokens, sessions, states, events, request, late>>

----------------------------------------------------------------------------
(* The account page, logout, and npm requests with a token.                *)
EnterUnlink(r) == Enter(r, Visitors, "unlink")

(* The body names the account: the name confirms the deletion.             *)
EnterDelete(r) ==
  /\ Goto(r, "idle", "delete")
  /\ \E h \in Visitors :
       /\ acct' = [acct EXCEPT ![r] = h]
       /\ given' = [given EXCEPT ![r] =
            [name |-> users[h.id].name, password |-> NoPassword]]
  /\ UNCHANGED <<tables, oauth, ext, late>>

(* A publish or an unpublish: what it does to packages is in Registry.     *)
UseToken(r) == Enter(r, Bearers, "event")

IdentitiesOf(i) == { e \in Externals : identities[e].id = i }

Unlinked(r, p) ==
  /\ HasOf(acct[r].id, p)
  /\ identities' = [e \in Externals |->
       IF e \in IdentitiesOf(acct[r].id) /\ ProviderOf[e] = p
       THEN NoHandle ELSE identities[e]]
  /\ UNCHANGED <<users, tokens, sessions, states, events, request, late>>

(* Mutant: the last login method can be removed.                           *)
UnlinkIdentity_Last(r) ==
  /\ Goto(r, "unlink", "event")
  /\ \E p \in Providers : Unlinked(r, p)

(* UnlinkIdentity: not the only identity of an account without password.   *)
UnlinkIdentity(r) ==
  /\ Goto(r, "unlink", "event")
  /\ \/ Cardinality(IdentitiesOf(acct[r].id)) # 1
     \/ acct[r].id \in Existing /\ users[acct[r].id].password # NoPassword
  /\ \E p \in Providers : Unlinked(r, p)

Cleared(table, i) == [r \in Requests |-> IF table[r] = i THEN 0 ELSE table[r]]

(* DeleteAccount: the row named by the session's id, and all that refers to*)
(* it (ON DELETE CASCADE).                                                 *)
DeleteAccount_NoCascade(r) ==
  /\ Goto(r, "delete", "done")
  /\ acct[r].id \in Existing
  /\ users' = [users EXCEPT ![acct[r].id] = NoUser]
  /\ late' = late \cup { q \in Requests \ {r} : Running(q) /\ acct[q] = Handle(acct[r].id) }
  /\ UNCHANGED <<identities, tokens, sessions, states, events, request>>

DeleteAccount(r) ==
  LET i == acct[r].id IN
  /\ Goto(r, "delete", "done")
  /\ i \in Existing
  /\ users' = [users EXCEPT ![i] = NoUser]
  /\ identities' = [e \in Externals |->
       IF identities[e].id = i THEN NoHandle ELSE identities[e]]
  /\ tokens' = Cleared(tokens, i)
  /\ sessions' = Cleared(sessions, i)
  /\ events' = Cleared(events, i)
  /\ late' = late \cup { q \in Requests \ {r} : Running(q) /\ acct[q] = Handle(i) }
  /\ UNCHANGED <<states, request>>

Logout(r) ==
  /\ Goto(r, "idle", "done")
  /\ \E s \in Requests : /\ Known(s) /\ sessions[s] # 0
                         /\ sessions' = [sessions EXCEPT ![s] = 0]
  /\ UNCHANGED <<users, identities, tokens, states, events, request, late>>

(* RecordEvent, best effort: the request is answered all the same when the *)
(* row could not be written (its user is gone, or any other error).        *)
RecordEvent(r) ==
  /\ Goto(r, "event", "done")
  /\ \/ acct[r].id \in Existing /\ events' = [events EXCEPT ![r] = acct[r].id]
     \/ UNCHANGED events
  /\ UNCHANGED <<users, identities, tokens, sessions, states, request, late>>

NpmStep(r) == FindUser(r) \/ CreateUser(r) \/ IssueToken(r) \/ UseToken(r)
OAuthStep(r) ==
  \/ StartConnect(r) \/ StartLogin(r) \/ NewState(r)
  \/ CallbackSignedIn(r) \/ CallbackAnonymous(r) \/ ConsumeState(r)
  \/ LoginLookup(r) \/ Signup(r) \/ CreateSession(r)
  \/ ConnectLookup(r) \/ HasProvider(r) \/ InsertIdentity(r)
AccountStep(r) ==
  EnterUnlink(r) \/ UnlinkIdentity(r) \/ EnterDelete(r) \/ DeleteAccount(r) \/ Logout(r)

Next == \E r \in Requests :
          NpmStep(r) \/ OAuthStep(r) \/ AccountStep(r) \/ RecordEvent(r) \/ Fail(r)

Spec == Init /\ [][Next]_vars

----------------------------------------------------------------------------
(* Properties.                                                             *)

Places == {"idle", "issueToken", "createUser", "newState", "consume", "exchange",
           "createSession", "signup", "hasProvider", "insertIdentity", "unlink",
           "delete", "event", "done", "failed"}

(* Every variable holds what its column or Go type can hold, and every row *)
(* refers to a user there is, through all cascades.                        *)
TypeOK ==
  /\ users \in [Ids -> Rows \cup {NoUser}]
  /\ identities \in [Externals -> [id : Ids, by : Requests] \cup {NoHandle}]
  /\ tokens \in [Requests -> Ids \cup {0}]
  /\ sessions \in [Requests -> Ids \cup {0}]
  /\ states \in [Requests -> States \cup {NoState}]
  /\ events \in [Requests -> Ids \cup {0}]
  /\ pc \in [Requests -> Places]
  /\ given \in [Requests -> [name : Names, password : Passwords \cup {NoPassword}]
                              \cup {NoUser}]
  /\ acct \in [Requests -> Handles \cup {NoHandle}]
  /\ oauth \in [Requests -> Consumed \cup {NoState}]
  /\ ext \in [Requests -> Externals]
  /\ late \subseteq Requests
  /\ \A e \in Externals : identities[e].id \in Existing \cup {0}
  /\ \A r \in Requests : {tokens[r], sessions[r], events[r]} \subseteq Existing \cup {0}

(* A name, and a provider account, opens one account, and an account has   *)
(* at most one identity of a provider, whichever of two racing sign-ups or *)
(* links had looked first (both look before they insert).                  *)
LoginsAreUnique ==
  /\ \A i, j \in Existing : users[i].name = users[j].name => i = j
  /\ \A d, e \in Externals :
       /\ identities[d] # NoHandle
       /\ identities[d].id = identities[e].id
       /\ ProviderOf[d] = ProviderOf[e]
       => d = e

(* No account is left without a way in, however unlinks, links, sign-ups   *)
(* and deletions interleave: it has a password or a provider account       *)
(* (UnlinkIdentity counts and deletes, SignupWithIdentity inserts twice).  *)
EveryAccountCanBeEntered ==
  \A i \in Existing :
    \/ users[i].password # NoPassword
    \/ \E e \in Externals : identities[e].id = i

IsActingFor(r, i) == i \in Existing /\ acct[r] = Handle(i)

(* A token, a session, an event and an identity belong to the account that *)
(* the request that wrote them acted for, although ids are used again: not *)
(* one of them outlives its account to show up in the next one.  Requests  *)
(* that were still running when their account was deleted are left out.    *)
RowsAreTheirOwn ==
  \A r \in Requests \ late :
    /\ \A i \in {tokens[r], sessions[r], events[r]} \ {0} : IsActingFor(r, i)
    /\ \A e \in Externals :
         identities[e] # NoHandle /\ identities[e].by = r
           => IsActingFor(r, identities[e].id)

(* An npm token opens the account of the name and the password it was      *)
(* asked with, also when another request takes the free name between the   *)
(* look-up and the insert of Login.                                        *)
PasswordOpensAccount ==
  \A r \in Requests \ late :
    tokens[r] # 0 =>
      /\ users[tokens[r]] # NoUser
      /\ users[tokens[r]].name = given[r].name
      /\ users[tokens[r]].password = given[r].password

(* An OAuth state is good for one callback: no two requests ever consumed  *)
(* the same one (states.go: a replayed callback finds nothing).            *)
StatesAreUsedOnce ==
  \A q, r \in Requests :
    /\ oauth[q] # NoState
    /\ oauth[r] # NoState
    /\ oauth[q].secret = oauth[r].secret
    => q = r

(* An account is deleted by a request whose body confirmed its name        *)
(* (handleAccountDelete).  An id that is used again breaks it.             *)
DeletesTheConfirmedAccount ==
  [][\A i \in Ids :
       users[i] # NoUser /\ users'[i] = NoUser =>
         \E r \in Requests : /\ pc[r] = "delete"
                             /\ pc'[r] = "done"
                             /\ given[r].name = users[i].name]_vars
=============================================================================
