--------------------------- MODULE AccountsProofs ---------------------------
(***************************************************************************)
(* Theorems about Accounts, for all sets of requests, names, passwords,    *)
(* providers and (finitely many) provider accounts: the type invariant,    *)
(* that an OAuth state is used once, that logins are unique, and that no   *)
(* account is left without a way in.                                       *)
(***************************************************************************)
EXTENDS Accounts, TLAPS, FiniteSetTheorems

(* A login that is about to create its user has a password to give it.     *)
LoginInv ==
  \A r \in Requests :
    pc[r] = "createUser" => given[r] \in [name : Names, password : Passwords]

(* A state that is in the table was issued and is in no callback's hands.  *)
StateInv ==
  /\ \A s \in Requests : states[s] # NoState => pc[s] = "done"
  /\ \A r \in Requests : oauth[r] # NoState =>
       /\ pc[oauth[r].secret] = "done"
       /\ states[oauth[r].secret] = NoState

----------------------------------------------------------------------------
(* Type correctness.                                                       *)

(* What there is in Existing has all the fields of a row.                  *)
LEMMA ExistingAreRows ==
  ASSUME TypeOK
  PROVE  /\ Existing \subseteq Ids
         /\ \A i \in Ids : i \in Existing <=> users[i] # NoUser
         /\ \A i \in Existing : users[i] \in Rows /\ Handle(i) \in Handles
PROOF
  <1>1. Existing \subseteq Ids /\ \A i \in Ids : i \in Existing <=> users[i] # NoUser
    BY DEF Existing
  <1>2. ASSUME NEW i \in Existing  PROVE users[i] \in Rows /\ Handle(i) \in Handles
    <2>1. users[i] \in Rows
      BY <1>1 DEF TypeOK
    <2>2. users[i].born \in Requests
      BY <2>1 DEF Rows
    <2> QED
      BY <1>1, <2>1, <2>2 DEF Handle, Handles
  <1> QED
    BY <1>1, <1>2

LEMMA InitTyped == Init => TypeOK /\ LoginInv /\ StateInv
PROOF
  <1> SUFFICES ASSUME Init PROVE TypeOK /\ LoginInv /\ StateInv
    OBVIOUS
  <1>1. PICK f \in Requests, e \in Externals :
    /\ users = [i \in Ids |-> IF i = 1
                  THEN [name |-> NameChoices[e][1], password |-> NoPassword, born |-> f]
                  ELSE NoUser]
    /\ identities = [x \in Externals |-> IF x = e THEN [id |-> 1, by |-> f] ELSE NoHandle]
    /\ tokens = [r \in Requests |-> 0]
    /\ sessions = [r \in Requests |-> IF r = f THEN 1 ELSE 0]
    /\ states = [r \in Requests |-> NoState]
    /\ events = [r \in Requests |-> IF r = f THEN 1 ELSE 0]
    /\ pc = [r \in Requests |-> IF r = f THEN "done" ELSE "idle"]
    /\ given = [r \in Requests |-> NoUser]
    /\ acct = [r \in Requests |-> IF r = f THEN [id |-> 1, born |-> f] ELSE NoHandle]
    /\ oauth = [r \in Requests |-> NoState]
    /\ ext = [r \in Requests |-> CHOOSE x \in Externals : TRUE]
    /\ late = {}
    BY DEF Init
  <1>2. 1 \in Ids
    BY MaxIdAssumption DEF Ids
  <1>3. NameChoices[e][1] \in Names
    BY NameChoicesAssumption
  <1>4. [name |-> NameChoices[e][1], password |-> NoPassword, born |-> f] \in Rows
    BY <1>3 DEF Rows
  <1>5. users \in [Ids -> Rows \cup {NoUser}]
    BY <1>1, <1>4
  <1>6. identities \in [Externals -> [id : Ids, by : Requests] \cup {NoHandle}]
    BY <1>1, <1>2
  <1>7. acct \in [Requests -> Handles \cup {NoHandle}]
    BY <1>1, <1>2 DEF Handles
  <1>8. ext \in [Requests -> Externals]
    BY <1>1
  <1>9. users[1] # NoUser
    BY <1>1, <1>2 DEF NoUser
  <1>10. 1 \in Existing
    BY <1>2, <1>9 DEF Existing
  <1>11. \A x \in Externals : identities[x].id \in Existing \cup {0}
    BY <1>1, <1>10 DEF NoHandle
  <1>12. \A r \in Requests : {tokens[r], sessions[r], events[r]} \subseteq Existing \cup {0}
    BY <1>1, <1>10
  <1>13. TypeOK
    BY <1>1, <1>2, <1>5, <1>6, <1>7, <1>8, <1>11, <1>12 DEF TypeOK, Places
  <1> QED
    BY <1>1, <1>13 DEF LoginInv, StateInv

(* Steps that add a user: the new row is typed, nobody else's changes.     *)
LEMMA InsertingTyped ==
  ASSUME TypeOK, NEW r \in Requests, NEW i \in Ids, NEW n \in Names,
         NEW p \in Passwords \cup {NoPassword}, InsertUser(r, i, n, p)
  PROVE  /\ users' \in [Ids -> Rows \cup {NoUser}]
         /\ acct' \in [Requests -> Handles \cup {NoHandle}]
         /\ Existing' = Existing \cup {i}
         /\ i \notin Existing
PROOF
  <1> DEFINE row == [name |-> n, password |-> p, born |-> r]
  <1>1. row \in Rows /\ row # NoUser
    BY DEF Rows, NoUser
  <1>2. users' = [users EXCEPT ![i] = row]
    BY DEF InsertUser
  <1>3. users' \in [Ids -> Rows \cup {NoUser}]
    BY <1>1, <1>2 DEF TypeOK
  <1>4. acct' \in [Requests -> Handles \cup {NoHandle}]
    BY DEF InsertUser, TypeOK, Handles
  <1>5. i \notin Existing
    BY MaxIdAssumption DEF InsertUser, IsNextId, Ids
  <1>6. Existing' = Existing \cup {i}
    <2>1. \A j \in Ids : users'[j] # NoUser <=> users[j] # NoUser \/ j = i
      BY <1>1, <1>2 DEF TypeOK
    <2> QED
      BY <2>1 DEF Existing
  <1> QED
    BY <1>3, <1>4, <1>5, <1>6

(* A request that enters acts for an account there is.                     *)
LEMMA EnteringTyped ==
  ASSUME TypeOK, NEW r \in Requests, NEW to \in Places, NEW visitors,
         visitors \subseteq Handles, Enter(r, visitors, to)
  PROVE  TypeOK'
PROOF
  <1>1. acct' \in [Requests -> Handles \cup {NoHandle}]
    BY DEF TypeOK, Enter
  <1>2. pc' \in [Requests -> Places]
    BY DEF TypeOK, Enter, Goto
  <1>3. Existing' = Existing
    BY DEF Enter, tables, Existing
  <1> QED
    BY <1>1, <1>2, <1>3 DEF TypeOK, Enter, tables

LEMMA VisitorsAreAccounts ==
  ASSUME TypeOK
  PROVE  Visitors \subseteq Handles /\ Bearers \subseteq Handles
BY ExistingAreRows DEF Visitors, Bearers, Opened

LEMMA NextTyped ==
  ASSUME TypeOK, LoginInv, [Next]_vars
  PROVE  TypeOK'
PROOF
  <1> USE DEF Goto, tables, request
  <1>1. CASE UNCHANGED vars
    BY <1>1 DEF vars, TypeOK, Existing
  <1>2. ASSUME NEW r \in Requests, FindUser(r)  PROVE TypeOK'
    <2>1. acct' \in [Requests -> Handles \cup {NoHandle}]
      BY <1>2, ExistingAreRows DEF FindUser, TypeOK
    <2>2. pc' \in [Requests -> Places]
      BY <1>2 DEF FindUser, TypeOK, Places
    <2>3. given' \in [Requests -> [name : Names, password : Passwords \cup {NoPassword}]
                                     \cup {NoUser}]
      BY <1>2 DEF FindUser, TypeOK
    <2>4. Existing' = Existing
      BY <1>2 DEF FindUser, Existing
    <2> QED
      BY <1>2, <2>1, <2>2, <2>3, <2>4 DEF FindUser, TypeOK
  <1>3. ASSUME NEW r \in Requests, CreateUser(r)  PROVE TypeOK'
    <2>1. given[r].name \in Names /\ given[r].password \in Passwords
      BY <1>3 DEF CreateUser, LoginInv
    <2>2. PICK i \in Ids : InsertUser(r, i, given[r].name, given[r].password)
      BY <1>3 DEF CreateUser
    <2>3. /\ users' \in [Ids -> Rows \cup {NoUser}]
          /\ acct' \in [Requests -> Handles \cup {NoHandle}]
          /\ Existing' = Existing \cup {i}
      BY <2>1, <2>2, InsertingTyped
    <2>4. pc' \in [Requests -> Places]
      BY <1>3 DEF CreateUser, TypeOK, Places
    <2> QED
      BY <1>3, <2>3, <2>4 DEF CreateUser, TypeOK
  <1>4. ASSUME NEW r \in Requests, IssueToken(r)  PROVE TypeOK'
    <2>1. tokens' = [tokens EXCEPT ![r] = acct[r].id] /\ acct[r].id \in Existing
      BY <1>4 DEF IssueToken
    <2>2. Existing' = Existing /\ Existing \subseteq Ids
      BY <1>4 DEF IssueToken, Existing
    <2>3. pc' \in [Requests -> Places]
      BY <1>4 DEF IssueToken, TypeOK, Places
    <2> QED
      BY <1>4, <2>1, <2>2, <2>3 DEF IssueToken, TypeOK
  <1>5. ASSUME NEW r \in Requests, UseToken(r)  PROVE TypeOK'
    BY <1>5, EnteringTyped, VisitorsAreAccounts DEF UseToken, Places
  <1>6. ASSUME NEW r \in Requests,
               StartConnect(r) \/ CallbackSignedIn(r) \/ EnterUnlink(r)
        PROVE  TypeOK'
    BY <1>6, EnteringTyped, VisitorsAreAccounts
       DEF StartConnect, CallbackSignedIn, EnterUnlink, Places
  <1>7. ASSUME NEW r \in Requests,
               StartLogin(r) \/ CallbackAnonymous(r) \/ HasProvider(r) \/ Fail(r)
        PROVE  TypeOK'
    BY <1>7 DEF StartLogin, CallbackAnonymous, HasProvider, Fail, TypeOK, Places, Existing
  <1>8. ASSUME NEW r \in Requests, NewState(r)  PROVE TypeOK'
    <2>1. acct[r].id \in Ids \cup {0}
      BY DEF TypeOK, Handles, NoHandle
    <2>2. states' \in [Requests -> States \cup {NoState}]
      BY <1>8, <2>1 DEF NewState, TypeOK, States
    <2>3. pc' \in [Requests -> Places] /\ Existing' = Existing
      BY <1>8 DEF NewState, TypeOK, Places, Existing
    <2> QED
      BY <1>8, <2>2, <2>3 DEF NewState, TypeOK
  <1>9. ASSUME NEW r \in Requests, ConsumeState(r)  PROVE TypeOK'
    <2>1. PICK s \in Requests :
            /\ states[s] # NoState
            /\ states' = [states EXCEPT ![s] = NoState]
            /\ oauth' = [oauth EXCEPT ![r] =
                 [kind |-> states[s].kind, provider |-> states[s].provider,
                  id |-> states[s].id, secret |-> s]]
      BY <1>9 DEF ConsumeState
    <2>2. states[s] \in States
      BY <2>1 DEF TypeOK
    <2>3. oauth' \in [Requests -> Consumed \cup {NoState}]
      BY <2>1, <2>2 DEF TypeOK, States, Consumed, Secrets
    <2>4. pc' \in [Requests -> Places] /\ Existing' = Existing
      BY <1>9 DEF ConsumeState, TypeOK, Places, Existing
    <2> QED
      BY <1>9, <2>1, <2>3, <2>4 DEF ConsumeState, TypeOK
  <1>10. ASSUME NEW r \in Requests, LoginLookup(r)  PROVE TypeOK'
    <2>1. acct' \in [Requests -> Handles \cup {NoHandle}]
      BY <1>10, ExistingAreRows DEF LoginLookup, TypeOK
    <2>2. pc' \in [Requests -> Places] /\ Existing' = Existing
      BY <1>10 DEF LoginLookup, TypeOK, Places, Existing
    <2>3. ext' \in [Requests -> Externals]
      BY <1>10 DEF LoginLookup, Exchanged, TypeOK
    <2> QED
      BY <1>10, <2>1, <2>2, <2>3 DEF LoginLookup, TypeOK
  <1>11. ASSUME NEW r \in Requests, Signup(r)  PROVE TypeOK'
    <2>1. PICK i \in Ids, n \in Names :
            /\ InsertUser(r, i, n, NoPassword)
            /\ identities' = [identities EXCEPT ![ext[r]] = [id |-> i, by |-> r]]
      BY <1>11 DEF Signup
    <2>2. /\ users' \in [Ids -> Rows \cup {NoUser}]
          /\ acct' \in [Requests -> Handles \cup {NoHandle}]
          /\ Existing' = Existing \cup {i}
      BY <2>1, InsertingTyped
    <2>3. identities' \in [Externals -> [id : Ids, by : Requests] \cup {NoHandle}]
      BY <2>1 DEF TypeOK
    <2>4. \A e \in Externals : identities'[e].id \in Existing' \cup {0}
      BY <2>1, <2>2 DEF TypeOK
    <2>5. pc' \in [Requests -> Places]
      BY <1>11 DEF Signup, TypeOK, Places
    <2> QED
      BY <1>11, <2>2, <2>3, <2>4, <2>5 DEF Signup, TypeOK
  <1>12. ASSUME NEW r \in Requests, CreateSession(r)  PROVE TypeOK'
    <2>1. sessions' = [sessions EXCEPT ![r] = acct[r].id] /\ acct[r].id \in Existing
      BY <1>12 DEF CreateSession
    <2>2. Existing' = Existing /\ Existing \subseteq Ids
      BY <1>12 DEF CreateSession, Existing
    <2>3. pc' \in [Requests -> Places]
      BY <1>12 DEF CreateSession, TypeOK, Places
    <2> QED
      BY <1>12, <2>1, <2>2, <2>3 DEF CreateSession, TypeOK
  <1>13. ASSUME NEW r \in Requests, ConnectLookup(r)  PROVE TypeOK'
    <2>1. pc' \in [Requests -> Places] /\ Existing' = Existing
      BY <1>13 DEF ConnectLookup, TypeOK, Places, Existing
    <2>2. ext' \in [Requests -> Externals]
      BY <1>13 DEF ConnectLookup, Exchanged, TypeOK
    <2> QED
      BY <1>13, <2>1, <2>2 DEF ConnectLookup, TypeOK
  <1>14. ASSUME NEW r \in Requests, InsertIdentity(r)  PROVE TypeOK'
    <2>1. /\ acct[r].id \in Existing
          /\ identities' = [identities EXCEPT ![ext[r]] = [id |-> acct[r].id, by |-> r]]
      BY <1>14 DEF InsertIdentity, Link
    <2>2. Existing' = Existing /\ Existing \subseteq Ids
      BY <1>14 DEF InsertIdentity, Existing
    <2>3. identities' \in [Externals -> [id : Ids, by : Requests] \cup {NoHandle}]
      BY <2>1, <2>2 DEF TypeOK
    <2>4. \A e \in Externals : identities'[e].id \in Existing' \cup {0}
      BY <2>1, <2>2 DEF TypeOK
    <2>5. pc' \in [Requests -> Places]
      BY <1>14 DEF InsertIdentity, TypeOK, Places
    <2> QED
      BY <1>14, <2>2, <2>3, <2>4, <2>5 DEF InsertIdentity, TypeOK
  <1>15. ASSUME NEW r \in Requests, EnterDelete(r)  PROVE TypeOK'
    <2>1. acct' \in [Requests -> Handles \cup {NoHandle}]
      BY <1>15, VisitorsAreAccounts DEF EnterDelete, TypeOK
    <2>2. given' \in [Requests -> [name : Names, password : Passwords \cup {NoPassword}]
                                     \cup {NoUser}]
      <3>1. PICK h \in Visitors : given' = [given EXCEPT ![r] =
                                    [name |-> users[h.id].name, password |-> NoPassword]]
        BY <1>15 DEF EnterDelete
      <3>2. PICK i \in Existing : h = Handle(i)
        BY DEF Visitors, Opened
      <3>3. users[h.id].name \in Names
        BY <3>2, ExistingAreRows DEF Handle, Rows
      <3> QED
        BY <3>1, <3>3 DEF TypeOK
    <2>3. pc' \in [Requests -> Places] /\ Existing' = Existing
      BY <1>15 DEF EnterDelete, TypeOK, Places, Existing
    <2> QED
      BY <1>15, <2>1, <2>2, <2>3 DEF EnterDelete, TypeOK
  <1>16. ASSUME NEW r \in Requests, UnlinkIdentity(r)  PROVE TypeOK'
    <2>1. PICK p \in Providers : Unlinked(r, p)
      BY <1>16 DEF UnlinkIdentity
    <2>2. identities' \in [Externals -> [id : Ids, by : Requests] \cup {NoHandle}]
      BY <2>1 DEF Unlinked, TypeOK
    <2>3. Existing' = Existing
      BY <2>1 DEF Unlinked, Existing
    <2>4. \A e \in Externals : identities'[e].id \in Existing' \cup {0}
      BY <2>1, <2>3 DEF Unlinked, TypeOK, NoHandle
    <2>5. pc' \in [Requests -> Places]
      BY <1>16 DEF UnlinkIdentity, TypeOK, Places
    <2> QED
      BY <2>1, <2>2, <2>3, <2>4, <2>5 DEF Unlinked, TypeOK
  <1>17. ASSUME NEW r \in Requests, DeleteAccount(r)  PROVE TypeOK'
    <2> DEFINE i == acct[r].id
    <2>1. /\ i \in Existing
          /\ users' = [users EXCEPT ![i] = NoUser]
          /\ identities' = [e \in Externals |->
               IF identities[e].id = i THEN NoHandle ELSE identities[e]]
          /\ tokens' = Cleared(tokens, i)
          /\ sessions' = Cleared(sessions, i)
          /\ events' = Cleared(events, i)
      BY <1>17 DEF DeleteAccount
    <2>2. Existing' = Existing \ {i}
      <3>1. \A j \in Ids : users'[j] # NoUser <=> users[j] # NoUser /\ j # i
        BY <2>1 DEF TypeOK, Existing
      <3> QED
        BY <3>1 DEF Existing
    <2>3. users' \in [Ids -> Rows \cup {NoUser}]
      BY <2>1 DEF TypeOK
    <2>4. /\ identities' \in [Externals -> [id : Ids, by : Requests] \cup {NoHandle}]
          /\ \A e \in Externals : identities'[e].id \in Existing' \cup {0}
      BY <2>1, <2>2 DEF TypeOK, NoHandle
    <2>5. /\ tokens' \in [Requests -> Ids \cup {0}]
          /\ sessions' \in [Requests -> Ids \cup {0}]
          /\ events' \in [Requests -> Ids \cup {0}]
          /\ \A q \in Requests :
               {tokens'[q], sessions'[q], events'[q]} \subseteq Existing' \cup {0}
      BY <2>1, <2>2 DEF TypeOK, Cleared
    <2>6. pc' \in [Requests -> Places] /\ late' \subseteq Requests
      BY <1>17 DEF DeleteAccount, TypeOK, Places
    <2> QED
      BY <1>17, <2>3, <2>4, <2>5, <2>6 DEF DeleteAccount, TypeOK
  <1>18. ASSUME NEW r \in Requests, Logout(r)  PROVE TypeOK'
    BY <1>18 DEF Logout, TypeOK, Places, Existing
  <1>19. ASSUME NEW r \in Requests, RecordEvent(r)  PROVE TypeOK'
    <2>1. Existing' = Existing /\ Existing \subseteq Ids
      BY <1>19 DEF RecordEvent, Existing
    <2>2. pc' \in [Requests -> Places]
      BY <1>19 DEF RecordEvent, TypeOK, Places
    <2>3. CASE /\ acct[r].id \in Existing
               /\ events' = [events EXCEPT ![r] = acct[r].id]
      BY <1>19, <2>1, <2>2, <2>3 DEF RecordEvent, TypeOK
    <2>4. CASE UNCHANGED events
      BY <1>19, <2>1, <2>2, <2>4 DEF RecordEvent, TypeOK
    <2> QED
      BY <1>19, <2>3, <2>4 DEF RecordEvent
  <1> QED
    BY <1>1, <1>2, <1>3, <1>4, <1>5, <1>6, <1>7, <1>8, <1>9, <1>10, <1>11, <1>12, <1>13,
       <1>14, <1>15, <1>16, <1>17, <1>18, <1>19
       DEF Next, NpmStep, OAuthStep, AccountStep

(* A request gets to createUser by FindUser, which has just taken the name *)
(* and the password.                                                       *)
LEMMA NextLogin ==
  ASSUME TypeOK, LoginInv, [Next]_vars
  PROVE  LoginInv'
PROOF
  <1> SUFFICES ASSUME NEW q \in Requests, pc'[q] = "createUser"
               PROVE  given'[q] \in [name : Names, password : Passwords]
    BY DEF LoginInv
  <1>1. CASE pc[q] = "createUser" /\ UNCHANGED given[q]
    BY <1>1 DEF LoginInv
  <1>2. CASE \E r \in Requests : FindUser(r)
    BY <1>2 DEF FindUser, TypeOK, LoginInv
  <1>3. ASSUME NEW r \in Requests, Fail(r)
        PROVE  pc[q] = "createUser" /\ UNCHANGED given
    BY <1>3 DEF Fail, Running, TypeOK, request
  <1>4. ASSUME NEW r \in Requests,
               \/ CreateUser(r) \/ IssueToken(r) \/ UseToken(r)
               \/ UnlinkIdentity(r) \/ DeleteAccount(r) \/ Logout(r)
               \/ EnterUnlink(r) \/ RecordEvent(r)
        PROVE  pc[q] = "createUser" /\ UNCHANGED given
    BY <1>4 DEF CreateUser, IssueToken, UseToken, UnlinkIdentity, Unlinked, DeleteAccount,
                Logout, EnterUnlink, RecordEvent, Enter, Goto, TypeOK, request
  <1>5. ASSUME NEW r \in Requests, OAuthStep(r)
        PROVE  pc[q] = "createUser" /\ UNCHANGED given
    BY <1>5 DEF OAuthStep, StartConnect, StartLogin, NewState, CallbackSignedIn,
                CallbackAnonymous, ConsumeState, LoginLookup, Exchanged, Signup,
                CreateSession, ConnectLookup, HasProvider, InsertIdentity,
                Enter, Goto, TypeOK, request
  <1>6. ASSUME NEW r \in Requests, EnterDelete(r)  PROVE pc[q] = "createUser" /\ q # r
    BY <1>6 DEF EnterDelete, Goto, TypeOK
  <1>7. ASSUME NEW r \in Requests, EnterDelete(r)
        PROVE  given'[q] \in [name : Names, password : Passwords]
    BY <1>6, <1>7 DEF EnterDelete, TypeOK, LoginInv
  <1>8. CASE UNCHANGED vars
    BY <1>8 DEF vars, LoginInv
  <1> QED
    BY <1>1, <1>2, <1>3, <1>4, <1>5, <1>7, <1>8
       DEF Next, NpmStep, AccountStep

(* Every reachable state of the account tables, and of the requests on     *)
(* them, is well typed, and every row refers to an account that exists.    *)
THEOREM AccountsTyped == Spec => []TypeOK
PROOF
  <1>1. Init => TypeOK /\ LoginInv
    BY InitTyped
  <1>2. TypeOK /\ LoginInv /\ [Next]_vars => (TypeOK /\ LoginInv)'
    BY NextTyped, NextLogin
  <1> QED
    BY <1>1, <1>2, PTL DEF Spec

----------------------------------------------------------------------------
(* A state is used once.                                                   *)

(* A request that is done stays done; only NewState adds a state, its own, *)
(* and only ConsumeState takes one.                                        *)
LEMMA StatesChange ==
  ASSUME TypeOK, [Next]_vars
  PROVE  /\ \A s \in Requests : pc[s] = "done" => pc'[s] = "done"
         /\ \/ UNCHANGED <<states, oauth>>
            \/ \E r \in Requests : NewState(r) \/ ConsumeState(r)
PROOF
  <1> USE DEF Goto, tables, request
  <1>1. CASE UNCHANGED vars
    BY <1>1 DEF vars
  <1>2. ASSUME NEW r \in Requests, Fail(r)
        PROVE  /\ \A s \in Requests : pc[s] = "done" => pc'[s] = "done"
               /\ UNCHANGED <<states, oauth>>
    BY <1>2 DEF Fail, Running, TypeOK
  <1>3. ASSUME NEW r \in Requests, NpmStep(r)
        PROVE  /\ \A s \in Requests : pc[s] = "done" => pc'[s] = "done"
               /\ UNCHANGED <<states, oauth>>
    BY <1>3 DEF NpmStep, FindUser, CreateUser, IssueToken, UseToken, Enter, TypeOK
  <1>4. ASSUME NEW r \in Requests, AccountStep(r) \/ RecordEvent(r)
        PROVE  /\ \A s \in Requests : pc[s] = "done" => pc'[s] = "done"
               /\ UNCHANGED <<states, oauth>>
    BY <1>4 DEF AccountStep, EnterUnlink, UnlinkIdentity, Unlinked, EnterDelete,
                DeleteAccount, Logout, RecordEvent, Enter, TypeOK
  <1>5. ASSUME NEW r \in Requests, OAuthStep(r)
        PROVE  /\ \A s \in Requests : pc[s] = "done" => pc'[s] = "done"
               /\ \/ UNCHANGED <<states, oauth>>
                  \/ NewState(r) \/ ConsumeState(r)
    BY <1>5 DEF OAuthStep, StartConnect, StartLogin, NewState, CallbackSignedIn,
                CallbackAnonymous, ConsumeState, LoginLookup, Exchanged, Signup,
                CreateSession, ConnectLookup, HasProvider, InsertIdentity, Enter, TypeOK
  <1> QED
    BY <1>1, <1>2, <1>3, <1>4, <1>5 DEF Next

LEMMA NextStates ==
  ASSUME TypeOK, StateInv, StatesAreUsedOnce, [Next]_vars
  PROVE  StateInv' /\ StatesAreUsedOnce'
PROOF
  <1>1. CASE UNCHANGED <<states, oauth>>
    BY <1>1, StatesChange DEF StateInv, StatesAreUsedOnce, TypeOK, Consumed, Secrets
  <1>2. ASSUME NEW r \in Requests, NewState(r)
        PROVE  StateInv' /\ StatesAreUsedOnce'
    <2>1. /\ pc[r] = "newState"
          /\ pc'[r] = "done"
          /\ \A s \in Requests \ {r} : states'[s] = states[s]
          /\ oauth' = oauth
      BY <1>2 DEF NewState, Goto, TypeOK, request
    <2>2. \A q \in Requests : oauth[q] # NoState =>
            oauth[q].secret \in Requests /\ oauth[q].secret # r
      BY <2>1 DEF StateInv, TypeOK, Consumed, Secrets
    <2> QED
      BY <2>1, <2>2, StatesChange DEF StateInv, StatesAreUsedOnce
  <1>3. ASSUME NEW r \in Requests, ConsumeState(r)
        PROVE  StateInv' /\ StatesAreUsedOnce'
    <2>1. PICK s \in Requests :
            /\ states[s] # NoState
            /\ states' = [states EXCEPT ![s] = NoState]
            /\ oauth' = [oauth EXCEPT ![r] =
                 [kind |-> states[s].kind, provider |-> states[s].provider,
                  id |-> states[s].id, secret |-> s]]
      BY <1>3 DEF ConsumeState
    <2>2. pc[s] = "done" /\ \A q \in Requests : oauth[q] # NoState => oauth[q].secret # s
      BY <2>1 DEF StateInv
    <2>3. /\ oauth'[r].secret = s
          /\ \A q \in Requests \ {r} : oauth'[q] = oauth[q]
          /\ states'[s] = NoState
          /\ \A q \in Requests \ {s} : states'[q] = states[q]
      BY <2>1 DEF TypeOK
    <2>4. \A q \in Requests : oauth[q] # NoState => oauth[q].secret \in Requests
      BY DEF TypeOK, Consumed, Secrets
    <2>5. StateInv'
      BY <2>1, <2>2, <2>3, <2>4, StatesChange DEF StateInv
    <2>6. StatesAreUsedOnce'
      BY <2>2, <2>3 DEF StatesAreUsedOnce
    <2> QED
      BY <2>5, <2>6
  <1> QED
    BY <1>1, <1>2, <1>3, StatesChange

(* states.go: "a replayed callback finds nothing".  Whatever callbacks are *)
(* under way or repeated, each state is consumed by one of them at most.   *)
THEOREM StatesUsedOnce == Spec => []StatesAreUsedOnce
PROOF
  <1>1. Init => StateInv /\ StatesAreUsedOnce
    BY InitTyped DEF Init, StatesAreUsedOnce
  <1>2. TypeOK /\ StateInv /\ StatesAreUsedOnce /\ [Next]_vars
          => (StateInv /\ StatesAreUsedOnce)'
    BY NextStates
  <1> QED
    BY <1>1, <1>2, AccountsTyped, PTL DEF Spec

----------------------------------------------------------------------------
(* Logins are unique, and every account can be entered.                    *)

(* The steps that change who there is and what opens which account.        *)
LEMMA AccountsChange ==
  ASSUME TypeOK, [Next]_vars
  PROVE  \/ UNCHANGED <<users, identities>>
         \/ \E r \in Requests :
              \/ CreateUser(r) \/ Signup(r) \/ InsertIdentity(r)
              \/ UnlinkIdentity(r) \/ DeleteAccount(r)
PROOF
  <1>1. ASSUME NEW r \in Requests, NpmStep(r)
        PROVE  UNCHANGED <<users, identities>> \/ CreateUser(r)
    BY <1>1 DEF NpmStep, FindUser, IssueToken, UseToken, Enter, tables
  <1>2. ASSUME NEW r \in Requests, OAuthStep(r)
        PROVE  UNCHANGED <<users, identities>> \/ Signup(r) \/ InsertIdentity(r)
    BY <1>2 DEF OAuthStep, StartConnect, StartLogin, NewState, CallbackSignedIn,
                CallbackAnonymous, ConsumeState, LoginLookup, CreateSession,
                ConnectLookup, HasProvider, Enter, tables
  <1>3. ASSUME NEW r \in Requests, AccountStep(r) \/ RecordEvent(r) \/ Fail(r)
        PROVE  UNCHANGED <<users, identities>> \/ UnlinkIdentity(r) \/ DeleteAccount(r)
    BY <1>3 DEF AccountStep, EnterUnlink, EnterDelete, Logout, RecordEvent, Fail,
                Enter, tables
  <1> QED
    BY <1>1, <1>2, <1>3 DEF Next, vars

(* A user whose name was free keeps the names unique.                      *)
LEMMA NewNameIsUnique ==
  ASSUME TypeOK, LoginsAreUnique, NEW r \in Requests, NEW i \in Ids, NEW n \in Names,
         NEW p \in Passwords \cup {NoPassword}, InsertUser(r, i, n, p), n \notin NamesUsed
  PROVE  \A j, k \in Existing' : users'[j].name = users'[k].name => j = k
PROOF
  <1>1. Existing' = Existing \cup {i} /\ i \notin Existing
    BY InsertingTyped
  <1>2. users'[i].name = n
    BY DEF InsertUser, TypeOK
  <1>3. \A j \in Existing : users'[j] = users[j] /\ users[j].name # n
    BY <1>1 DEF InsertUser, TypeOK, NamesUsed
  <1> QED
    BY <1>1, <1>2, <1>3 DEF LoginsAreUnique

(* After UnlinkIdentity another identity is left: the account had two, and *)
(* they are of different providers.                                        *)
LEMMA UnlinkLeavesOne ==
  ASSUME TypeOK, LoginsAreUnique, NEW i \in Ids, NEW p \in Providers,
         HasOf(i, p), Cardinality(IdentitiesOf(i)) # 1
  PROVE  \E e \in Externals : identities[e].id = i /\ ProviderOf[e] # p
PROOF
  <1>1. PICK d \in Externals : identities[d].id = i /\ ProviderOf[d] = p
    BY DEF HasOf
  <1>2. IsFiniteSet(IdentitiesOf(i))
    BY ExternalsAssumption, FS_Subset DEF IdentitiesOf
  <1>3. d \in IdentitiesOf(i)
    BY <1>1 DEF IdentitiesOf
  <1>4. IdentitiesOf(i) # {d}
    BY <1>2, FS_Singleton
  <1>5. PICK e \in IdentitiesOf(i) : e # d
    BY <1>3, <1>4
  <1>6. identities[d] # NoHandle
    BY <1>1, MaxIdAssumption DEF NoHandle, Ids
  <1> QED
    BY <1>1, <1>5, <1>6 DEF IdentitiesOf, LoginsAreUnique

LEMMA NextUnique ==
  ASSUME TypeOK, LoginInv, LoginsAreUnique, [Next]_vars
  PROVE  LoginsAreUnique'
PROOF
  <1>1. CASE UNCHANGED <<users, identities>>
    BY <1>1 DEF LoginsAreUnique, Existing
  <1>2. ASSUME NEW r \in Requests, CreateUser(r)  PROVE LoginsAreUnique'
    <2>1. given[r].name \in Names /\ given[r].password \in Passwords
      BY <1>2 DEF CreateUser, Goto, LoginInv
    <2>2. PICK i \in Ids : InsertUser(r, i, given[r].name, given[r].password)
      BY <1>2 DEF CreateUser
    <2>3. \A j, k \in Existing' : users'[j].name = users'[k].name => j = k
      BY <1>2, <2>1, <2>2, NewNameIsUnique DEF CreateUser
    <2> QED
      BY <1>2, <2>3 DEF CreateUser, LoginsAreUnique
  <1>3. ASSUME NEW r \in Requests, Signup(r)  PROVE LoginsAreUnique'
    <2>1. PICK i \in Ids, n \in Names :
            /\ FirstFree(ext[r], n)
            /\ InsertUser(r, i, n, NoPassword)
            /\ identities' = [identities EXCEPT ![ext[r]] = [id |-> i, by |-> r]]
      BY <1>3 DEF Signup
    <2>2. \A j, k \in Existing' : users'[j].name = users'[k].name => j = k
      BY <2>1, NewNameIsUnique DEF FirstFree
    <2>3. \A e \in Externals : identities[e].id # i
      BY <2>1, InsertingTyped, MaxIdAssumption DEF TypeOK, Ids
    <2>4. ASSUME NEW d \in Externals, NEW e \in Externals,
                 identities'[d] # NoHandle,
                 identities'[d].id = identities'[e].id,
                 ProviderOf[d] = ProviderOf[e]
          PROVE  d = e
      BY <2>1, <2>3, <2>4 DEF LoginsAreUnique, TypeOK
    <2> QED
      BY <2>2, <2>4 DEF LoginsAreUnique
  <1>4. ASSUME NEW r \in Requests, InsertIdentity(r)  PROVE LoginsAreUnique'
    <2>1. /\ identities' = [identities EXCEPT ![ext[r]] = [id |-> acct[r].id, by |-> r]]
          /\ ~HasOf(acct[r].id, ProviderOf[ext[r]])
          /\ users' = users
      BY <1>4 DEF InsertIdentity, Link
    <2>2. ASSUME NEW d \in Externals, NEW e \in Externals,
                 identities'[d] # NoHandle,
                 identities'[d].id = identities'[e].id,
                 ProviderOf[d] = ProviderOf[e]
          PROVE  d = e
      BY <2>1, <2>2 DEF LoginsAreUnique, TypeOK, HasOf
    <2> QED
      BY <2>1, <2>2 DEF LoginsAreUnique, Existing
  <1>5. ASSUME NEW r \in Requests, UnlinkIdentity(r)  PROVE LoginsAreUnique'
    <2>1. PICK p \in Providers : Unlinked(r, p)
      BY <1>5 DEF UnlinkIdentity
    <2>2. /\ users' = users
          /\ \A e \in Externals : identities'[e] = identities[e] \/ identities'[e] = NoHandle
          /\ \A e \in Externals : identities[e] = NoHandle => identities'[e] = NoHandle
      BY <2>1 DEF Unlinked
    <2>3. \A e \in Externals : identities[e] # NoHandle => identities[e].id # 0
      BY MaxIdAssumption DEF TypeOK, Ids
    <2> QED
      BY <2>2, <2>3 DEF LoginsAreUnique, Existing, NoHandle
  <1>6. ASSUME NEW r \in Requests, DeleteAccount(r)  PROVE LoginsAreUnique'
    <2>1. /\ \A j \in Ids : users'[j] = users[j] \/ users'[j] = NoUser
          /\ \A e \in Externals : identities'[e] = identities[e] \/ identities'[e] = NoHandle
          /\ \A e \in Externals : identities[e] = NoHandle => identities'[e] = NoHandle
      BY <1>6 DEF DeleteAccount, TypeOK, NoHandle
    <2>2. \A e \in Externals : identities[e] # NoHandle => identities[e].id # 0
      BY MaxIdAssumption DEF TypeOK, Ids
    <2> QED
      BY <2>1, <2>2 DEF LoginsAreUnique, Existing, NoHandle
  <1> QED
    BY <1>1, <1>2, <1>3, <1>4, <1>5, <1>6, AccountsChange

LEMMA NextEnterable ==
  ASSUME TypeOK, LoginInv, LoginsAreUnique, EveryAccountCanBeEntered, [Next]_vars
  PROVE  EveryAccountCanBeEntered'
PROOF
  <1>1. CASE UNCHANGED <<users, identities>>
    BY <1>1 DEF EveryAccountCanBeEntered, Existing
  <1>2. ASSUME NEW r \in Requests, CreateUser(r)  PROVE EveryAccountCanBeEntered'
    <2>1. given[r].name \in Names /\ given[r].password \in Passwords
      BY <1>2 DEF CreateUser, Goto, LoginInv
    <2>2. PICK i \in Ids : InsertUser(r, i, given[r].name, given[r].password)
      BY <1>2 DEF CreateUser
    <2>3. Existing' = Existing \cup {i} /\ users'[i].password # NoPassword
      BY <2>1, <2>2, InsertingTyped, PasswordsAssumption DEF InsertUser, TypeOK
    <2>4. \A j \in Existing \ {i} : users'[j] = users[j]
      BY <2>2 DEF InsertUser, TypeOK
    <2> QED
      BY <1>2, <2>3, <2>4 DEF CreateUser, EveryAccountCanBeEntered
  <1>3. ASSUME NEW r \in Requests, Signup(r)  PROVE EveryAccountCanBeEntered'
    <2>1. PICK i \in Ids, n \in Names :
            /\ InsertUser(r, i, n, NoPassword)
            /\ identities' = [identities EXCEPT ![ext[r]] = [id |-> i, by |-> r]]
      BY <1>3 DEF Signup
    <2>2. Existing' = Existing \cup {i} /\ identities'[ext[r]].id = i
      BY <2>1, InsertingTyped DEF TypeOK
    <2>3. \A j \in Existing \ {i} : users'[j] = users[j]
      BY <2>1 DEF InsertUser, TypeOK
    <2>4. identities[ext[r]] = NoHandle
      BY <1>3 DEF Signup
    <2>5. \A j \in Existing \ {i}, e \in Externals :
            identities[e].id = j => identities'[e].id = j
      BY <2>1, <2>4, MaxIdAssumption DEF TypeOK, NoHandle, Existing, Ids
    <2> QED
      BY <2>2, <2>3, <2>5 DEF EveryAccountCanBeEntered, TypeOK
  <1>4. ASSUME NEW r \in Requests, InsertIdentity(r)  PROVE EveryAccountCanBeEntered'
    <2>1. /\ identities' = [identities EXCEPT ![ext[r]] = [id |-> acct[r].id, by |-> r]]
          /\ identities[ext[r]] = NoHandle
          /\ users' = users
      BY <1>4 DEF InsertIdentity, Link
    <2>2. \A i \in Existing, e \in Externals :
            identities[e].id = i => identities'[e].id = i
      BY <2>1, MaxIdAssumption DEF TypeOK, NoHandle, Existing, Ids
    <2> QED
      BY <2>1, <2>2 DEF EveryAccountCanBeEntered, Existing
  <1>5. ASSUME NEW r \in Requests, UnlinkIdentity(r)  PROVE EveryAccountCanBeEntered'
    <2> DEFINE a == acct[r].id
    <2>1. PICK p \in Providers : Unlinked(r, p)
      BY <1>5 DEF UnlinkIdentity
    <2>2. /\ users' = users
          /\ HasOf(a, p)
          /\ \A e \in Externals :
               identities[e].id # a \/ ProviderOf[e] # p => identities'[e] = identities[e]
      BY <2>1 DEF Unlinked, IdentitiesOf
    <2>3. ASSUME NEW i \in Existing, users[i].password = NoPassword
          PROVE  \E e \in Externals : identities'[e].id = i
      <3>1. CASE i # a
        BY <2>2, <2>3, <3>1 DEF EveryAccountCanBeEntered
      <3>2. CASE i = a
        <4>1. Cardinality(IdentitiesOf(i)) # 1
          BY <1>5, <2>3, <3>2 DEF UnlinkIdentity
        <4>2. PICK e \in Externals : identities[e].id = i /\ ProviderOf[e] # p
          BY <2>2, <3>2, <4>1, UnlinkLeavesOne DEF Existing
        <4> QED
          BY <2>2, <4>2
      <3> QED
        BY <3>1, <3>2
    <2> QED
      BY <2>2, <2>3 DEF EveryAccountCanBeEntered, Existing
  <1>6. ASSUME NEW r \in Requests, DeleteAccount(r)  PROVE EveryAccountCanBeEntered'
    <2> DEFINE a == acct[r].id
    <2>1. /\ a \in Existing
          /\ users' = [users EXCEPT ![a] = NoUser]
          /\ \A e \in Externals : identities[e].id # a => identities'[e] = identities[e]
      BY <1>6 DEF DeleteAccount
    <2>2. \A i \in Existing' : i \in Existing /\ i # a /\ users'[i] = users[i]
      BY <2>1 DEF TypeOK, Existing
    <2> QED
      BY <2>1, <2>2 DEF EveryAccountCanBeEntered
  <1> QED
    BY <1>1, <1>2, <1>3, <1>4, <1>5, <1>6, AccountsChange

LEMMA InitEnterable == Init => LoginsAreUnique /\ EveryAccountCanBeEntered
PROOF
  <1> SUFFICES ASSUME Init PROVE LoginsAreUnique /\ EveryAccountCanBeEntered
    OBVIOUS
  <1>1. PICK f \in Requests, e \in Externals :
          /\ users = [i \in Ids |-> IF i = 1
                        THEN [name |-> NameChoices[e][1], password |-> NoPassword, born |-> f]
                        ELSE NoUser]
          /\ identities = [x \in Externals |-> IF x = e THEN [id |-> 1, by |-> f] ELSE NoHandle]
    BY DEF Init
  <1>2. Existing \subseteq {1}
    BY <1>1 DEF Existing
  <1> QED
    BY <1>1, <1>2 DEF LoginsAreUnique, EveryAccountCanBeEntered, NoHandle

(* Names, and provider accounts, open one account each, and an account has *)
(* one identity of a provider: the look-ups that precede the inserts of    *)
(* Login, SignupWithIdentity and LinkIdentity may be out of date, the      *)
(* UNIQUE constraints are not.                                             *)
THEOREM LoginsUnique == Spec => []LoginsAreUnique
PROOF
  <1>1. Init => TypeOK /\ LoginInv /\ LoginsAreUnique
    BY InitTyped, InitEnterable
  <1>2. TypeOK /\ LoginInv /\ LoginsAreUnique /\ [Next]_vars
          => (TypeOK /\ LoginInv /\ LoginsAreUnique)'
    BY NextTyped, NextLogin, NextUnique
  <1> QED
    BY <1>1, <1>2, PTL DEF Spec

(* UnlinkIdentity: "an account with neither a password nor a provider      *)
(* cannot be entered anymore".  No interleaving of sign-ups, links,        *)
(* unlinks and deletions leaves such an account.  That the count decides   *)
(* rests on LoginsAreUnique: two identities are of two providers.          *)
THEOREM AccountsEnterable == Spec => []EveryAccountCanBeEntered
PROOF
  <1> DEFINE IInv == TypeOK /\ LoginInv /\ LoginsAreUnique /\ EveryAccountCanBeEntered
  <1>1. Init => IInv
    BY InitTyped, InitEnterable
  <1>2. IInv /\ [Next]_vars => IInv'
    BY NextTyped, NextLogin, NextUnique, NextEnterable
  <1>3. IInv => EveryAccountCanBeEntered
    OBVIOUS
  <1> QED
    BY <1>1, <1>2, <1>3, PTL DEF Spec

----------------------------------------------------------------------------
(* Rows belong to the account their request acted for.                     *)

(* A request writes a row only after it has settled whom it acts for.      *)
RowPhaseInv ==
  \A r \in Requests :
    /\ pc[r] = "idle" => acct[r] = NoHandle
    /\ tokens[r] # 0 => pc[r] \in {"event", "done", "failed"}
    /\ sessions[r] # 0 => pc[r] \in {"event", "done", "failed"}
    /\ events[r] # 0 => pc[r] = "done"
    /\ \A e \in Externals : identities[e] # NoHandle /\ identities[e].by = r
         => pc[r] \in {"createSession", "event", "done", "failed"}

(* A running request whose account was not deleted acts for an account     *)
(* that exists, and is the one it means.                                   *)
ActingInv ==
  \A r \in Requests \ late :
    Running(r) /\ acct[r] # NoHandle => IsActingFor(r, acct[r].id)

LEMMA NextRowPhase ==
  ASSUME TypeOK, RowPhaseInv, [Next]_vars
  PROVE  RowPhaseInv'
PROOF
  <1> USE DEF RowPhaseInv, Goto, tables, request
  <1>1. CASE UNCHANGED vars
    BY <1>1 DEF vars
  <1>2. ASSUME NEW r \in Requests, Fail(r)  PROVE RowPhaseInv'
    BY <1>2 DEF Fail, Running, TypeOK
  <1>3. ASSUME NEW r \in Requests, FindUser(r) \/ CreateUser(r)  PROVE RowPhaseInv'
    BY <1>3 DEF FindUser, CreateUser, InsertUser, TypeOK
  <1>4. ASSUME NEW r \in Requests, IssueToken(r)  PROVE RowPhaseInv'
    BY <1>4 DEF IssueToken, TypeOK
  <1>5. ASSUME NEW r \in Requests, NEW to \in Places \ {"idle"}, NEW visitors,
               Enter(r, visitors, to)
        PROVE  RowPhaseInv'
    BY <1>5 DEF Enter, TypeOK
  <1>6. ASSUME NEW r \in Requests,
               \/ StartConnect(r) \/ CallbackSignedIn(r)
               \/ EnterUnlink(r) \/ UseToken(r)
        PROVE  RowPhaseInv'
    BY <1>5, <1>6 DEF StartConnect, CallbackSignedIn, EnterUnlink, UseToken, Places
  <1>7. ASSUME NEW r \in Requests,
               \/ StartLogin(r) \/ CallbackAnonymous(r) \/ EnterDelete(r)
               \/ NewState(r) \/ ConsumeState(r)
        PROVE  RowPhaseInv'
    BY <1>7 DEF StartLogin, CallbackAnonymous, EnterDelete, NewState, ConsumeState, TypeOK
  <1>8. ASSUME NEW r \in Requests, LoginLookup(r) \/ ConnectLookup(r) \/ HasProvider(r)
        PROVE  RowPhaseInv'
    BY <1>8 DEF LoginLookup, ConnectLookup, HasProvider, Exchanged, TypeOK
  <1>9. ASSUME NEW r \in Requests, Signup(r)  PROVE RowPhaseInv'
    BY <1>9 DEF Signup, InsertUser, TypeOK
  <1>10. ASSUME NEW r \in Requests, CreateSession(r)  PROVE RowPhaseInv'
    BY <1>10 DEF CreateSession, TypeOK
  <1>11. ASSUME NEW r \in Requests, InsertIdentity(r)  PROVE RowPhaseInv'
    BY <1>11 DEF InsertIdentity, Link, TypeOK
  <1>12. ASSUME NEW r \in Requests, UnlinkIdentity(r)  PROVE RowPhaseInv'
    BY <1>12 DEF UnlinkIdentity, Unlinked, TypeOK
  <1>13. ASSUME NEW r \in Requests, DeleteAccount(r)  PROVE RowPhaseInv'
    BY <1>13 DEF DeleteAccount, Cleared, TypeOK
  <1>14. ASSUME NEW r \in Requests, Logout(r) \/ RecordEvent(r)  PROVE RowPhaseInv'
    BY <1>14 DEF Logout, RecordEvent, Known, TypeOK
  <1> QED
    BY <1>1, <1>2, <1>3, <1>4, <1>6, <1>7, <1>8, <1>9, <1>10, <1>11, <1>12, <1>13, <1>14
       DEF Next, NpmStep, OAuthStep, AccountStep

(* Only a deletion takes an account away or lets another one have its id.  *)
LEMMA AccountsStay ==
  ASSUME TypeOK, LoginInv, [Next]_vars, \A r \in Requests : ~DeleteAccount(r),
         NEW i \in Existing
  PROVE  i \in Existing' /\ users'[i] = users[i] /\ Handle(i)' = Handle(i)
PROOF
  <1>1. CASE users' = users
    BY <1>1 DEF Existing, Handle
  <1>2. ASSUME NEW r \in Requests, NEW j \in Ids, NEW n \in Names,
               NEW p \in Passwords \cup {NoPassword}, InsertUser(r, j, n, p)
        PROVE  i \in Existing' /\ users'[i] = users[i] /\ Handle(i)' = Handle(i)
    <2>1. Existing' = Existing \cup {j} /\ j \notin Existing
      BY <1>2, InsertingTyped
    <2>2. users'[i] = users[i]
      BY <1>2, <2>1 DEF InsertUser, TypeOK, Existing
    <2> QED
      BY <2>1, <2>2 DEF Handle
  <1>3. ASSUME NEW r \in Requests, CreateUser(r)
        PROVE  i \in Existing' /\ users'[i] = users[i] /\ Handle(i)' = Handle(i)
    <2>1. given[r].name \in Names /\ given[r].password \in Passwords
      BY <1>3 DEF CreateUser, Goto, LoginInv
    <2> QED
      BY <1>2, <1>3, <2>1 DEF CreateUser
  <1>4. ASSUME NEW r \in Requests, Signup(r)
        PROVE  i \in Existing' /\ users'[i] = users[i] /\ Handle(i)' = Handle(i)
    BY <1>2, <1>4 DEF Signup
  <1> QED
    BY <1>1, <1>3, <1>4, AccountsChange DEF InsertIdentity, UnlinkIdentity, Unlinked

LEMMA ActingStays ==
  ASSUME TypeOK, LoginInv, [Next]_vars, \A r \in Requests : ~DeleteAccount(r),
         NEW q \in Requests, acct'[q] = acct[q], NEW i, IsActingFor(q, i)
  PROVE  IsActingFor(q, i)'
BY AccountsStay DEF IsActingFor

(* Rows are removed, or stay, or are written for an account that the       *)
(* request acts for; a request changes that account only before it has     *)
(* written a row, and to one that exists.                                  *)
OwnRowsOnly ==
  /\ late' = late
  /\ \A q \in Requests \ late :
       /\ \A i \in {tokens'[q], sessions'[q], events'[q]} :
            i \in {0, tokens[q], sessions[q], events[q]} \/ IsActingFor(q, i)'
       /\ \A e \in Externals : identities'[e] # NoHandle /\ identities'[e].by = q
            => identities'[e] = identities[e] \/ IsActingFor(q, identities[e].id)'
       /\ acct'[q] # acct[q] => /\ pc[q] \in {"idle", "createUser", "exchange", "signup"}
                                /\ IsActingFor(q, acct[q].id)'
       /\ Running(q)' => Running(q) \/ acct[q] = NoHandle

LEMMA OwnWhileActing ==
  ASSUME TypeOK, LoginInv, RowPhaseInv, ActingInv, RowsAreTheirOwn, [Next]_vars,
         \A r \in Requests : ~DeleteAccount(r), OwnRowsOnly
  PROVE  ActingInv' /\ RowsAreTheirOwn'
PROOF
  <1> SUFFICES ASSUME NEW q \in Requests \ late
               PROVE  /\ Running(q)' /\ acct'[q] # NoHandle => IsActingFor(q, acct[q].id)'
                      /\ \A i \in {tokens'[q], sessions'[q], events'[q]} \ {0} : IsActingFor(q, i)'
                      /\ \A e \in Externals : identities'[e] # NoHandle /\ identities'[e].by = q
                           => IsActingFor(q, identities[e].id)'
    BY DEF ActingInv, RowsAreTheirOwn, OwnRowsOnly
  <1>1. CASE acct'[q] = acct[q]
    <2>1. Running(q)' /\ acct'[q] # NoHandle => IsActingFor(q, acct[q].id)'
      BY <1>1, ActingStays DEF ActingInv, OwnRowsOnly
    <2>2. ASSUME NEW i \in {tokens'[q], sessions'[q], events'[q]} \ {0}
          PROVE  IsActingFor(q, i)'
      BY <1>1, <2>2, ActingStays DEF RowsAreTheirOwn, OwnRowsOnly
    <2>3. ASSUME NEW e \in Externals, identities'[e] # NoHandle, identities'[e].by = q
          PROVE  IsActingFor(q, identities[e].id)'
      <3>1. CASE IsActingFor(q, identities[e].id)'
        BY <3>1
      <3>2. CASE identities'[e] = identities[e]
        <4>1. IsActingFor(q, identities[e].id)
          BY <2>3, <3>2 DEF RowsAreTheirOwn
        <4>2. IsActingFor(q, identities[e].id) =>
                \A i : i = identities[e].id => IsActingFor(q, i)'
          BY <1>1, ActingStays
        <4> QED
          BY <3>2, <4>1, <4>2
      <3> QED
        BY <2>3, <3>1, <3>2 DEF OwnRowsOnly
    <2> QED
      BY <2>1, <2>2, <2>3
  <1>2. CASE acct'[q] # acct[q]
    <2>1. tokens[q] = 0 /\ sessions[q] = 0 /\ events[q] = 0
      BY <1>2 DEF RowPhaseInv, OwnRowsOnly
    <2>2. \A e \in Externals : identities[e] # NoHandle => identities[e].by # q
      BY <1>2 DEF RowPhaseInv, OwnRowsOnly
    <2> QED
      BY <1>2, <2>1, <2>2 DEF OwnRowsOnly
  <1> QED
    BY <1>1, <1>2

(* Whom a request acts for once it has read or written its account.        *)
LEMMA ActingForExisting ==
  ASSUME TypeOK, NEW q \in Requests, NEW i \in Existing,
         acct' = [acct EXCEPT ![q] = Handle(i)], users' = users
  PROVE  IsActingFor(q, acct[q].id)'
PROOF
  <1>1. acct'[q] = Handle(i) /\ acct'[q].id = i
    BY DEF TypeOK, Handle
  <1>2. Existing' = Existing /\ Handle(i)' = Handle(i)
    BY DEF Existing, Handle
  <1> QED
    BY <1>1, <1>2 DEF IsActingFor, Handle

LEMMA ActingForInserted ==
  ASSUME TypeOK, NEW q \in Requests, NEW i \in Ids, NEW n \in Names,
         NEW p \in Passwords \cup {NoPassword}, InsertUser(q, i, n, p)
  PROVE  acct'[q].id = i /\ IsActingFor(q, i)'
PROOF
  <1>1. acct'[q] = [id |-> i, born |-> q] /\ users'[i].born = q
    BY DEF InsertUser, TypeOK
  <1>2. i \in Existing'
    BY InsertingTyped
  <1> QED
    BY <1>1, <1>2 DEF IsActingFor, Handle

LEMMA NextOwnRows ==
  ASSUME TypeOK, LoginInv, RowPhaseInv, ActingInv, [Next]_vars,
         \A r \in Requests : ~DeleteAccount(r)
  PROVE  OwnRowsOnly
PROOF
  <1> USE DEF OwnRowsOnly, Goto, tables, request
  <1>1. CASE UNCHANGED vars
    BY <1>1 DEF vars, Running
  <1>2. ASSUME NEW r \in Requests,
               \/ Fail(r) \/ StartLogin(r) \/ NewState(r) \/ CallbackAnonymous(r)
               \/ ConsumeState(r) \/ ConnectLookup(r) \/ HasProvider(r)
        PROVE  OwnRowsOnly
    BY <1>2 DEF Fail, StartLogin, NewState, CallbackAnonymous, ConsumeState,
                ConnectLookup, HasProvider, Exchanged, Running, RowPhaseInv, TypeOK
  <1>3. ASSUME NEW r \in Requests, UnlinkIdentity(r) \/ Logout(r)
        PROVE  OwnRowsOnly
    BY <1>3 DEF UnlinkIdentity, Unlinked, Logout, Running, RowPhaseInv, TypeOK
  <1>4. ASSUME NEW r \in Requests, NEW to, NEW i \in Existing,
               pc[r] \in {"idle", "exchange"}, pc' = [pc EXCEPT ![r] = to],
               acct' = [acct EXCEPT ![r] = Handle(i)], UNCHANGED <<tables, late>>
        PROVE  OwnRowsOnly
    BY <1>4, ActingForExisting DEF Running, RowPhaseInv, TypeOK
  <1>5. ASSUME NEW r \in Requests,
               \/ StartConnect(r) \/ CallbackSignedIn(r) \/ UseToken(r)
               \/ EnterUnlink(r) \/ EnterDelete(r)
        PROVE  OwnRowsOnly
    <2>1. PICK h \in Visitors \cup Bearers :
            /\ pc[r] = "idle"
            /\ acct' = [acct EXCEPT ![r] = h]
            /\ UNCHANGED <<tables, late>>
      BY <1>5 DEF StartConnect, CallbackSignedIn, UseToken, EnterUnlink, EnterDelete, Enter
    <2>2. PICK i \in Existing : h = Handle(i)
      BY DEF Visitors, Bearers, Opened
    <2>3. PICK to : pc' = [pc EXCEPT ![r] = to]
      BY <1>5 DEF StartConnect, CallbackSignedIn, UseToken, EnterUnlink, EnterDelete, Enter
    <2> QED
      BY <1>4, <2>1, <2>2, <2>3
  <1>6. ASSUME NEW r \in Requests, FindUser(r) \/ LoginLookup(r)  PROVE OwnRowsOnly
    <2>1. pc[r] \in {"idle", "exchange"} /\ UNCHANGED <<tables, late>>
      BY <1>6 DEF FindUser, LoginLookup, Exchanged
    <2>2. PICK to : pc' = [pc EXCEPT ![r] = to]
      BY <1>6 DEF FindUser, LoginLookup
    <2>3. CASE UNCHANGED acct
      BY <2>1, <2>2, <2>3 DEF Running, RowPhaseInv, TypeOK
    <2>4. CASE \E i \in Existing : acct' = [acct EXCEPT ![r] = Handle(i)]
      BY <1>4, <2>1, <2>2, <2>4
    <2> QED
      BY <1>6, <2>3, <2>4 DEF FindUser, LoginLookup
  <1>7. ASSUME NEW r \in Requests, CreateUser(r)  PROVE OwnRowsOnly
    <2>1. given[r].name \in Names /\ given[r].password \in Passwords
      BY <1>7 DEF CreateUser, LoginInv
    <2>2. IsActingFor(r, acct[r].id)'
      BY <1>7, <2>1, ActingForInserted DEF CreateUser
    <2>3. /\ pc[r] = "createUser"
          /\ pc' = [pc EXCEPT ![r] = "issueToken"]
          /\ \A q \in Requests \ {r} : acct'[q] = acct[q]
          /\ UNCHANGED <<tokens, sessions, events, identities, late>>
      BY <1>7 DEF CreateUser, InsertUser, TypeOK
    <2> QED
      BY <2>2, <2>3 DEF Running, TypeOK
  <1>8. ASSUME NEW r \in Requests, Signup(r)  PROVE OwnRowsOnly
    <2>1. PICK i \in Ids, n \in Names :
            /\ InsertUser(r, i, n, NoPassword)
            /\ identities' = [identities EXCEPT ![ext[r]] = [id |-> i, by |-> r]]
      BY <1>8 DEF Signup
    <2>2. acct'[r].id = i /\ IsActingFor(r, i)'
      BY <2>1, ActingForInserted
    <2>3. /\ pc[r] = "signup"
          /\ pc' = [pc EXCEPT ![r] = "createSession"]
          /\ \A q \in Requests \ {r} : acct'[q] = acct[q]
          /\ UNCHANGED <<tokens, sessions, events, late>>
      BY <1>8, <2>1 DEF Signup, InsertUser, TypeOK
    <2>4. \A e \in Externals :
            identities'[e] = identities[e] \/ identities'[e] = [id |-> i, by |-> r]
      BY <2>1 DEF TypeOK
    <2> QED
      BY <2>2, <2>3, <2>4 DEF Running, TypeOK
  <1>9. ASSUME NEW r \in Requests \ late, acct[r].id \in Existing, Running(r),
               UNCHANGED <<users, acct>>
        PROVE  IsActingFor(r, acct[r].id)'
    <2>1. acct[r] # NoHandle
      BY <1>9, MaxIdAssumption DEF NoHandle, Existing, Ids
    <2> QED
      BY <1>9, <2>1 DEF ActingInv, IsActingFor, Existing, Handle
  <1>10. ASSUME NEW r \in Requests,
                \/ IssueToken(r) \/ CreateSession(r) \/ RecordEvent(r)
         PROVE  OwnRowsOnly
    <2>1. /\ Running(r)
          /\ UNCHANGED <<users, identities, acct, late>>
          /\ \A q \in Requests \ {r} : /\ pc'[q] = pc[q]
                                       /\ tokens'[q] = tokens[q]
                                       /\ sessions'[q] = sessions[q]
                                       /\ events'[q] = events[q]
      BY <1>10 DEF IssueToken, CreateSession, RecordEvent, Running, TypeOK
    <2>2. \A i \in {tokens'[r], sessions'[r], events'[r]} :
            \/ i \in {tokens[r], sessions[r], events[r]}
            \/ i = acct[r].id /\ acct[r].id \in Existing
      BY <1>10 DEF IssueToken, CreateSession, RecordEvent, TypeOK
    <2>3. r \notin late /\ acct[r].id \in Existing => IsActingFor(r, acct[r].id)'
      BY <1>9, <2>1
    <2> QED
      BY <2>1, <2>2, <2>3 DEF Running
  <1>11. ASSUME NEW r \in Requests, InsertIdentity(r)  PROVE OwnRowsOnly
    <2>1. /\ Running(r)
          /\ acct[r].id \in Existing
          /\ UNCHANGED <<users, tokens, sessions, events, acct, late>>
          /\ \A q \in Requests \ {r} : pc'[q] = pc[q]
      BY <1>11 DEF InsertIdentity, Running, TypeOK
    <2>2. \A e \in Externals :
            identities'[e] = identities[e] \/ identities'[e] = [id |-> acct[r].id, by |-> r]
      BY <1>11 DEF InsertIdentity, Link, TypeOK
    <2>3. r \notin late => IsActingFor(r, acct[r].id)'
      BY <1>9, <2>1
    <2> QED
      BY <2>1, <2>2, <2>3 DEF Running
  <1> QED
    BY <1>1, <1>2, <1>3, <1>5, <1>6, <1>7, <1>8, <1>10, <1>11
       DEF Next, NpmStep, OAuthStep, AccountStep

(* A deletion takes the rows with it; requests that act for the account    *)
(* become late.                                                            *)
LEMMA DeletionTakesRows ==
  ASSUME TypeOK, ActingInv, RowsAreTheirOwn, NEW r \in Requests, DeleteAccount(r)
  PROVE  ActingInv' /\ RowsAreTheirOwn'
PROOF
  <1> DEFINE a == acct[r].id
  <1>1. /\ a \in Existing
        /\ users' = [users EXCEPT ![a] = NoUser]
        /\ acct' = acct
        /\ pc' = [pc EXCEPT ![r] = "done"]
        /\ late' = late \cup { q \in Requests \ {r} : Running(q) /\ acct[q] = Handle(a) }
    BY DEF DeleteAccount, Goto, request
  <1>2. \A i \in Existing \ {a} : i \in Existing' /\ Handle(i)' = Handle(i)
    BY <1>1 DEF TypeOK, Existing, Handle
  <1>3. \A q \in Requests : \A i : IsActingFor(q, i) /\ i # a => IsActingFor(q, i)'
    BY <1>1, <1>2 DEF IsActingFor
  <1>4. ActingInv'
    <2> SUFFICES ASSUME NEW q \in Requests \ late', Running(q)', acct'[q] # NoHandle
                 PROVE  IsActingFor(q, acct[q].id)'
      BY DEF ActingInv
    <2>1. q # r /\ Running(q)
      BY <1>1 DEF Running, TypeOK
    <2>2. IsActingFor(q, acct[q].id) /\ acct[q] # Handle(a)
      BY <1>1, <2>1 DEF ActingInv
    <2>3. acct[q].id # a
      BY <2>2 DEF IsActingFor
    <2> QED
      BY <1>1, <1>3, <2>2, <2>3
  <1>5. RowsAreTheirOwn'
    <2> SUFFICES ASSUME NEW q \in Requests \ late'
                 PROVE  /\ \A i \in {tokens'[q], sessions'[q], events'[q]} \ {0} : IsActingFor(q, i)'
                        /\ \A e \in Externals : identities'[e] # NoHandle /\ identities'[e].by = q
                             => IsActingFor(q, identities[e].id)'
      BY DEF RowsAreTheirOwn
    <2>1. ASSUME NEW i \in {tokens'[q], sessions'[q], events'[q]} \ {0}
          PROVE  IsActingFor(q, i)'
      <3>1. i \in {tokens[q], sessions[q], events[q]} /\ i # a
        BY <2>1 DEF DeleteAccount, Cleared
      <3> QED
        BY <1>1, <1>3, <2>1, <3>1 DEF RowsAreTheirOwn
    <2>2. ASSUME NEW e \in Externals, identities'[e] # NoHandle, identities'[e].by = q
          PROVE  IsActingFor(q, identities[e].id)'
      <3>1. identities'[e] = identities[e] /\ identities[e].id # a
        BY <2>2 DEF DeleteAccount
      <3>2. IsActingFor(q, identities[e].id)
        BY <1>1, <2>2, <3>1 DEF RowsAreTheirOwn
      <3>3. \A i : i = identities[e].id => IsActingFor(q, i)'
        BY <1>3, <3>1, <3>2
      <3> QED
        BY <3>1, <3>3
    <2> QED
      BY <2>1, <2>2
  <1> QED
    BY <1>4, <1>5

LEMMA InitOwn == Init => RowPhaseInv /\ ActingInv /\ RowsAreTheirOwn
PROOF
  <1> SUFFICES ASSUME Init PROVE RowPhaseInv /\ ActingInv /\ RowsAreTheirOwn
    OBVIOUS
  <1>1. PICK f \in Requests, e \in Externals :
          /\ users = [i \in Ids |-> IF i = 1
                        THEN [name |-> NameChoices[e][1], password |-> NoPassword, born |-> f]
                        ELSE NoUser]
          /\ identities = [x \in Externals |-> IF x = e THEN [id |-> 1, by |-> f] ELSE NoHandle]
          /\ tokens = [r \in Requests |-> 0]
          /\ sessions = [r \in Requests |-> IF r = f THEN 1 ELSE 0]
          /\ events = [r \in Requests |-> IF r = f THEN 1 ELSE 0]
          /\ pc = [r \in Requests |-> IF r = f THEN "done" ELSE "idle"]
          /\ acct = [r \in Requests |-> IF r = f THEN [id |-> 1, born |-> f] ELSE NoHandle]
    BY DEF Init
  <1>2. IsActingFor(f, 1)
    <2>1. 1 \in Ids
      BY MaxIdAssumption DEF Ids
    <2>2. users[1] # NoUser /\ users[1].born = f
      BY <1>1, <2>1 DEF NoUser
    <2>3. Handle(1) = [id |-> 1, born |-> f]
      BY <2>2 DEF Handle
    <2> QED
      BY <1>1, <2>1, <2>2, <2>3 DEF IsActingFor, Existing
  <1>3. RowPhaseInv /\ ActingInv
    BY <1>1 DEF RowPhaseInv, ActingInv, Running
  <1>4. RowsAreTheirOwn
    BY <1>1, <1>2 DEF RowsAreTheirOwn
  <1> QED
    BY <1>3, <1>4

(* DeleteAccount: "identities, sessions, npm tokens and events go with it".*)
(* Row ids are used again, and still no row of one account shows up in the *)
(* next, as long as its request had ended when the account went.           *)
THEOREM RowsOwned == Spec => []RowsAreTheirOwn
PROOF
  <1> DEFINE IInv == TypeOK /\ LoginInv /\ RowPhaseInv /\ ActingInv /\ RowsAreTheirOwn
  <1>1. Init => IInv
    BY InitTyped, InitOwn
  <1>2. ASSUME IInv, [Next]_vars  PROVE IInv'
    <2>1. TypeOK' /\ LoginInv' /\ RowPhaseInv'
      BY <1>2, NextTyped, NextLogin, NextRowPhase
    <2>2. CASE \E r \in Requests : DeleteAccount(r)
      BY <1>2, <2>1, <2>2, DeletionTakesRows
    <2>3. CASE \A r \in Requests : ~DeleteAccount(r)
      BY <1>2, <2>1, <2>3, NextOwnRows, OwnWhileActing
    <2> QED
      BY <2>2, <2>3
  <1>3. IInv => RowsAreTheirOwn
    OBVIOUS
  <1> QED
    BY <1>1, <1>2, <1>3, PTL DEF Spec

----------------------------------------------------------------------------
(* A token opens the account of the name and password it was asked with.   *)

(* The row of that account has the name and the password of the request.   *)
Matches(r, i) ==
  /\ i \in Existing
  /\ users[i].name = given[r].name
  /\ users[i].password = given[r].password

(* A login that is about to issue a token has looked up, or created, the   *)
(* account of its name and password.                                       *)
IssuingInv ==
  \A r \in Requests \ late : pc[r] = "issueToken" => Matches(r, acct[r].id)

TokenInv == \A r \in Requests \ late : tokens[r] # 0 => Matches(r, tokens[r])

LEMMA MatchingStays ==
  ASSUME TypeOK, LoginInv, [Next]_vars, \A r \in Requests : ~DeleteAccount(r),
         NEW q \in Requests, given'[q] = given[q], NEW i, Matches(q, i)
  PROVE  Matches(q, i)'
BY AccountsStay DEF Matches

(* What a request was given, and whom it acts for, changes only before it  *)
(* issues its token, and never for another request.                        *)
LEMMA IssuersAreSettled ==
  ASSUME TypeOK, [Next]_vars, NEW q \in Requests
  PROVE  /\ pc[q] # "idle" => given'[q] = given[q]
         /\ pc[q] = "issueToken" => acct'[q] = acct[q]
         /\ pc'[q] = "issueToken" =>
              pc[q] = "issueToken" \/ FindUser(q) \/ CreateUser(q)
         /\ tokens'[q] \in {0, tokens[q]} \/ IssueToken(q)
         /\ late \subseteq late'
PROOF
  <1> USE DEF Goto, tables, request, TypeOK
  <1>1. CASE UNCHANGED vars
    BY <1>1 DEF vars
  <1>2. ASSUME NEW r \in Requests,
               \/ StartConnect(r) \/ CallbackSignedIn(r) \/ UseToken(r) \/ EnterUnlink(r)
        PROVE  /\ UNCHANGED <<given, tokens, late>>
               /\ pc[r] = "idle"
               /\ \A p \in Requests \ {r} : pc'[p] = pc[p] /\ acct'[p] = acct[p]
               /\ pc'[r] # "issueToken"
    BY <1>2 DEF StartConnect, CallbackSignedIn, UseToken, EnterUnlink, Enter
  <1>3. ASSUME NEW r \in Requests, EnterDelete(r) \/ FindUser(r)
        PROVE  /\ UNCHANGED <<tokens, late>>
               /\ pc[r] = "idle"
               /\ \A p \in Requests \ {r} :
                    pc'[p] = pc[p] /\ acct'[p] = acct[p] /\ given'[p] = given[p]
               /\ pc'[r] # "issueToken" \/ FindUser(r)
    BY <1>3 DEF EnterDelete, FindUser
  <1>4. ASSUME NEW r \in Requests, CreateUser(r) \/ Signup(r) \/ LoginLookup(r)
        PROVE  /\ UNCHANGED <<tokens, given, late>>
               /\ pc[r] \in {"createUser", "signup", "exchange"}
               /\ \A p \in Requests \ {r} : pc'[p] = pc[p] /\ acct'[p] = acct[p]
               /\ pc'[r] # "issueToken" \/ CreateUser(r)
    BY <1>4 DEF CreateUser, Signup, LoginLookup, Exchanged, InsertUser
  <1>5. ASSUME NEW r \in Requests,
               \/ Fail(r) \/ StartLogin(r) \/ NewState(r) \/ CallbackAnonymous(r)
               \/ ConsumeState(r) \/ ConnectLookup(r) \/ HasProvider(r)
               \/ CreateSession(r) \/ InsertIdentity(r) \/ UnlinkIdentity(r)
               \/ Logout(r) \/ RecordEvent(r)
        PROVE  /\ UNCHANGED <<tokens, given, acct, late>>
               /\ \A p \in Requests \ {r} : pc'[p] = pc[p]
               /\ pc'[r] # "issueToken"
    BY <1>5 DEF Fail, StartLogin, NewState, CallbackAnonymous, ConsumeState,
                ConnectLookup, HasProvider, Exchanged, CreateSession, InsertIdentity,
                Link, UnlinkIdentity, Unlinked, Logout, RecordEvent
  <1>6. ASSUME NEW r \in Requests, IssueToken(r)
        PROVE  /\ UNCHANGED <<given, acct, late>>
               /\ \A p \in Requests \ {r} : pc'[p] = pc[p] /\ tokens'[p] = tokens[p]
               /\ pc'[r] # "issueToken"
    BY <1>6 DEF IssueToken
  <1>7. ASSUME NEW r \in Requests, DeleteAccount(r)
        PROVE  /\ UNCHANGED <<given, acct>>
               /\ late \subseteq late'
               /\ \A p \in Requests \ {r} : pc'[p] = pc[p]
               /\ \A p \in Requests : tokens'[p] \in {0, tokens[p]}
               /\ pc'[r] # "issueToken"
    BY <1>7 DEF DeleteAccount, Cleared
  <1> HIDE DEF Goto, tables, request, TypeOK
  <1> QED
    BY <1>1, <1>2, <1>3, <1>4, <1>5, <1>6, <1>7
       DEF Next, NpmStep, OAuthStep, AccountStep

(* The account that was found is the one that was asked for.               *)
LEMMA FoundMatches ==
  ASSUME TypeOK, NEW q \in Requests, FindUser(q), pc'[q] = "issueToken"
  PROVE  Matches(q, acct[q].id)'
PROOF
  <1>1. PICK n \in Names, p \in Passwords :
          /\ given' = [given EXCEPT ![q] = [name |-> n, password |-> p]]
          /\ \/ \E i \in Existing :
                  /\ users[i].name = n
                  /\ users[i].password = p
                  /\ acct' = [acct EXCEPT ![q] = Handle(i)]
                  /\ pc' = [pc EXCEPT ![q] = "issueToken"]
             \/ pc' = [pc EXCEPT ![q] = "createUser"]
    BY DEF FindUser
  <1>2. PICK i \in Existing :
          /\ users[i].name = n
          /\ users[i].password = p
          /\ acct' = [acct EXCEPT ![q] = Handle(i)]
    BY <1>1 DEF TypeOK
  <1>3. acct'[q].id = i
    BY <1>2 DEF TypeOK, Handle
  <1>4. given'[q].name = n /\ given'[q].password = p
    BY <1>1 DEF TypeOK
  <1>5. users' = users /\ Existing' = Existing
    BY DEF FindUser, tables, Existing
  <1> QED
    BY <1>2, <1>3, <1>4, <1>5 DEF Matches

(* The account that was created has what was asked for.                    *)
LEMMA CreatedMatches ==
  ASSUME TypeOK, LoginInv, NEW q \in Requests, CreateUser(q)
  PROVE  Matches(q, acct[q].id)'
PROOF
  <1>1. given[q].name \in Names /\ given[q].password \in Passwords
    BY DEF CreateUser, Goto, LoginInv
  <1>2. PICK i \in Ids : InsertUser(q, i, given[q].name, given[q].password)
    BY DEF CreateUser
  <1>3. i \in Existing' /\ acct'[q].id = i
    BY <1>1, <1>2, InsertingTyped, ActingForInserted
  <1>4. users'[i] = [name |-> given[q].name, password |-> given[q].password, born |-> q]
    BY <1>2 DEF InsertUser, TypeOK
  <1>5. given' = given
    BY DEF CreateUser
  <1> QED
    BY <1>3, <1>4, <1>5 DEF Matches

LEMMA NextMatches ==
  ASSUME TypeOK, LoginInv, RowPhaseInv, IssuingInv, TokenInv, [Next]_vars,
         \A r \in Requests : ~DeleteAccount(r)
  PROVE  IssuingInv' /\ TokenInv'
PROOF
  <1>1. ASSUME NEW q \in Requests \ late', pc'[q] = "issueToken"
        PROVE  Matches(q, acct[q].id)'
    <2>1. CASE FindUser(q)
      BY <1>1, <2>1, FoundMatches
    <2>2. CASE CreateUser(q)
      BY <2>2, CreatedMatches
    <2>3. CASE pc[q] = "issueToken"
      <3>1. Matches(q, acct[q].id) /\ given'[q] = given[q] /\ acct'[q] = acct[q]
        BY <1>1, <2>3, IssuersAreSettled DEF IssuingInv
      <3>2. \A i : i = acct[q].id => Matches(q, i)'
        BY <3>1, MatchingStays
      <3> QED
        BY <3>1, <3>2
    <2> QED
      BY <1>1, <2>1, <2>2, <2>3, IssuersAreSettled
  <1>2. ASSUME NEW q \in Requests \ late', tokens'[q] # 0
        PROVE  Matches(q, tokens[q])'
    <2>1. CASE tokens'[q] = tokens[q]
      <3>1. Matches(q, tokens[q]) /\ pc[q] # "idle"
        BY <1>2, <2>1, IssuersAreSettled DEF TokenInv, RowPhaseInv
      <3>2. \A i : i = tokens[q] => Matches(q, i)'
        BY <3>1, IssuersAreSettled, MatchingStays
      <3> QED
        BY <2>1, <3>2
    <2>2. CASE IssueToken(q)
      <3>1. tokens'[q] = acct[q].id /\ pc[q] = "issueToken"
        BY <2>2 DEF IssueToken, Goto, TypeOK
      <3>2. Matches(q, acct[q].id) /\ given'[q] = given[q]
        BY <1>2, <3>1, IssuersAreSettled DEF IssuingInv
      <3>3. \A i : i = acct[q].id => Matches(q, i)'
        BY <3>2, MatchingStays
      <3> QED
        BY <3>1, <3>3
    <2> QED
      BY <1>2, <2>1, <2>2, IssuersAreSettled
  <1> QED
    BY <1>1, <1>2 DEF IssuingInv, TokenInv

(* A deletion takes the tokens with the account; a login that was about to *)
(* issue one for it becomes late.                                          *)
LEMMA DeletionMatches ==
  ASSUME TypeOK, ActingInv, IssuingInv, TokenInv, NEW r \in Requests, DeleteAccount(r)
  PROVE  IssuingInv' /\ TokenInv'
PROOF
  <1> DEFINE a == acct[r].id
  <1>1. /\ a \in Existing
        /\ pc[r] = "delete"
        /\ users' = [users EXCEPT ![a] = NoUser]
        /\ acct' = acct /\ given' = given
        /\ pc' = [pc EXCEPT ![r] = "done"]
        /\ late' = late \cup { q \in Requests \ {r} : Running(q) /\ acct[q] = Handle(a) }
    BY DEF DeleteAccount, Goto, request
  <1>2. \A i \in Existing \ {a} : i \in Existing' /\ users'[i] = users[i]
    BY <1>1 DEF TypeOK, Existing
  <1>3. \A q \in Requests : \A i : Matches(q, i) /\ i # a => Matches(q, i)'
    BY <1>1, <1>2 DEF Matches
  <1>4. ASSUME NEW q \in Requests \ late', pc'[q] = "issueToken"
        PROVE  Matches(q, acct[q].id)'
    <2>1. q # r /\ pc[q] = "issueToken" /\ Running(q)
      BY <1>1, <1>4 DEF Running, TypeOK
    <2>2. Matches(q, acct[q].id)
      BY <1>1, <1>4, <2>1 DEF IssuingInv
    <2>3. acct[q] # NoHandle
      BY <2>2, MaxIdAssumption DEF Matches, NoHandle, Existing, Ids
    <2>4. acct[q] = Handle(acct[q].id) /\ acct[q] # Handle(a)
      BY <1>1, <1>4, <2>1, <2>3 DEF ActingInv, IsActingFor
    <2> QED
      BY <1>1, <1>3, <2>2, <2>4
  <1>5. ASSUME NEW q \in Requests \ late', tokens'[q] # 0
        PROVE  Matches(q, tokens[q])'
    <2>1. tokens'[q] = tokens[q] /\ tokens[q] # a
      BY <1>5 DEF DeleteAccount, Cleared
    <2>2. Matches(q, tokens[q])
      BY <1>1, <1>5, <2>1 DEF TokenInv
    <2>3. \A i : i = tokens[q] => Matches(q, i)'
      BY <1>3, <2>1, <2>2
    <2> QED
      BY <2>1, <2>3
  <1> QED
    BY <1>4, <1>5 DEF IssuingInv, TokenInv

(* Login verifies the password of one row and issues the token for it, or  *)
(* creates the row: whoever else signs up, links or is deleted meanwhile,  *)
(* the token opens the account of that name and password.                  *)
THEOREM PasswordOpens == Spec => []PasswordOpensAccount
PROOF
  <1> DEFINE IInv == /\ TypeOK /\ LoginInv /\ RowPhaseInv
                     /\ ActingInv /\ RowsAreTheirOwn
                     /\ IssuingInv /\ TokenInv
  <1>1. Init => IInv
    <2>1. Init => IssuingInv /\ TokenInv
      BY DEF Init, IssuingInv, TokenInv
    <2> QED
      BY <2>1, InitTyped, InitOwn
  <1>2. ASSUME IInv, [Next]_vars  PROVE IInv'
    <2>1. TypeOK' /\ LoginInv' /\ RowPhaseInv'
      BY <1>2, NextTyped, NextLogin, NextRowPhase
    <2>2. CASE \E r \in Requests : DeleteAccount(r)
      BY <1>2, <2>1, <2>2, DeletionTakesRows, DeletionMatches
    <2>3. CASE \A r \in Requests : ~DeleteAccount(r)
      BY <1>2, <2>1, <2>3, NextOwnRows, OwnWhileActing, NextMatches
    <2> QED
      BY <2>2, <2>3
  <1>3. IInv => PasswordOpensAccount
    BY DEF PasswordOpensAccount, TokenInv, Matches, Existing
  <1> QED
    BY <1>1, <1>2, <1>3, PTL DEF Spec

----------------------------------------------------------------------------
(* Who deletes whom: the positive counterpart of the run accounts_reuse.   *)

(* The account's name is the one the request's body confirmed.             *)
Confirmed(r, i) == i \in Existing /\ users[i].name = given[r].name

(* A deletion whose account has not been deleted under it is still about   *)
(* the account whose name was confirmed.                                   *)
ConfirmingInv ==
  \A r \in Requests \ late : pc[r] = "delete" => Confirmed(r, acct[r].id)

(* An account is deleted by a request whose body confirmed its name, or by *)
(* one that was running when the account it was to delete went before it   *)
(* (handleAccountDelete: the id is used again).                            *)
DeletionsAreConfirmed ==
  [][\A i \in Ids :
       users[i] # NoUser /\ users'[i] = NoUser =>
         \E r \in Requests : /\ pc[r] = "delete" /\ pc'[r] = "done"
                             /\ acct[r].id = i
                             /\ r \in late \/ given[r].name = users[i].name]_vars

(* A request comes to its deletion from its check of the name only, and    *)
(* whom and what it deletes is settled there.                              *)
LEMMA DeletersAreSettled ==
  ASSUME TypeOK, [Next]_vars, NEW q \in Requests, pc'[q] = "delete"
  PROVE  \/ pc[q] = "delete" /\ given'[q] = given[q] /\ acct'[q] = acct[q]
         \/ EnterDelete(q)
PROOF
  <1> USE DEF Goto, tables, request, TypeOK
  <1>1. CASE UNCHANGED vars
    BY <1>1 DEF vars
  <1>2. ASSUME NEW r \in Requests,
               \/ StartConnect(r) \/ CallbackSignedIn(r) \/ UseToken(r) \/ EnterUnlink(r)
        PROVE  /\ given' = given
               /\ \A p \in Requests \ {r} : pc'[p] = pc[p] /\ acct'[p] = acct[p]
               /\ pc'[r] # "delete"
    BY <1>2 DEF StartConnect, CallbackSignedIn, UseToken, EnterUnlink, Enter
  <1>3. ASSUME NEW r \in Requests, EnterDelete(r) \/ FindUser(r)
        PROVE  /\ \A p \in Requests \ {r} :
                    pc'[p] = pc[p] /\ acct'[p] = acct[p] /\ given'[p] = given[p]
               /\ pc'[r] # "delete" \/ EnterDelete(r)
    BY <1>3 DEF EnterDelete, FindUser
  <1>4. ASSUME NEW r \in Requests, CreateUser(r) \/ Signup(r) \/ LoginLookup(r)
        PROVE  /\ given' = given
               /\ \A p \in Requests \ {r} : pc'[p] = pc[p] /\ acct'[p] = acct[p]
               /\ pc'[r] # "delete"
    BY <1>4 DEF CreateUser, Signup, LoginLookup, Exchanged, InsertUser
  <1>5. ASSUME NEW r \in Requests,
               \/ Fail(r) \/ StartLogin(r) \/ NewState(r) \/ CallbackAnonymous(r)
               \/ ConsumeState(r) \/ ConnectLookup(r) \/ HasProvider(r)
               \/ CreateSession(r) \/ InsertIdentity(r) \/ UnlinkIdentity(r)
               \/ Logout(r) \/ RecordEvent(r) \/ IssueToken(r) \/ DeleteAccount(r)
        PROVE  /\ UNCHANGED <<given, acct>>
               /\ \A p \in Requests \ {r} : pc'[p] = pc[p]
               /\ pc'[r] # "delete"
    BY <1>5 DEF Fail, StartLogin, NewState, CallbackAnonymous, ConsumeState,
                ConnectLookup, HasProvider, Exchanged, CreateSession, InsertIdentity,
                Link, UnlinkIdentity, Unlinked, Logout, RecordEvent, IssueToken,
                DeleteAccount
  <1> HIDE DEF Goto, tables, request, TypeOK
  <1> QED
    BY <1>1, <1>2, <1>3, <1>4, <1>5
       DEF Next, NpmStep, OAuthStep, AccountStep

(* A visitor is an account there is; the name it confirms is its own.      *)
LEMMA EnteringConfirms ==
  ASSUME TypeOK, NEW q \in Requests, EnterDelete(q)
  PROVE  Confirmed(q, acct[q].id)'
PROOF
  <1>1. PICK h \in Visitors :
          /\ acct' = [acct EXCEPT ![q] = h]
          /\ given' = [given EXCEPT ![q] = [name |-> users[h.id].name, password |-> NoPassword]]
    BY DEF EnterDelete
  <1>2. h.id \in Existing
    BY DEF Visitors, Opened, Handle
  <1>3. acct'[q].id = h.id /\ given'[q].name = users[h.id].name
    BY <1>1 DEF TypeOK
  <1>4. users' = users /\ Existing' = Existing
    BY DEF EnterDelete, tables, Existing
  <1> QED
    BY <1>2, <1>3, <1>4 DEF Confirmed

LEMMA NextConfirms ==
  ASSUME TypeOK, LoginInv, ConfirmingInv, [Next]_vars,
         \A r \in Requests : ~DeleteAccount(r)
  PROVE  ConfirmingInv'
PROOF
  <1> SUFFICES ASSUME NEW q \in Requests \ late', pc'[q] = "delete"
               PROVE  Confirmed(q, acct[q].id)'
    BY DEF ConfirmingInv
  <1>1. CASE EnterDelete(q)
    BY <1>1, EnteringConfirms
  <1>2. CASE pc[q] = "delete" /\ given'[q] = given[q] /\ acct'[q] = acct[q]
    <2>1. Confirmed(q, acct[q].id)
      BY <1>2, IssuersAreSettled DEF ConfirmingInv
    <2>2. \A i : i = acct[q].id => Confirmed(q, i)'
      BY <1>2, <2>1, AccountsStay DEF Confirmed
    <2> QED
      BY <1>2, <2>2
  <1> QED
    BY <1>1, <1>2, DeletersAreSettled

(* Another deletion of the same account becomes late.                      *)
LEMMA DeletionConfirms ==
  ASSUME TypeOK, ActingInv, ConfirmingInv, NEW r \in Requests, DeleteAccount(r)
  PROVE  ConfirmingInv'
PROOF
  <1> DEFINE a == acct[r].id
  <1>1. /\ a \in Existing
        /\ users' = [users EXCEPT ![a] = NoUser]
        /\ acct' = acct /\ given' = given
        /\ pc' = [pc EXCEPT ![r] = "done"]
        /\ late' = late \cup { q \in Requests \ {r} : Running(q) /\ acct[q] = Handle(a) }
    BY DEF DeleteAccount, Goto, request
  <1> SUFFICES ASSUME NEW q \in Requests \ late', pc'[q] = "delete"
               PROVE  Confirmed(q, acct[q].id)'
    BY DEF ConfirmingInv
  <1>2. q # r /\ pc[q] = "delete" /\ Running(q) /\ q \notin late
    BY <1>1 DEF Running, TypeOK
  <1>3. Confirmed(q, acct[q].id)
    BY <1>2 DEF ConfirmingInv
  <1>4. acct[q] # NoHandle
    BY <1>3, MaxIdAssumption DEF Confirmed, NoHandle, Existing, Ids
  <1>5. acct[q] = Handle(acct[q].id) /\ acct[q] # Handle(a)
    BY <1>1, <1>2, <1>4 DEF ActingInv, IsActingFor
  <1>6. acct[q].id \in Existing \ {a}
    BY <1>3, <1>5 DEF Confirmed
  <1>7. acct[q].id \in Existing' /\ users'[acct[q].id] = users[acct[q].id]
    BY <1>1, <1>6 DEF TypeOK, Existing
  <1> QED
    BY <1>1, <1>3, <1>7 DEF Confirmed

(* What goes in a step is what one deletion, that was at its last          *)
(* statement, names.                                                       *)
LEMMA OnlyDeletionsTake ==
  ASSUME TypeOK, LoginInv, [Next]_vars,
         NEW i \in Ids, users[i] # NoUser, users'[i] = NoUser
  PROVE  \E r \in Requests : pc[r] = "delete" /\ pc'[r] = "done" /\ acct[r].id = i
PROOF
  <1>1. i \in Existing /\ i \notin Existing'
    BY DEF Existing
  <1>2. PICK r \in Requests : DeleteAccount(r)
    BY <1>1, AccountsStay
  <1>3. pc[r] = "delete" /\ pc'[r] = "done"
    BY <1>2 DEF DeleteAccount, Goto, TypeOK
  <1>4. acct[r].id = i
    BY <1>2 DEF DeleteAccount, TypeOK
  <1> QED
    BY <1>3, <1>4

(* What is left of "the name confirms the deletion" although row ids are   *)
(* used again: only a deletion that was overtaken by another deletion of   *)
(* its account can take one whose name it did not confirm.                 *)
THEOREM DeletionsConfirmed == Spec => DeletionsAreConfirmed
PROOF
  <1> DEFINE IInv == /\ TypeOK /\ LoginInv /\ RowPhaseInv
                     /\ ActingInv /\ RowsAreTheirOwn /\ ConfirmingInv
             Confirming ==
               \A i \in Ids :
                 users[i] # NoUser /\ users'[i] = NoUser =>
                   \E r \in Requests : /\ pc[r] = "delete" /\ pc'[r] = "done"
                                       /\ acct[r].id = i
                                       /\ r \in late \/ given[r].name = users[i].name
  <1>1. Init => IInv
    <2>1. Init => ConfirmingInv
      BY DEF Init, ConfirmingInv
    <2> QED
      BY <2>1, InitTyped, InitOwn
  <1>2. ASSUME IInv, [Next]_vars  PROVE IInv'
    <2>1. TypeOK' /\ LoginInv' /\ RowPhaseInv'
      BY <1>2, NextTyped, NextLogin, NextRowPhase
    <2>2. CASE \E r \in Requests : DeleteAccount(r)
      BY <1>2, <2>1, <2>2, DeletionTakesRows, DeletionConfirms
    <2>3. CASE \A r \in Requests : ~DeleteAccount(r)
      BY <1>2, <2>1, <2>3, NextOwnRows, OwnWhileActing, NextConfirms
    <2> QED
      BY <2>2, <2>3
  <1>3. IInv /\ [Next]_vars => [Confirming]_vars
    <2> SUFFICES ASSUME IInv, [Next]_vars, NEW i \in Ids,
                        users[i] # NoUser, users'[i] = NoUser
                 PROVE  \E r \in Requests :
                          /\ pc[r] = "delete" /\ pc'[r] = "done"
                          /\ acct[r].id = i
                          /\ r \in late \/ given[r].name = users[i].name
      OBVIOUS
    <2>1. PICK r \in Requests : pc[r] = "delete" /\ pc'[r] = "done" /\ acct[r].id = i
      BY OnlyDeletionsTake
    <2>2. r \notin late => given[r].name = users[i].name
      BY <2>1 DEF ConfirmingInv, Confirmed
    <2> QED
      BY <2>1, <2>2
  <1> QED
    BY <1>1, <1>2, <1>3, PTL DEF Spec, DeletionsAreConfirmed, Confirming
=============================================================================
