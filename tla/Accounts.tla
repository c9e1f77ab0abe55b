------------------------------ MODULE Accounts ------------------------------
(***************************************************************************)
(* Accounts and sessions (src/app/organization/account_manager.cpp) on top *)
(* of the tree of organisations.                                           *)
(*                                                                         *)
(* Every method but login holds AccountManager::mutex_ throughout.  login  *)
(* reads the account under the lock and goes on with the copy, so it has   *)
(* two steps.  Its last loop writes last_login_at without the lock; that   *)
(* races with an insertion into the same vector, has no defined outcome    *)
(* then, and is left out.                                                  *)
(*                                                                         *)
(* A token is the account id and the second at which it expires: that is   *)
(* all "mock_jwt:<id>:<exp>" holds, so two logins of an account within a   *)
(* second share one.  A password stands for its hash.  The role only       *)
(* rejects (create_account) and is never changed by a route.               *)
(***************************************************************************)
EXTENDS Organisations

CONSTANTS
    Handlers,       \* connections that may be inside login
    Usernames,
    Passwords,
    SeedAccounts,   \* what seed_mock_data creates (scaled down)
    MaxAccountId,   \* ids the manager may hand out (bound)
    TokenLife,      \* 86400 seconds (scaled down)
    MaxTime,        \* seconds the clock may show (bound)
    MaxSessions,    \* tokens handed out (bound)
    None

ASSUME AccountAssumption ==
    /\ MaxAccountId \in Nat
    /\ TokenLife \in Nat
    /\ MaxTime \in Nat
    /\ MaxSessions \in Nat
    /\ SeedAccounts \in Seq([user : Usernames, org : Nat, pwd : Passwords])

VARIABLES
    accounts,       \* AccountManager::accounts_, by id
    nextAccount,    \* AccountManager::next_id_
    accountRow,     \* the accounts table, by account_id
    seedingAcc,     \* accounts that start-up still has to seed
    blacklist,      \* AccountManager::invalidated_tokens_
    login,          \* per handler: the account login has read, or None
    now,            \* the clock, in seconds
    sessions,       \* history: tokens handed out, to whom, in which process, and
                    \* whether the account was in the table
    disabled,       \* history: accounts disabled by an answered request
    unsaved         \* history: accounts whose last change was not stored

accountVars == <<accounts, nextAccount, accountRow, seedingAcc, blacklist, login>>
historyVars == <<sessions, disabled, unsaved>>
allVars == <<orgVars, accountVars, now, historyVars>>

Account == [user : Usernames, org : Nat, pwd : Passwords, active : BOOLEAN]
Token == [id : Nat, exp : Nat]

(* The server takes requests once everything is seeded. *)
Up == seeding = <<>> /\ seedingAcc = <<>>

-----------------------------------------------------------------------------
(* Queries *)

(* get_account_by_username *)
UserExists(u) == \E a \in DOMAIN accounts : accounts[a].user = u

(* verify_token: not logged out, not expired, and of an active account. *)
VerifyToken(t) ==
    /\ t \notin blacklist
    /\ now <= t.exp
    /\ t.id \in DOMAIN accounts
    /\ accounts[t.id].active

-----------------------------------------------------------------------------
(* Methods *)

(* insert_account: account_id and username are UNIQUE. *)
InsertAccount(a, rec, ok) ==
    accountRow' = IF /\ ok
                     /\ a \notin DOMAIN accountRow
                     /\ \A r \in DOMAIN accountRow : accountRow[r].user # rec.user
                  THEN Put(accountRow, a, rec)
                  ELSE accountRow

(* create_account; whether the row was stored is not looked at. *)
CreateAccount(u, org, pwd, ok) ==
    LET rec == [user |-> u, org |-> org, pwd |-> pwd, active |-> TRUE] IN
    /\ nextAccount <= MaxAccountId
    /\ ~UserExists(u)
    /\ OrgExists(org)
    /\ accounts' = Put(accounts, nextAccount, rec)
    /\ nextAccount' = nextAccount + 1
    /\ InsertAccount(nextAccount, rec, ok)
    /\ unsaved' = IF ok THEN unsaved ELSE unsaved \cup {nextAccount}

(* update_account_db writes neither the user name nor the password. *)
WriteActive(a, active, ok) ==
    accountRow' = IF ok /\ a \in DOMAIN accountRow
                  THEN [accountRow EXCEPT ![a].active = active]
                  ELSE accountRow

(* History: is_active was set, in the table too or not. *)
SetActive(a, active, ok) ==
    /\ disabled' = IF active THEN disabled \ {a} ELSE disabled \cup {a}
    /\ unsaved' = IF ok /\ a \in DOMAIN accountRow THEN unsaved \ {a}
                  ELSE unsaved \cup {a}

(* Mutant: the change kept in memory only, as change_password does. *)
MutUpdateMemory(a, active, ok) ==
    /\ a \in DOMAIN accounts
    /\ accounts' = [accounts EXCEPT ![a].active = active]
    /\ SetActive(a, active, ok)
    /\ UNCHANGED <<nextAccount, accountRow>>

(* update_account: of the fields modelled, a route sets is_active only. *)
UpdateAccount(a, active, ok) ==
    /\ a \in DOMAIN accounts
    /\ accounts' = [accounts EXCEPT ![a].active = active]
    /\ WriteActive(a, active, ok)
    /\ SetActive(a, active, ok)
    /\ UNCHANGED nextAccount

(* delete_account: a soft delete. *)
DeleteAccount(a, ok) ==
    /\ a \in DOMAIN accounts
    /\ accounts' = [accounts EXCEPT ![a].active = FALSE]
    /\ WriteActive(a, FALSE, ok)
    /\ SetActive(a, FALSE, ok)
    /\ UNCHANGED nextAccount

(* change_password: in memory only. *)
ChangePassword(a, old, new) ==
    /\ a \in DOMAIN accounts
    /\ accounts[a].pwd = old
    /\ accounts' = [accounts EXCEPT ![a].pwd = new]
    /\ UNCHANGED <<nextAccount, accountRow>>

-----------------------------------------------------------------------------
(* Sessions *)

(* login, first part: the account is found, active, and the password fits. *)
LoginCheck(h, u, pwd) ==
    /\ login[h] = None
    /\ \E a \in DOMAIN accounts :
          /\ accounts[a].user = u
          /\ accounts[a].active
          /\ accounts[a].pwd = pwd
          /\ login' = [login EXCEPT ![h] = a]
    /\ UNCHANGED <<blacklist, sessions>>

(* login, second part: generate_token for the account as it was read. *)
LoginIssue(h) ==
    /\ login[h] # None
    /\ Cardinality(sessions) < MaxSessions
    /\ login' = [login EXCEPT ![h] = None]
    /\ sessions' = sessions \cup
          {[token |-> [id |-> login[h], exp |-> now + TokenLife],
            user |-> accounts[login[h]].user, run |-> restarts,
            stored |-> login[h] \in DOMAIN accountRow]}
    /\ UNCHANGED blacklist

(* logout *)
Logout(t) ==
    /\ blacklist' = blacklist \cup {t}
    /\ UNCHANGED <<login, sessions>>

-----------------------------------------------------------------------------
(* The system *)

AccountInit ==
    /\ OrgInit
    /\ accounts = [a \in {} |-> 0]
    /\ accountRow = [a \in {} |-> 0]
    /\ nextAccount = 1
    /\ seedingAcc = SeedAccounts
    /\ blacklist = {}
    /\ login = [h \in Handlers |-> None]
    /\ now = 0
    /\ sessions = {} /\ disabled = {} /\ unsaved = {}

(* The organisations are seeded first, then the accounts. *)
SeedAccount ==
    /\ seeding = <<>> /\ seedingAcc # <<>>
    /\ seedingAcc' = Tail(seedingAcc)
    /\ LET s == Head(seedingAcc) IN
       \/ \E ok \in Outcomes : CreateAccount(s.user, s.org, s.pwd, ok)
       \/ /\ UserExists(s.user) \/ ~OrgExists(s.org)
          /\ UNCHANGED <<accounts, nextAccount, accountRow, unsaved>>
    /\ UNCHANGED <<orgVars, blacklist, login, now, sessions, disabled>>

(* The routes under /api/v1/orgs, while accounts exist. *)
OrgRequest ==
    /\ Up
    /\ Request
    /\ UNCHANGED <<accountVars, now, historyVars>>

(* POST, PUT and DELETE under /api/v1/accounts *)
AccountRequest ==
    /\ Up
    /\ \/ /\ \E u \in Usernames, org \in DOMAIN orgs, pwd \in Passwords,
                ok \in Outcomes : CreateAccount(u, org, pwd, ok)
          /\ UNCHANGED disabled
       \/ \E a \in DOMAIN accounts, active \in BOOLEAN, ok \in Outcomes :
             UpdateAccount(a, active, ok)
       \/ \E a \in DOMAIN accounts, ok \in Outcomes : DeleteAccount(a, ok)
       \/ /\ \E a \in DOMAIN accounts, old, new \in Passwords :
                ChangePassword(a, old, new)
          /\ UNCHANGED <<disabled, unsaved>>
    /\ UNCHANGED <<orgVars, seedingAcc, blacklist, login, now, sessions>>

(* POST /api/v1/auth/login and /logout; a client logs out with a token it was
   given. *)
AuthRequest ==
    /\ Up
    /\ \/ \E h \in Handlers, u \in Usernames, pwd \in Passwords : LoginCheck(h, u, pwd)
       \/ \E h \in Handlers : LoginIssue(h)
       \/ \E s \in sessions : Logout(s.token)
    /\ UNCHANGED <<orgVars, accounts, nextAccount, accountRow, seedingAcc, now, disabled,
                   unsaved>>

Tick ==
    /\ now < MaxTime
    /\ now' = now + 1
    /\ UNCHANGED <<orgVars, accountVars, historyVars>>

(* Mutant: the next id counted from one too low. *)
MutNextAccountOf(rows) == IF DOMAIN rows = {} THEN 1 ELSE Max(DOMAIN rows)

(* The id after the highest one loaded. *)
NextAccountOf(rows) == IF DOMAIN rows = {} THEN 1 ELSE Max(DOMAIN rows) + 1

(* A crash, and both load_from_database.  The blacklist was in memory only, and
   so was every change that was not stored. *)
RestartAll ==
    /\ Restart
    /\ accounts' = accountRow
    /\ nextAccount' = NextAccountOf(accountRow)
    /\ seedingAcc' = IF DOMAIN accountRow = {} THEN SeedAccounts ELSE <<>>
    /\ blacklist' = {}
    /\ login' = [h \in Handlers |-> None]
    /\ disabled' = disabled \ unsaved
    /\ unsaved' = {}
    /\ UNCHANGED <<accountRow, now, sessions>>

SeedOrg ==
    /\ Seed
    /\ UNCHANGED <<accountVars, now, historyVars>>

AccountNext ==
    \/ SeedOrg \/ SeedAccount
    \/ OrgRequest \/ AccountRequest \/ AuthRequest
    \/ Tick \/ RestartAll

AccountSpec == AccountInit /\ [][AccountNext]_allVars

-----------------------------------------------------------------------------
(* Properties *)

(* Type invariant. *)
AccountTypeOK ==
    /\ OrgTypeOK
    /\ nextAccount \in Nat \ {0}
    /\ \A f \in {accounts, accountRow} :
          /\ DOMAIN f \subseteq 1..(nextAccount - 1)
          /\ f \in [DOMAIN f -> Account]
    /\ seedingAcc \in Seq([user : Usernames, org : Nat, pwd : Passwords])
    /\ login \in [Handlers -> DOMAIN accounts \cup {None}]
    /\ now \in 0..MaxTime
    /\ sessions \subseteq [token : Token, user : Usernames, run : 0..restarts,
                           stored : BOOLEAN]
    /\ blacklist \subseteq {s.token : s \in sessions}
    /\ disabled \subseteq Nat /\ unsaved \subseteq Nat

(* A token names its account by id only.  create_account does not look at the
   result of its insert, so an account may be gone after a crash, and its id is
   handed out again.  Only then does verify_token take a token for somebody
   else: the account it was issued for was never stored, and it is of an
   earlier process. *)
TokenKeepsUser ==
    \A s \in sessions :
       VerifyToken(s.token) /\ accounts[s.token.id].user # s.user =>
          ~s.stored /\ s.run < restarts

(* Once disabling an account was answered, verify_token accepts no token of it
   until it is enabled again: not one handed out before, not one whose login
   was under way, and not after a restart if the change was stored, whatever
   other writes failed. *)
DisabledStaysOut ==
    \A s \in sessions : s.token.id \in disabled => ~VerifyToken(s.token)

(* A restart keeps every account whose last change was stored, its organisation
   and whether it is active, whatever happened to the writes before that one. *)
RestartKeepsAccounts ==
    [][restarts' # restarts =>
         \A a \in DOMAIN accounts \ unsaved :
            /\ a \in DOMAIN accounts'
            /\ accounts'[a].user = accounts[a].user
            /\ accounts'[a].org = accounts[a].org
            /\ accounts'[a].active = accounts[a].active]_allVars

=============================================================================
