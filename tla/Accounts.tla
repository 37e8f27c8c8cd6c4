------------------------------ MODULE Accounts ------------------------------
(***************************************************************************)
(* The account store (src/src/auth.ts): accounts.json, read and rewritten  *)
(* under one file lock by every operation, so each operation is one action.*)
(* An account is found by its user name, by the e-mail address bound to it *)
(* or by the subject ("sub") of the identity provider that last logged in  *)
(* with that address.                                                      *)
(*                                                                         *)
(* A request for the console (src/src/gateway-http.ts) lists the accounts, *)
(* then resolves the identity that the edge has authenticated, lists them  *)
(* again if that made an account, and goes on with the account's row of    *)
(* the list it holds.  Requests run side by side, and with the operations  *)
(* of the command line.                                                    *)
(***************************************************************************)
EXTENDS Naturals, FiniteSets

CONSTANTS Username,     \* names an account can have
          Email, Sub,   \* addresses and subjects of the identity provider
          JitName(_),   \* the name an account created at login is given
          Browser,      \* concurrent requests for the console
          Unset         \* no account, no address, no subject

ASSUME AccountAssumption ==
    /\ \A e \in Email : JitName(e) \in Username
    /\ Unset \notin Username \cup Email \cup Sub

VARIABLES accounts,     \* what accounts.json holds
          request       \* per browser: Unset, or its request and how far it is
accountVars == <<accounts, request>>

Role == {"user", "admin"}
Account == [email : Email \cup {Unset}, sub : Sub \cup {Unset}, role : Role]

Known(u) == accounts[u] # Unset
Members == {u \in Username : Known(u)}
HasEmail(u, e) == Known(u) /\ accounts[u].email = e
HasSub(u, s) == Known(u) /\ accounts[u].sub = s

(* assertEmailAvailable: no account but the named one holds the address.   *)
EmailAvailable(e, except) == \A u \in Username \ {except} : ~HasEmail(u, e)

Admins == {u \in Members : accounts[u].role = "admin"}

AccountsInit == /\ accounts = [u \in Username |-> Unset]
                /\ request = [b \in Browser |-> Unset]

-----------------------------------------------------------------------------
AddAccount(u, e) ==
    /\ ~Known(u)
    /\ e # Unset => EmailAvailable(e, Unset)
    /\ accounts' = [accounts EXCEPT ![u] = [email |-> e, sub |-> Unset, role |-> "user"]]

(* Mutant: the address may be another account's.                           *)
BindTakenEmail(u, e) ==
    /\ Known(u)
    /\ accounts' = [accounts EXCEPT ![u].email = e]
(* The subject that logged in with the old address stays attached.         *)
BindCloudflareEmail(u, e) ==
    /\ Known(u)
    /\ EmailAvailable(e, u)
    /\ accounts' = [accounts EXCEPT ![u].email = e]

DeleteAccount(u) ==
    /\ Known(u)
    /\ accounts' = [accounts EXCEPT ![u] = Unset]

(* The last administrator is not demoted (deleting it is not refused).     *)
SetAccountRole(u, role) ==
    /\ Known(u)
    /\ role = "user" /\ u \in Admins => Cardinality(Admins) > 1
    /\ accounts' = [accounts EXCEPT ![u].role = role]

-----------------------------------------------------------------------------
(* A login.  A known subject may come with a new address, which it takes   *)
(* if no other account holds it.                                           *)
ResolveBySub(u, s, e) ==
    /\ HasSub(u, s)
    /\ EmailAvailable(e, u)
    /\ accounts' = [accounts EXCEPT ![u].email = e]

(* An unknown subject takes over the account its address is bound to.      *)
ResolveByEmail(u, s, e) ==
    /\ \A v \in Username : ~HasSub(v, s)
    /\ HasEmail(u, e)
    /\ accounts' = [accounts EXCEPT ![u].sub = s]

(* A newcomer gets an account named after the address, if the name is free.*)
ResolveJit(s, e) ==
    /\ \A u \in Username : ~HasSub(u, s) /\ ~HasEmail(u, e)
    /\ ~Known(JitName(e))
    /\ accounts' = [accounts EXCEPT ![JitName(e)] =
                        [email |-> e, sub |-> s, role |-> "user"]]

ResolveCloudflareAccount(s, e) ==
    \/ \E u \in Username : ResolveBySub(u, s, e)
    \/ \E u \in Username : ResolveByEmail(u, s, e)
    \/ ResolveJit(s, e)

-----------------------------------------------------------------------------
OpenConsole(b, s, e) ==
    /\ request[b] = Unset
    /\ request' = [request EXCEPT ![b] =
           [at |-> "listed", sub |-> s, email |-> e, list |-> Members, account |-> Unset]]
    /\ UNCHANGED accounts

Found(b, u, at) == request' = [request EXCEPT ![b].at = at, ![b].account = u]

(* The identity is resolved to an account that is there, or to a new one.  *)
ResolveRequest(b) ==
    LET s == request[b].sub
        e == request[b].email
    IN  /\ request[b] # Unset /\ request[b].at = "listed"
        /\ \/ \E u \in Username : /\ ResolveBySub(u, s, e) \/ ResolveByEmail(u, s, e)
                                  /\ Found(b, u, "resolved")
           \/ ResolveJit(s, e) /\ Found(b, JitName(e), "created")

RelistRequest(b) ==
    /\ request[b] # Unset /\ request[b].at = "created"
    /\ request' = [request EXCEPT ![b].at = "resolved", ![b].list = Members]
    /\ UNCHANGED accounts

(* The page, or an error: the request is answered.                         *)
AnswerRequest(b) ==
    /\ request[b] # Unset
    /\ request' = [request EXCEPT ![b] = Unset]
    /\ UNCHANGED accounts

Administer ==
    \/ \E u \in Username, e \in Email \cup {Unset} : AddAccount(u, e)
    \/ \E u \in Username, e \in Email : BindCloudflareEmail(u, e)
    \/ \E u \in Username : DeleteAccount(u)
    \/ \E u \in Username, role \in Role : SetAccountRole(u, role)

(* An agent's call resolves its identity and uses the account it gets.     *)
AccountsNext ==
    \/ Administer /\ UNCHANGED request
    \/ \E s \in Sub, e \in Email : ResolveCloudflareAccount(s, e) /\ UNCHANGED request
    \/ \E b \in Browser : \/ \E s \in Sub, e \in Email : OpenConsole(b, s, e)
                          \/ ResolveRequest(b) \/ RelistRequest(b) \/ AnswerRequest(b)

AccountsSpec == AccountsInit /\ [][AccountsNext]_accountVars

-----------------------------------------------------------------------------
AccountsTypeOK ==
    /\ accounts \in [Username -> Account \cup {Unset}]
    /\ request \in [Browser -> {Unset} \cup
          [at : {"listed", "created", "resolved"}, sub : Sub, email : Email,
           list : SUBSET Username, account : Username \cup {Unset}]]

(* Whatever the order in which accounts are added, bound, logged into,     *)
(* renamed by the identity provider and deleted, an address and a subject  *)
(* each lead to at most one account: resolveCloudflareAccount and          *)
(* setAccountRole take the first match they find.                          *)
OneAccountPerIdentity ==
    \A u, v \in Members :
        (\/ accounts[u].email # Unset /\ accounts[u].email = accounts[v].email
         \/ accounts[u].sub # Unset /\ accounts[u].sub = accounts[v].sub) => u = v

(* "accounts.find(...)!": the account that an identity was resolved to is  *)
(* in the list of accounts that the request holds.                         *)
ResolvedIsListed ==
    \A b \in Browser : request[b] # Unset /\ request[b].at = "resolved" =>
                        request[b].account \in request[b].list
=============================================================================
