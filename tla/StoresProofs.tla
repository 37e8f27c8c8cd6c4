---------------------------- MODULE StoresProofs ----------------------------
(***************************************************************************)
(* Proofs about four stores: BranchStore, Accounts and SkillTelemetry,     *)
(* which rewrite a whole file under its lock, and CaptureProjects, the     *)
(* rows of the capture index.                                              *)
(***************************************************************************)
EXTENDS BranchStore, Accounts, SkillTelemetry, CaptureProjects, SequenceTheorems,
        FiniteSetTheorems, WellFoundedInduction, TLAPS

(***************************************************************************)
(* Proofs about BranchStore, for any labels, candidates and number of      *)
(* branches.  IdMeansBranch is not inductive: that ids are distinct does   *)
(* not keep a later branch from being given an id that an earlier one has  *)
(* for a name.  What does, for an id that is its own slug, is that a       *)
(* name's slug is taken, by that branch or one before it, as soon as a     *)
(* branch has the name.                                                    *)
(***************************************************************************)

Rows == DOMAIN branches
IdsDistinct == \A i, j \in Rows : branches[i].branchId = branches[j].branchId => i = j
\* A name that is some branch's id, and that id's own slug, came no earlier than it.
NamesFollowIds == \A i, j \in Rows : /\ branches[i].name = branches[j].branchId
                                     /\ OwnSlug(branches[j].branchId)
                                     => j <= i
SlugTaken == \A i \in Rows : /\ Candidates[branches[i].name] # <<>>
                             /\ Candidates[branches[i].name][1] \in Occupied

BranchInv == BranchTypeOK /\ IdsDistinct /\ NamesFollowIds /\ SlugTaken

\* The first of some rows is one of them, and none is before it.
LEMMA FirstBranchIsFirst ==
  ASSUME NEW S \in SUBSET Nat, S # {}
  PROVE  FirstBranch(S) \in S /\ \A j \in S : FirstBranch(S) <= j
<1>. DEFINE R == OpToRel(<, Nat)
<1>1. IsWellFoundedOn(R, Nat)
  BY NatLessThanWellFounded
<1>2. \A j, i \in Nat : j < i => <<j, i>> \in R
  BY DEF OpToRel
<1>. HIDE DEF R
<1>3. PICK i \in S : \A j \in S : <<j, i>> \notin R
  BY <1>1, WFMin
<1>4. ASSUME NEW j \in S PROVE i <= j
  <2>1. i \in Nat /\ j \in Nat
    OBVIOUS
  <2>2. ~(j < i)
    BY <1>2, <1>3, <2>1
  <2>. QED BY <2>1, <2>2
<1>. QED BY <1>4 DEF FirstBranch

LEMMA RowsAreNat == BranchTypeOK => Rows = 1..Len(branches) /\ Len(branches) \in Nat
BY DEF BranchTypeOK, Rows

\* What the references of a branch's id are.
LEMMA InvGivesIds == BranchInv => IdMeansBranch
<1>. SUFFICES ASSUME BranchInv, NEW i \in Rows
              PROVE  Means(i) /\ (OwnSlug(branches[i].branchId) => Acts(i))
  BY DEF IdMeansBranch, Rows
<1>. DEFINE id == branches[i].branchId
<1>1. Rows \in SUBSET Nat
  BY RowsAreNat DEF BranchInv
<1>2. ASSUME OwnSlug(id) PROVE FirstBranch(Referenced(id)) = i
  <2>1. i \in Referenced(id) /\ Referenced(id) \in SUBSET Nat
    BY <1>1 DEF Referenced, Rows
  <2>2. \A j \in Referenced(id) : i <= j
    BY <1>1, <1>2 DEF Referenced, BranchInv, IdsDistinct, NamesFollowIds, Rows
  <2>. HIDE DEF id
  <2>3. FirstBranch(Referenced(id)) \in Referenced(id)
          /\ FirstBranch(Referenced(id)) <= i
    BY <2>1, FirstBranchIsFirst
  <2>. QED BY <1>1, <2>1, <2>2, <2>3
<1>3. ASSUME NEW statuses, branches[i].status \in statuses
      PROVE  ResolveBranch(id, statuses) = i
  <2>. DEFINE byId == {k \in {j \in DOMAIN branches : branches[j].status \in statuses} :
                         branches[k].branchId = id}
  <2>1. byId = {i}
    BY <1>3 DEF BranchInv, IdsDistinct, Rows
  <2>2. FirstBranch({i}) = i
    BY <1>1, FirstBranchIsFirst
  <2>. QED BY <2>1, <2>2 DEF ResolveBranch
<1>4. branches[i].status \in {"active", "closed"}
  <2>1. branches[i] \in Branch
    BY RowsAreNat, ElementOfSeq DEF BranchInv, BranchTypeOK, Rows
  <2>. QED BY <2>1 DEF Branch
<1>. QED BY <1>2, <1>3, <1>4 DEF Means, Acts

\* A change that leaves the rows their ids and names keeps the invariant.
LEMMA SameIdsAndNames ==
  ASSUME BranchInv, branches' \in Seq(Branch), Rows' = Rows,
         \A i \in Rows : /\ branches'[i].branchId = branches[i].branchId
                         /\ branches'[i].name = branches[i].name
  PROVE  BranchInv'
<1>1. Occupied' = Occupied
  BY DEF Occupied, Rows
<1>. QED BY <1>1 DEF BranchInv, BranchTypeOK, IdsDistinct, NamesFollowIds, SlugTaken

\* A new branch: its id is the first free one of its name.
LEMMA BranchAdded ==
  ASSUME BranchInv, NEW n \in Label, NEW g \in Goal, FreeCandidates(n) # {},
         branches' = Append(branches, [branchId |-> UniqueBranchId(n), name |-> n,
                                       goal |-> g, status |-> "active"])
  PROVE  BranchInv'
<1>. DEFINE k == FirstBranch(FreeCandidates(n))
            m == Len(branches) + 1
            b == [branchId |-> UniqueBranchId(n), name |-> n, goal |-> g, status |-> "active"]
<1>1. Candidates[n] \in Seq(Label)
  BY CandidatesAssumption
<1>2. /\ k \in DOMAIN Candidates[n] /\ Candidates[n][k] \notin Occupied
      /\ \A j \in FreeCandidates(n) : k <= j
  <2>1. FreeCandidates(n) \in SUBSET Nat
    BY <1>1 DEF FreeCandidates
  <2>2. k \in FreeCandidates(n) /\ \A j \in FreeCandidates(n) : k <= j
    BY <2>1, FirstBranchIsFirst
  <2>. QED BY <2>2 DEF FreeCandidates
<1>3. b.branchId = Candidates[n][k] /\ b \in Branch
  BY <1>1, <1>2 DEF UniqueBranchId, Branch
<1>. HIDE DEF b, k
<1>4. /\ branches' \in Seq(Branch) /\ Rows' = Rows \cup {m} /\ m \notin Rows
      /\ Rows = 1..Len(branches) /\ m \in Nat
      /\ \A i \in Rows : branches'[i] = branches[i]
      /\ branches'[m] = b
  BY <1>3 DEF b, Rows, BranchInv, BranchTypeOK
<1>5. Occupied' = Occupied \cup {b.branchId}
  BY <1>4 DEF Occupied, Rows
<1>6. IdsDistinct'
  BY <1>2, <1>3, <1>4 DEF IdsDistinct, BranchInv, Occupied, Rows
<1>7. OwnSlug(b.branchId) => \A i \in Rows : branches[i].name # b.branchId
  BY <1>2, <1>3 DEF OwnSlug, BranchInv, SlugTaken
<1>8. NamesFollowIds'
  BY <1>4, <1>7 DEF NamesFollowIds, BranchInv
<1>9. SlugTaken'
  <2>1. Candidates[n] # <<>> /\ 1 \in DOMAIN Candidates[n]
    BY <1>1, <1>2
  <2>2. Candidates[n][1] \in Occupied \cup {b.branchId}
    <3>1. CASE 1 \in FreeCandidates(n)
      <4>1. k = 1
        BY <1>1, <1>2, <3>1
      <4>. QED BY <1>3, <4>1
    <3>2. CASE 1 \notin FreeCandidates(n)
      BY <2>1, <3>2 DEF FreeCandidates
    <3>. QED BY <3>1, <3>2
  <2>3. b.name = n
    BY DEF b
  <2>. QED BY <1>4, <1>5, <2>1, <2>2, <2>3 DEF SlugTaken, BranchInv
<1>. QED BY <1>4, <1>6, <1>8, <1>9 DEF BranchInv, BranchTypeOK

\* No operation on a branch gives an id out a second time, or for another's name.
LEMMA BranchStep == BranchInv /\ [BranchNext]_branches => BranchInv'
<1>. SUFFICES ASSUME BranchInv, [BranchNext]_branches
              PROVE  BranchInv'
  OBVIOUS
<1>1. ASSUME NEW l \in Label, NEW g \in Goal, CreateBranch(l, g)
      PROVE  BranchInv'
  <2>1. CASE Same(l) # {}
    <3>. DEFINE i == FirstBranch(Same(l))
    <3>1. Same(l) \in SUBSET Nat /\ Same(l) \subseteq Rows
      BY RowsAreNat DEF Same, Rows, BranchInv
    <3>2. i \in Rows
      BY <2>1, <3>1, FirstBranchIsFirst
    <3>3. branches' = [branches EXCEPT ![i].goal = g]
      BY <1>1, <2>1 DEF CreateBranch
    <3>. HIDE DEF i
    <3>4. branches' = [branches EXCEPT ![i] = [branches[i] EXCEPT !.goal = g]]
      BY <3>3
    <3>5. branches[i] \in Branch
      BY <3>2 DEF BranchInv, BranchTypeOK, Rows
    <3>6. [branches[i] EXCEPT !.goal = g] \in Branch
      BY <3>5 DEF Branch
    <3>7. branches' \in Seq(Branch) /\ Rows' = Rows
      BY <3>2, <3>4, <3>6 DEF BranchInv, BranchTypeOK, Rows
    <3>8. \A j \in Rows : /\ branches'[j].branchId = branches[j].branchId
                          /\ branches'[j].name = branches[j].name
      BY <3>2, <3>4, <3>5 DEF Rows, Branch
    <3>. QED BY <3>7, <3>8, SameIdsAndNames
  <2>2. CASE Same(l) = {}
    BY <1>1, <2>2, BranchAdded DEF CreateBranch
  <2>. QED BY <2>1, <2>2
<1>2. ASSUME NEW l \in Label, NEW status \in {"active", "closed"}, SetStatus(l, status)
      PROVE  BranchInv'
  <2>. DEFINE i == FirstBranch(Referenced(l))
  <2>1. Referenced(l) \in SUBSET Nat /\ Referenced(l) \subseteq Rows
    BY RowsAreNat DEF Referenced, Rows, BranchInv
  <2>2. i \in Rows
    BY <1>2, <2>1, FirstBranchIsFirst DEF SetStatus
  <2>3. branches' = [branches EXCEPT ![i].status = status]
    BY <1>2 DEF SetStatus
  <2>. HIDE DEF i
  <2>4. branches' = [branches EXCEPT ![i] = [branches[i] EXCEPT !.status = status]]
    BY <2>3
  <2>5. branches[i] \in Branch
    BY <2>2 DEF BranchInv, BranchTypeOK, Rows
  <2>6. [branches[i] EXCEPT !.status = status] \in Branch
    BY <2>5 DEF Branch
  <2>7. branches' \in Seq(Branch) /\ Rows' = Rows
    BY <2>2, <2>4, <2>6 DEF BranchInv, BranchTypeOK, Rows
  <2>8. \A j \in Rows : /\ branches'[j].branchId = branches[j].branchId
                        /\ branches'[j].name = branches[j].name
    BY <2>2, <2>4, <2>5 DEF Rows, Branch
  <2>. QED BY <2>7, <2>8, SameIdsAndNames
<1>3. CASE UNCHANGED branches
  BY <1>3 DEF BranchInv, BranchTypeOK, IdsDistinct, NamesFollowIds, SlugTaken,
              Rows, Occupied
<1>. QED BY <1>1, <1>2, <1>3 DEF BranchNext, CloseBranch, ReopenBranch

\* The id a branch was created with means that branch for good (branch-store.ts),
\* however many branches are created, closed and reopened under whatever names: to
\* retrieval for any id, to closing and reopening for an id that is its own slug.
THEOREM BranchIdsHold == BranchSpec => []IdMeansBranch
<1>1. BranchInit => BranchInv
  BY DEF BranchInit, BranchInv, BranchTypeOK, IdsDistinct, NamesFollowIds, SlugTaken,
         Rows, Occupied
<1>. QED BY <1>1, BranchStep, InvGivesIds, PTL DEF BranchSpec

-----------------------------------------------------------------------------

(***************************************************************************)
(* Proofs about Accounts, for any sets of names, addresses, subjects and   *)
(* browsers and any way of naming the accounts that a login creates.  The  *)
(* type invariant and OneAccountPerIdentity are inductive together.        *)
(***************************************************************************)

AccountsInv == AccountsTypeOK /\ OneAccountPerIdentity

\* What one account differs in from another: its row may change as long as it
\* keeps, or takes, an address and a subject that no other account has.
Apart(row, u) ==
    \A v \in Members \ {u} : /\ row.email # Unset => accounts[v].email # row.email
                             /\ row.sub # Unset => accounts[v].sub # row.sub

\* Changing one row for one that is apart from the others keeps the invariant on
\* the accounts.
LEMMA RowReplaced ==
    ASSUME AccountsInv, NEW u \in Username, NEW row \in Account, Apart(row, u),
           accounts' = [accounts EXCEPT ![u] = row]
    PROVE  accounts' \in [Username -> Account \cup {Unset}] /\ OneAccountPerIdentity'
<1>1. accounts \in [Username -> Account \cup {Unset}]
  BY DEF AccountsInv, AccountsTypeOK
<1>2. accounts' \in [Username -> Account \cup {Unset}]
  BY <1>1
<1>3. OneAccountPerIdentity'
  <2>. SUFFICES ASSUME NEW v \in Members', NEW w \in Members',
                       \/ accounts'[v].email # Unset /\ accounts'[v].email = accounts'[w].email
                       \/ accounts'[v].sub # Unset /\ accounts'[v].sub = accounts'[w].sub
                PROVE  v = w
    BY DEF OneAccountPerIdentity
  <2>1. v \in Username /\ w \in Username
    BY DEF Members
  <2>2. \A x \in Username : accounts'[x] = IF x = u THEN row ELSE accounts[x]
    BY <1>1
  <2>3. \A x \in {v, w} : x # u => x \in Members
    BY <2>1, <2>2 DEF Members, Known
  <2>4. CASE v = u /\ w # u
    BY <2>1, <2>2, <2>3, <2>4 DEF Apart
  <2>5. CASE v # u /\ w = u
    BY <2>1, <2>2, <2>3, <2>5 DEF Apart
  <2>6. CASE v # u /\ w # u
    BY <2>1, <2>2, <2>3, <2>6 DEF AccountsInv, OneAccountPerIdentity
  <2>. QED BY <2>4, <2>5, <2>6
<1>. QED BY <1>2, <1>3

\* An account that is known has a row of an account.
LEMMA RowOfKnown ==
    ASSUME AccountsTypeOK, NEW u \in Username, Known(u)
    PROVE  accounts[u] \in Account
BY DEF AccountsTypeOK, Known

\* The row of one account is apart from the rest, and stays so under a new role,
\* a new address that is available, a new subject that nobody has.
LEMMA RowApart ==
    ASSUME AccountsInv, NEW u \in Username, Known(u)
    PROVE  Apart(accounts[u], u)
BY DEF AccountsInv, OneAccountPerIdentity, Apart, Members

LEMMA AddressTaken ==
    ASSUME AccountsInv, NEW u \in Username, NEW e \in Email, Known(u), EmailAvailable(e, u),
           accounts' = [accounts EXCEPT ![u].email = e]
    PROVE  accounts' \in [Username -> Account \cup {Unset}] /\ OneAccountPerIdentity'
<1>. DEFINE row == [accounts[u] EXCEPT !.email = e]
<1>1. accounts[u] \in Account
  BY RowOfKnown DEF AccountsInv
<1>2. row \in Account /\ row.email = e /\ row.sub = accounts[u].sub
  BY <1>1 DEF Account
<1>3. Apart(row, u)
  BY <1>2, RowApart DEF Apart, EmailAvailable, HasEmail, Members
<1>4. accounts' = [accounts EXCEPT ![u] = row]
  OBVIOUS
<1>. HIDE DEF row
<1>. QED BY <1>2, <1>3, <1>4, RowReplaced

LEMMA SubjectTaken ==
    ASSUME AccountsInv, NEW u \in Username, NEW s \in Sub, Known(u),
           \A v \in Username : ~HasSub(v, s), accounts' = [accounts EXCEPT ![u].sub = s]
    PROVE  accounts' \in [Username -> Account \cup {Unset}] /\ OneAccountPerIdentity'
<1>. DEFINE row == [accounts[u] EXCEPT !.sub = s]
<1>1. accounts[u] \in Account
  BY RowOfKnown DEF AccountsInv
<1>2. row \in Account /\ row.sub = s /\ row.email = accounts[u].email
  BY <1>1 DEF Account
<1>3. Apart(row, u)
  BY <1>2, RowApart DEF Apart, HasSub, Members
<1>4. accounts' = [accounts EXCEPT ![u] = row]
  OBVIOUS
<1>. HIDE DEF row
<1>. QED BY <1>2, <1>3, <1>4, RowReplaced

\* A new account with an address and a subject of its own, either of them optional.
LEMMA AccountMade ==
    ASSUME AccountsInv, NEW u \in Username, NEW e \in Email \cup {Unset},
           NEW s \in Sub \cup {Unset},
           e # Unset => \A v \in Username : ~HasEmail(v, e),
           s # Unset => \A v \in Username : ~HasSub(v, s),
           accounts' = [accounts EXCEPT ![u] = [email |-> e, sub |-> s, role |-> "user"]]
    PROVE  accounts' \in [Username -> Account \cup {Unset}] /\ OneAccountPerIdentity'
<1>. DEFINE row == [email |-> e, sub |-> s, role |-> "user"]
<1>1. row \in Account
  BY DEF Account, Role
<1>2. Apart(row, u)
  BY DEF Apart, HasEmail, HasSub, Members
<1>. QED BY <1>1, <1>2, RowReplaced

\* A login keeps it: by a known subject, by a bound address, or as a newcomer.
LEMMA LoginKeeps ==
    ASSUME AccountsInv, NEW s \in Sub, NEW e \in Email,
           \/ \E u \in Username : ResolveBySub(u, s, e) \/ ResolveByEmail(u, s, e)
           \/ ResolveJit(s, e)
    PROVE  accounts' \in [Username -> Account \cup {Unset}] /\ OneAccountPerIdentity'
<1>1. CASE \E u \in Username : ResolveBySub(u, s, e)
  BY <1>1, AddressTaken DEF ResolveBySub, HasSub
<1>2. CASE \E u \in Username : ResolveByEmail(u, s, e)
  BY <1>2, SubjectTaken DEF ResolveByEmail, HasEmail
<1>3. CASE ResolveJit(s, e)
  BY <1>3, AccountMade, AccountAssumption DEF ResolveJit
<1>. QED BY <1>1, <1>2, <1>3

\* So do the operations of an administrator.
LEMMA AdministerKeeps ==
    ASSUME AccountsInv, Administer
    PROVE  accounts' \in [Username -> Account \cup {Unset}] /\ OneAccountPerIdentity'
<1>1. CASE \E u \in Username, e \in Email \cup {Unset} : AddAccount(u, e)
  <2>. PICK u \in Username, e \in Email \cup {Unset} : AddAccount(u, e)
    BY <1>1
  <2>1. e # Unset => \A v \in Username : ~HasEmail(v, e)
    BY AccountAssumption DEF AddAccount, EmailAvailable
  <2>. QED BY <2>1, AccountMade DEF AddAccount
<1>2. CASE \E u \in Username, e \in Email : BindCloudflareEmail(u, e)
  BY <1>2, AddressTaken DEF BindCloudflareEmail
<1>3. CASE \E u \in Username : DeleteAccount(u)
  <2>. PICK u \in Username : DeleteAccount(u)
    BY <1>3
  <2>1. accounts' \in [Username -> Account \cup {Unset}]
    BY DEF DeleteAccount, AccountsInv, AccountsTypeOK
  <2>2. \A v \in Members' : v \in Members /\ accounts'[v] = accounts[v]
    BY DEF DeleteAccount, AccountsInv, AccountsTypeOK, Members, Known
  <2>. QED BY <2>1, <2>2 DEF AccountsInv, OneAccountPerIdentity
<1>4. CASE \E u \in Username, role \in Role : SetAccountRole(u, role)
  <2>. PICK u \in Username, role \in Role : SetAccountRole(u, role)
    BY <1>4
  <2>. DEFINE row == [accounts[u] EXCEPT !.role = role]
  <2>1. accounts[u] \in Account
    BY RowOfKnown DEF SetAccountRole, AccountsInv
  <2>2. row \in Account /\ row.email = accounts[u].email /\ row.sub = accounts[u].sub
    BY <2>1 DEF Account
  <2>3. Apart(row, u)
    BY <2>2, RowApart DEF Apart, SetAccountRole
  <2>4. accounts' = [accounts EXCEPT ![u] = row]
    BY DEF SetAccountRole
  <2>. HIDE DEF row
  <2>. QED BY <2>2, <2>3, <2>4, RowReplaced
<1>. QED BY <1>1, <1>2, <1>3, <1>4 DEF Administer

\* The requests of the browsers keep their type.
Asking == [at : {"listed", "created", "resolved"}, sub : Sub, email : Email,
           list : SUBSET Username, account : Username \cup {Unset}]
Asked == [Browser -> {Unset} \cup Asking]

LEMMA RequestResolved ==
    ASSUME request \in Asked, NEW b \in Browser, ResolveRequest(b)
    PROVE  /\ request' \in Asked
           /\ request[b].sub \in Sub /\ request[b].email \in Email
           /\ \/ \E u \in Username : \/ ResolveBySub(u, request[b].sub, request[b].email)
                                     \/ ResolveByEmail(u, request[b].sub, request[b].email)
              \/ ResolveJit(request[b].sub, request[b].email)
<1>1. request[b] \in Asking
  BY DEF Asked, ResolveRequest
<1>2. request[b].sub \in Sub /\ request[b].email \in Email
  BY <1>1 DEF Asking
<1>3. \A u \in Username, at \in {"resolved", "created"} : Found(b, u, at) => request' \in Asked
  <2>. SUFFICES ASSUME NEW u \in Username, NEW at \in {"resolved", "created"}, Found(b, u, at)
                PROVE  request' \in Asked
    OBVIOUS
  <2>1. [request[b] EXCEPT !.at = at, !.account = u] \in Asking
    BY <1>1 DEF Asking
  <2>2. request' = [request EXCEPT ![b] = [request[b] EXCEPT !.at = at, !.account = u]]
    BY DEF Found, Asked
  <2>. QED BY <2>1, <2>2 DEF Asked
<1>. QED BY <1>2, <1>3, AccountAssumption DEF ResolveRequest

\* No operation on the accounts gives an address or a subject to a second one.
LEMMA AccountsStep == AccountsInv /\ [AccountsNext]_accountVars => AccountsInv'
<1>. SUFFICES ASSUME AccountsInv, [AccountsNext]_accountVars
              PROVE  AccountsInv'
  OBVIOUS
<1>1. request \in Asked
  BY DEF AccountsInv, AccountsTypeOK, Asked, Asking
<1>. SUFFICES /\ accounts' \in [Username -> Account \cup {Unset}] /\ OneAccountPerIdentity'
              /\ request' \in Asked
  BY DEF AccountsInv, AccountsTypeOK, Asked, Asking
<1>2. CASE accounts' = accounts /\ request' \in Asked
  BY <1>2 DEF AccountsInv, AccountsTypeOK, OneAccountPerIdentity, Members, Known
<1>3. CASE Administer /\ UNCHANGED request
  BY <1>1, <1>3, AdministerKeeps
<1>4. CASE \E s \in Sub, e \in Email : ResolveCloudflareAccount(s, e) /\ UNCHANGED request
  BY <1>1, <1>4, LoginKeeps DEF ResolveCloudflareAccount
<1>5. ASSUME NEW b \in Browser, NEW s \in Sub, NEW e \in Email, OpenConsole(b, s, e)
      PROVE  accounts' = accounts /\ request' \in Asked
  <2>1. [at |-> "listed", sub |-> s, email |-> e, list |-> Members, account |-> Unset] \in Asking
    BY DEF Asking, Members
  <2>. QED BY <1>1, <1>5, <2>1 DEF OpenConsole, Asked
<1>6. ASSUME NEW b \in Browser, ResolveRequest(b)
      PROVE  /\ accounts' \in [Username -> Account \cup {Unset}] /\ OneAccountPerIdentity'
             /\ request' \in Asked
  BY <1>1, <1>6, RequestResolved, LoginKeeps
<1>7. ASSUME NEW b \in Browser, RelistRequest(b)
      PROVE  accounts' = accounts /\ request' \in Asked
  <2>1. request[b] \in Asking
    BY <1>1, <1>7 DEF Asked, RelistRequest
  <2>2. [request[b] EXCEPT !.at = "resolved", !.list = Members] \in Asking
    BY <2>1 DEF Asking, Members
  <2>3. request' = [request EXCEPT ![b] = [request[b] EXCEPT !.at = "resolved", !.list = Members]]
    BY <1>1, <1>7 DEF RelistRequest, Asked
  <2>. QED BY <1>1, <1>7, <2>2, <2>3 DEF Asked, RelistRequest
<1>8. ASSUME NEW b \in Browser, AnswerRequest(b)
      PROVE  accounts' = accounts /\ request' \in Asked
  BY <1>1, <1>8 DEF AnswerRequest, Asked
<1>9. CASE UNCHANGED accountVars
  BY <1>1, <1>2, <1>9 DEF accountVars
<1>. QED BY <1>2, <1>3, <1>4, <1>5, <1>6, <1>7, <1>8, <1>9 DEF AccountsNext

\* An address and a subject lead to one account at most, whatever is added, bound,
\* deleted and logged into, at any time (auth.ts).
THEOREM AccountsSafe == AccountsSpec => [](AccountsTypeOK /\ OneAccountPerIdentity)
<1>1. AccountsInit => AccountsInv
  BY DEF AccountsInit, AccountsInv, AccountsTypeOK, OneAccountPerIdentity, Members, Known
<1>. QED BY <1>1, AccountsStep, PTL DEF AccountsSpec, AccountsInv

-----------------------------------------------------------------------------

(***************************************************************************)
(* Proofs about SkillTelemetry, for any executions, Skills, requests and   *)
(* any length of the log.  OutcomeOfInvoked is not inductive: a line is    *)
(* decided upon a reading of the log and appended to a later one.  The     *)
(* strengthening says it of the lines that are yet to be appended too.     *)
(***************************************************************************)

\* A line of the execution and the Skill of e, at that stage, is in the log.
Logged(e, stage) == \E j \in DOMAIN telemetry : /\ telemetry[j].execution = e.execution
                                                /\ telemetry[j].skill = e.skill
                                                /\ telemetry[j].stage = stage

Credited == {"user_correction"} \cup Outcome
\* What has to be in the log before the line e.
Founded(e) == /\ e.stage \in {"invoked"} \cup Credited => Logged(e, "loaded")
              /\ e.stage \in Credited => Logged(e, "invoked")

Outstanding == \A r \in Recorder : recording[r] # NoRecord =>
              /\ recording[r] \in Seq(Event) /\ recording[r] # <<>>
              /\ \A k \in DOMAIN recording[r] : Founded(recording[r][k])

TelemetryInv ==
  /\ telemetry \in Seq(Event) /\ DOMAIN recording = Recorder
  /\ Outstanding /\ OutcomeOfInvoked

\* Appending keeps the log's lines where they are.
LEMMA LogGrows ==
  ASSUME telemetry \in Seq(Event), NEW e \in Event, telemetry' = Append(telemetry, e)
  PROVE  /\ telemetry' \in Seq(Event)
         /\ DOMAIN telemetry \subseteq DOMAIN telemetry'
         /\ DOMAIN telemetry' = DOMAIN telemetry \cup {Len(telemetry) + 1}
         /\ DOMAIN telemetry = 1..Len(telemetry)
         /\ \A i \in DOMAIN telemetry : telemetry'[i] = telemetry[i]
         /\ telemetry'[Len(telemetry) + 1] = e
OBVIOUS

\* What a line rests on stays in the log.
LEMMA FoundedStays ==
  ASSUME telemetry \in Seq(Event), NEW e \in Event, telemetry' = Append(telemetry, e),
         NEW f, Founded(f)
  PROVE  Founded(f)'
<1>1. \A stage : Logged(f, stage) => Logged(f, stage)'
  BY LogGrows DEF Logged
<1>. QED BY <1>1 DEF Founded

\* A new line whose foundations are in the log keeps OutcomeOfInvoked.
LEMMA LineAppended ==
  ASSUME telemetry \in Seq(Event), OutcomeOfInvoked, NEW e \in Event, Founded(e),
         telemetry' = Append(telemetry, e)
  PROVE  OutcomeOfInvoked'
<1>. SUFFICES ASSUME NEW i \in DOMAIN telemetry'
              PROVE  /\ telemetry'[i].stage \in {"invoked"} \cup Credited => Before(i, "loaded")'
                     /\ telemetry'[i].stage \in Credited => Before(i, "invoked")'
  BY DEF OutcomeOfInvoked, Credited
<1>1. CASE i \in DOMAIN telemetry
  <2>1. \A stage : Before(i, stage) => Before(i, stage)'
    BY <1>1, LogGrows DEF Before
  <2>2. telemetry'[i] = telemetry[i]
    BY <1>1, LogGrows
  <2>. QED BY <1>1, <2>1, <2>2 DEF OutcomeOfInvoked, Credited
<1>2. CASE i = Len(telemetry) + 1
  <2>1. telemetry'[i] = e
    BY <1>2, LogGrows
  <2>2. \A stage : Logged(e, stage) => Before(i, stage)'
    <3>. SUFFICES ASSUME NEW stage, NEW j \in DOMAIN telemetry,
                         telemetry[j].execution = e.execution,
                         telemetry[j].skill = e.skill, telemetry[j].stage = stage
                  PROVE  Before(i, stage)'
      BY DEF Logged
    <3>1. j \in 1..(i - 1)
      BY <1>2, LogGrows
    <3>2. telemetry'[j] = telemetry[j]
      BY LogGrows
    <3>. QED BY <2>1, <3>1, <3>2 DEF Before
  <2>. QED BY <2>1, <2>2 DEF Founded
<1>. QED BY <1>1, <1>2, LogGrows

\* A recording that is let through has its foundations: the stages it was checked
\* for are of the execution, and all lines of the execution are of its Skill.
LEMMA MayReachFounded ==
  ASSUME telemetry \in Seq(Event), NEW x \in Execution, NEW k \in Skill, NEW stage,
         ~Foreign(x, k), MayReach(x, stage)
  PROVE  Founded(Line(x, k, stage))
<1>1. \A s : s \in Stages(x) => Logged(Line(x, k, stage), s)
  BY DEF Stages, EventsOf, Foreign, Logged, Line
<1>2. "loaded" \in Stages(x)
  BY DEF MayReach
<1>3. stage \in Credited => "invoked" \in Stages(x)
  BY DEF MayReach, Credited, Outcome
<1>. QED BY <1>1, <1>2, <1>3 DEF Founded, Line

\* The two lines of a load need nothing.
LEMMA LoadFounded ==
  ASSUME NEW x \in Execution, NEW k \in Skill, NEW lines,
         lines = Missing(x, k, "selected") \o Missing(x, k, "loaded")
  PROVE  /\ lines \in Seq(Event)
         /\ \A i \in DOMAIN lines : Founded(lines[i])
<1>. DEFINE Good == {e \in Event : Founded(e)}
<1>1. ASSUME NEW stage \in {"selected", "loaded"}
      PROVE  Missing(x, k, stage) \in Seq(Good) \cap Seq(Event)
  <2>1. Line(x, k, stage) \in Event
    BY DEF Event, Line, SkillStage
  <2>2. Founded(Line(x, k, stage))
    BY DEF Founded, Line, Credited, Outcome
  <2>. HIDE DEF Good
  <2>3. Line(x, k, stage) \in Good
    BY <2>1, <2>2 DEF Good
  <2>4. {<<>>, <<Line(x, k, stage)>>} \subseteq Seq(Good) \cap Seq(Event)
    BY <2>1, <2>3
  <2>. QED BY <2>4 DEF Missing
<1>. HIDE DEF Good
<1>2. lines \in Seq(Good) /\ lines \in Seq(Event)
  BY <1>1, ConcatProperties
<1>3. Len(lines) \in Nat /\ DOMAIN lines = 1..Len(lines)
      /\ \A i \in 1..Len(lines) : lines[i] \in Good
  BY <1>2
<1>. QED BY <1>2, <1>3 DEF Good

\* No event of an execution is recorded out of its order.
LEMMA TelemetryStep == TelemetryInv /\ [TelemetryNext]_telemetryVars => TelemetryInv'
<1>. SUFFICES ASSUME TelemetryInv, [TelemetryNext]_telemetryVars
              PROVE  TelemetryInv'
  OBVIOUS
<1>. USE DEF TelemetryInv
<1>1. ASSUME NEW r \in Recorder, NEW lines, lines \in Seq(Event),
             \A i \in DOMAIN lines : Founded(lines[i]), StartRecording(r, lines)
      PROVE  TelemetryInv'
  <2>1. DOMAIN recording' = Recorder /\ telemetry' = telemetry
    BY <1>1 DEF StartRecording
  <2>2. \A q \in Recorder : recording'[q] = IF q # r THEN recording[q]
                                            ELSE IF lines = <<>> THEN NoRecord ELSE lines
    BY <1>1 DEF StartRecording
  <2>3. \A f : Founded(f)' <=> Founded(f)
    BY <2>1 DEF Founded, Logged
  <2>4. Outstanding'
    BY <1>1, <2>2, <2>3 DEF Outstanding
  <2>5. OutcomeOfInvoked'
    BY <2>1 DEF OutcomeOfInvoked, Before
  <2>. QED BY <2>1, <2>4, <2>5
<1>2. ASSUME NEW r \in Recorder, NEW x \in Execution, NEW k \in Skill, RecordSkillLoad(r, x, k)
      PROVE  TelemetryInv'
  BY <1>1, <1>2, LoadFounded DEF RecordSkillLoad
<1>3. ASSUME NEW r \in Recorder, NEW x \in Execution, NEW k \in Skill,
             NEW stage \in {"invoked", "user_correction"} \cup Outcome,
             RecordSkillExecutionEvent(r, x, k, stage)
      PROVE  TelemetryInv'
  <2>. DEFINE lines == <<Line(x, k, stage)>>
  <2>1. lines \in Seq(Event)
    BY DEF Line, Event, SkillStage
  <2>2. Founded(lines[1]) /\ DOMAIN lines = {1}
    BY <1>3, MayReachFounded DEF RecordSkillExecutionEvent
  <2>3. \A i \in DOMAIN lines : Founded(lines[i])
    BY <2>2
  <2>4. StartRecording(r, lines)
    BY <1>3 DEF RecordSkillExecutionEvent
  <2>. HIDE DEF lines
  <2>. QED BY <1>1, <2>1, <2>3, <2>4
<1>4. ASSUME NEW r \in Recorder, AppendSkillEvent(r)
      PROVE  TelemetryInv'
  <2>. DEFINE e == Head(recording[r])
  <2>1. /\ recording[r] \in Seq(Event) /\ recording[r] # <<>>
        /\ \A k \in DOMAIN recording[r] : Founded(recording[r][k])
    BY <1>4 DEF AppendSkillEvent, Outstanding
  <2>2. e \in Event /\ Founded(e)
    BY <2>1
  <2>3. telemetry' = Append(telemetry, e)
    BY <1>4 DEF AppendSkillEvent
  <2>4. OutcomeOfInvoked'
    BY <2>2, <2>3, LineAppended
  <2>5. \A f : Founded(f) => Founded(f)'
    BY <2>2, <2>3, FoundedStays
  <2>6. /\ DOMAIN recording' = Recorder
        /\ \A q \in Recorder : recording'[q] =
             IF q # r THEN recording[q]
             ELSE IF Len(recording[r]) = 1 THEN NoRecord ELSE Tail(recording[r])
    BY <1>4 DEF AppendSkillEvent
  <2>7. Len(recording[r]) # 1 =>
          /\ Tail(recording[r]) \in Seq(Event) /\ Tail(recording[r]) # <<>>
          /\ \A k \in DOMAIN Tail(recording[r]) : Founded(Tail(recording[r])[k])
    <3>. SUFFICES ASSUME NEW s, s = recording[r], Len(s) # 1
                  PROVE  /\ Tail(s) \in Seq(Event) /\ Tail(s) # <<>>
                         /\ \A k \in DOMAIN Tail(s) : Founded(Tail(s)[k])
      OBVIOUS
    <3>1. s \in Seq(Event) /\ s # <<>> /\ \A k \in DOMAIN s : Founded(s[k])
      BY <2>1
    <3>2. /\ Tail(s) \in Seq(Event) /\ Len(Tail(s)) = Len(s) - 1
          /\ \A k \in 1..Len(Tail(s)) : Tail(s)[k] = s[k + 1]
      BY <3>1
    <3>3. DOMAIN s = 1..Len(s) /\ DOMAIN Tail(s) = 1..Len(Tail(s)) /\ Len(s) \in Nat
      BY <3>1, <3>2
    <3>4. Tail(s) # <<>>
      BY <3>1, <3>2, <3>3
    <3>5. \A k \in DOMAIN Tail(s) : k + 1 \in DOMAIN s /\ Tail(s)[k] = s[k + 1]
      BY <3>2, <3>3
    <3>. QED BY <3>1, <3>2, <3>4, <3>5
  <2>8. Outstanding'
    BY <2>5, <2>6, <2>7 DEF Outstanding
  <2>9. telemetry' \in Seq(Event)
    BY <2>2, <2>3
  <2>. QED BY <2>4, <2>6, <2>8, <2>9
<1>5. ASSUME NEW r \in Recorder, CrashRecorder(r)
      PROVE  TelemetryInv'
  <2>1. telemetry' = telemetry /\ DOMAIN recording' = Recorder
    BY <1>5 DEF CrashRecorder
  <2>2. \A q \in Recorder : recording'[q] = IF q # r THEN recording[q] ELSE NoRecord
    BY <1>5 DEF CrashRecorder
  <2>3. \A f : Founded(f)' <=> Founded(f)
    BY <2>1 DEF Founded, Logged
  <2>4. Outstanding'
    BY <2>2, <2>3 DEF Outstanding
  <2>5. OutcomeOfInvoked'
    BY <2>1 DEF OutcomeOfInvoked, Before
  <2>. QED BY <2>1, <2>4, <2>5
<1>6. CASE UNCHANGED telemetryVars
  <2>1. telemetry' = telemetry /\ recording' = recording
    BY <1>6 DEF telemetryVars
  <2>2. Outstanding'
    BY <2>1 DEF Outstanding, Founded, Logged
  <2>. QED BY <2>1, <2>2 DEF OutcomeOfInvoked, Before
<1>. QED BY <1>2, <1>3, <1>4, <1>5, <1>6 DEF TelemetryNext

\* A Skill is credited with what its own executions went through, in any crossing
\* of any number of recordings (skill-telemetry.ts).
THEOREM TelemetryCredits == TelemetrySpec => []OutcomeOfInvoked
<1>1. TelemetryInit => TelemetryInv
  BY DEF TelemetryInit, TelemetryInv, Outstanding, OutcomeOfInvoked
<1>2. TelemetryInv => OutcomeOfInvoked
  BY DEF TelemetryInv
<1>. QED BY <1>1, <1>2, TelemetryStep, PTL DEF TelemetrySpec

-----------------------------------------------------------------------------
(***************************************************************************)
(* CaptureProjects: SettledListing, for any turns, registries, assignments *)
(* and number of processes.  That the rows are right when the backfill is  *)
(* complete is not inductive: what a task has gone past, and what it will  *)
(* have gone past when it ends, must be right as long as the registry is   *)
(* the one that it read (Due), and so nobody may hold the lock who read    *)
(* another one while a task or a row is of the one of now (OfNow).  A      *)
(* revision that was read is that of now or of before (Aged): a change of  *)
(* the registry to new contents leaves nothing due.                        *)
(***************************************************************************)
AtStep(p, steps) == worker[p] # Nil /\ worker[p].at \in steps

ThreadName == {Shape[e].thread : e \in EventId}
BindingOf == [thread : ThreadName, to : Place \cup {Global}, anchor : EventId]
HasOf == UNION {[s -> BOOLEAN] : s \in SUBSET EventId}
JobOf ==
  [at : {"resolve"}, ev : EventId \ Unreadable, rev : RegistryOf]
    \cup [at : {"upsert"}, ev : EventId \ Unreadable, rev : RegistryOf,
          to : Place \cup {Nil, Global}]
    \cup [at : {"assign"}, ids : SUBSET EventId, thread : ThreadName \cup {Nil},
          to : Place \cup {Global}]
    \cup [at : {"commit"}, ids : SUBSET EventId, thread : ThreadName \cup {Nil},
          to : Place \cup {Global}, reg : RegistryOf]
    \cup [at : {"pending", "finish"}, rev : RegistryOf]
    \cup [at : {"begin"}, rev : RegistryOf, migrate : BOOLEAN]
    \cup [at : {"scan"}, rev : RegistryOf, cursor : 0..Events]
    \cup [at : {"batch", "rows"}, rev : RegistryOf, cursor : 0..Events, has : HasOf]
ProgressOf == [cursor : 0..Events, rev : RegistryOf, complete : BOOLEAN]
CapturesTyped ==
  /\ registry \in RegistryOf /\ formerly \subseteq RegistryOf /\ outdated \subseteq EventId
  /\ Stored \subseteq EventId /\ hinted \in [Stored -> BOOLEAN]
  /\ DOMAIN rows \subseteq Stored /\ rows \in [DOMAIN rows -> RowOf]
  /\ columns \in BOOLEAN /\ dirty \in BOOLEAN /\ rebuilt \in BOOLEAN
  /\ direct \in [EventId -> Place \cup {Nil, Global}] /\ bound \in Seq(BindingOf)
  /\ progress \in ProgressOf \cup {Nil}
  /\ holder \in Worker \cup {Nil} /\ worker \in [Worker -> JobOf \cup {Nil}]

UnderLock == {"resolve", "upsert", "commit", "rows"}
Underway == {"scan", "batch", "rows", "finish"}
Reading == Underway \cup {"resolve", "upsert", "pending", "begin"}
LocksHeld == \A p \in Worker : AtStep(p, UnderLock) => holder = p

EverRegistry == formerly \cup {registry}
Aged ==
  /\ \A e \in DOMAIN rows : rows[e].rev \in EverRegistry \cup {Nil, Unresolved}
  /\ progress # Nil => progress.rev \in EverRegistry
  /\ \A p \in Worker : /\ AtStep(p, Reading) => worker[p].rev \in EverRegistry
                       /\ AtStep(p, {"commit"}) => worker[p].reg \in EverRegistry

\* What is being stored has its file.
HasFile(p) == AtStep(p, {"resolve", "upsert"}) => worker[p].ev \in Stored
StoringFiles == \A p \in Worker : HasFile(p)

\* An assignment by thread is of turns of the thread, and there are some.
WellNamed(p) ==
  AtStep(p, {"assign", "commit"}) =>
    /\ worker[p].ids # {} \/ worker[p].thread # Nil
    /\ worker[p].at = "commit" /\ worker[p].thread # Nil =>
         /\ worker[p].ids \subseteq Threaded(worker[p].thread)
         /\ Threaded(worker[p].thread) # {}
ChosenNamed == \A p \in Worker : WellNamed(p)

\* Until the record of the backfill is there no row was resolved by its revision.
Unstarted ==
  progress = Nil /\ ~rebuilt =>
    /\ \A e \in DOMAIN rows : rows[e].rev = Unresolved
    /\ \A p \in Worker : ~AtStep(p, Underway)

Right(e) == e \notin Unreadable \cup outdated => rows[e].to = Live(e)

\* The process is past the row: it need not be looked at again.
Past(p, e) ==
  \/ worker[p].at = "finish"
  \/ worker[p].at = "scan" /\ e <= worker[p].cursor
  \/ worker[p].at \in {"batch", "rows"} /\ e <= worker[p].cursor /\ e \notin DOMAIN worker[p].has
TaskOfNow(p) == AtStep(p, Underway) /\ worker[p].rev = registry
Due(e) ==
  \/ rows[e].rev = registry
  \/ Recorded(registry) /\ (progress.complete \/ e <= progress.cursor)
  \/ \E p \in Worker : TaskOfNow(p) /\ Past(p, e)
AllRight == \A e \in DOMAIN rows : Due(e) => Right(e)

InUse ==
  \/ Recorded(registry)
  \/ \E p \in Worker : TaskOfNow(p)
  \/ \E e \in DOMAIN rows : rows[e].rev = registry
OfNow ==
  InUse => \A p \in Worker : /\ AtStep(p, {"resolve", "upsert"}) => worker[p].rev = registry
                             /\ AtStep(p, {"commit"}) => worker[p].reg = registry
UpsertRight ==
  \A p \in Worker : AtStep(p, {"upsert"}) /\ worker[p].rev = registry =>
    worker[p].to = Live(worker[p].ev)
Steady == registry \notin formerly /\ ~rebuilt
CapturesBase ==
  CapturesTyped /\ LocksHeld /\ Aged /\ StoringFiles /\ ChosenNamed /\ Unstarted
CapturesInv == CapturesBase /\ (Steady => AllRight /\ OfNow /\ UpsertRight)

-----------------------------------------------------------------------------
(* The operators *)

LEMMA MaxOfNumbers ==
  ASSUME NEW n \in Nat, NEW S \in SUBSET (0..n), S # {}
  PROVE  Max(S) \in S /\ \A i \in S : i <= Max(S)
<1> DEFINE R == OpToRel(<, Nat)
           bounds == {k \in Nat : \A i \in S : i <= k}
<1>1. IsWellFoundedOn(R, Nat)
  BY NatLessThanWellFounded
<1>2. \A j, i \in Nat : j < i => <<j, i>> \in R
  BY DEF OpToRel
<1>3. n \in bounds /\ bounds \subseteq Nat /\ S \subseteq Nat
  OBVIOUS
<1> HIDE DEF R
<1>4. PICK k \in bounds : \A j \in bounds : <<j, k>> \notin R
  BY <1>1, <1>3, WFMin
<1>5. k \in S
  <2> SUFFICES ASSUME k \notin S PROVE FALSE
    OBVIOUS
  <2>1. \A i \in S : i \in Nat /\ k \in Nat /\ i <= k /\ i # k
    BY <1>3, <1>4
  <2>2. k \in Nat /\ k > 0
    <3>1. PICK i \in S : i \in Nat /\ k \in Nat /\ i <= k /\ i # k
      BY <2>1
    <3> QED  BY <3>1
  <2>3. k - 1 \in Nat /\ k - 1 < k /\ \A i \in S : i <= k - 1
    BY <2>1, <2>2
  <2> QED  BY <1>2, <1>4, <2>2, <2>3
<1>6. \A i \in S : k >= i
  BY <1>3, <1>4
<1> QED  BY <1>3, <1>5, <1>6 DEF Max

LEMMA MinOfNumbers ==
  ASSUME NEW S \in SUBSET Nat, S # {}
  PROVE  Min(S) \in S /\ \A i \in S : Min(S) <= i
<1> DEFINE R == OpToRel(<, Nat)
<1>1. IsWellFoundedOn(R, Nat)
  BY NatLessThanWellFounded
<1>2. \A j, i \in Nat : j < i => <<j, i>> \in R
  BY DEF OpToRel
<1> HIDE DEF R
<1>3. PICK k \in S : \A j \in S : <<j, k>> \notin R
  BY <1>1, WFMin
<1>4. \A i \in S : k <= i
  <2> TAKE i \in S
  <2>1. i \in Nat /\ k \in Nat /\ ~(i < k)
    BY <1>2, <1>3
  <2> QED  BY <2>1
<1> QED  BY <1>3, <1>4 DEF Min

\* The earliest of some events is one of them, and none is before it.
LEMMA EarliestIs ==
  ASSUME NEW S \in SUBSET EventId, S # {}
  PROVE  Earliest(S) \in S /\ \A f \in S : Shape[Earliest(S)].time <= Shape[f].time
<1> DEFINE times == {Shape[f].time : f \in S}
           first == {f \in S : Shape[f].time = Min(times)}
<1>1. times \in SUBSET Nat /\ times # {}
  BY ShapeAssumption
<1>2. Min(times) \in times /\ \A t \in times : Min(times) <= t
  <2> HIDE DEF times
  <2> QED  BY <1>1, MinOfNumbers
<1>3. first \in SUBSET Nat /\ first # {}
  <2>1. PICK f \in S : Shape[f].time = Min(times)
    BY <1>2
  <2>2. S \subseteq Nat
    BY EventsAssumption DEF EventId
  <2> QED  BY <2>1, <2>2
<1>4. Min(first) \in first /\ \A f \in first : Min(first) <= f
  <2> HIDE DEF first
  <2> QED  BY <1>3, MinOfNumbers
<1>5. PICK e \in S : Shape[e].time = Min(times) /\ \A f \in first : e <= f
  BY <1>4
<1>6. \A f \in S : Shape[e].time < Shape[f].time \/ (Shape[e].time = Shape[f].time /\ e <= f)
  <2> TAKE f \in S
  <2>1. Shape[f].time \in Nat /\ Shape[e].time \in Nat /\ Shape[e].time <= Shape[f].time
    BY <1>1, <1>2, <1>5
  <2>2. Shape[f].time = Shape[e].time => f \in first
    BY <1>5
  <2> QED  BY <1>5, <2>1, <2>2
<1> DEFINE Precedes(d, f) == \/ Shape[d].time < Shape[f].time
                           \/ (Shape[d].time = Shape[f].time /\ d <= f)
<1>7. Earliest(S) \in S /\ \A f \in S : Precedes(Earliest(S), f)
  BY <1>6 DEF Earliest
<1> QED  BY <1>7, ShapeAssumption

LEMMA LookupType ==
  ASSUME NEW reg \in RegistryOf, NEW w \in Alias \cup Place \cup {Nil}
  PROVE  Lookup(reg, w) \in Place \cup {Nil}
BY DEF Lookup, RegistryOf

LEMMA WordsOf ==
  ASSUME NEW e \in EventId, NEW has
  PROVE  HintOf(has, e) \in Alias \cup {Nil} /\ Shape[e].workspace \in Alias \cup {Nil}
BY ShapeAssumption DEF HintOf

LEMMA AssignedType ==
  ASSUME NEW reg \in RegistryOf, NEW to \in Place \cup {Global}
  PROVE  Assigned(to, reg) \in Place \cup {Nil, Global}
BY DEF Assigned, RegistryOf

LEMMA NewestIs ==
  ASSUME NEW e, NEW bs \in Seq(BindingOf), Bindings(e, bs) # {}
  PROVE  Max(Bindings(e, bs)) \in Bindings(e, bs)
<1>1. Bindings(e, bs) \in SUBSET (0..Len(bs)) /\ Len(bs) \in Nat
  BY DEF Bindings
<1> QED  BY <1>1, MaxOfNumbers

LEMMA BindingsIn ==
  ASSUME NEW e \in EventId, NEW bs \in Seq(BindingOf)
  PROVE  Bindings(e, bs) # {} => bs[Max(Bindings(e, bs))] \in BindingOf
<1>1. Bindings(e, bs) \subseteq DOMAIN bs
  BY DEF Bindings
<1>2. \A i \in DOMAIN bs : bs[i] \in BindingOf
  OBVIOUS
<1> QED  BY <1>1, <1>2, NewestIs

LEMMA ResolutionType ==
  ASSUME NEW e \in EventId, NEW has, NEW reg \in RegistryOf,
         NEW to \in Place \cup {Nil, Global}, NEW bs \in Seq(BindingOf)
  PROVE  Resolution(e, has, reg, to, bs) \in Place \cup {Nil, Global}
<1>1. Lookup(reg, HintOf(has, e)) \in Place \cup {Nil}
      /\ Lookup(reg, Shape[e].workspace) \in Place \cup {Nil}
  BY LookupType, WordsOf
<1>2. Bindings(e, bs) # {} => bs[Max(Bindings(e, bs))].to \in Place \cup {Global}
  BY BindingsIn DEF BindingOf
<1>3. to # Nil => Assigned(to, reg) \in Place \cup {Nil, Global}
  BY AssignedType
<1>4. Bindings(e, bs) # {} =>
        Assigned(bs[Max(Bindings(e, bs))].to, reg) \in Place \cup {Nil, Global}
  BY <1>2, AssignedType
<1> QED  BY <1>1, <1>3, <1>4 DEF Resolution

\* What a turn's project depends on: what is said of the turn itself, and if a
\* binding may decide, on the other turns of its thread.
LEMMA LiveSame ==
  ASSUME NEW e, bound \in Seq(BindingOf),
         UNCHANGED <<registry, hinted[e], direct[e]>>,
         Bindings(e, bound)' = Bindings(e, bound),
         \A i \in Bindings(e, bound) : bound'[i] = bound[i],
         Bindings(e, bound) # {} /\ direct[e] = Nil =>
           \A f : f # e /\ Shape[f].thread = Shape[e].thread =>
             /\ f \in DOMAIN rows' <=> f \in DOMAIN rows
             /\ f \in DOMAIN rows => hinted'[f] = hinted[f]
  PROVE  Live(e)' = Live(e)
<1> DEFINE hint == Lookup(registry, HintOf(hinted[e], e))
           n == Max(Bindings(e, bound))
           b == bound[n]
<1>1. hint' = hint
  BY DEF Lookup, HintOf
<1>2. CASE hint # Nil
  BY <1>1, <1>2 DEF Live, Resolution
<1>3. CASE hint = Nil /\ direct[e] # Nil
  BY <1>1, <1>3 DEF Live, Resolution, Assigned
<1>4. CASE hint = Nil /\ direct[e] = Nil /\ Bindings(e, bound) = {}
  BY <1>1, <1>4 DEF Live, Resolution, Lookup
<1>5. CASE hint = Nil /\ direct[e] = Nil /\ Bindings(e, bound) # {}
  <2>1. n \in Bindings(e, bound) /\ n' = n
    <3>1. n \in Bindings(e, bound)
      BY <1>5, NewestIs
    <3>2. Max(Bindings(e, bound)') = Max(Bindings(e, bound))
      BY Zenon
    <3> QED  BY <3>1, <3>2
  <2>2. b' = b /\ b.thread = Shape[e].thread
    BY <2>1 DEF Bindings
  <2>3. Disputed(e, b, registry)' <=> Disputed(e, b, registry)
    BY <1>1, <1>5, <2>2 DEF Disputed, Lookup, HintOf
  <2> QED  BY <1>1, <1>5, <2>1, <2>2, <2>3 DEF Live, Resolution, Assigned, Lookup
<1> QED  BY <1>2, <1>3, <1>4, <1>5

\* Every row that is right is listed where it should be.
LEMMA RightListed ==
  ASSUME CapturesTyped, NEW e \in DOMAIN rows \ (Unreadable \cup outdated), Right(e)
  PROVE  Listed(e)
<1>1. rows[e].to = Live(e)
  BY DEF Right
<1>2. Live(e) \in Place \cup {Nil, Global}
  BY ResolutionType DEF CapturesTyped, Live
<1>3. \A p \in Place : e \in ListTurns(p) <=> Live(e) = p
  BY <1>1, <1>2, WorkerAssumption DEF ListTurns, Pending
<1>4. e \in Unassigned <=> Live(e) = Nil /\ direct[e] = Nil
  BY <1>1, <1>2, WorkerAssumption DEF Unassigned
<1> QED  BY <1>3, <1>4 DEF Listed

LEMMA InvSettled == CapturesInv => SettledListing
<1> SUFFICES ASSUME CapturesInv, BackfillSettled, Steady,
                    NEW e \in DOMAIN rows \ (Unreadable \cup outdated)
             PROVE  Listed(e)
  BY DEF SettledListing, Steady
<1>1. Due(e)
  BY DEF BackfillSettled, Due, Recorded
<1> QED  BY <1>1, RightListed DEF CapturesInv, CapturesBase, AllRight

-----------------------------------------------------------------------------
(* What a process is at *)

LEMMA JobIs ==
  ASSUME CapturesTyped, NEW p \in Worker
  PROVE  /\ AtStep(p, {"resolve", "upsert"}) =>
              worker[p].ev \in EventId \ Unreadable /\ worker[p].rev \in RegistryOf
         /\ AtStep(p, {"upsert"}) => worker[p].to \in Place \cup {Nil, Global}
         /\ AtStep(p, {"assign", "commit"}) =>
              /\ worker[p].ids \subseteq EventId /\ worker[p].thread \in ThreadName \cup {Nil}
              /\ worker[p].to \in Place \cup {Global}
         /\ AtStep(p, {"commit"}) => worker[p].reg \in RegistryOf
         /\ AtStep(p, Reading) => worker[p].rev \in RegistryOf
         /\ AtStep(p, {"scan", "batch", "rows"}) => worker[p].cursor \in 0..Events
         /\ AtStep(p, {"batch", "rows"}) => worker[p].has \in HasOf
<1> DEFINE w == worker[p]
<1>1. w # Nil => w \in JobOf
  BY DEF CapturesTyped
<1>2. CASE w \in [at : {"resolve"}, ev : EventId \ Unreadable, rev : RegistryOf]
  BY <1>2 DEF AtStep, Reading, Underway
<1>3. CASE w \in [at : {"upsert"}, ev : EventId \ Unreadable, rev : RegistryOf,
                  to : Place \cup {Nil, Global}]
  BY <1>3 DEF AtStep, Reading, Underway
<1>4. CASE w \in [at : {"assign"}, ids : SUBSET EventId, thread : ThreadName \cup {Nil},
                  to : Place \cup {Global}]
  BY <1>4 DEF AtStep, Reading, Underway
<1>5. CASE w \in [at : {"commit"}, ids : SUBSET EventId, thread : ThreadName \cup {Nil},
                  to : Place \cup {Global}, reg : RegistryOf]
  BY <1>5 DEF AtStep, Reading, Underway
<1>6. CASE w \in [at : {"pending", "finish"}, rev : RegistryOf]
  BY <1>6 DEF AtStep, Reading, Underway
<1>7. CASE w \in [at : {"begin"}, rev : RegistryOf, migrate : BOOLEAN]
  BY <1>7 DEF AtStep, Reading, Underway
<1>8. CASE w \in [at : {"scan"}, rev : RegistryOf, cursor : 0..Events]
  BY <1>8 DEF AtStep, Reading, Underway
<1>9. CASE w \in [at : {"batch", "rows"}, rev : RegistryOf, cursor : 0..Events, has : HasOf]
  BY <1>9 DEF AtStep, Reading, Underway
<1> QED  BY <1>1, <1>2, <1>3, <1>4, <1>5, <1>6, <1>7, <1>8, <1>9 DEF JobOf, AtStep

\* What a process may be given to do.
LEMMA JobGiven ==
  ASSUME CapturesTyped, NEW p \in Worker, NEW job \in JobOf \cup {Nil}, GoOn(p, job)
  PROVE  /\ worker' \in [Worker -> JobOf \cup {Nil}]
         /\ worker'[p] = job
         /\ \A q \in Worker \ {p} : worker'[q] = worker[q]
BY DEF CapturesTyped, GoOn
LEMMA JobDone ==
  ASSUME CapturesTyped, NEW p \in Worker, Released(p)
  PROVE  /\ worker' \in [Worker -> JobOf \cup {Nil}]
         /\ worker'[p] = Nil
         /\ \A q \in Worker \ {p} : worker'[q] = worker[q]
BY DEF CapturesTyped, Released, GoOn

-----------------------------------------------------------------------------
(* Types *)

LEMMA TypedIsTypeOK == CapturesTyped => CaptureProjectTypeOK
<1> SUFFICES ASSUME CapturesTyped PROVE CaptureProjectTypeOK
  OBVIOUS
<1>1. {columns, dirty, rebuilt} \subseteq BOOLEAN
  BY DEF CapturesTyped
<1>2. progress # Nil => progress \in [cursor : 0..Events, rev : RegistryOf, complete : BOOLEAN]
  BY DEF CapturesTyped, ProgressOf
<1>3. bound \in Seq([thread : {Shape[e].thread : e \in EventId}, to : Place \cup {Global},
                     anchor : EventId])
  BY DEF CapturesTyped, BindingOf, ThreadName
<1>4. DOMAIN worker = Worker
  BY DEF CapturesTyped
<1> QED  BY <1>1, <1>2, <1>3, <1>4, Zenon DEF CapturesTyped, CaptureProjectTypeOK

LEMMA WorkersOnly ==
  ASSUME CapturesTyped, holder' \in Worker \cup {Nil},
         worker' \in [Worker -> JobOf \cup {Nil}],
         UNCHANGED <<registry, hinted, rows, columns, direct, bound, progress, marks>>
  PROVE  CapturesTyped'
BY DEF CapturesTyped, marks, Stored

LEMMA TypedChange == ASSUME CapturesTyped, ChangeRegistry PROVE CapturesTyped'
<1>1. registry' \in RegistryOf
  BY RegistryOfAssumption DEF ChangeRegistry
<1> QED  BY <1>1 DEF CapturesTyped, ChangeRegistry, Stored

LEMMA TypedCrash == ASSUME CapturesTyped, NEW p \in Worker, Crash(p) PROVE CapturesTyped'
<1>1. holder' \in Worker \cup {Nil}
  BY DEF Crash, Released, CapturesTyped
<1> QED  BY <1>1, JobDone, WorkersOnly DEF Crash

LEMMA TypedRebuild == ASSUME CapturesTyped, Rebuild PROVE CapturesTyped'
<1>1. /\ rows' = [e \in Stored |-> [to |-> Unresolved, rev |-> Nil]]
      /\ UNCHANGED <<registry, hinted, direct, bound, holder, worker, formerly>>
      /\ columns' = TRUE /\ dirty' = FALSE /\ rebuilt' = TRUE /\ progress' = Nil
      /\ outdated' = {}
  BY DEF Rebuild, Open
<1>2. DOMAIN rows' \subseteq Stored' /\ rows' \in [DOMAIN rows' -> RowOf]
  BY <1>1 DEF RowOf, Stored
<1> QED  BY <1>1, <1>2 DEF CapturesTyped, Stored

LEMMA TypedStore ==
  ASSUME CapturesTyped, NEW p \in Worker, StoreEvent(p)
  PROVE  CapturesTyped'
<1>1. PICK e \in EventId \ Unreadable : \E has \in {e \notin LateHinted, TRUE} :
        /\ hinted' = [f \in Stored \cup {e} |-> IF f = e THEN has ELSE hinted[f]]
        /\ dirty' = (hinted' # hinted) /\ outdated' = outdated \cup {e} \cup Beside(e)
        /\ GoOn(p, [at |-> "resolve", ev |-> e, rev |-> registry])
  BY DEF StoreEvent
<1>2. PICK has \in BOOLEAN :
        /\ hinted' = [f \in Stored \cup {e} |-> IF f = e THEN has ELSE hinted[f]]
        /\ dirty' = (hinted' # hinted) /\ outdated' = outdated \cup {e} \cup Beside(e)
        /\ GoOn(p, [at |-> "resolve", ev |-> e, rev |-> registry])
  BY <1>1, Zenon
<1>3. [at |-> "resolve", ev |-> e, rev |-> registry] \in JobOf
  BY DEF JobOf, CapturesTyped
<1>4. worker' \in [Worker -> JobOf \cup {Nil}]
  BY <1>2, <1>3, JobGiven
<1>5. Stored' = Stored \cup {e} /\ Stored' \subseteq EventId
  BY <1>2 DEF Stored, CapturesTyped
<1>6. hinted' \in [Stored' -> BOOLEAN]
  <2>1. \A f \in Stored : hinted[f] \in BOOLEAN
    BY DEF CapturesTyped
  <2> QED  BY <1>2, <1>5, <2>1
<1>7. columns' = TRUE /\ holder' = p /\ dirty' \in BOOLEAN
      /\ UNCHANGED <<registry, rows, direct, bound, progress, formerly, rebuilt>>
  BY <1>2 DEF StoreEvent, Open, Lock
<1>8. outdated' \subseteq EventId
  BY <1>2 DEF Beside, CapturesTyped
<1> QED  BY <1>4, <1>5, <1>6, <1>7, <1>8 DEF CapturesTyped

LEMMA LiveType ==
  ASSUME CapturesTyped, NEW e \in EventId
  PROVE  Live(e) \in Place \cup {Nil, Global}
BY ResolutionType DEF Live, CapturesTyped

LEMMA TypedResolve ==
  ASSUME CapturesTyped, NEW p \in Worker, ResolveStored(p)
  PROVE  CapturesTyped'
<1> DEFINE job == [at |-> "upsert", ev |-> worker[p].ev, rev |-> worker[p].rev,
                   to |-> Live(worker[p].ev)]
<1>1. worker[p].ev \in EventId \ Unreadable /\ worker[p].rev \in RegistryOf
  BY JobIs DEF ResolveStored, Doing, AtStep
<1>2. job \in JobOf
  BY <1>1, LiveType DEF JobOf
<1>3. holder' \in Worker \cup {Nil}
  BY DEF ResolveStored, CapturesTyped
<1> QED  BY <1>2, <1>3, JobGiven, WorkersOnly DEF ResolveStored

LEMMA TypedUpsert ==
  ASSUME CapturesTyped, StoringFiles, NEW p \in Worker, Upsert(p)
  PROVE  CapturesTyped'
<1> DEFINE w == worker[p]
           row == [to |-> w.to, rev |-> w.rev]
<1>1. AtStep(p, {"upsert"})
  BY DEF Upsert, Doing, AtStep
<1>2. w.ev \in Stored /\ row \in RowOf /\ w.rev \in RegistryOf
  BY <1>1, JobIs DEF StoringFiles, HasFile, AtStep, RowOf
<1>3. /\ rows' = [f \in DOMAIN rows \cup {w.ev} |-> IF f = w.ev THEN row ELSE rows[f]]
      /\ progress' = IF progress # Nil THEN progress
                     ELSE [cursor |-> 0, rev |-> w.rev,
                           complete |-> \A f \in DOMAIN rows' :
                                          Unresolved \notin {rows'[f].to, rows'[f].rev}]
      /\ dirty' = FALSE /\ Released(p)
      /\ outdated' = (outdated \cup Beside(w.ev)) \ {w.ev}
      /\ UNCHANGED <<registry, hinted, columns, direct, bound, formerly, rebuilt>>
  BY DEF Upsert, Upserted
<1>4. DOMAIN rows' \subseteq Stored' /\ rows' \in [DOMAIN rows' -> RowOf]
  BY <1>2, <1>3 DEF CapturesTyped, Stored
<1>5. progress' \in ProgressOf \cup {Nil}
  <2>1. (\A f \in DOMAIN rows' : Unresolved \notin {rows'[f].to, rows'[f].rev}) \in BOOLEAN
    OBVIOUS
  <2>2. 0 \in 0..Events
    BY EventsAssumption
  <2> QED  BY <1>2, <1>3, <2>1, <2>2 DEF CapturesTyped, ProgressOf
<1>6. worker' \in [Worker -> JobOf \cup {Nil}] /\ holder' \in Worker \cup {Nil}
  BY <1>3, JobDone DEF Released, CapturesTyped
<1>7. outdated' \subseteq EventId
  BY <1>3 DEF Beside, CapturesTyped
<1> QED  BY <1>3, <1>4, <1>5, <1>6, <1>7 DEF CapturesTyped, Stored

LEMMA TypedAssign ==
  ASSUME CapturesTyped, NEW p \in Worker, BeginAssign(p) \/ LockAssign(p) \/ AssignRefused(p)
  PROVE  CapturesTyped'
<1>1. CASE BeginAssign(p)
  <2>1. PICK a \in Assignment :
          LET to == IF a.to = Global THEN Global ELSE registry[a.to] IN
          /\ to # Nil
          /\ GoOn(p, [at |-> "assign", ids |-> a.ids, thread |-> a.thread, to |-> to])
    BY <1>1 DEF BeginAssign
  <2> DEFINE to == IF a.to = Global THEN Global ELSE registry[a.to]
             job == [at |-> "assign", ids |-> a.ids, thread |-> a.thread, to |-> to]
  <2>2. to \in Place \cup {Global}
    BY <2>1, AssignmentAssumption DEF CapturesTyped, RegistryOf
  <2>3. job \in JobOf
    BY <2>2, AssignmentAssumption DEF JobOf, ThreadName
  <2>4. worker' \in [Worker -> JobOf \cup {Nil}]
    BY <2>1, <2>3, JobGiven
  <2> QED  BY <1>1, <2>4, WorkersOnly DEF BeginAssign, CapturesTyped
<1>2. CASE LockAssign(p)
  <2> DEFINE w == worker[p]
             job == [at |-> "commit", ids |-> w.ids, thread |-> w.thread, to |-> w.to,
                     reg |-> registry]
  <2>1. job \in JobOf
    BY <1>2, JobIs DEF LockAssign, Doing, AtStep, JobOf, CapturesTyped
  <2>2. worker' \in [Worker -> JobOf \cup {Nil}]
    BY <1>2, <2>1, JobGiven DEF LockAssign
  <2> QED  BY <1>2, <2>2 DEF LockAssign, Open, Lock, CapturesTyped, Stored, marks
<1>3. CASE AssignRefused(p)
  <2>1. holder' \in Worker \cup {Nil}
    BY <1>3 DEF AssignRefused, Released, CapturesTyped
  <2> QED  BY <1>3, <2>1, JobDone, WorkersOnly DEF AssignRefused
<1> QED  BY <1>1, <1>2, <1>3

\* The registry that the rows of an assignment are resolved by.
AsResolved(w) == [k \in DOMAIN w.reg |-> IF k = w.to THEN w.to ELSE w.reg[k]]

\* What the transaction of an assignment does.
LEMMA CommitIs ==
  ASSUME CapturesTyped, ChosenNamed, NEW p \in Worker, CommitAssign(p)
  PROVE  /\ AtStep(p, {"commit"}) /\ AsResolved(worker[p]) \in RegistryOf
         /\ Affected(worker[p]) \subseteq EventId /\ Chosen(worker[p]) \subseteq EventId
         /\ worker[p].thread # Nil => Affected(worker[p]) # {}
<1> DEFINE w == worker[p]
<1>1. AtStep(p, {"commit"})
  BY DEF CommitAssign, Doing, AtStep
<1>2. /\ w.ids \subseteq EventId /\ w.to \in Place \cup {Global} /\ w.reg \in RegistryOf
  BY <1>1, JobIs DEF AtStep
<1>3. Global \notin Alias \cup Place
  BY WorkerAssumption
<1>4. AsResolved(w) \in RegistryOf
  BY <1>2, <1>3 DEF AsResolved, RegistryOf
<1>5. \A t : Threaded(t) \subseteq EventId
  BY DEF Threaded, CapturesTyped
<1>6. w.thread # Nil => Threaded(w.thread) # {}
  BY <1>1 DEF ChosenNamed, WellNamed, AtStep
<1> QED  BY <1>1, <1>2, <1>4, <1>5, <1>6 DEF Affected, Chosen

LEMMA TypedCommit ==
  ASSUME CapturesTyped, ChosenNamed, NEW p \in Worker, CommitAssign(p)
  PROVE  CapturesTyped'
<1> DEFINE w == worker[p]
<1>1. /\ direct' = [e \in EventId |-> IF e \in Chosen(w) THEN w.to ELSE direct[e]]
      /\ bound' = Bound(w)
      /\ rows' = [e \in DOMAIN rows |->
                    IF e \in Affected(w)
                    THEN [rows[e] EXCEPT !.to =
                            Resolution(e, hinted[e], AsResolved(w), direct'[e], bound')]
                    ELSE rows[e]]
      /\ Released(p)
      /\ UNCHANGED <<registry, hinted, columns, progress, dirty, formerly, rebuilt>>
      /\ outdated' \in {outdated \ Affected(w), outdated \cup Affected(w)}
  BY DEF CommitAssign, AsResolved
<1>2. /\ w.to \in Place \cup {Global} /\ w.thread \in ThreadName \cup {Nil}
  BY CommitIs, JobIs DEF AtStep
<1>3. direct' \in [EventId -> Place \cup {Nil, Global}]
  BY <1>1, <1>2 DEF CapturesTyped
<1>4. bound' \in Seq(BindingOf)
  <2> DEFINE new == [thread |-> w.thread, to |-> w.to, anchor |-> Earliest(Affected(w))]
  <2>1. CASE w.thread = Nil
    BY <1>1, <2>1 DEF Bound, CapturesTyped
  <2>2. CASE w.thread # Nil
    <3>1. Earliest(Affected(w)) \in EventId
      BY <2>2, CommitIs, EarliestIs
    <3>2. new \in BindingOf
      BY <1>2, <2>2, <3>1 DEF BindingOf
    <3>3. bound' \in {bound, Append(bound, new)}
      BY <1>1 DEF Bound
    <3> QED  BY <3>2, <3>3 DEF CapturesTyped
  <2> QED  BY <2>1, <2>2
<1>5. DOMAIN rows' = DOMAIN rows /\ rows' \in [DOMAIN rows' -> RowOf]
  <2>1. \A e \in DOMAIN rows : e \in EventId /\ rows[e] \in RowOf
    BY DEF CapturesTyped
  <2>2. \A e \in DOMAIN rows :
          Resolution(e, hinted[e], AsResolved(w), direct'[e], bound') \in Place \cup {Nil, Global}
    BY <1>3, <1>4, <2>1, CommitIs, ResolutionType
  <2>3. \A e \in DOMAIN rows : rows'[e] \in RowOf
    BY <1>1, <2>1, <2>2 DEF RowOf
  <2> QED  BY <1>1, <2>3
<1>6. worker' \in [Worker -> JobOf \cup {Nil}] /\ holder' \in Worker \cup {Nil}
  BY <1>1, JobDone DEF Released, CapturesTyped
<1>7. outdated' \subseteq EventId
  BY <1>1, CommitIs DEF CapturesTyped
<1> QED  BY <1>1, <1>3, <1>4, <1>5, <1>6, <1>7 DEF CapturesTyped, Stored

\* A task goes past nothing that it should look at: what is up to the end of its
\* batch and not in it was before, is not stale or is not readable.
LEMMA ScanIs ==
  ASSUME CapturesTyped, NEW t \in Worker, Scan(t)
  PROVE  \/ /\ \A e \in DOMAIN rows : e <= worker[t].cursor \/ ~Stale(e, worker[t].rev)
            /\ GoOn(t, [at |-> "finish", rev |-> worker[t].rev])
         \/ \E m \in 0..Events, has \in HasOf :
              /\ \A e \in DOMAIN has : e \in Stored /\ has[e] = hinted[e]
              /\ \A e \in DOMAIN rows : e <= m /\ e \notin DOMAIN has =>
                   e <= worker[t].cursor \/ ~Stale(e, worker[t].rev) \/ e \in Unreadable
              /\ GoOn(t, [at |-> "batch", rev |-> worker[t].rev, cursor |-> m, has |-> has])
<1> DEFINE w == worker[t]
           ids == {e \in DOMAIN rows : e > w.cursor /\ Stale(e, w.rev)}
           before(e) == {f \in ids : f < e}
           batch == {e \in ids : Cardinality(before(e)) < Batch}
           has == [e \in batch \ Unreadable |-> hinted[e]]
<1>1. /\ ids = {} => GoOn(t, [at |-> "finish", rev |-> w.rev])
      /\ ids # {} => GoOn(t, [at |-> "batch", rev |-> w.rev, cursor |-> Max(batch),
                            has |-> has])
  BY DEF Scan
<1>2. w.cursor \in 0..Events
  BY JobIs DEF Scan, Doing, AtStep
<1>3. DOMAIN rows \subseteq 1..Events /\ DOMAIN rows \subseteq Stored
  BY DEF CapturesTyped, EventId
<1>4. CASE ids = {}
  <2>1. \A e \in DOMAIN rows : e <= w.cursor \/ ~Stale(e, w.rev)
    BY <1>2, <1>3, <1>4, EventsAssumption
  <2> QED  BY <1>1, <1>4, <2>1
<1>5. CASE ids # {}
  <2>1. ids \in SUBSET (1..Events) /\ ids \in SUBSET Nat
    BY <1>3, EventsAssumption
  <2>2. IsFiniteSet(ids)
    <3>1. IsFiniteSet(1..Events)
      BY EventsAssumption, FS_Interval
    <3> HIDE DEF ids
    <3> QED  BY <2>1, <3>1, FS_Subset
  <2>3. \A e \in ids : IsFiniteSet(before(e)) /\ Cardinality(before(e)) \in Nat
    BY <2>2, FS_Subset, FS_CardinalityType
  <2>4. Min(ids) \in batch
    <3>1. Min(ids) \in ids /\ \A i \in ids : Min(ids) <= i
      <4> HIDE DEF ids
      <4> QED  BY <1>5, <2>1, MinOfNumbers
    <3>2. \A n \in ids : (\A i \in ids : n <= i) => before(n) = {}
      <4>1. \A n, f \in ids : n <= f => ~(f < n)
        <5> HIDE DEF ids
        <5> QED  BY <2>1
      <4> QED  BY <4>1
    <3>3. Cardinality(before(Min(ids))) = 0
      BY <3>1, <3>2, FS_EmptySet
    <3> QED  BY <3>1, <3>3, EventsAssumption
  <2>5. batch \in SUBSET (0..Events)
    BY <2>1, EventsAssumption
  <2>6. Max(batch) \in batch /\ \A i \in batch : i <= Max(batch)
    <3> HIDE DEF batch
    <3> QED  BY <2>4, <2>5, EventsAssumption, MaxOfNumbers
  <2>7. ASSUME NEW e \in ids, e <= Max(batch) PROVE e \in batch
    <3>1. PICK m \in ids : m = Max(batch) /\ Cardinality(before(m)) < Batch
      BY <2>6
    <3>2. before(e) \in SUBSET before(m)
      <4>1. \A f \in ids : f < e => f < m
        <5> HIDE DEF ids
        <5> QED  BY <2>1, <2>7, <3>1
      <4> QED  BY <4>1
    <3>3. Cardinality(before(e)) <= Cardinality(before(m))
      BY <2>3, <3>2, FS_Subset
    <3>4. /\ Cardinality(before(e)) \in Nat /\ Cardinality(before(m)) \in Nat
          /\ Batch \in Nat
      BY <2>3, EventsAssumption
    <3>5. Cardinality(before(e)) < Batch
      BY <3>1, <3>3, <3>4
    <3> QED  BY <3>5
  <2>8. has \in HasOf
    <3>1. batch \ Unreadable \subseteq EventId
      BY <2>1 DEF EventId
    <3>2. \A e \in batch \ Unreadable : hinted[e] \in BOOLEAN
      BY <1>3 DEF CapturesTyped
    <3>3. has \in [batch \ Unreadable -> BOOLEAN]
      BY <3>2, Zenon
    <3> QED  BY <3>1, <3>3 DEF HasOf
  <2>9. \A e \in DOMAIN rows : e <= Max(batch) /\ e \notin DOMAIN has =>
          e <= w.cursor \/ ~Stale(e, w.rev) \/ e \in Unreadable
    <3> TAKE e \in DOMAIN rows
    <3>1. e > w.cursor \/ e <= w.cursor
      BY <1>2, <1>3, EventsAssumption
    <3> QED  BY <2>7, <3>1
  <2>10. \A e \in DOMAIN has : e \in Stored /\ has[e] = hinted[e]
    BY <1>3
  <2> DEFINE m == Max(batch)
  <2>11. m \in 0..Events
    BY <2>5, <2>6
  <2>12. GoOn(t, [at |-> "batch", rev |-> w.rev, cursor |-> m, has |-> has])
    BY <1>1, <1>5
  <2> HIDE DEF m, has, batch
  <2> QED  BY <2>8, <2>9, <2>10, <2>11, <2>12 DEF m
<1> QED  BY <1>4, <1>5

LEMMA TypedBegin ==
  ASSUME CapturesTyped, NEW t \in Worker, BeginBackfill(t)
  PROVE  CapturesTyped'
<1> DEFINE w == worker[t]
           job == IF progress'.complete THEN Nil
                  ELSE [at |-> "scan", rev |-> w.rev, cursor |-> progress'.cursor]
<1>1. w.rev \in RegistryOf
  BY JobIs DEF BeginBackfill, Doing, AtStep, Reading, Underway
<1>2. \/ progress' = [cursor |-> 0, rev |-> w.rev, complete |-> FALSE]
      \/ progress' = progress /\ progress # Nil
  BY DEF BeginBackfill, Recorded
<1>3. progress' \in ProgressOf
  <2>1. [cursor |-> 0, rev |-> w.rev, complete |-> FALSE] \in ProgressOf
    BY <1>1, EventsAssumption DEF ProgressOf
  <2> QED  BY <1>2, <2>1 DEF CapturesTyped
<1>4. job \in JobOf \cup {Nil}
  <2>1. [at |-> "scan", rev |-> w.rev, cursor |-> progress'.cursor] \in JobOf
    BY <1>1, <1>3 DEF JobOf, ProgressOf
  <2> QED  BY <2>1
<1>5. GoOn(t, job)
  BY DEF BeginBackfill
<1>6. worker' \in [Worker -> JobOf \cup {Nil}]
  BY <1>4, <1>5, JobGiven
<1>7. columns' = TRUE
      /\ UNCHANGED <<registry, hinted, rows, direct, bound, holder, dirty, formerly, rebuilt,
                     outdated>>
  BY DEF BeginBackfill, Open, marks
<1> QED  BY <1>3, <1>6, <1>7 DEF CapturesTyped, Stored

LEMMA TypedScan ==
  ASSUME CapturesTyped, NEW t \in Worker, Scan(t)
  PROVE  CapturesTyped'
<1>1. worker[t].rev \in RegistryOf
  BY JobIs DEF Scan, Doing, AtStep, Reading, Underway
<1>2. \E job \in JobOf : GoOn(t, job)
  <2>1. [at |-> "finish", rev |-> worker[t].rev] \in JobOf
    BY <1>1 DEF JobOf
  <2>2. \A m \in 0..Events, has \in HasOf :
          [at |-> "batch", rev |-> worker[t].rev, cursor |-> m, has |-> has] \in JobOf
    BY <1>1 DEF JobOf
  <2> QED  BY <2>1, <2>2, ScanIs
<1> QED  BY <1>2, JobGiven, WorkersOnly DEF Scan, CapturesTyped

\* What is left of a batch after one of its rows.
LEMMA LeftOf ==
  ASSUME NEW has \in HasOf, NEW e
  PROVE  [f \in DOMAIN has \ {e} |-> has[f]] \in HasOf
<1>1. DOMAIN has \subseteq EventId /\ \A f \in DOMAIN has : has[f] \in BOOLEAN
  BY DEF HasOf
<1>2. [f \in DOMAIN has \ {e} |-> has[f]] \in [DOMAIN has \ {e} -> BOOLEAN]
  BY <1>1, Zenon
<1> QED  BY <1>1, <1>2 DEF HasOf

LEMMA NextInBatch ==
  ASSUME NEW has \in HasOf, DOMAIN has # {}
  PROVE  Min(DOMAIN has) \in DOMAIN has /\ DOMAIN has \subseteq EventId
<1>1. DOMAIN has \subseteq EventId
  BY DEF HasOf
<1>2. DOMAIN has \in SUBSET Nat
  BY <1>1 DEF EventId
<1> QED  BY <1>1, <1>2, MinOfNumbers

LEMMA TypedRow ==
  ASSUME CapturesTyped, NEW t \in Worker, ResolveRow(t)
  PROVE  CapturesTyped'
<1> DEFINE w == worker[t]
           e == Min(DOMAIN w.has)
           row == [to |-> Resolution(e, w.has[e], registry, direct[e], bound), rev |-> w.rev]
           job == [w EXCEPT !.has = [f \in DOMAIN w.has \ {e} |-> w.has[f]]]
<1>1. AtStep(t, {"rows"}) /\ DOMAIN w.has # {} /\ GoOn(t, job)
      /\ UNCHANGED <<registry, hinted, columns, direct, bound, progress, holder, dirty, formerly,
                     rebuilt>>
      /\ outdated' \in {outdated, outdated \ {e}, outdated \cup {e}}
  BY DEF ResolveRow, Doing, AtStep
<1>2. w \in [at : {"batch", "rows"}, rev : RegistryOf, cursor : 0..Events, has : HasOf]
  <2>1. w \in JobOf /\ w.at = "rows"
    BY <1>1 DEF AtStep, CapturesTyped
  <2> QED  BY <2>1 DEF JobOf
<1>3. job \in JobOf
  BY <1>2, LeftOf DEF JobOf
<1>4. e \in EventId
  BY <1>1, <1>2, NextInBatch
<1>5. row \in RowOf
  BY <1>2, <1>4, ResolutionType DEF RowOf, CapturesTyped
<1>6. DOMAIN rows' = DOMAIN rows /\ rows' \in [DOMAIN rows' -> RowOf]
  <2>1. rows' = rows \/ rows' = [rows EXCEPT ![e] = row]
    BY DEF ResolveRow
  <2> HIDE DEF row, e
  <2> QED  BY <1>5, <2>1 DEF CapturesTyped
<1>7. worker' \in [Worker -> JobOf \cup {Nil}]
  BY <1>1, <1>3, JobGiven
<1>8. outdated' \subseteq EventId
  BY <1>1, <1>4 DEF CapturesTyped
<1> QED  BY <1>1, <1>6, <1>7, <1>8 DEF CapturesTyped, Stored

LEMMA TypedTask ==
  ASSUME CapturesTyped, NEW t \in Worker,
         \/ Schedule(t) \/ ReadPending(t) \/ LockBatch(t) \/ EndBatch(t) \/ FinishBackfill(t)
         \/ Cancel(t)
  PROVE  CapturesTyped'
<1> DEFINE w == worker[t]
<1>1. CASE Schedule(t)
  <2>1. [at |-> "pending", rev |-> registry] \in JobOf
    BY DEF JobOf, CapturesTyped
  <2> QED  BY <1>1, <2>1, JobGiven, WorkersOnly DEF Schedule, CapturesTyped
<1>2. CASE ReadPending(t)
  <2>1. w.rev \in RegistryOf
    BY <1>2, JobIs DEF ReadPending, Doing, AtStep, Reading, Underway
  <2>2. [at |-> "begin", rev |-> w.rev, migrate |-> ~columns] \in JobOf
    BY <2>1 DEF JobOf
  <2>3. \E job \in JobOf \cup {Nil} : GoOn(t, job)
    BY <1>2, <2>2 DEF ReadPending
  <2> QED  BY <1>2, <2>3, JobGiven, WorkersOnly DEF ReadPending, CapturesTyped
<1>3. CASE LockBatch(t)
  <2>1. w \in JobOf /\ w.at = "batch"
    BY <1>3 DEF LockBatch, Doing, CapturesTyped
  <2>2. [w EXCEPT !.at = "rows"] \in JobOf
    BY <2>1 DEF JobOf
  <2> QED  BY <1>3, <2>2, JobGiven, WorkersOnly DEF LockBatch, Lock
<1>4. CASE EndBatch(t)
  <2>1. w.rev \in RegistryOf /\ w.cursor \in 0..Events
    BY <1>4, JobIs DEF EndBatch, Doing, AtStep, Reading, Underway
  <2>2. [at |-> "scan", rev |-> w.rev, cursor |-> w.cursor] \in JobOf
    BY <2>1 DEF JobOf
  <2>3. worker' \in [Worker -> JobOf \cup {Nil}]
    BY <1>4, <2>2, JobGiven DEF EndBatch
  <2>4. progress' \in ProgressOf \cup {Nil}
    BY <1>4, <2>1 DEF EndBatch, Recorded, CapturesTyped, ProgressOf
  <2> QED  BY <1>4, <2>3, <2>4 DEF EndBatch, CapturesTyped, Stored, marks
<1>5. CASE FinishBackfill(t)
  <2>1. worker' \in [Worker -> JobOf \cup {Nil}]
    BY <1>5, JobGiven DEF FinishBackfill
  <2>2. progress' \in ProgressOf \cup {Nil}
    BY <1>5 DEF FinishBackfill, Marked, Recorded, CapturesTyped, ProgressOf
  <2> QED  BY <1>5, <2>1, <2>2 DEF FinishBackfill, CapturesTyped, Stored, marks
<1>6. CASE Cancel(t)
  BY <1>6, JobGiven, WorkersOnly DEF Cancel, CapturesTyped
<1> QED  BY <1>1, <1>2, <1>3, <1>4, <1>5, <1>6

LEMMA TypedStep ==
  ASSUME CapturesTyped, StoringFiles, ChosenNamed, CaptureProjectNext
  PROVE  CapturesTyped'
<1>1. CASE \E p \in Writer : WriterStep(p)
  <2>1. PICK p \in Worker : WriterStep(p)
    BY <1>1 DEF Worker
  <2> QED  BY <2>1, TypedStore, TypedResolve, TypedUpsert, TypedAssign, TypedCommit
           DEF WriterStep
<1>2. CASE \E t \in Backfiller : Backfill(t)
  <2>1. PICK t \in Worker : Backfill(t)
    BY <1>2 DEF Worker
  <2> QED  BY <2>1, TypedBegin, TypedScan, TypedRow, TypedTask DEF Backfill
<1> QED  BY <1>1, <1>2, TypedChange, TypedCrash, TypedRebuild DEF CaptureProjectNext

-----------------------------------------------------------------------------
(* The lock *)

LEMMA OthersStay ==
  ASSUME CapturesTyped, NEW p \in Worker, WriterStep(p) \/ Backfill(p) \/ Crash(p)
  PROVE  \A q \in Worker : q # p => worker'[q] = worker[q]
<1>1. (\E job : GoOn(p, job)) => \A q \in Worker : q # p => worker'[q] = worker[q]
  BY DEF GoOn, CapturesTyped
<1>2. CASE WriterStep(p)
  <2>1. \E job : GoOn(p, job)
    BY <1>2 DEF WriterStep, StoreEvent, ResolveStored, Upsert, BeginAssign, LockAssign,
       AssignRefused, CommitAssign, Released
  <2> QED  BY <1>1, <2>1
<1>3. CASE Backfill(p)
  <2>1. \E job : GoOn(p, job)
    BY <1>3 DEF Backfill, Schedule, ReadPending, BeginBackfill, Scan, LockBatch, ResolveRow,
       EndBatch, FinishBackfill, Cancel
  <2> QED  BY <1>1, <2>1
<1>4. CASE Crash(p)
  BY <1>1, <1>4 DEF Crash, Released
<1> QED  BY <1>2, <1>3, <1>4

\* What a process is at after its step, and who holds the lock.
LEMMA MovesTo ==
  ASSUME CapturesTyped, LocksHeld, NEW p \in Worker,
         WriterStep(p) \/ Backfill(p) \/ Crash(p)
  PROVE  /\ AtStep(p, UnderLock)' => holder' = p
         /\ holder' = holder \/ (holder = Nil /\ holder' = p) \/ (holder = p /\ holder' = Nil)
<1>1. worker \in [Worker -> JobOf \cup {Nil}]
  BY DEF CapturesTyped
<1>2. CASE StoreEvent(p) \/ LockAssign(p)
  BY <1>2 DEF StoreEvent, LockAssign, Lock
<1>3. CASE LockBatch(p)
  BY <1>3 DEF LockBatch, Lock
<1>4. CASE ResolveStored(p)
  BY <1>4 DEF ResolveStored, Doing, LocksHeld, AtStep, UnderLock
<1>5. CASE Upsert(p) \/ AssignRefused(p) \/ CommitAssign(p) \/ Crash(p)
  <2>1. Released(p)
    BY <1>5 DEF Upsert, AssignRefused, CommitAssign, Crash
  <2> QED  BY <1>1, <2>1 DEF Released, GoOn, AtStep
<1>6. CASE BeginAssign(p)
  <2>1. PICK job : GoOn(p, job) /\ job.at = "assign" /\ holder' = holder
    BY <1>6 DEF BeginAssign
  <2> QED  BY <1>1, <2>1 DEF GoOn, AtStep, UnderLock
<1>7. CASE Schedule(p) \/ ReadPending(p) \/ BeginBackfill(p) \/ Scan(p) \/ FinishBackfill(p)
           \/ Cancel(p)
  <2>1. PICK job : /\ GoOn(p, job) /\ holder' = holder
                   /\ job = Nil \/ job.at \in {"pending", "begin", "scan", "finish", "batch"}
    BY <1>7 DEF Schedule, ReadPending, BeginBackfill, Scan, FinishBackfill, Cancel
  <2> QED  BY <1>1, <2>1 DEF GoOn, AtStep, UnderLock
<1>8. CASE ResolveRow(p)
  BY <1>8 DEF ResolveRow, Doing, LocksHeld, AtStep, UnderLock
<1>9. CASE EndBatch(p)
  <2>1. holder = p
    BY <1>9 DEF EndBatch, Doing, LocksHeld, AtStep, UnderLock
  <2> QED  BY <1>1, <1>9, <2>1 DEF EndBatch, GoOn, AtStep, UnderLock
<1> QED
  BY <1>2, <1>3, <1>4, <1>5, <1>6, <1>7, <1>8, <1>9 DEF WriterStep, Backfill

LEMMA LocksStep ==
  ASSUME CapturesTyped, LocksHeld, CaptureProjectNext
  PROVE  LocksHeld'
<1>1. ASSUME NEW p \in Worker, WriterStep(p) \/ Backfill(p) \/ Crash(p) PROVE LocksHeld'
  <2>1. ASSUME NEW q \in Worker, AtStep(q, UnderLock)' PROVE holder' = q
    <3>1. CASE q = p
      BY <1>1, <2>1, <3>1, MovesTo
    <3>2. CASE q # p
      <4>1. holder = q
        BY <1>1, <2>1, <3>2, OthersStay DEF AtStep, LocksHeld
      <4>2. q # Nil
        BY WorkerAssumption
      <4> QED  BY <1>1, <3>2, <4>1, <4>2, MovesTo
    <3> QED  BY <3>1, <3>2
  <2> QED  BY <2>1 DEF LocksHeld
<1>2. CASE ChangeRegistry \/ Rebuild
  BY <1>2 DEF ChangeRegistry, Rebuild, LocksHeld, AtStep
<1> QED  BY <1>1, <1>2 DEF CaptureProjectNext, Worker

-----------------------------------------------------------------------------
(* Revisions *)

\* What a process goes on with has the revision that it had or that of now.
LEMMA MovesRevision ==
  ASSUME CapturesTyped, Aged, NEW p \in Worker, WriterStep(p) \/ Backfill(p) \/ Crash(p)
  PROVE  /\ AtStep(p, Reading)' => worker'[p].rev \in EverRegistry
         /\ AtStep(p, {"commit"})' => worker'[p].reg \in EverRegistry
<1>1. worker \in [Worker -> JobOf \cup {Nil}] /\ registry \in EverRegistry
  BY DEF CapturesTyped, EverRegistry
<1> DEFINE job == worker'[p]
<1>2. \/ job = Nil
      \/ job.at \in {"resolve", "pending"} /\ job.rev = registry
      \/ job.at = "assign"
      \/ job.at = "commit" /\ job.reg = registry
      \/ job.at \in Reading /\ AtStep(p, Reading) /\ job.rev = worker[p].rev
  <2>1. CASE StoreEvent(p) \/ Schedule(p)
    <3>1. \/ \E e : GoOn(p, [at |-> "resolve", ev |-> e, rev |-> registry])
          \/ GoOn(p, [at |-> "pending", rev |-> registry])
      BY <2>1 DEF StoreEvent, Schedule
    <3> QED  BY <1>1, <3>1 DEF GoOn
  <2>2. CASE BeginAssign(p)
    <3>1. \E j : GoOn(p, j) /\ j.at = "assign"
      BY <2>2 DEF BeginAssign
    <3> QED  BY <1>1, <3>1 DEF GoOn
  <2>3. CASE LockAssign(p)
    BY <1>1, <2>3 DEF LockAssign, GoOn
  <2>4. CASE Upsert(p) \/ AssignRefused(p) \/ CommitAssign(p) \/ Crash(p) \/ Cancel(p)
    BY <1>1, <2>4 DEF Upsert, AssignRefused, CommitAssign, Crash, Cancel, Released, GoOn
  <2>5. CASE ResolveStored(p) \/ ReadPending(p) \/ BeginBackfill(p) \/ Scan(p) \/ FinishBackfill(p)
             \/ EndBatch(p)
    <3>1. AtStep(p, Reading)
      BY <2>5 DEF ResolveStored, ReadPending, BeginBackfill, Scan, FinishBackfill, EndBatch,
         Doing, AtStep, Reading, Underway
    <3>2. \E j : GoOn(p, j) /\ (j = Nil \/ (j.at \in Reading /\ j.rev = worker[p].rev))
      BY <2>5 DEF ResolveStored, ReadPending, BeginBackfill, Scan, FinishBackfill, EndBatch,
         Reading, Underway
    <3> QED  BY <1>1, <3>1, <3>2 DEF GoOn
  <2>6. CASE LockBatch(p) \/ ResolveRow(p)
    <3>1. AtStep(p, {"batch", "rows"}) /\ AtStep(p, Reading)
      BY <2>6 DEF LockBatch, ResolveRow, Doing, AtStep, Reading, Underway
    <3>2. worker[p] \in [at : {"batch", "rows"}, rev : RegistryOf, cursor : 0..Events, has : HasOf]
      <4>1. worker[p] \in JobOf /\ worker[p].at \in {"batch", "rows"}
        BY <1>1, <3>1 DEF AtStep
      <4> QED  BY <4>1 DEF JobOf
    <3>3. \E j : GoOn(p, j) /\ j.at \in Reading /\ j.rev = worker[p].rev
      <4>1. CASE LockBatch(p)
        BY <3>2, <4>1 DEF LockBatch, Reading, Underway
      <4>2. CASE ResolveRow(p)
        BY <3>1, <3>2, <4>2 DEF ResolveRow, Reading, Underway
      <4> QED  BY <2>6, <4>1, <4>2
    <3> QED  BY <1>1, <3>1, <3>3 DEF GoOn
  <2> QED  BY <2>1, <2>2, <2>3, <2>4, <2>5, <2>6 DEF WriterStep, Backfill
<1>3. "commit" \notin Reading /\ "assign" \notin Reading
  BY DEF Reading, Underway
<1>4. AtStep(p, {"commit"})' => job # Nil /\ job.at = "commit"
  BY DEF AtStep
<1>5. AtStep(p, Reading)' => job # Nil /\ job.at \in Reading
  BY DEF AtStep, Reading, Underway
<1>6. AtStep(p, Reading) => worker[p].rev \in EverRegistry
  BY DEF Aged
<1> QED  BY <1>1, <1>2, <1>3, <1>4, <1>5, <1>6

\* Rows and record have revisions that they had or that some process has read.
LEMMA WritesRevision ==
  ASSUME CapturesTyped, Aged, NEW p \in Worker, WriterStep(p) \/ Backfill(p) \/ Crash(p)
  PROVE  /\ \A e \in DOMAIN rows' : rows'[e].rev \in EverRegistry \cup {Nil, Unresolved}
         /\ progress' # Nil => progress'.rev \in EverRegistry
<1>1. \A e \in DOMAIN rows : rows[e].rev \in EverRegistry \cup {Nil, Unresolved}
  BY DEF Aged
<1>2. progress # Nil => progress.rev \in EverRegistry
  BY DEF Aged
<1>3. CASE UNCHANGED <<rows, progress>>
  BY <1>1, <1>2, <1>3
<1>4. CASE Upsert(p)
  <2>1. worker[p].rev \in EverRegistry
    BY <1>4 DEF Upsert, Doing, Aged, AtStep, Reading
  <2> QED  BY <1>1, <1>2, <1>4, <2>1 DEF Upsert, Upserted
<1>5. CASE CommitAssign(p)
  <2>1. \A e \in DOMAIN rows : rows[e] \in RowOf
    BY DEF CapturesTyped
  <2>2. DOMAIN rows' = DOMAIN rows /\ \A e \in DOMAIN rows' : rows'[e].rev = rows[e].rev
    BY <1>5, <2>1 DEF CommitAssign, RowOf
  <2> QED  BY <1>1, <1>2, <1>5, <2>2 DEF CommitAssign
<1>6. CASE BeginBackfill(p)
  <2>1. worker[p].rev \in EverRegistry
    BY <1>6 DEF BeginBackfill, Doing, Aged, AtStep, Reading
  <2>2. progress' \in {progress, [cursor |-> 0, rev |-> worker[p].rev, complete |-> FALSE]}
        /\ rows' = rows
    BY <1>6 DEF BeginBackfill
  <2> QED  BY <1>1, <1>2, <2>1, <2>2
<1>7. CASE ResolveRow(p)
  <2>1. worker[p].rev \in EverRegistry /\ rows \in [DOMAIN rows -> RowOf]
    BY <1>7 DEF ResolveRow, Doing, Aged, AtStep, Reading, Underway, CapturesTyped
  <2>2. progress' = progress
        /\ \E e, to : rows' = rows \/ rows' = [rows EXCEPT ![e] = [to |-> to, rev |-> worker[p].rev]]
    BY <1>7 DEF ResolveRow
  <2> QED  BY <1>1, <1>2, <2>1, <2>2
<1>8. CASE EndBatch(p) \/ FinishBackfill(p)
  <2>1. progress # Nil => progress \in ProgressOf
    BY DEF CapturesTyped
  <2>2. rows' = rows /\ (progress' # progress => progress # Nil /\ progress'.rev = progress.rev)
    BY <1>8, <2>1 DEF EndBatch, FinishBackfill, Marked, Recorded, ProgressOf
  <2> QED  BY <1>1, <1>2, <2>2
<1>9. \/ UNCHANGED <<rows, progress>>
      \/ Upsert(p) \/ CommitAssign(p) \/ BeginBackfill(p) \/ ResolveRow(p) \/ EndBatch(p)
      \/ FinishBackfill(p)
  BY DEF WriterStep, Backfill, Crash, StoreEvent, ResolveStored, BeginAssign, LockAssign,
     AssignRefused, Schedule, ReadPending, Scan, LockBatch, Cancel
<1> QED  BY <1>3, <1>4, <1>5, <1>6, <1>7, <1>8, <1>9

LEMMA AgedStep ==
  ASSUME CapturesTyped, Aged, CaptureProjectNext
  PROVE  Aged'
<1>1. ASSUME NEW p \in Worker, WriterStep(p) \/ Backfill(p) \/ Crash(p) PROVE Aged'
  <2>1. EverRegistry' = EverRegistry
    BY <1>1 DEF WriterStep, Backfill, Crash, StoreEvent, ResolveStored, Upsert, BeginAssign,
       LockAssign, AssignRefused, CommitAssign, Schedule, ReadPending, BeginBackfill, Scan,
       LockBatch, ResolveRow, EndBatch, FinishBackfill, Cancel, marks, EverRegistry
  <2>2. ASSUME NEW q \in Worker
        PROVE  /\ AtStep(q, Reading)' => worker'[q].rev \in EverRegistry'
               /\ AtStep(q, {"commit"})' => worker'[q].reg \in EverRegistry'
    <3>1. CASE q = p
      BY <1>1, <2>1, <3>1, MovesRevision
    <3>2. CASE q # p
      BY <1>1, <2>1, <3>2, OthersStay DEF AtStep, Aged, Reading, Underway
    <3> QED  BY <3>1, <3>2
  <2> QED  BY <1>1, <2>1, <2>2, WritesRevision DEF Aged
<1>2. CASE ChangeRegistry
  <2>1. EverRegistry \subseteq EverRegistry'
    BY <1>2 DEF ChangeRegistry, EverRegistry
  <2>2. UNCHANGED <<rows, progress, worker>>
    BY <1>2 DEF ChangeRegistry
  <2> QED  BY <2>1, <2>2 DEF Aged, AtStep, Reading, Underway
<1>3. CASE Rebuild
  <2>1. /\ EverRegistry' = EverRegistry /\ worker' = worker /\ progress' = Nil
        /\ \A e \in DOMAIN rows' : rows'[e].rev = Nil
    BY <1>3 DEF Rebuild, EverRegistry
  <2> QED  BY <2>1 DEF Aged, AtStep, Reading, Underway
<1> QED  BY <1>1, <1>2, <1>3 DEF CaptureProjectNext, Worker

\* What a process may come to hold the lock with.
LEMMA MovesOfNow ==
  ASSUME CapturesTyped, NEW p \in Worker, WriterStep(p) \/ Backfill(p) \/ Crash(p)
  PROVE  /\ AtStep(p, {"resolve", "upsert"})' =>
              \/ worker'[p].rev = registry
              \/ AtStep(p, {"resolve"}) /\ worker'[p].rev = worker[p].rev
         /\ AtStep(p, {"commit"})' => worker'[p].reg = registry
         /\ AtStep(p, {"upsert"})' => ResolveStored(p)
         /\ AtStep(p, {"resolve"})' => StoreEvent(p)
<1>1. worker \in [Worker -> JobOf \cup {Nil}]
  BY DEF CapturesTyped
<1>2. CASE StoreEvent(p)
  <2>1. PICK e : GoOn(p, [at |-> "resolve", ev |-> e, rev |-> registry])
    BY <1>2 DEF StoreEvent
  <2>2. worker'[p].at = "resolve" /\ worker'[p].rev = registry
    BY <1>1, <2>1 DEF GoOn
  <2> QED  BY <1>2, <2>2 DEF AtStep
<1>3. CASE ResolveStored(p)
  BY <1>1, <1>3 DEF ResolveStored, Doing, GoOn, AtStep
<1>4. CASE LockAssign(p)
  BY <1>1, <1>4 DEF LockAssign, GoOn, AtStep
<1>5. CASE BeginAssign(p)
  <2>1. PICK job : GoOn(p, job) /\ job.at = "assign"
    BY <1>5 DEF BeginAssign
  <2>2. worker'[p].at = "assign"
    BY <1>1, <2>1 DEF GoOn
  <2> QED  BY <2>2 DEF AtStep
<1>6. CASE LockBatch(p) \/ ResolveRow(p)
  <2>1. worker[p].at \in {"batch", "rows"} /\ worker[p] # Nil
    BY <1>6 DEF LockBatch, ResolveRow, Doing
  <2>2. worker[p] \in [at : {"batch", "rows"}, rev : RegistryOf, cursor : 0..Events, has : HasOf]
    <3>1. worker[p] \in JobOf
      BY <1>1, <2>1
    <3> QED  BY <2>1, <3>1 DEF JobOf
  <2>3. worker'[p].at = "rows"
    <3>1. CASE LockBatch(p)
      BY <1>1, <2>2, <3>1 DEF LockBatch, GoOn
    <3>2. CASE ResolveRow(p)
      BY <1>1, <2>2, <3>2 DEF ResolveRow, Doing, GoOn
    <3> QED  BY <1>6, <3>1, <3>2
  <2> QED  BY <2>3 DEF AtStep
<1>7. CASE \/ Upsert(p) \/ AssignRefused(p) \/ CommitAssign(p) \/ Crash(p) \/ Cancel(p)
           \/ Schedule(p) \/ ReadPending(p) \/ BeginBackfill(p) \/ Scan(p) \/ EndBatch(p)
           \/ FinishBackfill(p)
  <2>1. PICK job : GoOn(p, job) /\ (job = Nil \/ job.at \in Reading \ UnderLock)
    BY <1>7 DEF Upsert, AssignRefused, CommitAssign, Crash, Cancel, Released, Schedule,
       ReadPending, BeginBackfill, Scan, EndBatch, FinishBackfill, Reading, Underway, UnderLock
  <2>2. worker'[p] = job
    BY <1>1, <2>1 DEF GoOn
  <2> QED  BY <2>1, <2>2 DEF AtStep, Reading, Underway, UnderLock
<1> QED  BY <1>2, <1>3, <1>4, <1>5, <1>6, <1>7 DEF WriterStep, Backfill

-----------------------------------------------------------------------------
(* Files *)

LEMMA StoreIs ==
  ASSUME NEW p \in Worker, StoreEvent(p)
  PROVE  \E e \in Stored' \ Unreadable :
           /\ \A f \in Stored \ {e} : hinted'[f] = hinted[f]
           /\ Stored \subseteq Stored' /\ outdated' = outdated \cup {e} \cup Beside(e)
           /\ GoOn(p, [at |-> "resolve", ev |-> e, rev |-> registry])
<1>1. PICK e \in EventId \ Unreadable : \E has :
        /\ hinted' = [f \in Stored \cup {e} |-> IF f = e THEN has ELSE hinted[f]]
        /\ outdated' = outdated \cup {e} \cup Beside(e)
        /\ GoOn(p, [at |-> "resolve", ev |-> e, rev |-> registry])
  BY DEF StoreEvent
<1>2. Stored' = Stored \cup {e}
  BY <1>1 DEF Stored
<1> QED  BY <1>1, <1>2

LEMMA StoredGrows == ASSUME CaptureProjectNext PROVE Stored \subseteq Stored'
<1>1. CASE \E p \in Worker : StoreEvent(p)
  BY <1>1, StoreIs
<1>2. CASE \A p \in Worker : ~StoreEvent(p)
  <2>1. hinted' = hinted
    BY <1>2 DEF CaptureProjectNext, ChangeRegistry, Rebuild, Crash, WriterStep, Backfill,
       ResolveStored, Upsert, BeginAssign, LockAssign, AssignRefused, CommitAssign, Schedule,
       ReadPending, BeginBackfill, Scan, LockBatch, ResolveRow, EndBatch, FinishBackfill,
       Cancel, Worker
  <2> QED  BY <2>1 DEF Stored
<1> QED  BY <1>1, <1>2

LEMMA MovesFile ==
  ASSUME CapturesTyped, StoringFiles, NEW p \in Worker, WriterStep(p) \/ Backfill(p) \/ Crash(p)
  PROVE  HasFile(p)'
<1>1. worker \in [Worker -> JobOf \cup {Nil}]
  BY DEF CapturesTyped
<1>2. CASE StoreEvent(p)
  <2>1. PICK e \in Stored' : GoOn(p, [at |-> "resolve", ev |-> e, rev |-> registry])
    BY <1>2, StoreIs
  <2> QED  BY <1>1, <2>1 DEF GoOn, AtStep, HasFile
<1>3. CASE ResolveStored(p)
  BY <1>1, <1>3 DEF ResolveStored, Doing, GoOn, AtStep, StoringFiles, HasFile, Stored
<1>4. CASE ~StoreEvent(p) /\ ~ResolveStored(p)
  <2>1. ~AtStep(p, {"upsert"})' /\ ~AtStep(p, {"resolve"})'
    BY <1>1, <1>4, MovesOfNow DEF AtStep
  <2> QED  BY <2>1 DEF HasFile, AtStep
<1> QED  BY <1>2, <1>3, <1>4

LEMMA FilesStep ==
  ASSUME CapturesTyped, StoringFiles, CaptureProjectNext
  PROVE  StoringFiles'
<1>1. ASSUME NEW q \in Worker, worker'[q] = worker[q] PROVE HasFile(q)'
  BY <1>1, StoredGrows DEF StoringFiles, HasFile, AtStep
<1>2. CASE ChangeRegistry \/ Rebuild
  <2>1. worker' = worker
    BY <1>2 DEF ChangeRegistry, Rebuild
  <2> QED  BY <1>1, <2>1 DEF StoringFiles
<1>3. CASE \E p \in Worker : WriterStep(p) \/ Backfill(p) \/ Crash(p)
  BY <1>1, <1>3, MovesFile, OthersStay DEF StoringFiles
<1> QED  BY <1>2, <1>3 DEF CaptureProjectNext, Worker

-----------------------------------------------------------------------------
(* Rows *)

\* A row stays, and keeps its revision but for an upsert, a task and a rebuild.
LEMMA RowsGrow ==
  ASSUME CapturesTyped, CaptureProjectNext
  PROVE  /\ DOMAIN rows \subseteq DOMAIN rows'
         /\ (\A p \in Worker : ~Upsert(p) /\ ~ResolveRow(p)) /\ ~Rebuild =>
              DOMAIN rows' = DOMAIN rows /\ \A e \in DOMAIN rows : rows'[e].rev = rows[e].rev
<1>1. \A e \in DOMAIN rows : rows[e] \in RowOf
  BY DEF CapturesTyped
<1>2. CASE UNCHANGED rows
  BY <1>2
<1>3. ASSUME NEW p \in Worker, Upsert(p) PROVE DOMAIN rows \subseteq DOMAIN rows'
  BY <1>3 DEF Upsert, Upserted
<1>4. ASSUME NEW p \in Worker, CommitAssign(p)
      PROVE  DOMAIN rows' = DOMAIN rows /\ \A e \in DOMAIN rows : rows'[e].rev = rows[e].rev
  BY <1>1, <1>4 DEF CommitAssign, RowOf
<1>5. ASSUME NEW p \in Worker, ResolveRow(p) PROVE DOMAIN rows \subseteq DOMAIN rows'
  BY <1>5 DEF ResolveRow
<1>6. CASE Rebuild
  BY <1>6 DEF Rebuild, CapturesTyped
<1>7. \/ UNCHANGED rows
      \/ \E p \in Worker : Upsert(p) \/ CommitAssign(p) \/ ResolveRow(p)
      \/ Rebuild
  BY DEF CaptureProjectNext, ChangeRegistry, WriterStep, Backfill, Crash, StoreEvent,
     ResolveStored, BeginAssign, LockAssign, AssignRefused, Schedule, ReadPending,
     BeginBackfill, Scan, LockBatch, EndBatch, FinishBackfill, Cancel, Worker
<1> QED  BY <1>2, <1>3, <1>4, <1>5, <1>6, <1>7

LEMMA NamedStep ==
  ASSUME CapturesTyped, ChosenNamed, CaptureProjectNext
  PROVE  ChosenNamed'
<1>1. worker \in [Worker -> JobOf \cup {Nil}]
  BY DEF CapturesTyped
<1>3. ASSUME NEW q \in Worker, worker'[q] = worker[q] PROVE WellNamed(q)'
  <2>1. WellNamed(q)
    BY DEF ChosenNamed
  <2>2. DOMAIN rows \subseteq DOMAIN rows'
    BY RowsGrow
  <2> QED  BY <1>3, <2>1, <2>2 DEF WellNamed, AtStep, Threaded
<1>4. ASSUME NEW p \in Worker, WriterStep(p) \/ Backfill(p) \/ Crash(p) PROVE WellNamed(p)'
  <2>1. CASE BeginAssign(p)
    <3>1. PICK a \in Assignment : \E to :
            GoOn(p, [at |-> "assign", ids |-> a.ids, thread |-> a.thread, to |-> to])
      BY <2>1 DEF BeginAssign
    <3>2. worker'[p].at = "assign" /\ worker'[p].ids = a.ids /\ worker'[p].thread = a.thread
      BY <1>1, <3>1 DEF GoOn
    <3> QED  BY <3>2, AssignmentAssumption DEF WellNamed
  <2>2. CASE LockAssign(p)
    <3> DEFINE w == worker[p]
    <3>1. /\ worker'[p].at = "commit" /\ worker'[p].ids = w.ids
          /\ worker'[p].thread = w.thread /\ rows' = rows
      BY <1>1, <2>2 DEF LockAssign, GoOn
    <3>2. w.ids # {} \/ w.thread # Nil
      BY <2>2 DEF LockAssign, Doing, ChosenNamed, WellNamed, AtStep
    <3>3. w.thread # Nil => w.ids \subseteq Threaded(w.thread) /\ Threaded(w.thread) # {}
      BY <2>2 DEF LockAssign, MayAssign, Chosen, Threaded
    <3> QED  BY <3>1, <3>2, <3>3 DEF WellNamed, Threaded
  <2>3. CASE LockBatch(p) \/ ResolveRow(p)
    <3>1. AtStep(p, {"batch", "rows"})
      BY <2>3 DEF LockBatch, ResolveRow, Doing, AtStep
    <3>2. worker[p] \in [at : {"batch", "rows"}, rev : RegistryOf, cursor : 0..Events, has : HasOf]
      <4>1. worker[p] \in JobOf /\ worker[p].at \in {"batch", "rows"}
        BY <1>1, <3>1 DEF AtStep
      <4> QED  BY <4>1 DEF JobOf
    <3>3. worker'[p].at = "rows"
      <4>1. CASE LockBatch(p)
        BY <1>1, <3>2, <4>1 DEF LockBatch, GoOn
      <4>2. CASE ResolveRow(p)
        BY <1>1, <3>2, <4>2 DEF ResolveRow, Doing, GoOn
      <4> QED  BY <2>3, <4>1, <4>2
    <3> QED  BY <3>3 DEF WellNamed, AtStep
  <2>4. CASE Upsert(p) \/ AssignRefused(p) \/ CommitAssign(p) \/ Crash(p) \/ Cancel(p)
    <3>1. worker'[p] = Nil
      BY <1>1, <2>4 DEF Upsert, AssignRefused, CommitAssign, Crash, Cancel, Released, GoOn
    <3> QED  BY <3>1 DEF AtStep, WellNamed
  <2>5. CASE \/ StoreEvent(p) \/ ResolveStored(p) \/ Schedule(p) \/ ReadPending(p)
             \/ BeginBackfill(p) \/ Scan(p) \/ EndBatch(p) \/ FinishBackfill(p)
    <3>1. PICK job : GoOn(p, job) /\ (job = Nil \/ job.at \in {"resolve"} \cup (Reading \ {"rows"}))
      <4>1. CASE StoreEvent(p)
        <5>1. PICK e : GoOn(p, [at |-> "resolve", ev |-> e, rev |-> registry])
          BY <4>1 DEF StoreEvent
        <5> QED  BY <5>1
      <4>2. CASE ~StoreEvent(p)
        BY <2>5, <4>2 DEF ResolveStored, Schedule, ReadPending, BeginBackfill, Scan, EndBatch,
           FinishBackfill, Reading, Underway
      <4> QED  BY <4>1, <4>2
    <3>2. worker'[p] = job
      BY <1>1, <3>1 DEF GoOn
    <3> QED  BY <3>1, <3>2 DEF AtStep, WellNamed, Reading, Underway
  <2> QED  BY <1>4, <2>1, <2>2, <2>3, <2>4, <2>5 DEF WriterStep, Backfill
<1>5. CASE ChangeRegistry \/ Rebuild
  <2>1. worker' = worker
    BY <1>5 DEF ChangeRegistry, Rebuild
  <2> QED  BY <1>3, <2>1 DEF ChosenNamed
<1>6. CASE \E p \in Worker : WriterStep(p) \/ Backfill(p) \/ Crash(p)
  BY <1>3, <1>4, <1>6, OthersStay DEF ChosenNamed
<1> QED  BY <1>5, <1>6 DEF CaptureProjectNext, Worker

LEMMA UnstartedStep ==
  ASSUME CapturesTyped, Unstarted, CaptureProjectNext
  PROVE  Unstarted'
<1> SUFFICES ASSUME progress' = Nil, ~rebuilt'
             PROVE  /\ \A e \in DOMAIN rows' : rows'[e].rev = Unresolved
                    /\ \A p \in Worker : ~AtStep(p, Underway)'
  BY DEF Unstarted, AtStep, Underway
<1>1. worker \in [Worker -> JobOf \cup {Nil}]
  BY DEF CapturesTyped
<1>2. ~Rebuild
  BY DEF Rebuild
<1>3. rebuilt' = rebuilt
  BY <1>2 DEF CaptureProjectNext, ChangeRegistry, WriterStep, Backfill, Crash, StoreEvent,
     ResolveStored, Upsert, BeginAssign, LockAssign, AssignRefused, CommitAssign, Schedule,
     ReadPending, BeginBackfill, Scan, LockBatch, ResolveRow, EndBatch, FinishBackfill, Cancel,
     marks
<1>4. ASSUME NEW p \in Worker, Upsert(p) \/ BeginBackfill(p) PROVE progress' # Nil
  <2>1. worker[p].rev \in RegistryOf
    BY <1>4, JobIs DEF Upsert, BeginBackfill, Doing, AtStep, Reading, Underway
  <2>2. \/ progress' = progress /\ progress # Nil
        \/ \E c \in BOOLEAN : progress' = [cursor |-> 0, rev |-> worker[p].rev, complete |-> c]
    <3>1. CASE Upsert(p)
      <4>1. (\A f \in DOMAIN rows' : Unresolved \notin {rows'[f].to, rows'[f].rev}) \in BOOLEAN
        OBVIOUS
      <4> QED  BY <3>1, <4>1 DEF Upsert
    <3>2. CASE BeginBackfill(p)
      BY <3>2 DEF BeginBackfill, Recorded
    <3> QED  BY <1>4, <3>1, <3>2
  <2> QED  BY <2>1, <2>2, WorkerAssumption
<1>5. \A p \in Worker : ~Upsert(p) /\ ~BeginBackfill(p)
  BY <1>4
<1>6. progress = Nil
  <2>1. progress \in ProgressOf \cup {Nil}
    BY DEF CapturesTyped
  <2>2. CASE UNCHANGED progress
    BY <2>2
  <2>3. ASSUME NEW p \in Worker, EndBatch(p) \/ FinishBackfill(p) PROVE progress = Nil
    <3>1. progress = Nil \/ progress' \in ProgressOf
      <4>1. worker[p].cursor \in 0..Events \/ FinishBackfill(p)
        BY <2>3, JobIs DEF EndBatch, Doing, AtStep
      <4> QED  BY <2>1, <2>3, <4>1 DEF EndBatch, FinishBackfill, Marked, Recorded, ProgressOf
    <3>2. Nil \notin ProgressOf
      BY WorkerAssumption, EventsAssumption DEF ProgressOf
    <3> QED  BY <3>1, <3>2
  <2>4. UNCHANGED progress \/ \E p \in Worker : EndBatch(p) \/ FinishBackfill(p)
    BY <1>2, <1>5 DEF CaptureProjectNext, ChangeRegistry, WriterStep, Backfill, Crash,
       StoreEvent, ResolveStored, BeginAssign, LockAssign, AssignRefused, CommitAssign, Schedule,
       ReadPending, Scan, LockBatch, ResolveRow, Cancel, Worker
  <2> QED  BY <2>2, <2>3, <2>4
<1>7. /\ \A e \in DOMAIN rows : rows[e].rev = Unresolved
      /\ \A p \in Worker : ~AtStep(p, Underway)
  BY <1>3, <1>6 DEF Unstarted
<1>8. ASSUME NEW p \in Worker
      PROVE  ~Scan(p) /\ ~LockBatch(p) /\ ~ResolveRow(p) /\ ~EndBatch(p) /\ ~FinishBackfill(p)
  BY <1>7 DEF Scan, LockBatch, ResolveRow, EndBatch, FinishBackfill, Doing, AtStep, Underway
<1>9. \A e \in DOMAIN rows' : rows'[e].rev = Unresolved
  BY <1>2, <1>5, <1>7, <1>8, RowsGrow
<1>10. ASSUME NEW q \in Worker, AtStep(q, Underway)' PROVE FALSE
  <2>1. CASE worker'[q] = worker[q]
    BY <1>7, <1>10, <2>1 DEF AtStep, Underway
  <2>2. CASE WriterStep(q) \/ Backfill(q) \/ Crash(q)
    <3>1. CASE StoreEvent(q)
      <4>1. PICK e : GoOn(q, [at |-> "resolve", ev |-> e, rev |-> registry])
        BY <3>1 DEF StoreEvent
      <4>2. worker'[q].at = "resolve"
        BY <1>1, <4>1 DEF GoOn
      <4> QED  BY <1>10, <4>2 DEF AtStep, Underway
    <3>2. CASE BeginAssign(q)
      <4>1. PICK job : GoOn(q, job) /\ job.at = "assign"
        BY <3>2 DEF BeginAssign
      <4>2. worker'[q].at = "assign"
        BY <1>1, <4>1 DEF GoOn
      <4> QED  BY <1>10, <4>2 DEF AtStep, Underway
    <3>3. CASE \/ ResolveStored(q) \/ AssignRefused(q) \/ CommitAssign(q) \/ Crash(q)
               \/ Cancel(q) \/ LockAssign(q) \/ Schedule(q) \/ ReadPending(q)
      <4>1. PICK job : /\ GoOn(q, job)
                       /\ job = Nil \/ job.at \in {"upsert", "commit", "pending", "begin"}
        BY <3>3 DEF ResolveStored, AssignRefused, CommitAssign, Crash, Cancel, Released,
           LockAssign, Schedule, ReadPending
      <4>2. worker'[q] = job
        BY <1>1, <4>1 DEF GoOn
      <4> QED  BY <1>10, <4>1, <4>2 DEF AtStep, Underway
    <3> QED  BY <1>5, <1>8, <2>2, <3>1, <3>2, <3>3 DEF WriterStep, Backfill
  <2>3. (\E p \in Worker : p # q /\ (WriterStep(p) \/ Backfill(p) \/ Crash(p)))
          => worker'[q] = worker[q]
    BY OthersStay
  <2>4. ChangeRegistry => worker' = worker
    BY DEF ChangeRegistry
  <2> QED  BY <1>2, <2>1, <2>2, <2>3, <2>4 DEF CaptureProjectNext, Worker
<1> QED  BY <1>9, <1>10

-----------------------------------------------------------------------------
(* What is right stays right *)

\* Who holds the lock is alone with it.
LEMMA AloneUnderLock ==
  ASSUME LocksHeld, NEW p \in Worker, NEW q \in Worker, p # q,
         AtStep(p, UnderLock) \/ holder = Nil
  PROVE  ~AtStep(q, UnderLock)
BY WorkerAssumption DEF LocksHeld

LEMMA RightSame ==
  ASSUME CapturesTyped, NEW e \in DOMAIN rows, Right(e), DOMAIN rows' = DOMAIN rows,
         rows'[e] = rows[e], UNCHANGED <<registry, hinted, direct, bound>>,
         e \in outdated' <=> e \in outdated
  PROVE  Right(e)'
<1>1. Bindings(e, bound)' = Bindings(e, bound) /\ bound \in Seq(BindingOf)
  BY DEF Bindings, CapturesTyped
<1>2. Live(e)' = Live(e)
  BY <1>1, LiveSame
<1> QED  BY <1>2 DEF Right

\* A turn's project is as it was for all but those beside it.
LEMMA LiveApart ==
  ASSUME CapturesTyped, NEW d \in EventId, NEW e \in DOMAIN rows \ Beside(d), e # d,
         UNCHANGED <<registry, direct, bound>>,
         \A f \in Stored \ {d} : hinted'[f] = hinted[f],
         \A f : f # d => (f \in DOMAIN rows' <=> f \in DOMAIN rows)
  PROVE  Live(e)' = Live(e)
<1>1. Bindings(e, bound)' = Bindings(e, bound) /\ bound \in Seq(BindingOf)
  BY DEF Bindings, CapturesTyped
<1>2. DOMAIN rows \subseteq Stored
  BY DEF CapturesTyped
<1>3. Bindings(e, bound) # {} /\ direct[e] = Nil => Shape[e].thread # Shape[d].thread
  BY DEF Beside
<1> QED  BY <1>1, <1>2, <1>3, LiveSame

LEMMA RightStored ==
  ASSUME CapturesBase, NEW p \in Worker, StoreEvent(p), NEW e \in DOMAIN rows, Right(e)
  PROVE  Right(e)'
<1> SUFFICES ASSUME e \notin Unreadable \cup outdated' PROVE rows'[e].to = Live(e)'
  BY DEF Right
<1>1. PICK d \in Stored' : /\ \A f \in Stored \ {d} : hinted'[f] = hinted[f]
                           /\ outdated' = outdated \cup {d} \cup Beside(d)
  BY StoreIs
<1>2. UNCHANGED <<registry, direct, bound, rows>> /\ CapturesTyped /\ d \in EventId
  BY <1>1, TypedStore DEF StoreEvent, CapturesBase, CapturesTyped
<1>3. e # d /\ e \notin Beside(d) /\ e \notin outdated
  BY <1>1
<1>4. Live(e)' = Live(e)
  BY <1>1, <1>2, <1>3, LiveApart
<1> QED  BY <1>2, <1>3, <1>4 DEF Right

\* A row that is resolved now by what its file says is right.
LEMMA RightResolved ==
  ASSUME CapturesBase, NEW p \in Worker, ResolveRow(p), NEW e \in DOMAIN rows,
         e = Min(DOMAIN worker[p].has), Stale(e, worker[p].rev)
  PROVE  Right(e)'
<1> DEFINE w == worker[p]
<1>1. e = Min(DOMAIN w.has)
  OBVIOUS
<1>2. /\ rows' = [rows EXCEPT ![e] =
                    [to |-> Resolution(e, w.has[e], registry, direct[e], bound), rev |-> w.rev]]
      /\ outdated' = IF w.has[e] = hinted[e] THEN outdated \ {e} ELSE outdated \cup {e}
      /\ UNCHANGED <<registry, hinted, direct, bound>>
  BY <1>1 DEF ResolveRow
<1> SUFFICES ASSUME e \notin outdated' PROVE rows'[e].to = Live(e)'
  BY DEF Right
<1>3. w.has[e] = hinted[e] /\ rows'[e].to = Live(e)
  BY <1>2 DEF Live
<1>4. DOMAIN rows' = DOMAIN rows /\ bound \in Seq(BindingOf)
  BY <1>2 DEF CapturesBase, CapturesTyped
<1>5. Bindings(e, bound)' = Bindings(e, bound)
  BY <1>2 DEF Bindings
<1>6. Live(e)' = Live(e)
  BY <1>2, <1>4, <1>5, LiveSame
<1> QED  BY <1>3, <1>6

\* What a store writes is right if it was resolved by the registry of now, and so is
\* what was before.
LEMMA RightUpserted ==
  ASSUME CapturesBase, UpsertRight, NEW p \in Worker, Upsert(p), NEW e \in DOMAIN rows',
         IF e = worker[p].ev THEN worker[p].rev = registry ELSE Right(e)
  PROVE  Right(e)'
<1> DEFINE w == worker[p]
<1>1. /\ AtStep(p, {"upsert"}) /\ CapturesTyped /\ w.ev \in EventId \ Unreadable
      /\ rows' = [f \in DOMAIN rows \cup {w.ev} |->
                    IF f = w.ev THEN [to |-> w.to, rev |-> w.rev] ELSE rows[f]]
      /\ outdated' = (outdated \cup Beside(w.ev)) \ {w.ev}
      /\ UNCHANGED <<registry, hinted, direct, bound>>
  BY JobIs DEF Upsert, Upserted, Doing, AtStep, CapturesBase
<1>2. \A f : f # w.ev => (f \in DOMAIN rows' <=> f \in DOMAIN rows)
  BY <1>1
<1>3. CASE e = w.ev
  <2>1. rows'[e].to = Live(e)
    BY <1>1, <1>3 DEF UpsertRight
  <2>2. Bindings(e, bound)' = Bindings(e, bound) /\ bound \in Seq(BindingOf)
    BY <1>1 DEF Bindings, CapturesTyped
  <2>3. Live(e)' = Live(e)
    BY <1>1, <1>2, <1>3, <2>2, LiveSame
  <2> QED  BY <2>1, <2>3 DEF Right
<1>4. CASE e # w.ev
  <2> SUFFICES ASSUME e \notin Unreadable \cup outdated' PROVE rows'[e].to = Live(e)'
    BY DEF Right
  <2>1. e \in DOMAIN rows /\ rows'[e] = rows[e] /\ e \notin outdated /\ e \notin Beside(w.ev)
    BY <1>1, <1>4
  <2>2. Live(e)' = Live(e)
    BY <1>1, <1>2, <1>4, <2>1, LiveApart
  <2> QED  BY <1>4, <2>1, <2>2 DEF Right
<1> QED  BY <1>3, <1>4

\* An assignment resolves the rows whose project it may change.
LEMMA RightAssigned ==
  ASSUME CapturesBase, NEW p \in Worker, CommitAssign(p), worker[p].reg = registry,
         NEW e \in DOMAIN rows, Right(e)
  PROVE  Right(e)'
<1> DEFINE w == worker[p]
<1>1. /\ direct' = [f \in EventId |-> IF f \in Chosen(w) THEN w.to ELSE direct[f]]
      /\ bound' = Bound(w)
      /\ rows' = [f \in DOMAIN rows |->
                    IF f \in Affected(w)
                    THEN [rows[f] EXCEPT !.to =
                            Resolution(f, hinted[f], AsResolved(w), direct'[f], bound')]
                    ELSE rows[f]]
      /\ outdated' = IF AsResolved(w) = registry THEN outdated \ Affected(w)
                     ELSE outdated \cup Affected(w)
      /\ UNCHANGED <<registry, hinted>>
  BY DEF CommitAssign, AsResolved
<1>2. e \in EventId /\ rows[e] \in RowOf /\ bound \in Seq(BindingOf)
  BY DEF CapturesBase, CapturesTyped
<1> SUFFICES ASSUME e \notin Unreadable \cup outdated' PROVE rows'[e].to = Live(e)'
  BY DEF Right
<1>3. CASE e \in Affected(w)
  <2>1. AsResolved(w) = registry
    BY <1>1, <1>3
  <2>2. rows'[e].to = Resolution(e, hinted[e], registry, direct'[e], bound')
    BY <1>1, <1>2, <1>3, <2>1 DEF RowOf
  <2>3. DOMAIN rows' = DOMAIN rows
    BY <1>1
  <2> HIDE DEF w
  <2> QED  BY <1>1, <2>2, <2>3 DEF Live, Resolution, Disputed
<1>4. CASE e \notin Affected(w)
  <2>1. w.ids # {} \/ w.thread # Nil
    BY CommitIs DEF CapturesBase, ChosenNamed, WellNamed, AtStep
  <2>2. Chosen(w) \subseteq Affected(w)
    <3>1. w.thread # Nil => w.ids \subseteq Threaded(w.thread)
      BY CommitIs DEF CapturesBase, ChosenNamed, WellNamed, AtStep
    <3> QED  BY <2>1, <3>1 DEF Chosen, Affected
  <2>3. rows'[e] = rows[e] /\ direct'[e] = direct[e] /\ DOMAIN rows' = DOMAIN rows
        /\ e \notin outdated
    BY <1>1, <1>2, <1>4, <2>2
  <2>4. \/ bound' = bound
        \/ \E new : /\ bound' = Append(bound, new) /\ new.thread = w.thread
                    /\ w.thread # Nil
    BY <1>1 DEF Bound
  <2>5. w.thread # Nil => Shape[e].thread # w.thread
    BY <1>4 DEF Affected, Threaded
  <2>6. /\ Bindings(e, bound)' = Bindings(e, bound)
        /\ \A i \in Bindings(e, bound) : bound'[i] = bound[i]
    <3>1. CASE bound' = bound
      BY <3>1 DEF Bindings
    <3>2. CASE \E new : /\ bound' = Append(bound, new) /\ new.thread = w.thread
                        /\ w.thread # Nil
      <4>1. PICK new : bound' = Append(bound, new) /\ new.thread # Shape[e].thread
        BY <2>5, <3>2
      <4>2. Len(bound) \in Nat /\ DOMAIN bound = 1..Len(bound)
            /\ DOMAIN bound' = 1..(Len(bound) + 1) /\ bound'[Len(bound) + 1] = new
            /\ \A i \in DOMAIN bound : bound'[i] = bound[i]
        BY <1>2, <4>1
      <4>3. \A i \in DOMAIN bound' : i \in DOMAIN bound \/ i = Len(bound) + 1
        BY <4>2
      <4> QED  BY <4>1, <4>2, <4>3 DEF Bindings
    <3> QED  BY <2>4, <3>1, <3>2
  <2>7. Live(e)' = Live(e)
    BY <1>1, <1>2, <2>3, <2>6, LiveSame
  <2> QED  BY <2>3, <2>7 DEF Right
<1> QED  BY <1>3, <1>4

-----------------------------------------------------------------------------
(* What is due is right *)

SteadyParts == AllRight /\ OfNow /\ UpsertRight
DueByTask(e) == \E p \in Worker : TaskOfNow(p) /\ Past(p, e)

LEMMA DueInUse == ASSUME NEW e \in DOMAIN rows, Due(e) PROVE InUse
BY DEF Due, InUse, Recorded

\* A step that leaves rows and record alone and begins no part of a backfill.
LEMMA DueOfOthers ==
  ASSUME CapturesTyped, NEW p \in Worker, WriterStep(p) \/ Backfill(p) \/ Crash(p),
         registry' = registry, NEW e, DueByTask(e)',
         ~(TaskOfNow(p)' /\ Past(p, e)')
  PROVE  DueByTask(e)
<1>1. PICK q \in Worker : TaskOfNow(q)' /\ Past(q, e)'
  BY DEF DueByTask
<1>2. q # p /\ worker'[q] = worker[q]
  BY <1>1, OthersStay
<1> QED  BY <1>1, <1>2 DEF DueByTask, TaskOfNow, Past, AtStep, Underway

\* The steps after which a process has gone past nothing.
LEMMA NotUnderway ==
  ASSUME CapturesTyped, NEW p \in Worker,
         \/ StoreEvent(p) \/ ResolveStored(p) \/ Upsert(p) \/ BeginAssign(p) \/ LockAssign(p)
         \/ AssignRefused(p) \/ CommitAssign(p) \/ Schedule(p) \/ ReadPending(p)
         \/ FinishBackfill(p) \/ Cancel(p) \/ Crash(p)
  PROVE  ~TaskOfNow(p)'
<1>1. worker \in [Worker -> JobOf \cup {Nil}]
  BY DEF CapturesTyped
<1>2. CASE StoreEvent(p)
  <2>1. PICK e : GoOn(p, [at |-> "resolve", ev |-> e, rev |-> registry])
    BY <1>2 DEF StoreEvent
  <2>2. worker'[p].at = "resolve"
    BY <1>1, <2>1 DEF GoOn
  <2> QED  BY <2>2 DEF TaskOfNow, AtStep, Underway
<1>3. CASE BeginAssign(p)
  <2>1. PICK job : GoOn(p, job) /\ job.at = "assign"
    BY <1>3 DEF BeginAssign
  <2>2. worker'[p].at = "assign"
    BY <1>1, <2>1 DEF GoOn
  <2> QED  BY <2>2 DEF TaskOfNow, AtStep, Underway
<1>4. CASE ~StoreEvent(p) /\ ~BeginAssign(p)
  <2>1. PICK job : /\ GoOn(p, job)
                   /\ job = Nil \/ job.at \in {"upsert", "commit", "pending", "begin"}
    BY <1>4 DEF ResolveStored, Upsert, AssignRefused, CommitAssign, Crash, Cancel, Released,
       LockAssign, Schedule, ReadPending, FinishBackfill
  <2>2. worker'[p] = job
    BY <1>1, <2>1 DEF GoOn
  <2> QED  BY <2>1, <2>2 DEF TaskOfNow, AtStep, Underway
<1> QED  BY <1>2, <1>3, <1>4

LEMMA DueQuiet ==
  ASSUME CapturesInv, Steady, NEW p \in Worker, NEW e \in DOMAIN rows', Due(e)',
         \/ StoreEvent(p) \/ ResolveStored(p) \/ BeginAssign(p) \/ LockAssign(p)
         \/ AssignRefused(p) \/ CommitAssign(p) \/ Schedule(p) \/ ReadPending(p)
         \/ Cancel(p) \/ Crash(p)
  PROVE  Right(e)'
<1>1. CapturesTyped /\ AllRight /\ OfNow
  BY DEF CapturesInv, CapturesBase
<1>2. registry' = registry /\ progress' = progress
  BY DEF StoreEvent, ResolveStored, BeginAssign, LockAssign, AssignRefused, CommitAssign,
     Schedule, ReadPending, Cancel, Crash
<1>3. e \in DOMAIN rows /\ rows'[e].rev = rows[e].rev
  <2>1. \A f \in DOMAIN rows : rows[f] \in RowOf
    BY <1>1 DEF CapturesTyped
  <2>2. CASE CommitAssign(p)
    BY <2>1, <2>2 DEF CommitAssign, RowOf
  <2>3. CASE ~CommitAssign(p)
    BY <2>3 DEF StoreEvent, ResolveStored, BeginAssign, LockAssign, AssignRefused, Schedule,
       ReadPending, Cancel, Crash
  <2> QED  BY <2>2, <2>3
<1>4. Due(e)
  <2>1. CASE DueByTask(e)'
    BY <1>1, <1>2, <2>1, DueOfOthers, NotUnderway DEF WriterStep, Backfill, Due, DueByTask
  <2>2. CASE ~DueByTask(e)'
    BY <1>2, <1>3, <2>2 DEF Due, DueByTask, Recorded
  <2> QED  BY <2>1, <2>2
<1>5. Right(e)
  BY <1>1, <1>3, <1>4 DEF AllRight
<1>6. CASE StoreEvent(p)
  BY <1>3, <1>5, <1>6, RightStored DEF CapturesInv
<1>7. CASE CommitAssign(p)
  <2>1. worker[p].reg = registry
    BY <1>1, <1>3, <1>4, <1>7, DueInUse DEF OfNow, CommitAssign, Doing, AtStep
  <2> QED  BY <1>3, <1>5, <1>7, <2>1, RightAssigned DEF CapturesInv
<1>8. CASE ~StoreEvent(p) /\ ~CommitAssign(p)
  <2>1. UNCHANGED <<registry, direct, bound, rows, hinted, outdated>>
    BY <1>8 DEF ResolveStored, BeginAssign, LockAssign, AssignRefused, Schedule, ReadPending,
       Cancel, Crash, marks
  <2> QED  BY <1>1, <1>3, <1>5, <2>1, RightSame
<1> QED  BY <1>6, <1>7, <1>8

\* A store that was under way when nothing was of the registry of now makes due at
\* most what it writes itself: it is the first row, or the record is not complete.
LEMMA DueUpsert ==
  ASSUME CapturesInv, Steady, NEW p \in Worker, Upsert(p), NEW e \in DOMAIN rows', Due(e)'
  PROVE  Right(e)'
<1> DEFINE w == worker[p]
<1>1. CapturesTyped /\ AllRight /\ OfNow /\ UpsertRight /\ Unstarted /\ CapturesBase
  BY DEF CapturesInv, CapturesBase
<1>2. /\ rows' = [f \in DOMAIN rows \cup {w.ev} |->
                    IF f = w.ev THEN [to |-> w.to, rev |-> w.rev] ELSE rows[f]]
      /\ progress' = IF progress # Nil THEN progress
                     ELSE [cursor |-> 0, rev |-> w.rev,
                           complete |-> \A f \in DOMAIN rows' :
                                          Unresolved \notin {rows'[f].to, rows'[f].rev}]
      /\ UNCHANGED <<registry, hinted, direct, bound>>
  BY DEF Upsert, Upserted
<1>3. DOMAIN rows' \subseteq EventId /\ \A f \in EventId : f \in Nat /\ f > 0
  <2>1. w.ev \in EventId
    BY <1>1, JobIs DEF Upsert, Doing, AtStep
  <2> QED  BY <1>1, <1>2, <2>1 DEF CapturesTyped, EventId
<1>4. InUse => w.rev = registry
  BY <1>1 DEF OfNow, Upsert, Doing, AtStep
<1>5. DueByTask(e)' => InUse /\ DueByTask(e)
  BY <1>1, <1>2, DueOfOthers, NotUnderway DEF WriterStep, DueByTask, InUse
<1>6. CASE e = w.ev
  <2>1. w.rev = registry
    <3>1. CASE rows'[e].rev = registry'
      BY <1>2, <1>6, <3>1
    <3>2. CASE (Recorded(registry))'
      <4>1. Recorded(registry) \/ w.rev = registry
        BY <1>2, <3>2 DEF Recorded
      <4> QED  BY <1>4, <4>1 DEF InUse
    <3>3. CASE DueByTask(e)'
      BY <1>4, <1>5, <3>3
    <3> QED  BY <3>1, <3>2, <3>3 DEF Due, DueByTask
  <2> QED  BY <1>1, <1>6, <2>1, RightUpserted
<1>7. CASE e # w.ev
  <2>1. e \in DOMAIN rows /\ rows'[e] = rows[e]
    BY <1>2, <1>7
  <2>2. Due(e)
    <3>1. CASE rows'[e].rev = registry' \/ DueByTask(e)'
      BY <1>2, <1>5, <2>1, <3>1 DEF Due, DueByTask
    <3>2. CASE Recorded(registry)' /\ (progress'.complete \/ e <= progress'.cursor)
      <4>1. CASE progress # Nil
        BY <1>2, <3>2, <4>1 DEF Due, Recorded
      <4>2. CASE progress = Nil
        <5>1. rows[e].rev = Unresolved
          BY <1>1, <2>1, <4>2 DEF Unstarted, Steady
        <5>2. ~(\A f \in DOMAIN rows' : Unresolved \notin {rows'[f].to, rows'[f].rev})
          BY <2>1, <5>1
        <5>3. progress'.cursor = 0 /\ ~progress'.complete
          BY <1>2, <4>2, <5>2
        <5> QED  BY <1>3, <3>2, <5>3
      <4> QED  BY <4>1, <4>2
    <3> QED  BY <3>1, <3>2 DEF Due, DueByTask
  <2> QED  BY <1>1, <1>7, <2>1, <2>2, RightUpserted DEF AllRight
<1> QED  BY <1>6, <1>7

LEMMA DueBegin ==
  ASSUME CapturesInv, Steady, NEW p \in Worker, BeginBackfill(p), NEW e \in DOMAIN rows',
         Due(e)'
  PROVE  Right(e)'
<1> DEFINE w == worker[p]
<1>1. CapturesTyped /\ AllRight
  BY DEF CapturesInv, CapturesBase
<1>2. UNCHANGED <<registry, hinted, direct, bound, rows, outdated>> /\ e \in DOMAIN rows
      /\ e \in EventId
  BY <1>1 DEF BeginBackfill, CapturesTyped, marks
<1>3. e \in Nat /\ e > 0
  BY <1>2 DEF EventId
<1>4. \/ progress' = progress
      \/ progress' = [cursor |-> 0, rev |-> w.rev, complete |-> FALSE]
  BY DEF BeginBackfill
<1>5. Recorded(registry)' /\ (progress'.complete \/ e <= progress'.cursor) => Due(e)
  BY <1>2, <1>3, <1>4 DEF Due, Recorded
<1>6. TaskOfNow(p)' /\ Past(p, e)' => Due(e)
  <2> SUFFICES ASSUME TaskOfNow(p)', Past(p, e)' PROVE Due(e)
    OBVIOUS
  <2>1. worker'[p] = Nil \/ worker'[p] = [at |-> "scan", rev |-> w.rev, cursor |-> progress'.cursor]
    BY <1>1 DEF BeginBackfill, GoOn, CapturesTyped
  <2>2. w.rev = registry /\ e <= progress'.cursor
    BY <1>2, <2>1 DEF TaskOfNow, AtStep, Past
  <2>3. progress' = progress /\ Recorded(w.rev)
    BY <1>3, <2>2 DEF BeginBackfill
  <2> QED  BY <1>2, <2>2, <2>3 DEF Due
<1>7. DueByTask(e)' => Due(e)
  BY <1>1, <1>2, <1>6, DueOfOthers DEF Backfill, Due, DueByTask
<1>8. Due(e)
  BY <1>2, <1>5, <1>7 DEF Due, DueByTask
<1> QED  BY <1>1, <1>2, <1>8, RightSame DEF AllRight

LEMMA DueScan ==
  ASSUME CapturesInv, Steady, NEW p \in Worker, Scan(p) \/ LockBatch(p), NEW e \in DOMAIN rows',
         Due(e)'
  PROVE  Right(e)'
<1> DEFINE w == worker[p]
<1>1. CapturesTyped /\ AllRight /\ worker \in [Worker -> JobOf \cup {Nil}]
  BY DEF CapturesInv, CapturesBase, CapturesTyped
<1>2. UNCHANGED <<registry, hinted, direct, bound, rows, progress, outdated>>
      /\ e \in DOMAIN rows
  BY DEF Scan, LockBatch, marks
<1>3. TaskOfNow(p)' /\ Past(p, e)' => Due(e) \/ e \in Unreadable
  <2> SUFFICES ASSUME TaskOfNow(p)', Past(p, e)' PROVE Due(e) \/ e \in Unreadable
    OBVIOUS
  <2>1. CASE Scan(p)
    <3>1. AtStep(p, Underway) /\ w.at = "scan"
      BY <2>1 DEF Scan, Doing, AtStep, Underway
    <3>2. w.rev = registry => (e <= w.cursor => Due(e)) /\ (~Stale(e, w.rev) => Due(e))
      BY <3>1 DEF Due, TaskOfNow, Past, Stale
    <3>3. CASE /\ \A f \in DOMAIN rows : f <= w.cursor \/ ~Stale(f, w.rev)
               /\ GoOn(p, [at |-> "finish", rev |-> w.rev])
      <4>1. worker'[p] = [at |-> "finish", rev |-> w.rev]
        BY <1>1, <3>3 DEF GoOn
      <4> QED  BY <1>2, <3>2, <3>3, <4>1 DEF TaskOfNow
    <3>4. CASE \E m \in 0..Events, has \in HasOf :
                 /\ \A f \in DOMAIN rows : f <= m /\ f \notin DOMAIN has =>
                      f <= w.cursor \/ ~Stale(f, w.rev) \/ f \in Unreadable
                 /\ GoOn(p, [at |-> "batch", rev |-> w.rev, cursor |-> m, has |-> has])
      <4>1. PICK m, has :
                 /\ \A f \in DOMAIN rows : f <= m /\ f \notin DOMAIN has =>
                      f <= w.cursor \/ ~Stale(f, w.rev) \/ f \in Unreadable
                 /\ GoOn(p, [at |-> "batch", rev |-> w.rev, cursor |-> m, has |-> has])
        BY <3>4
      <4>2. worker'[p] = [at |-> "batch", rev |-> w.rev, cursor |-> m, has |-> has]
        BY <1>1, <4>1 DEF GoOn
      <4>3. w.rev = registry /\ e <= m /\ e \notin DOMAIN has
        BY <1>2, <4>2 DEF TaskOfNow, Past
      <4> QED  BY <1>2, <3>2, <4>1, <4>3
    <3> QED  BY <1>1, <2>1, <3>3, <3>4, ScanIs
  <2>2. CASE LockBatch(p)
    <3>1. w.at = "batch" /\ AtStep(p, Underway)
      BY <2>2 DEF LockBatch, Doing, AtStep, Underway
    <3>2. w \in [at : {"batch", "rows"}, rev : RegistryOf, cursor : 0..Events, has : HasOf]
      <4>1. w \in JobOf
        BY <1>1, <3>1 DEF AtStep
      <4> QED  BY <3>1, <4>1 DEF JobOf
    <3>3. /\ worker'[p].at = "rows" /\ worker'[p].rev = w.rev
          /\ worker'[p].cursor = w.cursor /\ worker'[p].has = w.has
      BY <1>1, <2>2, <3>2 DEF LockBatch, GoOn
    <3>4. TaskOfNow(p) /\ Past(p, e)
      BY <1>2, <3>1, <3>3 DEF TaskOfNow, Past
    <3> QED  BY <3>4 DEF Due
  <2> QED  BY <2>1, <2>2
<1>4. DueByTask(e)' => Due(e) \/ e \in Unreadable
  BY <1>1, <1>2, <1>3, DueOfOthers DEF Backfill, Due, DueByTask
<1>5. Due(e) \/ e \in Unreadable
  BY <1>2, <1>4 DEF Due, DueByTask, Recorded
<1>6. CASE e \in Unreadable
  BY <1>6 DEF Right
<1>7. CASE Due(e)
  BY <1>1, <1>2, <1>7, RightSame DEF AllRight
<1> QED  BY <1>5, <1>6, <1>7

LEMMA DueRow ==
  ASSUME CapturesInv, Steady, NEW p \in Worker, ResolveRow(p), NEW e \in DOMAIN rows', Due(e)'
  PROVE  Right(e)'
<1> DEFINE w == worker[p]
<1>1. CapturesTyped /\ AllRight /\ CapturesBase /\ worker \in [Worker -> JobOf \cup {Nil}]
  BY DEF CapturesInv, CapturesBase, CapturesTyped
<1>2. PICK n : n = Min(DOMAIN w.has)
  OBVIOUS
<1>3. UNCHANGED <<registry, hinted, direct, bound, progress>> /\ DOMAIN rows' = DOMAIN rows
  BY DEF ResolveRow
<1>4. w.at = "rows" /\ AtStep(p, Underway)
  BY DEF ResolveRow, Doing, AtStep, Underway
<1>5. w \in [at : {"batch", "rows"}, rev : RegistryOf, cursor : 0..Events, has : HasOf]
  <2>1. w \in JobOf
    BY <1>1, <1>4 DEF AtStep
  <2> QED  BY <1>4, <2>1 DEF JobOf
<1>6. /\ worker'[p].at = "rows" /\ worker'[p].rev = w.rev /\ worker'[p].cursor = w.cursor
      /\ DOMAIN worker'[p].has = DOMAIN w.has \ {n}
  BY <1>1, <1>2, <1>4, <1>5 DEF ResolveRow, GoOn
<1>7. CASE e = n /\ Stale(e, w.rev)
  BY <1>1, <1>2, <1>3, <1>7, RightResolved
<1>8. CASE e # n \/ ~Stale(e, w.rev)
  <2>1. rows'[e] = rows[e] /\ (e \in outdated' <=> e \in outdated)
    BY <1>2, <1>3, <1>8 DEF ResolveRow, Stale
  <2>2. TaskOfNow(p)' /\ Past(p, e)' => Due(e)
    <3> SUFFICES ASSUME TaskOfNow(p)', Past(p, e)' PROVE Due(e)
      OBVIOUS
    <3>1. TaskOfNow(p) /\ e <= w.cursor /\ e \notin DOMAIN w.has \ {n}
      BY <1>3, <1>4, <1>6 DEF TaskOfNow, Past
    <3>2. CASE e # n
      BY <1>4, <3>1, <3>2 DEF Due, Past
    <3>3. CASE ~Stale(e, w.rev)
      BY <3>1, <3>3 DEF Due, Stale, TaskOfNow
    <3> QED  BY <1>8, <3>2, <3>3
  <2>3. DueByTask(e)' => Due(e)
    BY <1>1, <1>3, <2>2, DueOfOthers DEF Backfill, Due, DueByTask
  <2>4. Due(e)
    BY <1>3, <2>1, <2>3 DEF Due, DueByTask, Recorded
  <2> QED  BY <1>1, <1>3, <2>1, <2>4, RightSame DEF AllRight
<1> QED  BY <1>7, <1>8

LEMMA DueEnd ==
  ASSUME CapturesInv, Steady, NEW p \in Worker, EndBatch(p) \/ FinishBackfill(p),
         NEW e \in DOMAIN rows', Due(e)'
  PROVE  Right(e)'
<1> DEFINE w == worker[p]
<1>1. CapturesTyped /\ AllRight /\ worker \in [Worker -> JobOf \cup {Nil}]
      /\ progress \in ProgressOf \cup {Nil}
  BY DEF CapturesInv, CapturesBase, CapturesTyped
<1>2. UNCHANGED <<registry, hinted, direct, bound, rows, outdated>> /\ e \in DOMAIN rows
  BY DEF EndBatch, FinishBackfill, marks
<1>3. w.rev = registry => TaskOfNow(p)
  BY DEF EndBatch, FinishBackfill, Doing, TaskOfNow, AtStep, Underway
<1>4. CASE EndBatch(p)
  <2>1. w.at = "rows" /\ DOMAIN w.has = {}
    BY <1>4 DEF EndBatch, Doing
  <2>2. w.rev = registry /\ e <= w.cursor => Due(e)
    BY <1>3, <2>1 DEF Due, Past
  <2>3. worker'[p] = [at |-> "scan", rev |-> w.rev, cursor |-> w.cursor]
    BY <1>1, <1>4 DEF EndBatch, GoOn
  <2>4. TaskOfNow(p)' /\ Past(p, e)' => Due(e)
    BY <1>2, <2>2, <2>3 DEF TaskOfNow, Past
  <2>5. Recorded(registry)' /\ (progress'.complete \/ e <= progress'.cursor) => Due(e)
    <3>1. CASE Recorded(w.rev)
      <4>1. progress' = [progress EXCEPT !.cursor = w.cursor] /\ progress \in ProgressOf
        BY <1>1, <1>4, <3>1 DEF EndBatch, Recorded
      <4>2. progress'.cursor = w.cursor /\ progress'.rev = progress.rev
            /\ progress'.complete = progress.complete
        BY <4>1 DEF ProgressOf
      <4> QED  BY <1>2, <2>2, <3>1, <4>2 DEF Recorded, Due
    <3>2. CASE ~Recorded(w.rev)
      BY <1>2, <1>4, <3>2 DEF EndBatch, Recorded, Due
    <3> QED  BY <3>1, <3>2
  <2>6. DueByTask(e)' => Due(e)
    BY <1>1, <1>2, <1>4, <2>4, DueOfOthers DEF Backfill, Due, DueByTask
  <2>7. Due(e)
    BY <1>2, <2>5, <2>6 DEF Due, DueByTask
  <2> QED  BY <1>1, <1>2, <2>7, RightSame DEF AllRight
<1>5. CASE FinishBackfill(p)
  <2>1. w.rev = registry => Due(e)
    BY <1>3, <1>5 DEF FinishBackfill, Doing, Due, Past
  <2>2. Recorded(registry)' /\ (progress'.complete \/ e <= progress'.cursor) => Due(e)
    <3>1. CASE Recorded(w.rev)
      <4>1. progress' = [progress EXCEPT !.complete = TRUE] /\ progress \in ProgressOf
        BY <1>1, <1>5, <3>1 DEF FinishBackfill, Marked, Recorded
      <4>2. progress'.rev = w.rev
        BY <3>1, <4>1 DEF ProgressOf, Recorded
      <4> QED  BY <1>2, <2>1, <4>2 DEF Recorded
    <3>2. CASE ~Recorded(w.rev)
      BY <1>2, <1>5, <3>2 DEF FinishBackfill, Marked, Recorded, Due
    <3> QED  BY <3>1, <3>2
  <2>3. DueByTask(e)' => Due(e)
    BY <1>1, <1>2, <1>5, DueOfOthers, NotUnderway DEF Backfill, Due, DueByTask
  <2>4. Due(e)
    BY <1>2, <2>2, <2>3 DEF Due, DueByTask
  <2> QED  BY <1>1, <1>2, <2>4, RightSame DEF AllRight
<1> QED  BY <1>4, <1>5

LEMMA StepRight ==
  ASSUME CapturesInv, Steady, NEW p \in Worker, WriterStep(p) \/ Backfill(p) \/ Crash(p)
  PROVE  AllRight'
BY DueQuiet, DueUpsert, DueBegin, DueScan, DueRow, DueEnd DEF AllRight, WriterStep, Backfill

-----------------------------------------------------------------------------
(* Who holds the lock has read the registry of now, if anything is of it *)

\* The registry comes into use by what a backfill begins or a store writes.
LEMMA InUseBefore ==
  ASSUME CapturesInv, NEW p \in Worker, WriterStep(p) \/ Backfill(p) \/ Crash(p), InUse'
  PROVE  InUse \/ BeginBackfill(p) \/ Upsert(p)
<1> SUFFICES ASSUME ~BeginBackfill(p), ~Upsert(p) PROVE InUse
  OBVIOUS
<1>1. /\ CapturesTyped /\ worker \in [Worker -> JobOf \cup {Nil}]
      /\ progress \in ProgressOf \cup {Nil} /\ \A e \in DOMAIN rows : rows[e] \in RowOf
  BY DEF CapturesInv, CapturesBase, CapturesTyped
<1>2. registry' = registry
  BY DEF WriterStep, Backfill, Crash, StoreEvent, ResolveStored, BeginAssign, LockAssign,
     AssignRefused, CommitAssign, Schedule, ReadPending, Scan, LockBatch, ResolveRow, EndBatch,
     FinishBackfill, Cancel
<1>3. ASSUME Recorded(registry)' PROVE Recorded(registry)
  <2>1. CASE EndBatch(p) \/ FinishBackfill(p)
    BY <1>1, <1>2, <1>3, <2>1 DEF EndBatch, FinishBackfill, Marked, Recorded, ProgressOf
  <2>2. CASE ~(EndBatch(p) \/ FinishBackfill(p))
    BY <1>2, <1>3, <2>2 DEF WriterStep, Backfill, Crash, StoreEvent, ResolveStored, BeginAssign,
       LockAssign, AssignRefused, CommitAssign, Schedule, ReadPending, Scan, LockBatch,
       ResolveRow, Cancel, Recorded
  <2> QED  BY <2>1, <2>2
<1>4. ASSUME TaskOfNow(p)' PROVE TaskOfNow(p)
  <2>1. CASE Scan(p) \/ EndBatch(p)
    <3>1. worker'[p].rev = worker[p].rev
      BY <1>1, <2>1 DEF Scan, EndBatch, GoOn
    <3> QED  BY <1>2, <1>4, <2>1, <3>1 DEF Scan, EndBatch, Doing, TaskOfNow, AtStep, Underway
  <2>2. CASE LockBatch(p) \/ ResolveRow(p)
    <3>1. worker[p].at \in {"batch", "rows"} /\ AtStep(p, Underway)
      BY <2>2 DEF LockBatch, ResolveRow, Doing, AtStep, Underway
    <3>2. worker[p] \in [at : {"batch", "rows"}, rev : RegistryOf, cursor : 0..Events, has : HasOf]
      <4>1. worker[p] \in JobOf
        BY <1>1, <3>1 DEF AtStep
      <4> QED  BY <3>1, <4>1 DEF JobOf
    <3>3. worker'[p].rev = worker[p].rev
      <4>1. CASE LockBatch(p)
        BY <1>1, <3>2, <4>1 DEF LockBatch, GoOn
      <4>2. CASE ResolveRow(p)
        BY <1>1, <3>2, <4>2 DEF ResolveRow, GoOn
      <4> QED  BY <2>2, <4>1, <4>2
    <3> QED  BY <1>2, <1>4, <3>1, <3>3 DEF TaskOfNow
  <2>3. CASE ~(Scan(p) \/ EndBatch(p) \/ LockBatch(p) \/ ResolveRow(p))
    BY <1>1, <1>4, <2>3, NotUnderway DEF WriterStep, Backfill
  <2> QED  BY <2>1, <2>2, <2>3
<1>5. ASSUME NEW q \in Worker, TaskOfNow(q)' PROVE \E r \in Worker : TaskOfNow(r)
  BY <1>1, <1>2, <1>4, <1>5, OthersStay DEF TaskOfNow, AtStep, Underway
<1>6. ASSUME NEW e \in DOMAIN rows', rows'[e].rev = registry'
      PROVE  InUse
  <2>1. CASE ResolveRow(p)
    <3>1. DOMAIN rows' = DOMAIN rows /\ (rows'[e] = rows[e] \/ rows'[e].rev = worker[p].rev)
      BY <1>1, <2>1 DEF ResolveRow
    <3>2. worker[p].rev = registry => TaskOfNow(p)
      BY <2>1 DEF ResolveRow, Doing, TaskOfNow, AtStep, Underway
    <3> QED  BY <1>2, <1>6, <3>1, <3>2 DEF InUse
  <2>2. CASE CommitAssign(p)
    BY <1>1, <1>2, <1>6, <2>2 DEF CommitAssign, RowOf, InUse
  <2>3. CASE ~ResolveRow(p) /\ ~CommitAssign(p)
    <3>1. rows' = rows
      BY <2>3 DEF WriterStep, Backfill, Crash, StoreEvent, ResolveStored, BeginAssign,
         LockAssign, AssignRefused, Schedule, ReadPending, Scan, LockBatch, EndBatch,
         FinishBackfill, Cancel
    <3> QED  BY <1>2, <1>6, <3>1 DEF InUse
  <2> QED  BY <2>1, <2>2, <2>3
<1>7. \/ Recorded(registry)' \/ (\E q \in Worker : TaskOfNow(q)')
      \/ \E e \in DOMAIN rows' : rows'[e].rev = registry'
  BY DEF InUse
<1> QED  BY <1>3, <1>5, <1>6, <1>7 DEF InUse

LEMMA RegistryKept ==
  ASSUME NEW p \in Worker, WriterStep(p) \/ Backfill(p) \/ Crash(p)
  PROVE  UNCHANGED <<registry, formerly, rebuilt>>
BY DEF WriterStep, Backfill, Crash, StoreEvent, ResolveStored, Upsert, BeginAssign, LockAssign,
   AssignRefused, CommitAssign, Schedule, ReadPending, BeginBackfill, Scan, LockBatch,
   ResolveRow, EndBatch, FinishBackfill, Cancel, marks

LEMMA StepOfNow ==
  ASSUME CapturesInv, Steady, NEW p \in Worker, WriterStep(p) \/ Backfill(p) \/ Crash(p)
  PROVE  OfNow'
<1>1. CapturesTyped /\ LocksHeld /\ OfNow /\ worker \in [Worker -> JobOf \cup {Nil}]
  BY DEF CapturesInv, CapturesBase, CapturesTyped
<1>2. registry' = registry
  BY RegistryKept
<1> SUFFICES ASSUME InUse', NEW q \in Worker
             PROVE  /\ AtStep(q, {"resolve", "upsert"})' => worker'[q].rev = registry
                    /\ AtStep(q, {"commit"})' => worker'[q].reg = registry
  BY <1>2 DEF OfNow, AtStep
<1>3. CASE BeginBackfill(p) \/ Upsert(p)
  <2>1. q # p => ~AtStep(q, UnderLock)
    <3>1. AtStep(p, UnderLock) \/ holder = Nil
      BY <1>3 DEF BeginBackfill, Upsert, Doing, AtStep, UnderLock
    <3> QED  BY <1>1, <3>1, AloneUnderLock
  <2>2. CASE q # p
    <3>1. worker'[q] = worker[q]
      BY <1>1, <2>2, OthersStay
    <3> QED  BY <2>1, <2>2, <3>1 DEF AtStep, UnderLock
  <2>3. CASE q = p
    <3>1. worker'[p] = Nil \/ worker'[p].at = "scan"
      <4>1. CASE BeginBackfill(p)
        BY <1>1, <4>1 DEF BeginBackfill, GoOn
      <4>2. CASE Upsert(p)
        BY <1>1, <4>2 DEF Upsert, Released, GoOn
      <4> QED  BY <1>3, <4>1, <4>2
    <3> QED  BY <2>3, <3>1 DEF AtStep
  <2> QED  BY <2>2, <2>3
<1>4. CASE InUse
  <2>1. CASE q # p
    BY <1>1, <1>4, <2>1, OthersStay DEF OfNow, AtStep
  <2>2. CASE q = p
    BY <1>1, <1>4, <2>2, MovesOfNow DEF OfNow, AtStep
  <2> QED  BY <2>1, <2>2
<1> QED  BY <1>3, <1>4, InUseBefore

LEMMA StepUpsertRight ==
  ASSUME CapturesInv, Steady, NEW p \in Worker, WriterStep(p) \/ Backfill(p) \/ Crash(p)
  PROVE  UpsertRight'
<1>1. CapturesTyped /\ LocksHeld /\ UpsertRight /\ worker \in [Worker -> JobOf \cup {Nil}]
      /\ bound \in Seq(BindingOf)
  BY DEF CapturesInv, CapturesBase, CapturesTyped
<1>2. registry' = registry
  BY RegistryKept
<1> SUFFICES ASSUME NEW q \in Worker, AtStep(q, {"upsert"})', worker'[q].rev = registry,
                    NEW e, e = worker'[q].ev
             PROVE  worker'[q].to = Live(e)'
  BY <1>2 DEF UpsertRight, AtStep
<1>3. worker'[q].to = Live(e) /\ UNCHANGED <<hinted, direct, bound, rows>>
  <2>1. CASE q = p
    <3>1. ResolveStored(p)
      BY <1>1, <2>1, MovesOfNow
    <3> QED  BY <1>1, <2>1, <3>1 DEF ResolveStored, GoOn
  <2>2. CASE q # p
    <3>1. worker'[q] = worker[q]
      BY <1>1, <2>2, OthersStay
    <3>2. AtStep(q, {"upsert"}) /\ AtStep(q, UnderLock)
      BY <3>1 DEF AtStep, UnderLock
    <3>3. ~AtStep(p, UnderLock) /\ holder # Nil
      BY <1>1, <2>2, <3>2, AloneUnderLock
    <3>4. ~StoreEvent(p) /\ ~CommitAssign(p) /\ ~Upsert(p) /\ ~ResolveRow(p)
      BY <3>3 DEF StoreEvent, CommitAssign, Upsert, ResolveRow, Lock, Doing, AtStep, UnderLock
    <3>5. UNCHANGED <<hinted, direct, bound, rows>>
      BY <3>4 DEF WriterStep, Backfill, Crash, ResolveStored, BeginAssign, LockAssign,
         AssignRefused, Schedule, ReadPending, BeginBackfill, Scan, LockBatch, EndBatch,
         FinishBackfill, Cancel
    <3> QED  BY <1>1, <3>1, <3>2, <3>5 DEF UpsertRight
  <2> QED  BY <2>1, <2>2
<1>4. Bindings(e, bound)' = Bindings(e, bound)
  BY <1>3 DEF Bindings
<1> QED  BY <1>1, <1>2, <1>3, <1>4, LiveSame

\* Nothing is of a registry that there never was before.
LEMMA ChangeUnused ==
  ASSUME CapturesTyped, Aged, ChangeRegistry, Steady'
  PROVE  AllRight' /\ OfNow' /\ UpsertRight'
<1>1. /\ registry' \in RegistryOf /\ registry' \notin EverRegistry
      /\ registry' # Nil /\ registry' # Unresolved
      /\ UNCHANGED <<hinted, rows, direct, bound, progress, worker>>
  BY RegistryOfAssumption, WorkerAssumption DEF ChangeRegistry, Steady, EverRegistry
<1>2. \A e \in DOMAIN rows : rows[e].rev # registry'
  BY <1>1 DEF Aged
<1>3. ~(progress # Nil /\ progress.rev = registry')
  BY <1>1 DEF Aged
<1>4. \A p \in Worker : AtStep(p, Reading) => worker[p].rev # registry'
  BY <1>1 DEF Aged
<1>5. \A p \in Worker : ~(worker[p] # Nil /\ worker[p].at \in Underway /\ worker[p].rev = registry')
  BY <1>4 DEF AtStep, Reading
<1>6. ~InUse'
  BY <1>1, <1>2, <1>3, <1>5 DEF InUse, Recorded, TaskOfNow, AtStep
<1>7. AllRight'
  BY <1>1, <1>2, <1>3, <1>5 DEF AllRight, Due, Recorded, TaskOfNow, AtStep
<1>8. UpsertRight'
  BY <1>1, <1>4 DEF UpsertRight, AtStep, Reading
<1> QED  BY <1>6, <1>7, <1>8 DEF OfNow

-----------------------------------------------------------------------------
(* The invariant *)

LEMMA CapturesInitially == CaptureProjectInit => CapturesInv
<1> SUFFICES ASSUME CaptureProjectInit PROVE CapturesInv
  OBVIOUS
<1>1. PICK s \in {{}, Unreadable \cup {1}} : hinted = [e \in s |-> e \notin LateHinted]
  BY DEF CaptureProjectInit
<1>2. s \subseteq EventId
  BY EventsAssumption, ShapeAssumption DEF EventId
<1>3. Stored = s /\ hinted \in [Stored -> BOOLEAN]
  BY <1>1, <1>2 DEF Stored
<1>4. /\ rows = [e \in s |-> [to |-> Unresolved, rev |-> Unresolved]]
      /\ \A p \in Worker : worker[p] = Nil
      /\ worker \in [Worker -> JobOf \cup {Nil}]
      /\ progress = Nil /\ holder = Nil /\ columns = FALSE /\ dirty = FALSE
      /\ registry \in RegistryOf /\ formerly = {} /\ rebuilt = FALSE /\ outdated = {}
      /\ direct \in [EventId -> Place \cup {Nil, Global}] /\ bound \in Seq(BindingOf)
  BY <1>1, RegistryOfAssumption DEF CaptureProjectInit
<1>5. rows \in [DOMAIN rows -> RowOf] /\ DOMAIN rows = s
      /\ \A e \in DOMAIN rows : rows[e].rev = Unresolved
  BY <1>4 DEF RowOf
<1>6. CapturesTyped
  BY <1>2, <1>3, <1>4, <1>5 DEF CapturesTyped
<1>7. LocksHeld /\ Aged /\ ChosenNamed /\ Unstarted
  BY <1>4, <1>5 DEF LocksHeld, Aged, ChosenNamed, WellNamed, Unstarted, AtStep
<1>8. StoringFiles
  BY <1>4 DEF StoringFiles, HasFile, AtStep
<1>9. registry # Unresolved
  BY <1>4, WorkerAssumption
<1>10. ~InUse /\ AllRight /\ UpsertRight
  BY <1>4, <1>5, <1>9 DEF InUse, AllRight, UpsertRight, Due, Recorded, TaskOfNow, AtStep
<1> QED  BY <1>6, <1>7, <1>8, <1>10 DEF CapturesInv, CapturesBase, OfNow

LEMMA CapturesStays == CapturesInv /\ [CaptureProjectNext]_captureProjectVars => CapturesInv'
<1> SUFFICES ASSUME CapturesInv, [CaptureProjectNext]_captureProjectVars PROVE CapturesInv'
  OBVIOUS
<1>1. CASE UNCHANGED captureProjectVars
  <2>1. /\ CapturesBase' <=> CapturesBase
        /\ OfNow' <=> OfNow
    BY <1>1 DEF captureProjectVars, CapturesBase, CapturesTyped, LocksHeld, Aged, StoringFiles,
       HasFile, ChosenNamed, WellNamed, Unstarted, OfNow, InUse, TaskOfNow, AtStep,
       EverRegistry, Recorded, Stored, Threaded
  <2>2. \A e : Live(e)' = Live(e)
    BY <1>1 DEF captureProjectVars, Live, Resolution, Disputed
  <2>3. \A e : (Due(e)' <=> Due(e)) /\ (Right(e)' <=> Right(e))
    BY <1>1, <2>2 DEF captureProjectVars, Due, Recorded, Past, TaskOfNow, AtStep, Right
  <2>4. UpsertRight' <=> UpsertRight
    BY <1>1, <2>2 DEF captureProjectVars, UpsertRight, AtStep
  <2> QED  BY <1>1, <2>1, <2>3, <2>4 DEF captureProjectVars, CapturesInv, Steady, AllRight
<1>2. CASE CaptureProjectNext
  <2>1. CapturesBase'
    BY <1>2, TypedStep, LocksStep, AgedStep, FilesStep, NamedStep, UnstartedStep
       DEF CapturesInv, CapturesBase
  <2>2. ASSUME NEW p \in Worker, WriterStep(p) \/ Backfill(p) \/ Crash(p), Steady'
        PROVE  AllRight' /\ OfNow' /\ UpsertRight'
    <3>1. Steady
      BY <2>2, RegistryKept DEF Steady
    <3> QED  BY <2>2, <3>1, StepRight, StepOfNow, StepUpsertRight
  <2>3. CASE ChangeRegistry
    BY <2>1, <2>3, ChangeUnused DEF CapturesInv, CapturesBase
  <2>4. CASE Rebuild
    BY <2>1, <2>4 DEF Rebuild, CapturesInv, Steady
  <2>5. CASE \E p \in Worker : WriterStep(p) \/ Backfill(p) \/ Crash(p)
    BY <2>1, <2>2, <2>5 DEF CapturesInv
  <2> QED  BY <1>2, <2>3, <2>4, <2>5 DEF CaptureProjectNext, Worker
<1> QED  BY <1>1, <1>2

\* The rows and the record of a capture index are what the code takes them for,
\* in every reachable state: in particular whatever a complete or a running
\* backfill has gone past is resolved as it is now, of a registry that is new.
THEOREM CapturesInvariant == CaptureProjectSpec => []CapturesInv
<1>1. CaptureProjectInit => CapturesInv
  BY CapturesInitially
<1>2. CapturesInv /\ [CaptureProjectNext]_captureProjectVars => CapturesInv'
  BY CapturesStays
<1> QED  BY <1>1, <1>2, PTL DEF CaptureProjectSpec

\* SettledListing (isCaptureProjectBackfillComplete and the listings by project of
\* listL1Turns and listUnassignedCaptures): once the record says complete for the
\* registry of now, every project lists just the turns that resolve to it.  It says
\* nothing of corrupt files, of registry contents that return, of a rebuilt index, and
\* of the rows that a recorded race has left behind (outdated).
THEOREM CapturesSettled == CaptureProjectSpec => []SettledListing
BY CapturesInvariant, InvSettled, PTL
=============================================================================
