---------------------------- MODULE BranchStore ----------------------------
(***************************************************************************)
(* The branches of one project (src/src/branch-store.ts): workstreams that *)
(* are created, closed and reopened by name or by id.  Every operation     *)
(* reads and rewrites the file under the file mutation lock, and is one    *)
(* step.                                                                   *)
(*                                                                         *)
(* A Label is what a user may write: a name or an id, already normalised.  *)
(* Candidates[n] are the ids tried for the name n, in order: its slug, cut *)
(* at 64 characters, the slug with -2, with -3 and so on.  The suffix      *)
(* comes after the cut, so an id need not be the slug of itself.           *)
(***************************************************************************)
EXTENDS Naturals, Sequences
CONSTANTS Label, Candidates, Goal, MaxBranches

ASSUME CandidatesAssumption == Candidates \in [Label -> Seq(Label)]
ASSUME BranchBoundAssumption == MaxBranches \in Nat

VARIABLE branches  \* the rows, in file order

Branch == [branchId : Label, name : Label, goal : Goal,
           status : {"active", "closed"}]

BranchInit == branches = <<>>

-----------------------------------------------------------------------------
FirstBranch(S) == CHOOSE i \in S : \A j \in S : i <= j

\* Mutant: the ids of closed branches are given again.
OccupiedByActive ==
  {branches[i].branchId : i \in {k \in DOMAIN branches : branches[k].status = "active"}}
Occupied == {branches[i].branchId : i \in DOMAIN branches}
FreeCandidates(n) == {k \in DOMAIN Candidates[n] : Candidates[n][k] \notin Occupied}
\* The bound on suffixes is never reached; the random id that follows is left out.
UniqueBranchId(n) == Candidates[n][FirstBranch(FreeCandidates(n))]

Same(n) == {i \in DOMAIN branches : branches[i].status = "active" /\ branches[i].name = n}

\* An active branch of that name is returned, with the new goal.
CreateBranch(n, g) ==
  IF Same(n) # {}
  THEN branches' = [branches EXCEPT ![FirstBranch(Same(n))].goal = g]
  ELSE /\ FreeCandidates(n) # {} /\ Len(branches) < MaxBranches
       /\ branches' = Append(branches, [branchId |-> UniqueBranchId(n), name |-> n,
                                        goal |-> g, status |-> "active"])

\* The first row with that id or that name, whatever its status.
Referenced(ref) ==
  {i \in DOMAIN branches : branches[i].branchId = ref \/ branches[i].name = ref}
SetStatus(ref, status) ==
  /\ Referenced(ref) # {}
  /\ branches' = [branches EXCEPT ![FirstBranch(Referenced(ref))].status = status]

CloseBranch(ref) == SetStatus(ref, "closed")
ReopenBranch(ref) == SetStatus(ref, "active")

BranchNext == \E l \in Label : \/ \E g \in Goal : CreateBranch(l, g)
                               \/ CloseBranch(l)
                               \/ ReopenBranch(l)
BranchSpec == BranchInit /\ [][BranchNext]_branches

\* What the retrieval of a turn takes a reference for: an id first, then a name.
ResolveBranch(ref, statuses) ==
  LET open == {i \in DOMAIN branches : branches[i].status \in statuses}
      byId == {i \in open : branches[i].branchId = ref}
      byName == {i \in open : branches[i].name = ref}
  IN IF byId # {} THEN FirstBranch(byId)
     ELSE IF byName # {} THEN FirstBranch(byName) ELSE 0

-----------------------------------------------------------------------------
BranchTypeOK == branches \in Seq(Branch)

\* The id that create returned means that branch for good, although ids and names
\* are drawn from the same words and names are given again.  Retrieval by the id
\* never takes another row, whatever the id is.  Closing and reopening look the row
\* up by id or name at once: by an id that is its own slug they act on that branch
\* and no other.
Means(i) ==
  LET id == branches[i].branchId
  IN /\ ResolveBranch(id, {"active", "closed"}) = i
     /\ branches[i].status = "active" => ResolveBranch(id, {"active"}) = i
Acts(i) == FirstBranch(Referenced(branches[i].branchId)) = i
OwnSlug(id) == Candidates[id] # <<>> /\ Candidates[id][1] = id
IdMeansBranch ==
  \A i \in DOMAIN branches : Means(i) /\ (OwnSlug(branches[i].branchId) => Acts(i))

\* Not so by an id with a suffix after a cut slug, or one cut behind a word: it may
\* be the name of an earlier branch, which is then closed in its place.
EveryIdActs == \A i \in DOMAIN branches : Acts(i)
=============================================================================
