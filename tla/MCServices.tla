----------------------------- MODULE MCServices -----------------------------
(***************************************************************************)
(* TLC instance of the components that share no state with one another:    *)
(* part says which of them runs, from the start to the end, so the run     *)
(* visits each one's states and not their product.                         *)
(***************************************************************************)
EXTENDS MCProjects, Accounts, BranchStore, ArchitectureGovernance, MemoryRetirement,
        SkillGovernance, SkillTelemetry, UserAuthorizedMemory, CoreMigration,
        DerivedQueue, CaptureProjects, ContextRetrieval, EvidenceChain,
        ResultTransport
CONSTANTS x, x2, x22, y, y2, s1, s2, s3, pa, pb, ha, wo, qa, qb, th, na, nb,
          c1, c2, rd1, rd2, ac1, ac2, j1, j2, m1, m2

\* Accounts: two addresses, each with the name its account is given at login.
MCJit(e) == IF e = m1 THEN j1 ELSE j2

\* Branches: x2 is the second id for the name x, and a name itself; y is as long as a
\* slug may be, so the name y2, its second id, is cut to y.
MCCandidates == [n \in Label |-> CASE n = x -> <<x, x2>> [] n = x2 -> <<x2, x22>>
                                   [] n \in {y, y2} -> <<y, y2>> [] OTHER -> <<n>>]
\* Derived jobs: two L2 results of one project, one of another.
MCProjectOf == (s1 :> pa) @@ (s2 :> pa) @@ (s3 :> pb)

\* Captured turns: one of a thread with a workspace, one with a hint alone; the
\* registry leads all words to the first project, then to the second.
MCShape == <<[time |-> 1, hint |-> Nil, workspace |-> wo, thread |-> th],
             [time |-> 2, hint |-> ha, workspace |-> Nil, thread |-> th]>>
MCRegistry0 == (ha :> Nil) @@ (wo :> qa) @@ (qa :> qa) @@ (qb :> qb)
MCChanged == {<<MCRegistry0, [w \in Alias \cup Place |-> qb]>>}
\* For RoutingRederived: and back again.
MCChangedBack == MCChanged \cup {<<[w \in Alias \cup Place |-> qb], MCRegistry0>>}
MCAssignment == {[ids |-> {1}, thread |-> th, to |-> qa]}
MCAssignments == MCAssignment \cup {[ids |-> {1}, thread |-> Nil, to |-> qb]}

\* Context: what calls name, and a memory of each layer, some of it under c.
MCQuestion == [project |-> None, workspace |-> None, mentioned |-> {}, semantic |-> {},
               thread |-> None, skills |-> {}]
MCAsk == {[MCQuestion EXCEPT !.project = b, !.skills = {a}],
          [MCQuestion EXCEPT !.project = b, !.workspace = a],
          [MCQuestion EXCEPT !.semantic = {c, b}, !.thread = th]}
MCStored(layer, under, size) == [layer |-> layer, under |-> under, size |-> size]
MCMemory == {MCStored("L4", None, 3), MCStored("L3", a, 2), MCStored("L3", b, 2),
             MCStored("L2", b, 5), MCStored("L2", c, 1), MCStored("L1", c, 3),
             MCStored("Skill", a, 4)}
MCFresh == {[ref |-> b, thread |-> th, size |-> 2]}
MCExcerpt == [item \in Retrieved |-> [most \in Least..ItemCap |->
                IF item \in MCMemory /\ item.layer = "L2" THEN most - 1 ELSE most]]
MCRank == [w \in Word |-> CASE w = b -> 1 [] w = a -> 2 [] OTHER -> 3]

\* Evidence: a distilled project and one whose first timeline is queued.
MCHinted == (c1 :> na) @@ (c2 :> nb)
MCItem(ref, layer, under) == [ref |-> ref, layer |-> layer, under |-> under]
MCLedger0 == <<NewRow("l2", na, {MCItem(c1, "l1", na)}, "completed", FALSE),
               NewRow("l3", na, {MCItem(1, "l2", na)}, "completed", FALSE),
               NewRow("l2", nb, {MCItem(c2, "l1", nb)}, "pending", FALSE)>>
MCNamedRefs == {{c1, c2}, {1, 3}, {2, 4}}

\* Results: an account has room for two unless both are long, the two together for two.
MCAccountOf == (rd1 :> ac1) @@ (rd2 :> ac2)
MCLongText == {[size |-> 3, bytes |-> 5, splits |-> {1}],
               [size |-> 6, bytes |-> 7, splits |-> {3}]}

\* The two tasks of the backfill are interchangeable, and so are the sessions, the
\* reviewers and the curators; no two of these pairs are in the same part.
MCOrder(pair, swapped) ==
  CHOOSE f \in Permutations(pair) : \A v \in pair : f[v] # v <=> swapped
MCInterchanged ==
  {MCOrder(Backfiller, swapped) @@ MCOrder(Session, swapped)
     @@ MCOrder(Reviewer, swapped) @@ MCOrder(Curator, swapped) : swapped \in BOOLEAN}

VARIABLE part
Part == {"projects", "branches", "architecture", "retirement", "skills", "telemetry",
         "authorized", "migration", "accounts", "derived", "captures", "context",
         "evidence", "results"}

ServicesInit ==
  /\ part \in Part
  /\ GovernanceInit /\ BranchInit /\ ArchitectureInit /\ RetirementInit /\ SkillInit
  /\ TelemetryInit /\ AuthorizedInit /\ MigrationInit /\ AccountsInit /\ DerivedInit
  /\ CaptureProjectInit /\ reading = None /\ EvidenceInit /\ TransportInit
  /\ part # "captures" => hinted = <<>>
  /\ part # "architecture" => repository = Nothing
  /\ part # "migration" => healthy /\ runtime /\ live = [r \in Record |-> NoFile]

ServicesNext ==
  /\ UNCHANGED part
  /\ CASE part = "projects" -> GovernanceNext /\ UNCHANGED reading
       [] part = "context" -> ContextNext /\ UNCHANGED <<authorization, approved, jobs>>
       [] OTHER -> UNCHANGED <<governanceVars, reading>>
  /\ IF part = "branches" THEN BranchNext ELSE UNCHANGED branches
  /\ IF part = "architecture" THEN ArchitectureNext ELSE UNCHANGED architectureVars
  /\ IF part = "retirement" THEN RetirementNext ELSE UNCHANGED retirementVars
  /\ IF part = "skills" THEN SkillNext ELSE UNCHANGED skillVars
  /\ IF part = "telemetry" THEN TelemetryNext ELSE UNCHANGED telemetryVars
  /\ IF part = "authorized" THEN AuthorizedNext ELSE UNCHANGED authorizedVars
  /\ IF part = "migration" THEN MigrationNext ELSE UNCHANGED migrationVars
  /\ IF part = "accounts" THEN AccountsNext ELSE UNCHANGED accountVars
  /\ IF part = "derived" THEN DerivedNext ELSE UNCHANGED derivedVars
  /\ IF part = "captures" THEN CaptureProjectNext ELSE UNCHANGED captureProjectVars
  /\ IF part = "evidence" THEN EvidenceNext ELSE UNCHANGED evidenceVars
  /\ IF part = "results" THEN TransportNext ELSE UNCHANGED transportVars
servicesVars ==
  <<part, governanceVars, branches, architectureVars, retirementVars, skillVars,
    telemetryVars, authorizedVars, migrationVars, accountVars, derivedVars,
    captureProjectVars, reading, evidenceVars, transportVars>>
ServicesSpec == ServicesInit /\ [][ServicesNext]_servicesVars

ServicesTypeOK ==
  CASE part = "projects" -> GovernanceTypeOK
    [] part = "branches" -> BranchTypeOK
    [] part = "architecture" -> ArchitectureTypeOK
    [] part = "retirement" -> RetirementTypeOK
    [] part = "skills" -> SkillTypeOK
    [] part = "telemetry" -> TelemetryTypeOK
    [] part = "authorized" -> AuthorizedTypeOK
    [] part = "migration" -> MigrationTypeOK
    [] part = "accounts" -> AccountsTypeOK
    [] part = "derived" -> DerivedTypeOK
    [] part = "captures" -> CaptureProjectTypeOK
    [] part = "context" -> ContextTypeOK
    [] part = "evidence" -> EvidenceTypeOK
    [] part = "results" -> TransportTypeOK
=============================================================================
