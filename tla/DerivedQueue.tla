---------------------------- MODULE DerivedQueue ----------------------------
(***************************************************************************)
(* The jobs that a finished layer queues for the next one: an L2 result    *)
(* queues an L3 job of its project, an L3 result an L4 job over the latest *)
(* L3 result of every project (src/src/distillation-submit.ts).  The       *)
(* result is settled in the ledger first and the next job is queued in a   *)
(* later step, which may fail or never come; the same submit may then be   *)
(* repeated, or the job is queued by a reconciliation                      *)
(* (distillation-derived-recovery.ts), also while the submit is still      *)
(* running.  Every reading and every mutation of the ledger is one step.   *)
(*                                                                         *)
(* A Source is an L2 job.  Its L3 jobs are <<source, n>>: the first one    *)
(* queued, and a second one if the queue ever takes it twice.  A Reviewer  *)
(* runs reconcile_derived and reconcile_l4.  L3 jobs are completed by      *)
(* their own submits; the order of Core's commits is not the order of the  *)
(* completions.                                                            *)
(***************************************************************************)
EXTENDS Naturals, FiniteSets
CONSTANTS Source, Project, ProjectOf,
          Earlier,    \* the sources whose L3 job was completed before, one per project
          Reviewer, NoReview

ASSUME DerivedAssumption == ProjectOf \in [Source -> Project] /\ Earlier \subseteq Source
ASSUME EarlierAssumption == \A s, t \in Earlier : ProjectOf[s] = ProjectOf[t] => s = t

Profile == Source \X {1, 2}     \* L3 jobs
ASSUME KindsAssumption == IsFiniteSet(Source) /\ Source \cap Profile = {}

VARIABLES timeline,  \* per L2 job: how far its submit is
          profile,   \* per L3 job: how far it and its submit are
          committed, \* L3 jobs whose result Core has, latest last
          portraits, \* L4 jobs, <<the L3 results, 1 or 2>>
          listed,    \* per L3 job: the snapshot its submit has read
          review,    \* per reviewer: NoReview, or what it read
          dropped    \* history: queueings that failed or were never reached
derivedVars == <<timeline, profile, committed, portraits, listed, review, dropped>>

DerivedInit ==
  /\ timeline = [s \in Source |-> IF s \in Earlier THEN "completed" ELSE "leased"]
  /\ profile = [p \in Profile |-> IF p \in Earlier \X {1} THEN "completed" ELSE "none"]
  /\ committed = [p \in Profile |-> IF p \in Earlier \X {1} THEN 1 ELSE 0]
  /\ portraits = IF Cardinality(Earlier \X {1}) >= 2 THEN {<<Earlier \X {1}, 1>>} ELSE {}
  /\ listed = [p \in Profile |-> {}]
  /\ review = [r \in Reviewer |-> NoReview]
  /\ dropped = {}

-----------------------------------------------------------------------------
Settled == {"completed", "listing", "queueing"}
Done2 == {s \in Source : timeline[s] \in {"completed", "queueing"}}
Done3 == {p \in Profile : profile[p] \in Settled}
Claims(s) == {p \in {s} \X {1, 2} : profile[p] # "none"}

\* latestCompletedL3ByProject: by the time of the commit, not of the completion.
Latest ==
  {p \in Done3 : \A q \in Done3 :
      ProjectOf[q[1]] = ProjectOf[p[1]] => committed[q] <= committed[p]}

\* enqueueJob, under the ledger's lock: a job of the same evidence is not queued again.
QueueProfile(s) ==
  IF Claims(s) # {} THEN UNCHANGED profile
  ELSE profile' = [profile EXCEPT ![<<s, 1>>] = "leased"]

\* Mutant: a job of the same evidence is queued again.
QueuePortraitAgain(set) ==
  portraits' = portraits \cup
    {IF <<set, 1>> \in portraits THEN <<set, 2>> ELSE <<set, 1>>}
QueuePortrait(set) ==
  IF \E n \in {1, 2} : <<set, n>> \in portraits THEN UNCHANGED portraits
  ELSE portraits' = portraits \cup {<<set, 1>>}

-----------------------------------------------------------------------------
\* completeDistillationJobAfterCoreCommit, then enqueueDerivedDistillationJob.
CompleteTimeline(s) ==
  /\ timeline[s] = "leased"
  /\ timeline' = [timeline EXCEPT ![s] = "queueing"]
  /\ UNCHANGED <<profile, committed, portraits, listed, review, dropped>>

DeriveProfile(s) ==
  /\ timeline[s] = "queueing"
  /\ timeline' = [timeline EXCEPT ![s] = "completed"]
  /\ QueueProfile(s)
  /\ UNCHANGED <<committed, portraits, listed, review, dropped>>

\* The queueing throws, or the process dies.
DropProfile(s) ==
  /\ timeline[s] = "queueing"
  /\ timeline' = [timeline EXCEPT ![s] = "completed"]
  /\ dropped' = dropped \cup {s}
  /\ UNCHANGED <<profile, committed, portraits, listed, review>>

\* A submit that died before its record was closed, repeated: Core's result is in
\* the record and the job is completed, so it goes on with the queueing.
RepeatTimeline(s) ==
  /\ s \in dropped /\ timeline[s] = "completed"
  /\ timeline' = [timeline EXCEPT ![s] = "queueing"]
  /\ dropped' = dropped \ {s}
  /\ UNCHANGED <<profile, committed, portraits, listed, review>>

-----------------------------------------------------------------------------
CommitProfile(p) ==
  /\ profile[p] = "leased" /\ committed[p] = 0
  /\ committed' = [committed EXCEPT ![p] = 1 + Cardinality({q \in Profile : committed[q] > 0})]
  /\ UNCHANGED <<timeline, profile, portraits, listed, review, dropped>>

\* Mutant: the L3 results are listed before the submit settles its own.
CompleteListed(p) ==
  /\ profile[p] = "leased" /\ committed[p] > 0
  /\ listed' = [listed EXCEPT ![p] = Latest]
  /\ profile' = [profile EXCEPT ![p] = IF Cardinality(Latest) >= 2 THEN "queueing"
                                       ELSE "completed"]
  /\ UNCHANGED <<timeline, committed, portraits, review, dropped>>
CompleteProfile(p) ==
  /\ profile[p] = "leased" /\ committed[p] > 0
  /\ profile' = [profile EXCEPT ![p] = "listing"]
  /\ UNCHANGED <<timeline, committed, portraits, listed, review, dropped>>

\* One project alone makes no portrait.
ListProfiles(p) ==
  /\ profile[p] = "listing"
  /\ listed' = [listed EXCEPT ![p] = Latest]
  /\ profile' = [profile EXCEPT ![p] = IF Cardinality(Latest) >= 2 THEN "queueing"
                                       ELSE "completed"]
  /\ UNCHANGED <<timeline, committed, portraits, review, dropped>>

EndProfile(p) == /\ profile' = [profile EXCEPT ![p] = "completed"]
                 /\ listed' = [listed EXCEPT ![p] = {}]

DerivePortrait(p) ==
  /\ profile[p] = "queueing"
  /\ QueuePortrait(listed[p])
  /\ EndProfile(p)
  /\ UNCHANGED <<timeline, committed, review, dropped>>

DropPortrait(p) ==
  /\ profile[p] \in {"listing", "queueing"}
  /\ EndProfile(p)
  /\ dropped' = dropped \cup {p}
  /\ UNCHANGED <<timeline, committed, portraits, review>>

RepeatProfile(p) ==
  /\ p \in dropped /\ profile[p] = "completed"
  /\ profile' = [profile EXCEPT ![p] = "listing"]
  /\ dropped' = dropped \ {p}
  /\ UNCHANGED <<timeline, committed, portraits, listed, review>>

-----------------------------------------------------------------------------
\* reconcileCompletedL2DerivedJob: a missing claim is queued after a second reading.
\* A source is immutable once it is completed.
ReviewTimeline(r, s) ==
  /\ review[r] = NoReview /\ s \in Done2 /\ Claims(s) = {}
  /\ review' = [review EXCEPT ![r] = [source |-> s, set |-> {}, rechecked |-> FALSE]]
  /\ UNCHANGED <<timeline, profile, committed, portraits, listed, dropped>>

\* reconcileCurrentL4DerivedJob: the source must be its project's latest.
ReviewProfile(r, p) ==
  /\ review[r] = NoReview /\ p \in Latest /\ Cardinality(Latest) >= 2
  /\ \A n \in {1, 2} : <<Latest, n>> \notin portraits
  /\ review' = [review EXCEPT ![r] = [source |-> p[1], set |-> Latest, rechecked |-> FALSE]]
  /\ UNCHANGED <<timeline, profile, committed, portraits, listed, dropped>>

OfPortrait(r) == review[r].set # {}
Recheck(r) ==
  /\ review[r] # NoReview /\ ~review[r].rechecked
  /\ review' = [review EXCEPT ![r] =
        IF OfPortrait(r) /\ Latest # review[r].set THEN NoReview
        ELSE [review[r] EXCEPT !.rechecked = TRUE]]
  /\ UNCHANGED <<timeline, profile, committed, portraits, listed, dropped>>

Reconcile(r) ==
  /\ review[r] # NoReview /\ review[r].rechecked
  /\ IF OfPortrait(r)
     THEN QueuePortrait(review[r].set) /\ UNCHANGED profile
     ELSE QueueProfile(review[r].source) /\ UNCHANGED portraits
  /\ review' = [review EXCEPT ![r] = NoReview]
  /\ UNCHANGED <<timeline, committed, listed, dropped>>

DerivedNext ==
  \/ \E s \in Source : CompleteTimeline(s) \/ DeriveProfile(s) \/ DropProfile(s)
                       \/ RepeatTimeline(s)
  \/ \E p \in Profile : CommitProfile(p) \/ CompleteProfile(p) \/ ListProfiles(p)
                        \/ DerivePortrait(p) \/ DropPortrait(p) \/ RepeatProfile(p)
  \/ \E r \in Reviewer : \/ \E s \in Source : ReviewTimeline(r, s)
                         \/ \E p \in Profile : ReviewProfile(r, p)
                         \/ Recheck(r) \/ Reconcile(r)
DerivedSpec == DerivedInit /\ [][DerivedNext]_derivedVars

-----------------------------------------------------------------------------
DerivedTypeOK ==
  /\ timeline \in [Source -> {"leased", "queueing", "completed"}]
  /\ profile \in [Profile -> {"none", "leased"} \cup Settled]
  /\ committed \in [Profile -> Nat]
  /\ portraits \subseteq (SUBSET Profile) \X {1, 2}
  /\ listed \in [Profile -> SUBSET Profile]
  /\ review \in [Reviewer -> {NoReview} \cup
        [source : Source, set : SUBSET Profile, rechecked : BOOLEAN]]
  /\ dropped \subseteq Source \cup Profile

\* Whatever submits, repeats and reconciliations run side by side, nothing is derived
\* twice, which the audit would report as conflicting provenance for good.
DerivedOnce ==
  /\ \A s \in Source : Cardinality(Claims(s)) <= 1
  /\ \A x, y \in portraits : x[1] = y[1] => x = y

\* Nothing is silently left underived: once the submits have ended, every L2 result
\* has its L3 job, and the latest L3 results of all projects, in whatever order they
\* were committed and completed, their L4 job, unless a queueing was reported as
\* failed or a process died.
NothingUnderived ==
  /\ \A s \in Done2 : timeline[s] = "completed" => Claims(s) # {} \/ s \in dropped
  /\ (/\ \A p \in Profile : profile[p] \in {"none", "leased", "completed"}
      /\ Cardinality(Latest) >= 2
      /\ dropped \cap Profile = {})
       => <<Latest, 1>> \in portraits
=============================================================================
