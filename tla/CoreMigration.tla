--------------------------- MODULE CoreMigration ---------------------------
(***************************************************************************)
(* The rollback baseline of a Memory Core upgrade                          *)
(* (src/scripts/core-migration.mjs).  Preflight checks the live database,  *)
(* makes an online backup into a directory of its own, copies the          *)
(* configuration, fingerprints the backup and writes the manifest last.    *)
(* Verify compares the live database with the manifest's fingerprint;      *)
(* preserved looks for every record of the backup in the live database.    *)
(* Core may write at any time, and a preflight may die after every step.   *)
(*                                                                         *)
(* A database is a map from the records' primary keys to their contents;   *)
(* derived index tables and volatile tables are left out of fingerprints,  *)
(* and of the model.  A fingerprint is taken to tell any two databases     *)
(* apart, and is the database.  A Stamp is a preflight, and its directory; *)
(* stamps are ordered as the code's timestamps are.                        *)
(***************************************************************************)
EXTENDS Naturals, FiniteSets
CONSTANTS Record, Value,
          Stamps,     \* the number of preflights
          MaxWrites,  \* bound on Core's writes
          NoFile

ASSUME MigrationAssumption == Stamps \in Nat /\ MaxWrites \in Nat /\ NoFile \notin Value
Stamp == 1..Stamps
Database == [Record -> Value \cup {NoFile}]

VARIABLES live,      \* the live database
          healthy,   \* its quick_check passes
          runtime,   \* the vendored trees are as their manifest says
          writes,
          preflight, \* per stamp: how far its preflight is
          baseline,  \* per stamp: the backup in its directory, or NoFile
          manifest,  \* per stamp: the manifest's fingerprint, or NoFile
          verified,  \* per stamp: what the last verify or preserved found
          past       \* history: the states the live database has been in
migrationVars ==
  <<live, healthy, runtime, writes, preflight, baseline, manifest, verified, past>>

MigrationInit ==
  /\ live \in Database /\ healthy \in BOOLEAN /\ runtime \in BOOLEAN
  /\ writes = 0
  /\ preflight = [s \in Stamp |-> "none"]
  /\ baseline = [s \in Stamp |-> NoFile] /\ manifest = [s \in Stamp |-> NoFile]
  /\ verified = [s \in Stamp |-> "no"]
  /\ past = {live}

-----------------------------------------------------------------------------
\* Records are written and deleted by Core; what was verified may not hold any more.
CoreWrites(r, v) ==
  /\ writes < MaxWrites /\ live[r] # v
  /\ live' = [live EXCEPT ![r] = v]
  /\ writes' = writes + 1 /\ past' = past \cup {live'}
  /\ verified' = [s \in Stamp |-> "no"]
  /\ UNCHANGED <<healthy, runtime, preflight, baseline, manifest>>

Reach(s, stage) == preflight' = [preflight EXCEPT ![s] = stage]

\* inspectRuntime.  Stamps are taken in order.
Inspected(s) ==
  /\ preflight[s] = "none" /\ \A t \in Stamp : t < s => preflight[t] # "none"
  /\ Reach(s, IF healthy /\ runtime THEN "inspected" ELSE "failed")
  /\ UNCHANGED <<live, healthy, runtime, writes, baseline, manifest, verified, past>>

\* SQLite's online backup holds one state of the live database.
Backup(s) ==
  /\ preflight[s] = "inspected"
  /\ baseline' = [baseline EXCEPT ![s] = live]
  /\ Reach(s, "copied")
  /\ UNCHANGED <<live, healthy, runtime, writes, manifest, verified, past>>

\* Mutant: the manifest gets the fingerprint that the inspection took.
FingerprintLive(s) == live
\* The database as it is now is not looked at: the backup's fingerprint is written.
Fingerprint(s) == baseline[s]
WriteManifest(s) ==
  /\ preflight[s] = "copied"
  /\ manifest' = [manifest EXCEPT ![s] = Fingerprint(s)]
  /\ Reach(s, "done")
  /\ UNCHANGED <<live, healthy, runtime, writes, baseline, verified, past>>

CrashPreflight(s) ==
  /\ preflight[s] \in {"inspected", "copied"}
  /\ Reach(s, "failed")
  /\ UNCHANGED <<live, healthy, runtime, writes, baseline, manifest, verified, past>>

\* resolveManifestPath: the baseline that is named, or the newest with a manifest.
Named(s) == manifest[s] # NoFile
Finds(s, answer) == verified' = [verified EXCEPT ![s] = answer]

Verify(s) ==
  /\ Named(s)
  /\ Finds(s, IF healthy /\ live = manifest[s] THEN "exact" ELSE "no")
  /\ UNCHANGED <<live, healthy, runtime, writes, preflight, baseline, manifest, past>>

\* By primary key only: a record may have another content.
Keyed(db) == {r \in Record : db[r] # NoFile}
Preserved(s) ==
  /\ Named(s) /\ baseline[s] # NoFile
  /\ Finds(s, IF healthy /\ Keyed(baseline[s]) \subseteq Keyed(live)
              THEN "preserved" ELSE "no")
  /\ UNCHANGED <<live, healthy, runtime, writes, preflight, baseline, manifest, past>>

MigrationNext ==
  \/ \E r \in Record, v \in Value \cup {NoFile} : CoreWrites(r, v)
  \/ \E s \in Stamp : \/ Inspected(s) \/ Backup(s) \/ WriteManifest(s)
                      \/ CrashPreflight(s) \/ Verify(s) \/ Preserved(s)
MigrationSpec == MigrationInit /\ [][MigrationNext]_migrationVars

-----------------------------------------------------------------------------
MigrationTypeOK ==
  /\ live \in Database /\ {healthy, runtime} \subseteq BOOLEAN /\ writes \in 0..MaxWrites
  /\ preflight \in [Stamp -> {"none", "inspected", "copied", "done", "failed"}]
  /\ baseline \in [Stamp -> Database \cup {NoFile}]
  /\ manifest \in [Stamp -> Database \cup {NoFile}]
  /\ verified \in [Stamp -> {"no", "exact", "preserved"}]
  /\ past \subseteq Database

\* "Keep the rollback baseline immutable": a manifest vouches for a backup that is
\* complete, that it describes, and that the live database once was, although Core
\* writes during the preflight and the preflight may die; and while a verify stands,
\* rolling back to the baseline loses and brings back nothing.
ManifestVouches ==
  \A s \in Stamp :
     /\ manifest[s] # NoFile => baseline[s] = manifest[s] /\ baseline[s] \in past
     /\ verified[s] = "exact" => live = baseline[s]
=============================================================================
