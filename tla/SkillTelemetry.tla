--------------------------- MODULE SkillTelemetry ---------------------------
(***************************************************************************)
(* The log of Skill executions (src/src/skill-telemetry.ts): one line is   *)
(* appended for each stage an execution of a Skill reaches, and no line is *)
(* ever changed.  A recording reads the log, decides by it and appends     *)
(* later, without a lock, so recordings of several requests cross.         *)
(*                                                                         *)
(* An execution id is drawn by the first load or given by the caller.      *)
(* Notes, executors, token estimates and the 8 MiB bound are left out.     *)
(***************************************************************************)
EXTENDS Naturals, Sequences
CONSTANTS Execution, Skill, Recorder, NoRecord,
          MaxEvents   \* bound on the log

ASSUME TelemetryAssumption == MaxEvents \in Nat

VARIABLES telemetry,  \* the log
          recording   \* per request: NoRecord, or what it is about to append
telemetryVars == <<telemetry, recording>>

Outcome == {"success", "failure"}
SkillStage == {"selected", "loaded", "invoked", "user_correction"} \cup Outcome
Event == [execution : Execution, skill : Skill, stage : SkillStage]

TelemetryInit == telemetry = <<>> /\ recording = [r \in Recorder |-> NoRecord]

-----------------------------------------------------------------------------
EventsOf(x) == {telemetry[i] : i \in {k \in DOMAIN telemetry : telemetry[k].execution = x}}
Stages(x) == {e.stage : e \in EventsOf(x)}
Foreign(x, k) == \E e \in EventsOf(x) : e.skill # k

Line(x, k, stage) == [execution |-> x, skill |-> k, stage |-> stage]
StartRecording(r, lines) ==
  /\ recording[r] = NoRecord /\ Len(telemetry) < MaxEvents
  /\ recording' = [recording EXCEPT ![r] = IF lines = <<>> THEN NoRecord ELSE lines]
  /\ UNCHANGED telemetry

\* recordSkillLoad: what is missing of the two lines, as read once.
Missing(x, k, stage) == IF stage \in Stages(x) THEN <<>> ELSE <<Line(x, k, stage)>>
RecordSkillLoad(r, x, k) ==
  /\ ~Foreign(x, k)
  /\ StartRecording(r, Missing(x, k, "selected") \o Missing(x, k, "loaded"))

\* Mutant: an outcome is taken of what was only loaded.
MayReachLoaded(x, stage) ==
  /\ "loaded" \in Stages(x)
  /\ stage # "user_correction" => Stages(x) \cap Outcome = {}
\* What recordSkillExecutionEvent lets an execution go on with.
MayReach(x, stage) ==
  /\ "loaded" \in Stages(x)
  /\ CASE stage = "invoked" -> Stages(x) \cap Outcome = {}
       [] stage \in Outcome -> "invoked" \in Stages(x) /\ Stages(x) \cap Outcome = {}
       [] OTHER -> "invoked" \in Stages(x)

RecordSkillExecutionEvent(r, x, k, stage) ==
  /\ ~Foreign(x, k) /\ MayReach(x, stage)
  /\ StartRecording(r, <<Line(x, k, stage)>>)

\* One appendFile.
AppendSkillEvent(r) ==
  /\ recording[r] # NoRecord /\ Len(telemetry) < MaxEvents
  /\ telemetry' = Append(telemetry, Head(recording[r]))
  /\ recording' = [recording EXCEPT ![r] =
                     IF Len(@) = 1 THEN NoRecord ELSE Tail(@)]

CrashRecorder(r) ==
  /\ recording[r] # NoRecord
  /\ recording' = [recording EXCEPT ![r] = NoRecord]
  /\ UNCHANGED telemetry

TelemetryNext == \E r \in Recorder :
  \/ \E x \in Execution, k \in Skill :
        \/ RecordSkillLoad(r, x, k)
        \/ \E stage \in {"invoked", "user_correction"} \cup Outcome :
              RecordSkillExecutionEvent(r, x, k, stage)
  \/ AppendSkillEvent(r) \/ CrashRecorder(r)
TelemetrySpec == TelemetryInit /\ [][TelemetryNext]_telemetryVars

-----------------------------------------------------------------------------
TelemetryTypeOK ==
  /\ telemetry \in Seq(Event)
  /\ recording \in [Recorder -> {NoRecord} \cup Seq(Event)]

Before(i, stage) == \E j \in 1..(i - 1) : /\ telemetry[j].execution = telemetry[i].execution
                                          /\ telemetry[j].skill = telemetry[i].skill
                                          /\ telemetry[j].stage = stage
\* Whatever recordings cross, a Skill is credited with what its own executions went
\* through: an outcome or a correction follows an invocation, and that a load, of the
\* same execution and the same Skill.
OutcomeOfInvoked ==
  \A i \in DOMAIN telemetry :
     /\ telemetry[i].stage \in {"invoked", "user_correction"} \cup Outcome =>
           Before(i, "loaded")
     /\ telemetry[i].stage \in {"user_correction"} \cup Outcome => Before(i, "invoked")

\* "Skill execution already has a terminal outcome": an execution has one at most.
OneOutcome ==
  \A i, j \in DOMAIN telemetry :
     telemetry[i].stage \in Outcome /\ telemetry[j].stage \in Outcome
       /\ telemetry[i].execution = telemetry[j].execution => i = j
=============================================================================
