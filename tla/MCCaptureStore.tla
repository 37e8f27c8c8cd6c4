--------------------------- MODULE MCCaptureStore ---------------------------
(***************************************************************************)
(* TLC instance: an open, a checkpoint, a failure and two commits, one of  *)
(* which brings the project hint.  e1 is new, e2 predates the index, and   *)
(* the user wants e3 left out of memory.                                   *)
(***************************************************************************)
EXTENDS CaptureStore, TLC
CONSTANTS e1, e2, e3, ask, reply, note, hint

Say(u, a, n, h, s) ==
  [user |-> u, answer |-> a, note |-> n, hint |-> h, status |-> s,
   excluded |-> {}]
Old == Say(ask, reply, NoText, NoText, "complete")

MCPost == {Say(ask, NoText, NoText, NoText, "open"),
           Say(NoText, NoText, note, NoText, "partial"),
           Say(NoText, NoText, note, NoText, "failed"),
           Say(NoText, reply, NoText, hint, "complete"),
           Say(ask, reply, NoText, NoText, "complete")}
\* Without the checkpoint and the failure, for the liveness run.
MCPostPlain == {t \in MCPost : t.note = NoText}
MCFile0 == [e \in Event |-> IF e = e2 THEN Old ELSE None]
=============================================================================
