---------------------------- MODULE BranchService ---------------------------
(***************************************************************************)
(* What the branches table promises of a branch: the abstract              *)
(* specification that BranchLifecycle implements.                          *)
(*                                                                         *)
(* A branch is ready only while its database is whole, that is, neither    *)
(* dropped under its feet nor half restored; its data may be taken apart   *)
(* only after the row stopped saying ready.  Of a branch on which two      *)
(* operations overlapped, an attempt was repeated after a crash or a       *)
(* timeout, or the API did not hear of the start of the clone and marks it *)
(* failed next to the worker, nothing is promised any more.                *)
(***************************************************************************)
CONSTANT Branch

VARIABLES
  status,   \* the status column; "absent" before, "gone" after the row, and
            \* "disturbed" once nothing is promised
  whole     \* is the database of the branch whole?

serviceVars == <<status, whole>>

ServiceInit ==
  /\ status \in [Branch -> {"absent", "ready"}]
  /\ whole = [b \in Branch |-> TRUE]

Move(b, from, to) ==
  /\ status[b] \in from
  /\ status' = [status EXCEPT ![b] = to]

(* A branch without a parent is ready at once: nothing has to be copied. *)
Create(b) ==
  /\ \E to \in {"creating", "ready"} : Move(b, {"absent"}, to)
  /\ UNCHANGED whole

(* A restore is requested, or the worker starts over. *)
Begin(b) == Move(b, {"ready", "failed", "creating"}, "creating") /\ UNCHANGED whole

Rework(b) ==
  /\ status[b] \in {"creating", "failed", "gone", "disturbed"}
  /\ \E w \in BOOLEAN : whole' = [whole EXCEPT ![b] = w]
  /\ UNCHANGED status

Complete(b) ==
  whole[b] /\ Move(b, {"creating", "failed"}, "ready") /\ UNCHANGED whole

Fail(b) == Move(b, {"creating", "failed"}, "failed") /\ UNCHANGED whole

Expire(b) == Move(b, {"creating", "ready", "failed"}, "gone") /\ UNCHANGED whole

(* Some of the branches are disturbed, the others stay as they are. *)
Disturb ==
  /\ status' = [b \in Branch |-> IF status'[b] = "disturbed" THEN "disturbed" ELSE status[b]]
  /\ UNCHANGED whole

ServiceNext ==
  \/ Disturb
  \/ \E b \in Branch : \/ Create(b) \/ Begin(b) \/ Rework(b)
                       \/ Complete(b) \/ Fail(b) \/ Expire(b)

Service == ServiceInit /\ [][ServiceNext]_serviceVars
=============================================================================
