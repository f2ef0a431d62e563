------------------------ MODULE BranchLifecycleProofs -------------------------
(***************************************************************************)
(* What BranchLifecycle guarantees for every set of branches, restores,    *)
(* backups and rows, every limit of attempts and every number of faults    *)
(* and timeouts, whether operations may overlap or not; and that it        *)
(* implements BranchService.                                               *)
(***************************************************************************)
EXTENDS MCBranches, TLAPS

(* No statement of the attempt is under way. *)
Resting == {"idle", "over"}

(* Before the mark that the attempt leaves on its branch and its job. *)
Unmarked == {"begin", "reset", "copy", "truncate", "create", "load", "loading", "commit", "fail"}

(* The operation was requested. *)
Asked(o) == api[o] # "idle" \/ wf[o] # "none"

(* The clone was started, and the API is going to mark it failed.          *)
Unheard(o) == api[o] = "mark" /\ o \in disturbed

(* Which statements come before which: a workflow has no attempt before it *)
(* starts, the API starts it at most once, nothing precedes the rows, and  *)
(* clones and restores have statements of their own.                       *)
Order ==
  /\ \A o \in Op :
       /\ wf[o] = "none" => attempts[o] = 0
       /\ wf[o] = "scheduled" => attempts[o] < MaxAttempts
       /\ wf[o] = "started" => attempts[o] \in Attempt
       /\ api[o] # "idle" => wf[o] = "none" \/ Unheard(o)
       /\ \A k \in Attempt : k > attempts[o] => run[o][k] = "idle"
  /\ \A b \in Branch :
       /\ Asked(b) => branch[b].status # "absent" /\ branch[b].parent \in Branch
       /\ branch[b].status = "absent" => branch[b].parent = None
       /\ \A k \in Attempt : run[b][k] \notin {"create", "load", "loading"}
  /\ \A r \in Restore :
       /\ IF restore[r].status = "absent"
          THEN ~Asked(r) /\ restore[r].target = None
          ELSE /\ restore[r].target \in Branch /\ restore[r].backup \in Backup
               /\ branch[restore[r].target].status # "absent"
       /\ api[r] # "mark"
       /\ \A k \in Attempt : run[r][k] \notin {"copy", "truncate"}

(* What pg_restore loads, and where to, is there. *)
Loads ==
  \A r \in Restore, k \in Attempt :
    At(r, k, "loading") => disk[Target(r)] # None /\ dump[restore[r].backup] # None

Typed == TypeOK /\ Order /\ Loads

(* The parent of a branch is there and will not expire. *)
Lineage ==
  \A b \in Branch :
    branch[b].parent # None => Here(branch[b].parent) /\ ~branch[branch[b].parent].expires

(* The attempt will mark the branch, or fail before it did and be repeated. *)
WillMark(o, k) ==
  \/ run[o][k] \in Unmarked \ {"begin"}
  \/ At(o, k, "begin") /\ (Temporal!Current(o, k) \/ k = MaxAttempts)
  \/ At(o, k, "rethrow") /\ Temporal!Current(o, k) /\ k < MaxAttempts

(* Something of the operation is to come that takes its branch out of      *)
(* creating.                                                               *)
Pending(o) == api[o] # "idle" \/ wf[o] = "scheduled" \/ \E k \in Attempt : WillMark(o, k)

Watched ==
  \A b \in Branch : branch[b].status = "creating" =>
    \E o \in Op : Target(o) = b /\ (Pending(o) \/ o \in stranded)

-----------------------------------------------------------------------------
(* Where nothing is disturbed one operation works on a branch, by one      *)
(* attempt, which Temporal listens to.                                     *)
Free(o) == Touches(o) \ disturbed # {}

Sole ==
  \A o \in Op : Free(o) =>
    /\ \A k \in Attempt : run[o][k] \notin Resting => Temporal!Current(o, k)
    /\ wf[o] = "started" => run[o][attempts[o]] \notin Resting

Alone ==
  \A o, p \in Op : o # p /\ Open(o) /\ Open(p) => Touches(o) \cap Touches(p) \subseteq disturbed

(* A clone has its parent to itself, too, and the parent stays ready.      *)
Linked ==
  \A b \in Branch : Open(b) /\ b \notin disturbed =>
    branch[b].parent \notin disturbed /\ branch[branch[b].parent].status = "ready"

(* The operation has not brought its branch to ready. *)
Undone(o) ==
  \/ api[o] # "idle" \/ wf[o] = "scheduled"
  \/ \E k \in Attempt : run[o][k] \notin Resting \cup {"report"}

NotReady ==
  \A o \in Op : Undone(o) /\ Target(o) \notin disturbed => branch[Target(o)].status # "ready"

(* No restore is half loaded into what an attempt is about to hand over. *)
Clean ==
  \A o \in Op, k \in Attempt : Target(o) \notin disturbed =>
    /\ run[o][k] \in {"copy", "truncate", "create", "load", "commit"} => Whole(Target(o))
    /\ At(o, k, "loading") => disk[Target(o)] \cap Restore \subseteq {o}

(* A branch is made with its row, never before. *)
Fresh == \A b \in Branch : branch[b].status = "absent" => disk[b] = None

Calm == Fresh /\ Sole /\ Alone /\ Linked /\ NotReady /\ Clean /\ ReadyIsWhole

(* Before an attempt, and after one that threw, the job is as it was asked *)
(* for or marked failed.                                                   *)
JobAgrees(r) ==
  LET status == restore[r].status
  IN /\ wf[r] = "scheduled" => r \in stranded \/ status \in {"queued", "failed"}
     /\ wf[r] = "completed" => status = "succeeded"
     /\ wf[r] = "failed" => r \in stranded \/ status = "failed"
     /\ api[r] # "idle" => status = "queued"
     /\ \A k \in Attempt :
          /\ run[r][k] \in {"begin", "rethrow"} => r \in stranded \/ status \in {"queued", "failed"}
          /\ At(r, k, "rethrow") /\ k = MaxAttempts => r \in stranded \/ status = "failed"
          /\ At(r, k, "report") => status = "succeeded"

JobsAgree ==
  \A r \in Restore : Target(r) \notin disturbed /\ restore[r].status # "gone" => JobAgrees(r)

IInv == Typed /\ Lineage /\ Watched /\ Calm /\ JobsAgree

-----------------------------------------------------------------------------
(***************************************************************************)
(* Rows and attempts.                                                      *)
(***************************************************************************)
(* Clones and restores are different, and nobody is None. *)
LEMMA Ids ==
  /\ \A o \in Op : o \in Branch <=> o \notin Restore
  /\ None \notin Branch /\ None \notin Backup
  /\ Datum \cap Restore = {}
  /\ None \notin Content
BY DistinctAssumption DEF Op, Content

(* A branch is marked: its status only, and only if it is there. *)
LEMMA Marked ==
  ASSUME TypeOK, NEW b \in Branch, NEW s \in {"creating", "ready", "failed"}, SetBranch(b, s)
  PROVE  /\ branch' \in [Branch -> BranchRow]
         /\ \A c \in Branch : /\ branch'[c].parent = branch[c].parent
                              /\ branch'[c].expires = branch[c].expires
                              /\ branch'[c].mode = branch[c].mode
                              /\ c # b \/ ~Here(b) => branch'[c] = branch[c]
         /\ branch'[b].status = IF Here(b) THEN s ELSE branch[b].status
BY DEF TypeOK, BranchRow, SetBranch, Here

(* A restore job is marked: its status only, and only if it is there. *)
LEMMA JobMarked ==
  ASSUME TypeOK, NEW r \in Restore, NEW s \in {"running", "succeeded", "failed"}, SetRestore(r, s)
  PROVE  /\ restore' \in [Restore -> RestoreRow]
         /\ \A q \in Restore : /\ restore'[q].target = restore[q].target
                               /\ restore'[q].backup = restore[q].backup
                               /\ q # r => restore'[q] = restore[q]
         /\ restore'[r].status = IF restore[r].status = "gone" THEN "gone" ELSE s
BY DEF TypeOK, RestoreRow, SetRestore

(* An attempt goes on alone. *)
LEMMA Moved ==
  ASSUME TypeOK, NEW o \in Op, NEW k \in Attempt, NEW pc \in Step, Goto(o, k, pc)
  PROVE  /\ run' \in [Op -> [Attempt -> Step]]
         /\ run'[o][k] = pc
         /\ \A p \in Op, i \in Attempt : p # o \/ i # k => run'[p][i] = run[p][i]
BY DEF TypeOK, Goto

(* An attempt goes on and breaks the restores into its databases. *)
LEMMA MovedKilling ==
  ASSUME TypeOK, NEW o \in Op, NEW k \in Attempt, NEW pc \in Step, NEW B,
         GotoKilling(o, k, pc, B)
  PROVE  /\ run' \in [Op -> [Attempt -> Step]]
         /\ run'[o][k] = pc
         /\ \A p \in Op, i \in Attempt : p # o \/ i # k =>
              IF At(p, i, "loading") /\ Target(p) \in B THEN run'[p][i] = "fail"
              ELSE run'[p][i] = run[p][i]
BY DEF TypeOK, GotoKilling, At, Step

-----------------------------------------------------------------------------
(***************************************************************************)
(* The statements of attempts.                                             *)
(***************************************************************************)
Statement(o, k) == CloneStep(o, k) \/ RestoreStep(o, k) \/ StatementFails(o, k)

(* Rows keep what they say beside their status, and none comes or goes. *)
RowsStay ==
  /\ \A b \in Branch :
       /\ branch'[b].parent = branch[b].parent /\ branch'[b].expires = branch[b].expires
       /\ branch'[b].status = "absent" <=> branch[b].status = "absent"
       /\ Here(b)' <=> Here(b)
  /\ \A r \in Restore :
       /\ restore'[r].target = restore[r].target /\ restore'[r].backup = restore[r].backup
       /\ restore'[r].status = "absent" <=> restore[r].status = "absent"
       /\ restore'[r].status = "gone" <=> restore[r].status = "gone"

(* The other attempts go on as they did, or their pg_restore is broken. *)
OthersGoOn(o, k) ==
  \A p \in Op, i \in Attempt : p # o \/ i # k =>
    run'[p][i] = run[p][i] \/ (At(p, i, "loading") /\ run'[p][i] = "fail")

(* A branch that is marked is there as before. *)
LEMMA MarkKeepsRows ==
  ASSUME TypeOK, NEW b \in Branch, NEW s \in {"creating", "ready", "failed"}, SetBranch(b, s)
  PROVE  \A c \in Branch :
           /\ branch'[c].parent = branch[c].parent /\ branch'[c].expires = branch[c].expires
           /\ branch'[c].status = "absent" <=> branch[c].status = "absent"
           /\ Here(c)' <=> Here(c)
BY Marked DEF Here

(* A statement changes rows and the attempt; nobody else goes on. *)
LEMMA StatementRows ==
  ASSUME Typed, NEW o \in Op, NEW k \in Attempt, Statement(o, k)
  PROVE  /\ branch' \in [Branch -> BranchRow] /\ restore' \in [Restore -> RestoreRow]
         /\ RowsStay
         /\ \A b \in Branch : b # Target(o) => branch'[b] = branch[b]
         /\ \A r \in Restore : r # o => restore'[r] = restore[r]
         /\ UNCHANGED <<dump, lostDest, api, wf, attempts, disturbed, races>>
         /\ stranded \subseteq stranded' /\ stranded' \subseteq stranded \cup {o}
         /\ losses' \in 0 .. MaxLosses
<1> USE BoundAssumption DEF Typed, backupVars, faultVars, dbVars
<1> DEFINE Rows == /\ branch' \in [Branch -> BranchRow] /\ restore' \in [Restore -> RestoreRow]
                   /\ RowsStay
                   /\ \A b \in Branch : b # Target(o) => branch'[b] = branch[b]
                   /\ \A r \in Restore : r # o => restore'[r] = restore[r]
<1>1. CASE StatementFails(o, k)
  <2>1. UNCHANGED <<dbVars, backupVars, api, wf, attempts, disturbed, races>>
    BY <1>1 DEF StatementFails
  <2>2. Rows
    BY <2>1 DEF RowsStay, Here, TypeOK
  <2>3. losses' \in 0 .. MaxLosses /\ stranded \subseteq stranded' /\ stranded' \subseteq stranded \cup {o}
    BY <1>1 DEF StatementFails, TypeOK
  <2>4. QED
    BY <2>1, <2>2, <2>3
<1>2. CASE CloneStep(o, k)
  <2>1. /\ o \in Branch /\ UNCHANGED <<restore, backupVars, api, wf, attempts, disturbed, faultVars>>
        /\ UNCHANGED branch \/ \E s \in {"creating", "ready", "failed"} : SetBranch(o, s)
    BY <1>2 DEF CloneStep, MarkCreating, ResetClone, CopyDatabase, CopyRefused, TruncateCopy,
                MarkCloned, MarkCloneFailed
  <2>2. Target(o) = o
    BY <2>1, Ids DEF Target
  <2>3. Rows
    <3>1. CASE UNCHANGED branch
      BY <2>1, <3>1 DEF RowsStay, Here, TypeOK
    <3>2. ASSUME NEW s \in {"creating", "ready", "failed"}, SetBranch(o, s) PROVE Rows
      <4>1. branch' \in [Branch -> BranchRow] /\ \A b \in Branch : b # o => branch'[b] = branch[b]
        BY <2>1, <3>2, Marked
      <4>2. RowsStay
        BY <2>1, <3>2, MarkKeepsRows DEF RowsStay
      <4>3. QED
        BY <2>1, <2>2, <4>1, <4>2 DEF TypeOK
    <3>3. QED
      BY <2>1, <3>1, <3>2
  <2>4. QED
    BY <2>1, <2>3 DEF TypeOK
<1>3. CASE RestoreStep(o, k)
  <2>1. /\ o \in Restore /\ UNCHANGED <<backupVars, api, wf, attempts, disturbed, faultVars>>
        /\ UNCHANGED branch \/ \E s \in {"ready", "failed"} : SetBranch(Target(o), s)
        /\ UNCHANGED restore \/ \E s \in {"running", "succeeded", "failed"} : SetRestore(o, s)
    BY <1>3 DEF RestoreStep, MarkRestoring, DropTarget, CreateTarget, RefuseRestore, BeginLoad,
                EndLoad, LoadBreaks, CommitRestored, MarkRestoreFailed
  <2>2. run[o][k] # "idle"
    BY <1>3 DEF RestoreStep, MarkRestoring, DropTarget, CreateTarget, RefuseRestore, BeginLoad,
                EndLoad, LoadBreaks, CommitRestored, MarkRestoreFailed, At
  <2>3. restore[o].status # "absent" /\ Target(o) \in Branch
    <3>1. Asked(o)
      BY <2>2 DEF Order, Asked, TypeOK, Temporal!RetryTypeOK, Attempt
    <3>2. QED
      BY <2>1, <3>1 DEF Order, Target
  <2>4. /\ branch' \in [Branch -> BranchRow]
        /\ \A b \in Branch : b # Target(o) => branch'[b] = branch[b]
        /\ \A b \in Branch :
             /\ branch'[b].parent = branch[b].parent /\ branch'[b].expires = branch[b].expires
             /\ branch'[b].status = "absent" <=> branch[b].status = "absent"
             /\ Here(b)' <=> Here(b)
    <3>1. CASE UNCHANGED branch
      BY <3>1 DEF Here, TypeOK
    <3>2. QED
      BY <2>1, <2>3, <3>1, Marked, MarkKeepsRows
  <2>5. /\ restore' \in [Restore -> RestoreRow]
        /\ \A r \in Restore : r # o => restore'[r] = restore[r]
        /\ \A r \in Restore :
             /\ restore'[r].target = restore[r].target /\ restore'[r].backup = restore[r].backup
             /\ restore'[r].status = "absent" <=> restore[r].status = "absent"
             /\ restore'[r].status = "gone" <=> restore[r].status = "gone"
    BY <2>1, <2>3, JobMarked DEF TypeOK
  <2>6. QED
    BY <2>1, <2>4, <2>5 DEF RowsStay, TypeOK
<1>4. QED
  BY <1>1, <1>2, <1>3 DEF Statement

(* An attempt goes on alone or breaks the restores into its database. *)
LEMMA StatementRun ==
  ASSUME Typed, NEW o \in Op, NEW k \in Attempt, Statement(o, k)
  PROVE  /\ run' \in [Op -> [Attempt -> Step]]
         /\ run[o][k] \in Unmarked
         /\ run'[o][k] \in (Unmarked \ {"begin"}) \cup {"report", "rethrow"}
         /\ o \in Branch => run'[o][k] \notin {"create", "load", "loading"}
         /\ o \in Restore => run'[o][k] \notin {"copy", "truncate"}
         /\ OthersGoOn(o, k)
<1> USE DEF Typed, At
<1>1. CASE StatementFails(o, k)
  <2>1. PICK pc \in {"fail", "rethrow"} : Goto(o, k, pc)
    BY <1>1 DEF StatementFails
  <2>2. run[o][k] \in Unmarked
    BY <1>1 DEF StatementFails, Unmarked
  <2>3. QED
    BY <2>1, <2>2, Moved DEF Step, Unmarked, OthersGoOn
<1>2. CASE CloneStep(o, k)
  <2>1. PICK pc \in {"reset", "copy", "truncate", "commit", "report", "fail", "rethrow"} :
          Goto(o, k, pc) \/ GotoKilling(o, k, pc, {o, Source(o)})
    BY <1>2 DEF CloneStep, MarkCreating, ResetClone, CopyDatabase, CopyRefused, TruncateCopy,
                MarkCloned, MarkCloneFailed
  <2>2. o \in Branch /\ run[o][k] \in Unmarked
    BY <1>2 DEF CloneStep, MarkCreating, ResetClone, CopyDatabase, CopyRefused, TruncateCopy,
                MarkCloned, MarkCloneFailed, Unmarked
  <2>3. QED
    BY <2>1, <2>2, Moved, MovedKilling, Ids DEF Step, Unmarked, OthersGoOn
<1>3. CASE RestoreStep(o, k)
  <2>1. PICK pc \in {"reset", "create", "load", "loading", "commit", "report", "fail", "rethrow"} :
          Goto(o, k, pc) \/ GotoKilling(o, k, pc, {Target(o)})
    BY <1>3 DEF RestoreStep, MarkRestoring, DropTarget, CreateTarget, RefuseRestore, BeginLoad,
                EndLoad, LoadBreaks, CommitRestored, MarkRestoreFailed
  <2>2. o \in Restore /\ run[o][k] \in Unmarked
    BY <1>3 DEF RestoreStep, MarkRestoring, DropTarget, CreateTarget, RefuseRestore, BeginLoad,
                EndLoad, LoadBreaks, CommitRestored, MarkRestoreFailed, Unmarked
  <2>3. QED
    BY <2>1, <2>2, Moved, MovedKilling, Ids DEF Step, Unmarked, OthersGoOn
<1>4. QED
  BY <1>1, <1>2, <1>3 DEF Statement

(* Only a database of the operation changes, and it is dropped only with   *)
(* the restores that load into it.                                         *)
LEMMA StatementDisk ==
  ASSUME Typed, NEW o \in Op, NEW k \in Attempt, Statement(o, k)
  PROVE  /\ disk' \in [Branch -> {None} \cup Content]
         /\ Target(o) \in Branch
         /\ \A b \in Branch : b # Target(o) => disk'[b] = disk[b]
         /\ disk'[Target(o)] = None /\ disk[Target(o)] # None =>
              \A p \in Op, i \in Attempt : run'[p][i] = "loading" => Target(p) # Target(o)
         /\ run'[o][k] = "loading" => disk'[Target(o)] # None /\ dump[restore[o].backup] # None
<1> USE DEF Typed, At
<1>1. Asked(o)
  <2>1. run[o][k] # "idle"
    BY StatementRun DEF Unmarked
  <2>2. QED
    BY <2>1, AttemptAssumption DEF Order, Asked, TypeOK, Temporal!RetryTypeOK, Attempt
<1>2. /\ Target(o) \in Branch
      /\ o \in Branch => Target(o) = o /\ Source(o) \in Branch
      /\ o \in Restore => restore[o].backup \in Backup
  BY <1>1, Ids DEF Order, Target, Source
<1>3. CASE StatementFails(o, k)
  <2>1. UNCHANGED disk /\ run'[o][k] # "loading"
    BY <1>3, Moved DEF StatementFails, dbVars, Step
  <2>2. QED
    BY <1>2, <2>1 DEF TypeOK
<1>4. CASE CloneStep(o, k)
  <2>0. o \in Branch
    BY <1>4 DEF CloneStep, MarkCreating, ResetClone, CopyDatabase, CopyRefused, TruncateCopy,
                MarkCloned, MarkCloneFailed
  <2>1. CASE MarkCreating(o, k) \/ CopyRefused(o, k) \/ MarkCloned(o, k) \/ MarkCloneFailed(o, k)
    <3>1. UNCHANGED disk
      BY <2>1 DEF MarkCreating, CopyRefused, MarkCloned, MarkCloneFailed, dbVars
    <3>2. QED
      BY <1>2, <2>0, <3>1, StatementRun DEF TypeOK
  <2>2. CASE ResetClone(o, k)
    <3>1. CASE disk[Source(o)] = None
      BY <1>2, <2>0, <2>2, <3>1, StatementRun DEF TypeOK, ResetClone
    <3>2. CASE disk[Source(o)] # None
      <4>1. GotoKilling(o, k, "copy", {o, Source(o)}) /\ disk' = [disk EXCEPT ![o] = None]
        BY <2>2, <3>2 DEF ResetClone
      <4>2. \A p \in Op, i \in Attempt : run'[p][i] = "loading" => Target(p) # o
        BY <4>1, MovedKilling DEF Step
      <4>3. QED
        BY <1>2, <2>0, <4>1, <4>2, StatementRun DEF TypeOK
    <3>3. QED
      BY <3>1, <3>2
  <2>3. CASE CopyDatabase(o, k)
    BY <1>2, <2>0, <2>3, StatementRun DEF TypeOK, CopyDatabase, CanCopy
  <2>4. CASE TruncateCopy(o, k)
    <3>1. disk' = [disk EXCEPT ![o] = IF @ = None THEN {} ELSE @ \cap Restore]
      BY <2>4 DEF TruncateCopy
    <3>2. disk'[o] \in Content
      BY <1>2, <2>0, <3>1 DEF TypeOK, Content
    <3>3. QED
      BY <1>2, <2>0, <3>1, <3>2, StatementRun, Ids DEF TypeOK
  <2>5. QED
    BY <1>4, <2>1, <2>2, <2>3, <2>4 DEF CloneStep
<1>5. CASE RestoreStep(o, k)
  <2>0. o \in Restore
    BY <1>5 DEF RestoreStep, MarkRestoring, DropTarget, CreateTarget, RefuseRestore, BeginLoad,
                EndLoad, LoadBreaks, CommitRestored, MarkRestoreFailed
  <2>1. CASE \/ MarkRestoring(o, k) \/ RefuseRestore(o, k) \/ LoadBreaks(o, k)
             \/ CommitRestored(o, k) \/ MarkRestoreFailed(o, k)
    <3>1. UNCHANGED disk
      BY <2>1 DEF MarkRestoring, RefuseRestore, LoadBreaks, CommitRestored, MarkRestoreFailed, dbVars
    <3>2. run'[o][k] # "loading"
      BY <2>1, Moved DEF MarkRestoring, RefuseRestore, LoadBreaks, CommitRestored, MarkRestoreFailed, Step
    <3>3. QED
      BY <1>2, <3>1, <3>2 DEF TypeOK
  <2>2. CASE DropTarget(o, k)
    <3>1. disk' = [disk EXCEPT ![Target(o)] = None] /\ GotoKilling(o, k, "create", {Target(o)})
      BY <2>2 DEF DropTarget
    <3>2. run'[o][k] = "create"
          /\ \A p \in Op, i \in Attempt : run'[p][i] = "loading" => Target(p) # Target(o)
      BY <3>1, MovedKilling DEF Step
    <3>3. QED
      BY <1>2, <3>1, <3>2 DEF TypeOK
  <2>3. CASE CreateTarget(o, k)
    <3>1. \/ disk[Target(o)] = None /\ disk' = [disk EXCEPT ![Target(o)] = {}] /\ Goto(o, k, "load")
          \/ UNCHANGED disk /\ Goto(o, k, "fail")
      BY <2>3 DEF CreateTarget
    <3>2. {} \in Content /\ {} # None
      BY Ids DEF Content
    <3>3. run'[o][k] # "loading"
      BY <3>1, Moved DEF Step
    <3>4. QED
      BY <1>2, <3>1, <3>2, <3>3 DEF TypeOK
  <2>4. CASE BeginLoad(o, k)
    <3>1. /\ disk[Target(o)] # None /\ dump[restore[o].backup] # None
          /\ disk' = [disk EXCEPT ![Target(o)] = @ \cup {o}]
      BY <2>4 DEF BeginLoad, Restorable
    <3>2. disk'[Target(o)] \in Content
      BY <1>2, <2>0, <3>1 DEF TypeOK, Content
    <3>3. QED
      BY <1>2, <3>1, <3>2, Ids DEF TypeOK
  <2>5. CASE EndLoad(o, k)
    <3>1. /\ disk[Target(o)] # None /\ dump[restore[o].backup] # None
          /\ disk' = [disk EXCEPT ![Target(o)] = (@ \ {o}) \cup dump[restore[o].backup]]
      BY <2>0, <2>5 DEF EndLoad, Loads
    <3>2. disk'[Target(o)] \in Content
      BY <1>2, <2>0, <3>1 DEF TypeOK, Content
    <3>3. QED
      BY <1>2, <2>0, <3>1, <3>2, Ids DEF TypeOK
  <2>6. QED
    BY <1>5, <2>1, <2>2, <2>3, <2>4, <2>5 DEF RestoreStep
<1>6. QED
  BY <1>3, <1>4, <1>5 DEF Statement

-----------------------------------------------------------------------------
(***************************************************************************)
(* Types, and the order of the statements.                                 *)
(***************************************************************************)
LEMMA TouchesType ==
  ASSUME TypeOK, NEW o \in Op
  PROVE  Touches(o) \subseteq Branch
BY DEF TypeOK, Touches, BranchRow, RestoreRow, Op

(* Operations enter: more is disturbed than before. *)
LEMMA EnterDisturbs ==
  ASSUME TypeOK, NEW B \in SUBSET Branch, Enter(B)
  PROVE  disturbed \subseteq disturbed' /\ disturbed' \subseteq Branch
BY TouchesType DEF Enter, TypeOK

(* POST branches and POST restores. *)
LEMMA TypedRequest ==
  ASSUME Typed, Request
  PROVE  Typed'
<1> USE DEF Typed, backupVars, faultVars
<1>1. ASSUME NEW b \in Branch, NEW on \in BOOLEAN, CreateEmptyBranch(b, on) PROVE Typed'
  <2>1. /\ branch[b].status = "absent"
        /\ branch' = [branch EXCEPT ![b] = NewRow("ready", on, None, "schema_only")]
        /\ UNCHANGED <<restore, disk, dump, lostDest, api, wf, attempts, run, disturbed, stranded, losses, races>>
    BY <1>1 DEF CreateEmptyBranch
  <2>2. branch'[b] = NewRow("ready", on, None, "schema_only") /\ \A c \in Branch : c # b => branch'[c] = branch[c]
    BY <2>1 DEF TypeOK
  <2>3. TypeOK'
    BY <2>1 DEF TypeOK, BranchRow, NewRow, Temporal!RetryTypeOK
  <2>4. Order'
    BY <2>1, <2>2 DEF Order, Asked, Unheard, NewRow, Attempt
  <2>5. Loads'
    BY <2>1 DEF Loads, At, Target
  <2>6. QED
    BY <2>3, <2>4, <2>5
<1>2. ASSUME NEW b \in Branch, NEW on \in BOOLEAN, NEW p \in Branch,
             NEW m \in {"schema_only", "schema_and_data"}, RequestClone(b, p, m, on)
      PROVE  Typed'
  <2>1. /\ branch[b].status = "absent" /\ Enter({b, p})
        /\ branch' = [branch EXCEPT ![b] = NewRow("creating", on, p, m)]
        /\ api' = [api EXCEPT ![b] = "dispatch"]
        /\ UNCHANGED <<restore, disk, dump, lostDest, wf, attempts, run, stranded, losses, races>>
    BY <1>2 DEF RequestClone
  <2>2. branch'[b] = NewRow("creating", on, p, m) /\ \A c \in Branch : c # b => branch'[c] = branch[c]
    BY <2>1 DEF TypeOK
  <2>3. b \in Op /\ b \notin Restore /\ api'[b] = "dispatch" /\ \A o \in Op : o # b => api'[o] = api[o]
    BY <2>1, Ids DEF TypeOK, Op
  <2>4. ~Asked(b)
    BY <2>1 DEF Order
  <2>5. TypeOK'
    <3>1. branch' \in [Branch -> BranchRow]
      BY <2>1 DEF TypeOK, BranchRow, NewRow
    <3>2. QED
      BY <2>1, <3>1, EnterDisturbs DEF TypeOK, Temporal!RetryTypeOK
  <2>6. Order'
    <3>1. \A c \in Branch :
            /\ Asked(c)' => branch'[c].status # "absent" /\ branch'[c].parent \in Branch
            /\ branch'[c].status = "absent" => branch'[c].parent = None
            /\ \A k \in Attempt : run'[c][k] \notin {"create", "load", "loading"}
      BY <2>1, <2>2, <2>3 DEF Order, Asked, NewRow, Op
    <3>2. \A r \in Restore : (Asked(r)' <=> Asked(r)) /\ api'[r] # "mark"
                             /\ (branch[restore[r].target].status # "absent" /\ restore[r].target \in Branch => branch'[restore[r].target].status # "absent")
      BY <2>1, <2>2, <2>3 DEF Order, Asked, Op
    <3>3. \A o \in Op : api'[o] # "idle" => wf[o] = "none" \/ Unheard(o)'
      BY <2>1, <2>3, <2>4, EnterDisturbs DEF Order, Asked, Unheard
    <3>4. QED
      BY <2>1, <3>1, <3>2, <3>3 DEF Order, Attempt
  <2>7. Loads'
    BY <2>1 DEF Loads, At, Target
  <2>8. QED
    BY <2>5, <2>6, <2>7
<1>3. ASSUME NEW r \in Restore, NEW d \in Backup, NEW b \in Branch, RequestRestore(r, d, b)
      PROVE  Typed'
  <2>1. /\ restore[r].status = "absent" /\ Enter({b})
        /\ branch' = [branch EXCEPT ![b] =
                        IF Here(b) THEN [@ EXCEPT !.status = "creating"]
                        ELSE NewRow("creating", FALSE, None, "schema_and_data")]
        /\ restore' = [restore EXCEPT ![r] = [status |-> "queued", target |-> b, backup |-> d]]
        /\ api' = [api EXCEPT ![r] = "dispatch"] /\ branch[b].status # "gone"
        /\ UNCHANGED <<disk, dump, lostDest, wf, attempts, run, stranded, losses, races>>
    BY <1>3 DEF RequestRestore
  <2>2. /\ branch'[b].status = "creating"
        /\ branch[b].status # "absent" => branch'[b].parent = branch[b].parent
        /\ branch' \in [Branch -> BranchRow]
        /\ \A c \in Branch : c # b => branch'[c] = branch[c]
    BY <2>1 DEF TypeOK, BranchRow, NewRow, Here
  <2>3. /\ r \in Op /\ r \notin Branch /\ api'[r] = "dispatch" /\ \A o \in Op : o # r => api'[o] = api[o]
        /\ restore'[r] = [status |-> "queued", target |-> b, backup |-> d]
        /\ \A q \in Restore : q # r => restore'[q] = restore[q]
    BY <2>1, Ids DEF TypeOK, Op
  <2>4. ~Asked(r)
    BY <2>1 DEF Order
  <2>5. TypeOK'
    BY <2>1, <2>2, EnterDisturbs DEF TypeOK, RestoreRow, Temporal!RetryTypeOK
  <2>6. Order'
    <3>1. \A c \in Branch :
            /\ Asked(c)' => branch'[c].status # "absent" /\ branch'[c].parent \in Branch
            /\ branch'[c].status = "absent" => branch'[c].parent = None
            /\ \A k \in Attempt : run'[c][k] \notin {"create", "load", "loading"}
      <4>1. TAKE c \in Branch
      <4>2. (Asked(c)' <=> Asked(c)) /\ run'[c] = run[c]
        BY <2>1, <2>3, Ids DEF Asked, Op
      <4>3. CASE c = b
        BY <2>2, <4>2, <4>3 DEF Order
      <4>4. CASE c # b
        BY <2>2, <4>2, <4>4 DEF Order
      <4>5. QED
        BY <4>3, <4>4
    <3>2. \A q \in Restore :
            /\ IF restore'[q].status = "absent"
               THEN ~Asked(q)' /\ restore'[q].target = None
               ELSE /\ restore'[q].target \in Branch /\ restore'[q].backup \in Backup
                    /\ branch'[restore'[q].target].status # "absent"
            /\ api'[q] # "mark"
            /\ \A k \in Attempt : run'[q][k] \notin {"copy", "truncate"}
      <4>1. TAKE q \in Restore
      <4>2. CASE q = r
        <5>1. run'[q] = run[q] /\ api'[q] = "dispatch"
          BY <2>1, <2>3, <4>2
        <5>2. /\ restore'[q].status = "queued" /\ restore'[q].target = b /\ restore'[q].backup = d
              /\ branch'[b].status = "creating"
          BY <2>2, <2>3, <4>2
        <5>3. \A k \in Attempt : run[q][k] \notin {"copy", "truncate"}
          BY DEF Order
        <5>4. QED
          BY <5>1, <5>2, <5>3
      <4>3. CASE q # r
        <5>1. (Asked(q)' <=> Asked(q)) /\ api'[q] = api[q] /\ restore'[q] = restore[q] /\ q \in Op
          BY <2>1, <2>3, <4>3 DEF Asked, Op
        <5>2. \A c \in Branch : branch[c].status # "absent" => branch'[c].status # "absent"
          BY <2>2
        <5>3. run'[q] = run[q]
          BY <2>1
        <5>4. QED
          BY <5>1, <5>2, <5>3 DEF Order
      <4>4. QED
        BY <4>2, <4>3
    <3>3. \A o \in Op : api'[o] # "idle" => wf[o] = "none" \/ Unheard(o)'
      BY <2>1, <2>3, <2>4, EnterDisturbs DEF Order, Asked, Unheard
    <3>4. \A o \in Op :
            /\ wf'[o] = "none" => attempts'[o] = 0
            /\ wf'[o] = "scheduled" => attempts'[o] < MaxAttempts
            /\ wf'[o] = "started" => attempts'[o] \in Attempt
            /\ \A k \in Attempt : k > attempts'[o] => run'[o][k] = "idle"
      BY <2>1 DEF Order
    <3>5. QED
      BY <2>1, <3>1, <3>2, <3>3, <3>4 DEF Order
  <2>7. Loads'
    <3>1. \A k \in Attempt : ~At(r, k, "loading")
      <4>1. attempts[r] = 0
        BY <2>3, <2>4 DEF Order, Asked
      <4>2. \A k \in Attempt : k > 0
        BY DEF Attempt
      <4>3. QED
        BY <2>3, <4>1, <4>2 DEF Order, At
    <3>2. \A q \in Restore, k \in Attempt : At(q, k, "loading") => q # r
      BY <3>1
    <3>3. QED
      BY <2>1, <2>3, <3>2 DEF Loads, At, Target
  <2>8. QED
    BY <2>5, <2>6, <2>7
<1>4. QED
  BY <1>1, <1>2, <1>3 DEF Request

(* What runs or is about to was asked for; its rows name branches. *)
LEMMA RunningIsAsked ==
  ASSUME Typed, NEW o \in Op, NEW k \in Attempt, run[o][k] # "idle"
  PROVE  Asked(o) /\ k <= attempts[o]
BY AttemptAssumption DEF Typed, Order, Asked, TypeOK, Temporal!RetryTypeOK, Attempt

(* An operation that was asked for has its rows. *)
LEMMA AskedHasRows ==
  ASSUME Typed, NEW o \in Op, Asked(o)
  PROVE  /\ Target(o) \in Branch /\ branch[Target(o)].status # "absent"
         /\ Target(o) \in Touches(o)
         /\ o \in Branch => Source(o) \in Branch /\ Touches(o) = {o, Source(o)}
         /\ o \in Restore => restore[o].backup \in Backup /\ Touches(o) = {Target(o)}
BY Ids DEF Typed, Order, Target, Source, Touches

(* An open workflow was asked for. *)
LEMMA OpenIsAsked ==
  ASSUME Typed, NEW o \in Op, Open(o)
  PROVE  Asked(o)
BY RunningIsAsked DEF Open, Running, Asked, Temporal!WorkflowOpen

(* What Temporal and the API do to one operation, leaving the rows alone. *)
LEMMA TypedQuiet ==
  ASSUME Typed, UNCHANGED <<dbVars, backupVars>>,
         /\ api' \in [Op -> {"idle", "dispatch", "mark"}]
         /\ Temporal!RetryTypeOK'
         /\ run' \in [Op -> [Attempt -> Step]]
         /\ stranded' \subseteq Op /\ disturbed' \subseteq Branch
         /\ losses' \in 0 .. MaxLosses /\ races' \in 0 .. MaxRaces,
         \A o \in Op :
           /\ wf'[o] = "none" => attempts'[o] = 0
           /\ wf'[o] = "scheduled" => attempts'[o] < MaxAttempts
           /\ wf'[o] = "started" => attempts'[o] \in Attempt
           /\ api'[o] # "idle" => wf'[o] = "none" \/ Unheard(o)'
           /\ Asked(o)' => Asked(o)
           /\ o \in Restore => api'[o] # "mark"
           /\ \A k \in Attempt : /\ k > attempts'[o] => run'[o][k] = "idle"
                                 /\ run'[o][k] \in {run[o][k], "begin", "over"}
  PROVE  Typed'
<1> USE DEF Typed, dbVars, backupVars
<1>1. TypeOK'
  BY DEF TypeOK
<1>2. Order'
  <2>1. \A b \in Branch : b \in Op
    BY DEF Op
  <2>2. \A r \in Restore : r \in Op
    BY DEF Op
  <2>3. \A b \in Branch :
          /\ Asked(b)' => branch'[b].status # "absent" /\ branch'[b].parent \in Branch
          /\ branch'[b].status = "absent" => branch'[b].parent = None
          /\ \A k \in Attempt : run'[b][k] \notin {"create", "load", "loading"}
    BY <2>1 DEF Order
  <2>4. \A r \in Restore :
          /\ IF restore'[r].status = "absent"
             THEN ~Asked(r)' /\ restore'[r].target = None
             ELSE /\ restore'[r].target \in Branch /\ restore'[r].backup \in Backup
                  /\ branch'[restore'[r].target].status # "absent"
          /\ api'[r] # "mark"
          /\ \A k \in Attempt : run'[r][k] \notin {"copy", "truncate"}
    BY <2>2 DEF Order
  <2>5. QED
    BY <2>3, <2>4 DEF Order
<1>3. Loads'
  <2>1. \A r \in Restore, k \in Attempt : run'[r][k] = "loading" => run[r][k] = "loading"
    BY DEF Op
  <2>2. QED
    BY <2>1 DEF Loads, At, Target
<1>4. QED
  BY <1>1, <1>2, <1>3

LEMMA TypedDispatch ==
  ASSUME Typed, NEW o \in Op, Dispatch(o)
  PROVE  Typed'
<1> USE BoundAssumption DEF Typed, faultVars
<1>1. CASE DispatchAccepted(o)
  <2>1. /\ UNCHANGED <<dbVars, backupVars, run, attempts, disturbed, stranded, losses, races>>
        /\ api[o] = "dispatch" /\ wf[o] = "none" /\ attempts[o] = 0
        /\ api' = [api EXCEPT ![o] = "idle"] /\ wf' = [wf EXCEPT ![o] = "scheduled"]
    BY <1>1 DEF DispatchAccepted, Temporal!Start, Order, Unheard
  <2>2. Temporal!RetryTypeOK' /\ api' \in [Op -> {"idle", "dispatch", "mark"}]
    BY <2>1 DEF TypeOK, Temporal!RetryTypeOK
  <2>3. \A p \in Op : IF p = o THEN wf'[p] = "scheduled" /\ api'[p] = "idle" ELSE wf'[p] = wf[p] /\ api'[p] = api[p]
    BY <2>1 DEF TypeOK, Temporal!RetryTypeOK
  <2>4. QED
    BY <2>1, <2>2, <2>3, TypedQuiet, AttemptAssumption DEF TypeOK, Order, Asked, Unheard
<1>2. CASE DispatchThrows(o)
  <2>1. /\ UNCHANGED <<dbVars, backupVars, run, wf, attempts, disturbed, losses, races>>
        /\ api[o] = "dispatch" /\ wf[o] = "none"
        /\ api' = [api EXCEPT ![o] = IF o \in Restore THEN "idle" ELSE "mark"]
        /\ stranded' \subseteq stranded \cup {o}
    BY <1>2 DEF DispatchThrows, Order, Unheard
  <2>2. api' \in [Op -> {"idle", "dispatch", "mark"}]
    BY <2>1 DEF TypeOK
  <2>3. \A p \in Op : p # o => api'[p] = api[p]
    BY <2>1 DEF TypeOK
  <2>4. o \in Restore => api'[o] # "mark"
    BY <2>1 DEF TypeOK
  <2>5. QED
    BY <2>1, <2>2, <2>3, <2>4, TypedQuiet DEF TypeOK, Order, Asked, Unheard, Temporal!RetryTypeOK
<1>3. CASE StartUnheard(o)
  <2>1. /\ UNCHANGED <<dbVars, backupVars, run, attempts, stranded, losses>>
        /\ api[o] = "dispatch" /\ wf[o] = "none" /\ attempts[o] = 0
        /\ api' = [api EXCEPT ![o] = IF o \in Restore THEN "idle" ELSE "mark"]
        /\ wf' = [wf EXCEPT ![o] = "scheduled"] /\ races' \in 0 .. MaxRaces
        /\ disturbed' = IF o \in Restore THEN disturbed ELSE disturbed \cup {o}
    BY <1>3 DEF StartUnheard, Temporal!Start, Order, Unheard, TypeOK
  <2>2. /\ Temporal!RetryTypeOK' /\ api' \in [Op -> {"idle", "dispatch", "mark"}]
        /\ disturbed' \subseteq Branch
    BY <2>1 DEF TypeOK, Temporal!RetryTypeOK, Op
  <2>3. \A p \in Op : IF p = o THEN wf'[p] = "scheduled" /\ (api'[p] = "idle" \/ Unheard(p)')
                                ELSE wf'[p] = wf[p] /\ api'[p] = api[p]
    BY <2>1 DEF TypeOK, Temporal!RetryTypeOK, Unheard
  <2>4. \A p \in Op : Unheard(p) => Unheard(p)'
    BY <2>1, <2>3 DEF Unheard
  <2>5. o \in Restore => api'[o] # "mark"
    BY <2>1 DEF TypeOK
  <2>6. QED
    BY <2>1, <2>2, <2>3, <2>4, <2>5, TypedQuiet, AttemptAssumption DEF TypeOK, Order, Asked
<1>4. QED
  BY <1>1, <1>2, <1>3 DEF Dispatch

LEMMA TypedTemporal ==
  ASSUME Typed, NEW o \in Op, PickUp(o) \/ TimeOut(o)
  PROVE  Typed'
<1> USE BoundAssumption, AttemptAssumption DEF Typed, faultVars
<1>1. CASE PickUp(o)
  <2>1. /\ UNCHANGED <<dbVars, backupVars, api, disturbed, stranded, losses, races>>
        /\ wf[o] = "scheduled" /\ wf' = [wf EXCEPT ![o] = "started"]
        /\ attempts' = [attempts EXCEPT ![o] = @ + 1]
        /\ attempts[o] \in 0 .. MaxAttempts /\ attempts[o] < MaxAttempts
        /\ Goto(o, attempts[o] + 1, "begin")
    BY <1>1 DEF PickUp, Temporal!Poll, Order, TypeOK, Temporal!RetryTypeOK
  <2>2. attempts[o] + 1 \in Attempt /\ attempts[o] + 1 \in 0 .. MaxAttempts
    BY <2>1 DEF Attempt
  <2>3. /\ run' \in [Op -> [Attempt -> Step]] /\ run'[o][attempts[o] + 1] = "begin"
        /\ \A p \in Op, i \in Attempt : p # o \/ i # attempts[o] + 1 => run'[p][i] = run[p][i]
    BY <2>1, <2>2, Moved DEF Step
  <2>4. /\ wf'[o] = "started" /\ attempts'[o] = attempts[o] + 1
        /\ \A p \in Op : p # o => wf'[p] = wf[p] /\ attempts'[p] = attempts[p]
    BY <2>1 DEF TypeOK, Temporal!RetryTypeOK
  <2>5. Temporal!RetryTypeOK'
    BY <2>1, <2>2 DEF TypeOK, Temporal!RetryTypeOK
  <2>6. \A p \in Op, k \in Attempt : /\ k > attempts'[p] => run'[p][k] = "idle"
                                     /\ run'[p][k] \in {run[p][k], "begin", "over"}
    <3>1. TAKE p \in Op, k \in Attempt
    <3>2. CASE p = o /\ k = attempts[o] + 1
      BY <2>3, <2>4, <3>2 DEF Attempt
    <3>3. CASE p = o /\ k # attempts[o] + 1
      BY <2>1, <2>3, <2>4, <3>3 DEF Order, Attempt
    <3>4. CASE p # o
      BY <2>3, <2>4, <3>4 DEF Order
    <3>5. QED
      BY <3>2, <3>3, <3>4
  <2>7. \A p \in Op :
          /\ wf'[p] = "none" => attempts'[p] = 0
          /\ wf'[p] = "scheduled" => attempts'[p] < MaxAttempts
          /\ wf'[p] = "started" => attempts'[p] \in Attempt
          /\ api'[p] # "idle" => wf'[p] = "none" \/ Unheard(p)'
          /\ Asked(p)' => Asked(p)
          /\ p \in Restore => api'[p] # "mark"
    <3>1. TAKE p \in Op
    <3>2. CASE p = o
      BY <2>1, <2>2, <2>4, <3>2 DEF Order, Asked, Unheard
    <3>3. CASE p # o
      BY <2>1, <2>4, <3>3 DEF Order, Asked, Unheard
    <3>4. QED
      BY <3>2, <3>3
  <2>8. QED
    BY <2>1, <2>3, <2>5, <2>6, <2>7, TypedQuiet DEF TypeOK
<1>2. CASE TimeOut(o)
  <2>1. /\ UNCHANGED <<dbVars, backupVars, api, run, attempts, stranded, losses>>
        /\ wf[o] = "started" /\ wf' = [wf EXCEPT ![o] = Temporal!RetryOrGiveUp(o)]
        /\ races' \in 0 .. MaxRaces
        /\ disturbed' \subseteq disturbed \cup Touches(o)
    BY <1>2 DEF TimeOut, Temporal!Expire, TypeOK
  <2>2. /\ wf'[o] = Temporal!RetryOrGiveUp(o) /\ \A p \in Op : p # o => wf'[p] = wf[p]
    BY <2>1 DEF TypeOK, Temporal!RetryTypeOK
  <2>3. Temporal!RetryTypeOK'
    BY <2>1 DEF TypeOK, Temporal!RetryTypeOK, Temporal!RetryOrGiveUp
  <2>4. disturbed' \subseteq Branch
    BY <2>1, TouchesType DEF TypeOK
  <2>5. \A p \in Op :
          /\ wf'[p] = "none" => attempts'[p] = 0
          /\ wf'[p] = "scheduled" => attempts'[p] < MaxAttempts
          /\ wf'[p] = "started" => attempts'[p] \in Attempt
          /\ api'[p] # "idle" => wf'[p] = "none" \/ Unheard(p)'
          /\ Asked(p)' => Asked(p)
          /\ p \in Restore => api'[p] # "mark"
    BY <1>2, <2>1, <2>2 DEF TimeOut, Order, Asked, Unheard, Temporal!RetryOrGiveUp
  <2>6. QED
    BY <2>1, <2>3, <2>4, <2>5, TypedQuiet DEF TypeOK, Order
<1>3. QED
  BY <1>1, <1>2

LEMMA TypedReport ==
  ASSUME Typed, NEW o \in Op, NEW k \in Attempt, ReportResult(o, k) \/ Rethrow(o, k)
  PROVE  Typed'
<1> USE BoundAssumption, AttemptAssumption DEF Typed, faultVars
<1>1. /\ UNCHANGED <<dbVars, backupVars, api, attempts, disturbed, stranded, losses, races>>
      /\ run[o][k] # "idle" /\ Goto(o, k, "over")
      /\ wf' = wf \/ (Temporal!Current(o, k)
                      /\ \E s \in {"completed", Temporal!RetryOrGiveUp(o)} : wf' = [wf EXCEPT ![o] = s])
  BY DEF ReportResult, Rethrow, Temporal!Returns, Temporal!Throws, At
<1>2. /\ run' \in [Op -> [Attempt -> Step]] /\ run'[o][k] = "over"
      /\ \A p \in Op, i \in Attempt : p # o \/ i # k => run'[p][i] = run[p][i]
  BY <1>1, Moved DEF Step
<1>3. k <= attempts[o]
  BY <1>1, RunningIsAsked
<1>4. \A p \in Op, i \in Attempt : /\ i > attempts'[p] => run'[p][i] = "idle"
                                   /\ run'[p][i] \in {run[p][i], "begin", "over"}
  <2>1. TAKE p \in Op, i \in Attempt
  <2>2. CASE p = o /\ i = k
    <3>1. ~(k > attempts[o])
      BY <1>3 DEF TypeOK, Temporal!RetryTypeOK, Attempt
    <3>2. QED
      BY <1>1, <1>2, <2>2, <3>1
  <2>3. CASE ~(p = o /\ i = k)
    BY <1>1, <1>2, <2>3 DEF Order
  <2>4. QED
    BY <2>2, <2>3
<1>5. /\ Temporal!RetryTypeOK'
      /\ \A p \in Op :
          /\ wf'[p] = "none" => attempts'[p] = 0
          /\ wf'[p] = "scheduled" => attempts'[p] < MaxAttempts
          /\ wf'[p] = "started" => attempts'[p] \in Attempt
          /\ api'[p] # "idle" => wf'[p] = "none" \/ Unheard(p)'
          /\ Asked(p)' => Asked(p)
          /\ p \in Restore => api'[p] # "mark"
  <2>1. CASE wf' = wf
    BY <1>1, <2>1 DEF TypeOK, Order, Asked, Unheard, Temporal!RetryTypeOK
  <2>2. ASSUME Temporal!Current(o, k), NEW s \in {"completed", Temporal!RetryOrGiveUp(o)},
               wf' = [wf EXCEPT ![o] = s]
        PROVE  <1>5!1 /\ <1>5!2
    <3>1. s \in {"completed", "failed", "scheduled"} /\ (s = "scheduled" => attempts[o] < MaxAttempts)
      BY <2>2 DEF Temporal!RetryOrGiveUp
    <3>2. wf'[o] = s /\ wf[o] = "started" /\ \A p \in Op : p # o => wf'[p] = wf[p]
      BY <2>2 DEF TypeOK, Temporal!RetryTypeOK, Temporal!Current
    <3>3. Temporal!RetryTypeOK'
      BY <1>1, <2>2, <3>1 DEF TypeOK, Temporal!RetryTypeOK
    <3>4. QED
      BY <1>1, <3>1, <3>2, <3>3 DEF Order, Asked, Unheard
  <2>3. QED
    BY <1>1, <2>1, <2>2
<1>6. QED
  BY <1>1, <1>2, <1>4, <1>5, TypedQuiet DEF TypeOK

LEMMA TypedStatement ==
  ASSUME Typed, NEW o \in Op, NEW k \in Attempt, Statement(o, k)
  PROVE  Typed'
<1> USE DEF Typed
<1>1. TypeOK'
  BY StatementRows, StatementRun, StatementDisk DEF TypeOK, Temporal!RetryTypeOK
<1>2. Order'
  <2>1. UNCHANGED <<api, wf, attempts>>
    BY StatementRows
  <2>2. \A p \in Op : Asked(p)' <=> Asked(p)
    BY <2>1 DEF Asked
  <2>3. k <= attempts[o]
    BY RunningIsAsked, StatementRun DEF Unmarked
  <2>4. \A p \in Op, i \in Attempt :
          /\ i > attempts[p] => run'[p][i] = "idle"
          /\ p \in Branch => run'[p][i] \notin {"create", "load", "loading"}
          /\ p \in Restore => run'[p][i] \notin {"copy", "truncate"}
    <3>1. TAKE p \in Op, i \in Attempt
    <3>2. CASE p = o /\ i = k
      <4>1. ~(k > attempts[o])
        BY <2>3 DEF TypeOK, Temporal!RetryTypeOK, Attempt
      <4>2. QED
        BY <3>2, <4>1, StatementRun
    <3>3. CASE ~(p = o /\ i = k)
      <4>1. run'[p][i] = run[p][i] \/ (At(p, i, "loading") /\ run'[p][i] = "fail")
        BY <3>3, StatementRun DEF OthersGoOn
      <4>2. run[p][i] = "loading" => ~(i > attempts[p])
        BY DEF Order
      <4>3. QED
        BY <4>1, <4>2 DEF Order, At
    <3>4. QED
      BY <3>2, <3>3
  <2>5. \A b \in Branch :
          /\ Asked(b)' => branch'[b].status # "absent" /\ branch'[b].parent \in Branch
          /\ branch'[b].status = "absent" => branch'[b].parent = None
    BY <2>2, StatementRows DEF Order, RowsStay, Op
  <2>6. \A r \in Restore :
          /\ IF restore'[r].status = "absent"
             THEN ~Asked(r)' /\ restore'[r].target = None
             ELSE /\ restore'[r].target \in Branch /\ restore'[r].backup \in Backup
                  /\ branch'[restore'[r].target].status # "absent"
          /\ api'[r] # "mark"
    <3>1. TAKE r \in Restore
    <3>2. /\ restore'[r].target = restore[r].target /\ restore'[r].backup = restore[r].backup
          /\ restore'[r].status = "absent" <=> restore[r].status = "absent"
          /\ \A b \in Branch : branch'[b].status = "absent" <=> branch[b].status = "absent"
      BY StatementRows DEF RowsStay
    <3>3. (Asked(r)' <=> Asked(r)) /\ api'[r] = api[r]
      BY <2>1, <2>2 DEF Op
    <3>4. QED
      BY <3>2, <3>3 DEF Order
  <2>7. \A b \in Branch : b \in Op
    BY DEF Op
  <2>8. \A r \in Restore : r \in Op
    BY DEF Op
  <2>9. \A p \in Op :
          /\ wf'[p] = "none" => attempts'[p] = 0
          /\ wf'[p] = "scheduled" => attempts'[p] < MaxAttempts
          /\ wf'[p] = "started" => attempts'[p] \in Attempt
          /\ api'[p] # "idle" => wf'[p] = "none" \/ Unheard(p)'
    BY <2>1, StatementRows DEF Order, Unheard
  <2>10. QED
    BY <2>1, <2>4, <2>5, <2>6, <2>7, <2>8, <2>9 DEF Order
<1>3. Loads'
  <2>1. SUFFICES ASSUME NEW r \in Restore, NEW i \in Attempt, run'[r][i] = "loading"
                 PROVE  /\ disk'[restore'[r].target] # None
                        /\ dump'[restore'[r].backup] # None
    BY DEF Loads, At, Target
  <2>2. r \in Op /\ Target(r) = restore[r].target
        /\ restore'[r].target = restore[r].target /\ restore'[r].backup = restore[r].backup /\ dump' = dump
    BY StatementRows DEF RowsStay, Op, Target
  <2>3. CASE r = o /\ i = k
    BY <2>1, <2>2, <2>3, StatementDisk
  <2>4. CASE ~(r = o /\ i = k)
    <3>1. At(r, i, "loading")
      BY <2>1, <2>2, <2>4, StatementRun DEF OthersGoOn, At
    <3>2. disk[Target(r)] # None /\ dump[restore[r].backup] # None
      BY <3>1 DEF Loads
    <3>3. Target(r) \in Branch
      BY <2>2, <3>1, RunningIsAsked, AskedHasRows DEF At
    <3>4. disk'[Target(r)] # None
      BY <2>1, <2>2, <3>2, <3>3, StatementDisk
    <3>5. QED
      BY <2>2, <3>2, <3>4
  <2>5. QED
    BY <2>3, <2>4
<1>4. QED
  BY <1>1, <1>2, <1>3

LEMMA TypedRow ==
  ASSUME Typed, NEW b \in Branch,
         \/ MarkNotDispatched(b) \/ ExpireBranch(b) \/ OpenBranch(b)
         \/ \E x \in Datum : WriteRow(b, x)
         \/ \E d \in Backup : FinishBackup(d, b)
  PROVE  Typed'
<1> USE DEF Typed, faultVars, backupVars, dbVars
<1>1. CASE MarkNotDispatched(b)
  <2>1. /\ UNCHANGED <<restore, disk, dump, lostDest, wf, attempts, run, disturbed, stranded, losses, races>>
        /\ api[b] = "mark" /\ api' = [api EXCEPT ![b] = "idle"] /\ SetBranch(b, "failed")
    BY <1>1 DEF MarkNotDispatched
  <2>2. /\ branch' \in [Branch -> BranchRow]
        /\ \A c \in Branch : /\ branch'[c].parent = branch[c].parent
                             /\ branch'[c].status = "absent" <=> branch[c].status = "absent"
    BY <2>1, Marked, MarkKeepsRows
  <2>3. /\ api' \in [Op -> {"idle", "dispatch", "mark"}]
        /\ \A o \in Op : api'[o] = IF o = b THEN "idle" ELSE api[o]
    BY <2>1 DEF TypeOK
  <2>4. TypeOK'
    BY <2>1, <2>2, <2>3 DEF TypeOK, Temporal!RetryTypeOK
  <2>5. Order'
    <3>1. \A o \in Op : (Asked(o)' => Asked(o)) /\ (api'[o] # "idle" => wf[o] = "none" \/ Unheard(o)')
      BY <2>1, <2>3 DEF Order, Asked, Unheard
    <3>2. \A c \in Branch : (Asked(c)' => Asked(c)) /\ c \in Op
      BY <3>1 DEF Op
    <3>3. \A r \in Restore : (Asked(r)' => Asked(r)) /\ api'[r] # "mark"
      BY <2>3, <3>1 DEF Op, Order
    <3>4. QED
      BY <2>1, <2>2, <3>1, <3>2, <3>3 DEF Order
  <2>6. Loads'
    BY <2>1 DEF Loads, At, Target
  <2>7. QED
    BY <2>4, <2>5, <2>6
<1>2. CASE ExpireBranch(b)
  <2>1. /\ UNCHANGED <<disk, dump, lostDest, api, wf, attempts, run, disturbed, stranded, losses, races>>
        /\ branch[b].status \notin {"absent", "gone"}
        /\ branch' = [branch EXCEPT ![b].status = "gone"]
        /\ restore' = [r \in Restore |-> IF restore[r].target = b
                                         THEN [restore[r] EXCEPT !.status = "gone"] ELSE restore[r]]
    BY <1>2 DEF ExpireBranch, Here
  <2>2. /\ branch' \in [Branch -> BranchRow]
        /\ \A c \in Branch : /\ branch'[c].parent = branch[c].parent
                             /\ branch'[c].status = "absent" <=> branch[c].status = "absent"
    BY <2>1 DEF TypeOK, BranchRow
  <2>3. /\ restore' \in [Restore -> RestoreRow]
        /\ \A r \in Restore : /\ restore'[r].target = restore[r].target
                              /\ restore'[r].backup = restore[r].backup
                              /\ restore'[r].status = "absent" => restore[r].status = "absent"
    BY <2>1 DEF TypeOK, RestoreRow
  <2>4. \A r \in Restore : restore[r].status = "absent" => restore'[r].status = "absent"
    <3>1. TAKE r \in Restore
    <3>2. restore[r].status = "absent" => restore[r].target # b
      BY Ids DEF Order
    <3>3. QED
      BY <2>1, <3>2
  <2>5. TypeOK'
    BY <2>1, <2>2, <2>3 DEF TypeOK, Temporal!RetryTypeOK
  <2>6. Order'
    BY <2>1, <2>2, <2>3, <2>4 DEF Order, Asked, Unheard
  <2>7. Loads'
    BY <2>1, <2>3 DEF Loads, At, Target
  <2>8. QED
    BY <2>5, <2>6, <2>7
<1>3. CASE OpenBranch(b) \/ \E x \in Datum : WriteRow(b, x)
  <2>1. /\ UNCHANGED <<branch, restore, dump, lostDest, api, wf, attempts, run, disturbed, stranded, losses, races>>
        /\ \A c \in Branch : disk'[c] = None => disk[c] = None
        /\ disk' \in [Branch -> {None} \cup Content]
    <3>1. CASE OpenBranch(b)
      <4>1. {} \in Content /\ {} # None
        BY Ids DEF Content
      <4>2. QED
        BY <3>1, <4>1 DEF OpenBranch, TypeOK
    <3>2. ASSUME NEW x \in Datum, WriteRow(b, x) PROVE <2>1
      <4>1. disk[b] \cup {x} \in Content /\ disk[b] \cup {x} # None
        BY <3>2, Ids DEF WriteRow, TypeOK, Content
      <4>2. QED
        BY <3>2, <4>1 DEF WriteRow, TypeOK
    <3>3. QED
      BY <1>3, <3>1, <3>2
  <2>2. TypeOK'
    BY <2>1 DEF TypeOK, Temporal!RetryTypeOK
  <2>3. Order'
    BY <2>1 DEF Order, Asked, Unheard
  <2>4. Loads'
    <3>1. \A r \in Restore, k \in Attempt : At(r, k, "loading") => Target(r) \in Branch
      BY RunningIsAsked, AskedHasRows DEF At, Op
    <3>2. QED
      BY <2>1, <3>1 DEF Loads, At, Target
  <2>5. QED
    BY <2>2, <2>3, <2>4
<1>4. ASSUME NEW d \in Backup, FinishBackup(d, b) PROVE Typed'
  <2>1. /\ UNCHANGED <<branch, restore, disk, lostDest, api, wf, attempts, run, disturbed, stranded, losses, races>>
        /\ dump[d] = None /\ disk[b] # None /\ dump' = [dump EXCEPT ![d] = disk[b] \ Restore]
    BY <1>4 DEF FinishBackup
  <2>2. disk[b] \ Restore \in SUBSET Datum /\ disk[b] \ Restore # None
    <3>1. disk[b] \ Restore \in SUBSET Datum
      BY <2>1 DEF TypeOK, Content
    <3>2. None \notin SUBSET Datum
      BY Ids DEF Content
    <3>3. QED
      BY <3>1, <3>2
  <2>3. dump' \in [Backup -> {None} \cup SUBSET Datum] /\ \A e \in Backup : dump[e] # None => dump'[e] # None
    BY <2>1, <2>2 DEF TypeOK
  <2>4. TypeOK'
    BY <2>1, <2>3 DEF TypeOK, Temporal!RetryTypeOK
  <2>5. Order'
    BY <2>1 DEF Order, Asked, Unheard
  <2>6. Loads'
    <3>1. \A r \in Restore, k \in Attempt : At(r, k, "loading") => restore[r].backup \in Backup
      BY RunningIsAsked, AskedHasRows DEF At, Op
    <3>2. QED
      BY <2>1, <2>3, <3>1 DEF Loads, At, Target
  <2>7. QED
    BY <2>4, <2>5, <2>6
<1>5. QED
  BY <1>1, <1>2, <1>3, <1>4

LEMMA TypedCrash ==
  ASSUME Typed, ApiCrash \/ WorkerCrash
  PROVE  Typed'
<1> USE BoundAssumption DEF Typed, faultVars
<1>1. CASE ApiCrash
  <2>1. /\ UNCHANGED <<dbVars, backupVars, wf, attempts, run, disturbed, races>>
        /\ api' = [o \in Op |-> "idle"] /\ stranded' \subseteq Op /\ losses' \in 0 .. MaxLosses
    BY <1>1 DEF ApiCrash, TypeOK
  <2>2. QED
    BY <2>1, TypedQuiet DEF TypeOK, Order, Asked, Temporal!RetryTypeOK
<1>2. CASE WorkerCrash
  <2>1. /\ UNCHANGED <<dbVars, backupVars, api, wf, attempts, races>>
        /\ run' = [o \in Op |-> [k \in Attempt |-> IF At(o, k, "idle") THEN "idle" ELSE "over"]]
        /\ stranded' \subseteq Op /\ losses' \in 0 .. MaxLosses
    BY <1>2 DEF WorkerCrash, TypeOK
  <2>2. disturbed' \subseteq Branch /\ disturbed \subseteq disturbed'
    BY <1>2, TouchesType DEF WorkerCrash, TypeOK
  <2>3. run' \in [Op -> [Attempt -> Step]]
    BY <2>1 DEF Step
  <2>4. \A o \in Op, k \in Attempt : run'[o][k] = IF run[o][k] = "idle" THEN "idle" ELSE "over"
    BY <2>1 DEF At
  <2>5. QED
    BY <2>1, <2>2, <2>3, <2>4, TypedQuiet DEF TypeOK, Order, Asked, Unheard, Temporal!RetryTypeOK
<1>3. QED
  BY <1>1, <1>2

(* Every step is a request, a statement, or one of the others. *)
LEMMA Steps ==
  ASSUME [Next]_vars
  PROVE  \/ Request
         \/ \E o \in Op : Dispatch(o)
         \/ \E o \in Op : PickUp(o)
         \/ \E o \in Op : TimeOut(o)
         \/ \E o \in Op, k \in Attempt : Statement(o, k)
         \/ \E o \in Op, k \in Attempt : ReportResult(o, k) \/ Rethrow(o, k)
         \/ \E b \in Branch : MarkNotDispatched(b)
         \/ \E b \in Branch : ExpireBranch(b)
         \/ \E b \in Branch : OpenBranch(b)
         \/ \E b \in Branch, x \in Datum : WriteRow(b, x)
         \/ \E b \in Branch, d \in Backup : FinishBackup(d, b)
         \/ \E d \in Backup : LoseDestination(d)
         \/ ApiCrash
         \/ WorkerCrash
         \/ UNCHANGED vars
BY DEF Next, Work, Statement

(* Types at the start. *)
LEMMA TypedInit ==
  ASSUME Init
  PROVE  Typed
<1>1. TypeOK
  BY PrimaryAssumption, BoundAssumption, AttemptAssumption
     DEF Init, TypeOK, BranchRow, RestoreRow, NewRow, Op, Step, Temporal!RetryInit, Temporal!RetryTypeOK
<1>2. Order
  BY Ids, AttemptAssumption DEF Init, Order, Asked, NewRow, Op, Temporal!RetryInit, Attempt
<1>3. Loads
  BY DEF Init, Loads, At, Op
<1>4. QED
  BY <1>1, <1>2, <1>3 DEF Typed

(* Types are kept by every step. *)
LEMMA TypedStep ==
  ASSUME Typed, [Next]_vars
  PROVE  Typed'
<1>1. CASE \E d \in Backup : LoseDestination(d)
  <2>1. /\ UNCHANGED <<dbVars, dump, api, wf, attempts, run, disturbed, faultVars>>
        /\ lostDest' \subseteq Backup
    BY <1>1 DEF LoseDestination, Typed, TypeOK
  <2>2. QED
    BY <2>1 DEF Typed, TypeOK, Order, Asked, Unheard, Loads, At, Target, dbVars, faultVars, Temporal!RetryTypeOK
<1>2. CASE UNCHANGED vars
  BY <1>2 DEF vars, Typed, TypeOK, Order, Asked, Unheard, Loads, At, Target, Temporal!RetryTypeOK
<1>3. QED
  BY <1>1, <1>2, Steps, TypedRequest, TypedDispatch, TypedTemporal, TypedStatement, TypedReport,
     TypedRow, TypedCrash

-----------------------------------------------------------------------------
(***************************************************************************)
(* The parents of branches.                                                *)
(***************************************************************************)
(* Whoever marks a branch knows its parent, and leaves its expiry alone. *)
LEMMA LineageKept ==
  ASSUME Lineage,
         \A b \in Branch : /\ branch'[b].parent \in Branch \cup {None}
                           /\ branch'[b].parent = branch[b].parent
                           /\ branch'[b].expires = branch[b].expires
                           /\ Here(b) => Here(b)'
  PROVE  Lineage'
BY DEF Lineage

LEMMA LineageRequest ==
  ASSUME Typed, Lineage, Request
  PROVE  Lineage'
<1> USE DEF Typed
<1>1. ASSUME NEW b \in Branch, NEW on \in BOOLEAN, NEW p \in Branch \cup {None},
             NEW s \in {"creating", "ready"}, NEW m \in {"schema_only", "schema_and_data"},
             branch[b].status = "absent", branch' = [branch EXCEPT ![b] = NewRow(s, on, p, m)],
             p # None => MayBeParent(p)
      PROVE  Lineage'
  <2>1. /\ branch'[b].parent = p /\ branch'[b].status = s
        /\ \A c \in Branch : c # b => branch'[c] = branch[c]
    BY <1>1 DEF TypeOK, NewRow
  <2>2. \A c \in Branch : Here(c) => c # b
    BY <1>1 DEF Here
  <2>3. \A c \in Branch : Here(c) => branch'[c] = branch[c] /\ Here(c)'
    BY <2>1, <2>2 DEF Here
  <2>4. \A c \in Branch : branch[c].parent # None => branch[c].parent \in Branch
    BY DEF TypeOK, BranchRow
  <2>5. p # None => Here(p) /\ ~branch[p].expires /\ p \in Branch
    BY <1>1 DEF MayBeParent, Here
  <2>6. SUFFICES ASSUME NEW c \in Branch, branch'[c].parent # None
                 PROVE  /\ branch'[branch'[c].parent].status \notin {"absent", "gone"}
                        /\ ~branch'[branch'[c].parent].expires
    BY DEF Lineage, Here
  <2>7. CASE c = b
    BY <2>1, <2>3, <2>5, <2>6, <2>7 DEF Here
  <2>8. CASE c # b
    BY <2>1, <2>3, <2>4, <2>6, <2>8 DEF Lineage, Here
  <2>9. QED
    BY <2>7, <2>8
<1>2. ASSUME NEW r \in Restore, NEW d \in Backup, NEW b \in Branch, RequestRestore(r, d, b)
      PROVE  Lineage'
  <2>1. CASE Here(b)
    <3>1. branch' = [branch EXCEPT ![b] = [@ EXCEPT !.status = "creating"]]
      BY <1>2, <2>1 DEF RequestRestore
    <3>2. QED
      BY <3>1, LineageKept DEF TypeOK, BranchRow, Here
  <2>2. CASE ~Here(b)
    <3>1. branch[b].status = "absent"
      BY <1>2, <2>2 DEF RequestRestore, Here
    <3>2. branch' = [branch EXCEPT ![b] = NewRow("creating", FALSE, None, "schema_and_data")]
      BY <1>2, <2>2 DEF RequestRestore
    <3>3. QED
      BY <1>1, <3>1, <3>2
  <2>3. QED
    BY <2>1, <2>2
<1>3. ASSUME NEW b \in Branch, NEW on \in BOOLEAN, CreateEmptyBranch(b, on) PROVE Lineage'
  BY <1>1, <1>3 DEF CreateEmptyBranch
<1>4. ASSUME NEW b \in Branch, NEW on \in BOOLEAN, NEW p \in Branch,
             NEW m \in {"schema_only", "schema_and_data"}, RequestClone(b, p, m, on)
      PROVE  Lineage'
  BY <1>1, <1>4 DEF RequestClone
<1>5. QED
  BY <1>2, <1>3, <1>4 DEF Request

(* Lineage and order are kept by every step. *)
LEMMA LineageStep ==
  ASSUME Typed, Lineage, [Next]_vars
  PROVE  Lineage'
<1> USE DEF Typed
<1>1. CASE UNCHANGED branch
  BY <1>1 DEF Lineage, Here
<1>2. ASSUME NEW o \in Op, NEW k \in Attempt, Statement(o, k) PROVE Lineage'
  BY <1>2, StatementRows, LineageKept DEF RowsStay, TypeOK, BranchRow
<1>3. ASSUME NEW b \in Branch, MarkNotDispatched(b) PROVE Lineage'
  BY <1>3, Marked, MarkKeepsRows, LineageKept DEF MarkNotDispatched, TypeOK, BranchRow
<1>4. ASSUME NEW b \in Branch, ExpireBranch(b) PROVE Lineage'
  <2>1. /\ branch[b].expires
        /\ \A c \in Branch : /\ branch'[c].parent = branch[c].parent
                             /\ branch'[c].expires = branch[c].expires
                             /\ c # b /\ Here(c) => Here(c)'
    BY <1>4 DEF ExpireBranch, TypeOK, BranchRow, Here
  <2>2. \A c \in Branch : branch[c].parent # None => branch[c].parent \in Branch
    BY DEF TypeOK, BranchRow
  <2>3. QED
    BY <2>1, <2>2 DEF Lineage
<1>5. QED
  <2>1. CASE \/ \E o \in Op : Dispatch(o) \/ PickUp(o) \/ TimeOut(o)
             \/ \E o \in Op, k \in Attempt : ReportResult(o, k) \/ Rethrow(o, k)
    BY <1>1, <2>1 DEF Dispatch, DispatchAccepted, DispatchThrows, StartUnheard, PickUp, TimeOut, ReportResult,
                      Rethrow, dbVars
  <2>2. CASE \/ \E b \in Branch : OpenBranch(b)
             \/ \E b \in Branch, x \in Datum : WriteRow(b, x)
             \/ \E b \in Branch, d \in Backup : FinishBackup(d, b)
             \/ \E d \in Backup : LoseDestination(d)
             \/ ApiCrash \/ WorkerCrash \/ UNCHANGED vars
    BY <1>1, <2>2 DEF OpenBranch, WriteRow, FinishBackup, LoseDestination, ApiCrash, WorkerCrash,
                      dbVars, vars
  <2>3. QED
    BY <1>2, <1>3, <1>4, <2>1, <2>2, Steps, LineageRequest

-----------------------------------------------------------------------------
(***************************************************************************)
(* What is still to come for a branch that says creating.                  *)
(***************************************************************************)
(* Where nobody starts or stops to work on a branch it stays watched. *)
LEMMA WatchedKept ==
  ASSUME Watched,
         \A b \in Branch : branch'[b].status = "creating" => branch[b].status = "creating",
         \A o \in Op : /\ Target(o)' = Target(o)
                       /\ o \in stranded => o \in stranded'
                       /\ Pending(o) => Pending(o)' \/ o \in stranded'
                                        \/ branch'[Target(o)].status # "creating"
  PROVE  Watched'
BY DEF Watched

(* A request watches over its own branch. *)
LEMMA WatchedRequest ==
  ASSUME Typed, Watched, Request
  PROVE  Watched'
<1> USE DEF Typed
<1>1. ASSUME NEW b \in Branch, NEW on \in BOOLEAN, CreateEmptyBranch(b, on) PROVE Watched'
  <2>1. /\ branch' = [branch EXCEPT ![b] = NewRow("ready", on, None, "schema_only")]
        /\ UNCHANGED <<restore, api, wf, attempts, run, stranded>>
    BY <1>1 DEF CreateEmptyBranch, faultVars
  <2>2. \A c \in Branch : branch'[c].status = "creating" => branch[c].status = "creating"
    BY <2>1 DEF TypeOK, NewRow
  <2>3. \A o \in Op : Target(o)' = Target(o) /\ (Pending(o)' <=> Pending(o))
    BY <2>1 DEF Target, Pending, WillMark, At, Temporal!Current
  <2>4. QED
    BY <2>1, <2>2, <2>3, WatchedKept
<1>2. ASSUME NEW q \in Op, NEW b \in Branch, Target(q)' = b, api'[q] = "dispatch",
             UNCHANGED <<wf, attempts, run, stranded>>,
             \A o \in Op \ {q} : api'[o] = api[o] /\ Target(o)' = Target(o),
             \A c \in Branch \ {b} : branch'[c] = branch[c] /\ c # Target(q)
      PROVE  Watched'
  <2>1. \A o \in Op \ {q} : Pending(o)' <=> Pending(o)
    BY <1>2 DEF Pending, WillMark, At, Temporal!Current
  <2>2. Pending(q)'
    BY <1>2 DEF Pending
  <2>3. SUFFICES ASSUME NEW c \in Branch, branch'[c].status = "creating"
                 PROVE  \E o \in Op : Target(o)' = c /\ (Pending(o)' \/ o \in stranded')
    BY DEF Watched
  <2>4. CASE c = b
    BY <1>2, <2>2, <2>4
  <2>5. CASE c # b
    <3>1. PICK o \in Op : Target(o) = c /\ (Pending(o) \/ o \in stranded)
      BY <1>2, <2>3, <2>5 DEF Watched
    <3>2. o # q
      BY <1>2, <2>5, <3>1
    <3>3. QED
      BY <1>2, <2>1, <3>1, <3>2
  <2>6. QED
    BY <2>4, <2>5
<1>3. ASSUME NEW b \in Branch, NEW on \in BOOLEAN, NEW p \in Branch,
             NEW m \in {"schema_only", "schema_and_data"}, RequestClone(b, p, m, on)
      PROVE  Watched'
  <2>1. /\ branch' = [branch EXCEPT ![b] = NewRow("creating", on, p, m)]
        /\ api' = [api EXCEPT ![b] = "dispatch"] /\ b \in Op
        /\ UNCHANGED <<restore, wf, attempts, run, stranded>>
    BY <1>3 DEF RequestClone, faultVars, Op
  <2>2. \A o \in Op : Target(o)' = Target(o)
    BY <2>1 DEF Target
  <2>3. Target(b) = b
    BY Ids DEF Target, Op
  <2>4. QED
    BY <1>2, <2>1, <2>2, <2>3 DEF TypeOK
<1>4. ASSUME NEW r \in Restore, NEW d \in Backup, NEW b \in Branch, RequestRestore(r, d, b)
      PROVE  Watched'
  <2>1. /\ \A c \in Branch \ {b} : branch'[c] = branch[c]
        /\ restore' = [restore EXCEPT ![r] = [status |-> "queued", target |-> b, backup |-> d]]
        /\ api' = [api EXCEPT ![r] = "dispatch"] /\ r \in Op /\ restore[r].status = "absent"
        /\ UNCHANGED <<wf, attempts, run, stranded>>
    BY <1>4 DEF RequestRestore, faultVars, Op, TypeOK
  <2>2. \A o \in Op \ {r} : Target(o)' = Target(o)
    BY <2>1 DEF Target, TypeOK
  <2>3. Target(r)' = b
    BY <2>1 DEF Target, TypeOK
  <2>4. Target(r) = None
    BY <2>1 DEF Target, Order
  <2>5. \A c \in Branch : c # Target(r)
    BY <2>4, Ids
  <2>6. QED
    BY <1>2, <2>1, <2>2, <2>3, <2>5 DEF TypeOK
<1>5. QED
  BY <1>1, <1>3, <1>4 DEF Request

(* An attempt that reports or throws on has marked its branch; the latest  *)
(* one that failed before it could is made up for, or there is no other.   *)
LEMMA StatementMarks ==
  ASSUME Typed, NEW o \in Op, NEW k \in Attempt, Statement(o, k),
         branch'[Target(o)].status = "creating"
  PROVE  \/ run'[o][k] \in Unmarked \ {"begin"}
         \/ o \in stranded'
         \/ /\ At(o, k, "begin") /\ run'[o][k] = "rethrow" /\ k # MaxAttempts
            /\ UNCHANGED branch
<1> USE DEF Typed, At
<1>0. Target(o) \in Branch /\ (o \in Branch => Target(o) = o)
  BY StatementDisk, Ids DEF Target
<1>1. CASE StatementFails(o, k)
  <2>1. /\ UNCHANGED branch
        /\ stranded' = IF LosesMark(o, k) THEN stranded \cup {o} ELSE stranded
        /\ \/ run[o][k] \in {"begin", "fail"} /\ Goto(o, k, "rethrow")
           \/ Goto(o, k, "fail")
    BY <1>1 DEF StatementFails, dbVars
  <2>2. CASE Goto(o, k, "fail")
    BY <2>2, Moved DEF Unmarked, Step
  <2>3. CASE run[o][k] \in {"begin", "fail"} /\ Goto(o, k, "rethrow")
    <3>1. run'[o][k] = "rethrow"
      BY <2>3, Moved DEF Step
    <3>2. QED
      BY <2>1, <2>3, <3>1 DEF LosesMark
  <2>4. QED
    BY <2>1, <2>2, <2>3
<1>2. CASE MarkCloned(o, k) \/ MarkCloneFailed(o, k)
  <2>1. o \in Branch /\ \E s \in {"ready", "failed"} : SetBranch(o, s)
    BY <1>2 DEF MarkCloned, MarkCloneFailed
  <2>2. branch'[o].status # "creating"
    BY <2>1, Marked DEF Here
  <2>3. QED
    BY <1>0, <2>1, <2>2
<1>3. CASE CommitRestored(o, k) \/ MarkRestoreFailed(o, k)
  <2>1. \E s \in {"ready", "failed"} : SetBranch(Target(o), s)
    BY <1>3 DEF CommitRestored, MarkRestoreFailed
  <2>2. QED
    BY <1>0, <2>1, Marked DEF Here
<1>4. CASE \/ MarkCreating(o, k) \/ ResetClone(o, k) \/ CopyDatabase(o, k) \/ CopyRefused(o, k)
           \/ TruncateCopy(o, k)
           \/ MarkRestoring(o, k) \/ DropTarget(o, k) \/ CreateTarget(o, k) \/ RefuseRestore(o, k)
           \/ BeginLoad(o, k) \/ EndLoad(o, k) \/ LoadBreaks(o, k)
  <2>1. PICK pc \in Unmarked \ {"begin"}, B \in {{Target(o)}, {o, Source(o)}} :
          Goto(o, k, pc) \/ GotoKilling(o, k, pc, B)
    BY <1>4 DEF MarkCreating, ResetClone, CopyDatabase, CopyRefused, TruncateCopy, MarkRestoring,
                DropTarget, CreateTarget, RefuseRestore, BeginLoad, EndLoad, LoadBreaks, Unmarked
  <2>2. pc \in Step
    BY DEF Unmarked, Step
  <2>3. run'[o][k] = pc
    BY <2>1, <2>2, Moved, MovedKilling
  <2>4. QED
    BY <2>3
<1>5. QED
  BY <1>1, <1>2, <1>3, <1>4 DEF Statement, CloneStep, RestoreStep

LEMMA WatchedStatement ==
  ASSUME Typed, Watched, NEW o \in Op, NEW k \in Attempt, Statement(o, k)
  PROVE  Watched'
<1> USE DEF Typed
<1>1. /\ UNCHANGED <<api, wf, attempts>> /\ stranded \subseteq stranded'
      /\ \A b \in Branch : b # Target(o) => branch'[b] = branch[b]
      /\ \A p \in Op : Target(p)' = Target(p)
      /\ \A p \in Op, i \in Attempt : p # o \/ i # k =>
           run'[p][i] = run[p][i] \/ (run[p][i] = "loading" /\ run'[p][i] = "fail")
  BY StatementRows, StatementRun DEF RowsStay, Target, OthersGoOn, At
<1>2. \A p \in Op, i \in Attempt : (p # o \/ i # k) /\ WillMark(p, i) => WillMark(p, i)'
  BY <1>1 DEF WillMark, At, Temporal!Current, Unmarked
<1>3. \A p \in Op \ {o} : Pending(p) => Pending(p)'
  BY <1>1, <1>2 DEF Pending
<1>4. CASE branch'[Target(o)].status # "creating"
  <2>1. \A b \in Branch : branch'[b].status = "creating" => branch[b].status = "creating"
    BY <1>1, <1>4
  <2>2. QED
    BY <1>1, <1>3, <1>4, <2>1, WatchedKept
<1>5. CASE branch'[Target(o)].status = "creating" /\ (run'[o][k] \in Unmarked \ {"begin"} \/ o \in stranded')
  <2>1. Pending(o)' \/ o \in stranded'
    BY <1>5 DEF Pending, WillMark
  <2>2. SUFFICES ASSUME NEW b \in Branch, branch'[b].status = "creating"
                 PROVE  \E p \in Op : Target(p)' = b /\ (Pending(p)' \/ p \in stranded')
    BY DEF Watched
  <2>3. CASE b = Target(o)
    BY <1>1, <2>1, <2>3
  <2>4. CASE b # Target(o)
    <3>1. PICK p \in Op : Target(p) = b /\ (Pending(p) \/ p \in stranded)
      BY <1>1, <2>2, <2>4 DEF Watched
    <3>2. QED
      BY <1>1, <1>3, <2>4, <3>1
  <2>5. QED
    BY <2>3, <2>4
<1>6. CASE At(o, k, "begin") /\ run'[o][k] = "rethrow" /\ k # MaxAttempts /\ UNCHANGED branch
  <2>1. WillMark(o, k) => WillMark(o, k)'
    BY <1>1, <1>6, AttemptAssumption DEF WillMark, At, Temporal!Current, Unmarked, Attempt
  <2>2. \A p \in Op : Pending(p) => Pending(p)'
    <3>1. \A i \in Attempt : WillMark(o, i) => WillMark(o, i)'
      BY <1>2, <2>1
    <3>2. Pending(o) => Pending(o)'
      BY <1>1, <3>1 DEF Pending
    <3>3. QED
      BY <1>3, <3>2
  <2>3. QED
    BY <1>1, <1>6, <2>2, WatchedKept
<1>7. QED
  BY <1>4, <1>5, <1>6, StatementMarks

(* Temporal and the API go on with one operation. *)
LEMMA WatchedQuiet ==
  ASSUME Watched, UNCHANGED <<branch, restore>>, stranded \subseteq stranded',
         \A o \in Op : Pending(o) => Pending(o)' \/ o \in stranded'
  PROVE  Watched'
BY WatchedKept DEF Target

LEMMA WatchedDispatch ==
  ASSUME Typed, Watched, NEW o \in Op, Dispatch(o)
  PROVE  Watched'
<1>1. /\ UNCHANGED <<branch, restore, attempts, run>> /\ stranded \subseteq stranded'
      /\ \A p \in Op \ {o} : api'[p] = api[p] /\ wf'[p] = wf[p]
      /\ wf'[o] = "scheduled" \/ api'[o] # "idle" \/ o \in stranded'
  BY DEF Dispatch, DispatchAccepted, DispatchThrows, StartUnheard, Temporal!Start, Typed, TypeOK,
         Temporal!RetryTypeOK, dbVars, faultVars
<1>2. \A p \in Op \ {o} : Pending(p)' <=> Pending(p)
  BY <1>1 DEF Pending, WillMark, At, Temporal!Current
<1>3. Pending(o)' \/ o \in stranded'
  BY <1>1 DEF Pending
<1>4. QED
  BY <1>1, <1>2, <1>3, WatchedQuiet

LEMMA WatchedTemporal ==
  ASSUME Typed, Watched, NEW o \in Op, PickUp(o) \/ TimeOut(o)
  PROVE  Watched'
<1> USE AttemptAssumption DEF Typed
<1>1. CASE PickUp(o)
  <2>1. /\ UNCHANGED <<branch, restore, api, stranded>>
        /\ wf[o] = "scheduled" /\ wf' = [wf EXCEPT ![o] = "started"]
        /\ attempts' = [attempts EXCEPT ![o] = @ + 1]
        /\ attempts[o] + 1 \in Attempt
        /\ Goto(o, attempts[o] + 1, "begin")
    BY <1>1 DEF PickUp, Temporal!Poll, Order, TypeOK, Temporal!RetryTypeOK, dbVars, faultVars, Attempt
  <2>2. /\ run'[o][attempts[o] + 1] = "begin"
        /\ \A p \in Op \ {o}, i \in Attempt : run'[p][i] = run[p][i]
    BY <2>1, Moved DEF Step
  <2>3. /\ wf'[o] = "started" /\ attempts'[o] = attempts[o] + 1
        /\ \A p \in Op \ {o} : wf'[p] = wf[p] /\ attempts'[p] = attempts[p]
    BY <2>1 DEF TypeOK, Temporal!RetryTypeOK
  <2>4. PICK k \in Attempt : k = attempts[o] + 1
    BY <2>1
  <2>5. Pending(o)'
    BY <2>2, <2>3, <2>4 DEF Pending, WillMark, At, Temporal!Current
  <2>6. \A p \in Op \ {o} : Pending(p)' <=> Pending(p)
    BY <2>1, <2>2, <2>3 DEF Pending, WillMark, At, Temporal!Current
  <2>7. QED
    BY <2>1, <2>5, <2>6, WatchedQuiet
<1>2. CASE TimeOut(o)
  <2>1. /\ UNCHANGED <<branch, restore, api, run, attempts, stranded>>
        /\ wf[o] = "started" /\ wf' = [wf EXCEPT ![o] = Temporal!RetryOrGiveUp(o)]
    BY <1>2 DEF TimeOut, Temporal!Expire, dbVars
  <2>2. /\ wf'[o] = Temporal!RetryOrGiveUp(o) /\ \A p \in Op \ {o} : wf'[p] = wf[p]
    BY <2>1 DEF TypeOK, Temporal!RetryTypeOK
  <2>3. \A p \in Op \ {o} : Pending(p)' <=> Pending(p)
    BY <2>1, <2>2 DEF Pending, WillMark, At, Temporal!Current
  <2>4. Pending(o) => Pending(o)'
    <3>1. CASE attempts[o] < MaxAttempts
      BY <2>2, <3>1 DEF Pending, Temporal!RetryOrGiveUp
    <3>2. CASE ~(attempts[o] < MaxAttempts)
      <4>1. attempts[o] = MaxAttempts
        <5>1. attempts[o] \in 0 .. MaxAttempts
          BY DEF TypeOK, Temporal!RetryTypeOK
        <5>2. QED
          BY <3>2, <5>1
      <4>2. \A k \in Attempt : WillMark(o, k) => WillMark(o, k)'
        BY <2>1, <4>1 DEF WillMark, At, Temporal!Current, Attempt
      <4>3. QED
        BY <2>1, <4>2 DEF Pending
    <3>3. QED
      BY <3>1, <3>2
  <2>5. QED
    BY <2>1, <2>3, <2>4, WatchedQuiet
<1>3. QED
  BY <1>1, <1>2

LEMMA WatchedReport ==
  ASSUME Typed, Watched, NEW o \in Op, NEW k \in Attempt, ReportResult(o, k) \/ Rethrow(o, k)
  PROVE  Watched'
<1> USE AttemptAssumption DEF Typed
<1>1. /\ UNCHANGED <<branch, restore, api, attempts, stranded>>
      /\ Goto(o, k, "over") /\ run[o][k] \in {"report", "rethrow"}
      /\ IF Temporal!Current(o, k)
         THEN \/ run[o][k] = "report" /\ wf' = [wf EXCEPT ![o] = "completed"]
              \/ run[o][k] = "rethrow" /\ wf' = [wf EXCEPT ![o] = Temporal!RetryOrGiveUp(o)]
         ELSE wf' = wf
  BY DEF ReportResult, Rethrow, Temporal!Returns, Temporal!Throws, At, dbVars, faultVars
<1>2. /\ run'[o][k] = "over"
      /\ \A p \in Op, i \in Attempt : p # o \/ i # k => run'[p][i] = run[p][i]
  BY <1>1, Moved DEF Step
<1>3. \A p \in Op \ {o} : wf'[p] = wf[p]
  BY <1>1 DEF TypeOK, Temporal!RetryTypeOK
<1>4. \A p \in Op \ {o} : Pending(p)' <=> Pending(p)
  BY <1>1, <1>2, <1>3 DEF Pending, WillMark, At, Temporal!Current
<1>5. Pending(o) => Pending(o)'
  <2>1. CASE ~Temporal!Current(o, k)
    <3>1. wf' = wf /\ ~WillMark(o, k)
      BY <1>1, <2>1 DEF WillMark, At, Unmarked
    <3>2. \A i \in Attempt : WillMark(o, i) => WillMark(o, i)'
      BY <1>1, <1>2, <3>1 DEF WillMark, At, Temporal!Current
    <3>3. QED
      BY <1>1, <3>1, <3>2 DEF Pending
  <2>2. CASE Temporal!Current(o, k)
    <3>1. wf[o] = "started" /\ attempts[o] = k
      BY <2>2 DEF Temporal!Current
    <3>2. \A i \in Attempt \ {k} : WillMark(o, i) => WillMark(o, i)'
      BY <1>1, <1>2, <3>1 DEF WillMark, At, Temporal!Current
    <3>3. WillMark(o, k) => wf'[o] = "scheduled"
      BY <1>1, <2>2, <3>1 DEF WillMark, At, Unmarked, Temporal!RetryOrGiveUp, TypeOK, Temporal!RetryTypeOK
    <3>4. QED
      BY <1>1, <3>1, <3>2, <3>3 DEF Pending
  <2>3. QED
    BY <2>1, <2>2
<1>6. QED
  BY <1>1, <1>4, <1>5, WatchedQuiet

(* A branch that says creating stays watched over every step. *)
LEMMA WatchedStep ==
  ASSUME Typed, Watched, [Next]_vars
  PROVE  Watched'
<1> USE DEF Typed
<1>1. ASSUME NEW b \in Branch, MarkNotDispatched(b) PROVE Watched'
  <2>1. /\ UNCHANGED <<restore, wf, attempts, run, stranded>>
        /\ api' = [api EXCEPT ![b] = "idle"] /\ SetBranch(b, "failed")
    BY <1>1 DEF MarkNotDispatched, faultVars
  <2>2. /\ branch'[b].status # "creating"
        /\ \A c \in Branch : c # b => branch'[c] = branch[c]
    BY <2>1, Marked DEF Here
  <2>3. \A o \in Op : Target(o)' = Target(o)
    BY <2>1 DEF Target
  <2>4. \A o \in Op \ {b} : Pending(o)' <=> Pending(o)
    BY <2>1 DEF TypeOK, Pending, WillMark, At, Temporal!Current
  <2>5. Target(b) = b
    BY Ids DEF Target, Op
  <2>6. QED
    BY <2>1, <2>2, <2>3, <2>4, <2>5, WatchedKept
<1>2. ASSUME NEW b \in Branch, ExpireBranch(b) PROVE Watched'
  <2>1. /\ UNCHANGED <<api, wf, attempts, run, stranded>>
        /\ branch' = [branch EXCEPT ![b].status = "gone"]
        /\ \A r \in Restore : restore'[r].target = restore[r].target
    BY <1>2 DEF ExpireBranch, faultVars, TypeOK, RestoreRow
  <2>2. \A c \in Branch : branch'[c].status = "creating" => branch[c].status = "creating"
    BY <2>1 DEF TypeOK, BranchRow
  <2>3. \A o \in Op : Target(o)' = Target(o) /\ (Pending(o)' <=> Pending(o))
    BY <2>1 DEF Target, Pending, WillMark, At, Temporal!Current
  <2>4. QED
    BY <2>1, <2>2, <2>3, WatchedKept
<1>3. CASE \/ \E b \in Branch : OpenBranch(b)
           \/ \E b \in Branch, x \in Datum : WriteRow(b, x)
           \/ \E b \in Branch, d \in Backup : FinishBackup(d, b)
           \/ \E d \in Backup : LoseDestination(d)
           \/ UNCHANGED vars
  <2>1. UNCHANGED <<branch, restore, api, wf, attempts, run, stranded>>
    BY <1>3 DEF OpenBranch, WriteRow, FinishBackup, LoseDestination, dbVars, vars, faultVars
  <2>2. \A o \in Op : Pending(o)' <=> Pending(o)
    BY <2>1 DEF Pending, WillMark, At, Temporal!Current
  <2>3. QED
    BY <2>1, <2>2, WatchedQuiet
<1>4. CASE ApiCrash
  <2>1. /\ UNCHANGED <<branch, restore, wf, attempts, run>>
        /\ stranded' = stranded \cup {o \in Op : api[o] # "idle"}
    BY <1>4 DEF ApiCrash, dbVars
  <2>2. \A o \in Op : Pending(o) => Pending(o)' \/ o \in stranded'
    BY <2>1 DEF Pending, WillMark, At, Temporal!Current
  <2>3. QED
    BY <2>1, <2>2, WatchedQuiet
<1>5. CASE WorkerCrash
  <2>1. /\ UNCHANGED <<branch, restore, api, wf, attempts>>
        /\ stranded' = stranded \cup {o \in Op : Running(o)}
    BY <1>5 DEF WorkerCrash, dbVars
  <2>2. \A o \in Op, k \in Attempt : WillMark(o, k) => Running(o)
    BY DEF WillMark, Running, At, Unmarked
  <2>3. \A o \in Op : Pending(o) => Pending(o)' \/ o \in stranded'
    BY <2>1, <2>2 DEF Pending
  <2>4. QED
    BY <2>1, <2>3, WatchedQuiet
<1>6. QED
  BY <1>1, <1>2, <1>3, <1>4, <1>5, Steps, WatchedRequest, WatchedDispatch, WatchedTemporal,
     WatchedStatement, WatchedReport

-----------------------------------------------------------------------------
(***************************************************************************)
(* One operation at a time.                                                *)
(***************************************************************************)
(* What works for a branch that is not disturbed is free to. *)
LEMMA Undisturbed ==
  ASSUME Typed, NEW o \in Op, Asked(o), Target(o) \notin disturbed
  PROVE  Free(o)
BY AskedHasRows DEF Free

(* What is not done yet belongs to an open workflow. *)
LEMMA UndoneIsOpen ==
  ASSUME NEW o \in Op, Undone(o)
  PROVE  Open(o)
BY DEF Undone, Open, Running, Resting, Temporal!WorkflowOpen

(* The rows of an operation are as before. *)
LEMMA TouchesKept ==
  ASSUME NEW o \in Op,
         o \in Branch => branch'[o].parent = branch[o].parent,
         o \in Restore => restore'[o].target = restore[o].target
  PROVE  Target(o)' = Target(o) /\ Touches(o)' = Touches(o)
BY DEF Target, Touches, Op

(* An operation that works on a branch nobody disturbed is alone with it,  *)
(* and by one attempt.                                                     *)
LEMMA Apart ==
  ASSUME Typed, Alone, Sole, NEW o \in Op, NEW k \in Attempt, run[o][k] \notin Resting,
         Target(o) \notin disturbed
  PROVE  /\ Temporal!Current(o, k)
         /\ \A p \in Op : Open(p) /\ p # o => Target(o) \notin Touches(p)
         /\ \A i \in Attempt : i # k => run[o][i] \in Resting
<1> USE DEF Typed
<1>1. Open(o) /\ Asked(o)
  BY OpenIsAsked DEF Open, Running, Resting
<1>2. Free(o) /\ Target(o) \in Touches(o)
  BY <1>1, Undisturbed, AskedHasRows
<1>3. \A i \in Attempt : run[o][i] \notin Resting => Temporal!Current(o, i)
  BY <1>2 DEF Sole
<1>4. QED
  BY <1>1, <1>2, <1>3 DEF Alone, Temporal!Current

(* Operations enter: whose branches meet theirs is disturbed, all of it. *)
LEMMA EnterMeets ==
  ASSUME Typed, NEW B \in SUBSET Branch, Enter(B)
  PROVE  /\ \A o \in Op : Open(o) /\ Touches(o) \cap B # {} => Touches(o) \cup B \subseteq disturbed'
         /\ B \cap disturbed' # {} => B \subseteq disturbed'
         /\ \A x \in disturbed' : \/ x \in disturbed \/ x \in B
                                  \/ \E o \in Op : /\ Open(o) /\ x \in Touches(o)
                                                   /\ Touches(o) \subseteq disturbed'
BY DEF Enter

(* A clone that nobody disturbs keeps an undisturbed parent. *)
LEMMA LinkSpreads ==
  ASSUME Typed, Alone, Linked, NEW c \in Branch, Open(c), disturbed \subseteq disturbed',
         c \notin disturbed', branch[c].parent \in disturbed'
  PROVE  ~\E o \in Op : /\ Open(o) /\ branch[c].parent \in Touches(o)
                        /\ Touches(o) \subseteq disturbed'
<1>1. c \in Op /\ Asked(c)
  BY OpenIsAsked DEF Op
<1>2. Touches(c) = {c, branch[c].parent} /\ branch[c].parent \notin disturbed
  BY <1>1, AskedHasRows DEF Linked, Source
<1>3. SUFFICES ASSUME NEW o \in Op, Open(o), branch[c].parent \in Touches(o),
                      Touches(o) \subseteq disturbed'
               PROVE  FALSE
  OBVIOUS
<1>4. o # c
  BY <1>2, <1>3
<1>5. QED
  BY <1>1, <1>2, <1>3, <1>4 DEF Alone

(* Temporal, the API and crashes leave rows and databases alone. *)
LEMMA CalmQuiet ==
  ASSUME Typed, Calm, UNCHANGED <<branch, restore, disk>>, disturbed \subseteq disturbed',
         \A x \in disturbed' \ disturbed :
           \E o \in Op : Open(o) /\ x \in Touches(o) /\ Touches(o) \subseteq disturbed',
         \A o \in Op :
           /\ Open(o)' => Open(o)
           /\ Undone(o)' /\ Target(o) \notin disturbed' => Undone(o)
           /\ \A k \in Attempt : run'[o][k] \in {run[o][k], "begin", "over"},
         Sole'
  PROVE  Calm'
<1> USE DEF Calm
<1>1. \A o \in Op : Target(o)' = Target(o) /\ Touches(o)' = Touches(o)
  BY TouchesKept
<1>2. \A b : Whole(b)' <=> Whole(b)
  BY DEF Whole
<1>3. Fresh' /\ ReadyIsWhole'
  BY <1>2 DEF Fresh, ReadyIsWhole
<1>4. Alone'
  BY <1>1 DEF Alone
<1>5. Linked'
  <2>1. SUFFICES ASSUME NEW c \in Branch, Open(c)', c \notin disturbed'
                 PROVE  branch[c].parent \notin disturbed' /\ branch[branch[c].parent].status = "ready"
    BY DEF Linked
  <2>2. Open(c) /\ c \notin disturbed
    BY <2>1 DEF Op
  <2>3. branch[c].parent \notin disturbed'
    BY <2>1, <2>2, LinkSpreads DEF Linked
  <2>4. QED
    BY <2>2, <2>3 DEF Linked
<1>6. NotReady'
  BY <1>1 DEF NotReady
<1>7. Clean'
  <2>1. SUFFICES ASSUME NEW o \in Op, NEW k \in Attempt, Target(o) \notin disturbed'
                 PROVE  /\ run'[o][k] \in {"copy", "truncate", "create", "load", "commit"} => Whole(Target(o))
                        /\ run'[o][k] = "loading" => disk[Target(o)] \cap Restore \subseteq {o}
    BY <1>1 DEF Clean, At, Whole
  <2>2. Target(o) \notin disturbed /\ (run'[o][k] = run[o][k] \/ run'[o][k] \in {"begin", "over"})
    BY <2>1
  <2>3. QED
    BY <2>2 DEF Clean, At
<1>8. QED
  BY <1>3, <1>4, <1>5, <1>6, <1>7

LEMMA CalmDispatch ==
  ASSUME Typed, Calm, NEW o \in Op, Dispatch(o)
  PROVE  Calm'
<1> USE DEF Typed, Calm
<1>1. /\ UNCHANGED <<branch, restore, disk, attempts, run>>
      /\ api[o] = "dispatch"
      /\ \A p \in Op \ {o} : api'[p] = api[p] /\ wf'[p] = wf[p]
      /\ wf'[o] \in {"none", "scheduled"}
      /\ UNCHANGED disturbed \/ (o \in Branch /\ disturbed' = disturbed \cup {o})
  <2>1. api[o] = "dispatch" /\ wf[o] = "none" /\ UNCHANGED <<branch, restore, disk, attempts, run>>
    BY DEF Dispatch, DispatchAccepted, DispatchThrows, StartUnheard, Temporal!Start, Order, Unheard, dbVars
  <2>2. \A p \in Op \ {o} : api'[p] = api[p]
    BY DEF Dispatch, DispatchAccepted, DispatchThrows, StartUnheard, TypeOK
  <2>3. wf' = wf \/ wf' = [wf EXCEPT ![o] = "scheduled"]
    BY DEF Dispatch, DispatchAccepted, DispatchThrows, StartUnheard, Temporal!Start
  <2>4. (\A p \in Op \ {o} : wf'[p] = wf[p]) /\ wf'[o] \in {"none", "scheduled"}
    BY <2>1, <2>3 DEF TypeOK, Temporal!RetryTypeOK
  <2>5. UNCHANGED disturbed \/ (o \in Branch /\ disturbed' = disturbed \cup {o})
    BY DEF Dispatch, DispatchAccepted, DispatchThrows, StartUnheard, Op
  <2>6. QED
    BY <2>1, <2>2, <2>4, <2>5
<1>2. wf[o] = "none" /\ \A k \in Attempt : run[o][k] = "idle"
  <2>1. wf[o] = "none" /\ attempts[o] = 0
    BY <1>1 DEF Order, Unheard
  <2>2. \A k \in Attempt : k > 0
    BY DEF Attempt
  <2>3. QED
    BY <2>1, <2>2 DEF Order
<1>3. \A p \in Op : /\ Open(p)' => Open(p)
                    /\ Undone(p)' => Undone(p)
                    /\ Target(p)' = Target(p) /\ Touches(p)' = Touches(p)
  BY <1>1, TouchesKept DEF Open, Running, Undone, Temporal!WorkflowOpen
<1>4. Sole'
  <2>1. \A p \in Op : Free(p)' => Free(p)
    BY <1>1, <1>3 DEF Free
  <2>2. SUFFICES ASSUME NEW p \in Op, Free(p)
                 PROVE  /\ \A k \in Attempt : run'[p][k] \notin Resting => Temporal!Current(p, k)'
                        /\ wf'[p] = "started" => run'[p][attempts'[p]] \notin Resting
    BY <2>1 DEF Sole
  <2>3. CASE p = o
    BY <1>1, <1>2, <2>3 DEF Resting
  <2>4. CASE p # o
    BY <1>1, <2>2, <2>4 DEF Sole, Temporal!Current
  <2>5. QED
    BY <2>3, <2>4
<1>5. CASE UNCHANGED disturbed
  BY <1>1, <1>3, <1>4, <1>5, CalmQuiet
<1>6. CASE o \in Branch /\ disturbed' = disturbed \cup {o}
  <2>1. Fresh' /\ ReadyIsWhole'
    BY <1>1, <1>6 DEF Fresh, ReadyIsWhole, Whole
  <2>2. Alone' /\ NotReady'
    BY <1>1, <1>3, <1>6 DEF Alone, NotReady
  <2>3. Linked'
    <3>1. SUFFICES ASSUME NEW c \in Branch, Open(c), c \notin disturbed'
                   PROVE  branch[c].parent \notin disturbed' /\ branch[branch[c].parent].status = "ready"
      BY <1>1, <1>3 DEF Linked, Op
    <3>2. branch[c].parent \notin disturbed /\ branch[branch[c].parent].status = "ready"
      BY <1>6, <3>1 DEF Linked
    <3>3. Undone(o) /\ Target(o) = o
      BY <1>1, <1>6, Ids DEF Undone, Target, Op
    <3>4. QED
      BY <1>6, <3>2, <3>3 DEF NotReady
  <2>4. Clean'
    BY <1>1, <1>3, <1>6 DEF Clean, At, Whole
  <2>5. QED
    BY <1>4, <2>1, <2>2, <2>3, <2>4
<1>7. QED
  BY <1>1, <1>5, <1>6

(* A worker polls an operation of which no attempt is left. *)
LEMMA CalmPickUp ==
  ASSUME Typed, Calm, NEW o \in Op, PickUp(o)
  PROVE  Calm'
<1> USE AttemptAssumption DEF Typed, Calm
<1>1. /\ UNCHANGED <<branch, restore, disk, api, disturbed>>
      /\ wf[o] = "scheduled" /\ wf' = [wf EXCEPT ![o] = "started"]
      /\ attempts' = [attempts EXCEPT ![o] = @ + 1]
      /\ attempts[o] + 1 \in Attempt
      /\ Goto(o, attempts[o] + 1, "begin")
  BY DEF PickUp, Temporal!Poll, Order, TypeOK, Temporal!RetryTypeOK, dbVars, faultVars, Attempt
<1>2. /\ run'[o][attempts[o] + 1] = "begin"
      /\ \A p \in Op, i \in Attempt : p # o \/ i # attempts[o] + 1 => run'[p][i] = run[p][i]
  BY <1>1, Moved DEF Step
<1>3. /\ wf'[o] = "started" /\ attempts'[o] = attempts[o] + 1
      /\ \A p \in Op \ {o} : wf'[p] = wf[p] /\ attempts'[p] = attempts[p]
  BY <1>1 DEF TypeOK, Temporal!RetryTypeOK
<1>4. Open(o) /\ Undone(o)
  BY <1>1 DEF Open, Undone, Temporal!WorkflowOpen
<1>5. \A p \in Op \ {o} : (Open(p)' => Open(p)) /\ (Undone(p)' => Undone(p))
  BY <1>1, <1>2, <1>3 DEF Open, Running, Undone, Temporal!WorkflowOpen
<1>6. Sole'
  <2>1. \A p \in Op : Free(p)' => Free(p)
    BY <1>1, TouchesKept DEF Free
  <2>2. SUFFICES ASSUME NEW p \in Op, Free(p)
                 PROVE  /\ \A k \in Attempt : run'[p][k] \notin Resting => Temporal!Current(p, k)'
                        /\ wf'[p] = "started" => run'[p][attempts'[p]] \notin Resting
    BY <2>1 DEF Sole
  <2>3. CASE p = o
    <3>1. \A k \in Attempt : run[o][k] \in Resting
      BY <1>1, <2>2, <2>3 DEF Sole, Temporal!Current
    <3>2. QED
      BY <1>2, <1>3, <2>3, <3>1 DEF Temporal!Current, Resting
  <2>4. CASE p # o
    <3>1. UNCHANGED <<wf[p], attempts[p]>> /\ \A k \in Attempt : run'[p][k] = run[p][k]
      BY <1>2, <1>3, <2>4
    <3>2. wf[p] = "started" => attempts[p] \in Attempt
      BY DEF Order
    <3>3. QED
      BY <2>2, <3>1, <3>2 DEF Sole, Temporal!Current
  <2>5. QED
    BY <2>3, <2>4
<1>7. \A p \in Op, k \in Attempt : run'[p][k] \in {run[p][k], "begin", "over"}
  BY <1>2
<1>8. \A p \in Op : (Open(p)' => Open(p)) /\ (Undone(p)' => Undone(p))
  BY <1>4, <1>5
<1>9. QED
  BY <1>1, <1>6, <1>7, <1>8, CalmQuiet

(* An attempt that runs when its time is over disturbs its branches; one   *)
(* that died has disturbed them before.                                    *)
LEMMA CalmTimeOut ==
  ASSUME Typed, Calm, NEW o \in Op, TimeOut(o)
  PROVE  Calm'
<1> USE AttemptAssumption DEF Typed, Calm
<1>1. /\ UNCHANGED <<branch, restore, disk, api, run, attempts>>
      /\ wf[o] = "started" /\ wf' = [wf EXCEPT ![o] = Temporal!RetryOrGiveUp(o)]
      /\ IF At(o, attempts[o], "over") THEN UNCHANGED disturbed
         ELSE disturbed' = disturbed \cup Touches(o)
  BY DEF TimeOut, Temporal!Expire, dbVars
<1>2. \A p \in Op \ {o} : wf'[p] = wf[p]
  BY <1>1 DEF TypeOK, Temporal!RetryTypeOK
<1>3. Open(o) /\ Asked(o)
  BY <1>1 DEF Open, Asked, Temporal!WorkflowOpen
<1>4. Touches(o) \subseteq disturbed'
  <2>1. CASE At(o, attempts[o], "over")
    BY <1>1, <2>1 DEF Sole, Free, At, Resting
  <2>2. QED
    BY <1>1, <2>1
<1>5. Target(o) \in disturbed'
  BY <1>3, <1>4, AskedHasRows
<1>6. \A p \in Op \ {o} : (Open(p)' => Open(p)) /\ (Undone(p)' => Undone(p))
  BY <1>1, <1>2 DEF Open, Running, Undone, Temporal!WorkflowOpen
<1>7. disturbed \subseteq disturbed' /\ \A x \in disturbed' \ disturbed : x \in Touches(o)
  BY <1>1
<1>8. Sole'
  <2>1. \A p \in Op : Free(p)' => Free(p) /\ p # o
    BY <1>1, <1>4, <1>7, TouchesKept DEF Free
  <2>2. QED
    BY <1>1, <1>2, <2>1 DEF Sole, Temporal!Current
<1>9. \A p \in Op : /\ Open(p)' => Open(p)
                    /\ Undone(p)' /\ Target(p) \notin disturbed' => Undone(p)
  BY <1>3, <1>5, <1>6
<1>10. QED
  BY <1>1, <1>3, <1>4, <1>7, <1>8, <1>9, CalmQuiet

LEMMA CalmReport ==
  ASSUME Typed, Calm, NEW o \in Op, NEW k \in Attempt, ReportResult(o, k) \/ Rethrow(o, k)
  PROVE  Calm'
<1> USE AttemptAssumption DEF Typed, Calm
<1>1. /\ UNCHANGED <<branch, restore, disk, api, attempts, disturbed>>
      /\ Goto(o, k, "over") /\ run[o][k] \in {"report", "rethrow"}
      /\ IF Temporal!Current(o, k)
         THEN \/ run[o][k] = "report" /\ wf' = [wf EXCEPT ![o] = "completed"]
              \/ run[o][k] = "rethrow" /\ wf' = [wf EXCEPT ![o] = Temporal!RetryOrGiveUp(o)]
         ELSE wf' = wf
  BY DEF ReportResult, Rethrow, Temporal!Returns, Temporal!Throws, At, dbVars, faultVars
<1>2. /\ run'[o][k] = "over"
      /\ \A p \in Op, i \in Attempt : p # o \/ i # k => run'[p][i] = run[p][i]
  BY <1>1, Moved DEF Step
<1>3. \A p \in Op \ {o} : wf'[p] = wf[p]
  BY <1>1 DEF TypeOK, Temporal!RetryTypeOK
<1>4. \A p \in Op \ {o} : (Open(p)' => Open(p)) /\ (Undone(p)' => Undone(p))
  BY <1>1, <1>2, <1>3 DEF Open, Running, Undone, Temporal!WorkflowOpen
<1>5. Open(o)
  BY <1>1 DEF Open, Running
<1>6. Undone(o)' => Undone(o)
  <2>1. CASE run[o][k] = "rethrow"
    BY <2>1 DEF Undone, Resting
  <2>2. CASE run[o][k] = "report"
    <3>1. wf'[o] = "scheduled" => wf[o] = "scheduled"
      BY <1>1, <2>2 DEF TypeOK, Temporal!RetryTypeOK
    <3>2. \A i \in Attempt : run'[o][i] = run[o][i] \/ run'[o][i] = "over"
      BY <1>2
    <3>3. QED
      BY <1>1, <3>1, <3>2 DEF Undone, Resting
  <2>3. QED
    BY <1>1, <2>1, <2>2
<1>7. Sole'
  <2>1. \A p \in Op : Free(p)' => Free(p)
    BY <1>1, TouchesKept DEF Free
  <2>2. SUFFICES ASSUME NEW p \in Op, Free(p)
                 PROVE  /\ \A i \in Attempt : run'[p][i] \notin Resting => Temporal!Current(p, i)'
                        /\ wf'[p] = "started" => run'[p][attempts'[p]] \notin Resting
    BY <2>1 DEF Sole
  <2>3. CASE p = o
    <3>1. Temporal!Current(o, k) /\ \A i \in Attempt : i # k => run[o][i] \in Resting
      BY <1>1, <2>2, <2>3 DEF Sole, Temporal!Current, Resting
    <3>2. \A i \in Attempt : run'[o][i] \in Resting
      BY <1>2, <3>1 DEF Resting
    <3>3. wf'[o] # "started"
      BY <1>1, <3>1 DEF TypeOK, Temporal!RetryTypeOK, Temporal!RetryOrGiveUp
    <3>4. QED
      BY <2>3, <3>2, <3>3
  <2>4. CASE p # o
    <3>1. UNCHANGED <<wf[p], attempts[p]>> /\ \A i \in Attempt : run'[p][i] = run[p][i]
      BY <1>1, <1>2, <1>3, <2>4
    <3>2. wf[p] = "started" => attempts[p] \in Attempt
      BY DEF Order
    <3>3. QED
      BY <2>2, <3>1, <3>2 DEF Sole, Temporal!Current
  <2>5. QED
    BY <2>3, <2>4
<1>8. \A p \in Op, i \in Attempt : run'[p][i] \in {run[p][i], "begin", "over"}
  BY <1>2
<1>9. \A p \in Op : (Open(p)' => Open(p)) /\ (Undone(p)' => Undone(p))
  BY <1>4, <1>5, <1>6
<1>10. QED
  BY <1>1, <1>7, <1>8, <1>9, CalmQuiet

LEMMA CalmCrash ==
  ASSUME Typed, Calm, ApiCrash \/ WorkerCrash
  PROVE  Calm'
<1> USE DEF Typed, Calm
<1>1. CASE ApiCrash
  <2>1. /\ UNCHANGED <<branch, restore, disk, wf, attempts, run, disturbed>>
        /\ \A o \in Op : api'[o] = "idle"
    BY <1>1 DEF ApiCrash, dbVars
  <2>2. \A o \in Op : (Open(o)' => Open(o)) /\ (Undone(o)' => Undone(o))
    BY <2>1 DEF Open, Running, Undone, Temporal!WorkflowOpen
  <2>3. Sole'
    BY <2>1, TouchesKept DEF Sole, Free, Temporal!Current
  <2>4. QED
    BY <2>1, <2>2, <2>3, CalmQuiet
<1>2. CASE WorkerCrash
  <2>1. /\ UNCHANGED <<branch, restore, disk, api, wf, attempts>>
        /\ \A o \in Op, k \in Attempt : run'[o][k] = IF run[o][k] = "idle" THEN "idle" ELSE "over"
        /\ disturbed' = disturbed \cup UNION {Touches(o) : o \in {p \in Op : Running(p)}}
    BY <1>2 DEF WorkerCrash, dbVars, At
  <2>2. disturbed \subseteq disturbed' /\ \A o \in Op : Running(o) => Open(o) /\ Touches(o) \subseteq disturbed'
    BY <2>1 DEF Open
  <2>3. \A x \in disturbed' \ disturbed : \E o \in Op : Running(o) /\ x \in Touches(o)
    BY <2>1
  <2>4. \A o \in Op, k \in Attempt : run'[o][k] \in Resting
    BY <2>1 DEF Resting
  <2>5. \A o \in Op : (Open(o)' => Open(o)) /\ (Undone(o)' => Undone(o))
    BY <2>1, <2>4 DEF Open, Running, Undone, Temporal!WorkflowOpen, Resting
  <2>6. Sole'
    <3>1. SUFFICES ASSUME NEW o \in Op, Free(o)', wf[o] = "started"
                   PROVE  FALSE
      BY <2>1, <2>4 DEF Sole
    <3>2. Free(o) /\ ~(Touches(o) \subseteq disturbed')
      BY <2>1, <2>2, <3>1, TouchesKept DEF Free
    <3>3. run[o][attempts[o]] \notin Resting /\ attempts[o] \in Attempt
      BY <3>1, <3>2 DEF Sole, Order
    <3>4. Running(o)
      BY <3>3 DEF Running, Resting
    <3>5. QED
      BY <2>2, <3>2, <3>4
  <2>7. \A o \in Op, k \in Attempt : run'[o][k] \in {run[o][k], "begin", "over"}
    BY <2>1
  <2>8. QED
    BY <2>1, <2>2, <2>3, <2>5, <2>6, <2>7, CalmQuiet
<1>3. QED
  BY <1>1, <1>2

(* An operation q enters: nothing of it runs, and the branches B it works  *)
(* on are alone with it or disturbed.                                      *)
LEMMA CalmEnter ==
  ASSUME Typed, Calm, NEW q \in Op, NEW B \in SUBSET Branch, Enter(B), ~Asked(q),
         UNCHANGED <<disk, wf, attempts, run>>,
         Touches(q)' = B,
         \A o \in Op \ {q} : /\ api'[o] = api[o]
                             /\ Target(o)' = Target(o) /\ Touches(o)' = Touches(o),
         branch'[Target(q)'].status = "creating",
         \A b \in Branch : /\ branch'[b].status = "absent" => branch[b].status = "absent"
                           /\ branch'[b].status # "creating" => branch'[b].status = branch[b].status,
         \A c \in Branch : Open(c)' /\ c \notin disturbed' =>
            /\ branch'[c].parent \notin disturbed'
            /\ branch'[branch'[c].parent].status = "ready"
  PROVE  Calm'
<1> USE DEF Typed, Calm
<1>1. disturbed \subseteq disturbed'
  BY EnterDisturbs
<1>2. \A o \in Op \ {q} : /\ Open(o)' <=> Open(o)
                          /\ Undone(o)' <=> Undone(o)
                          /\ Free(o)' => Free(o)
  BY <1>1 DEF Open, Running, Undone, Temporal!WorkflowOpen, Free
<1>3. wf[q] = "none" /\ \A k \in Attempt : run[q][k] = "idle"
  BY RunningIsAsked DEF Asked
<1>4. Sole'
  BY <1>2, <1>3 DEF Sole, Temporal!Current, Resting
<1>5. Alone'
  <2>1. SUFFICES ASSUME NEW o \in Op, NEW p \in Op, o # p, Open(o)', Open(p)'
                 PROVE  Touches(o)' \cap Touches(p)' \subseteq disturbed'
    BY DEF Alone
  <2>2. CASE o = q
    <3>1. Open(p) /\ Touches(p)' = Touches(p)
      BY <1>2, <2>1, <2>2
    <3>2. QED
      BY <2>2, <3>1, EnterMeets
  <2>3. CASE p = q
    <3>1. Open(o) /\ Touches(o)' = Touches(o)
      BY <1>2, <2>1, <2>3
    <3>2. QED
      BY <2>3, <3>1, EnterMeets
  <2>4. CASE o # q /\ p # q
    BY <1>1, <1>2, <2>1, <2>4 DEF Alone
  <2>5. QED
    BY <2>2, <2>3, <2>4
<1>6. Fresh' /\ ReadyIsWhole'
  BY <1>1 DEF Fresh, ReadyIsWhole, Whole
<1>7. Linked'
  BY DEF Linked
<1>8. NotReady'
  <2>1. SUFFICES ASSUME NEW o \in Op, Undone(o)', Target(o)' \notin disturbed'
                 PROVE  branch'[Target(o)'].status # "ready"
    BY DEF NotReady
  <2>2. CASE o # q
    <3>1. Undone(o) /\ Target(o)' = Target(o) /\ Target(o) \notin disturbed
      BY <1>1, <1>2, <2>1, <2>2
    <3>2. Target(o) \in Branch
      BY <3>1, UndoneIsOpen, OpenIsAsked, AskedHasRows
    <3>3. QED
      BY <3>1, <3>2 DEF NotReady
  <2>3. QED
    BY <2>2
<1>9. Clean'
  <2>1. SUFFICES ASSUME NEW o \in Op, NEW k \in Attempt, Target(o)' \notin disturbed', run[o][k] # "idle"
                 PROVE  /\ run[o][k] \in {"copy", "truncate", "create", "load", "commit"} => Whole(Target(o))
                        /\ run[o][k] = "loading" => disk[Target(o)] \cap Restore \subseteq {o}
                        /\ Target(o)' = Target(o)
    BY <1>3 DEF Clean, At, Whole
  <2>2. o # q
    BY <1>3, <2>1
  <2>3. Target(o)' = Target(o) /\ Target(o) \notin disturbed
    BY <1>1, <2>1, <2>2
  <2>4. QED
    BY <2>3 DEF Clean, At
<1>10. QED
  BY <1>4, <1>5, <1>6, <1>7, <1>8, <1>9

(* Clones under way keep their parents when an operation on B enters. *)
LEMMA LinkedEnter ==
  ASSUME Typed, Calm, NEW B \in SUBSET Branch, Enter(B), NEW c \in Branch, Open(c), c \notin disturbed'
  PROVE  /\ branch[c].parent \notin disturbed' /\ branch[c].parent \notin B /\ c \notin B
         /\ branch[c].parent \in Branch /\ branch[branch[c].parent].status = "ready"
<1> USE DEF Calm
<1>1. c \in Op /\ Touches(c) = {c, branch[c].parent} /\ branch[c].parent \in Branch
  BY OpenIsAsked, AskedHasRows DEF Op, Source
<1>2. Touches(c) \cap B = {}
  BY <1>1, EnterMeets
<1>3. disturbed \subseteq disturbed'
  BY EnterDisturbs DEF Typed
<1>4. branch[c].parent \notin disturbed /\ branch[branch[c].parent].status = "ready"
  BY <1>3 DEF Linked
<1>5. branch[c].parent \notin disturbed'
  BY <1>1, <1>2, <1>3, <1>4, EnterMeets, LinkSpreads
<1>6. QED
  BY <1>1, <1>2, <1>4, <1>5

LEMMA CalmRequest ==
  ASSUME Typed, Calm, Request
  PROVE  Calm'
<1> USE DEF Typed
<1>1. ASSUME NEW b \in Branch, NEW on \in BOOLEAN, CreateEmptyBranch(b, on) PROVE Calm'
  <2> USE DEF Calm
  <2>1. /\ branch[b].status = "absent" /\ branch[b].parent = None
        /\ UNCHANGED <<restore, disk, api, wf, attempts, run, disturbed>>
        /\ branch'[b].status = "ready" /\ branch'[b].parent = None
        /\ \A c \in Branch : c # b => branch'[c] = branch[c]
    BY <1>1 DEF CreateEmptyBranch, TypeOK, NewRow, Order
  <2>2. \A o \in Op : /\ Target(o)' = Target(o) /\ Touches(o)' = Touches(o)
                      /\ (Open(o)' <=> Open(o)) /\ (Undone(o)' <=> Undone(o))
    <3>1. \A o \in Op : Target(o)' = Target(o) /\ Touches(o)' = Touches(o)
      BY <2>1, TouchesKept
    <3>2. QED
      BY <2>1, <3>1 DEF Open, Running, Undone, Temporal!WorkflowOpen
  <2>3. Fresh' /\ ReadyIsWhole'
    BY <2>1 DEF Fresh, ReadyIsWhole, Whole
  <2>4. Sole' /\ Alone'
    BY <2>1, <2>2 DEF Sole, Alone, Free, Temporal!Current
  <2>5. Linked'
    <3>1. SUFFICES ASSUME NEW c \in Branch, Open(c)', c \notin disturbed
                   PROVE  branch'[c].parent \notin disturbed /\ branch'[branch'[c].parent].status = "ready"
      BY <2>1 DEF Linked
    <3>2. Open(c) /\ c \in Op
      BY <2>2, <3>1 DEF Op
    <3>3. branch[c].status # "absent" /\ branch[c].parent \in Branch
      BY <3>2, OpenIsAsked DEF Order
    <3>4. QED
      BY <2>1, <3>1, <3>2, <3>3 DEF Linked
  <2>6. NotReady'
    <3>1. SUFFICES ASSUME NEW o \in Op, Undone(o), Target(o) \notin disturbed
                   PROVE  branch'[Target(o)].status # "ready"
      BY <2>1, <2>2 DEF NotReady
    <3>2. Target(o) \in Branch /\ branch[Target(o)].status # "absent"
      BY <3>1, UndoneIsOpen, OpenIsAsked, AskedHasRows
    <3>3. QED
      BY <2>1, <3>1, <3>2 DEF NotReady
  <2>7. Clean'
    BY <2>1, <2>2 DEF Clean, At, Whole
  <2>8. QED
    BY <2>3, <2>4, <2>5, <2>6, <2>7
<1>2. ASSUME NEW b \in Branch, NEW on \in BOOLEAN, NEW p \in Branch,
             NEW m \in {"schema_only", "schema_and_data"}, RequestClone(b, p, m, on)
      PROVE  Calm'
  <2>1. /\ branch[b].status = "absent" /\ Enter({b, p}) /\ MayBeParent(p)
        /\ b \in Op /\ Target(b) = b /\ b \notin Restore
        /\ branch'[b].status = "creating" /\ branch'[b].parent = p
        /\ \A c \in Branch : c # b => branch'[c] = branch[c]
        /\ \A o \in Op \ {b} : api'[o] = api[o]
        /\ UNCHANGED <<restore, disk, wf, attempts, run>>
    BY <1>2, Ids DEF RequestClone, TypeOK, NewRow, Op, Target
  <2>2. ~Asked(b) /\ branch[p].status = "ready" /\ p # b /\ None \notin {b, p}
    BY <2>1, Ids DEF Order, MayBeParent
  <2>3. \A o \in Op \ {b} : Target(o)' = Target(o) /\ Touches(o)' = Touches(o)
    BY <2>1, TouchesKept
  <2>4. Touches(b)' = {b, p} /\ Target(b)' = b
    BY <2>1, <2>2 DEF Touches, Target
  <2>5. ASSUME NEW c \in Branch, Open(c)', c \notin disturbed'
        PROVE  branch'[c].parent \notin disturbed' /\ branch'[branch'[c].parent].status = "ready"
    <3>1. CASE c = b
      <4>1. p \notin disturbed'
        BY <2>1, <2>5, <3>1, EnterMeets
      <4>2. QED
        BY <2>1, <2>2, <3>1, <4>1
    <3>2. CASE c # b
      <4>1. Open(c)
        BY <2>1, <2>5, <3>2 DEF Open, Running, Temporal!WorkflowOpen, Op
      <4>2. /\ branch[c].parent \notin disturbed' /\ branch[c].parent \notin {b, p}
            /\ branch[c].parent \in Branch /\ branch[branch[c].parent].status = "ready"
        BY <2>1, <2>5, <4>1, LinkedEnter
      <4>3. QED
        BY <2>1, <3>2, <4>2
    <3>3. QED
      BY <3>1, <3>2
  <2>6. {b, p} \in SUBSET Branch
    OBVIOUS
  <2>7. branch'[Target(b)'].status = "creating"
    BY <2>1, <2>4
  <2>8. QED
    BY <2>1, <2>2, <2>3, <2>4, <2>5, <2>6, <2>7, CalmEnter
<1>3. ASSUME NEW r \in Restore, NEW d \in Backup, NEW b \in Branch, RequestRestore(r, d, b)
      PROVE  Calm'
  <2>1. /\ restore[r].status = "absent" /\ Enter({b}) /\ r \in Op
        /\ branch'[b].status = "creating" /\ branch'[b].parent = branch[b].parent
        /\ \A c \in Branch : c # b => branch'[c] = branch[c]
        /\ restore'[r].target = b /\ \A q \in Restore \ {r} : restore'[q] = restore[q]
        /\ \A o \in Op \ {r} : api'[o] = api[o]
        /\ UNCHANGED <<disk, wf, attempts, run>>
    <3>1. /\ branch' = [branch EXCEPT ![b] =
                          IF Here(b) THEN [@ EXCEPT !.status = "creating"]
                          ELSE NewRow("creating", FALSE, None, "schema_and_data")]
          /\ branch[b].status # "gone"
      BY <1>3 DEF RequestRestore
    <3>2. /\ branch'[b].status = "creating" /\ branch'[b].parent = branch[b].parent
          /\ \A c \in Branch : c # b => branch'[c] = branch[c]
      <4>1. CASE Here(b)
        BY <3>1, <4>1 DEF TypeOK, BranchRow
      <4>2. CASE ~Here(b)
        <5>1. branch[b].parent = None
          BY <3>1, <4>2 DEF Order, Here
        <5>2. QED
          BY <3>1, <4>2, <5>1 DEF TypeOK, NewRow
      <4>3. QED
        BY <4>1, <4>2
    <3>3. QED
      BY <1>3, <3>2 DEF RequestRestore, TypeOK, Op
  <2>2. ~Asked(r) /\ None # b /\ r \notin Branch
    BY <2>1, Ids DEF Order
  <2>3. \A o \in Op \ {r} : Target(o)' = Target(o) /\ Touches(o)' = Touches(o)
    BY <2>1, TouchesKept
  <2>4. Touches(r)' = {b} /\ Target(r)' = b
    BY <2>1, <2>2 DEF Touches, Target
  <2>5. ASSUME NEW c \in Branch, Open(c)', c \notin disturbed'
        PROVE  branch'[c].parent \notin disturbed' /\ branch'[branch'[c].parent].status = "ready"
    <3>1. Open(c)
      BY <2>1, <2>2, <2>5 DEF Open, Running, Temporal!WorkflowOpen, Op
    <3>2. /\ branch[c].parent \notin disturbed' /\ branch[c].parent # b
          /\ branch[c].parent \in Branch /\ branch[branch[c].parent].status = "ready"
      BY <2>1, <2>5, <3>1, LinkedEnter
    <3>3. branch'[c].parent = branch[c].parent
      BY <2>1
    <3>4. QED
      BY <2>1, <3>2, <3>3
  <2>6. {b} \in SUBSET Branch
    OBVIOUS
  <2>7. branch'[Target(r)'].status = "creating"
    BY <2>1, <2>4
  <2>8. QED
    BY <2>1, <2>2, <2>3, <2>4, <2>5, <2>6, <2>7, CalmEnter
<1>4. QED
  BY <1>1, <1>2, <1>3 DEF Request

(* What a statement does for an undisturbed branch: it finds the branch    *)
(* not ready, and hands over a whole database or nothing.                  *)
LEMMA StatementHandsOver ==
  ASSUME Typed, Calm, NEW o \in Op, NEW k \in Attempt, Statement(o, k),
         Target(o) \notin disturbed
  PROVE  /\ run'[o][k] \in {"copy", "truncate", "create", "load", "commit"} => Whole(Target(o))'
         /\ run'[o][k] = "loading" => disk'[Target(o)] \cap Restore \subseteq {o}
         /\ branch'[Target(o)].status = "ready" =>
              Whole(Target(o))' /\ At(o, k, "commit") /\ run'[o][k] = "report" /\ UNCHANGED disk
<1> USE DEF Typed, Calm, At
<1>1. /\ run[o][k] \in Unmarked /\ Open(o) /\ Asked(o) /\ Target(o) \in Branch
      /\ o \in Branch => Target(o) = o /\ Source(o) \in Branch
      /\ Target(o)' = Target(o)
  <2>1. run[o][k] \in Unmarked
    BY StatementRun
  <2>2. Open(o)
    BY <2>1 DEF Open, Running, Unmarked
  <2>3. Target(o)' = Target(o)
    BY StatementRows DEF RowsStay, Target
  <2>4. QED
    BY <2>1, <2>2, <2>3, OpenIsAsked, AskedHasRows, Ids DEF Target
<1>2. branch[Target(o)].status # "ready"
  BY <1>1 DEF NotReady, Undone, Unmarked, Resting
<1>3. /\ run[o][k] \in {"copy", "truncate", "create", "load", "commit"} => Whole(Target(o))
      /\ run[o][k] = "loading" => disk[Target(o)] \cap Restore \subseteq {o}
  BY DEF Clean
<1>4. CASE StatementFails(o, k)
  <2>1. UNCHANGED branch /\ \E pc \in {"fail", "rethrow"} : Goto(o, k, pc)
    BY <1>4 DEF StatementFails, dbVars
  <2>2. run'[o][k] \in {"fail", "rethrow"}
    BY <2>1, Moved DEF Step
  <2>3. QED
    BY <1>2, <2>1, <2>2
<1>5. CASE MarkCloned(o, k) \/ CommitRestored(o, k)
  <2>1. UNCHANGED disk /\ Goto(o, k, "report") /\ run[o][k] = "commit"
    BY <1>5 DEF MarkCloned, CommitRestored
  <2>2. run'[o][k] = "report"
    BY <2>1, Moved DEF Step
  <2>3. QED
    BY <1>1, <1>3, <2>1, <2>2 DEF Whole
<1>6. CASE MarkCreating(o, k) \/ MarkCloneFailed(o, k) \/ MarkRestoreFailed(o, k)
  <2>1. /\ \E s \in {"creating", "failed"} : SetBranch(Target(o), s)
        /\ \E pc \in {"reset", "rethrow"} : Goto(o, k, pc)
    BY <1>1, <1>6 DEF MarkCreating, MarkCloneFailed, MarkRestoreFailed
  <2>2. run'[o][k] \in {"reset", "rethrow"}
    BY <2>1, Moved DEF Step
  <2>3. branch'[Target(o)].status # "ready"
    BY <1>1, <1>2, <2>1, Marked
  <2>4. QED
    BY <2>2, <2>3
<1>7. CASE CopyRefused(o, k) \/ RefuseRestore(o, k) \/ LoadBreaks(o, k) \/ MarkRestoring(o, k)
  <2>1. UNCHANGED branch /\ \E pc \in {"fail", "reset"} : Goto(o, k, pc)
    BY <1>7 DEF CopyRefused, RefuseRestore, LoadBreaks, MarkRestoring, dbVars
  <2>2. run'[o][k] \in {"fail", "reset"}
    BY <2>1, Moved DEF Step
  <2>3. QED
    BY <1>2, <2>1, <2>2
<1>8. CASE ResetClone(o, k) \/ DropTarget(o, k)
  <2>1. /\ UNCHANGED branch
        /\ \/ Goto(o, k, "fail")
           \/ /\ disk' = [disk EXCEPT ![Target(o)] = None]
              /\ \E pc \in {"copy", "create"}, B \in SUBSET Branch : GotoKilling(o, k, pc, B)
    BY <1>1, <1>8 DEF ResetClone, DropTarget
  <2>2. CASE Goto(o, k, "fail")
    BY <1>2, <2>1, <2>2, Moved DEF Step
  <2>3. CASE disk' = [disk EXCEPT ![Target(o)] = None] /\ \E pc \in {"copy", "create"}, B \in SUBSET Branch : GotoKilling(o, k, pc, B)
    <3>1. disk'[Target(o)] = None
      BY <1>1, <2>3 DEF TypeOK
    <3>2. run'[o][k] \in {"copy", "create"}
      BY <2>3, MovedKilling DEF Step
    <3>3. QED
      BY <1>1, <1>2, <2>1, <3>1, <3>2 DEF Whole
  <2>4. QED
    BY <2>1, <2>2, <2>3
<1>9. CASE CopyDatabase(o, k)
  <2>1. /\ UNCHANGED branch /\ o \in Branch
        /\ disk' = [disk EXCEPT ![o] = disk[Source(o)]]
        /\ \E pc \in {"truncate", "commit"} : Goto(o, k, pc)
    BY <1>9 DEF CopyDatabase
  <2>2. run'[o][k] \in {"truncate", "commit"}
    BY <2>1, Moved DEF Step
  <2>3. Whole(Source(o))
    BY <1>1, <2>1 DEF Linked, ReadyIsWhole, Source
  <2>4. disk'[Target(o)] = disk[Source(o)]
    BY <1>1, <2>1 DEF TypeOK
  <2>5. QED
    BY <1>1, <1>2, <2>1, <2>2, <2>3, <2>4 DEF Whole
<1>10. CASE TruncateCopy(o, k)
  <2>1. /\ UNCHANGED branch /\ o \in Branch /\ run[o][k] = "truncate"
        /\ disk' = [disk EXCEPT ![o] = IF @ = None THEN {} ELSE @ \cap Restore]
        /\ Goto(o, k, "commit")
    BY <1>10 DEF TruncateCopy
  <2>2. run'[o][k] = "commit"
    BY <2>1, Moved DEF Step
  <2>3. disk'[Target(o)] \cap Restore = {}
    BY <1>1, <1>3, <2>1 DEF TypeOK, Whole
  <2>4. QED
    BY <1>1, <1>2, <2>1, <2>2, <2>3 DEF Whole
<1>11. CASE CreateTarget(o, k)
  <2>1. /\ UNCHANGED branch
        /\ \/ disk' = [disk EXCEPT ![Target(o)] = {}] /\ Goto(o, k, "load")
           \/ Goto(o, k, "fail")
    BY <1>11 DEF CreateTarget
  <2>2. CASE Goto(o, k, "fail")
    BY <1>2, <2>1, <2>2, Moved DEF Step
  <2>3. CASE disk' = [disk EXCEPT ![Target(o)] = {}] /\ Goto(o, k, "load")
    <3>1. disk'[Target(o)] = {}
      BY <1>1, <2>3 DEF TypeOK
    <3>2. run'[o][k] = "load"
      BY <2>3, Moved DEF Step
    <3>3. QED
      BY <1>1, <1>2, <2>1, <3>1, <3>2 DEF Whole
  <2>4. QED
    BY <2>1, <2>2, <2>3
<1>12. CASE BeginLoad(o, k)
  <2>1. /\ UNCHANGED branch /\ run[o][k] = "load" /\ disk[Target(o)] # None
        /\ disk' = [disk EXCEPT ![Target(o)] = @ \cup {o}]
        /\ Goto(o, k, "loading")
    BY <1>12 DEF BeginLoad
  <2>2. run'[o][k] = "loading"
    BY <2>1, Moved DEF Step
  <2>3. disk'[Target(o)] \cap Restore \subseteq {o}
    BY <1>1, <1>3, <2>1 DEF TypeOK, Whole
  <2>4. QED
    BY <1>2, <2>1, <2>2, <2>3
<1>13. CASE EndLoad(o, k)
  <2>1. /\ UNCHANGED branch /\ o \in Restore /\ run[o][k] = "loading"
        /\ disk' = [disk EXCEPT ![Target(o)] = (@ \ {o}) \cup dump[restore[o].backup]]
        /\ Goto(o, k, "commit")
    BY <1>13 DEF EndLoad
  <2>2. run'[o][k] = "commit"
    BY <2>1, Moved DEF Step
  <2>3. dump[restore[o].backup] \subseteq Datum
    BY <1>1, <2>1, AskedHasRows DEF Loads, TypeOK
  <2>4. disk'[Target(o)] \cap Restore = {}
    BY <1>1, <1>3, <2>1, <2>3, Ids DEF TypeOK
  <2>5. QED
    BY <1>1, <1>2, <2>1, <2>2, <2>4 DEF Whole
<1>14. QED
  BY <1>4, <1>5, <1>6, <1>7, <1>8, <1>9, <1>10, <1>11, <1>12, <1>13 DEF Statement, CloneStep, RestoreStep

LEMMA CalmStatement ==
  ASSUME Typed, Calm, NEW o \in Op, NEW k \in Attempt, Statement(o, k)
  PROVE  Calm'
<1> USE DEF Typed, Calm
<1>1. /\ UNCHANGED <<dump, lostDest, api, wf, attempts, disturbed>>
      /\ RowsStay
      /\ \A b \in Branch : b # Target(o) => branch'[b] = branch[b] /\ disk'[b] = disk[b]
      /\ run[o][k] \in Unmarked
      /\ run'[o][k] \in (Unmarked \ {"begin"}) \cup {"report", "rethrow"}
      /\ \A p \in Op, i \in Attempt : p # o \/ i # k =>
           run'[p][i] = run[p][i] \/ (run[p][i] = "loading" /\ run'[p][i] = "fail")
  BY StatementRows, StatementRun, StatementDisk DEF OthersGoOn, At
<1>2. Open(o) /\ Asked(o) /\ Undone(o) /\ Target(o) \in Branch /\ Target(o) \in Touches(o)
  <2>1. Open(o) /\ Undone(o)
    BY <1>1 DEF Open, Running, Undone, Unmarked, Resting
  <2>2. QED
    BY <2>1, OpenIsAsked, AskedHasRows
<1>3. \A p \in Op : Target(p)' = Target(p) /\ Touches(p)' = Touches(p)
  BY <1>1, TouchesKept DEF RowsStay
<1>4. \A p \in Op, i \in Attempt : run'[p][i] \in Resting <=> run[p][i] \in Resting
  BY <1>1 DEF Resting, Unmarked
<1>5. \A p \in Op : Open(p)' <=> Open(p)
  BY <1>1, <1>4 DEF Open, Running, Resting, Temporal!WorkflowOpen
<1>6. Alone'
  BY <1>1, <1>3, <1>5 DEF Alone
<1>7. Sole'
  <2>1. \A p \in Op : wf[p] = "started" => attempts[p] \in Attempt
    BY DEF Order
  <2>2. QED
    BY <1>1, <1>3, <1>4, <2>1 DEF Sole, Free, Temporal!Current
<1>8. Fresh'
  <2>1. branch[Target(o)].status # "absent"
    BY <1>2, AskedHasRows
  <2>2. QED
    BY <1>1, <2>1 DEF Fresh, RowsStay
<1>9. Linked'
  <2>1. SUFFICES ASSUME NEW c \in Branch, Open(c), c \notin disturbed
                 PROVE  branch[c].parent \notin disturbed /\ branch'[branch[c].parent].status = "ready"
    BY <1>1, <1>5 DEF Linked, RowsStay, Op
  <2>2. /\ branch[c].parent \notin disturbed /\ branch[branch[c].parent].status = "ready"
        /\ branch[c].parent \in Branch /\ Touches(c) = {c, branch[c].parent} /\ c \in Op
    BY <2>1, OpenIsAsked, AskedHasRows DEF Linked, Source, Op
  <2>3. branch[c].parent # Target(o)
    <3>1. CASE c = o
      <4>1. branch[Target(o)].status # "ready"
        BY <1>2, <2>1, <3>1, Ids DEF NotReady, Target
      <4>2. QED
        BY <2>2, <4>1
    <3>2. CASE c # o
      BY <1>2, <2>1, <2>2, <3>2 DEF Alone
    <3>3. QED
      BY <3>1, <3>2
  <2>4. QED
    BY <1>1, <2>2, <2>3
<1>10. ASSUME Target(o) \notin disturbed
       PROVE  /\ Temporal!Current(o, k)
              /\ \A p \in Op : Open(p) /\ Target(p) = Target(o) => p = o
              /\ \A i \in Attempt : i # k => run'[o][i] = run[o][i] /\ run[o][i] \in Resting
  <2>1. /\ Temporal!Current(o, k)
        /\ \A p \in Op : Open(p) /\ p # o => Target(o) \notin Touches(p)
        /\ \A i \in Attempt : i # k => run[o][i] \in Resting
    BY <1>1, <1>10, Apart DEF Unmarked, Resting
  <2>2. \A p \in Op : Open(p) => Target(p) \in Touches(p)
    BY OpenIsAsked, AskedHasRows
  <2>3. QED
    BY <1>1, <2>1, <2>2 DEF Resting
<1>11. NotReady'
  <2>1. SUFFICES ASSUME NEW p \in Op, Undone(p)', Target(p) \notin disturbed,
                        branch'[Target(p)].status = "ready"
                 PROVE  FALSE
    BY <1>1, <1>3 DEF NotReady
  <2>2. Undone(p)
    <3>1. CASE p = o
      BY <1>2, <3>1
    <3>2. CASE p # o
      BY <1>1, <2>1, <3>2 DEF Undone, Resting
    <3>3. QED
      BY <3>1, <3>2
  <2>3. Open(p) /\ Target(p) \in Branch
    BY <2>2, UndoneIsOpen, OpenIsAsked, AskedHasRows
  <2>4. branch[Target(p)].status # "ready"
    BY <2>1, <2>2 DEF NotReady
  <2>5. Target(p) = Target(o)
    BY <1>1, <2>1, <2>3, <2>4
  <2>6. p = o
    BY <1>10, <2>1, <2>3, <2>5
  <2>7. run'[o][k] = "report"
    BY <2>1, <2>6, StatementHandsOver
  <2>8. \A i \in Attempt : run'[o][i] \in Resting \cup {"report"}
    BY <1>10, <2>1, <2>6, <2>7
  <2>9. wf[o] = "started" /\ api[o] = "idle"
    <3>1. Unheard(o) => Target(o) \in disturbed
      BY Ids DEF Unheard, Target, Order
    <3>2. QED
      BY <1>10, <2>1, <2>6, <3>1 DEF Order, Temporal!Current
  <2>10. QED
    BY <1>1, <2>1, <2>6, <2>8, <2>9 DEF Undone
<1>12. Clean'
  <2>1. SUFFICES ASSUME NEW p \in Op, NEW i \in Attempt, Target(p) \notin disturbed
                 PROVE  /\ run'[p][i] \in {"copy", "truncate", "create", "load", "commit"} => disk'[Target(p)] = None \/ disk'[Target(p)] \cap Restore = {}
                        /\ run'[p][i] = "loading" => disk'[Target(p)] \cap Restore \subseteq {p}
    BY <1>1, <1>3 DEF Clean, At, Whole
  <2>2. CASE p = o /\ i = k
    BY <1>3, <2>1, <2>2, StatementHandsOver DEF Whole
  <2>3. CASE p = o /\ i # k
    BY <1>10, <2>1, <2>3 DEF Resting
  <2>4. CASE p # o
    <3>1. SUFFICES ASSUME run'[p][i] \notin Resting
                   PROVE  /\ run'[p][i] \in {"copy", "truncate", "create", "load", "commit"} =>
                                disk'[Target(p)] = None \/ disk'[Target(p)] \cap Restore = {}
                          /\ run'[p][i] = "loading" => disk'[Target(p)] \cap Restore \subseteq {p}
      BY DEF Resting
    <3>2. Open(p)
      BY <1>4, <3>1 DEF Open, Running, Resting
    <3>3. Target(p) \in Branch /\ Target(p) # Target(o)
      BY <1>10, <2>1, <2>4, <3>2, OpenIsAsked, AskedHasRows
    <3>4. run'[p][i] = run[p][i] \/ run'[p][i] = "fail"
      BY <1>1, <2>4
    <3>5. QED
      BY <1>1, <2>1, <3>3, <3>4 DEF Clean, At, Whole
  <2>5. QED
    BY <2>2, <2>3, <2>4
<1>13. ReadyIsWhole'
  <2>1. SUFFICES ASSUME NEW b \in Branch, b \notin disturbed, branch'[b].status = "ready"
                 PROVE  disk'[b] = None \/ disk'[b] \cap Restore = {}
    BY <1>1 DEF ReadyIsWhole, Whole
  <2>2. CASE b = Target(o)
    BY <1>3, <2>1, <2>2, StatementHandsOver DEF Whole
  <2>3. CASE b # Target(o)
    BY <1>1, <2>1, <2>3 DEF ReadyIsWhole, Whole
  <2>4. QED
    BY <2>2, <2>3
<1>14. QED
  BY <1>6, <1>7, <1>8, <1>9, <1>11, <1>12, <1>13

(* A dispatch that failed is marked; the operation is over. *)
LEMMA CalmMark ==
  ASSUME Typed, Calm, NEW b \in Branch, MarkNotDispatched(b)
  PROVE  Calm'
<1> USE DEF Typed, Calm
<1>1. /\ UNCHANGED <<restore, disk, wf, attempts, run, disturbed>>
      /\ api[b] = "mark" /\ api' = [api EXCEPT ![b] = "idle"] /\ SetBranch(b, "failed")
  BY DEF MarkNotDispatched, faultVars
<1>2. /\ \A c \in Branch : /\ branch'[c].parent = branch[c].parent
                           /\ branch'[c].status = "absent" <=> branch[c].status = "absent"
                           /\ c # b => branch'[c] = branch[c]
      /\ branch'[b].status = "ready" => branch[b].status = "ready"
  BY <1>1, Marked, MarkKeepsRows
<1>3. b \in Op /\ Target(b) = b /\ Open(b) /\ Undone(b)
  BY <1>1, Ids DEF Op, Target, Open, Undone
<1>4. \A o \in Op : /\ Target(o)' = Target(o) /\ Touches(o)' = Touches(o)
                    /\ Open(o)' => Open(o)
                    /\ Undone(o)' => Undone(o)
  <2>1. \A o \in Op : Target(o)' = Target(o) /\ Touches(o)' = Touches(o)
    BY <1>1, <1>2, TouchesKept
  <2>2. \A o \in Op : api'[o] # "idle" => api[o] # "idle"
    BY <1>1 DEF TypeOK
  <2>3. QED
    BY <1>1, <2>1, <2>2 DEF Open, Running, Undone, Temporal!WorkflowOpen
<1>5. Fresh' /\ ReadyIsWhole'
  BY <1>1, <1>2 DEF Fresh, ReadyIsWhole, Whole
<1>6. Sole' /\ Alone'
  BY <1>1, <1>4 DEF Sole, Alone, Free, Temporal!Current
<1>7. Linked'
  <2>1. SUFFICES ASSUME NEW c \in Branch, Open(c), c \notin disturbed
                 PROVE  branch[c].parent \notin disturbed /\ branch'[branch[c].parent].status = "ready"
    BY <1>1, <1>2, <1>4 DEF Linked, Op
  <2>2. /\ branch[c].parent \notin disturbed /\ branch[branch[c].parent].status = "ready"
        /\ branch[c].parent \in Branch /\ Touches(c) = {c, branch[c].parent} /\ c \in Op
    BY <2>1, OpenIsAsked, AskedHasRows DEF Linked, Source, Op
  <2>3. b \in Touches(b)
    BY <1>3, OpenIsAsked, AskedHasRows
  <2>4. branch[c].parent # b
    <3>1. CASE c = b
      BY <1>3, <2>1, <2>2, <3>1 DEF NotReady
    <3>2. CASE c # b
      BY <1>3, <2>1, <2>2, <2>3, <3>2 DEF Alone
    <3>3. QED
      BY <3>1, <3>2
  <2>5. QED
    BY <1>2, <2>2, <2>4
<1>8. NotReady'
  <2>1. \A o \in Op : Undone(o) => Target(o) \in Branch
    BY UndoneIsOpen, OpenIsAsked, AskedHasRows
  <2>2. QED
    BY <1>1, <1>2, <1>4, <2>1 DEF NotReady
<1>9. Clean'
  BY <1>1, <1>4 DEF Clean, At, Whole
<1>10. QED
  BY <1>5, <1>6, <1>7, <1>8, <1>9

(* What expires is no parent of a clone under way. *)
LEMMA CalmExpire ==
  ASSUME Typed, Lineage, Calm, NEW b \in Branch, ExpireBranch(b)
  PROVE  Calm'
<1> USE DEF Typed, Calm
<1>1. /\ UNCHANGED <<disk, api, wf, attempts, run, disturbed>>
      /\ branch[b].expires
      /\ branch'[b].status = "gone" /\ \A c \in Branch : c # b => branch'[c] = branch[c]
      /\ \A c \in Branch : branch'[c].parent = branch[c].parent
      /\ \A r \in Restore : restore'[r].target = restore[r].target
  BY DEF ExpireBranch, Here, TypeOK, BranchRow, RestoreRow, faultVars
<1>2. \A o \in Op : /\ Target(o)' = Target(o) /\ Touches(o)' = Touches(o)
                    /\ Open(o)' <=> Open(o)
                    /\ Undone(o)' <=> Undone(o)
  <2>1. \A o \in Op : Target(o)' = Target(o) /\ Touches(o)' = Touches(o)
    BY <1>1, TouchesKept
  <2>2. QED
    BY <1>1, <2>1 DEF Open, Running, Undone, Temporal!WorkflowOpen
<1>3. Fresh' /\ ReadyIsWhole'
  BY <1>1 DEF Fresh, ReadyIsWhole, Whole
<1>4. Sole' /\ Alone'
  BY <1>1, <1>2 DEF Sole, Alone, Free, Temporal!Current
<1>5. Linked'
  <2>1. SUFFICES ASSUME NEW c \in Branch, Open(c), c \notin disturbed
                 PROVE  branch[c].parent \notin disturbed /\ branch'[branch[c].parent].status = "ready"
    BY <1>1, <1>2 DEF Linked, Op
  <2>2. branch[c].parent \in Branch
    BY <2>1, OpenIsAsked, AskedHasRows DEF Source, Op
  <2>3. branch[c].parent # b
    BY <1>1, <2>2, Ids DEF Lineage
  <2>4. QED
    BY <1>1, <2>1, <2>2, <2>3 DEF Linked
<1>6. NotReady'
  <2>1. \A o \in Op : Undone(o) => Target(o) \in Branch
    BY UndoneIsOpen, OpenIsAsked, AskedHasRows
  <2>2. QED
    BY <1>1, <1>2, <2>1 DEF NotReady
<1>7. Clean'
  BY <1>1, <1>2 DEF Clean, At, Whole
<1>8. QED
  BY <1>3, <1>4, <1>5, <1>6, <1>7

(* Users write rows, and open what nobody made yet. *)
LEMMA CalmWrite ==
  ASSUME Typed, Calm, NEW b \in Branch, OpenBranch(b) \/ \E x \in Datum : WriteRow(b, x)
  PROVE  Calm'
<1> USE DEF Typed, Calm
<1>1. /\ UNCHANGED <<branch, restore, api, wf, attempts, run, disturbed>>
      /\ Here(b) /\ disk' = [disk EXCEPT ![b] = disk'[b]]
      /\ IF disk[b] = None THEN disk'[b] = {} ELSE disk'[b] \cap Restore = disk[b] \cap Restore
  <2>1. CASE OpenBranch(b)
    BY <2>1 DEF OpenBranch, TypeOK, faultVars
  <2>2. ASSUME NEW x \in Datum, WriteRow(b, x) PROVE <1>1
    BY <2>2, Ids DEF WriteRow, TypeOK, faultVars
  <2>3. QED
    BY <2>1, <2>2
<1>2. \A c \in Branch : c # b => disk'[c] = disk[c]
  BY <1>1 DEF TypeOK
<1>3. \A c \in Branch : /\ Whole(c) => Whole(c)'
                        /\ disk[c] # None => disk'[c] \cap Restore = disk[c] \cap Restore
  BY <1>1, <1>2 DEF Whole
<1>4. \A o \in Op : /\ Target(o)' = Target(o) /\ Touches(o)' = Touches(o)
                    /\ Open(o)' <=> Open(o)
                    /\ Undone(o)' <=> Undone(o)
  <2>1. \A o \in Op : Target(o)' = Target(o) /\ Touches(o)' = Touches(o)
    BY <1>1, TouchesKept
  <2>2. QED
    BY <1>1, <2>1 DEF Open, Running, Undone, Temporal!WorkflowOpen
<1>5. Fresh' /\ ReadyIsWhole'
  BY <1>1, <1>2, <1>3 DEF Fresh, ReadyIsWhole, Here
<1>6. Sole' /\ Alone' /\ NotReady'
  BY <1>1, <1>4 DEF Sole, Alone, Free, NotReady, Temporal!Current
<1>7. Linked'
  BY <1>1, <1>4 DEF Linked, Op
<1>8. Clean'
  <2>1. SUFFICES ASSUME NEW o \in Op, NEW k \in Attempt, Target(o) \notin disturbed, run[o][k] # "idle"
                 PROVE  /\ run[o][k] \in {"copy", "truncate", "create", "load", "commit"} => Whole(Target(o))'
                        /\ run[o][k] = "loading" => disk'[Target(o)] \cap Restore \subseteq {o}
    BY <1>1, <1>4 DEF Clean, At, Whole
  <2>2. Target(o) \in Branch
    BY <2>1, RunningIsAsked, AskedHasRows
  <2>3. run[o][k] \in {"copy", "truncate", "create", "load", "commit"} => Whole(Target(o))'
    <3>1. (Target(o) \in Branch /\ Whole(Target(o))) => disk'[Target(o)] = None \/ disk'[Target(o)] \cap Restore = {}
      BY <1>3 DEF Whole
    <3>2. Target(o)' = Target(o)
      BY <1>4
    <3>3. QED
      BY <2>1, <2>2, <3>1, <3>2 DEF Clean, Whole
  <2>4. run[o][k] = "loading" => disk'[Target(o)] \cap Restore \subseteq {o}
    <3>1. run[o][k] = "loading" => o \in Restore
      BY <2>1 DEF Op, Order
    <3>2. run[o][k] = "loading" => disk[Target(o)] # None /\ disk[Target(o)] \cap Restore \subseteq {o}
      BY <2>1, <3>1 DEF Loads, Clean, At
    <3>3. QED
      BY <1>3, <2>2, <3>2
  <2>5. QED
    BY <2>3, <2>4
<1>9. QED
  BY <1>5, <1>6, <1>7, <1>8

(* Nothing is disturbed at the start. *)
LEMMA CalmInit ==
  ASSUME Init
  PROVE  Calm
<1>1. \A o \in Op : api[o] = "idle" /\ wf[o] = "none" /\ \A k \in Attempt : run[o][k] = "idle"
  BY DEF Init, Temporal!RetryInit
<1>2. \A o \in Op : ~Open(o) /\ ~Undone(o)
  BY <1>1 DEF Open, Running, Undone, Resting, Temporal!WorkflowOpen
<1>3. \A b \in Branch : disk[b] = None
  BY DEF Init
<1>4. Sole /\ Clean
  BY <1>1 DEF Sole, Clean, At, Resting
<1>5. Alone /\ Linked /\ NotReady
  BY <1>2 DEF Alone, Linked, NotReady, Op
<1>6. QED
  BY <1>3, <1>4, <1>5 DEF Calm, Fresh, ReadyIsWhole, Whole

(* What is undisturbed stays in order over every step. *)
LEMMA CalmStep ==
  ASSUME Typed, Lineage, Calm, [Next]_vars
  PROVE  Calm'
<1>1. CASE \/ \E b \in Branch, d \in Backup : FinishBackup(d, b)
           \/ \E d \in Backup : LoseDestination(d)
           \/ UNCHANGED vars
  <2>1. UNCHANGED <<branch, restore, disk, api, wf, attempts, run, disturbed>>
    BY <1>1 DEF FinishBackup, LoseDestination, dbVars, vars
  <2>2. \A o \in Op : (Open(o)' <=> Open(o)) /\ (Undone(o)' <=> Undone(o))
    BY <2>1 DEF Open, Running, Undone, Temporal!WorkflowOpen
  <2>3. Sole'
    BY <2>1, TouchesKept DEF Calm, Sole, Free, Temporal!Current
  <2>4. QED
    BY <2>1, <2>2, <2>3, CalmQuiet
<1>2. QED
  BY <1>1, Steps, CalmRequest, CalmDispatch, CalmPickUp, CalmTimeOut, CalmStatement, CalmReport,
     CalmMark, CalmExpire, CalmWrite, CalmCrash

(* Lineage and order at the start. *)
LEMMA LineageInit ==
  ASSUME Init
  PROVE  Lineage
BY PrimaryAssumption DEF Init, Lineage, NewRow

-----------------------------------------------------------------------------
(***************************************************************************)
(* Restore jobs and what became of them.                                   *)
(***************************************************************************)
(* Jobs of which nothing changes agree as before. *)
LEMMA JobKept ==
  ASSUME JobsAgree, disturbed \subseteq disturbed', stranded \subseteq stranded',
         NEW r \in Restore, restore'[r] = restore[r],
         UNCHANGED <<wf[r], api[r], attempts[r]>>,
         \A k \in Attempt : run'[r][k] = run[r][k] \/ run'[r][k] \notin {"begin", "rethrow", "report"},
         Target(r)' \notin disturbed', restore'[r].status # "gone"
  PROVE  JobAgrees(r)'
<1>1. Target(r) \notin disturbed /\ restore[r].status # "gone"
  BY DEF Target
<1>2. JobAgrees(r)
  BY <1>1 DEF JobsAgree
<1>3. QED
  BY <1>2 DEF JobAgrees, At

LEMMA JobsStatement ==
  ASSUME Typed, Calm, JobsAgree, NEW o \in Op, NEW k \in Attempt, Statement(o, k)
  PROVE  JobsAgree'
<1> USE DEF Typed
<1>1. /\ UNCHANGED <<api, wf, attempts, disturbed>> /\ stranded \subseteq stranded'
      /\ \A r \in Restore : r # o => restore'[r] = restore[r]
      /\ \A r \in Restore : Target(r)' = Target(r)
      /\ run[o][k] \in Unmarked
      /\ run'[o][k] \in (Unmarked \ {"begin"}) \cup {"report", "rethrow"}
      /\ \A p \in Op, i \in Attempt : p # o \/ i # k =>
           run'[p][i] = run[p][i] \/ (run[p][i] = "loading" /\ run'[p][i] = "fail")
  BY StatementRows, StatementRun DEF OthersGoOn, At, RowsStay, Target
<1>2. SUFFICES ASSUME NEW r \in Restore, Target(r) \notin disturbed, restore'[r].status # "gone"
               PROVE  JobAgrees(r)'
  BY <1>1 DEF JobsAgree
<1>3. CASE r # o
  <2>1. r \in Op
    BY DEF Op
  <2>2. \A i \in Attempt : run'[r][i] = run[r][i] \/ run'[r][i] \notin {"begin", "rethrow", "report"}
    BY <1>1, <1>3, <2>1
  <2>3. QED
    BY <1>1, <1>2, <1>3, <2>2, JobKept
<1>4. CASE r = o
  <2>1. /\ Temporal!Current(o, k)
        /\ \A i \in Attempt : i # k => run[o][i] \in Resting
    BY <1>1, <1>2, <1>4, Apart DEF Calm, Unmarked, Resting
  <2>2. wf'[o] = "started" /\ api'[o] = "idle"
    BY <1>1, <1>4, <2>1 DEF Temporal!Current, Order, Unheard
  <2>3. \A i \in Attempt : i # k => run'[o][i] \in Resting
    BY <1>1, <2>1 DEF Resting
  <2>4. restore[o].status # "gone" /\ JobAgrees(o)
    <3>1. restore[o].status # "gone"
      BY <1>2, <1>4, StatementRows DEF RowsStay
    <3>2. QED
      BY <1>2, <1>4, <3>1 DEF JobsAgree
  <2>5. SUFFICES /\ run'[o][k] \in {"begin", "rethrow"} => o \in stranded' \/ restore'[o].status \in {"queued", "failed"}
                 /\ run'[o][k] = "rethrow" /\ k = MaxAttempts => o \in stranded' \/ restore'[o].status = "failed"
                 /\ run'[o][k] = "report" => restore'[o].status = "succeeded"
    BY <1>4, <2>2, <2>3 DEF JobAgrees, At, Resting
  <2>6. CASE StatementFails(o, k)
    <3>1. /\ UNCHANGED restore
          /\ stranded' = IF LosesMark(o, k) THEN stranded \cup {o} ELSE stranded
          /\ \/ run[o][k] \in {"begin", "fail"} /\ Goto(o, k, "rethrow")
             \/ Goto(o, k, "fail")
      BY <2>6 DEF StatementFails, dbVars
    <3>2. CASE Goto(o, k, "fail")
      BY <3>2, Moved DEF Step
    <3>3. CASE run[o][k] \in {"begin", "fail"} /\ Goto(o, k, "rethrow")
      <4>1. run'[o][k] = "rethrow"
        BY <3>3, Moved DEF Step
      <4>2. QED
        BY <1>4, <2>4, <3>1, <3>3, <4>1 DEF LosesMark, At, JobAgrees
    <3>4. QED
      BY <3>1, <3>2, <3>3
  <2>7. CASE CommitRestored(o, k)
    <3>1. SetRestore(o, "succeeded") /\ Goto(o, k, "report")
      BY <2>7 DEF CommitRestored
    <3>2. QED
      BY <1>4, <2>4, <3>1, Moved, JobMarked DEF Step
  <2>8. CASE MarkRestoreFailed(o, k)
    <3>1. SetRestore(o, "failed") /\ Goto(o, k, "rethrow")
      BY <2>8 DEF MarkRestoreFailed
    <3>2. QED
      BY <1>4, <2>4, <3>1, Moved, JobMarked DEF Step
  <2>9. CASE \/ MarkRestoring(o, k) \/ DropTarget(o, k) \/ CreateTarget(o, k) \/ RefuseRestore(o, k)
             \/ BeginLoad(o, k) \/ EndLoad(o, k) \/ LoadBreaks(o, k)
    <3>1. PICK pc \in {"reset", "create", "load", "loading", "commit", "fail"} :
            Goto(o, k, pc) \/ GotoKilling(o, k, pc, {Target(o)})
      BY <2>9 DEF MarkRestoring, DropTarget, CreateTarget, RefuseRestore, BeginLoad, EndLoad, LoadBreaks
    <3>2. run'[o][k] = pc
      BY <3>1, Moved, MovedKilling DEF Step
    <3>3. QED
      BY <3>2
  <2>10. ~CloneStep(o, k)
    <3>1. o \notin Branch
      BY <1>4, Ids
    <3>2. QED
      BY <3>1 DEF CloneStep, MarkCreating, ResetClone, CopyDatabase, CopyRefused, TruncateCopy,
                  MarkCloned, MarkCloneFailed
  <2>11. QED
    BY <2>6, <2>7, <2>8, <2>9, <2>10 DEF Statement, RestoreStep
<1>5. QED
  BY <1>3, <1>4

LEMMA JobsRequest ==
  ASSUME Typed, JobsAgree, Request
  PROVE  JobsAgree'
<1> USE DEF Typed
<1>0. disturbed \subseteq disturbed'
  BY EnterDisturbs DEF Request, CreateEmptyBranch, RequestClone, RequestRestore
<1>1. ASSUME NEW b \in Branch, NEW on \in BOOLEAN,
             \/ CreateEmptyBranch(b, on)
             \/ \E p \in Branch, m \in {"schema_only", "schema_and_data"} : RequestClone(b, p, m, on)
      PROVE  JobsAgree'
  <2>1. /\ UNCHANGED <<restore, wf, attempts, run, stranded>>
        /\ \A r \in Restore : api'[r] = api[r]
    BY <1>1, Ids DEF CreateEmptyBranch, RequestClone, faultVars, TypeOK, Op
  <2>2. QED
    BY <1>0, <2>1, JobKept DEF JobsAgree
<1>2. ASSUME NEW q \in Restore, NEW d \in Backup, NEW b \in Branch, RequestRestore(q, d, b)
      PROVE  JobsAgree'
  <2>1. /\ restore[q].status = "absent" /\ restore'[q].status = "queued"
        /\ \A r \in Restore \ {q} : restore'[r] = restore[r] /\ api'[r] = api[r]
        /\ UNCHANGED <<wf, attempts, run, stranded>> /\ q \in Op
    BY <1>2 DEF RequestRestore, TypeOK, Op, faultVars
  <2>2. ~Asked(q)
    BY <2>1 DEF Order
  <2>3. wf[q] = "none" /\ \A k \in Attempt : run[q][k] = "idle"
    BY <2>1, <2>2, RunningIsAsked DEF Asked
  <2>4. JobAgrees(q)'
    BY <2>1, <2>3 DEF JobAgrees, At
  <2>5. QED
    BY <1>0, <2>1, <2>4, JobKept DEF JobsAgree
<1>3. QED
  BY <1>1, <1>2 DEF Request

LEMMA JobsTemporal ==
  ASSUME Typed, Calm, JobsAgree, NEW o \in Op,
         \/ Dispatch(o) \/ PickUp(o) \/ TimeOut(o)
         \/ \E k \in Attempt : ReportResult(o, k) \/ Rethrow(o, k)
  PROVE  JobsAgree'
<1> USE AttemptAssumption DEF Typed
<1>1. UNCHANGED restore /\ disturbed \subseteq disturbed' /\ stranded \subseteq stranded'
  BY DEF Dispatch, DispatchAccepted, DispatchThrows, StartUnheard, PickUp, TimeOut, ReportResult, Rethrow, dbVars, faultVars
<1>2. \A p \in Op \ {o} : /\ api'[p] = api[p] /\ wf'[p] = wf[p] /\ attempts'[p] = attempts[p]
                          /\ \A i \in Attempt : run'[p][i] = run[p][i]
  BY Moved DEF Dispatch, DispatchAccepted, DispatchThrows, StartUnheard, PickUp, TimeOut, ReportResult, Rethrow,
         Temporal!Start, Temporal!Poll, Temporal!Expire, Temporal!Returns, Temporal!Throws,
         TypeOK, Temporal!RetryTypeOK, Goto
<1>3. SUFFICES ASSUME o \in Restore, Target(o) \notin disturbed', restore[o].status # "gone"
               PROVE  JobAgrees(o)'
  <2>1. \A r \in Restore : r \in Op /\ Target(r)' = Target(r)
    BY <1>1 DEF Op, Target
  <2>2. \A r \in Restore : r # o /\ Target(r) \notin disturbed' /\ restore[r].status # "gone" => JobAgrees(r)'
    BY <1>1, <1>2, <2>1, JobKept
  <2>3. QED
    BY <1>1, <1>3, <2>1, <2>2 DEF JobsAgree
<1>4. JobAgrees(o) /\ Target(o) \notin disturbed
  BY <1>1, <1>3 DEF JobsAgree
<1>5. CASE Dispatch(o)
  <2>1. /\ api[o] = "dispatch" /\ UNCHANGED run /\ api'[o] = "idle"
        /\ wf'[o] \in {wf[o], "scheduled"}
    BY <1>3, <1>5 DEF Dispatch, DispatchAccepted, DispatchThrows, StartUnheard, Temporal!Start, TypeOK, Temporal!RetryTypeOK
  <2>2. wf[o] = "none"
    BY <2>1 DEF Order, Unheard
  <2>3. QED
    BY <1>1, <1>4, <2>1, <2>2 DEF JobAgrees, At
<1>6. CASE PickUp(o)
  <2>1. /\ wf[o] = "scheduled" /\ wf'[o] = "started" /\ UNCHANGED <<api, stranded>>
        /\ attempts[o] + 1 \in Attempt
        /\ Goto(o, attempts[o] + 1, "begin")
    BY <1>6 DEF PickUp, Temporal!Poll, Order, TypeOK, Temporal!RetryTypeOK, faultVars, Attempt
  <2>2. \A i \in Attempt : run'[o][i] = "begin" \/ run'[o][i] = run[o][i]
    BY <2>1, Moved DEF Step
  <2>3. QED
    BY <1>1, <1>4, <2>1, <2>2 DEF JobAgrees, At
<1>7. CASE TimeOut(o)
  <2>1. /\ wf[o] = "started"
        /\ IF At(o, attempts[o], "over") THEN UNCHANGED disturbed
           ELSE disturbed' = disturbed \cup Touches(o)
    BY <1>7 DEF TimeOut, Temporal!Expire
  <2>2. Asked(o)
    BY <2>1 DEF Asked
  <2>3. Free(o) /\ Target(o) \in Touches(o)
    BY <1>4, <2>2, Undisturbed, AskedHasRows
  <2>4. run[o][attempts[o]] # "over"
    BY <2>1, <2>3 DEF Calm, Sole, Resting
  <2>5. QED
    BY <1>3, <2>1, <2>3, <2>4 DEF At
<1>8. ASSUME NEW k \in Attempt, ReportResult(o, k) \/ Rethrow(o, k) PROVE JobAgrees(o)'
  <2>1. /\ UNCHANGED <<api, attempts, stranded>>
        /\ Goto(o, k, "over") /\ run[o][k] \in {"report", "rethrow"}
        /\ IF Temporal!Current(o, k)
           THEN \/ run[o][k] = "report" /\ wf' = [wf EXCEPT ![o] = "completed"]
                \/ run[o][k] = "rethrow" /\ wf' = [wf EXCEPT ![o] = Temporal!RetryOrGiveUp(o)]
           ELSE wf' = wf
    BY <1>8 DEF ReportResult, Rethrow, Temporal!Returns, Temporal!Throws, At, faultVars
  <2>2. \A i \in Attempt : run'[o][i] = IF i = k THEN "over" ELSE run[o][i]
    BY <2>1, Moved DEF Step
  <2>3. Temporal!Current(o, k) /\ \A i \in Attempt : i # k => run[o][i] \in Resting
    BY <1>4, <2>1, Apart DEF Calm, Resting
  <2>4. attempts[o] = k /\ api[o] = "idle" /\ \A i \in Attempt : run'[o][i] \in Resting
    BY <1>3, <2>2, <2>3 DEF Temporal!Current, Order, Unheard, Resting
  <2>5. wf'[o] = IF run[o][k] = "report" THEN "completed"
                 ELSE IF k < MaxAttempts THEN "scheduled" ELSE "failed"
    BY <2>1, <2>3, <2>4 DEF TypeOK, Temporal!RetryTypeOK, Temporal!RetryOrGiveUp
  <2>6. ~(k < MaxAttempts) => k = MaxAttempts
    BY DEF Attempt
  <2>7. /\ run[o][k] = "report" => restore[o].status = "succeeded"
        /\ run[o][k] = "rethrow" => o \in stranded \/ restore[o].status \in {"queued", "failed"}
        /\ run[o][k] = "rethrow" /\ k = MaxAttempts => o \in stranded \/ restore[o].status = "failed"
    BY <1>4 DEF JobAgrees, At
  <2>8. QED
    BY <1>1, <2>1, <2>4, <2>5, <2>6, <2>7 DEF JobAgrees, At, Resting
<1>9. QED
  BY <1>5, <1>6, <1>7, <1>8

(* Restore jobs agree with their workflows after every step. *)
LEMMA JobsStep ==
  ASSUME Typed, Calm, JobsAgree, [Next]_vars
  PROVE  JobsAgree'
<1> USE DEF Typed
<1>1. CASE \/ \E b \in Branch : MarkNotDispatched(b) \/ OpenBranch(b)
           \/ \E b \in Branch, x \in Datum : WriteRow(b, x)
           \/ \E b \in Branch, d \in Backup : FinishBackup(d, b)
           \/ \E d \in Backup : LoseDestination(d)
           \/ UNCHANGED vars
  <2>1. UNCHANGED <<restore, wf, attempts, run, disturbed, stranded>>
    BY <1>1 DEF MarkNotDispatched, OpenBranch, WriteRow, FinishBackup, LoseDestination, dbVars, vars, faultVars
  <2>2. \A r \in Restore : api'[r] = api[r]
    BY <1>1, Ids DEF MarkNotDispatched, OpenBranch, WriteRow, FinishBackup, LoseDestination, vars, TypeOK, Op
  <2>3. QED
    BY <2>1, <2>2, JobKept DEF JobsAgree
<1>2. ASSUME NEW b \in Branch, ExpireBranch(b) PROVE JobsAgree'
  <2>1. /\ UNCHANGED <<api, wf, attempts, run, disturbed, stranded>>
        /\ \A r \in Restore : restore'[r].status # "gone" => restore'[r] = restore[r]
    BY <1>2 DEF ExpireBranch, faultVars, TypeOK, RestoreRow
  <2>2. QED
    BY <2>1, JobKept DEF JobsAgree
<1>3. CASE ApiCrash \/ WorkerCrash
  <2>1. /\ UNCHANGED <<restore, wf, attempts>> /\ disturbed \subseteq disturbed' /\ stranded \subseteq stranded'
        /\ \A r \in Restore : api'[r] \in {api[r], "idle"}
        /\ \A r \in Restore, k \in Attempt : run'[r][k] = run[r][k] \/ run'[r][k] = "over"
    BY <1>3 DEF ApiCrash, WorkerCrash, dbVars, Op, At
  <2>2. SUFFICES ASSUME NEW r \in Restore, Target(r) \notin disturbed, restore[r].status # "gone"
                 PROVE  JobAgrees(r)'
    BY <2>1 DEF JobsAgree, Target
  <2>3. JobAgrees(r)
    BY <2>2 DEF JobsAgree
  <2>4. QED
    BY <2>1, <2>3 DEF JobAgrees, At
<1>4. QED
  BY <1>1, <1>2, <1>3, Steps, JobsRequest, JobsTemporal, JobsStatement

-----------------------------------------------------------------------------
(***************************************************************************)
(* What a step may never do to a ready branch, and the refinement.         *)
(***************************************************************************)
(* A statement marks rows or works on a database, never both. *)
LEMMA StatementMarksOrWorks ==
  ASSUME NEW o \in Op, NEW k \in Attempt, Statement(o, k)
  PROVE  UNCHANGED branch \/ UNCHANGED disk
BY DEF Statement, StatementFails, CloneStep, MarkCreating, ResetClone, CopyDatabase, CopyRefused,
       TruncateCopy, MarkCloned, MarkCloneFailed, RestoreStep, MarkRestoring, DropTarget,
       CreateTarget, RefuseRestore, BeginLoad, EndLoad, LoadBreaks, CommitRestored,
       MarkRestoreFailed, dbVars

(* An undisturbed branch a statement works on is there or gone, not ready. *)
LEMMA StatementFinds ==
  ASSUME Typed, Calm, NEW o \in Op, NEW k \in Attempt, Statement(o, k)
  PROVE  /\ Target(o) \in Branch
         /\ Target(o) \notin disturbed => branch[Target(o)].status \in {"creating", "failed", "gone"}
<1>1. Undone(o)
  BY StatementRun DEF Undone, Unmarked, Resting
<1>2. Target(o) \in Branch /\ branch[Target(o)].status # "absent"
  BY <1>1, UndoneIsOpen, OpenIsAsked, AskedHasRows
<1>3. branch[Target(o)].status \in {"absent", "creating", "ready", "failed", "gone"}
  BY <1>2 DEF Typed, TypeOK, BranchRow
<1>4. QED
  BY <1>1, <1>2, <1>3 DEF Calm, NotReady

(* No step takes rows from an undisturbed branch that stays ready. *)
LEMMA KeptStep ==
  ASSUME Typed, Calm, [Next]_vars
  PROVE  KeepsReadyData
<1> USE DEF Typed
<1>1. CASE UNCHANGED disk
  BY <1>1 DEF KeepsReadyData
<1>2. ASSUME NEW o \in Op, NEW k \in Attempt, Statement(o, k) PROVE KeepsReadyData
  <2>1. /\ UNCHANGED disturbed
        /\ \A b \in Branch : b # Target(o) => disk'[b] = disk[b]
    BY <1>2, StatementRows, StatementDisk
  <2>2. Target(o) \notin disturbed => branch[Target(o)].status # "ready"
    BY <1>2, StatementFinds
  <2>3. QED
    BY <2>1, <2>2 DEF KeepsReadyData
<1>3. ASSUME NEW b \in Branch, OpenBranch(b) \/ \E x \in Datum : WriteRow(b, x) PROVE KeepsReadyData
  <2>1. CASE OpenBranch(b)
    BY <2>1 DEF OpenBranch, KeepsReadyData, TypeOK
  <2>2. ASSUME NEW x \in Datum, WriteRow(b, x) PROVE KeepsReadyData
    <3>1. disk' = [disk EXCEPT ![b] = disk[b] \cup {x}] /\ disk[b] # None
      BY <2>2 DEF WriteRow
    <3>2. disk'[b] # None /\ disk[b] \subseteq disk'[b]
      <4>1. disk[b] \cup {x} \in Content
        BY <3>1 DEF TypeOK, Content
      <4>2. QED
        BY <3>1, <4>1, Ids DEF TypeOK
    <3>3. QED
      BY <3>1, <3>2 DEF KeepsReadyData, TypeOK
  <2>3. QED
    BY <1>3, <2>1, <2>2
<1>4. CASE Request
  BY <1>1, <1>4 DEF Request, CreateEmptyBranch, RequestClone, RequestRestore
<1>5. CASE \/ \E o \in Op : Dispatch(o) \/ PickUp(o) \/ TimeOut(o)
           \/ \E o \in Op, k \in Attempt : ReportResult(o, k) \/ Rethrow(o, k)
  BY <1>1, <1>5 DEF Dispatch, DispatchAccepted, DispatchThrows, StartUnheard, PickUp, TimeOut, ReportResult,
                    Rethrow, dbVars
<1>6. CASE \/ \E b \in Branch : MarkNotDispatched(b) \/ ExpireBranch(b)
           \/ \E b \in Branch, d \in Backup : FinishBackup(d, b)
           \/ \E d \in Backup : LoseDestination(d)
           \/ ApiCrash \/ WorkerCrash \/ UNCHANGED vars
  BY <1>1, <1>6 DEF MarkNotDispatched, ExpireBranch, FinishBackup, LoseDestination, ApiCrash,
                    WorkerCrash, dbVars, vars
<1>7. QED
  BY <1>2, <1>3, <1>4, <1>5, <1>6, Steps

(* The map of whole databases, as the databases change. *)
LEMMA WholeKept ==
  ASSUME \A b \in Branch : Whole(b)' <=> Whole(b)
  PROVE  wholeOf' = wholeOf
<1>1. \A b \in Branch : Whole(b)' = Whole(b)
  BY DEF Whole
<1>2. QED
  BY <1>1, Zenon DEF wholeOf

(* How the wholeness of a branch may change in one step. *)
LEMMA WholeMoved ==
  ASSUME NEW b \in Branch, \A c \in Branch : c # b => (Whole(c)' <=> Whole(c))
  PROVE  \E w \in BOOLEAN : wholeOf' = [wholeOf EXCEPT ![b] = w]
<1>1. \A c \in Branch : c # b => Whole(c)' = Whole(c)
  BY DEF Whole
<1>2. \A c \in Branch : Whole(c)' = IF c = b THEN Whole(b)' ELSE wholeOf[c]
  BY <1>1, Zenon DEF wholeOf
<1>3. Whole(b)' \in BOOLEAN
  BY Zenon DEF Whole
<1>4. [wholeOf EXCEPT ![b] = Whole(b)'] = [c \in Branch |-> IF c = b THEN Whole(b)' ELSE wholeOf[c]]
  BY Zenon DEF wholeOf
<1>5. QED
  BY <1>2, <1>3, <1>4, Zenon DEF wholeOf

(* Steps that only disturb. *)
LEMMA Disturbs ==
  ASSUME disturbed \subseteq disturbed',
         \A b \in Branch \ disturbed' : branch'[b].status = branch[b].status,
         \A b \in Branch : Whole(b)' <=> Whole(b)
  PROVE  Promise!ServiceNext
<1>1. wholeOf' = wholeOf
  BY WholeKept
<1>2. statusOf' = [b \in Branch |-> IF statusOf'[b] = "disturbed" THEN "disturbed" ELSE statusOf[b]]
  BY DEF statusOf
<1>3. Promise!Disturb
  BY <1>1, <1>2 DEF Promise!Disturb
<1>4. QED
  BY <1>3 DEF Promise!ServiceNext

(* Steps that move one undisturbed branch. *)
LEMMA Moves ==
  ASSUME NEW b \in Branch, UNCHANGED disturbed, b \notin disturbed,
         \A c \in Branch : c # b => branch'[c].status = branch[c].status,
         \A c \in Branch : Whole(c)' <=> Whole(c),
         \/ branch[b].status = "absent" /\ branch'[b].status \in {"creating", "ready"}
         \/ branch[b].status \in {"ready", "failed", "creating"} /\ branch'[b].status \in {"creating", "gone"}
         \/ branch[b].status \in {"creating", "failed"} /\ branch'[b].status = "failed"
         \/ Whole(b) /\ branch[b].status \in {"creating", "failed"} /\ branch'[b].status = "ready"
  PROVE  Promise!ServiceNext
<1>1. wholeOf' = wholeOf
  BY WholeKept
<1>2. statusOf[b] = branch[b].status /\ statusOf' = [statusOf EXCEPT ![b] = branch'[b].status]
  BY DEF statusOf
<1>3. Whole(b) => wholeOf[b]
  BY DEF wholeOf
<1>4. \/ Promise!Create(b) \/ Promise!Begin(b) \/ Promise!Expire(b)
      \/ Promise!Fail(b) \/ Promise!Complete(b)
  BY <1>1, <1>2, <1>3 DEF Promise!Create, Promise!Begin, Promise!Expire, Promise!Fail,
                          Promise!Complete, Promise!Move
<1>5. QED
  BY <1>4 DEF Promise!ServiceNext

(* Statements that work on one database. *)
LEMMA Reworks ==
  ASSUME NEW b \in Branch, UNCHANGED disturbed,
         b \in disturbed \/ branch[b].status \in {"creating", "failed", "gone"},
         b \in disturbed \/ branch'[b].status = branch[b].status,
         \A c \in Branch : c # b => branch'[c].status = branch[c].status /\ (Whole(c)' <=> Whole(c))
  PROVE  Promise!ServiceNext
<1>1. statusOf' = statusOf /\ statusOf[b] \in {"creating", "failed", "gone", "disturbed"}
  BY DEF statusOf
<1>2. PICK w \in BOOLEAN : wholeOf' = [wholeOf EXCEPT ![b] = w]
  BY WholeMoved
<1>3. Promise!Rework(b)
  BY <1>1, <1>2 DEF Promise!Rework
<1>4. QED
  BY <1>3 DEF Promise!ServiceNext

LEMMA PromiseRequest ==
  ASSUME Typed, Request
  PROVE  Promise!ServiceNext
<1> USE DEF Typed
<1>1. ASSUME NEW b \in Branch, NEW B \in SUBSET Branch, b \in B, Enter(B), UNCHANGED disk,
             \A c \in Branch : c # b => branch'[c] = branch[c],
             \/ branch[b].status = "absent"
             \/ branch[b].status \in {"ready", "failed", "creating"},
             branch'[b].status = "creating"
      PROVE  Promise!ServiceNext
  <2>1. \A c \in Branch : Whole(c)' <=> Whole(c)
    BY <1>1 DEF Whole
  <2>2. CASE b \in disturbed'
    BY <1>1, <2>1, <2>2, EnterDisturbs, Disturbs
  <2>3. CASE b \notin disturbed'
    <3>1. disturbed' = disturbed
      BY <1>1, <2>3 DEF Enter
    <3>2. QED
      BY <1>1, <2>1, <2>3, <3>1, Moves
  <2>4. QED
    BY <2>2, <2>3
<1>2. ASSUME NEW b \in Branch, NEW on \in BOOLEAN, CreateEmptyBranch(b, on) PROVE Promise!ServiceNext
  <2>1. /\ branch[b].status = "absent" /\ branch'[b].status = "ready"
        /\ \A c \in Branch : c # b => branch'[c] = branch[c]
        /\ UNCHANGED <<disk, disturbed>>
    BY <1>2 DEF CreateEmptyBranch, TypeOK, NewRow
  <2>2. \A c \in Branch : Whole(c)' <=> Whole(c)
    BY <2>1 DEF Whole
  <2>3. CASE b \in disturbed
    BY <2>1, <2>2, <2>3, Disturbs
  <2>4. CASE b \notin disturbed
    BY <2>1, <2>2, <2>4, Moves
  <2>5. QED
    BY <2>3, <2>4
<1>3. ASSUME NEW b \in Branch, NEW on \in BOOLEAN, NEW p \in Branch,
             NEW m \in {"schema_only", "schema_and_data"}, RequestClone(b, p, m, on)
      PROVE  Promise!ServiceNext
  <2>1. /\ branch[b].status = "absent" /\ branch'[b].status = "creating" /\ Enter({b, p})
        /\ \A c \in Branch : c # b => branch'[c] = branch[c]
        /\ UNCHANGED disk
    BY <1>3 DEF RequestClone, TypeOK, NewRow
  <2>2. {b, p} \in SUBSET Branch /\ b \in {b, p}
    OBVIOUS
  <2>3. QED
    BY <1>1, <2>1, <2>2
<1>4. ASSUME NEW r \in Restore, NEW d \in Backup, NEW b \in Branch, RequestRestore(r, d, b)
      PROVE  Promise!ServiceNext
  <2>1. /\ branch[b].status # "gone" /\ branch'[b].status = "creating" /\ Enter({b})
        /\ \A c \in Branch : c # b => branch'[c] = branch[c]
        /\ UNCHANGED disk
    BY <1>4 DEF RequestRestore, TypeOK, BranchRow, NewRow
  <2>2. branch[b].status \in {"absent", "creating", "ready", "failed", "gone"}
    BY DEF TypeOK, BranchRow
  <2>3. {b} \in SUBSET Branch /\ b \in {b}
    OBVIOUS
  <2>4. QED
    BY <1>1, <2>1, <2>2, <2>3
<1>5. QED
  BY <1>2, <1>3, <1>4 DEF Request

LEMMA PromiseStatement ==
  ASSUME Typed, Calm, NEW o \in Op, NEW k \in Attempt, Statement(o, k)
  PROVE  Promise!ServiceNext
<1> USE DEF Typed
<1>1. /\ UNCHANGED disturbed
      /\ \A c \in Branch : c # Target(o) =>
           branch'[c].status = branch[c].status /\ (Whole(c)' <=> Whole(c))
  BY StatementRows, StatementDisk DEF Whole
<1>2. /\ Target(o) \in Branch
      /\ Target(o) \notin disturbed => branch[Target(o)].status \in {"creating", "failed", "gone"}
  BY StatementFinds
<1>3. CASE Target(o) \in disturbed \/ branch'[Target(o)].status = branch[Target(o)].status
  <2>1. PICK b \in Branch : b = Target(o)
    BY <1>2
  <2>2. b \in disturbed \/ branch[b].status \in {"creating", "failed", "gone"}
    BY <1>2, <2>1
  <2>3. b \in disturbed \/ branch'[b].status = branch[b].status
    BY <1>3, <2>1
  <2>4. \A c \in Branch : c # b => branch'[c].status = branch[c].status /\ (Whole(c)' <=> Whole(c))
    BY <1>1, <2>1
  <2>5. QED
    BY <1>1, <2>2, <2>3, <2>4, Reworks
<1>4. CASE Target(o) \notin disturbed /\ branch'[Target(o)].status # branch[Target(o)].status
  <2>1. PICK b \in Branch : b = Target(o)
    BY <1>2
  <2>2. UNCHANGED disk
    BY <1>4, StatementMarksOrWorks
  <2>3. \A c \in Branch : Whole(c)' <=> Whole(c)
    BY <2>2 DEF Whole
  <2>4. /\ branch[b].status \in {"creating", "failed"}
        /\ branch'[b].status \in {"creating", "ready", "failed"}
    <3>1. branch[b].status \in {"creating", "failed", "gone"}
      BY <1>2, <1>4, <2>1
    <3>2. /\ branch'[b].status \in {"absent", "creating", "ready", "failed", "gone"}
          /\ branch'[b].status = "absent" <=> branch[b].status = "absent"
          /\ branch'[b].status \in {"absent", "gone"} <=> branch[b].status \in {"absent", "gone"}
      BY StatementRows DEF RowsStay, Here, BranchRow
    <3>3. QED
      BY <1>4, <2>1, <3>1, <3>2
  <2>5. branch'[b].status = "ready" => Whole(b)
    <3>1. branch'[b].status = "ready" => disk'[b] = None \/ disk'[b] \cap Restore = {}
      BY <1>4, <2>1, StatementHandsOver, StatementRows DEF Whole, RowsStay, Target
    <3>2. QED
      BY <2>2, <3>1 DEF Whole
  <2>6. QED
    BY <1>1, <1>4, <2>1, <2>3, <2>4, <2>5, Moves
<1>5. QED
  BY <1>3, <1>4

(* Every step is one of the service, or a stutter. *)
LEMMA PromiseStep ==
  ASSUME Typed, Calm, [Next]_vars
  PROVE  Promise!ServiceNext
<1> USE DEF Typed
<1>1. ASSUME UNCHANGED <<branch, disk>>, disturbed \subseteq disturbed' PROVE Promise!ServiceNext
  BY <1>1, Disturbs DEF Whole
<1>2. ASSUME NEW b \in Branch, MarkNotDispatched(b) PROVE Promise!ServiceNext
  <2>1. SetBranch(b, "failed") /\ UNCHANGED <<disk, disturbed>> /\ api[b] = "mark"
    BY <1>2 DEF MarkNotDispatched
  <2>2. /\ \A c \in Branch : c # b => branch'[c] = branch[c]
        /\ branch'[b].status = IF Here(b) THEN "failed" ELSE branch[b].status
    BY <2>1, Marked
  <2>3. \A c \in Branch : Whole(c)' <=> Whole(c)
    BY <2>1 DEF Whole
  <2>4. CASE b \in disturbed \/ ~Here(b)
    BY <2>1, <2>2, <2>3, <2>4, Disturbs
  <2>5. CASE b \notin disturbed /\ Here(b)
    <3>1. Undone(b) /\ b \in Op /\ Target(b) = b
      BY <2>1, Ids DEF Undone, Op, Target
    <3>2. branch[b].status # "ready"
      BY <2>5, <3>1 DEF Calm, NotReady
    <3>3. branch[b].status \in {"creating", "failed"}
      BY <2>5, <3>2 DEF Here, TypeOK, BranchRow
    <3>4. QED
      BY <2>1, <2>2, <2>3, <2>5, <3>3, Moves
  <2>6. QED
    BY <2>4, <2>5
<1>3. ASSUME NEW b \in Branch, ExpireBranch(b) PROVE Promise!ServiceNext
  <2>1. /\ branch'[b].status = "gone" /\ \A c \in Branch : c # b => branch'[c] = branch[c]
        /\ branch[b].status \in {"creating", "ready", "failed"}
        /\ UNCHANGED <<disk, disturbed>>
    BY <1>3 DEF ExpireBranch, Here, TypeOK, BranchRow
  <2>2. \A c \in Branch : Whole(c)' <=> Whole(c)
    BY <2>1 DEF Whole
  <2>3. CASE b \in disturbed
    BY <2>1, <2>2, <2>3, Disturbs
  <2>4. CASE b \notin disturbed
    BY <2>1, <2>2, <2>4, Moves
  <2>5. QED
    BY <2>3, <2>4
<1>4. ASSUME NEW b \in Branch, OpenBranch(b) \/ \E x \in Datum : WriteRow(b, x)
      PROVE  Promise!ServiceNext
  <2>1. UNCHANGED <<branch, disturbed>> /\ \A c \in Branch : c # b => disk'[c] = disk[c]
    BY <1>4 DEF OpenBranch, WriteRow, TypeOK
  <2>2. Whole(b)' <=> Whole(b)
    <3>1. CASE OpenBranch(b)
      BY <3>1 DEF OpenBranch, Whole, TypeOK
    <3>2. ASSUME NEW x \in Datum, WriteRow(b, x) PROVE <2>2
      <4>1. disk[b] \cup {x} \in Content /\ disk' = [disk EXCEPT ![b] = @ \cup {x}] /\ disk[b] # None
        BY <3>2 DEF WriteRow, TypeOK, Content
      <4>2. disk[b] \cup {x} # None /\ disk'[b] = disk[b] \cup {x}
        BY <4>1, Ids DEF TypeOK
      <4>3. (disk[b] \cup {x}) \cap Restore = disk[b] \cap Restore
        BY Ids
      <4>4. QED
        BY <4>1, <4>2, <4>3 DEF Whole
    <3>3. QED
      BY <1>4, <3>1, <3>2
  <2>3. \A c \in Branch : Whole(c)' <=> Whole(c)
    BY <2>1, <2>2 DEF Whole
  <2>4. QED
    BY <2>1, <2>3, Disturbs
<1>5. CASE \/ \E o \in Op : Dispatch(o) \/ PickUp(o) \/ TimeOut(o)
           \/ \E o \in Op, k \in Attempt : ReportResult(o, k) \/ Rethrow(o, k)
  BY <1>1, <1>5 DEF Dispatch, DispatchAccepted, DispatchThrows, StartUnheard, PickUp, TimeOut, ReportResult,
                    Rethrow, dbVars
<1>6. CASE \/ \E b \in Branch, d \in Backup : FinishBackup(d, b)
           \/ \E d \in Backup : LoseDestination(d)
           \/ ApiCrash \/ WorkerCrash \/ UNCHANGED vars
  BY <1>1, <1>6 DEF FinishBackup, LoseDestination, ApiCrash, WorkerCrash, dbVars, vars
<1>7. QED
  BY <1>2, <1>3, <1>4, <1>5, <1>6, Steps, PromiseRequest, PromiseStatement

(* The service starts as its branches do. *)
LEMMA PromiseInit ==
  ASSUME Init
  PROVE  Promise!ServiceInit
<1>1. /\ \A b \in Branch : branch[b].status \in {"absent", "ready"} /\ disk[b] = None
      /\ disturbed = {}
  BY DEF Init, NewRow
<1>2. statusOf \in [Branch -> {"absent", "ready"}]
  BY <1>1 DEF statusOf
<1>3. wholeOf = [b \in Branch |-> TRUE]
  <2>1. \A b \in Branch : Whole(b) = TRUE
    BY <1>1 DEF Whole
  <2>2. QED
    BY <2>1, Zenon DEF wholeOf
<1>4. QED
  BY <1>2, <1>3 DEF Promise!ServiceInit

-----------------------------------------------------------------------------
(***************************************************************************)
(* The theorems.                                                           *)
(***************************************************************************)
LEMMA IInvInit ==
  ASSUME Init
  PROVE  IInv
<1>1. Watched
  BY DEF Init, Watched, NewRow
<1>2. JobsAgree
  BY DEF Init, JobsAgree, JobAgrees, Temporal!RetryInit, Op, At
<1>3. QED
  BY <1>1, <1>2, TypedInit, LineageInit, CalmInit DEF IInv

(* The parts are inductive together. *)
LEMMA IInvStep ==
  ASSUME IInv, [Next]_vars
  PROVE  IInv'
BY TypedStep, LineageStep, WatchedStep, CalmStep, JobsStep DEF IInv

(* IInv is inductive: what each of its parts needs of the others is in the *)
(* hypotheses of its step lemma.                                           *)
THEOREM IInvHolds == Spec => []IInv
BY IInvInit, IInvStep, PTL DEF Spec

(* Every variable keeps its type, whatever crashes, repeats or overlaps. *)
THEOREM TypeCorrect == Spec => []TypeOK
<1>1. IInv => TypeOK
  BY DEF IInv, Typed
<1>2. QED
  BY <1>1, IInvHolds, PTL

(* The parent of a branch is never deleted under it: nothing that expires  *)
(* becomes a parent, and nothing makes a parent expire.                    *)
THEOREM ParentsStay == Spec => []ParentStays
<1>1. IInv => ParentStays
  BY DEF IInv, Lineage, ParentStays
<1>2. QED
  BY <1>1, IInvHolds, PTL

(* A branch says creating only while something is under way that will take *)
(* it out of it, or after a dispatch or a mark was lost.                   *)
THEOREM CreatingEnds == Spec => []CreatingIsUnderWay
<1>1. IInv => CreatingIsUnderWay
  <2>1. \A o \in Op, k \in Attempt : WillMark(o, k) => Running(o)
    BY DEF WillMark, Running, At, Unmarked
  <2>2. \A o \in Op : Pending(o) => Open(o)
    BY <2>1 DEF Pending, Open, Temporal!WorkflowOpen
  <2>3. QED
    BY <2>2 DEF IInv, Watched, CreatingIsUnderWay
<1>2. QED
  BY <1>1, IInvHolds, PTL

(* A ready branch never holds half a restore, unless two operations met on *)
(* it or an attempt was repeated after a crash or a timeout.               *)
THEOREM ReadyStaysWhole == Spec => []ReadyIsWhole
<1>1. IInv => ReadyIsWhole
  BY DEF IInv, Calm
<1>2. QED
  BY <1>1, IInvHolds, PTL

(* A restore job says what its workflow came to: succeeded when it         *)
(* completed, failed when it failed and no mark was lost, as long as       *)
(* nothing disturbed its branch.                                           *)
THEOREM JobsAgreeWithWorkflows == Spec => []RestoreOutcome
<1>1. IInv => RestoreOutcome
  BY DEF IInv, JobsAgree, JobAgrees, RestoreOutcome
<1>2. QED
  BY <1>1, IInvHolds, PTL

(* No step takes data from a branch that stays ready, unless the branch is *)
(* disturbed.                                                              *)
THEOREM ReadyDataIsKept == Spec => ReadyKeepsData
<1>1. IInv /\ [Next]_vars => [KeepsReadyData]_vars
  BY KeptStep DEF IInv
<1>2. QED
  BY <1>1, IInvHolds, PTL DEF Spec, ReadyKeepsData

(* BranchLifecycle implements BranchService: every step of the rows, the   *)
(* databases, Temporal and the attempts is one of its steps.               *)
THEOREM ImplementsService == Spec => BranchesFollowService
<1>1. Init => Promise!ServiceInit
  BY PromiseInit
<1>2. IInv /\ [Next]_vars => [Promise!ServiceNext]_(Promise!serviceVars)
  BY PromiseStep DEF IInv
<1>3. QED
  BY <1>1, <1>2, IInvHolds, PTL DEF Spec, BranchesFollowService, Promise!Service
-----------------------------------------------------------------------------
(***************************************************************************)
(* The pages of a branch, beside BranchLifecycle in MCBranches.            *)
(***************************************************************************)
TablePage ==
  INSTANCE TablesStudioProofs WITH
    Table <- {t1, t2}, First <- t1, Key <- {k1, k2},
    MaxLoads <- 3, MaxWrites <- 2, MaxSchemas <- 1,
    shown <- table

ConnectPage ==
  INSTANCE BranchConsoleProofs WITH
    Branch <- {b1, b2}, First <- b1, MaxPatches <- 1, MaxLoads <- 2, MaxRuns <- 0,
    loads <- links, loaded <- linked

RunnerPage ==
  INSTANCE BranchConsoleProofs WITH
    Branch <- {b1, b2}, First <- b1, MaxPatches <- 0, MaxLoads <- 0, MaxRuns <- 2,
    loads <- links, loaded <- linked

(* The pages of MCBranches are those the proofs of the pages speak of.     *)
LEMMA SameTables ==
  /\ Tables!Init <=> TablePage!Init
  /\ [Tables!Next]_(Tables!vars) <=> [TablePage!Next]_(TablePage!vars)
  /\ Tables!WritesHitTheirRows <=> TablePage!WritesHitTheirRows
BY DEF Tables!counters, Tables!vars, Tables!Lists, Tables!Place, Tables!Writer,
       Tables!Mark, Tables!Statement, Tables!Idle, Tables!Init,
       Tables!Requested, Tables!Load, Tables!SelectTable, Tables!Reload,
       Tables!SchemaChanges, Tables!DeliverLoad, Tables!LoadFails,
       Tables!OnScreen, Tables!Here, Tables!Elsewhere, Tables!Type,
       Tables!Discard, Tables!Pick, Tables!Send, Tables!Sql,
       Tables!SaveDrafts, Tables!Selected, Tables!DeleteSelected,
       Tables!AddRecord, Tables!WriteFails, Tables!Written, Tables!Next,
       Tables!OfItsRow, Tables!WritesHitTheirRows, Tables!Over, Tables!Cardinality,
       Tables!IsInjective, TablePage!counters, TablePage!vars,
       TablePage!Lists, TablePage!Place, TablePage!Writer, TablePage!Mark,
       TablePage!Statement, TablePage!Idle, TablePage!Init,
       TablePage!Requested, TablePage!Load, TablePage!SelectTable,
       TablePage!Reload, TablePage!SchemaChanges, TablePage!DeliverLoad,
       TablePage!LoadFails, TablePage!OnScreen, TablePage!Here,
       TablePage!Elsewhere, TablePage!Type, TablePage!Discard, TablePage!Pick,
       TablePage!Send, TablePage!Sql, TablePage!SaveDrafts,
       TablePage!Selected, TablePage!DeleteSelected, TablePage!AddRecord,
       TablePage!WriteFails, TablePage!Written, TablePage!Next,
       TablePage!OfItsRow, TablePage!WritesHitTheirRows, TablePage!Over, TablePage!Cardinality,
       TablePage!IsInjective

(* The instance of MCBranches is the console of its proofs: the dialog. *)
LEMMA SameConnect ==
  /\ Connect!Init <=> ConnectPage!Init
  /\ [Connect!Next]_(Connect!vars) <=> [ConnectPage!Next]_(ConnectPage!vars)
  /\ Connect!ShownIsAsked <=> ConnectPage!ShownIsAsked
BY DEF Connect!counters, Connect!dialog, Connect!runner, Connect!vars, Connect!View,
       Connect!Maybe, Connect!Version, Connect!Connection, Connect!Load,
       Connect!Run, Connect!Init, Connect!SelectBranch, Connect!Unmounted,
       Connect!SelectView, Connect!SaveSettings, Connect!PatchArrives,
       Connect!PatchReturns, Connect!PatchFails, Connect!ChooseBranch,
       Connect!LoadConnection, Connect!ReadConnection,
       Connect!DeliverConnection, Connect!ConnectionFails,
       Connect!ToggleReadOnly, Connect!ConfirmWrites, Connect!RunQuery,
       Connect!RunEnds, Connect!Next, Connect!ShownIsAsked,
       ConnectPage!counters, ConnectPage!dialog, ConnectPage!runner,
       ConnectPage!vars, ConnectPage!View, ConnectPage!Maybe,
       ConnectPage!Version, ConnectPage!Connection, ConnectPage!Load,
       ConnectPage!Run, ConnectPage!Init, ConnectPage!SelectBranch,
       ConnectPage!Unmounted, ConnectPage!SelectView,
       ConnectPage!SaveSettings, ConnectPage!PatchArrives,
       ConnectPage!PatchReturns, ConnectPage!PatchFails,
       ConnectPage!ChooseBranch, ConnectPage!LoadConnection,
       ConnectPage!ReadConnection, ConnectPage!DeliverConnection,
       ConnectPage!ConnectionFails, ConnectPage!ToggleReadOnly,
       ConnectPage!ConfirmWrites, ConnectPage!RunQuery, ConnectPage!RunEnds,
       ConnectPage!Next, ConnectPage!ShownIsAsked

(* The instance of MCBranches is the console of its proofs: the SQL runner. *)
LEMMA SameRunner ==
  /\ Runner!Init <=> RunnerPage!Init
  /\ [Runner!Next]_(Runner!vars) <=> [RunnerPage!Next]_(RunnerPage!vars)
  /\ Runner!ShownIsAsked <=> RunnerPage!ShownIsAsked
BY DEF Runner!counters, Runner!dialog, Runner!runner, Runner!vars, Runner!View,
       Runner!Maybe, Runner!Version, Runner!Connection, Runner!Load,
       Runner!Run, Runner!Init, Runner!SelectBranch, Runner!Unmounted,
       Runner!SelectView, Runner!SaveSettings, Runner!PatchArrives,
       Runner!PatchReturns, Runner!PatchFails, Runner!ChooseBranch,
       Runner!LoadConnection, Runner!ReadConnection, Runner!DeliverConnection,
       Runner!ConnectionFails, Runner!ToggleReadOnly, Runner!ConfirmWrites,
       Runner!RunQuery, Runner!RunEnds, Runner!Next, Runner!ShownIsAsked,
       RunnerPage!counters, RunnerPage!dialog, RunnerPage!runner,
       RunnerPage!vars, RunnerPage!View, RunnerPage!Maybe, RunnerPage!Version,
       RunnerPage!Connection, RunnerPage!Load, RunnerPage!Run,
       RunnerPage!Init, RunnerPage!SelectBranch, RunnerPage!Unmounted,
       RunnerPage!SelectView, RunnerPage!SaveSettings,
       RunnerPage!PatchArrives, RunnerPage!PatchReturns,
       RunnerPage!PatchFails, RunnerPage!ChooseBranch,
       RunnerPage!LoadConnection, RunnerPage!ReadConnection,
       RunnerPage!DeliverConnection, RunnerPage!ConnectionFails,
       RunnerPage!ToggleReadOnly, RunnerPage!ConfirmWrites,
       RunnerPage!RunQuery, RunnerPage!RunEnds, RunnerPage!Next,
       RunnerPage!ShownIsAsked

(* A step of MCBranches is one of a component, and the others stutter; in  *)
(* the first state nothing is asked on either page of a branch.            *)
LEMMA Components ==
  /\ MCInit => Init /\ Tables!Init /\ Connect!Init
  /\ [MCNext]_mcVars => [Next]_vars /\ [Tables!Next]_(Tables!vars) /\ UNCHANGED active
<1>1. MCInit => Init /\ Tables!Init /\ Connect!Init
  BY DEF MCInit
<1>2. [MCNext]_mcVars => [Next]_vars
  BY DEF MCNext, mcVars
<1>3. [MCNext]_mcVars => [Tables!Next]_(Tables!vars)
  BY DEF MCNext, mcVars, pageVars, tableVars, Tables!vars, Tables!counters
<1>4. [MCNext]_mcVars => UNCHANGED active
  BY DEF MCNext, mcVars
<1>5. QED
  BY <1>1, <1>2, <1>3, <1>4

(* What MCBranches lets BranchLifecycle do in any turn is what it does.    *)
COROLLARY TurnsAreBehaviours == MCSpec => Spec
BY Components, PTL DEF MCSpec, Spec

(* WritesReachTheirRows of TablesStudioProofs, beside the other components. *)
THEOREM WritesReachRows == MCSpec => []WritesHitTheirRows
<1>1. MCSpec => TablePage!Spec
  BY Components, SameTables, PTL DEF MCSpec, TablePage!Spec
<1>2. TablePage!WritesHitTheirRows => WritesHitTheirRows
  BY SameTables DEF WritesHitTheirRows
<1>3. QED
  BY <1>1, <1>2, TablePage!WritesReachTheirRows, PTL
(* A turn of a page starts as the page does, and keeps what it keeps.      *)
LEMMA PagesKeep ==
  /\ MCInit => ConnectPage!IInv /\ RunnerPage!IInv
  /\ ConnectPage!IInv /\ active = "connect" /\ [MCNext]_mcVars => ConnectPage!IInv'
  /\ RunnerPage!IInv /\ active = "runner" /\ [MCNext]_mcVars => RunnerPage!IInv'
<1>1. ConnectPage!Bounds /\ RunnerPage!Bounds
  BY PageAssumption DEF ConnectPage!Bounds, RunnerPage!Bounds
<1>2. Connect!Init => ConnectPage!Init /\ RunnerPage!Init
  BY SameConnect, SameRunner DEF Connect!Init, Runner!Init
<1>3. MCInit => ConnectPage!IInv /\ RunnerPage!IInv
  BY <1>1, <1>2, Components, ConnectPage!Starts, RunnerPage!Starts
<1>4. active = "connect" /\ [MCNext]_mcVars => [ConnectPage!Next]_(ConnectPage!vars)
  <2>1. active = "connect" /\ [MCNext]_mcVars => [Connect!Next]_(Connect!vars)
    BY DEF MCNext, mcVars, pageVars, consoleVars, Connect!vars, Connect!counters,
           Connect!dialog, Connect!runner
  <2>2. QED
    BY <2>1, SameConnect
<1>5. active = "runner" /\ [MCNext]_mcVars => [RunnerPage!Next]_(RunnerPage!vars)
  <2>1. active = "runner" /\ [MCNext]_mcVars => [Runner!Next]_(Runner!vars)
    BY DEF MCNext, mcVars, pageVars, consoleVars, Runner!vars, Runner!counters,
           Runner!dialog, Runner!runner
  <2>2. QED
    BY <2>1, SameRunner
<1>6. QED
  BY <1>1, <1>3, <1>4, <1>5, ConnectPage!Steps, RunnerPage!Steps

(* WhatIsShownWasAsked of BranchConsoleProofs, in the turns of the dialog   *)
(* and of the SQL runner.                                                  *)
THEOREM ShownWasAsked == MCSpec => []ShownIsAsked
<1> DEFINE Kept == /\ active = "connect" => ConnectPage!IInv
                   /\ active = "runner" => RunnerPage!IInv
<1>1. MCInit => Kept
  BY PagesKeep
<1>2. Kept /\ [MCNext]_mcVars => Kept'
  BY PagesKeep, Components
<1>3. Kept => ShownIsAsked
  <2>1. ConnectPage!IInv => ConnectPage!ShownIsAsked
    BY DEF ConnectPage!IInv, ConnectPage!Asked, ConnectPage!Held, ConnectPage!Confirmed,
           ConnectPage!Answered, ConnectPage!ShownIsAsked
  <2>2. RunnerPage!IInv => RunnerPage!ShownIsAsked
    BY DEF RunnerPage!IInv, RunnerPage!Asked, RunnerPage!Held, RunnerPage!Confirmed,
           RunnerPage!Answered, RunnerPage!ShownIsAsked
  <2>3. QED
    BY <2>1, <2>2, SameConnect, SameRunner DEF ShownIsAsked
<1>4. QED
  BY <1>1, <1>2, <1>3, PTL DEF MCSpec
=============================================================================
