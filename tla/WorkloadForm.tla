----------------------------- MODULE WorkloadForm -----------------------------
(***************************************************************************)
(* The overview page of a workload: a form that an effect fills whenever   *)
(* the cached workload changes, Save, Deploy Now (save, then deploy) and   *)
(* Rebuild, next to polls, the worker and other clients.                   *)
(*                                                                         *)
(* Simplifications: a source is its kind and one text (image, artifact,    *)
(* URL or repository); fields that have a default when they are blank, and *)
(* automatic deployment, are left out; the providers of the organization   *)
(* are loaded.  Fetches and the cache are those of TanStack Query: setting *)
(* data stays, invalidating starts the fetch over.                         *)
(***************************************************************************)
EXTENDS Naturals, Sequences

CONSTANTS
  Text,       \* what may stand in a field that is not blank
  Blank,      \* the empty string, and what is not set in a record
  MaxEdits,   \* bound: changes of a field
  MaxWrites,  \* bound: requests that write
  MaxOthers   \* bound: saves of other clients

VARIABLES
  row,       \* the project_workloads row; `version` is its updatedAt
  deployed,  \* the configuration that was deployed last
  worker,    \* the marks that provisioning workflows are going to make
  cached,    \* the workload in the query cache
  fetch,     \* the fetch of the list: none, sent, or the row that was read
  form,      \* the fields of the page
  touched,   \* an edit since the form was filled
  call,      \* what Save, Deploy Now and Rebuild are waiting for
  clicked,   \* history: the form at the last click on Deploy Now
  saved,     \* history: the form of the last save, while nobody else saves
  edits, writes, others

counters == <<edits, writes, others>>
vars == <<row, deployed, worker, cached, fetch, form, touched, call, clicked, saved, counters>>

Mode == {"image", "gitProvider", "git", "bundle"}
ContainerMode == Mode \ {"bundle"}
Words == Text \cup {Blank}

Source == [type : Mode \cup {Blank}, at : Words]
NoSource == [type |-> Blank, at |-> Blank]

(* desiredState: `build` is build.source, `source` that of a function. *)
Config == [kind : {"container", "function", Blank},
           image : Words, build : Source, source : Source, env : Words]

NoConfig == [kind |-> Blank, image |-> Blank, build |-> NoSource, source |-> NoSource,
             env |-> Blank]

Status == {"draft", "provisioning", "available"}
WorkloadRow == [config : Config, status : Status, version : Nat]

Form == [kind : {"container", "function"}, containerSource : ContainerMode,
         functionSource : Mode, at : [Mode -> Words], env : Words]

Button == {"config", "rebuild"}
NotBusy == [step |-> "idle", config |-> NoConfig, deploy |-> FALSE, version |-> 0]

TypeOK ==
  /\ row \in WorkloadRow /\ cached \in WorkloadRow
  /\ deployed \in Config
  /\ worker \in Seq(Status)
  /\ fetch \in {[step |-> "none"], [step |-> "sent"]}
       \/ (fetch.step = "read" /\ fetch.data \in WorkloadRow)
  /\ form \in Form
  /\ touched \in BOOLEAN
  /\ call \in [Button -> [step : {"idle", "patch", "patched", "deploy", "deployed"},
                          config : Config, deploy : BOOLEAN, version : Nat]]
  /\ clicked \in Config /\ saved \in Config
  /\ edits \in 0 .. MaxEdits /\ writes \in 0 .. MaxWrites /\ others \in 0 .. MaxOthers

-----------------------------------------------------------------------------
(* Between the form and the configuration. *)

(* What the page sends, or NoConfig when it shows an error instead. *)
Payload(f) ==
  LET mode == IF f.kind = "container" THEN f.containerSource ELSE f.functionSource
      source == [type |-> mode, at |-> f.at[mode]]
      base == [NoConfig EXCEPT !.kind = f.kind, !.env = f.env]
  IN IF f.at[mode] = Blank THEN NoConfig
     ELSE IF f.kind = "function" THEN [base EXCEPT !.source = source]
     ELSE IF mode = "image" THEN [base EXCEPT !.image = f.at[mode]]
     ELSE [base EXCEPT !.build = source]

(* Mutant of Filled: the image is read from desiredState.image only. *)
FilledFromImage(c, f) ==
  [kind |-> IF c.kind = Blank THEN f.kind ELSE c.kind,
   at |-> [m \in Mode |-> IF m = "image" THEN c.image
                          ELSE IF c.build.type = m THEN c.build.at
                          ELSE IF c.source.type = m THEN c.source.at ELSE Blank],
   containerSource |->
     IF c.image = Blank /\ c.build.type \in {"git", "gitProvider"} THEN c.build.type ELSE "image",
   functionSource |-> IF c.source.type = Blank THEN "gitProvider" ELSE c.source.type,
   env |-> c.env]

(* The effect on [workload]: every field is set again; only the kind of a  *)
(* workload that is not configured yet stays.                              *)
Filled(c, f) ==
  [kind |-> IF c.kind = Blank THEN f.kind ELSE c.kind,
   at |-> [m \in Mode |-> IF m = "image" /\ c.image # Blank THEN c.image
                          ELSE IF c.build.type = m THEN c.build.at
                          ELSE IF c.source.type = m THEN c.source.at ELSE Blank],
   containerSource |->
     IF c.image = Blank /\ c.build.type \in {"git", "gitProvider"} THEN c.build.type ELSE "image",
   functionSource |-> IF c.source.type = Blank THEN "gitProvider" ELSE c.source.type,
   env |-> c.env]

EmptyForm == Filled(NoConfig, [kind |-> "container"])

Init ==
  /\ row = [config |-> NoConfig, status |-> "draft", version |-> 0]
  /\ deployed = NoConfig /\ worker = <<>>
  /\ cached = row
  /\ fetch = [step |-> "none"]
  /\ form = EmptyForm /\ touched = FALSE
  /\ call = [b \in Button |-> NotBusy]
  /\ clicked = NoConfig /\ saved = NoConfig
  /\ edits = 0 /\ writes = 0 /\ others = 0

-----------------------------------------------------------------------------
(* The cache. *)

(* New data fills the form; equal data keeps its identity, and the form.   *)
Show(data) ==
  /\ cached' = data
  /\ IF data = cached THEN UNCHANGED <<form, touched>>
     ELSE form' = Filled(data.config, form) /\ touched' = FALSE

(* A poll, a focused window. *)
StartFetch ==
  /\ fetch.step = "none"
  /\ fetch' = [step |-> "sent"]
  /\ UNCHANGED <<row, deployed, worker, cached, form, touched, call, clicked, saved, counters>>

ReadRow ==
  /\ fetch.step = "sent"
  /\ fetch' = [step |-> "read", data |-> row]
  /\ UNCHANGED <<row, deployed, worker, cached, form, touched, call, clicked, saved, counters>>

EndFetch ==
  /\ fetch.step = "read"
  /\ Show(fetch.data)
  /\ fetch' = [step |-> "none"]
  /\ UNCHANGED <<row, deployed, worker, call, clicked, saved, counters>>

(* refreshWorkloads: a fetch that is under way is started over. *)
Invalidate == fetch' = [step |-> "sent"]

-----------------------------------------------------------------------------
(* The page. *)

Edit(f) ==
  /\ edits < MaxEdits /\ edits' = edits + 1
  /\ f # form
  /\ form' = f
  /\ touched' = TRUE
  /\ UNCHANGED <<row, deployed, worker, cached, fetch, call, clicked, saved, writes, others>>

OneField ==
  {[form EXCEPT !.kind = k] : k \in {"container", "function"}}
  \cup {[form EXCEPT !.containerSource = m] : m \in ContainerMode}
  \cup {[form EXCEPT !.functionSource = m] : m \in Mode}
  \cup {[form EXCEPT !.at[m] = w] : m \in Mode, w \in Words}
  \cup {[form EXCEPT !.env = w] : w \in Words}

BusyProvisioning == cached.status = "provisioning"

(* Save configuration and Deploy Now; the latter goes on after the save.   *)
ClickSave(deploy) ==
  /\ call["config"].step = "idle" /\ ~BusyProvisioning
  /\ Payload(form) # NoConfig
  /\ writes < MaxWrites /\ writes' = writes + 1
  /\ call' = [call EXCEPT !["config"] =
                [NotBusy EXCEPT !.step = "patch", !.config = Payload(form), !.deploy = deploy]]
  /\ clicked' = IF deploy THEN Payload(form) ELSE NoConfig
  /\ UNCHANGED <<row, deployed, worker, cached, fetch, form, touched, saved, edits, others>>

ClickRebuild ==
  /\ call["rebuild"].step = "idle" /\ ~BusyProvisioning
  /\ cached.config.kind # Blank /\ cached.status # "draft"
  /\ writes < MaxWrites /\ writes' = writes + 1
  /\ call' = [call EXCEPT !["rebuild"].step = "deploy"]
  /\ UNCHANGED <<row, deployed, worker, cached, fetch, form, touched, clicked, saved, edits, others>>

(* PATCH config, and its answer with the row as it is then. *)
PatchArrives ==
  /\ call["config"].step = "patch"
  /\ row' = [config |-> call["config"].config, status |-> "draft", version |-> row.version + 1]
  /\ call' = [call EXCEPT !["config"].step = "patched", !["config"].version = row'.version]
  /\ saved' = call["config"].config
  /\ UNCHANGED <<deployed, worker, cached, fetch, form, touched, clicked, counters>>

PatchReturns ==
  /\ call["config"].step = "patched"
  /\ Show([config |-> call["config"].config, status |-> "draft", version |-> call["config"].version])
  /\ Invalidate
  /\ call' = [call EXCEPT !["config"] =
                IF @.deploy THEN [@ EXCEPT !.step = "deploy"] ELSE NotBusy]
  /\ UNCHANGED <<row, deployed, worker, clicked, saved, counters>>

(* POST deploy and POST rebuild deploy what the row has. *)
DeployArrives(b) ==
  /\ call[b].step = "deploy"
  /\ row.config.kind # Blank
  /\ row' = [row EXCEPT !.status = "provisioning", !.version = @ + 1]
  /\ deployed' = row.config
  /\ worker' = worker \o <<"provisioning", "available">>
  /\ call' = [call EXCEPT ![b].step = "deployed"]
  /\ UNCHANGED <<cached, fetch, form, touched, clicked, saved, counters>>

DeployReturns(b) ==
  /\ call[b].step = "deployed"
  /\ Invalidate
  /\ call' = [call EXCEPT ![b] = NotBusy]
  /\ clicked' = IF b = "config" THEN NoConfig ELSE clicked
  /\ UNCHANGED <<row, deployed, worker, cached, form, touched, saved, counters>>

(* Mutant of CallFails: saveConfig does not throw its error on. *)
CallFailsQuietly(b) ==
  /\ call[b].step \in {"patch", "deploy"}
  /\ call' = [call EXCEPT ![b] =
                IF @.step = "patch" /\ @.deploy THEN [@ EXCEPT !.step = "deploy"] ELSE NotBusy]
  /\ clicked' = IF b = "config" /\ call'[b].step = "idle" THEN NoConfig ELSE clicked
  /\ UNCHANGED <<row, deployed, worker, cached, fetch, form, touched, saved, counters>>

(* The server refuses or is not reached: Deploy Now ends there. *)
CallFails(b) ==
  /\ call[b].step \in {"patch", "deploy"}
  /\ call' = [call EXCEPT ![b] = NotBusy]
  /\ clicked' = IF b = "config" THEN NoConfig ELSE clicked
  /\ UNCHANGED <<row, deployed, worker, cached, fetch, form, touched, saved, counters>>

-----------------------------------------------------------------------------
(* The worker, and other clients. *)

(* Every workflow marks the row as provisioning, then as available.        *)
WorkerMarks ==
  /\ worker # <<>>
  /\ row' = [row EXCEPT !.status = Head(worker), !.version = @ + 1]
  /\ worker' = Tail(worker)
  /\ UNCHANGED <<deployed, cached, fetch, form, touched, call, clicked, saved, counters>>

(* Another client saves: what this one has saved or is about to deploy is  *)
(* not expected any more.                                                  *)
OtherSaves(c) ==
  /\ others < MaxOthers /\ others' = others + 1
  /\ row' = [row EXCEPT !.config = c, !.status = "draft", !.version = @ + 1]
  /\ clicked' = NoConfig /\ saved' = NoConfig
  /\ UNCHANGED <<deployed, worker, cached, fetch, form, touched, call, edits, writes>>

Others == {[NoConfig EXCEPT !.kind = "container", !.image = w] : w \in Text}

Next ==
  \/ StartFetch \/ ReadRow \/ EndFetch
  \/ \E f \in OneField : Edit(f)
  \/ \E deploy \in BOOLEAN : ClickSave(deploy)
  \/ ClickRebuild \/ PatchArrives \/ PatchReturns
  \/ \E b \in Button : DeployArrives(b) \/ DeployReturns(b) \/ CallFails(b)
  \/ WorkerMarks
  \/ \E c \in Others : OtherSaves(c)

Spec == Init /\ [][Next]_vars

-----------------------------------------------------------------------------
(* Deploy Now deploys the form as it was when it was clicked, whatever was *)
(* typed, polled or provisioned before it is done, unless another client   *)
(* saved in between.                                                       *)
DeployedIsClicked ==
  call["config"].step = "deployed" /\ clicked # NoConfig => deployed = clicked

(* A page without edits that is up to date shows what was saved on it      *)
(* last, unless another client saved since, whatever is under way: saving  *)
(* it once more would change nothing.                                      *)
SavedStays ==
  saved # NoConfig /\ ~touched /\ cached.version = row.version => Payload(form) = saved
=============================================================================
