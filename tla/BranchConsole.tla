----------------------------- MODULE BranchConsole -----------------------------
(***************************************************************************)
(* Two things a branch is used with in the dashboard: the dialog with its  *)
(* connection strings, on the overview and next to its settings, and the   *)
(* SQL runner.  Neither component is made anew when another branch is      *)
(* selected; what they hold is reset by their effects, or it stays.        *)
(*                                                                         *)
(* Simplifications: a connection is the number of settings it was computed *)
(* from; whether it is shown masked, revealed or copied is left out, as    *)
(* are statements and rows; a failed statement is an answer as well.       *)
(***************************************************************************)
EXTENDS Naturals

CONSTANTS
  Branch, First,  \* branches of the database, and the one a page opens with
  None,           \* nothing held, nothing cached
  MaxPatches,     \* bound: settings saved
  MaxLoads,       \* bound: connections requested
  MaxRuns         \* bound: statements run

VARIABLES
  shown, view,  \* the selected branch, and the view of it that is mounted
  settings,     \* settings of the branches: how often they were changed
  told,         \* history: settings whose PATCH has returned
  patch,        \* the PATCH under way
  entry,        \* the cached connection of each branch
  modal, held,  \* the branch of the dialog, and the connection it holds
  loads,        \* connections in flight; `attached` until the query is removed,
                \* `mounted` until the dialog is gone
  late,         \* history: an answer came after a switch, a newer run or a PATCH
  readOnly, confirmed,
  sure,         \* history: the branch write mode was confirmed on
  runs,         \* statements in flight
  answer,       \* the result or the error on the screen
  patched, loaded, ran

counters == <<patched, loaded, ran>>
dialog == <<entry, modal, held, loads>>
runner == <<readOnly, confirmed, sure, runs, answer>>
vars == <<shown, view, settings, told, patch, dialog, late, runner, counters>>

View == {"overview", "settings", "sql"}
Maybe(S) == {None} \cup S
Version == 0 .. MaxPatches
Connection == [of : Branch, v : Version]
Load == [of : Branch, read : BOOLEAN, v : Version, attached : BOOLEAN, mounted : BOOLEAN]
(* `sure` is the branch on which writing was confirmed when it was run.    *)
Run == [n : 1 .. MaxRuns, of : Branch, write : BOOLEAN, mounted : BOOLEAN, sure : Maybe(Branch)]

TypeOK ==
  /\ shown \in Branch /\ view \in View
  /\ settings \in [Branch -> Version] /\ told \in [Branch -> Version]
  /\ patch.step \in {"idle", "sent", "done"} /\ patch.of \in Branch
  /\ \A b \in Branch : entry[b] = None \/ entry[b] \in Version
  /\ modal \in Branch /\ (held = None \/ held \in Connection)
  /\ loads \subseteq Load
  /\ late \in BOOLEAN /\ readOnly \in BOOLEAN /\ confirmed \in BOOLEAN
  /\ sure \in Maybe(Branch)
  /\ runs \subseteq Run
  /\ answer \in Maybe(1 .. MaxRuns)
  /\ patched \in Version /\ loaded \in 0 .. MaxLoads /\ ran \in 0 .. MaxRuns

Init ==
  /\ shown = First /\ view = "overview"
  /\ settings = [b \in Branch |-> 0] /\ told = settings
  /\ patch = [step |-> "idle", of |-> First]
  /\ entry = [b \in Branch |-> None]
  /\ modal = First /\ held = None /\ loads = {}
  /\ late = FALSE
  /\ readOnly = TRUE /\ confirmed = FALSE /\ sure = None
  /\ runs = {} /\ answer = None
  /\ patched = 0 /\ loaded = 0 /\ ran = 0

-----------------------------------------------------------------------------
(* Pages. *)

(* Another branch is selected: the dialog follows, and forgets unless it   *)
(* is the branch it was about; the SQL runner keeps its mode, its          *)
(* confirmation and its answer.                                            *)
SelectBranch(b) ==
  /\ b # shown
  /\ shown' = b
  /\ modal' = b /\ held' = IF b = modal THEN held ELSE None
  /\ UNCHANGED <<view, settings, told, patch, entry, loads, late, runner, counters>>

Unmounted(requests) == {[r EXCEPT !.mounted = FALSE] : r \in requests}

(* Another view: what it replaces is gone, with its state. *)
SelectView(v) ==
  /\ v # view
  /\ view' = v
  /\ modal' = shown /\ held' = None /\ loads' = Unmounted(loads)
  /\ readOnly' = TRUE /\ confirmed' = FALSE /\ sure' = None
  /\ runs' = Unmounted(runs) /\ answer' = None
  /\ UNCHANGED <<shown, settings, told, patch, entry, late, counters>>

-----------------------------------------------------------------------------
(* The settings of a branch. *)

SaveSettings ==
  /\ view = "settings" /\ patch.step = "idle"
  /\ patched < MaxPatches /\ patched' = patched + 1
  /\ patch' = [step |-> "sent", of |-> shown]
  /\ UNCHANGED <<shown, view, settings, told, dialog, late, runner, loaded, ran>>

PatchArrives ==
  /\ patch.step = "sent"
  /\ settings' = [settings EXCEPT ![patch.of] = @ + 1]
  /\ patch' = [patch EXCEPT !.step = "done"]
  /\ UNCHANGED <<shown, view, told, dialog, late, runner, counters>>

(* Mutant of PatchReturns: the cached connection stays. *)
PatchOnly ==
  /\ patch.step = "done"
  /\ patch' = [patch EXCEPT !.step = "idle"]
  /\ told' = [told EXCEPT ![patch.of] = settings[patch.of]]
  /\ late' = (late \/ (\E l \in loads : l.of = patch.of) \/ (held # None /\ held.of = patch.of))
  /\ UNCHANGED <<shown, view, settings, dialog, runner, counters>>

(* The cached connection of the branch is removed; what is loading or held *)
(* is not looked at.                                                       *)
PatchReturns ==
  /\ patch.step = "done"
  /\ patch' = [patch EXCEPT !.step = "idle"]
  /\ told' = [told EXCEPT ![patch.of] = settings[patch.of]]
  /\ entry' = [entry EXCEPT ![patch.of] = None]
  /\ loads' = {[l EXCEPT !.attached = l.attached /\ l.of # patch.of] : l \in loads}
  /\ late' = (late \/ (\E l \in loads : l.of = patch.of) \/ (held # None /\ held.of = patch.of))
  /\ UNCHANGED <<shown, view, settings, modal, held, runner, counters>>

PatchFails ==
  /\ patch.step = "sent"
  /\ patch' = [patch EXCEPT !.step = "idle"]
  /\ UNCHANGED <<shown, view, settings, told, dialog, late, runner, counters>>

-----------------------------------------------------------------------------
(* The dialog. *)

(* The branch menu of the dialog, and its effect. *)
ChooseBranch(b) ==
  /\ view = "overview" /\ b # modal
  /\ modal' = b /\ held' = None
  /\ UNCHANGED <<shown, view, settings, told, patch, entry, loads, late, runner, counters>>

(* View, reveal and copy, when nothing is held: what is cached and not too *)
(* old is taken, a fetch under way is joined, or one is started.           *)
LoadConnection ==
  /\ view = "overview" /\ held = None
  /\ \/ /\ entry[modal] # None
        /\ held' = [of |-> modal, v |-> entry[modal]]
        /\ UNCHANGED <<loads, loaded>>
     \/ /\ \E l \in loads : l.of = modal /\ l.attached
        /\ loads' = {IF l.of = modal /\ l.attached THEN [l EXCEPT !.mounted = TRUE] ELSE l
                       : l \in loads}
        /\ UNCHANGED <<held, loaded>>
     \/ /\ ~ \E l \in loads : l.of = modal /\ l.attached
        /\ loaded < MaxLoads /\ loaded' = loaded + 1
        /\ loads' = loads \cup {[of |-> modal, read |-> FALSE, v |-> 0, attached |-> TRUE,
                                 mounted |-> TRUE]}
        /\ UNCHANGED held
  /\ UNCHANGED <<shown, view, settings, told, patch, entry, modal, late, runner, patched, ran>>

ReadConnection(l) ==
  /\ l \in loads /\ ~l.read
  /\ loads' = (loads \ {l}) \cup {[l EXCEPT !.read = TRUE, !.v = settings[l.of]]}
  /\ UNCHANGED <<shown, view, settings, told, patch, entry, modal, held, late, runner, counters>>

(* The dialog holds what arrives, whichever branch it shows by now.        *)
DeliverConnection(l) ==
  /\ l \in loads /\ l.read
  /\ loads' = loads \ {l}
  /\ entry' = IF l.attached THEN [entry EXCEPT ![l.of] = l.v] ELSE entry
  /\ IF l.mounted /\ view = "overview"
     THEN held' = [of |-> l.of, v |-> l.v] /\ late' = (late \/ l.of # modal \/ ~l.attached)
     ELSE UNCHANGED <<held, late>>
  /\ UNCHANGED <<shown, view, settings, told, patch, modal, runner, counters>>

ConnectionFails(l) ==
  /\ l \in loads
  /\ loads' = loads \ {l}
  /\ UNCHANGED <<shown, view, settings, told, patch, entry, modal, held, late, runner, counters>>

-----------------------------------------------------------------------------
(* The SQL runner. *)

ToggleReadOnly ==
  /\ view = "sql"
  /\ readOnly' = ~readOnly
  /\ IF readOnly' THEN confirmed' = FALSE /\ sure' = None ELSE UNCHANGED <<confirmed, sure>>
  /\ UNCHANGED <<shown, view, settings, told, patch, dialog, late, runs, answer, counters>>

ConfirmWrites ==
  /\ view = "sql" /\ ~readOnly /\ ~confirmed
  /\ confirmed' = TRUE /\ sure' = shown
  /\ UNCHANGED <<shown, view, settings, told, patch, dialog, late, readOnly, runs, answer, counters>>

(* The Run button waits for the statement that runs; Mod-Enter does not.   *)
RunQuery ==
  /\ view = "sql" /\ (readOnly \/ confirmed)
  /\ ran < MaxRuns /\ ran' = ran + 1
  /\ runs' = runs \cup {[n |-> ran', of |-> shown, write |-> ~readOnly, mounted |-> TRUE,
                      sure |-> sure]}
  /\ answer' = None
  /\ UNCHANGED <<shown, view, settings, told, patch, dialog, late, readOnly, confirmed, sure,
                 patched, loaded>>

(* Whichever statement ends, its result or error is shown. *)
RunEnds(r) ==
  /\ r \in runs
  /\ runs' = runs \ {r}
  /\ IF r.mounted /\ view = "sql" THEN answer' = r.n /\ late' = (late \/ r.n # ran)
     ELSE UNCHANGED <<answer, late>>
  /\ UNCHANGED <<shown, view, settings, told, patch, dialog, readOnly, confirmed, sure, counters>>

Next ==
  \/ \E b \in Branch : SelectBranch(b) \/ ChooseBranch(b)
  \/ \E v \in View : SelectView(v)
  \/ SaveSettings \/ PatchArrives \/ PatchReturns \/ PatchFails
  \/ LoadConnection
  \/ \E l \in loads : ReadConnection(l) \/ DeliverConnection(l) \/ ConnectionFails(l)
  \/ ToggleReadOnly \/ ConfirmWrites \/ RunQuery
  \/ \E r \in runs : RunEnds(r)

Spec == Init /\ [][Next]_vars

-----------------------------------------------------------------------------
(* Unless an answer was late, the connection in the dialog is the one of   *)
(* the branch it names, with the settings that were saved; a statement     *)
(* that writes was confirmed when writes were allowed, and the answer on  *)
(* the screen is that of the statement that was run last.                  *)
ShownIsAsked ==
  /\ late \/ held = None \/ (held.of = modal /\ held.v >= told[held.of])
  /\ \A r \in runs : r.write => r.sure # None
  /\ late \/ answer = None \/ answer = ran

(* "Write mode can change data or schema on this branch. Confirm before    *)
(* running non-read-only SQL": what is about to write was confirmed on the *)
(* branch it is run on.                                                    *)
WritesAreConfirmed == \A r \in runs : r.write => r.sure = r.of
=============================================================================
