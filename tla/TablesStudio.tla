----------------------------- MODULE TablesStudio -----------------------------
(***************************************************************************)
(* The table view of a branch: previews that are loaded with SQL, cells    *)
(* edited and rows selected by their place in the preview, and the SQL     *)
(* that saves and deletes them.  Requests overlap and their answers arrive *)
(* in any order.                                                           *)
(*                                                                         *)
(* Simplifications: the tables have one key column and one other column,   *)
(* of the same names; values and the state of the tables are left out:     *)
(* other clients write to them, there is a filter and a limit and no ORDER *)
(* BY, so an answer has any rows of the table in any order.                *)
(***************************************************************************)
EXTENDS Naturals, FiniteSets, Functions

CONSTANTS
  Table, First,   \* tables of the branch, and the first one of the schema
  Key,            \* primary keys of the rows
  None,           \* a preview that is not loaded
  MaxLoads,       \* bound: previews requested
  MaxWrites,      \* bound: requests to save, delete or add
  MaxSchemas      \* bound: changes of the schema

VARIABLES
  shown,     \* selectedTable
  preview,   \* the rows on the screen; `of` is the table they were read from
  drafts,    \* edited cells; `key` and `of` are the row that was edited
  picked,    \* selected rows; `key` and `of` likewise
  loads,     \* previews in flight, of each table
  write,     \* what Save, Delete and Add record are waiting for
  swapped,   \* history: since the last request, an answer has replaced rows
             \* that were on the screen, or is of a table that is not shown
  loaded, written, changed

counters == <<loaded, written, changed>>
vars == <<shown, preview, drafts, picked, loads, write, swapped, counters>>

Lists == {list \in UNION {[1 .. n -> Key] : n \in 0 .. 2} : IsInjective(list)}
Place == 1 .. 2
Writer == {"save", "delete", "add"}

Mark == [at : Place, key : Key, of : Table]
(* One statement; `meant` and `seen` are the row and the table on the      *)
(* screen when it was edited or selected, `swapped` is what it was then.   *)
Statement == [of : Table, key : Key, meant : Key, seen : Table, swapped : BOOLEAN]

Idle == [step |-> "idle", of |-> First, sql |-> {}]

TypeOK ==
  /\ shown \in Table
  /\ preview = None \/ (preview.of \in Table /\ preview.rows \in Lists)
  /\ drafts \subseteq Mark
  /\ picked \subseteq Mark
  /\ loads \in [Table -> 0 .. MaxLoads]
  /\ \A w \in Writer : /\ write[w].step \in {"idle", "sent"}
                       /\ write[w].of \in Table /\ write[w].sql \subseteq Statement
  /\ swapped \in BOOLEAN
  /\ loaded \in 0 .. MaxLoads /\ written \in 0 .. MaxWrites /\ changed \in 0 .. MaxSchemas

Init ==
  /\ shown = First
  /\ preview = None
  /\ drafts = {} /\ picked = {}
  /\ loads = [t \in Table |-> IF t = First THEN 1 ELSE 0]
  /\ write = [w \in Writer |-> Idle]
  /\ swapped = FALSE
  /\ loaded = 1 /\ written = 0 /\ changed = 0

-----------------------------------------------------------------------------
(* Previews. *)

(* One more request for a preview of each of the tables. *)
Requested(tables) == [t \in Table |-> IF t \in tables THEN loads[t] + 1 ELSE loads[t]]

(* Mutant of Load: edits and selection stay. *)
LoadOnly(tables) ==
  /\ loaded + Cardinality(tables) <= MaxLoads
  /\ loaded' = loaded + Cardinality(tables)
  /\ loads' = Requested(tables)
  /\ preview' = None
  /\ swapped' = FALSE
  /\ UNCHANGED <<drafts, picked>>

(* loadPreview: what is on the screen goes, edits and selection with it;   *)
(* requests that are under way are neither cancelled nor told apart.       *)
Load(tables) ==
  /\ loaded + Cardinality(tables) <= MaxLoads
  /\ loaded' = loaded + Cardinality(tables)
  /\ loads' = Requested(tables)
  /\ preview' = None
  /\ swapped' = FALSE
  /\ drafts' = {} /\ picked' = {}

SelectTable(t) ==
  /\ IF t = shown
     THEN picked' = {} /\ UNCHANGED <<shown, preview, drafts, loads, swapped, loaded>>
     ELSE shown' = t /\ Load({t})
  /\ UNCHANGED <<write, written, changed>>

(* Refresh, Apply and Clear; Enter in the filter works while loading.      *)
Reload ==
  /\ Load({shown})
  /\ UNCHANGED <<shown, write, written, changed>>

(* The schema is fetched again and differs, if only in an estimate: both   *)
(* effects run for the table that was shown, then one for the first table. *)
SchemaChanges ==
  /\ changed < MaxSchemas /\ changed' = changed + 1
  /\ shown' = First
  /\ Load({shown, First})
  /\ UNCHANGED <<write, written>>

Over(t) == loads' = [loads EXCEPT ![t] = @ - 1]

(* The answer that arrives is the preview now, whichever request it is of; *)
(* edits and selection stay at their places.                               *)
DeliverLoad(t) ==
  /\ loads[t] > 0
  /\ Over(t)
  /\ \E rows \in Lists : preview' = [of |-> t, rows |-> rows]
  /\ swapped' = (swapped \/ preview # None \/ t # shown)
  /\ UNCHANGED <<shown, drafts, picked, write, counters>>

LoadFails(t) ==
  /\ loads[t] > 0
  /\ Over(t)
  /\ UNCHANGED <<shown, preview, drafts, picked, write, swapped, counters>>

-----------------------------------------------------------------------------
(* Edits and selection. *)

OnScreen(i) == preview # None /\ i \in DOMAIN preview.rows

(* What stands at place i when it is edited or selected. *)
Here(i) == [at |-> i, key |-> preview.rows[i], of |-> preview.of]

Elsewhere(marks, i) == {m \in marks : m.at # i}

(* queueDraft: one draft per cell, and none for the value that is there.   *)
Type(i) ==
  /\ OnScreen(i)
  /\ drafts' \in {Elsewhere(drafts, i), Elsewhere(drafts, i) \cup {Here(i)}}
  /\ UNCHANGED <<shown, preview, picked, loads, write, swapped, counters>>

Discard ==
  /\ write["save"].step = "idle"
  /\ drafts' = {}
  /\ UNCHANGED <<shown, preview, picked, loads, write, swapped, counters>>

Pick(i) ==
  /\ OnScreen(i)
  /\ picked' \in {Elsewhere(picked, i), Elsewhere(picked, i) \cup {Here(i)}}
  /\ UNCHANGED <<shown, preview, drafts, loads, write, swapped, counters>>

-----------------------------------------------------------------------------
(* Writes. *)

Send(w, sql) ==
  /\ write[w].step = "idle"
  /\ write' = [write EXCEPT ![w] = [step |-> "sent", of |-> shown, sql |-> sql]]
  /\ written < MaxWrites /\ written' = written + 1
  /\ UNCHANGED <<shown, preview, drafts, picked, loads, swapped, loaded, changed>>

(* One statement per place, for the row that is there now. *)
Sql(marks) ==
  {[of |-> shown, key |-> preview.rows[m.at], meant |-> m.key, seen |-> m.of,
    swapped |-> swapped] : m \in marks}

(* saveDrafts throws when a place is not on the screen any more. *)
SaveDrafts ==
  /\ drafts # {}
  /\ \A d \in drafts : OnScreen(d.at)
  /\ Send("save", Sql(drafts))

Selected == {m \in picked : OnScreen(m.at)}

(* deleteSelectedRows: confirmed, and refused while there are edits. *)
DeleteSelected ==
  /\ Selected # {}
  /\ drafts = {}
  /\ Send("delete", Sql(Selected))

AddRecord == Send("add", {})

(* The statements of a request are one transaction: none of them is done.  *)
WriteFails(w) ==
  /\ write[w].step # "idle"
  /\ write' = [write EXCEPT ![w] = Idle]
  /\ UNCHANGED <<shown, preview, drafts, picked, loads, swapped, counters>>

(* They are all done; the table that was shown when the request was sent   *)
(* is loaded again.                                                        *)
Written(w) ==
  /\ write[w].step = "sent"
  /\ write' = [write EXCEPT ![w] = Idle]
  /\ Load({write[w].of})
  /\ UNCHANGED <<shown, written, changed>>

Next ==
  \/ Reload \/ SchemaChanges \/ Discard \/ SaveDrafts \/ DeleteSelected \/ AddRecord
  \/ \E t \in Table : SelectTable(t) \/ DeliverLoad(t) \/ LoadFails(t)
  \/ \E i \in Place : Pick(i) \/ Type(i)
  \/ \E w \in Writer : WriteFails(w) \/ Written(w)

Spec == Init /\ [][Next]_vars

-----------------------------------------------------------------------------
OfItsRow(st) == st.key = st.meant /\ st.of = st.seen

(* A save or a delete reaches exactly the rows that were edited or         *)
(* selected on the screen, in the table they were shown for, whatever was  *)
(* refreshed, switched, reordered or written by others in between; unless  *)
(* since the last request an answer of another one, earlier or later, has  *)
(* replaced the rows on the screen, or came for a table that was left      *)
(* (SelectionIsDeleted is about those).  The next request makes it good.   *)
WritesHitTheirRows == \A w \in Writer : \A st \in write[w].sql : st.swapped \/ OfItsRow(st)

(* "Delete the selected rows from the table", asks the confirmation: a row  *)
(* that is deleted was selected on the screen, among rows of that table.   *)
SelectionIsDeleted == \A st \in write["delete"].sql : OfItsRow(st)
=============================================================================
