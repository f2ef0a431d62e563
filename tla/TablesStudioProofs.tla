-------------------------- MODULE TablesStudioProofs --------------------------
(***************************************************************************)
(* Writes of the table view reach the rows that were edited or selected,   *)
(* for any tables, keys and numbers of requests.                           *)
(***************************************************************************)
EXTENDS TablesStudio, TLAPS

(* What is on the screen is of the table that is shown. *)
Shown == ~swapped /\ preview # None => preview.of = shown

(* An edit or a selection is of the row at its place. *)
Placed(m) == OnScreen(m.at) => m.key = preview.rows[m.at] /\ m.of = preview.of

(* Until rows are swapped, edits and selection are of what is on the       *)
(* screen, and there are none while nothing is.                            *)
Marks == ~swapped => \A m \in drafts \cup picked : preview # None /\ Placed(m)

StudioInv == Shown /\ Marks /\ WritesHitTheirRows

(* Only the shape of the writers that the steps rely on. *)
Writes == DOMAIN write = Writer

StudioIInv == Writes /\ StudioInv

-----------------------------------------------------------------------------
(* A step that sends no statement leaves those that were sent. *)
LEMMA WritesKept ==
  ASSUME WritesHitTheirRows, UNCHANGED write
  PROVE  WritesHitTheirRows'
BY DEF WritesHitTheirRows, OfItsRow

(* A request leaves nothing on the screen and nothing marked. *)
LEMMA LoadKeeps ==
  ASSUME NEW tables, Load(tables)
  PROVE  Shown' /\ Marks'
BY DEF Load, Shown, Marks

(* A request by a step that leaves what the writers wait for. *)
LEMMA LoadStep ==
  ASSUME StudioIInv, NEW tables, Load(tables), UNCHANGED write
  PROVE  StudioIInv'
BY LoadKeeps, WritesKept DEF StudioIInv, StudioInv, Writes

(* A step that marks at most what is on the screen. *)
LEMMA MarkStep ==
  ASSUME StudioIInv, UNCHANGED <<shown, preview, write, swapped>>,
         \A m \in drafts' \cup picked' :
           m \in drafts \cup picked \/ (preview # None /\ Placed(m))
  PROVE  StudioIInv'
<1>1. Shown' /\ WritesHitTheirRows'
  BY WritesKept DEF StudioIInv, StudioInv, Shown
<1>2. Marks'
  BY DEF StudioIInv, StudioInv, Marks, Placed, OnScreen
<1>3. QED
  BY <1>1, <1>2 DEF StudioIInv, StudioInv, Writes

(* The statements for edited or selected places reach their rows. *)
LEMMA SentHits ==
  ASSUME StudioInv, NEW marks \in SUBSET (drafts \cup picked), \A m \in marks : OnScreen(m.at)
  PROVE  \A st \in Sql(marks) : st.swapped \/ OfItsRow(st)
<1> SUFFICES ASSUME NEW m \in marks
             PROVE  LET st == [of |-> shown, key |-> preview.rows[m.at], meant |-> m.key,
                               seen |-> m.of, swapped |-> swapped]
                    IN  st.swapped \/ OfItsRow(st)
  BY DEF Sql
<1>1. CASE swapped
  BY <1>1
<1>2. CASE ~swapped
  <2>1. m.key = preview.rows[m.at] /\ m.of = preview.of /\ preview.of = shown
    BY <1>2 DEF StudioInv, Marks, Placed, Shown
  <2>2. QED
    BY <2>1 DEF OfItsRow
<1>3. QED
  BY <1>1, <1>2

(* A step that sends statements that reach their rows. *)
LEMMA SendStep ==
  ASSUME StudioIInv, NEW w \in Writer, NEW sql, Send(w, sql),
         \A st \in sql : st.swapped \/ OfItsRow(st)
  PROVE  StudioIInv'
<1>1. /\ UNCHANGED <<shown, preview, drafts, picked, swapped>>
      /\ write' = [write EXCEPT ![w] = [step |-> "sent", of |-> shown, sql |-> sql]]
  BY DEF Send
<1>2. /\ DOMAIN write' = Writer /\ write'[w] = [step |-> "sent", of |-> shown, sql |-> sql]
      /\ \A v \in Writer \ {w} : write'[v] = write[v]
  BY <1>1 DEF StudioIInv, Writes
<1>3. Shown' /\ Marks' /\ Writes'
  BY <1>1, <1>2 DEF StudioIInv, StudioInv, Shown, Marks, Placed, OnScreen, Writes
<1>4. ASSUME NEW v \in Writer, NEW st \in write'[v].sql PROVE st.swapped \/ OfItsRow(st)
  <2>1. CASE v = w
    BY <1>2, <1>4, <2>1
  <2>2. CASE v # w
    BY <1>2, <1>4, <2>2 DEF StudioIInv, StudioInv, WritesHitTheirRows
  <2>3. QED
    BY <2>1, <2>2
<1>5. WritesHitTheirRows'
  BY <1>4 DEF WritesHitTheirRows, OfItsRow
<1>6. QED
  BY <1>3, <1>5 DEF StudioIInv, StudioInv

(* A step that returns a writer to rest leaves the others as they were. *)
LEMMA Rested ==
  ASSUME StudioIInv, NEW w \in Writer, write' = [write EXCEPT ![w] = Idle]
  PROVE  Writes' /\ WritesHitTheirRows'
<1>1. /\ DOMAIN write' = Writer /\ write'[w] = Idle
      /\ \A v \in Writer \ {w} : write'[v] = write[v]
  BY DEF StudioIInv, Writes
<1>2. QED
  BY <1>1 DEF StudioIInv, StudioInv, Writes, WritesHitTheirRows, Idle, OfItsRow

(* Every step keeps the invariant. *)
LEMMA StudioStep ==
  ASSUME StudioIInv, [Next]_vars
  PROVE  StudioIInv'
<1>1. CASE UNCHANGED vars
  <2>1. UNCHANGED <<shown, preview, drafts, picked, write, swapped>>
    BY <1>1 DEF vars
  <2>2. QED
    BY <2>1, MarkStep
<1>2. CASE Reload \/ SchemaChanges
  <2>1. UNCHANGED write /\ \E tables : Load(tables)
    BY <1>2 DEF Reload, SchemaChanges
  <2>2. QED
    BY <2>1, LoadStep
<1>3. CASE Discard
  BY <1>3, MarkStep DEF Discard
<1>4. CASE SaveDrafts
  <2>1. \A st \in Sql(drafts) : st.swapped \/ OfItsRow(st)
    BY <1>4, SentHits DEF SaveDrafts, StudioIInv
  <2>2. Send("save", Sql(drafts)) /\ "save" \in Writer
    BY <1>4 DEF SaveDrafts, Writer
  <2>3. QED
    BY <2>1, <2>2, SendStep
<1>5. CASE DeleteSelected
  <2>1. Selected \in SUBSET (drafts \cup picked) /\ \A m \in Selected : OnScreen(m.at)
    BY DEF Selected
  <2>2. \A st \in Sql(Selected) : st.swapped \/ OfItsRow(st)
    BY <2>1, SentHits DEF StudioIInv
  <2>3. Send("delete", Sql(Selected)) /\ "delete" \in Writer
    BY <1>5 DEF DeleteSelected, Writer
  <2>4. QED
    BY <2>2, <2>3, SendStep
<1>6. CASE AddRecord
  <2>1. Send("add", {}) /\ "add" \in Writer
    BY <1>6 DEF AddRecord, Writer
  <2>2. QED
    BY <2>1, SendStep
<1>7. ASSUME NEW t \in Table, SelectTable(t) PROVE StudioIInv'
  <2>1. CASE t = shown
    <3>1. UNCHANGED <<shown, preview, drafts, write, swapped>> /\ picked' = {}
      BY <1>7, <2>1 DEF SelectTable
    <3>2. QED
      BY <3>1, MarkStep
  <2>2. CASE t # shown
    <3>1. Load({t}) /\ UNCHANGED write
      BY <1>7, <2>2 DEF SelectTable
    <3>2. QED
      BY <3>1, LoadStep
  <2>3. QED
    BY <2>1, <2>2
<1>8. ASSUME NEW t \in Table, DeliverLoad(t) PROVE StudioIInv'
  <2>1. /\ swapped' = (swapped \/ preview # None \/ t # shown)
        /\ UNCHANGED <<shown, drafts, picked, write>>
        /\ preview'.of = t
    BY <1>8 DEF DeliverLoad
  <2>2. ~swapped' => ~swapped /\ preview = None /\ t = shown
    BY <2>1
  <2>3. Shown'
    BY <2>1, <2>2 DEF Shown
  <2>4. ~swapped' => drafts' = {} /\ picked' = {}
    BY <2>1, <2>2 DEF StudioIInv, StudioInv, Marks
  <2>5. Marks'
    BY <2>4 DEF Marks
  <2>6. QED
    BY <2>1, <2>3, <2>5, WritesKept DEF StudioIInv, StudioInv, Writes
<1>9. ASSUME NEW t \in Table, LoadFails(t) PROVE StudioIInv'
  BY <1>9, MarkStep DEF LoadFails
<1>10. ASSUME NEW i \in Place, Pick(i) \/ Type(i) PROVE StudioIInv'
  <2>1. preview # None /\ Placed(Here(i))
    BY <1>10 DEF Pick, Type, OnScreen, Placed, Here
  <2>2. /\ drafts' \cup picked' \subseteq drafts \cup picked \cup {Here(i)}
        /\ UNCHANGED <<shown, preview, write, swapped>>
    BY <1>10 DEF Pick, Type, Elsewhere
  <2>3. QED
    BY <2>1, <2>2, MarkStep
<1>11. ASSUME NEW w \in Writer, WriteFails(w) PROVE StudioIInv'
  <2>1. /\ write' = [write EXCEPT ![w] = Idle]
        /\ UNCHANGED <<shown, preview, drafts, picked, swapped>>
    BY <1>11 DEF WriteFails
  <2>2. Shown' /\ Marks'
    BY <2>1 DEF StudioIInv, StudioInv, Shown, Marks, Placed, OnScreen
  <2>3. QED
    BY <2>1, <2>2, Rested DEF StudioIInv, StudioInv
<1>12. ASSUME NEW w \in Writer, Written(w) PROVE StudioIInv'
  <2>1. write' = [write EXCEPT ![w] = Idle] /\ Load({write[w].of})
    BY <1>12 DEF Written
  <2>2. QED
    BY <2>1, LoadKeeps, Rested DEF StudioIInv, StudioInv
<1>13. QED
  BY <1>1, <1>2, <1>3, <1>4, <1>5, <1>6, <1>7, <1>8, <1>9, <1>10, <1>11, <1>12 DEF Next

(* Saves and deletes reach exactly the rows that were edited or selected,  *)
(* unless an answer has replaced the rows on the screen since the last     *)
(* request, or came for a table that was left; for any tables, keys and    *)
(* numbers of requests in any order (tables-studio.tsx, loadPreview,       *)
(* saveDrafts, deleteSelectedRows).                                        *)
THEOREM WritesReachTheirRows == Spec => []WritesHitTheirRows
<1>1. Init => StudioIInv
  BY DEF Init, StudioIInv, StudioInv, Writes, Shown, Marks, WritesHitTheirRows, Idle, OfItsRow
<1>2. StudioIInv /\ [Next]_vars => StudioIInv'
  BY StudioStep
<1>3. StudioIInv => WritesHitTheirRows
  BY DEF StudioIInv, StudioInv
<1>4. QED
  BY <1>1, <1>2, <1>3, PTL DEF Spec
=============================================================================
