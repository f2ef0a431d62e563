------------------------- MODULE BranchConsoleProofs -------------------------
(***************************************************************************)
(* What BranchConsole guarantees for every set of branches and every       *)
(* number of PATCHes, connections and statements.                          *)
(***************************************************************************)
EXTENDS BranchConsole, TLAPS

(* A page opens with a branch, and nothing is not a branch or a number. *)
Bounds == First \in Branch /\ None \notin Branch /\ None \notin Nat

(* The type invariant without the bounds. *)
Rows ==
  /\ shown \in Branch /\ modal \in Branch /\ patch.of \in Branch
  /\ settings \in [Branch -> Nat] /\ told \in [Branch -> Nat]
  /\ entry \in [Branch -> Maybe(Nat)]

Loads == loads \subseteq [of : Branch, read : BOOLEAN, v : Nat, attached : BOOLEAN,
                          mounted : BOOLEAN]

(* A PATCH that has returned was made. *)
Made == \A b \in Branch : told[b] <= settings[b]

(* What is cached, and what will be, is at least as new as the last PATCH  *)
(* that returned.                                                          *)
Cached == \A b \in Branch : entry[b] = None \/ entry[b] >= told[b]

Arriving == \A l \in loads : l.read /\ l.attached => l.v >= told[l.of]

(* ShownIsAsked, part by part. *)
Held == late \/ held = None \/ (held.of = modal /\ held.v >= told[held.of])

Statement == [n : Nat, of : Branch, write : BOOLEAN, mounted : BOOLEAN, sure : Maybe(Branch)]

Confirmed ==
  /\ runs \subseteq Statement /\ sure \in Maybe(Branch) /\ readOnly \in BOOLEAN /\ ran \in Nat
  /\ confirmed => sure # None
  /\ \A r \in runs : r.write => r.sure # None

Answered == late \/ answer = None \/ answer = ran

Asked == Rows /\ Loads /\ Made /\ Cached /\ Arriving /\ Held

IInv == Asked /\ Confirmed /\ Answered

-----------------------------------------------------------------------------
(* Nothing is cached, shown or in flight when the page opens. *)
LEMMA Starts == ASSUME Bounds PROVE Init => IInv
BY DEF Bounds, Init, IInv, Asked, Rows, Loads, Made, Cached, Arriving, Held, Confirmed,
       Answered, Maybe

(* What neither the dialog nor the PATCHes notice. *)
LEMMA AskedKept ==
  ASSUME Asked, UNCHANGED <<settings, told, entry, loads, modal, held, late>>,
         shown' \in Branch, patch'.of \in Branch
  PROVE  Asked'
BY DEF Asked, Rows, Loads, Made, Cached, Arriving, Held

(* What the SQL runner does not notice. *)
LEMMA RunnerKept ==
  ASSUME Confirmed, Answered, UNCHANGED <<runner, ran>>, late => late'
  PROVE  Confirmed' /\ Answered'
BY DEF Confirmed, Answered, runner

(* Another branch or another view: the dialog is empty. *)
LEMMA DialogEmptied ==
  ASSUME Asked, UNCHANGED <<settings, told, patch, entry, late>>,
         shown' \in Branch, modal' \in Branch, held' = None,
         loads' = loads \/ loads' = Unmounted(loads)
  PROVE  Asked'
<1>1. Rows' /\ Made' /\ Cached' /\ Held'
  BY DEF Asked, Rows, Made, Cached, Held
<1>2. Loads' /\ Arriving'
  <2>1. CASE loads' = loads
    BY <2>1 DEF Asked, Loads, Arriving
  <2>2. CASE loads' = Unmounted(loads)
    <3>1. \A l \in loads' : \E k \in loads : l = [k EXCEPT !.mounted = FALSE]
      BY <2>2 DEF Unmounted
    <3>2. \A k \in loads :
            LET l == [k EXCEPT !.mounted = FALSE]
            IN  /\ l \in [of : Branch, read : BOOLEAN, v : Nat, attached : BOOLEAN,
                          mounted : BOOLEAN]
                /\ l.of = k.of /\ l.read = k.read /\ l.v = k.v /\ l.attached = k.attached
      BY DEF Asked, Loads
    <3>3. QED
      BY <3>1, <3>2 DEF Asked, Loads, Arriving
  <2>3. QED
    BY <2>1, <2>2
<1>3. QED
  BY <1>1, <1>2 DEF Asked

-----------------------------------------------------------------------------
(* A PATCH. *)

(* The server makes a PATCH: its rows only become newer. *)
LEMMA PatchArrivesKeeps ==
  ASSUME IInv, PatchArrives
  PROVE  IInv'
<1>1. /\ settings' = [settings EXCEPT ![patch.of] = @ + 1]
      /\ patch' = [patch EXCEPT !.step = "done"] /\ patch'.of = patch.of
      /\ UNCHANGED <<shown, told, entry, loads, modal, held, late, runner, ran>>
  BY DEF PatchArrives, dialog, counters
<1>2. Rows' /\ Made'
  BY <1>1 DEF IInv, Asked, Rows, Made
<1>3. Loads' /\ Cached' /\ Arriving' /\ Held'
  BY <1>1 DEF IInv, Asked, Loads, Cached, Arriving, Held
<1>4. QED
  BY <1>1, <1>2, <1>3, RunnerKept DEF IInv, Asked

(* A PATCH returns: the cached copy is dropped, requests are detached. *)
LEMMA PatchReturnsKeeps ==
  ASSUME IInv, PatchReturns
  PROVE  IInv'
<1> DEFINE b == patch.of
           Detached(l) == [l EXCEPT !.attached = l.attached /\ l.of # b]
<1>1. /\ told' = [told EXCEPT ![b] = settings[b]]
      /\ entry' = [entry EXCEPT ![b] = None]
      /\ loads' = {Detached(l) : l \in loads}
      /\ late' = (late \/ (\E l \in loads : l.of = b) \/ (held # None /\ held.of = b))
      /\ patch'.of = b /\ b \in Branch
      /\ UNCHANGED <<shown, settings, modal, held, runner, ran>>
  BY DEF PatchReturns, counters, IInv, Asked, Rows
<1>2. told'[b] = settings[b] /\ \A c \in Branch \ {b} : told'[c] = told[c]
  BY <1>1 DEF IInv, Asked, Rows
<1>3. Rows' /\ Made'
  BY <1>1, <1>2 DEF IInv, Asked, Rows, Made, Maybe
<1>4. Cached'
  BY <1>1, <1>2 DEF IInv, Asked, Rows, Cached
<1>5. Loads' /\ Arriving'
  <2>1. ASSUME NEW k \in loads
        PROVE  /\ Detached(k) \in [of : Branch, read : BOOLEAN, v : Nat, attached : BOOLEAN,
                                   mounted : BOOLEAN]
               /\ Detached(k).read /\ Detached(k).attached => Detached(k).v >= told'[Detached(k).of]
    <3>1. k \in [of : Branch, read : BOOLEAN, v : Nat, attached : BOOLEAN, mounted : BOOLEAN]
      BY DEF IInv, Asked, Loads
    <3>2. /\ Detached(k).of = k.of /\ Detached(k).read = k.read /\ Detached(k).v = k.v
          /\ Detached(k).attached = (k.attached /\ k.of # b)
          /\ Detached(k).mounted = k.mounted
      BY <3>1
    <3>3. Detached(k) \in [of : Branch, read : BOOLEAN, v : Nat, attached : BOOLEAN,
                           mounted : BOOLEAN]
      BY <3>1
    <3>4. k.read /\ k.attached => k.v >= told[k.of]
      BY DEF IInv, Asked, Arriving
    <3>5. QED
      BY <1>2, <3>1, <3>2, <3>3, <3>4
  <2>2. \A l \in loads' : \E k \in loads : l = Detached(k)
    BY <1>1
  <2> HIDE DEF Detached
  <2>3. QED
    BY <2>1, <2>2 DEF Loads, Arriving
<1>6. Held'
  BY <1>1, <1>2 DEF IInv, Asked, Rows, Held
<1>7. Confirmed' /\ Answered'
  BY <1>1, RunnerKept DEF IInv
<1>8. QED
  BY <1>3, <1>4, <1>5, <1>6, <1>7 DEF IInv, Asked

-----------------------------------------------------------------------------
(* The dialog. *)

(* The dialog opens, from the cache or with a request. *)
LEMMA LoadConnectionKeeps ==
  ASSUME IInv, LoadConnection
  PROVE  IInv'
<1>1. /\ UNCHANGED <<shown, settings, told, patch, entry, modal, late, runner, ran>>
      /\ held = None
  BY DEF LoadConnection
<1>2. Rows' /\ Made' /\ Cached'
  BY <1>1 DEF IInv, Asked, Rows, Made, Cached
<1>3. Confirmed' /\ Answered'
  BY <1>1, RunnerKept DEF IInv
<1>4. CASE entry[modal] # None /\ held' = [of |-> modal, v |-> entry[modal]] /\ UNCHANGED loads
  <2>1. Loads' /\ Arriving'
    BY <1>1, <1>4 DEF IInv, Asked, Loads, Arriving
  <2>2. Held'
    BY <1>1, <1>4 DEF IInv, Asked, Rows, Cached, Held
  <2>3. QED
    BY <1>2, <1>3, <2>1, <2>2 DEF IInv, Asked
<1>5. CASE /\ loads' = {IF l.of = modal /\ l.attached THEN [l EXCEPT !.mounted = TRUE] ELSE l
                          : l \in loads}
           /\ UNCHANGED held
  <2>1. \A l \in loads' : \E k \in loads : l = k \/ l = [k EXCEPT !.mounted = TRUE]
    BY <1>5
  <2>2. \A k \in loads :
          LET l == [k EXCEPT !.mounted = TRUE]
          IN  /\ l \in [of : Branch, read : BOOLEAN, v : Nat, attached : BOOLEAN,
                        mounted : BOOLEAN]
              /\ l.of = k.of /\ l.read = k.read /\ l.v = k.v /\ l.attached = k.attached
    BY DEF IInv, Asked, Loads
  <2>3. Loads' /\ Arriving'
    BY <1>1, <2>1, <2>2 DEF IInv, Asked, Loads, Arriving
  <2>4. Held'
    BY <1>1, <1>5 DEF Held
  <2>5. QED
    BY <1>2, <1>3, <2>3, <2>4 DEF IInv, Asked
<1>6. CASE /\ loads' = loads \cup {[of |-> modal, read |-> FALSE, v |-> 0, attached |-> TRUE,
                                    mounted |-> TRUE]}
           /\ UNCHANGED held
  <2> DEFINE k == [of |-> modal, read |-> FALSE, v |-> 0, attached |-> TRUE, mounted |-> TRUE]
  <2>0. ~k.read /\ k \in [of : Branch, read : BOOLEAN, v : Nat, attached : BOOLEAN,
                           mounted : BOOLEAN]
    BY DEF IInv, Asked, Rows
  <2> HIDE DEF k
  <2>1. Loads' /\ Arriving'
    BY <1>1, <1>6, <2>0 DEF k, IInv, Asked, Loads, Arriving
  <2>2. Held'
    BY <1>1, <1>6 DEF Held
  <2>3. QED
    BY <1>2, <1>3, <2>1, <2>2 DEF IInv, Asked
<1>7. QED
  BY <1>4, <1>5, <1>6 DEF LoadConnection

(* The server reads the settings as they are by then. *)
LEMMA ReadConnectionKeeps ==
  ASSUME IInv, NEW l \in loads, ReadConnection(l)
  PROVE  IInv'
<1> DEFINE k == [l EXCEPT !.read = TRUE, !.v = settings[l.of]]
<1>1. /\ loads' = (loads \ {l}) \cup {k}
      /\ UNCHANGED <<shown, settings, told, patch, entry, modal, held, late, runner, ran>>
  BY DEF ReadConnection, counters
<1>2. l \in [of : Branch, read : BOOLEAN, v : Nat, attached : BOOLEAN, mounted : BOOLEAN]
  BY DEF IInv, Asked, Loads
<1>3. /\ k \in [of : Branch, read : BOOLEAN, v : Nat, attached : BOOLEAN, mounted : BOOLEAN]
      /\ k.of = l.of /\ k.v = settings[l.of]
  BY <1>2 DEF IInv, Asked, Rows
<1>4. k.v >= told[k.of]
  BY <1>2, <1>3 DEF IInv, Asked, Rows, Made
<1> HIDE DEF k
<1>5. Loads' /\ Arriving'
  BY <1>1, <1>3, <1>4 DEF IInv, Asked, Loads, Arriving
<1>6. Rows' /\ Made' /\ Cached' /\ Held'
  BY <1>1 DEF IInv, Asked, Rows, Made, Cached, Held
<1>7. QED
  BY <1>1, <1>5, <1>6, RunnerKept DEF IInv, Asked

(* An answer that is still wanted is as new as the last PATCH. *)
LEMMA DeliverConnectionKeeps ==
  ASSUME IInv, NEW l \in loads, DeliverConnection(l)
  PROVE  IInv'
<1>1. /\ l.read /\ loads' = loads \ {l}
      /\ entry' = IF l.attached THEN [entry EXCEPT ![l.of] = l.v] ELSE entry
      /\ UNCHANGED <<shown, settings, told, patch, modal, runner, ran>>
  BY DEF DeliverConnection, counters
<1>2. l \in [of : Branch, read : BOOLEAN, v : Nat, attached : BOOLEAN, mounted : BOOLEAN]
  BY DEF IInv, Asked, Loads
<1>3. l.attached => l.v >= told[l.of]
  BY <1>1 DEF IInv, Asked, Arriving
<1>4. Rows' /\ Cached'
  BY <1>1, <1>2, <1>3 DEF IInv, Asked, Rows, Cached, Maybe
<1>5. Loads' /\ Arriving' /\ Made'
  BY <1>1 DEF IInv, Asked, Loads, Arriving, Made
<1>6. Held' /\ (late => late')
  <2>1. CASE held' = [of |-> l.of, v |-> l.v] /\ late' = (late \/ l.of # modal \/ ~l.attached)
    BY <1>1, <1>3, <2>1 DEF Held
  <2>2. CASE UNCHANGED <<held, late>>
    BY <1>1, <2>2 DEF IInv, Asked, Held
  <2>3. QED
    BY <2>1, <2>2 DEF DeliverConnection
<1>7. QED
  BY <1>1, <1>4, <1>5, <1>6, RunnerKept DEF IInv, Asked

(* A request that fails leaves nothing behind. *)
LEMMA ConnectionFailsKeeps ==
  ASSUME IInv, NEW l \in loads, ConnectionFails(l)
  PROVE  IInv'
<1>1. /\ loads' = loads \ {l}
      /\ UNCHANGED <<shown, settings, told, patch, entry, modal, held, late, runner, ran>>
  BY DEF ConnectionFails, counters
<1>2. Asked'
  BY <1>1 DEF IInv, Asked, Rows, Loads, Made, Cached, Arriving, Held
<1>3. QED
  BY <1>1, <1>2, RunnerKept DEF IInv

-----------------------------------------------------------------------------
(* The SQL runner. *)

(* A statement that writes is sent with its confirmation. *)
LEMMA RunQueryKeeps ==
  ASSUME IInv, RunQuery
  PROVE  IInv'
<1>1. Asked'
  BY AskedKept DEF RunQuery, dialog, IInv, Asked, Rows
<1>2. Confirmed'
  <2> DEFINE r == [n |-> ran', of |-> shown, write |-> ~readOnly, mounted |-> TRUE, sure |-> sure]
  <2>1. /\ ran' = ran + 1 /\ runs' = runs \cup {r} /\ (readOnly \/ confirmed)
        /\ UNCHANGED <<readOnly, confirmed, sure>>
    BY DEF RunQuery
  <2>2. r \in Statement
    BY <2>1 DEF IInv, Asked, Rows, Confirmed, Statement
  <2>3. r.write => r.sure # None
    BY <2>1 DEF IInv, Confirmed
  <2> HIDE DEF r
  <2>4. QED
    BY <2>1, <2>2, <2>3 DEF IInv, Confirmed
<1>3. Answered'
  BY DEF RunQuery, Answered
<1>4. QED
  BY <1>1, <1>2, <1>3 DEF IInv

(* The answer shown is that of the last statement, or it was late. *)
LEMMA RunEndsKeeps ==
  ASSUME IInv, NEW r \in runs, RunEnds(r)
  PROVE  IInv'
<1>1. /\ runs' = runs \ {r} /\ (late => late')
      /\ UNCHANGED <<shown, settings, told, patch, dialog, readOnly, confirmed, sure, ran>>
  BY DEF RunEnds, counters
<1>2. Asked'
  <2>1. Rows' /\ Loads' /\ Made' /\ Cached' /\ Arriving'
    BY <1>1 DEF dialog, IInv, Asked, Rows, Loads, Made, Cached, Arriving
  <2>2. Held'
    BY <1>1 DEF dialog, IInv, Asked, Held
  <2>3. QED
    BY <2>1, <2>2 DEF Asked
<1>3. Confirmed'
  BY <1>1 DEF IInv, Confirmed
<1>4. Answered'
  BY <1>1 DEF RunEnds, IInv, Answered
<1>5. QED
  BY <1>2, <1>3, <1>4 DEF IInv

(* Read-only mode and its confirmation. *)
LEMMA ModeKeeps ==
  ASSUME Bounds, IInv, ToggleReadOnly \/ ConfirmWrites
  PROVE  IInv'
<1>1. UNCHANGED <<shown, settings, told, patch, dialog, late, runs, answer, ran>>
  BY DEF ToggleReadOnly, ConfirmWrites, counters
<1>2. Asked'
  BY <1>1, AskedKept DEF dialog, IInv, Asked, Rows
<1>3. Confirmed'
  BY <1>1 DEF Bounds, Maybe, ToggleReadOnly, ConfirmWrites, IInv, Asked, Rows, Confirmed
<1>4. Answered'
  BY <1>1 DEF IInv, Answered
<1>5. QED
  BY <1>2, <1>3, <1>4 DEF IInv

(* After a switch of view nobody waits for what is in flight. *)
LEMMA SelectViewKeeps ==
  ASSUME IInv, NEW v \in View, SelectView(v)
  PROVE  IInv'
<1>1. Asked'
  BY DialogEmptied DEF SelectView, IInv, Asked, Rows
<1>2. Confirmed'
  <2>1. /\ runs' = Unmounted(runs) /\ confirmed' = FALSE /\ readOnly' = TRUE /\ sure' = None
        /\ UNCHANGED ran
    BY DEF SelectView, counters
  <2>2. \A r \in runs' : \E s \in runs : r = [s EXCEPT !.mounted = FALSE]
    BY <2>1 DEF Unmounted
  <2>3. \A s \in runs :
          LET r == [s EXCEPT !.mounted = FALSE]
          IN  r \in Statement /\ r.write = s.write /\ r.sure = s.sure
    BY DEF IInv, Confirmed, Statement
  <2>4. runs' \subseteq Statement /\ \A r \in runs' : r.write => r.sure # None
    <3> SUFFICES ASSUME NEW r \in runs' PROVE r \in Statement /\ (r.write => r.sure # None)
      OBVIOUS
    <3>1. PICK s \in runs : r = [s EXCEPT !.mounted = FALSE]
      BY <2>2
    <3>2. r \in Statement /\ r.write = s.write /\ r.sure = s.sure
      BY <2>3, <3>1
    <3>3. s.write => s.sure # None
      BY DEF IInv, Confirmed
    <3>4. QED
      BY <3>2, <3>3
  <2>5. QED
    BY <2>1, <2>4 DEF IInv, Confirmed, Maybe
<1>3. Answered'
  BY DEF SelectView, Answered
<1>4. QED
  BY <1>1, <1>2, <1>3 DEF IInv

(* One step lemma for each action. *)
LEMMA Steps ==
  ASSUME Bounds, IInv, [Next]_vars
  PROVE  IInv'
<1>1. CASE UNCHANGED vars
  <2>1. UNCHANGED <<shown, settings, told, patch, dialog, late, runner, ran>>
    BY <1>1 DEF vars, counters
  <2>2. QED
    BY <2>1, AskedKept, RunnerKept DEF dialog, IInv, Asked, Rows
<1>2. ASSUME NEW b \in Branch, SelectBranch(b) \/ ChooseBranch(b) PROVE IInv'
  <2>1. /\ UNCHANGED <<settings, told, patch, entry, loads, late, runner, ran>>
        /\ shown' \in Branch /\ modal' \in Branch
        /\ held' = None \/ (modal' = modal /\ held' = held)
    BY <1>2 DEF SelectBranch, ChooseBranch, counters, IInv, Asked, Rows
  <2>2. CASE held' = None
    BY <2>1, <2>2, DialogEmptied, RunnerKept DEF IInv
  <2>3. CASE modal' = modal /\ held' = held
    BY <2>1, <2>3, AskedKept, RunnerKept DEF dialog, IInv, Asked, Rows
  <2>4. QED
    BY <2>1, <2>2, <2>3
<1>3. ASSUME NEW v \in View, SelectView(v) PROVE IInv'
  BY <1>3, SelectViewKeeps
<1>4. CASE SaveSettings \/ PatchFails
  <2>1. /\ UNCHANGED <<shown, settings, told, dialog, late, runner, ran>>
        /\ shown \in Branch /\ patch'.of \in Branch
    <3>1. CASE SaveSettings
      BY <3>1 DEF SaveSettings, IInv, Asked, Rows
    <3>2. CASE PatchFails
      BY <3>2 DEF PatchFails, counters, IInv, Asked, Rows
    <3>3. QED
      BY <1>4, <3>1, <3>2
  <2>2. QED
    BY <2>1, AskedKept, RunnerKept DEF dialog, IInv
<1>5. CASE PatchArrives
  BY <1>5, PatchArrivesKeeps
<1>6. CASE PatchReturns
  BY <1>6, PatchReturnsKeeps
<1>7. CASE LoadConnection
  BY <1>7, LoadConnectionKeeps
<1>8. ASSUME NEW l \in loads, ReadConnection(l) PROVE IInv'
  BY <1>8, ReadConnectionKeeps
<1>9. ASSUME NEW l \in loads, DeliverConnection(l) PROVE IInv'
  BY <1>9, DeliverConnectionKeeps
<1>10. ASSUME NEW l \in loads, ConnectionFails(l) PROVE IInv'
  BY <1>10, ConnectionFailsKeeps
<1>11. CASE ToggleReadOnly \/ ConfirmWrites
  BY <1>11, ModeKeeps
<1>12. CASE RunQuery
  BY <1>12, RunQueryKeeps
<1>13. ASSUME NEW r \in runs, RunEnds(r) PROVE IInv'
  BY <1>13, RunEndsKeeps
<1>14. QED
  BY <1>1, <1>2, <1>3, <1>4, <1>5, <1>6, <1>7, <1>8, <1>9, <1>10, <1>11, <1>12, <1>13 DEF Next

-----------------------------------------------------------------------------
(* Unless an answer overtook another, or came after a switch of branches   *)
(* or a PATCH, the dialog holds a connection of the branch it names, with  *)
(* the settings saved last; what writes was confirmed, and the answer on   *)
(* the screen is that of the last statement (connection dialog and         *)
(* sql-editor.tsx), for any branches and numbers of requests.              *)
THEOREM WhatIsShownWasAsked == ASSUME Bounds PROVE Spec => []ShownIsAsked
<1>1. IInv => ShownIsAsked
  BY DEF IInv, Asked, Held, Confirmed, Answered, ShownIsAsked
<1>2. Init => IInv
  BY Starts
<1>3. IInv /\ [Next]_vars => IInv'
  BY Steps
<1>4. QED
  BY <1>1, <1>2, <1>3, PTL DEF Spec
=============================================================================
