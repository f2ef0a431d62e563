----------------------------- MODULE MCBranches -----------------------------
(***************************************************************************)
(* BranchLifecycle in four turns, and the pages of a branch: the tables,   *)
(* the connections and the SQL runner.  Only the `active` one takes steps, *)
(* so their state spaces are added.  The turns of BranchLifecycle differ   *)
(* in what may happen:                                                     *)
(*   - turns: a clone and a restore, one operation of a branch after the   *)
(*     other, with a crash or a failed statement, and none expires;        *)
(*   - overlap: the two may overlap, each has one attempt; or the clone    *)
(*     alone, with a start that is not heard of or a timeout;              *)
(*   - restores: two restores of one branch that may overlap, one of them  *)
(*     with attempts that outlive their timeout;                           *)
(*   - family: branches cloned from a primary one or from each other, all  *)
(*     at once, expiring.                                                  *)
(***************************************************************************)
EXTENDS MCBranchLifecycle

CONSTANTS main, b1, b2, r1, r2, t1, t2, k1, k2

ASSUME PageAssumption == None \notin Nat /\ None \notin {b1, b2}

VARIABLES active,
          table, preview, drafts, picked, loads, write, swapped,
          loaded, written, changed,                                    \* Tables
          shown, view, settings, told, patch, entry, modal, held, links, late,
          readOnly, confirmed, sure, runs, answer, patched, linked, ran \* Console

(* Two tables with two rows: up to three previews, two writes and a change *)
(* of the schema, four of them in all.                                     *)
Tables ==
  INSTANCE TablesStudio WITH
    Table <- {t1, t2}, First <- t1, Key <- {k1, k2},
    MaxLoads <- 3, MaxWrites <- 2, MaxSchemas <- 1,
    shown <- table

(* Two branches: the connections, with one change of settings, and two     *)
(* statements in the SQL runner.                                           *)
Connect ==
  INSTANCE BranchConsole WITH
    Branch <- {b1, b2}, First <- b1, MaxPatches <- 1, MaxLoads <- 2, MaxRuns <- 0,
    loads <- links, loaded <- linked

Runner ==
  INSTANCE BranchConsole WITH
    Branch <- {b1, b2}, First <- b1, MaxPatches <- 0, MaxLoads <- 0, MaxRuns <- 2,
    loads <- links, loaded <- linked

tableVars == <<table, preview, drafts, picked, loads, write, swapped, loaded, written, changed>>
consoleVars == <<shown, view, settings, told, patch, entry, modal, held, links, late,
                 readOnly, confirmed, sure, runs, answer, patched, linked, ran>>
pageVars == <<tableVars, consoleVars>>

MCInit ==
  /\ active \in {"turns", "overlap", "restores", "family", "tables", "connect", "runner"}
  /\ Init /\ Tables!Init /\ Connect!Init

(* The branches and restore jobs that are there. *)
Only(B, R) ==
  /\ \A b \in Branch \ B : branch[b].status = "absent"
  /\ \A r \in Restore \ R : restore[r].status = "absent"

InTurn ==
  \A o \in Op : Open(o) => \A p \in Op \ {o} : Open(p) => Touches(o) \cap Touches(p) = {}

NoData == dump = [d \in Backup |-> None] /\ lostDest = {} /\ \A b \in Branch : disk[b] \in {None, {}}

(* How far each turn goes. *)
Within ==
  CASE active = "turns" -> /\ Only({main, b1}, {r1}) /\ InTurn /\ races = 0
                           /\ \A b \in Branch : ~branch[b].expires
    [] active = "overlap" -> /\ Only({main, b1}, IF races = 0 THEN {r1} ELSE {})
                             /\ losses = 0 /\ \A o \in Op : attempts[o] <= 1
    [] active = "restores" -> Only({main}, {r1, r2}) /\ losses = 0 /\ attempts[r2] <= 1
    [] active = "family" -> Only({main, b1, b2}, {}) /\ NoData /\ losses = 0 /\ races = 0
    [] OTHER -> TRUE

MCNext ==
  /\ UNCHANGED active
  /\ \/ /\ active \in {"turns", "overlap", "restores", "family"}
        /\ Next /\ Within' /\ UNCHANGED pageVars
     \/ /\ active = "tables"
        /\ Tables!Next /\ loaded' + written' + changed' <= 4 /\ UNCHANGED <<vars, consoleVars>>
     \/ active = "connect" /\ Connect!Next /\ UNCHANGED <<vars, tableVars>>
     \/ active = "runner" /\ Runner!Next /\ UNCHANGED <<vars, tableVars>>

mcVars == <<vars, pageVars, active>>

MCSpec == MCInit /\ [][MCNext]_mcVars

(* Nothing is claimed of the console after an answer that was late. *)
InTime == ~late

(* TablesStudio: writes reach the rows that were edited or selected. *)
WritesHitTheirRows == active = "tables" => Tables!WritesHitTheirRows

(* BranchConsole: what is shown and run is what was asked for. *)
ShownIsAsked ==
  /\ active = "connect" => Connect!ShownIsAsked
  /\ active = "runner" => Runner!ShownIsAsked
=============================================================================
