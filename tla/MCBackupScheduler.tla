------------------------- MODULE MCBackupScheduler -------------------------
(* Small instances of BackupScheduler. *)
EXTENDS BackupScheduler, TLC

CONSTANTS hourly, daily, broken

(* Matching minutes beyond MaxTime keep every valid expression from running *)
(* out of fire times inside the bound.                                      *)
MCFires == [c \in Cron |-> CASE c = hourly -> 1 .. 9
                              [] c = daily  -> {2, 4, 6, 8}
                              [] c = broken -> {}]

(* One process goes further alone than several beside each other do, whose *)
(* cron expressions parse: they have two minutes and one fault less.       *)
Within ==
  \/ unheard = {} /\ \E a \in Server : Alone(a)
  \/ /\ clock + 1 < MaxTime /\ faults < MaxFaults
     /\ \A s \in Schedule : sched[s].cron # broken

MCSymmetry == Permutations(Job) \cup Permutations(Server)
=============================================================================
