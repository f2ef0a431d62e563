----------------------------- MODULE MCWorkloads ----------------------------
(***************************************************************************)
(* WorkloadProvisioning in three turns, and the pages of a workload: its   *)
(* routes and its form.  Only the `active` one takes steps, so their state *)
(* spaces are added.  The turns of WorkloadProvisioning differ in what may *)
(* happen:                                                                 *)
(*   - turns: one request after the other, with attempts that outlive      *)
(*     their timeout and lost replies;                                     *)
(*   - overlap: requests of one workload overlap, and no fault;            *)
(*   - push: a push deploys two workloads that follow one branch.          *)
(***************************************************************************)
EXTENDS MCWorkloadProvisioning, Sequences

CONSTANTS
  w1, w2, q1, q2,                                                \* the turns
  Place, Platform, Ports, MaxDomains,                            \* Routes
  Text, Blank, MaxEdits, MaxWrites, MaxOthers                    \* Page

(* No port, or two of which the first is new. *)
SomePorts == {<<>>, <<81, 80>>}

ASSUME RouteAssumption == Platform \in Place /\ Ports \subseteq Seq(Nat)

ASSUME BoundsAssumption ==
  MaxEdits \in Nat /\ MaxWrites \in Nat /\ MaxOthers \in Nat

(* The empty string is none of the words of the configuration. *)
ASSUME PageAssumption ==
  Blank \notin {"container", "function", "image", "gitProvider", "git", "bundle"}

VARIABLES active,
          secure, status, ports, domains, omit, labels, observed, \* Routes
          stored, deployed, worker, cached, fetch, form, touched, call,
          clicked, saved, edits, writes, others                            \* Page

(* The platform's host name and another one. *)
Routes == INSTANCE Ingress

(* One text, two writes and three edits; with the save of another client,  *)
(* two edits.                                                              *)
Page == INSTANCE WorkloadForm WITH row <- stored

routeVars == <<secure, status, ports, domains, omit, labels, observed>>
formVars == <<stored, deployed, worker, cached, fetch, form, touched, call,
              clicked, saved, edits, writes, others>>
pageVars == <<routeVars, formVars>>

MCInit ==
  /\ active \in {"turns", "overlap", "push", "routes", "page"}
  /\ Init /\ Routes!Init /\ Page!Init
  /\ active # "routes" => ~secure /\ ports = <<>>

(* One request of a workload at a time. *)
InTurn ==
  \A w \in Workload, q \in Request : Engaged(q, w) =>
    \A p \in Request \ {q} : ~Engaged(p, w)

(* How far each turn goes. *)
Within ==
  CASE active = "turns" -> ~Here(w2) /\ InTurn
    [] active = "overlap" -> ~Here(w2) /\ races = 0 /\ losses = 0
    [] active = "push" -> InTurn /\ races = 0 /\ \A o \in Op : attempts[o] <= 1
    [] active = "page" -> others = 0 \/ edits < MaxEdits
    [] OTHER -> TRUE

MCNext ==
  /\ UNCHANGED active
  /\ \/ active \in {"turns", "overlap", "push"} /\ Next /\ Within' /\ UNCHANGED pageVars
     \/ active = "routes" /\ Routes!Next /\ UNCHANGED <<vars, formVars>>
     \/ active = "page" /\ Page!Next /\ Within' /\ UNCHANGED <<vars, routeVars>>

mcVars == <<vars, pageVars, active>>

MCSpec == MCInit /\ [][MCNext]_mcVars

(* Ingress: what is desired is routed, on a container that is enabled by   *)
(* exactly one of its rows, and not in the way of the platform's route but *)
(* where the domains ask for its host name with another port.              *)
DesiredIsServed ==
  active = "routes" => Routes!DesiredIsRouted /\ Routes!EnabledOnce /\ Routes!RoutersApart

(* WorkloadForm: Deploy Now deploys the form it was clicked on. *)
DeployedIsClicked == active = "page" => Page!DeployedIsClicked

(* WorkloadForm: the page at rest shows what was saved on it. *)
SavedStays == active = "page" => Page!SavedStays
=============================================================================
