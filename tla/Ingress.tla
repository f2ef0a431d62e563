------------------------------- MODULE Ingress -------------------------------
(***************************************************************************)
(* The HTTP routes of one workload, from the Domains panel through PATCH   *)
(* domains to the Traefik labels of the container and back: the routes the *)
(* worker applied are stored, and the panel merges them with the ones that *)
(* are desired.                                                            *)
(*                                                                         *)
(* Simplifications: Traefik routing is on, and API and worker agree on the *)
(* host name the platform gives the workload; a host name and a path, both *)
(* normalised, are one place; the panel shows the current row and a        *)
(* workload has one deployment at a time (requests that overlap are module *)
(* WorkloadProvisioning).                                                  *)
(***************************************************************************)
EXTENDS Naturals, Sequences, SequencesExt

CONSTANTS
  Place,        \* host names with a path
  Platform,     \* the one the platform gives, at the path /
  Ports,        \* declared listen ports, lists that a configuration may have
  MaxDomains    \* MAX_WORKLOAD_INGRESS_DOMAINS, 20 in the code

VARIABLES
  secure,       \* traefikRedirectsHttpToHttps: does port 80 redirect?
  status,
  ports,        \* desiredState.ports, or the default of a function
  domains,      \* desiredState.ingress.domains
  omit,         \* desiredState.ingress.omitPlatformHostname
  labels,       \* the routers on the container, one per row
  observed      \* observedState.ingressRoutes

vars == <<secure, status, ports, domains, omit, labels, observed>>

Port == UNION {ToSet(list) : list \in Ports}
Row == [at : Place, port : Port, https : BOOLEAN]
Rows == UNION {[1 .. n -> Row] : n \in 0 .. MaxDomains}

TypeOK ==
  /\ secure \in BOOLEAN
  /\ status \in {"draft", "provisioning", "available", "failed"}
  /\ ports \in Ports
  /\ domains \in Rows /\ IsInjective(domains)
  /\ omit \in BOOLEAN
  /\ \A i \in DOMAIN labels : labels[i] \in [row : Row, bootstrap : BOOLEAN]
  /\ ToSet(observed) \subseteq Row

Init ==
  /\ secure \in BOOLEAN
  /\ status = "draft"
  /\ ports \in Ports
  /\ domains = <<>> /\ omit = FALSE
  /\ labels = <<>> /\ observed = <<>>

-----------------------------------------------------------------------------
(* What the worker derives from the desired state. *)

MatchesPlatform(row) == row.at = Platform /\ row.port = Head(ports)

(* Mutant of Shadowed: a row without HTTPS is taken for another one. *)
ShadowedByHttps == \E i \in DOMAIN domains : MatchesPlatform(domains[i]) /\ domains[i].https

(* customsShadowPlatformIngress *)
Shadowed == \E i \in DOMAIN domains : MatchesPlatform(domains[i])

PlatformRow == [at |-> Platform, port |-> Head(ports), https |-> TRUE]

PlatformRows == IF ~Shadowed /\ ~omit THEN <<PlatformRow>> ELSE <<>>

(* customRedundantWithDefaultPlatformHttps *)
Redundant(row) == ~Shadowed /\ MatchesPlatform(row) /\ row.https

(* customsForIngress: redundant rows are skipped. *)
Customs ==
  IF \E row \in ToSet(domains) : Redundant(row)
  THEN SelectSeq(domains, LAMBDA row : ~Redundant(row))
  ELSE domains

(* labelSpecs: traefik.enable goes with the platform's row or, without it, *)
(* with the first custom row.                                              *)
Labels ==
  [i \in DOMAIN PlatformRows |-> [row |-> PlatformRows[i], bootstrap |-> TRUE]]
  \o [i \in DOMAIN Customs |->
       [row |-> Customs[i], bootstrap |-> (Shadowed \/ omit) /\ i = 1]]

(* ingressRoutes: HTTPS only where port 80 redirects to it. *)
AppliedRoutes ==
  LET rows == PlatformRows \o Customs
  IN [i \in DOMAIN rows |-> [rows[i] EXCEPT !.https = @ /\ secure]]

-----------------------------------------------------------------------------
(* The worker. *)

(* The row keeps the routes it has when none is applied. *)
Provision ==
  /\ status = "provisioning"
  /\ ports # <<>>
  /\ labels' = Labels
  /\ observed' = IF AppliedRoutes = <<>> THEN observed ELSE AppliedRoutes
  /\ status' = "available"
  /\ UNCHANGED <<secure, ports, domains, omit>>

(* The old container is removed before anything of this is known. *)
ProvisionFails ==
  /\ status = "provisioning"
  /\ labels' = <<>>
  /\ status' = "failed"
  /\ UNCHANGED <<secure, ports, domains, omit, observed>>

-----------------------------------------------------------------------------
(* The API. *)

(* PATCH config keeps the ingress of the previous desired state. *)
PatchConfig(list) ==
  /\ ports' = list
  /\ status' = "draft"
  /\ UNCHANGED <<secure, domains, omit, labels, observed>>

Redeploy ==
  /\ status' = "provisioning"
  /\ UNCHANGED <<secure, ports, domains, omit, labels, observed>>

(* PATCH domains answers 400 when a row has a port that is not declared.   *)
Accepts(rows) == \A i \in DOMAIN rows : rows[i].port \in ToSet(ports)

SaveDomains(rows, omitToo) ==
  IF Accepts(rows)
  THEN /\ domains' = rows
       /\ omit' = (omit \/ omitToo)
       /\ status' = "provisioning"
       /\ UNCHANGED <<secure, ports, labels, observed>>
  ELSE UNCHANGED vars

-----------------------------------------------------------------------------
(* The Domains panel, whose buttons are disabled while provisioning. *)

Busy == status = "provisioning"

(* workloadIngressDedupeKey compares every field of a row. *)
Desired(row) == row \in ToSet(domains)

(* The rows of the panel: what is applied, then what is only desired. *)
Listed == ToSet(observed) \cup ToSet(domains)

AddDomain(row) ==
  /\ ~Busy
  /\ Len(domains) < MaxDomains
  /\ row.port \in ToSet(ports)
  /\ ~Desired(row)
  /\ SaveDomains(Append(domains, row), FALSE)

(* The rows are distinct: filtering one out leaves the others.             *)
Without(row) ==
  LET i == CHOOSE i \in DOMAIN domains : domains[i] = row
  IN RemoveAt(domains, i)

(* A row that is desired is taken out; any other is taken for the one of   *)
(* the platform.                                                           *)
RemoveRow(row) ==
  /\ ~Busy
  /\ row \in Listed
  /\ IF Desired(row)
     THEN SaveDomains(Without(row), FALSE)
     ELSE SaveDomains(domains, TRUE)

Next ==
  \/ Provision \/ ProvisionFails \/ Redeploy
  \/ \E list \in Ports : PatchConfig(list)
  \/ \E row \in Row : AddDomain(row) \/ RemoveRow(row)

Spec == Init /\ [][Next]_vars

-----------------------------------------------------------------------------
(* Traefik sees a container with routes, and sees it once: exactly one of  *)
(* its rows carries traefik.enable.                                        *)
EnabledOnce ==
  labels # <<>> => \E i \in DOMAIN labels : \A j \in DOMAIN labels : labels[j].bootstrap <=> i = j

(* Whatever was added, removed, reconfigured and redeployed before, an     *)
(* available workload serves every domain that is desired and, unless it   *)
(* was given up, the platform's host name on the first declared port.      *)
DesiredIsRouted ==
  LET routed == {labels[i].row : i \in DOMAIN labels}
  IN status = "available" =>
       /\ ToSet(domains) \subseteq routed
       /\ ~omit => \E row \in routed : MatchesPlatform(row)

(* "so we never register two routers for one Host(:80)", says              *)
(* docker-runtime.ts of the platform's row.  Every row has a router on     *)
(* port 80, and Traefik sends the requests of two with one rule to either. *)
(* What the code keeps of it: on an available workload a desired row       *)
(* shares its place with rows that are desired as well, and with the       *)
(* platform's row only when it is on the platform's host name with a port  *)
(* that is not the first one.                                              *)
RoutersApart ==
  status = "available" =>
    \A i, j \in DOMAIN labels :
      i # j /\ labels[i].row.at = labels[j].row.at =>
        \A row \in {labels[i].row, labels[j].row} :
          \/ row \in ToSet(domains)
          \/ row = PlatformRow /\ \E other \in ToSet(domains) :
                                   other.at = Platform /\ other.port # Head(ports)
=============================================================================
