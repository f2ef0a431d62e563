---------------------------- MODULE ServerDomain ----------------------------
(***************************************************************************)
(* The domain of the control plane itself: one row of settings, and the    *)
(* files Traefik reads, written one after the other by the PATCH that      *)
(* saves the row.  PATCHes may overlap, a write may fail, the API may end. *)
(*                                                                         *)
(* Simplifications: the rendered routes are the host and whether they have *)
(* TLS; upstream addresses come from the environment and do not change.    *)
(* Nor does the environment name another main configuration while it runs, *)
(* and when Traefik reads its files is Traefik's affair.                   *)
(***************************************************************************)
EXTENDS Naturals

CONSTANTS
  Host, Email,    \* what an administrator may enter
  Patcher,        \* PATCHes that may be at work at the same time
  MaxFaults,      \* bound: file or database errors, and crashes
  Null            \* null in the row, and "not set" in a body

VARIABLES
  settings,   \* the web_server_settings row
  routes,     \* openbika-control-plane.yml
  acme,       \* acme.json exists
  envEmail,   \* OPENBIKA_TRAEFIK_ACME_EMAIL in the compose environment
  mainConfig, \* OPENBIKA_TRAEFIK_MAIN_CONFIG: unset, a file that has no email
              \* line (as the one shipped), or one that has
  mainEmail,  \* the email in that line
  patch,      \* the PATCHes
  crowded,    \* PATCHes overlapped and none has run alone since
  faults

vars == <<settings, routes, acme, envEmail, mainConfig, mainEmail, patch, crowded, faults>>

HostOrNull == Host \cup {Null}
EmailOrNull == Email \cup {Null}
Certificate == {"none", "letsencrypt"}

Wanted == [host : HostOrNull, https : BOOLEAN, certificate : Certificate, email : EmailOrNull]

Unset == [host |-> Null, https |-> FALSE, certificate |-> "none", email |-> Null]

Idle == [step |-> "idle", wanted |-> Unset, alone |-> FALSE]

(* The web_server_settings row; its singleton index keeps it the only one. *)
Settings == [wanted : Wanted, status : {"not_configured", "applied", "failed"}]

TypeOK ==
  /\ settings \in Settings
  /\ routes \in [host : HostOrNull, tls : BOOLEAN]
  /\ acme \in BOOLEAN
  /\ mainConfig \in {"unset", "plain", "email"}
  /\ envEmail \in EmailOrNull /\ mainEmail \in EmailOrNull
  /\ patch \in [Patcher -> [step : {"idle", "save", "routes", "acme", "env", "main", "record", "failed"},
                            wanted : Wanted, alone : BOOLEAN]]
  /\ crowded \in BOOLEAN
  /\ faults \in 0 .. MaxFaults
  /\ settings.wanted.https => settings.wanted.host # Null

Init ==
  /\ settings = [wanted |-> Unset, status |-> "not_configured"]
  /\ routes = [host |-> Null, tls |-> FALSE]
  /\ acme = FALSE
  /\ mainConfig \in {"unset", "plain", "email"}
  /\ envEmail = Null /\ mainEmail = Null
  /\ patch = [a \in Patcher |-> Idle]
  /\ crowded = FALSE
  /\ faults = 0

Busy(a) == patch[a].step # "idle"

Goto(a, step) == patch' = [patch EXCEPT ![a].step = step]

UsesAcme(w) == w.https /\ w.certificate = "letsencrypt"

Rendered(w) == [host |-> w.host, tls |-> w.host # Null /\ UsesAcme(w)]

-----------------------------------------------------------------------------
(* A body: every field may be left out, host and email may be cleared.     *)
Given(S) == [set : {TRUE}, to : S] \cup [set : {FALSE}, to : {Null}]

Body == [host : Given(HostOrNull), https : Given(BOOLEAN),
         certificate : Given(Certificate), email : Given(EmailOrNull)]

Pick(field, current) == IF field.set THEN field.to ELSE current

(* What a body makes of the row the request has read: a certificate is not *)
(* taken over from the row, and there is none without https.               *)
Merged(body, current) ==
  LET https == Pick(body.https, current.https)
  IN [host |-> Pick(body.host, current.host),
      https |-> https,
      certificate |-> IF https THEN Pick(body.certificate, "letsencrypt") ELSE "none",
      email |-> Pick(body.email, current.email)]

Valid(w) == /\ w.https => w.host # Null
            /\ UsesAcme(w) => w.email # Null

(* The request reads the row, merges its body and checks what is wanted;   *)
(* the row of a body that is refused stays as it is.                       *)
Open(a) ==
  LET alone == \A o \in Patcher : ~Busy(o)
  IN /\ ~Busy(a)
     /\ \E wanted \in {Merged(body, settings.wanted) : body \in Body} :
          /\ Valid(wanted)
          /\ patch' = [o \in Patcher |->
                         IF o = a THEN [step |-> "save", wanted |-> wanted, alone |-> alone]
                         ELSE [patch[o] EXCEPT !.alone = FALSE]]
     /\ crowded' = (crowded \/ ~alone)
     /\ UNCHANGED <<settings, routes, acme, envEmail, mainConfig, mainEmail, faults>>

(* Mutant of Save: the status of the settings before stays. *)
SaveKeepingStatus(a) ==
  /\ patch[a].step = "save"
  /\ settings' = [settings EXCEPT !.wanted = patch[a].wanted]
  /\ Goto(a, "routes")
  /\ UNCHANGED <<routes, acme, envEmail, mainConfig, mainEmail, crowded, faults>>

(* The settings are saved before they are applied, as not configured yet. *)
Save(a) ==
  /\ patch[a].step = "save"
  /\ settings' = [wanted |-> patch[a].wanted, status |-> "not_configured"]
  /\ Goto(a, "routes")
  /\ UNCHANGED <<routes, acme, envEmail, mainConfig, mainEmail, crowded, faults>>

WriteRoutes(a) ==
  /\ patch[a].step = "routes"
  /\ routes' = Rendered(patch[a].wanted)
  /\ Goto(a, IF UsesAcme(patch[a].wanted) THEN "acme" ELSE "record")
  /\ UNCHANGED <<settings, acme, envEmail, mainConfig, mainEmail, crowded, faults>>

EnsureAcmeStorage(a) ==
  /\ patch[a].step = "acme"
  /\ acme' = TRUE
  /\ Goto(a, IF patch[a].wanted.email # Null THEN "env" ELSE "record")
  /\ UNCHANGED <<settings, routes, envEmail, mainConfig, mainEmail, crowded, faults>>

UpdateComposeEmail(a) ==
  /\ patch[a].step = "env"
  /\ envEmail' = patch[a].wanted.email
  /\ Goto(a, IF mainConfig = "unset" THEN "record" ELSE "main")
  /\ UNCHANGED <<settings, routes, acme, mainConfig, mainEmail, crowded, faults>>

(* Without a line that begins with email: the file is written back as it is. *)
UpdateMainEmail(a) ==
  /\ patch[a].step = "main"
  /\ mainEmail' = IF mainConfig = "email" THEN patch[a].wanted.email ELSE mainEmail
  /\ Goto(a, "record")
  /\ UNCHANGED <<settings, routes, acme, envEmail, mainConfig, crowded, faults>>

(* A file cannot be read or written: the rest is not applied. *)
ApplyThrows(a) ==
  /\ patch[a].step \in {"routes", "acme", "env", "main"}
  /\ faults < MaxFaults
  /\ faults' = faults + 1
  /\ Goto(a, "failed")
  /\ UNCHANGED <<settings, routes, acme, envEmail, mainConfig, mainEmail, crowded>>

Finish(a) ==
  /\ patch' = [patch EXCEPT ![a] = Idle]
  /\ crowded' = (crowded /\ ~patch[a].alone)
  /\ UNCHANGED <<routes, acme, envEmail, mainConfig, mainEmail, faults>>

MarkFailed(a) ==
  /\ patch[a].step = "failed"
  /\ settings' = [settings EXCEPT !.status = "failed"]
  /\ Finish(a)

Record(a) ==
  /\ patch[a].step = "record"
  /\ settings' = [settings EXCEPT !.status =
                    IF patch[a].wanted.host # Null THEN "applied" ELSE "not_configured"]
  /\ Finish(a)

(* A statement throws, or the process ends, anywhere. *)
Abort(a) ==
  /\ Busy(a)
  /\ faults < MaxFaults
  /\ faults' = faults + 1
  /\ patch' = [patch EXCEPT ![a] = Idle]
  /\ UNCHANGED <<settings, routes, acme, envEmail, mainConfig, mainEmail, crowded>>

Next ==
  \E a \in Patcher :
    \/ Open(a) \/ Save(a) \/ WriteRoutes(a) \/ EnsureAcmeStorage(a)
    \/ UpdateComposeEmail(a) \/ UpdateMainEmail(a)
    \/ ApplyThrows(a) \/ MarkFailed(a) \/ Record(a) \/ Abort(a)

Spec == Init /\ [][Next]_vars

-----------------------------------------------------------------------------
(* Whatever failed before, settings that are shown as applied are the ones *)
(* in the files Traefik is run with: the routes, and with TLS the storage  *)
(* of the certificates and the address for them, in the environment of the *)
(* compose project and in the main configuration where that has a place    *)
(* for it; unless PATCHes overlapped.                                      *)
AppliedIsServed ==
  settings.status = "applied" /\ ~crowded =>
    /\ routes = Rendered(settings.wanted)
    /\ UsesAcme(settings.wanted) =>
         /\ acme /\ envEmail = settings.wanted.email
         /\ mainConfig = "email" => mainEmail = settings.wanted.email

=============================================================================
