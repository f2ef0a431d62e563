---------------------------- MODULE GitProviders ----------------------------
(***************************************************************************)
(* Connections to GitHub, GitLab, Bitbucket and Gitea: the two rows of a   *)
(* provider, the OAuth callbacks, and the refresh of an expired token      *)
(* inside a request for repositories, branches or a test.  Requests are    *)
(* taken statement by statement and interleave.                            *)
(*                                                                         *)
(* Simplifications: the credentials of a provider (application id, secret, *)
(* URL, user name) are one field that matches the remote application or    *)
(* does not; names and the fields nothing reads are left out; the access   *)
(* checks of the routes always succeed.                                    *)
(***************************************************************************)
EXTENDS Naturals, FiniteSets

CONSTANTS
  Provider,   \* ids of providers
  Request,    \* handlers of the API that may be at work at the same time
  MaxGrants,  \* bound: tokens the remote applications issue
  MaxFaults   \* bound: requests cut short by an error or a crash

VARIABLES
  parent,   \* the git_providers row: not yet, there or gone, and its type
  child,    \* the row with the credentials of the type
  granted,  \* tokens issued so far; a token is its number, 0 is null
  live,     \* tokens the remote application still honours
  age,      \* what is left of an access token's lifetime
  req,      \* the requests
  cut,      \* providers that lost the answer of a refresh to a fault
  faults

vars == <<parent, child, granted, live, age, req, cut, faults>>

Token == 1 .. MaxGrants
Type == {"github", "gitlab", "bitbucket", "gitea"}
OAuth == {"gitlab", "gitea"}
Row == [there : BOOLEAN, matches : BOOLEAN, installed : BOOLEAN,
        access : 0 .. MaxGrants, refresh : 0 .. MaxGrants]

NoRow == [there |-> FALSE, matches |-> FALSE, installed |-> FALSE,
          access |-> 0, refresh |-> 0]

Step == {"idle", "detail", "exchange", "store", "refresh", "save", "call",
         "installation", "name", "edit", "delete"}

Idle == [step |-> "idle", op |-> "none", of |-> CHOOSE p \in Provider : TRUE,
         row |-> NoRow, token |-> 0, answer |-> "none",
         alone |-> FALSE, usable |-> FALSE]

TypeOK ==
  /\ parent \in [Provider -> [state : {"absent", "there", "gone"}, type : Type]]
  /\ child \in [Provider -> Row]
  /\ granted \in 0 .. MaxGrants
  /\ live \subseteq Token
  /\ age \in [Token -> {"fresh", "soon", "over"}]
  /\ req \in [Request ->
       [step : Step, op : {"none", "read", "create", "connect", "setup", "edit", "delete"},
        of : Provider, row : Row, token : 0 .. MaxGrants,
        answer : {"none", "ok", "refused", "remote", "cut"},
        alone : BOOLEAN, usable : BOOLEAN]]
  /\ cut \subseteq Provider
  /\ faults \in 0 .. MaxFaults
  /\ \A p \in Provider : child[p].there => parent[p].state = "there"

Init ==
  /\ \E type \in [Provider -> Type] :
       parent = [p \in Provider |-> [state |-> "absent", type |-> type[p]]]
  /\ child = [p \in Provider |-> NoRow]
  /\ granted = 0
  /\ live = {}
  /\ age = [g \in Token |-> "fresh"]
  /\ req = [q \in Request |-> Idle]
  /\ cut = {}
  /\ faults = 0

-----------------------------------------------------------------------------
(* The remote applications. *)

(* GitLab revokes a grant when its refresh token is used, Gitea does not. *)
RotatesTokens(type) == type = "gitlab"

Issue(g) == granted' = granted + 1 /\ g = granted + 1 /\ g \in Token

(* A refresh token is good with the application it was issued to. *)
HonoursRefresh(row) == row.refresh \in live /\ row.matches

(* And an access token until it is over. *)
HonoursAccess(row) == row.access \in live /\ age[row.access] # "over" /\ row.matches

(* A token comes within a minute of its end, then reaches it.  A request   *)
(* that has checked its token, or just received it, calls within a minute. *)
InHand(g) ==
  \E q \in Request : req[q].token = g \/ (req[q].step = "call" /\ req[q].row.access = g)

GrowOld(g) ==
  /\ g <= granted
  /\ age[g] # "over"
  /\ age[g] = "soon" => ~InHand(g)
  /\ age' = [age EXCEPT ![g] = IF @ = "fresh" THEN "soon" ELSE "over"]
  /\ UNCHANGED <<parent, child, granted, live, req, cut, faults>>

-----------------------------------------------------------------------------
(* What the rows say. *)

(* isReady of the list of providers. *)
Ready(type, row) ==
  row.there /\ CASE type = "github" -> row.installed
                 [] type = "gitlab" -> row.access # 0 /\ row.refresh # 0
                 [] type = "gitea" -> row.access # 0
                 [] OTHER -> TRUE

(* The conditions under which a helper answers 400 before any call. *)
LacksCredentials(type, row) ==
  \/ type = "github" /\ ~row.installed
  \/ type \in OAuth /\ row.access = 0

(* The access token expires in less than 60 seconds. *)
Expires(type, row) == type \in OAuth /\ age[row.access] # "fresh"

-----------------------------------------------------------------------------
(* Requests. *)

Busy(p, q) == req[q].step # "idle" /\ req[q].of = p

(* A request arrives; whoever works on the same provider is not alone.     *)
Arrive(q, p, op, step, row, usable) ==
  req' = [r \in Request |->
            CASE r = q -> [Idle EXCEPT !.op = op, !.of = p, !.step = step, !.row = row,
                             !.alone = \A o \in Request : ~Busy(p, o), !.usable = usable]
              [] r # q /\ Busy(p, r) -> [req[r] EXCEPT !.alone = FALSE]
              [] OTHER -> req[r]]

Goto(q, step, row, token) ==
  req' = [req EXCEPT ![q].step = step, ![q].row = row, ![q].token = token]

(* A request ends; of a read, its answer is kept. *)
Answer(q, answer) ==
  req' = [req EXCEPT ![q] =
            [Idle EXCEPT !.answer = IF req[q].op = "read" THEN answer ELSE "none"]]

(* loadGitProviderRow found both rows. *)
Loaded(p) == parent[p].state = "there" /\ child[p].there

(* GET repositories, GET branches and POST test read the rows once, and    *)
(* work with this copy; what fails is an error, or the message of a test.  *)
Read(q, p) ==
  LET type == parent[p].type
      row == child[p]
      usable == /\ Ready(type, row) /\ row.matches
                /\ type \in OAuth => row.access \in live /\ row.refresh \in live
  IN /\ req[q].step = "idle"
     /\ IF Loaded(p) /\ ~LacksCredentials(type, row)
        THEN Arrive(q, p, "read", IF Expires(type, row) THEN "refresh" ELSE "call", row, usable)
        ELSE req' = [req EXCEPT ![q].answer = "refused"]
     /\ UNCHANGED <<parent, child, granted, live, age, cut, faults>>

(* refreshGitlabToken, refreshGiteaToken: an accepted refresh gives a new  *)
(* pair of tokens; a refused one leaves the request with the row it had.   *)
Refresh(q) ==
  LET row == req[q].row
      rotated == IF RotatesTokens(parent[req[q].of].type) THEN {row.refresh} ELSE {}
  IN /\ req[q].step = "refresh"
     /\ \/ /\ HonoursRefresh(row)
           /\ \E g \in Token : Issue(g) /\ live' = (live \ rotated) \cup {g} /\ Goto(q, "save", row, g)
        \/ /\ ~HonoursRefresh(row)
           /\ Goto(q, "call", row, 0)
           /\ UNCHANGED <<granted, live>>
     /\ UNCHANGED <<parent, child, age, cut, faults>>

(* Mutant of WithTokens: the refresh token that came with the first access *)
(* token is kept.                                                          *)
WithAccess(row, g) == [row EXCEPT !.access = g, !.refresh = IF @ = 0 THEN g ELSE @]

(* One update of the row that has both tokens and the expiry. *)
WithTokens(row, g) == [row EXCEPT !.access = g, !.refresh = g]

SaveTokens(p, g) ==
  child' = IF child[p].there THEN [child EXCEPT ![p] = WithTokens(@, g)] ELSE child

(* Mutant of Returned: the request goes on with the row it read. *)
RowRead(q) == req[q].row

(* The request goes on with the row the update returned, or with its old   *)
(* copy when the row is gone.                                              *)
Returned(q) == IF child'[req[q].of].there THEN child'[req[q].of] ELSE req[q].row

SaveRefreshed(q) ==
  /\ req[q].step = "save"
  /\ SaveTokens(req[q].of, req[q].token)
  /\ Goto(q, "call", Returned(q), 0)
  /\ UNCHANGED <<parent, granted, live, age, cut, faults>>

(* The repositories or the branches, asked for with the row in hand: what  *)
(* is refused ends the request with a 502.                                 *)
Call(q, type, accepted) ==
  /\ req[q].step = "call"
  /\ parent[req[q].of].type = type
  /\ Answer(q, IF accepted THEN "ok" ELSE "remote")
  /\ UNCHANGED <<parent, child, granted, live, age, cut, faults>>

(* GitHub gives a token of the installation first, Bitbucket takes the     *)
(* user's secret, GitLab and Gitea the access token.                       *)
ListGithub(q) == Call(q, "github", req[q].row.installed /\ req[q].row.matches)

ListGitlab(q) == Call(q, "gitlab", HonoursAccess(req[q].row))

ListBitbucket(q) == Call(q, "bitbucket", req[q].row.matches)

ListGitea(q) == Call(q, "gitea", HonoursAccess(req[q].row))

(* POST of a provider, or the setup that GitHub redirects to: two inserts  *)
(* without a transaction.                                                  *)
Create(q, p) ==
  /\ req[q].step = "idle"
  /\ parent[p].state = "absent"
  /\ parent' = [parent EXCEPT ![p].state = "there"]
  /\ Arrive(q, p, "create", "detail", NoRow, FALSE)
  /\ UNCHANGED <<child, granted, live, age, cut, faults>>

CreateDetail(q, matches) ==
  LET p == req[q].of
  IN /\ req[q].step = "detail"
     /\ IF parent[p].state = "there"
        THEN /\ child' = [child EXCEPT ![p] = [NoRow EXCEPT !.there = TRUE, !.matches = matches]]
             /\ Answer(q, "ok")
        ELSE Answer(q, "refused") /\ UNCHANGED child
     /\ UNCHANGED <<parent, granted, live, age, cut, faults>>

(* The callback of the remote application, with a code to exchange. *)
Connect(q, p) ==
  /\ req[q].step = "idle"
  /\ Loaded(p) /\ parent[p].type \in OAuth
  /\ Arrive(q, p, "connect", "exchange", child[p], FALSE)
  /\ UNCHANGED <<parent, child, granted, live, age, cut, faults>>

Exchange(q) ==
  LET row == req[q].row
  IN /\ req[q].step = "exchange"
     /\ \/ /\ row.matches
           /\ \E g \in Token : Issue(g) /\ live' = live \cup {g} /\ Goto(q, "store", row, g)
        \/ /\ ~row.matches
           /\ Answer(q, "remote")
           /\ UNCHANGED <<granted, live>>
     /\ UNCHANGED <<parent, child, age, cut, faults>>

StoreExchanged(q) ==
  /\ req[q].step = "store"
  /\ SaveTokens(req[q].of, req[q].token)
  /\ Answer(q, "ok")
  /\ UNCHANGED <<parent, granted, live, age, cut, faults>>

(* GitHub redirects here once the application is installed. *)
Setup(q, p) ==
  /\ req[q].step = "idle"
  /\ Loaded(p) /\ parent[p].type = "github"
  /\ Arrive(q, p, "setup", "installation", NoRow, FALSE)
  /\ UNCHANGED <<parent, child, granted, live, age, cut, faults>>

SetInstallation(q) ==
  LET p == req[q].of
  IN /\ req[q].step = "installation"
     /\ child' = IF child[p].there THEN [child EXCEPT ![p].installed = TRUE] ELSE child
     /\ Answer(q, "ok")
     /\ UNCHANGED <<parent, granted, live, age, cut, faults>>

(* PATCH of a provider: the credentials it sets, right or wrong ones, and  *)
(* none of the tokens.                                                     *)
Edit(q, p) ==
  /\ req[q].step = "idle"
  /\ Loaded(p)
  /\ Arrive(q, p, "edit", "edit", NoRow, FALSE)
  /\ UNCHANGED <<parent, child, granted, live, age, cut, faults>>

SetCredentials(q, matches) ==
  LET p == req[q].of
  IN /\ req[q].step = "edit"
     /\ child' = IF child[p].there THEN [child EXCEPT ![p].matches = matches] ELSE child
     /\ Answer(q, "ok")
     /\ UNCHANGED <<parent, granted, live, age, cut, faults>>

(* DELETE of a provider takes its credentials with it. *)
Delete(q, p) ==
  /\ req[q].step = "idle"
  /\ parent[p].state = "there"
  /\ Arrive(q, p, "delete", "delete", NoRow, FALSE)
  /\ UNCHANGED <<parent, child, granted, live, age, cut, faults>>

RemoveRows(q) ==
  LET p == req[q].of
  IN /\ req[q].step = "delete"
     /\ parent' = [parent EXCEPT ![p].state = "gone"]
     /\ child' = [child EXCEPT ![p] = NoRow]
     /\ Answer(q, "ok")
     /\ UNCHANGED <<granted, live, age, cut, faults>>

(* A statement or a fetch throws, or the process ends. *)
Fail(q) ==
  /\ req[q].step # "idle"
  /\ faults < MaxFaults
  /\ faults' = faults + 1
  /\ cut' = IF req[q].step = "save" THEN cut \cup {req[q].of} ELSE cut
  /\ Answer(q, "cut")
  /\ UNCHANGED <<parent, child, granted, live, age>>

Next ==
  \/ \E g \in Token : GrowOld(g)
  \/ \E q \in Request :
       \/ Refresh(q) \/ SaveRefreshed(q) \/ Exchange(q) \/ StoreExchanged(q)
       \/ ListGithub(q) \/ ListGitlab(q) \/ ListBitbucket(q) \/ ListGitea(q)
       \/ SetInstallation(q) \/ RemoveRows(q) \/ Fail(q)
       \/ \E matches \in BOOLEAN : CreateDetail(q, matches) \/ SetCredentials(q, matches)
       \/ \E p \in Provider :
            \/ Create(q, p) \/ Connect(q, p) \/ Setup(q, p) \/ Edit(q, p) \/ Delete(q, p)
            \/ Read(q, p)

Spec == Init /\ [][Next]_vars

-----------------------------------------------------------------------------
(* Whatever requests overlap, the refresh token in the row is one the      *)
(* remote application still honours, or a request holds its successor and  *)
(* is about to save it; only a fault right there loses the connection.     *)
StoredTokenRefreshes ==
  \A p \in Provider \ cut :
    child[p].refresh # 0 =>
      \/ child[p].refresh \in live
      \/ \E q \in Request :
           /\ req[q].step = "save" /\ req[q].of = p
           /\ req[q].row.refresh = child[p].refresh /\ req[q].token \in live

(* A request to a provider that is shown ready, matches its remote         *)
(* application and has tokens this one honours, and that no other request  *)
(* overlaps, is answered, whether or not the access token has expired.     *)
LoneReadSucceeds ==
  [][\A q \in Request :
       req[q].alone /\ req[q].usable /\ req'[q].step = "idle" => req'[q].answer \in {"ok", "cut"}]_vars
=============================================================================
