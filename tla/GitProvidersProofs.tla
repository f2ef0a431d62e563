-------------------------- MODULE GitProvidersProofs --------------------------
(***************************************************************************)
(* What GitProviders guarantees for every set of providers and of requests *)
(* that overlap, and every number of tokens and faults: a connection stays *)
(* whatever overlaps, and what nothing overlaps is answered.               *)
(***************************************************************************)
EXTENDS GitProviders, TLAPS

(* The type invariant without the bounds of the tokens and the faults.  An *)
(* idle request may name no provider, where there is none.                 *)
Record == [there : BOOLEAN, matches : BOOLEAN, installed : BOOLEAN, access : Nat, refresh : Nat]

Handler == [step : Step, op : {"none", "read", "create", "connect", "setup", "edit", "delete"},
            of : Provider \cup {Idle.of}, row : Record, token : Nat,
            answer : {"none", "ok", "refused", "remote", "cut"},
            alone : BOOLEAN, usable : BOOLEAN]

Typed ==
  /\ granted \in Nat
  /\ child \in [Provider -> Record]
  /\ \A p \in Provider : ~child[p].there => child[p].refresh = 0
  /\ req \in [Request -> Handler]
  /\ \A q \in Request : req[q].step # "idle" => req[q].of \in Provider

(* Every refresh token a row, a copy of a row or a request has was issued. *)
Issued ==
  /\ \A p \in Provider : child[p].refresh <= granted
  /\ \A q \in Request : req[q].row.refresh <= granted /\ req[q].token <= granted

(* A refresh token is found with one provider only. *)
Owned ==
  /\ \A p, o \in Provider : p # o => child[p].refresh # child[o].refresh \/ child[p].refresh = 0
  /\ \A p \in Provider, q \in Request :
       req[q].of # p => req[q].row.refresh # child[p].refresh \/ child[p].refresh = 0
  /\ \A q, r \in Request :
       req[q].of # req[r].of => req[q].row.refresh # req[r].row.refresh \/ req[q].row.refresh = 0

Holds(q) == req[q].step \in {"save", "store"}

(* The token a request is about to save is good, and nobody else has it.   *)
Private ==
  \A q \in Request :
    IF Holds(q)
    THEN /\ req[q].token # 0 /\ req[q].token \in live
         /\ \A p \in Provider : child[p].refresh # req[q].token
         /\ \A r \in Request : req[r].row.refresh # req[q].token
         /\ \A r \in Request \ {q} : req[r].token # req[q].token
    ELSE req[q].token = 0

IInv == Typed /\ Issued /\ Owned /\ Private /\ StoredTokenRefreshes

-----------------------------------------------------------------------------
(* What the requests other than q keep of themselves. *)
OthersKeep(q) ==
  \A r \in Request \ {q} :
    /\ req'[r].step = req[r].step /\ req'[r].of = req[r].of
    /\ req'[r].row = req[r].row /\ req'[r].token = req[r].token
    /\ req'[r].op = req[r].op /\ req'[r].usable = req[r].usable
    /\ req'[r].alone => req[r].alone

(* Requests other than q stay as they are when q goes on or ends. *)
LEMMA GotoKeeps ==
  ASSUME Typed, NEW q \in Request, NEW step \in Step, NEW row \in Record, NEW token \in Nat,
         req[q].step # "idle", Goto(q, step, row, token)
  PROVE  /\ req' \in [Request -> Handler]
         /\ \A r \in Request : req'[r].step # "idle" => req'[r].of \in Provider
         /\ req'[q].step = step /\ req'[q].of = req[q].of
         /\ req'[q].row = row /\ req'[q].token = token
         /\ req'[q].op = req[q].op /\ req'[q].usable = req[q].usable
         /\ req'[q].alone = req[q].alone
         /\ OthersKeep(q)
<1> DEFINE new == [req[q] EXCEPT !.step = step, !.row = row, !.token = token]
<1>1. req[q] \in Handler /\ req[q].of \in Provider
  BY DEF Typed
<1>2. /\ new \in Handler
      /\ new.step = step /\ new.of = req[q].of /\ new.row = row /\ new.token = token
      /\ new.op = req[q].op /\ new.usable = req[q].usable /\ new.alone = req[q].alone
  BY <1>1 DEF Handler
<1>3. req' = [req EXCEPT ![q] = new]
  BY DEF Goto, Typed
<1> HIDE DEF new
<1>4. /\ req' \in [Request -> Handler] /\ req'[q] = new
      /\ \A r \in Request \ {q} : req'[r] = req[r]
  BY <1>2, <1>3 DEF Typed
<1>5. QED
  BY <1>1, <1>2, <1>4 DEF OthersKeep, Typed

(* A request that has ended has nothing. *)
LEMMA IdleType ==
  /\ NoRow \in Record /\ NoRow.refresh = 0
  /\ Idle \in Handler /\ Idle.step = "idle" /\ Idle.row = NoRow /\ Idle.token = 0
  /\ ~Idle.alone /\ ~Idle.usable /\ Idle.op = "none"
BY DEF NoRow, Record, Idle, Handler, Step

(* A request that ends changes no row. *)
LEMMA AnswerKeeps ==
  ASSUME Typed, NEW q \in Request, NEW answer \in {"ok", "refused", "remote", "cut"},
         Answer(q, answer)
  PROVE  /\ req' \in [Request -> Handler]
         /\ \A r \in Request : req'[r].step # "idle" => req'[r].of \in Provider
         /\ req'[q].step = "idle" /\ req'[q].row = NoRow /\ req'[q].token = 0
         /\ ~req'[q].alone /\ ~req'[q].usable
         /\ req[q].op = "read" => req'[q].answer = answer
         /\ OthersKeep(q)
<1>1. \A a \in {"none", "ok", "refused", "remote", "cut"} :
        [Idle EXCEPT !.answer = a] \in Handler
  BY IdleType DEF Handler
<1>2. PICK a \in {"none", "ok", "refused", "remote", "cut"} :
        /\ req' = [req EXCEPT ![q] = [Idle EXCEPT !.answer = a]]
        /\ req[q].op = "read" => a = answer
  BY DEF Answer
<1>3. [Idle EXCEPT !.answer = a] \in Handler
  BY <1>1
<1>4. req' \in [Request -> Handler]
  BY <1>2, <1>3 DEF Typed
<1>5. req'[q] = [Idle EXCEPT !.answer = a]
  BY <1>2 DEF Typed
<1>6. /\ req'[q].step = "idle" /\ req'[q].row = NoRow /\ req'[q].token = 0
      /\ ~req'[q].alone /\ ~req'[q].usable /\ req'[q].answer = a
  BY <1>5, IdleType DEF Idle
<1>7. \A r \in Request \ {q} : req'[r] = req[r]
  BY <1>2 DEF Typed
<1>8. QED
  BY <1>2, <1>4, <1>6, <1>7 DEF OthersKeep, Typed

(* A request arrives with the row of its provider, or with none. *)
LEMMA ArriveKeeps ==
  ASSUME Typed, NEW q \in Request, NEW p \in Provider, NEW row \in Record,
         NEW op \in {"none", "read", "create", "connect", "setup", "edit", "delete"},
         NEW step \in Step, NEW usable \in BOOLEAN,
         Arrive(q, p, op, step, row, usable)
  PROVE  /\ req' \in [Request -> Handler]
         /\ \A r \in Request : req'[r].step # "idle" => req'[r].of \in Provider
         /\ req'[q].step = step /\ req'[q].of = p /\ req'[q].row = row /\ req'[q].token = 0
         /\ req'[q].op = op /\ req'[q].usable = usable
         /\ req'[q].alone => \A o \in Request : ~Busy(p, o)
         /\ \A r \in Request \ {q} : Busy(p, r) => ~req'[r].alone
         /\ OthersKeep(q)
<1> DEFINE alone == \A o \in Request : ~Busy(p, o)
           new == [Idle EXCEPT !.op = op, !.of = p, !.step = step, !.row = row,
                     !.alone = alone, !.usable = usable]
<1>1. alone \in BOOLEAN
  OBVIOUS
<1>2. /\ new \in Handler /\ new.step = step /\ new.of = p /\ new.row = row /\ new.token = 0
      /\ new.op = op /\ new.usable = usable /\ (new.alone => alone)
  <2> HIDE DEF alone
  <2> QED
    BY <1>1, IdleType DEF Handler, Idle
<1>3. req'[q] = new
  BY DEF Arrive
<1>4. \A r \in Request \ {q} :
        req'[r] = IF Busy(p, r) THEN [req[r] EXCEPT !.alone = FALSE] ELSE req[r]
  BY DEF Arrive
<1> HIDE DEF new
<1>5. \A r \in Request \ {q} : req'[r] \in Handler
  <2> SUFFICES ASSUME NEW r \in Request \ {q} PROVE req'[r] \in Handler
    OBVIOUS
  <2>1. req[r] \in Handler
    BY DEF Typed
  <2>2. [req[r] EXCEPT !.alone = FALSE] \in Handler
    BY <2>1 DEF Handler
  <2>3. QED
    BY <1>4, <2>1, <2>2
<1>6. OthersKeep(q)
  BY <1>4 DEF Typed, Handler, OthersKeep
<1>7. req' \in [Request -> Handler]
  <2>1. req' = [r \in Request |-> req'[r]]
    BY DEF Arrive
  <2>2. \A r \in Request : req'[r] \in Handler
    BY <1>2, <1>3, <1>5
  <2>3. QED
    BY <2>1, <2>2
<1>8. \A r \in Request : req'[r].step # "idle" => req'[r].of \in Provider
  BY <1>2, <1>3, <1>6 DEF Typed, OthersKeep
<1>9. \A r \in Request \ {q} : Busy(p, r) => ~req'[r].alone
  BY <1>4 DEF Typed, Handler
<1>10. QED
  BY <1>2, <1>3, <1>6, <1>7, <1>8, <1>9

-----------------------------------------------------------------------------
(* A request takes a step that issues and saves no token: its row is the   *)
(* one it had, the one in the table or none, and rows of the table lose    *)
(* their tokens or keep them.  One about to save does so only to be cut.   *)
LEMMA QuietStep ==
  ASSUME IInv, NEW q \in Request, OthersKeep(q), Typed',
         UNCHANGED <<granted, live>>,
         cut \subseteq cut', req[q].step = "save" => req[q].of \in cut',
         \A p \in Provider : child'[p].refresh \in {0, child[p].refresh},
         req'[q].token = 0, req'[q].step \notin {"save", "store"},
         \/ req'[q].row.refresh = 0
         \/ req'[q].row = req[q].row /\ req'[q].of = req[q].of
         \/ req'[q].of \in Provider /\ req'[q].row = child[req'[q].of]
  PROVE  IInv'
<1>1. \A p \in Provider : child[p].refresh \in Nat /\ child'[p].refresh \in Nat
  BY DEF IInv, Typed, Record
<1>2. \A r \in Request : /\ req[r].row.refresh \in Nat /\ req[r].token \in Nat
                         /\ req'[r].row.refresh \in Nat /\ req'[r].token \in Nat
  BY DEF IInv, Typed, Record, Handler
<1>3. granted \in Nat
  BY DEF IInv, Typed
<1>4. Issued'
  <2>1. \A p \in Provider : child'[p].refresh <= granted
    BY <1>1, <1>3 DEF IInv, Issued
  <2>2. req'[q].row.refresh <= granted /\ req'[q].token <= granted
    BY <1>1, <1>2, <1>3 DEF IInv, Issued
  <2>3. \A r \in Request \ {q} : req'[r].row.refresh <= granted /\ req'[r].token <= granted
    BY DEF IInv, Issued, OthersKeep
  <2>4. QED
    BY <2>1, <2>2, <2>3 DEF Issued
<1>5. Owned'
  <2>1. \A p, o \in Provider :
          p # o => child'[p].refresh # child'[o].refresh \/ child'[p].refresh = 0
    BY DEF IInv, Owned
  <2>2. \A p \in Provider : req'[q].of # p =>
          req'[q].row.refresh # child'[p].refresh \/ child'[p].refresh = 0
    BY DEF IInv, Owned
  <2>3. \A p \in Provider, r \in Request \ {q} : req'[r].of # p =>
          req'[r].row.refresh # child'[p].refresh \/ child'[p].refresh = 0
    BY DEF IInv, Owned, OthersKeep
  <2>4. \A r \in Request \ {q} : req'[q].of # req'[r].of =>
          req'[q].row.refresh # req'[r].row.refresh \/ req'[q].row.refresh = 0
    BY DEF IInv, Owned, OthersKeep
  <2>5. \A r, s \in Request \ {q} : req'[r].of # req'[s].of =>
          req'[r].row.refresh # req'[s].row.refresh \/ req'[r].row.refresh = 0
    BY DEF IInv, Owned, OthersKeep
  <2>6. QED
    BY <2>1, <2>2, <2>3, <2>4, <2>5 DEF Owned
<1>6. Private'
  <2>1. ~Holds(q)'
    BY DEF Holds
  <2>2. \A r \in Request \ {q} : Holds(r)' <=> Holds(r)
    BY DEF Holds, OthersKeep
  <2>3. ASSUME NEW r \in Request \ {q}, Holds(r)
        PROVE  /\ req'[r].token # 0 /\ req'[r].token \in live
               /\ \A p \in Provider : child'[p].refresh # req'[r].token
               /\ \A s \in Request : req'[s].row.refresh # req'[r].token
               /\ \A s \in Request \ {r} : req'[s].token # req'[r].token
    <3>1. req'[r].token = req[r].token
      BY DEF OthersKeep
    <3>2. /\ req[r].token # 0 /\ req[r].token \in live
          /\ \A p \in Provider : child[p].refresh # req[r].token
          /\ \A s \in Request : req[s].row.refresh # req[r].token
          /\ \A s \in Request \ {r} : req[s].token # req[r].token
      BY <2>3 DEF IInv, Private
    <3>3. \A p \in Provider : child'[p].refresh # req[r].token
      BY <3>2
    <3>4. req'[q].row.refresh # req[r].token
      BY <3>2
    <3>5. QED
      BY <3>1, <3>2, <3>3, <3>4 DEF OthersKeep
  <2>4. ASSUME NEW r \in Request \ {q}, ~Holds(r)
        PROVE  req'[r].token = 0
    BY <2>4 DEF IInv, Private, OthersKeep
  <2>5. QED
    BY <2>1, <2>2, <2>3, <2>4 DEF Private
<1>7. StoredTokenRefreshes'
  <2> SUFFICES ASSUME NEW p \in Provider \ cut', child'[p].refresh # 0, child'[p].refresh \notin live
               PROVE  \E r \in Request :
                        /\ req'[r].step = "save" /\ req'[r].of = p
                        /\ req'[r].row.refresh = child'[p].refresh /\ req'[r].token \in live
    BY DEF StoredTokenRefreshes
  <2>1. p \in Provider \ cut /\ child'[p].refresh = child[p].refresh
    OBVIOUS
  <2>2. PICK r \in Request : /\ req[r].step = "save" /\ req[r].of = p
                             /\ req[r].row.refresh = child[p].refresh /\ req[r].token \in live
    BY <2>1 DEF IInv, StoredTokenRefreshes
  <2>3. r # q
    BY <2>2
  <2>4. QED
    BY <2>1, <2>2, <2>3 DEF OthersKeep
<1>8. QED
  BY <1>4, <1>5, <1>6, <1>7 DEF IInv

(* A request that has no token receives a new one, in exchange for the one *)
(* of its row or for a code, and is about to save it.                      *)
LEMMA IssueStep ==
  ASSUME IInv, NEW q \in Request, OthersKeep(q), Typed',
         UNCHANGED <<child, cut>>,
         NEW g, Issue(g), ~Holds(q), Holds(q)',
         NEW revoked, revoked \subseteq {req[q].row.refresh},
         live' = (live \ revoked) \cup {g},
         req'[q].step = "save" \/ revoked = {},
         req'[q].row = req[q].row, req'[q].of = req[q].of, req'[q].token = g
  PROVE  IInv'
<1>1. \A p \in Provider : child[p].refresh \in Nat
  BY DEF IInv, Typed, Record
<1>2. \A r \in Request : req[r].row.refresh \in Nat /\ req[r].token \in Nat
  BY DEF IInv, Typed, Record, Handler
<1>3. granted \in Nat /\ granted' = granted + 1 /\ g = granted + 1
  BY DEF IInv, Typed, Issue
<1>4. /\ \A p \in Provider : child[p].refresh # g
      /\ \A r \in Request : req[r].row.refresh # g /\ req[r].token # g
  <2>1. \A p \in Provider : child[p].refresh # g
    BY <1>1, <1>3 DEF IInv, Issued
  <2>2. \A r \in Request : req[r].row.refresh # g /\ req[r].token # g
    BY <1>2, <1>3 DEF IInv, Issued
  <2>3. QED
    BY <2>1, <2>2
<1>5. \A r \in Request : req'[r].row = req[r].row /\ req'[r].of = req[r].of
  BY DEF OthersKeep
<1>6. \A r \in Request \ {q} : req'[r].token = req[r].token /\ (Holds(r)' <=> Holds(r))
  BY DEF OthersKeep, Holds
<1>7. Issued'
  <2>1. \A p \in Provider : child'[p].refresh <= granted'
    BY <1>1, <1>3 DEF IInv, Issued
  <2>2. \A r \in Request : req'[r].row.refresh <= granted'
    BY <1>2, <1>3, <1>5 DEF IInv, Issued
  <2>3. \A r \in Request \ {q} : req'[r].token <= granted'
    BY <1>2, <1>3, <1>6 DEF IInv, Issued
  <2>4. req'[q].token <= granted'
    BY <1>3
  <2>5. QED
    BY <2>1, <2>2, <2>3, <2>4 DEF Issued
<1>8. Owned'
  BY <1>5 DEF IInv, Owned
<1>9. Private'
  <2>1. g # 0 /\ g \in live'
    BY <1>3
  <2>2. /\ \A p \in Provider : child'[p].refresh # g
        /\ \A r \in Request : req'[r].row.refresh # g
        /\ \A r \in Request \ {q} : req'[r].token # g
    BY <1>4, <1>5, <1>6
  <2>3. ASSUME NEW r \in Request \ {q}, Holds(r)
        PROVE  /\ req'[r].token # 0 /\ req'[r].token \in live'
               /\ \A p \in Provider : child'[p].refresh # req'[r].token
               /\ \A s \in Request : req'[s].row.refresh # req'[r].token
               /\ \A s \in Request \ {r} : req'[s].token # req'[r].token
    <3>1. /\ req[r].token # 0 /\ req[r].token \in live
          /\ \A p \in Provider : child[p].refresh # req[r].token
          /\ \A s \in Request : req[s].row.refresh # req[r].token
          /\ \A s \in Request \ {r} : req[s].token # req[r].token
      BY <2>3 DEF IInv, Private
    <3>2. QED
      BY <1>4, <1>5, <1>6, <3>1
  <2>4. \A r \in Request \ {q} : ~Holds(r) => req'[r].token = 0
    BY <1>6 DEF IInv, Private
  <2>5. QED
    BY <1>6, <2>1, <2>2, <2>3, <2>4 DEF Private
<1>10. StoredTokenRefreshes'
  <2> SUFFICES ASSUME NEW p \in Provider \ cut, child[p].refresh # 0, child[p].refresh \notin live'
               PROVE  \E r \in Request :
                        /\ req'[r].step = "save" /\ req'[r].of = p
                        /\ req'[r].row.refresh = child[p].refresh /\ req'[r].token \in live'
    BY DEF StoredTokenRefreshes
  <2>1. CASE child[p].refresh \in live
    <3>1. child[p].refresh = req[q].row.refresh /\ revoked # {}
      BY <2>1
    <3>2. req[q].of = p
      BY <3>1 DEF IInv, Owned
    <3>3. QED
      BY <3>1, <3>2
  <2>2. CASE child[p].refresh \notin live
    <3>1. PICK r \in Request : /\ req[r].step = "save" /\ req[r].of = p
                               /\ req[r].row.refresh = child[p].refresh /\ req[r].token \in live
      BY <2>2 DEF IInv, StoredTokenRefreshes
    <3>2. Holds(r) /\ r # q
      BY <3>1 DEF Holds
    <3>3. req[r].token # req[q].row.refresh
      BY <3>2 DEF IInv, Private
    <3>4. QED
      BY <3>1, <3>2, <3>3 DEF OthersKeep
  <2>3. QED
    BY <2>1, <2>2
<1>11. QED
  BY <1>7, <1>8, <1>9, <1>10 DEF IInv

(* A request saves the token it has in the row of its provider, where this *)
(* is still there, and has no token then.                                  *)
LEMMA SaveStep ==
  ASSUME IInv, NEW q \in Request, OthersKeep(q), Typed', Holds(q),
         UNCHANGED <<granted, live, cut>>,
         SaveTokens(req[q].of, req[q].token),
         req'[q].token = 0, ~Holds(q)',
         \/ req'[q].row.refresh = 0
         \/ /\ req'[q].of = req[q].of
            /\ \/ req'[q].row = req[q].row /\ ~child[req[q].of].there
               \/ req'[q].row = child'[req[q].of] /\ child'[req[q].of].there
  PROVE  IInv'
<1> DEFINE o == req[q].of
           g == req[q].token
<1>1. o \in Provider
  BY DEF IInv, Typed, Holds
<1>2. /\ g # 0 /\ g \in live
      /\ \A p \in Provider : child[p].refresh # g
      /\ \A r \in Request : req[r].row.refresh # g
      /\ \A r \in Request \ {q} : req[r].token # g
  BY DEF IInv, Private
<1>3. child'[o].refresh = (IF child[o].there THEN g ELSE 0)
      /\ \A p \in Provider \ {o} : child'[p].refresh = child[p].refresh
  <2>1. CASE ~child[o].there
    BY <1>1, <2>1 DEF IInv, Typed, SaveTokens
  <2>2. CASE child[o].there
    <3>1. child' = [child EXCEPT ![o] = WithTokens(@, g)]
      BY <2>2 DEF SaveTokens
    <3>2. QED
      BY <1>1, <2>2, <3>1 DEF IInv, Typed, Record, WithTokens
  <2>3. QED
    BY <2>1, <2>2
<1>4. \/ req'[q].row.refresh = 0
      \/ req'[q].of = o /\ req'[q].row.refresh \in {g, req[q].row.refresh}
         /\ (req'[q].row.refresh # g => ~child[o].there)
  <2>1. CASE req'[q].of = o /\ req'[q].row = req[q].row /\ ~child[o].there
    BY <2>1
  <2>2. CASE req'[q].of = o /\ req'[q].row = child'[o] /\ child'[o].there
    <3>1. CASE child[o].there
      BY <1>3, <2>2, <3>1
    <3>2. CASE ~child[o].there
      BY <1>3, <2>2, <3>2
    <3>3. QED
      BY <3>1, <3>2
  <2>3. QED
    BY <2>1, <2>2
<1>5. \A r \in Request \ {q} :
        /\ req'[r].row = req[r].row /\ req'[r].of = req[r].of /\ req'[r].token = req[r].token
        /\ Holds(r)' <=> Holds(r)
  BY DEF OthersKeep, Holds
<1>6. /\ \A p \in Provider : child[p].refresh \in Nat
      /\ \A r \in Request : req[r].row.refresh \in Nat /\ req[r].token \in Nat
      /\ granted \in Nat
  BY DEF IInv, Typed, Record, Handler
<1> HIDE DEF o, g
<1>7. Issued'
  <2>1. g <= granted /\ g \in Nat
    BY <1>6 DEF IInv, Issued, g
  <2>2. \A p \in Provider : child'[p].refresh <= granted
    BY <1>3, <1>6, <2>1 DEF IInv, Issued
  <2>3. req'[q].row.refresh <= granted /\ req'[q].token <= granted
    BY <1>4, <1>6, <2>1 DEF IInv, Issued
  <2>4. \A r \in Request \ {q} : req'[r].row.refresh <= granted /\ req'[r].token <= granted
    BY <1>5 DEF IInv, Issued
  <2>5. QED
    BY <2>2, <2>3, <2>4 DEF Issued
<1>8. Owned'
  <2>1. \A p, s \in Provider :
          p # s => child'[p].refresh # child'[s].refresh \/ child'[p].refresh = 0
    BY <1>1, <1>2, <1>3 DEF IInv, Owned
  <2>2. \A p \in Provider, r \in Request \ {q} : req'[r].of # p =>
          req'[r].row.refresh # child'[p].refresh \/ child'[p].refresh = 0
    BY <1>1, <1>2, <1>3, <1>5 DEF IInv, Owned
  <2>3. \A p \in Provider : req'[q].of # p =>
          req'[q].row.refresh # child'[p].refresh \/ child'[p].refresh = 0
    BY <1>1, <1>2, <1>3, <1>4 DEF IInv, Owned, o
  <2>4. \A r \in Request \ {q} : req'[q].of # req'[r].of =>
          req'[q].row.refresh # req'[r].row.refresh \/ req'[q].row.refresh = 0
    BY <1>2, <1>4, <1>5 DEF IInv, Owned, o
  <2>5. \A r, s \in Request \ {q} : req'[r].of # req'[s].of =>
          req'[r].row.refresh # req'[s].row.refresh \/ req'[r].row.refresh = 0
    BY <1>5 DEF IInv, Owned
  <2>6. QED
    BY <2>1, <2>2, <2>3, <2>4, <2>5 DEF Owned
<1>9. Private'
  <2>1. ASSUME NEW r \in Request \ {q}, Holds(r)
        PROVE  /\ req'[r].token # 0 /\ req'[r].token \in live
               /\ \A p \in Provider : child'[p].refresh # req'[r].token
               /\ \A s \in Request : req'[s].row.refresh # req'[r].token
               /\ \A s \in Request \ {r} : req'[s].token # req'[r].token
    <3>1. /\ req[r].token # 0 /\ req[r].token \in live
          /\ \A p \in Provider : child[p].refresh # req[r].token
          /\ \A s \in Request : req[s].row.refresh # req[r].token
          /\ \A s \in Request \ {r} : req[s].token # req[r].token
      BY <2>1 DEF IInv, Private
    <3>2. req[r].token # g
      BY <1>2
    <3>3. \A p \in Provider : child'[p].refresh # req[r].token
      BY <1>1, <1>3, <3>1, <3>2
    <3>4. req'[q].row.refresh # req[r].token
      BY <1>4, <3>1, <3>2
    <3>5. QED
      BY <1>5, <3>1, <3>3, <3>4
  <2>2. \A r \in Request \ {q} : ~Holds(r) => req'[r].token = 0
    BY <1>5 DEF IInv, Private
  <2>3. QED
    BY <1>5, <2>1, <2>2 DEF Private
<1>10. StoredTokenRefreshes'
  <2> SUFFICES ASSUME NEW p \in Provider \ cut, child'[p].refresh # 0, child'[p].refresh \notin live
               PROVE  \E r \in Request :
                        /\ req'[r].step = "save" /\ req'[r].of = p
                        /\ req'[r].row.refresh = child'[p].refresh /\ req'[r].token \in live
    BY DEF StoredTokenRefreshes
  <2>1. p # o /\ child'[p].refresh = child[p].refresh
    BY <1>2, <1>3
  <2>2. PICK r \in Request : /\ req[r].step = "save" /\ req[r].of = p
                             /\ req[r].row.refresh = child[p].refresh /\ req[r].token \in live
    BY <2>1 DEF IInv, StoredTokenRefreshes
  <2>3. r # q
    BY <2>1, <2>2 DEF o
  <2>4. QED
    BY <2>1, <2>2, <2>3 DEF OthersKeep
<1>11. QED
  BY <1>7, <1>8, <1>9, <1>10 DEF IInv

-----------------------------------------------------------------------------
(* A step that leaves the rows alone and whose requests are well formed. *)
LEMMA SameRows ==
  ASSUME Typed, UNCHANGED child, granted' \in Nat, req' \in [Request -> Handler],
         \A r \in Request : req'[r].step # "idle" => req'[r].of \in Provider
  PROVE  Typed'
BY DEF Typed

(* And one that gives a provider a row, or takes it away. *)
LEMMA OneRow ==
  ASSUME Typed, NEW p \in Provider, NEW row \in Record, ~row.there => row.refresh = 0,
         child' = [child EXCEPT ![p] = row], granted' \in Nat, req' \in [Request -> Handler],
         \A r \in Request : req'[r].step # "idle" => req'[r].of \in Provider
  PROVE  /\ Typed'
         /\ child'[p] = row /\ \A o \in Provider \ {p} : child'[o] = child[o]
BY DEF Typed

(* At the start no token was issued and no request is under way. *)
LEMMA Starts == Init => IInv
<1> SUFFICES ASSUME Init PROVE IInv
  OBVIOUS
<1>1. /\ granted = 0
      /\ child = [p \in Provider |-> NoRow]
      /\ req = [q \in Request |-> Idle]
  BY DEF Init
<1>2. /\ \A p \in Provider : child[p] = NoRow
      /\ \A q \in Request : req[q] = Idle
  BY <1>1
<1>3. Typed
  BY <1>1, <1>2, IdleType DEF Typed
<1>4. Issued /\ Owned
  BY <1>1, <1>2, IdleType DEF Issued, Owned
<1>5. Private
  BY <1>2, IdleType DEF Private, Holds
<1>6. StoredTokenRefreshes
  BY <1>2, IdleType DEF StoredTokenRefreshes
<1>7. QED
  BY <1>3, <1>4, <1>5, <1>6 DEF IInv

(* A request that ends and leaves the rows alone. *)
LEMMA EndStep ==
  ASSUME IInv, NEW q \in Request, NEW answer \in {"ok", "refused", "remote", "cut"},
         Answer(q, answer), UNCHANGED <<child, granted, live>>,
         cut \subseteq cut', req[q].step = "save" => req[q].of \in cut'
  PROVE  IInv'
<1>1. /\ req' \in [Request -> Handler]
      /\ \A r \in Request : req'[r].step # "idle" => req'[r].of \in Provider
      /\ req'[q].step = "idle" /\ req'[q].row = NoRow /\ req'[q].token = 0
      /\ OthersKeep(q)
  BY AnswerKeeps DEF IInv
<1>2. Typed'
  BY <1>1, SameRows DEF IInv, Typed
<1>3. req'[q].row.refresh = 0
  BY <1>1, IdleType
<1>4. QED
  BY <1>1, <1>2, <1>3, QuietStep

(* A request that arrives, with the row of its provider or none. *)
LEMMA ArriveStep ==
  ASSUME IInv, NEW q \in Request, NEW p \in Provider, req[q].step = "idle",
         NEW row \in {NoRow, child[p]},
         NEW op \in {"none", "read", "create", "connect", "setup", "edit", "delete"},
         NEW step \in Step \ {"save", "store"}, NEW usable \in BOOLEAN,
         Arrive(q, p, op, step, row, usable),
         UNCHANGED <<child, granted, live, cut>>
  PROVE  IInv'
<1>1. row \in Record
  BY IdleType DEF IInv, Typed
<1>2. /\ req' \in [Request -> Handler]
      /\ \A r \in Request : req'[r].step # "idle" => req'[r].of \in Provider
      /\ req'[q].step = step /\ req'[q].of = p /\ req'[q].row = row /\ req'[q].token = 0
      /\ OthersKeep(q)
  BY <1>1, ArriveKeeps DEF IInv
<1>3. Typed'
  BY <1>2, SameRows DEF IInv, Typed
<1>4. \A o \in Provider : child'[o].refresh \in {0, child[o].refresh}
  OBVIOUS
<1>5. CASE row = NoRow
  <2>1. req'[q].row.refresh = 0
    BY <1>2, <1>5, IdleType
  <2>2. QED
    BY <1>2, <1>3, <1>4, <2>1, QuietStep
<1>6. CASE row = child[p]
  BY <1>2, <1>3, <1>4, <1>6, QuietStep
<1>7. QED
  BY <1>5, <1>6

(* A request that ends with a row in the place of its provider's, with the *)
(* refresh token this had or none.                                         *)
LEMMA RowStep ==
  ASSUME IInv, NEW q \in Request, req[q].step \notin {"idle", "save"},
         NEW answer \in {"ok", "refused", "remote", "cut"}, Answer(q, answer),
         NEW row \in Record, row.refresh \in {0, child[req[q].of].refresh},
         ~row.there => row.refresh = 0,
         child' = [child EXCEPT ![req[q].of] = row],
         UNCHANGED <<granted, live, cut>>
  PROVE  IInv'
<1>1. req[q].of \in Provider
  BY DEF IInv, Typed
<1>2. /\ req' \in [Request -> Handler]
      /\ \A r \in Request : req'[r].step # "idle" => req'[r].of \in Provider
      /\ req'[q].step = "idle" /\ req'[q].row = NoRow /\ req'[q].token = 0
      /\ OthersKeep(q)
  BY AnswerKeeps DEF IInv
<1>3. granted' \in Nat
  BY DEF IInv, Typed
<1>4. /\ Typed' /\ child'[req[q].of] = row
      /\ \A o \in Provider \ {req[q].of} : child'[o] = child[o]
  BY <1>1, <1>2, <1>3, OneRow DEF IInv
<1>5. \A p \in Provider : child'[p].refresh \in {0, child[p].refresh}
  BY <1>4
<1>6. req'[q].row.refresh = 0
  BY <1>2, IdleType
<1>7. QED
  BY <1>2, <1>4, <1>5, <1>6, QuietStep

-----------------------------------------------------------------------------
(* The actions. *)

(* A request reads the rows of its provider. *)
LEMMA ReadKeeps ==
  ASSUME IInv, NEW q \in Request, NEW p \in Provider, Read(q, p)
  PROVE  IInv'
<1> DEFINE step == IF Expires(parent[p].type, child[p]) THEN "refresh" ELSE "call"
           usable == /\ Ready(parent[p].type, child[p]) /\ child[p].matches
                     /\ parent[p].type \in OAuth =>
                          child[p].access \in live /\ child[p].refresh \in live
<1>1. req[q].step = "idle" /\ UNCHANGED <<child, granted, live, cut>>
  BY DEF Read
<1>2. CASE Arrive(q, p, "read", step, child[p], usable)
  <2>1. child[p].there \in BOOLEAN /\ child[p].matches \in BOOLEAN
    BY DEF IInv, Typed, Record
  <2>2. usable \in BOOLEAN
    BY <2>1
  <2>3. step \in Step \ {"save", "store"}
    BY DEF Step
  <2> HIDE DEF step, usable
  <2>4. QED
    BY <1>1, <1>2, <2>2, <2>3, ArriveStep
<1>3. CASE req' = [req EXCEPT ![q].answer = "refused"]
  <2>1. /\ req' \in [Request -> Handler] /\ OthersKeep(q)
        /\ req'[q].step = "idle" /\ req'[q].of = req[q].of
        /\ req'[q].row = req[q].row /\ req'[q].token = req[q].token
    <3>1. req[q] \in Handler
      BY DEF IInv, Typed
    <3>2. [req[q] EXCEPT !.answer = "refused"] \in Handler
      BY <3>1 DEF Handler
    <3>3. QED
      BY <1>1, <1>3, <3>1, <3>2 DEF IInv, Typed, Handler, OthersKeep
  <2>2. \A r \in Request : req'[r].step # "idle" => req'[r].of \in Provider
    BY <2>1 DEF IInv, Typed, OthersKeep
  <2>3. Typed'
    BY <1>1, <2>1, <2>2, SameRows DEF IInv, Typed
  <2>4. req'[q].token = 0
    BY <1>1, <2>1 DEF IInv, Private, Holds
  <2>5. \A o \in Provider : child'[o].refresh \in {0, child[o].refresh}
    BY <1>1
  <2>6. QED
    BY <1>1, <2>1, <2>3, <2>4, <2>5, QuietStep
<1>4. QED
  BY <1>2, <1>3 DEF Read

(* The remote application replaces a refresh token. *)
LEMMA RefreshKeeps ==
  ASSUME IInv, NEW q \in Request, Refresh(q)
  PROVE  IInv'
<1> DEFINE row == req[q].row
           rotated == IF RotatesTokens(parent[req[q].of].type) THEN {row.refresh} ELSE {}
<1>1. req[q].step = "refresh" /\ UNCHANGED <<child, cut>>
  BY DEF Refresh
<1>2. row \in Record /\ "save" \in Step /\ "call" \in Step
  BY DEF IInv, Typed, Handler, Step
<1>3. CASE \E g \in Token : /\ Issue(g) /\ live' = (live \ rotated) \cup {g}
                            /\ Goto(q, "save", row, g)
  <2>1. PICK g \in Token : /\ Issue(g) /\ live' = (live \ rotated) \cup {g}
                           /\ Goto(q, "save", row, g)
    BY <1>3
  <2>2. g \in Nat /\ granted' \in Nat
    BY <2>1 DEF IInv, Typed, Issue
  <2>3. rotated \subseteq {row.refresh}
    OBVIOUS
  <2> HIDE DEF rotated
  <2>4. /\ req' \in [Request -> Handler]
        /\ \A r \in Request : req'[r].step # "idle" => req'[r].of \in Provider
        /\ req'[q].step = "save" /\ req'[q].of = req[q].of
        /\ req'[q].row = row /\ req'[q].token = g
        /\ OthersKeep(q)
    BY <1>1, <1>2, <2>1, <2>2, GotoKeeps DEF IInv
  <2>5. Typed'
    BY <1>1, <2>2, <2>4, SameRows DEF IInv
  <2>6. ~Holds(q) /\ Holds(q)'
    BY <1>1, <2>4 DEF Holds
  <2>7. QED
    BY <1>1, <2>1, <2>3, <2>4, <2>5, <2>6, IssueStep
<1>4. CASE Goto(q, "call", row, 0) /\ UNCHANGED <<granted, live>>
  <2>1. /\ req' \in [Request -> Handler]
        /\ \A r \in Request : req'[r].step # "idle" => req'[r].of \in Provider
        /\ req'[q].step = "call" /\ req'[q].of = req[q].of
        /\ req'[q].row = row /\ req'[q].token = 0
        /\ OthersKeep(q)
    BY <1>1, <1>2, <1>4, GotoKeeps DEF IInv
  <2>2. Typed'
    BY <1>1, <1>4, <2>1, SameRows DEF IInv, Typed
  <2>3. \A o \in Provider : child'[o].refresh \in {0, child[o].refresh}
    BY <1>1
  <2>4. QED
    BY <1>1, <1>4, <2>1, <2>2, <2>3, QuietStep
<1>5. QED
  BY <1>3, <1>4 DEF Refresh

(* The remote application issues the first tokens of a connection. *)
LEMMA ExchangeKeeps ==
  ASSUME IInv, NEW q \in Request, Exchange(q)
  PROVE  IInv'
<1> DEFINE row == req[q].row
<1>1. req[q].step = "exchange" /\ UNCHANGED <<child, cut>>
  BY DEF Exchange
<1>2. row \in Record /\ "store" \in Step
  BY DEF IInv, Typed, Handler, Step
<1>3. CASE \E g \in Token : Issue(g) /\ live' = live \cup {g} /\ Goto(q, "store", row, g)
  <2>1. PICK g \in Token : Issue(g) /\ live' = live \cup {g} /\ Goto(q, "store", row, g)
    BY <1>3
  <2>2. g \in Nat /\ granted' \in Nat
    BY <2>1 DEF IInv, Typed, Issue
  <2>3. /\ req' \in [Request -> Handler]
        /\ \A r \in Request : req'[r].step # "idle" => req'[r].of \in Provider
        /\ req'[q].step = "store" /\ req'[q].of = req[q].of
        /\ req'[q].row = row /\ req'[q].token = g
        /\ OthersKeep(q)
    BY <1>1, <1>2, <2>1, <2>2, GotoKeeps DEF IInv
  <2>4. Typed'
    BY <1>1, <2>2, <2>3, SameRows DEF IInv
  <2>5. ~Holds(q) /\ Holds(q)'
    BY <1>1, <2>3 DEF Holds
  <2> DEFINE revoked == {}
  <2>6. revoked \subseteq {row.refresh} /\ revoked = {} /\ live' = (live \ revoked) \cup {g}
    BY <2>1
  <2> HIDE DEF revoked
  <2>7. QED
    BY <1>1, <2>1, <2>3, <2>4, <2>5, <2>6, IssueStep
<1>4. CASE Answer(q, "remote") /\ UNCHANGED <<granted, live>>
  BY <1>1, <1>4, EndStep
<1>5. QED
  BY <1>3, <1>4 DEF Exchange

(* What SaveTokens leaves of the rows. *)
LEMMA SavedRows ==
  ASSUME Typed, NEW p \in Provider, NEW g \in Nat, SaveTokens(p, g)
  PROVE  /\ child' \in [Provider -> Record]
         /\ child'[p].there = child[p].there
         /\ \A o \in Provider : ~child'[o].there => child'[o].refresh = 0
<1>1. CASE child[p].there
  <2>1. child' = [child EXCEPT ![p] = WithTokens(@, g)]
    BY <1>1 DEF SaveTokens
  <2>2. child[p] \in Record
    BY DEF Typed
  <2>3. WithTokens(child[p], g) \in Record /\ WithTokens(child[p], g).there
    BY <1>1, <2>2 DEF Record, WithTokens
  <2>4. QED
    BY <1>1, <2>1, <2>3 DEF Typed
<1>2. CASE ~child[p].there
  BY <1>2 DEF SaveTokens, Typed
<1>3. QED
  BY <1>1, <1>2

(* The tokens of a refresh are saved, if the row is still there. *)
LEMMA SaveRefreshedKeeps ==
  ASSUME IInv, NEW q \in Request, SaveRefreshed(q)
  PROVE  IInv'
<1> DEFINE o == req[q].of
           row == Returned(q)
<1>1. /\ req[q].step = "save" /\ SaveTokens(o, req[q].token)
      /\ Goto(q, "call", row, 0) /\ UNCHANGED <<granted, live, cut>>
  BY DEF SaveRefreshed
<1>2. o \in Provider /\ req[q] \in Handler /\ req[q].token \in Nat /\ req[q].row \in Record
  BY <1>1 DEF IInv, Typed, Handler
<1>3. /\ child' \in [Provider -> Record]
      /\ child'[o].there = child[o].there
      /\ \A p \in Provider : ~child'[p].there => child'[p].refresh = 0
  BY <1>1, <1>2, SavedRows DEF IInv
<1>4. /\ row = (IF child'[o].there THEN child'[o] ELSE req[q].row)
      /\ row \in Record
  BY <1>2, <1>3 DEF Returned
<1> HIDE DEF row
<1>5. "call" \in Step
  BY DEF Step
<1>6. /\ req' \in [Request -> Handler]
      /\ \A r \in Request : req'[r].step # "idle" => req'[r].of \in Provider
      /\ req'[q].step = "call" /\ req'[q].of = o /\ req'[q].row = row /\ req'[q].token = 0
      /\ OthersKeep(q)
  BY <1>1, <1>4, <1>5, GotoKeeps DEF IInv
<1>7. Typed'
  BY <1>1, <1>3, <1>6 DEF IInv, Typed
<1>8. Holds(q) /\ ~Holds(q)'
  BY <1>1, <1>6 DEF Holds
<1>9. QED
  BY <1>1, <1>3, <1>4, <1>6, <1>7, <1>8, SaveStep

(* The tokens of a connection are saved. *)
LEMMA StoreExchangedKeeps ==
  ASSUME IInv, NEW q \in Request, StoreExchanged(q)
  PROVE  IInv'
<1> DEFINE o == req[q].of
<1>1. /\ req[q].step = "store" /\ SaveTokens(o, req[q].token)
      /\ Answer(q, "ok") /\ UNCHANGED <<granted, live, cut>>
  BY DEF StoreExchanged
<1>2. o \in Provider /\ req[q].token \in Nat
  BY <1>1 DEF IInv, Typed, Handler
<1>3. /\ child' \in [Provider -> Record]
      /\ \A p \in Provider : ~child'[p].there => child'[p].refresh = 0
  BY <1>1, <1>2, SavedRows DEF IInv
<1>4. /\ req' \in [Request -> Handler]
      /\ \A r \in Request : req'[r].step # "idle" => req'[r].of \in Provider
      /\ req'[q].step = "idle" /\ req'[q].row = NoRow /\ req'[q].token = 0
      /\ OthersKeep(q)
  BY <1>1, AnswerKeeps DEF IInv
<1>5. Typed'
  BY <1>1, <1>3, <1>4 DEF IInv, Typed
<1>6. Holds(q) /\ ~Holds(q)'
  BY <1>1, <1>4 DEF Holds
<1>7. req'[q].row.refresh = 0
  BY <1>4, IdleType
<1>8. QED
  BY <1>1, <1>4, <1>5, <1>6, <1>7, SaveStep

LEMMA CallKeeps ==
  ASSUME IInv, NEW q \in Request, NEW type, NEW accepted, Call(q, type, accepted)
  PROVE  IInv'
<1>1. req[q].step = "call" /\ UNCHANGED <<child, granted, live, cut>>
  BY DEF Call
<1>2. PICK answer \in {"ok", "refused", "remote", "cut"} : Answer(q, answer)
  BY DEF Call
<1>3. QED
  BY <1>1, <1>2, EndStep

(* Create, Connect, Setup, Edit and Delete arrive. *)
LEMMA ArrivalsKeep ==
  ASSUME IInv, NEW q \in Request, NEW p \in Provider,
         Create(q, p) \/ Connect(q, p) \/ Setup(q, p) \/ Edit(q, p) \/ Delete(q, p)
  PROVE  IInv'
<1>1. {"detail", "exchange", "installation", "edit", "delete"} \subseteq Step \ {"save", "store"}
  BY DEF Step
<1>2. CASE Create(q, p)
  BY <1>1, <1>2, ArriveStep DEF Create
<1>3. CASE Connect(q, p)
  BY <1>1, <1>3, ArriveStep DEF Connect
<1>4. CASE Setup(q, p)
  BY <1>1, <1>4, ArriveStep DEF Setup
<1>5. CASE Edit(q, p)
  BY <1>1, <1>5, ArriveStep DEF Edit
<1>6. CASE Delete(q, p)
  BY <1>1, <1>6, ArriveStep DEF Delete
<1>7. QED
  BY <1>2, <1>3, <1>4, <1>5, <1>6

LEMMA CreateDetailKeeps ==
  ASSUME IInv, NEW q \in Request, NEW matches \in BOOLEAN, CreateDetail(q, matches)
  PROVE  IInv'
<1> DEFINE row == [NoRow EXCEPT !.there = TRUE, !.matches = matches]
<1>1. req[q].step = "detail" /\ UNCHANGED <<granted, live, cut>>
  BY DEF CreateDetail
<1>2. row \in Record /\ row.refresh = 0
  BY DEF NoRow, Record
<1>3. CASE child' = [child EXCEPT ![req[q].of] = row] /\ Answer(q, "ok")
  <2> HIDE DEF row
  <2> QED
    BY <1>1, <1>2, <1>3, RowStep
<1>4. CASE Answer(q, "refused") /\ UNCHANGED child
  BY <1>1, <1>4, EndStep
<1>5. QED
  BY <1>3, <1>4 DEF CreateDetail

LEMMA SetInstallationKeeps ==
  ASSUME IInv, NEW q \in Request, SetInstallation(q)
  PROVE  IInv'
<1> DEFINE p == req[q].of
           row == [child[p] EXCEPT !.installed = TRUE]
<1>1. req[q].step = "installation" /\ Answer(q, "ok") /\ UNCHANGED <<granted, live, cut>>
  BY DEF SetInstallation
<1>2. p \in Provider /\ child[p] \in Record
  BY <1>1 DEF IInv, Typed
<1>3. CASE child[p].there
  <2>1. row \in Record /\ row.there /\ row.refresh = child[p].refresh
    BY <1>2, <1>3 DEF Record
  <2>2. child' = [child EXCEPT ![p] = row]
    BY <1>2, <1>3 DEF SetInstallation, IInv, Typed
  <2> HIDE DEF row
  <2>3. QED
    BY <1>1, <2>1, <2>2, RowStep
<1>4. CASE ~child[p].there
  <2>1. UNCHANGED child
    BY <1>4 DEF SetInstallation
  <2>2. QED
    BY <1>1, <2>1, EndStep
<1>5. QED
  BY <1>3, <1>4

LEMMA SetCredentialsKeeps ==
  ASSUME IInv, NEW q \in Request, NEW matches \in BOOLEAN, SetCredentials(q, matches)
  PROVE  IInv'
<1> DEFINE p == req[q].of
           row == [child[p] EXCEPT !.matches = matches]
<1>1. req[q].step = "edit" /\ Answer(q, "ok") /\ UNCHANGED <<granted, live, cut>>
  BY DEF SetCredentials
<1>2. p \in Provider /\ child[p] \in Record
  BY <1>1 DEF IInv, Typed
<1>3. CASE child[p].there
  <2>1. row \in Record /\ row.there /\ row.refresh = child[p].refresh
    BY <1>2, <1>3 DEF Record
  <2>2. child' = [child EXCEPT ![p] = row]
    BY <1>2, <1>3 DEF SetCredentials, IInv, Typed
  <2> HIDE DEF row
  <2>3. QED
    BY <1>1, <2>1, <2>2, RowStep
<1>4. CASE ~child[p].there
  <2>1. UNCHANGED child
    BY <1>4 DEF SetCredentials
  <2>2. QED
    BY <1>1, <2>1, EndStep
<1>5. QED
  BY <1>3, <1>4

LEMMA RemoveRowsKeeps ==
  ASSUME IInv, NEW q \in Request, RemoveRows(q)
  PROVE  IInv'
<1>1. req[q].step = "delete" /\ Answer(q, "ok") /\ UNCHANGED <<granted, live, cut>>
  BY DEF RemoveRows
<1>2. child' = [child EXCEPT ![req[q].of] = NoRow]
  BY DEF RemoveRows
<1>3. QED
  BY <1>1, <1>2, IdleType, RowStep

LEMMA FailKeeps ==
  ASSUME IInv, NEW q \in Request, Fail(q)
  PROVE  IInv'
<1>1. Answer(q, "cut") /\ UNCHANGED <<child, granted, live>>
  BY DEF Fail
<1>2. cut \subseteq cut' /\ (req[q].step = "save" => req[q].of \in cut')
  BY DEF Fail
<1>3. QED
  BY <1>1, <1>2, EndStep

LEMMA SilentStep ==
  ASSUME IInv, UNCHANGED <<child, granted, live, req, cut>>
  PROVE  IInv'
BY DEF IInv, Typed, Issued, Owned, Private, Holds, StoredTokenRefreshes

(* Every step keeps the invariant, by the lemma of its action. *)
LEMMA Steps ==
  ASSUME IInv, [Next]_vars
  PROVE  IInv'
<1>1. CASE UNCHANGED vars
  BY <1>1, SilentStep DEF vars
<1>2. ASSUME NEW g \in Token, GrowOld(g) PROVE IInv'
  BY <1>2, SilentStep DEF GrowOld
<1>3. ASSUME NEW q \in Request, Refresh(q) PROVE IInv'
  BY <1>3, RefreshKeeps
<1>4. ASSUME NEW q \in Request, SaveRefreshed(q) PROVE IInv'
  BY <1>4, SaveRefreshedKeeps
<1>5. ASSUME NEW q \in Request, Exchange(q) PROVE IInv'
  BY <1>5, ExchangeKeeps
<1>6. ASSUME NEW q \in Request, StoreExchanged(q) PROVE IInv'
  BY <1>6, StoreExchangedKeeps
<1>7. ASSUME NEW q \in Request,
             ListGithub(q) \/ ListGitlab(q) \/ ListBitbucket(q) \/ ListGitea(q)
      PROVE  IInv'
  BY <1>7, CallKeeps DEF ListGithub, ListGitlab, ListBitbucket, ListGitea
<1>8. ASSUME NEW q \in Request, SetInstallation(q) PROVE IInv'
  BY <1>8, SetInstallationKeeps
<1>9. ASSUME NEW q \in Request, RemoveRows(q) PROVE IInv'
  BY <1>9, RemoveRowsKeeps
<1>10. ASSUME NEW q \in Request, Fail(q) PROVE IInv'
  BY <1>10, FailKeeps
<1>11. ASSUME NEW q \in Request, NEW matches \in BOOLEAN, CreateDetail(q, matches) PROVE IInv'
  BY <1>11, CreateDetailKeeps
<1>12. ASSUME NEW q \in Request, NEW matches \in BOOLEAN, SetCredentials(q, matches) PROVE IInv'
  BY <1>12, SetCredentialsKeeps
<1>13. ASSUME NEW q \in Request, NEW p \in Provider,
              Create(q, p) \/ Connect(q, p) \/ Setup(q, p) \/ Edit(q, p) \/ Delete(q, p)
       PROVE  IInv'
  BY <1>13, ArrivalsKeep
<1>14. ASSUME NEW q \in Request, NEW p \in Provider, Read(q, p) PROVE IInv'
  BY <1>14, ReadKeeps
<1>15. QED
  BY <1>1, <1>2, <1>3, <1>4, <1>5, <1>6, <1>7, <1>8, <1>9, <1>10, <1>11, <1>12, <1>13, <1>14
     DEF Next

-----------------------------------------------------------------------------
(* Whatever requests overlap, the connection of a provider outlives them:  *)
(* its row has a refresh token that the remote application honours, or a   *)
(* request is about to save the one that replaced it.  Only a fault        *)
(* between the refresh and the save (git-providers.ts) loses it.           *)
THEOREM ConnectionIsKept == Spec => []StoredTokenRefreshes
<1>1. IInv => StoredTokenRefreshes
  BY DEF IInv
<1>2. QED
  BY <1>1, Starts, Steps, PTL DEF Spec

-----------------------------------------------------------------------------
(***************************************************************************)
(* A request that nothing overlaps.                                        *)
(***************************************************************************)
(* The rest of the types: a row needs the row of its provider, tokens that *)
(* were not issued are new.                                                *)
Rest ==
  /\ parent \in [Provider -> [state : {"absent", "there", "gone"}, type : Type]]
  /\ \A p \in Provider : child[p].there => parent[p].state = "there"
  /\ granted = 0 \/ granted \in Token
  /\ live \subseteq Token
  /\ age \in [Token -> {"fresh", "soon", "over"}]
  /\ \A g \in Token : g > granted => age[g] = "fresh"
  /\ cut \subseteq Provider

(* An access token is found with the refresh token it came with. *)
Pairs ==
  /\ \A p \in Provider : child[p].access = child[p].refresh
  /\ \A q \in Request : req[q].row.access = req[q].row.refresh

(* A request that is alone is the only one at work on its provider. *)
Alone ==
  \A q \in Request :
    /\ req[q].usable => req[q].op = "read"
    /\ req[q].alone =>
         /\ req[q].step # "idle"
         /\ \A r \in Request \ {q} : req[r].step = "idle" \/ req[r].of # req[q].of

(* Its row is as good as it was when it was read, and in the table until   *)
(* it is replaced; what it is about to call with has not ended.            *)
Succeeds(step, type, row, stored, token, tokens, ages) ==
  /\ row.there /\ row.matches
  /\ type = "github" => row.installed
  /\ \/ /\ step = "call"
        /\ type \in OAuth => row.access \in tokens /\ ages[row.access] # "over"
     \/ /\ step = "refresh" /\ type \in OAuth /\ stored = row /\ row.refresh \in tokens
     \/ /\ step = "save" /\ type \in OAuth /\ stored = row /\ token \in tokens /\ ages[token] # "over"

Prospect(q) ==
  Succeeds(req[q].step, parent[req[q].of].type, req[q].row, child[req[q].of], req[q].token, live, age)

Lone(q) == req[q].alone /\ req[q].usable

LoneInv == Rest /\ Pairs /\ Alone /\ \A q \in Request : Lone(q) => Prospect(q)

(* What LoneReadSucceeds says of a step. *)
Answered == \A q \in Request : Lone(q) /\ req'[q].step = "idle" => req'[q].answer \in {"ok", "cut"}

(* The other requests: whoever is alone has its provider for itself before *)
(* and after the step of q, which changes nothing else.                    *)
LEMMA OthersStay ==
  ASSUME IInv, LoneInv, NEW q \in Request, OthersKeep(q),
         \A p \in Provider : parent'[p].type = parent[p].type,
         \A p \in Provider : p # req[q].of \/ req[q].step = "idle" => child'[p] = child[p],
         req[q].step = "idle" => live' = live,
         \A g \in live : g \notin live' => g # 0 /\ g = req[q].row.refresh,
         UNCHANGED age,
         \/ req'[q].step = "idle"
         \/ req[q].step # "idle" /\ req'[q].of = req[q].of
         \/ \A r \in Request \ {q} : Busy(req'[q].of, r) => ~req'[r].alone
  PROVE  \A r \in Request \ {q} :
           /\ req'[r].usable => req'[r].op = "read"
           /\ req'[r].alone =>
                /\ req'[r].step # "idle"
                /\ \A s \in Request \ {r} : req'[s].step = "idle" \/ req'[s].of # req'[r].of
           /\ Lone(r)' => Prospect(r)'
           /\ Lone(r) => req'[r].step # "idle"
<1> SUFFICES ASSUME NEW r \in Request \ {q}
             PROVE  /\ req'[r].usable => req'[r].op = "read"
                    /\ req'[r].alone =>
                         /\ req'[r].step # "idle"
                         /\ \A s \in Request \ {r} : req'[s].step = "idle" \/ req'[s].of # req'[r].of
                    /\ Lone(r)' => Prospect(r)'
                    /\ Lone(r) => req'[r].step # "idle"
  OBVIOUS
<1>1. /\ req'[r].step = req[r].step /\ req'[r].of = req[r].of /\ req'[r].row = req[r].row
      /\ req'[r].token = req[r].token /\ req'[r].op = req[r].op /\ req'[r].usable = req[r].usable
      /\ req'[r].alone => req[r].alone
  BY DEF OthersKeep
<1>2. req[r].usable => req[r].op = "read"
  BY DEF LoneInv, Alone
<1>3. req[r].alone =>
        /\ req[r].step # "idle"
        /\ \A s \in Request \ {r} : req[s].step = "idle" \/ req[s].of # req[r].of
  BY DEF LoneInv, Alone
<1>4. ASSUME req'[r].alone, NEW s \in Request \ {r}
      PROVE  req'[s].step = "idle" \/ req'[s].of # req'[r].of
  <2>1. CASE s # q
    BY <2>1, <1>1, <1>3, <1>4 DEF OthersKeep
  <2>2. CASE s = q
    BY <2>2, <1>1, <1>3, <1>4 DEF Busy
  <2>3. QED
    BY <2>1, <2>2
<1>5. ASSUME Lone(r)' PROVE Prospect(r)'
  <2>1. Lone(r) /\ Prospect(r)
    BY <1>1, <1>5 DEF Lone, LoneInv
  <2>2. req[r].of \in Provider /\ req[r].step # "idle" /\ (req[q].step = "idle" \/ req[q].of # req[r].of)
    BY <2>1, <1>3 DEF Lone, IInv, Typed
  <2>3. child'[req[r].of] = child[req[r].of] /\ parent'[req[r].of].type = parent[req[r].of].type
    BY <2>2
  <2>4. ASSUME NEW g \in live, g = req[r].row.refresh \/ (req[r].step = "save" /\ g = req[r].token)
        PROVE  g \in live'
    <3>1. CASE req[q].step = "idle"
      BY <3>1
    <3>2. CASE req[q].step # "idle"
      <4> SUFFICES ASSUME g \notin live' PROVE FALSE
        OBVIOUS
      <4>1. g # 0 /\ g = req[q].row.refresh /\ req[q].of # req[r].of
        BY <3>2, <2>2
      <4>2. g # req[r].row.refresh
        BY <4>1 DEF IInv, Owned
      <4>3. req[r].step = "save" /\ g = req[r].token
        BY <4>2, <2>4
      <4>4. QED
        BY <4>1, <4>3 DEF IInv, Private, Holds
    <3>3. QED
      BY <3>1, <3>2
  <2>5. req[r].row.access = req[r].row.refresh
    BY DEF LoneInv, Pairs
  <2>6. QED
    BY <2>1, <2>3, <2>4, <2>5, <1>1 DEF Prospect, Succeeds
<1>6. QED
  BY <1>1, <1>2, <1>3, <1>4, <1>5 DEF Lone

(* A request ends, and answers what it may. *)
LEMMA EndsLone ==
  ASSUME IInv, LoneInv, NEW q \in Request, NEW answer \in {"ok", "refused", "remote", "cut"},
         Answer(q, answer),
         \A p \in Provider : parent'[p].type = parent[p].type,
         \A p \in Provider : p # req[q].of \/ req[q].step = "idle" => child'[p] = child[p],
         UNCHANGED <<live, age>>, Rest', child'[req[q].of].access = child'[req[q].of].refresh,
         Lone(q) => answer \in {"ok", "cut"}
  PROVE  LoneInv' /\ Answered
<1>1. /\ req'[q].step = "idle" /\ req'[q].row = NoRow
      /\ ~req'[q].alone /\ ~req'[q].usable
      /\ req[q].op = "read" => req'[q].answer = answer
      /\ OthersKeep(q)
  BY AnswerKeeps DEF IInv
<1>2. \A r \in Request \ {q} :
        /\ req'[r].usable => req'[r].op = "read"
        /\ req'[r].alone =>
             /\ req'[r].step # "idle"
             /\ \A s \in Request \ {r} : req'[s].step = "idle" \/ req'[s].of # req'[r].of
        /\ Lone(r)' => Prospect(r)'
        /\ Lone(r) => req'[r].step # "idle"
  BY <1>1, OthersStay
<1>3. Pairs'
  BY <1>1 DEF LoneInv, Pairs, OthersKeep, NoRow
<1>4. Alone'
  BY <1>1, <1>2 DEF Alone
<1>5. \A r \in Request : Lone(r)' => Prospect(r)'
  BY <1>1, <1>2 DEF Lone
<1>6. Answered
  <2>1. Lone(q) => req'[q].answer \in {"ok", "cut"}
    BY <1>1 DEF Lone, LoneInv, Alone
  <2>2. QED
    BY <2>1, <1>2 DEF Answered
<1>7. QED
  BY <1>3, <1>4, <1>5, <1>6 DEF LoneInv

(* A request goes on. *)
LEMMA GoesOnLone ==
  ASSUME IInv, LoneInv, NEW q \in Request, NEW step \in Step \ {"idle"}, NEW row \in Record, NEW token \in Nat,
         req[q].step # "idle", Goto(q, step, row, token),
         \A p \in Provider : p # req[q].of => child'[p] = child[p],
         \A g \in live : g \notin live' => g # 0 /\ g = req[q].row.refresh,
         UNCHANGED <<parent, age>>, Rest', row.access = row.refresh,
         child'[req[q].of].access = child'[req[q].of].refresh,
         Lone(q) => Succeeds(step, parent[req[q].of].type, row, child'[req[q].of], token, live', age)
  PROVE  LoneInv' /\ Answered
<1>1. /\ req'[q].step = step /\ req'[q].of = req[q].of
      /\ req'[q].row = row /\ req'[q].token = token
      /\ req'[q].op = req[q].op /\ req'[q].usable = req[q].usable
      /\ req'[q].alone = req[q].alone
      /\ OthersKeep(q)
  BY GotoKeeps DEF IInv
<1>2. \A r \in Request \ {q} :
        /\ req'[r].usable => req'[r].op = "read"
        /\ req'[r].alone =>
             /\ req'[r].step # "idle"
             /\ \A s \in Request \ {r} : req'[s].step = "idle" \/ req'[s].of # req'[r].of
        /\ Lone(r)' => Prospect(r)'
        /\ Lone(r) => req'[r].step # "idle"
  BY <1>1, OthersStay
<1>3. Pairs'
  BY <1>1 DEF LoneInv, Pairs, OthersKeep
<1>4. Alone'
  BY <1>1, <1>2 DEF Alone, LoneInv, OthersKeep
<1>5. \A r \in Request : Lone(r)' => Prospect(r)'
  BY <1>1, <1>2 DEF Lone, Prospect, Succeeds
<1>6. Answered
  BY <1>1, <1>2 DEF Answered
<1>7. QED
  BY <1>3, <1>4, <1>5, <1>6 DEF LoneInv

(* A request arrives. *)
LEMMA ArrivesLone ==
  ASSUME IInv, LoneInv, NEW q \in Request, NEW p \in Provider, req[q].step = "idle",
         NEW row \in {NoRow, child[p]},
         NEW op \in {"none", "read", "create", "connect", "setup", "edit", "delete"},
         NEW step \in Step \ {"idle"}, NEW usable \in BOOLEAN,
         Arrive(q, p, op, step, row, usable),
         \A o \in Provider : parent'[o].type = parent[o].type,
         UNCHANGED <<child, live, age>>, Rest',
         usable => op = "read" /\ Succeeds(step, parent[p].type, row, child[p], 0, live, age)
  PROVE  LoneInv' /\ Answered
<1>0. row \in Record /\ row.access = row.refresh
  <2>1. child[p] \in Record /\ child[p].access = child[p].refresh
    BY DEF IInv, Typed, LoneInv, Pairs
  <2>2. NoRow \in Record /\ NoRow.access = NoRow.refresh
    BY IdleType DEF NoRow
  <2>3. QED
    BY <2>1, <2>2
<1>1. /\ req'[q].step = step /\ req'[q].of = p /\ req'[q].row = row /\ req'[q].token = 0
      /\ req'[q].op = op /\ req'[q].usable = usable
      /\ req'[q].alone => \A o \in Request : ~Busy(p, o)
      /\ \A r \in Request \ {q} : Busy(p, r) => ~req'[r].alone
      /\ OthersKeep(q)
  BY <1>0, ArriveKeeps DEF IInv
<1>2. \A r \in Request \ {q} :
        /\ req'[r].usable => req'[r].op = "read"
        /\ req'[r].alone =>
             /\ req'[r].step # "idle"
             /\ \A s \in Request \ {r} : req'[s].step = "idle" \/ req'[s].of # req'[r].of
        /\ Lone(r)' => Prospect(r)'
        /\ Lone(r) => req'[r].step # "idle"
  BY <1>1, OthersStay
<1>3. Pairs'
  BY <1>0, <1>1 DEF LoneInv, Pairs, OthersKeep
<1>4. Alone'
  BY <1>1, <1>2 DEF Alone, LoneInv, OthersKeep, Busy
<1>5. \A r \in Request : Lone(r)' => Prospect(r)'
  BY <1>1, <1>2 DEF Lone, Prospect, Succeeds
<1>6. Answered
  BY <1>1, <1>2 DEF Answered
<1>7. QED
  BY <1>3, <1>4, <1>5, <1>6 DEF LoneInv

LEMMA ReadLone ==
  ASSUME IInv, LoneInv, NEW q \in Request, NEW p \in Provider, Read(q, p)
  PROVE  LoneInv' /\ Answered
<1> DEFINE step == IF Expires(parent[p].type, child[p]) THEN "refresh" ELSE "call"
           usable == /\ Ready(parent[p].type, child[p]) /\ child[p].matches
                     /\ parent[p].type \in OAuth =>
                          child[p].access \in live /\ child[p].refresh \in live
<1>1. req[q].step = "idle" /\ UNCHANGED <<parent, child, granted, live, age, cut>>
  BY DEF Read
<1>2. Rest'
  BY <1>1 DEF LoneInv, Rest
<1>3. CASE Arrive(q, p, "read", step, child[p], usable)
  <2>1. child[p].there \in BOOLEAN /\ child[p].matches \in BOOLEAN
    BY DEF IInv, Typed, Record
  <2>2. usable \in BOOLEAN
    BY <2>1
  <2>3. step \in Step \ {"idle"}
    BY DEF Step
  <2>4. ASSUME usable PROVE Succeeds(step, parent[p].type, child[p], child[p], 0, live, age)
    <3>1. /\ child[p].there /\ child[p].matches
          /\ parent[p].type = "github" => child[p].installed
          /\ parent[p].type \in OAuth => child[p].access \in live /\ child[p].refresh \in live
      BY <2>4 DEF Ready
    <3>2. CASE Expires(parent[p].type, child[p])
      BY <3>1, <3>2 DEF Expires, Succeeds
    <3>3. CASE ~Expires(parent[p].type, child[p])
      BY <3>1, <3>3 DEF Expires, Succeeds
    <3>4. QED
      BY <3>2, <3>3
  <2> HIDE DEF step, usable
  <2>5. QED
    BY <1>1, <1>2, <1>3, <2>2, <2>3, <2>4, ArrivesLone
<1>4. CASE req' = [req EXCEPT ![q].answer = "refused"]
  <2>1. ~req[q].alone
    BY <1>1 DEF LoneInv, Alone
  <2>2. \A r \in Request :
          /\ req'[r].step = req[r].step /\ req'[r].of = req[r].of /\ req'[r].row = req[r].row
          /\ req'[r].token = req[r].token /\ req'[r].op = req[r].op
          /\ req'[r].usable = req[r].usable /\ req'[r].alone = req[r].alone
    BY <1>4 DEF IInv, Typed, Handler
  <2>3. Pairs' /\ Alone'
    BY <1>1, <2>2 DEF LoneInv, Pairs, Alone
  <2>4. \A r \in Request : Lone(r)' => Prospect(r)'
    BY <1>1, <2>2 DEF LoneInv, Lone, Prospect, Succeeds
  <2>5. Answered
    BY <2>2 DEF Answered, LoneInv, Lone, Alone
  <2>6. QED
    BY <1>2, <2>3, <2>4, <2>5 DEF LoneInv
<1>5. QED
  BY <1>3, <1>4 DEF Read

(* A token that is issued is as new as it can be, and within the bound. *)
LEMMA IssuedIsFresh ==
  ASSUME IInv, LoneInv, NEW g \in Token, Issue(g), UNCHANGED <<parent, child, age, cut>>,
         live' \subseteq live \cup {g}
  PROVE  Rest' /\ age[g] = "fresh"
<1>1. granted \in Nat /\ g = granted + 1 /\ granted' = g /\ g \in Nat
  BY DEF IInv, Typed, Issue
<1>2. \A k \in Token : k \in Nat
  BY DEF Token
<1>3. QED
  BY <1>1, <1>2 DEF LoneInv, Rest

LEMMA RefreshLone ==
  ASSUME IInv, LoneInv, NEW q \in Request, Refresh(q)
  PROVE  LoneInv' /\ Answered
<1> DEFINE row == req[q].row
           o == req[q].of
           rotated == IF RotatesTokens(parent[o].type) THEN {row.refresh} ELSE {}
<1>1. req[q].step = "refresh" /\ UNCHANGED <<parent, child, age, cut>>
  BY DEF Refresh
<1>2. /\ row \in Record /\ o \in Provider /\ 0 \in Nat
      /\ "save" \in Step \ {"idle"} /\ "call" \in Step \ {"idle"}
  BY <1>1 DEF IInv, Typed, Handler, Step
<1>3. row.access = row.refresh /\ child'[o].access = child'[o].refresh
  BY <1>1, <1>2 DEF LoneInv, Pairs
<1>4. Lone(q) => /\ HonoursRefresh(row) /\ row.there /\ row.matches
                 /\ parent[o].type \in OAuth /\ child[o] = row
  BY <1>1 DEF LoneInv, Prospect, Succeeds, HonoursRefresh
<1>5. CASE \E g \in Token : /\ Issue(g) /\ live' = (live \ rotated) \cup {g}
                            /\ Goto(q, "save", row, g)
           /\ HonoursRefresh(row)
  <2>1. PICK g \in Token : /\ Issue(g) /\ live' = (live \ rotated) \cup {g}
                           /\ Goto(q, "save", row, g)
    BY <1>5
  <2>2. g \in Nat /\ rotated \subseteq {row.refresh}
    BY <2>1 DEF IInv, Typed, Issue
  <2> HIDE DEF rotated
  <2>3. Rest' /\ age[g] = "fresh"
    BY <1>1, <2>1, IssuedIsFresh
  <2>4. \A k \in live : k \notin live' => k # 0 /\ k = row.refresh
    BY <2>1, <2>2 DEF LoneInv, Rest, Token
  <2>5. Lone(q) => Succeeds("save", parent[o].type, row, child'[o], g, live', age)
    BY <1>1, <1>4, <2>1, <2>3 DEF Succeeds, OAuth
  <2>6. QED
    BY <1>1, <1>2, <1>3, <2>1, <2>2, <2>3, <2>4, <2>5, GoesOnLone
<1>6. CASE Goto(q, "call", row, 0) /\ UNCHANGED <<granted, live>> /\ ~HonoursRefresh(row)
  <2>1. Rest'
    BY <1>1, <1>6 DEF LoneInv, Rest
  <2>2. QED
    BY <1>1, <1>2, <1>3, <1>4, <1>6, <2>1, GoesOnLone
<1>7. QED
  BY <1>5, <1>6 DEF Refresh

LEMMA ExchangeLone ==
  ASSUME IInv, LoneInv, NEW q \in Request, Exchange(q)
  PROVE  LoneInv' /\ Answered
<1> DEFINE row == req[q].row
           o == req[q].of
<1>1. req[q].step = "exchange" /\ UNCHANGED <<parent, child, age, cut>>
  BY DEF Exchange
<1>2. row \in Record /\ o \in Provider /\ "store" \in Step \ {"idle"}
  BY <1>1 DEF IInv, Typed, Handler, Step
<1>3. row.access = row.refresh /\ child'[o].access = child'[o].refresh
  BY <1>1, <1>2 DEF LoneInv, Pairs
<1>4. ~Lone(q)
  BY <1>1 DEF LoneInv, Prospect, Succeeds
<1>5. CASE \E g \in Token : Issue(g) /\ live' = live \cup {g} /\ Goto(q, "store", row, g)
  <2>1. PICK g \in Token : Issue(g) /\ live' = live \cup {g} /\ Goto(q, "store", row, g)
    BY <1>5
  <2>2. g \in Nat
    BY <2>1 DEF IInv, Typed, Issue
  <2>3. Rest'
    BY <1>1, <2>1, IssuedIsFresh
  <2>4. \A k \in live : k \in live'
    BY <2>1
  <2>5. QED
    BY <1>1, <1>2, <1>3, <1>4, <2>1, <2>2, <2>3, <2>4, GoesOnLone
<1>6. CASE Answer(q, "remote") /\ UNCHANGED <<granted, live>>
  <2>1. Rest'
    BY <1>1, <1>6 DEF LoneInv, Rest
  <2>2. QED
    BY <1>1, <1>3, <1>4, <1>6, <2>1, EndsLone
<1>7. QED
  BY <1>5, <1>6 DEF Exchange

(* A new pair of tokens leaves the rest of a row alone. *)
LEMMA PairOf ==
  ASSUME NEW row \in Record, NEW g \in Nat
  PROVE  /\ WithTokens(row, g).access = g /\ WithTokens(row, g).refresh = g
         /\ WithTokens(row, g).there = row.there /\ WithTokens(row, g).matches = row.matches
         /\ WithTokens(row, g).installed = row.installed
BY DEF Record, WithTokens

(* SaveTokens gives one row a pair of tokens. *)
LEMMA SavedPair ==
  ASSUME IInv, LoneInv, NEW p \in Provider, NEW g \in Nat, SaveTokens(p, g),
         UNCHANGED <<parent, granted, live, age, cut>>
  PROVE  /\ Rest' /\ child'[p].access = child'[p].refresh
         /\ \A o \in Provider : o # p => child'[o] = child[o]
         /\ child[p].there =>
              /\ child'[p].there /\ child'[p].matches = child[p].matches
              /\ child'[p].installed = child[p].installed /\ child'[p].access = g
<1>1. /\ child'[p].access = child'[p].refresh
      /\ \A o \in Provider : o # p => child'[o] = child[o]
      /\ child'[p].there = child[p].there
      /\ child[p].there =>
              /\ child'[p].matches = child[p].matches
              /\ child'[p].installed = child[p].installed /\ child'[p].access = g
  <2>1. CASE child[p].there
    <3>1. child' = [child EXCEPT ![p] = WithTokens(@, g)] /\ child[p] \in Record
      BY <2>1 DEF SaveTokens, IInv, Typed
    <3>2. child'[p] = WithTokens(child[p], g) /\ \A o \in Provider : o # p => child'[o] = child[o]
      BY <3>1 DEF IInv, Typed
    <3>3. QED
      BY <3>1, <3>2, PairOf
  <2>2. CASE ~child[p].there
    BY <2>2 DEF SaveTokens, LoneInv, Pairs
  <2>3. QED
    BY <2>1, <2>2
<1>2. QED
  BY <1>1 DEF LoneInv, Rest

LEMMA SaveRefreshedLone ==
  ASSUME IInv, LoneInv, NEW q \in Request, SaveRefreshed(q)
  PROVE  LoneInv' /\ Answered
<1> DEFINE o == req[q].of
           g == req[q].token
           row == Returned(q)
<1>1. /\ req[q].step = "save" /\ SaveTokens(o, g)
      /\ Goto(q, "call", row, 0) /\ UNCHANGED <<parent, granted, live, age, cut>>
  BY DEF SaveRefreshed
<1>2. o \in Provider /\ g \in Nat /\ req[q].row \in Record /\ 0 \in Nat /\ "call" \in Step \ {"idle"}
  BY <1>1 DEF IInv, Typed, Handler, Step
<1>3. /\ Rest' /\ child'[o].access = child'[o].refresh
      /\ \A p \in Provider : p # o => child'[p] = child[p]
      /\ child[o].there =>
           /\ child'[o].there /\ child'[o].matches = child[o].matches
           /\ child'[o].installed = child[o].installed /\ child'[o].access = g
  BY <1>1, <1>2, SavedPair
<1>4. child' \in [Provider -> Record]
  BY <1>1, <1>2, SavedRows DEF IInv
<1>5. row = (IF child'[o].there THEN child'[o] ELSE req[q].row)
  BY DEF Returned
<1> HIDE DEF row
<1>6. row \in Record /\ row.access = row.refresh
  BY <1>2, <1>3, <1>4, <1>5 DEF LoneInv, Pairs
<1>7. ASSUME Lone(q) PROVE Succeeds("call", parent[o].type, row, child'[o], 0, live', age)
  <2>1. /\ child[o] = req[q].row /\ child[o].there /\ child[o].matches
        /\ parent[o].type \in OAuth /\ g \in live /\ age[g] # "over"
    BY <1>1, <1>7 DEF LoneInv, Prospect, Succeeds
  <2>2. row = child'[o]
    BY <1>3, <1>5, <2>1
  <2>3. QED
    BY <1>1, <1>3, <2>1, <2>2 DEF Succeeds, OAuth
<1>8. QED
  BY <1>1, <1>2, <1>3, <1>6, <1>7, GoesOnLone

LEMMA StoreExchangedLone ==
  ASSUME IInv, LoneInv, NEW q \in Request, StoreExchanged(q)
  PROVE  LoneInv' /\ Answered
<1> DEFINE o == req[q].of
<1>1. /\ req[q].step = "store" /\ SaveTokens(o, req[q].token)
      /\ Answer(q, "ok") /\ UNCHANGED <<parent, granted, live, age, cut>>
  BY DEF StoreExchanged
<1>2. o \in Provider /\ req[q].token \in Nat
  BY <1>1 DEF IInv, Typed, Handler
<1>3. /\ Rest' /\ child'[o].access = child'[o].refresh
      /\ \A p \in Provider : p # o => child'[p] = child[p]
  BY <1>1, <1>2, SavedPair
<1>4. QED
  BY <1>1, <1>2, <1>3, EndsLone

(* What a request calls with is honoured, if nothing overlapped it. *)
LEMMA CallLone ==
  ASSUME IInv, LoneInv, NEW q \in Request,
         ListGithub(q) \/ ListGitlab(q) \/ ListBitbucket(q) \/ ListGitea(q)
  PROVE  LoneInv' /\ Answered
<1> DEFINE row == req[q].row
           o == req[q].of
<1>1. /\ req[q].step = "call" /\ UNCHANGED <<parent, child, granted, live, age, cut>>
      /\ \/ Answer(q, "ok")
         \/ /\ Answer(q, "remote")
            /\ \/ parent[o].type = "github" /\ ~(row.installed /\ row.matches)
               \/ parent[o].type \in OAuth /\ ~HonoursAccess(row)
               \/ ~row.matches
  BY DEF ListGithub, ListGitlab, ListBitbucket, ListGitea, Call, OAuth
<1>2. o \in Provider
  BY <1>1 DEF IInv, Typed
<1>3. Rest' /\ child'[o].access = child'[o].refresh
  BY <1>1, <1>2 DEF LoneInv, Rest, Pairs
<1>4. Lone(q) => Answer(q, "ok")
  BY <1>1 DEF LoneInv, Prospect, Succeeds, HonoursAccess
<1>5. QED
  BY <1>1, <1>3, <1>4, EndsLone

(* Create, Connect, Setup, Edit and Delete arrive. *)
LEMMA ArrivalsLone ==
  ASSUME IInv, LoneInv, NEW q \in Request, NEW p \in Provider,
         Create(q, p) \/ Connect(q, p) \/ Setup(q, p) \/ Edit(q, p) \/ Delete(q, p)
  PROVE  LoneInv' /\ Answered
<1>1. {"detail", "exchange", "installation", "edit", "delete"} \subseteq Step \ {"idle"}
  BY DEF Step
<1>2. /\ \A o \in Provider : parent'[o].type = parent[o].type
      /\ Rest' /\ UNCHANGED <<child, live, age>>
  <2>1. CASE Create(q, p)
    <3>1. /\ parent' = [parent EXCEPT ![p].state = "there"] /\ UNCHANGED <<child, granted, live, age, cut>>
      BY <2>1 DEF Create
    <3>2. /\ parent \in [Provider -> [state : {"absent", "there", "gone"}, type : Type]]
          /\ parent[p] \in [state : {"absent", "there", "gone"}, type : Type]
      BY DEF LoneInv, Rest
    <3> DEFINE new == [parent[p] EXCEPT !.state = "there"]
    <3>3. /\ new \in [state : {"absent", "there", "gone"}, type : Type]
          /\ new.state = "there" /\ new.type = parent[p].type
      BY <3>2
    <3>4. parent' = [parent EXCEPT ![p] = new]
      BY <3>1, <3>2
    <3> HIDE DEF new
    <3>5. /\ parent' \in [Provider -> [state : {"absent", "there", "gone"}, type : Type]]
          /\ parent'[p] = new /\ \A o \in Provider \ {p} : parent'[o] = parent[o]
      BY <3>2, <3>3, <3>4
    <3>6. QED
      BY <3>1, <3>3, <3>5 DEF LoneInv, Rest
  <2>2. CASE UNCHANGED <<parent, child, granted, live, age, cut>>
    BY <2>2 DEF LoneInv, Rest
  <2>3. QED
    BY <2>1, <2>2 DEF Connect, Setup, Edit, Delete
<1>3. CASE Create(q, p)
  BY <1>1, <1>2, <1>3, ArrivesLone DEF Create
<1>4. CASE Connect(q, p)
  BY <1>1, <1>2, <1>4, ArrivesLone DEF Connect
<1>5. CASE Setup(q, p)
  BY <1>1, <1>2, <1>5, ArrivesLone DEF Setup
<1>6. CASE Edit(q, p)
  BY <1>1, <1>2, <1>6, ArrivesLone DEF Edit
<1>7. CASE Delete(q, p)
  BY <1>1, <1>2, <1>7, ArrivesLone DEF Delete
<1>8. QED
  BY <1>3, <1>4, <1>5, <1>6, <1>7

(* A request that ends with a row in the place of its provider's. *)
LEMMA RowLone ==
  ASSUME IInv, LoneInv, NEW q \in Request, req[q].step \notin {"idle", "call", "refresh", "save"},
         NEW answer \in {"ok", "refused", "remote", "cut"}, Answer(q, answer),
         NEW row \in Record, row.access = row.refresh,
         row.there => parent'[req[q].of].state = "there",
         child' = [child EXCEPT ![req[q].of] = row],
         parent' \in [Provider -> [state : {"absent", "there", "gone"}, type : Type]],
         \A p \in Provider : parent'[p].type = parent[p].type,
         \A p \in Provider : p # req[q].of => parent'[p] = parent[p],
         UNCHANGED <<granted, live, age, cut>>
  PROVE  LoneInv' /\ Answered
<1>1. req[q].of \in Provider
  BY DEF IInv, Typed
<1>2. child'[req[q].of] = row /\ \A p \in Provider : p # req[q].of => child'[p] = child[p]
  BY <1>1 DEF IInv, Typed
<1>3. Rest'
  BY <1>1, <1>2 DEF LoneInv, Rest
<1>4. ~Lone(q)
  BY DEF LoneInv, Prospect, Succeeds
<1>5. QED
  BY <1>1, <1>2, <1>3, <1>4, EndsLone

(* And one that leaves the rows alone. *)
LEMMA QuitLone ==
  ASSUME IInv, LoneInv, NEW q \in Request, req[q].step # "idle",
         NEW answer \in {"ok", "refused", "remote", "cut"}, Answer(q, answer),
         Lone(q) => answer \in {"ok", "cut"},
         UNCHANGED <<parent, child, granted, live, age>>, cut' \subseteq Provider
  PROVE  LoneInv' /\ Answered
<1>1. req[q].of \in Provider
  BY DEF IInv, Typed
<1>2. Rest' /\ child'[req[q].of].access = child'[req[q].of].refresh
  BY <1>1 DEF LoneInv, Rest, Pairs
<1>3. QED
  BY <1>2, EndsLone

LEMMA CreateDetailLone ==
  ASSUME IInv, LoneInv, NEW q \in Request, NEW matches \in BOOLEAN, CreateDetail(q, matches)
  PROVE  LoneInv' /\ Answered
<1> DEFINE row == [NoRow EXCEPT !.there = TRUE, !.matches = matches]
<1>1. req[q].step = "detail" /\ UNCHANGED <<parent, granted, live, age, cut>>
  BY DEF CreateDetail
<1>2. row \in Record /\ row.access = row.refresh
  BY DEF NoRow, Record
<1>3. parent \in [Provider -> [state : {"absent", "there", "gone"}, type : Type]] /\ cut \subseteq Provider
  BY DEF LoneInv, Rest
<1>4. CASE child' = [child EXCEPT ![req[q].of] = row] /\ Answer(q, "ok") /\ parent[req[q].of].state = "there"
  <2> HIDE DEF row
  <2> QED
    BY <1>1, <1>2, <1>3, <1>4, RowLone
<1>5. CASE Answer(q, "refused") /\ UNCHANGED child
  <2>1. ~Lone(q)
    BY <1>1 DEF LoneInv, Prospect, Succeeds
  <2>2. QED
    BY <1>1, <1>3, <1>5, <2>1, QuitLone
<1>6. QED
  BY <1>4, <1>5 DEF CreateDetail

LEMMA SetInstallationLone ==
  ASSUME IInv, LoneInv, NEW q \in Request, SetInstallation(q)
  PROVE  LoneInv' /\ Answered
<1> DEFINE p == req[q].of
           row == [child[p] EXCEPT !.installed = TRUE]
<1>1. req[q].step = "installation" /\ Answer(q, "ok") /\ UNCHANGED <<parent, granted, live, age, cut>>
  BY DEF SetInstallation
<1>2. p \in Provider /\ child[p] \in Record /\ child[p].access = child[p].refresh
  BY <1>1 DEF IInv, Typed, LoneInv, Pairs
<1>3. /\ parent \in [Provider -> [state : {"absent", "there", "gone"}, type : Type]] /\ cut \subseteq Provider
      /\ child[p].there => parent[p].state = "there"
  BY <1>2 DEF LoneInv, Rest
<1>4. CASE child[p].there
  <2>1. row \in Record /\ row.access = row.refresh
    BY <1>2 DEF Record
  <2>2. child' = [child EXCEPT ![p] = row]
    BY <1>2, <1>4 DEF SetInstallation, IInv, Typed
  <2> HIDE DEF row
  <2>3. QED
    BY <1>1, <1>3, <1>4, <2>1, <2>2, RowLone
<1>5. CASE ~child[p].there
  <2>1. UNCHANGED child
    BY <1>5 DEF SetInstallation
  <2>2. QED
    BY <1>1, <1>3, <2>1, QuitLone
<1>6. QED
  BY <1>4, <1>5

LEMMA SetCredentialsLone ==
  ASSUME IInv, LoneInv, NEW q \in Request, NEW matches \in BOOLEAN, SetCredentials(q, matches)
  PROVE  LoneInv' /\ Answered
<1> DEFINE p == req[q].of
           row == [child[p] EXCEPT !.matches = matches]
<1>1. req[q].step = "edit" /\ Answer(q, "ok") /\ UNCHANGED <<parent, granted, live, age, cut>>
  BY DEF SetCredentials
<1>2. p \in Provider /\ child[p] \in Record /\ child[p].access = child[p].refresh
  BY <1>1 DEF IInv, Typed, LoneInv, Pairs
<1>3. /\ parent \in [Provider -> [state : {"absent", "there", "gone"}, type : Type]] /\ cut \subseteq Provider
      /\ child[p].there => parent[p].state = "there"
  BY <1>2 DEF LoneInv, Rest
<1>4. CASE child[p].there
  <2>1. row \in Record /\ row.access = row.refresh
    BY <1>2 DEF Record
  <2>2. child' = [child EXCEPT ![p] = row]
    BY <1>2, <1>4 DEF SetCredentials, IInv, Typed
  <2> HIDE DEF row
  <2>3. QED
    BY <1>1, <1>3, <1>4, <2>1, <2>2, RowLone
<1>5. CASE ~child[p].there
  <2>1. UNCHANGED child
    BY <1>5 DEF SetCredentials
  <2>2. QED
    BY <1>1, <1>3, <2>1, QuitLone
<1>6. QED
  BY <1>4, <1>5

LEMMA RemoveRowsLone ==
  ASSUME IInv, LoneInv, NEW q \in Request, RemoveRows(q)
  PROVE  LoneInv' /\ Answered
<1> DEFINE p == req[q].of
           new == [parent[p] EXCEPT !.state = "gone"]
<1>1. /\ req[q].step = "delete" /\ Answer(q, "ok") /\ UNCHANGED <<granted, live, age, cut>>
      /\ child' = [child EXCEPT ![p] = NoRow] /\ parent' = [parent EXCEPT ![p].state = "gone"]
  BY DEF RemoveRows
<1>2. /\ p \in Provider
      /\ parent \in [Provider -> [state : {"absent", "there", "gone"}, type : Type]]
  BY <1>1 DEF IInv, Typed, LoneInv, Rest
<1>3. parent[p] \in [state : {"absent", "there", "gone"}, type : Type]
  BY <1>2
<1>4. new \in [state : {"absent", "there", "gone"}, type : Type] /\ new.type = parent[p].type
  BY <1>3
<1>5. parent' = [parent EXCEPT ![p] = new]
  BY <1>1, <1>2
<1> HIDE DEF new
<1>6. /\ parent' \in [Provider -> [state : {"absent", "there", "gone"}, type : Type]]
      /\ \A o \in Provider : parent'[o].type = parent[o].type /\ (o # p => parent'[o] = parent[o])
  BY <1>2, <1>4, <1>5
<1>7. NoRow \in Record /\ NoRow.access = NoRow.refresh /\ ~NoRow.there
  BY IdleType DEF NoRow
<1>8. QED
  BY <1>1, <1>6, <1>7, RowLone

LEMMA FailLone ==
  ASSUME IInv, LoneInv, NEW q \in Request, Fail(q)
  PROVE  LoneInv' /\ Answered
<1>1. /\ req[q].step # "idle" /\ Answer(q, "cut") /\ UNCHANGED <<parent, child, granted, live, age>>
      /\ cut' \in {cut, cut \cup {req[q].of}}
  BY DEF Fail
<1>2. cut' \subseteq Provider
  BY <1>1 DEF IInv, Typed, LoneInv, Rest
<1>3. QED
  BY <1>1, <1>2, QuitLone

(* A token ends only when no request has it in hand. *)
LEMMA GrowOldLone ==
  ASSUME IInv, LoneInv, NEW g \in Token, GrowOld(g)
  PROVE  LoneInv' /\ Answered
<1>1. /\ g <= granted /\ age[g] # "over" /\ (age[g] = "soon" => ~InHand(g))
      /\ age' = [age EXCEPT ![g] = IF @ = "fresh" THEN "soon" ELSE "over"]
      /\ UNCHANGED <<parent, child, granted, live, req, cut>>
  BY DEF GrowOld
<1>2. /\ age' \in [Token -> {"fresh", "soon", "over"}]
      /\ \A k \in Token : k # g => age'[k] = age[k]
      /\ age'[g] = "over" => age[g] = "soon"
  BY <1>1 DEF LoneInv, Rest
<1>3. Rest'
  <2>1. \A k \in Token : k > granted => k # g
    BY <1>1 DEF Token, IInv, Typed
  <2>2. QED
    BY <1>1, <1>2, <2>1 DEF LoneInv, Rest
<1>4. Pairs' /\ Alone'
  BY <1>1 DEF LoneInv, Pairs, Alone
<1>5. ASSUME NEW q \in Request, Lone(q)' PROVE Prospect(q)'
  <2>1. Lone(q) /\ Prospect(q)
    BY <1>1, <1>5 DEF LoneInv, Lone
  <2>2. ASSUME req[q].token = g \/ (req[q].step = "call" /\ req[q].row.access = g)
        PROVE  age'[g] # "over"
    BY <1>1, <1>2, <2>2 DEF InHand
  <2>3. ASSUME NEW k \in live, age[k] # "over",
               req[q].token = k \/ (req[q].step = "call" /\ req[q].row.access = k)
        PROVE  age'[k] # "over"
    BY <1>2, <2>2, <2>3 DEF LoneInv, Rest
  <2>4. QED
    BY <1>1, <2>1, <2>3 DEF Prospect, Succeeds
<1>6. Answered
  BY <1>1 DEF Answered, LoneInv, Lone, Alone
<1>7. QED
  BY <1>3, <1>4, <1>5, <1>6 DEF LoneInv

(* A stutter disturbs no request. *)
LEMMA RestsLone == ASSUME LoneInv, UNCHANGED vars PROVE LoneInv' /\ Answered
BY DEF vars, LoneInv, Rest, Pairs, Alone, Lone, Prospect, Succeeds, Answered

(* At the start no request is under way. *)
LEMMA StartsLone == Init => LoneInv
<1> SUFFICES ASSUME Init PROVE LoneInv
  OBVIOUS
<1>1. PICK type \in [Provider -> Type] : parent = [p \in Provider |-> [state |-> "absent", type |-> type[p]]]
  BY DEF Init
<1>2. /\ granted = 0 /\ live = {} /\ cut = {} /\ age = [g \in Token |-> "fresh"]
      /\ \A p \in Provider : child[p] = NoRow
      /\ \A q \in Request : req[q] = Idle
  BY DEF Init
<1>3. NoRow.access = NoRow.refresh /\ ~NoRow.there
  BY DEF NoRow
<1>4. Rest
  BY <1>1, <1>2, <1>3 DEF Rest
<1>5. Pairs /\ Alone
  BY <1>2, <1>3, IdleType DEF Pairs, Alone
<1>6. QED
  BY <1>2, <1>4, <1>5, IdleType DEF LoneInv, Lone

(* Every step keeps it, and answers the read that ends unless a fault strikes. *)
LEMMA StepsLone ==
  ASSUME IInv, LoneInv, [Next]_vars
  PROVE  LoneInv' /\ Answered
<1>1. CASE UNCHANGED vars
  BY <1>1, RestsLone
<1>2. ASSUME NEW g \in Token, GrowOld(g) PROVE LoneInv' /\ Answered
  BY <1>2, GrowOldLone
<1>3. ASSUME NEW q \in Request,
             \/ Refresh(q) \/ SaveRefreshed(q) \/ Exchange(q) \/ StoreExchanged(q)
             \/ ListGithub(q) \/ ListGitlab(q) \/ ListBitbucket(q) \/ ListGitea(q)
             \/ SetInstallation(q) \/ RemoveRows(q) \/ Fail(q)
      PROVE  LoneInv' /\ Answered
  BY <1>3, RefreshLone, SaveRefreshedLone, ExchangeLone, StoreExchangedLone, CallLone,
     SetInstallationLone, RemoveRowsLone, FailLone
<1>4. ASSUME NEW q \in Request, NEW matches \in BOOLEAN, CreateDetail(q, matches) \/ SetCredentials(q, matches)
      PROVE  LoneInv' /\ Answered
  BY <1>4, CreateDetailLone, SetCredentialsLone
<1>5. ASSUME NEW q \in Request, NEW p \in Provider,
             \/ Create(q, p) \/ Connect(q, p) \/ Setup(q, p) \/ Edit(q, p) \/ Delete(q, p)
             \/ Read(q, p)
      PROVE  LoneInv' /\ Answered
  BY <1>5, ArrivalsLone, ReadLone
<1>6. QED
  BY <1>1, <1>2, <1>3, <1>4, <1>5 DEF Next

(* A read that no other request overlaps is answered, whatever happened to *)
(* its provider before: token refreshed, edited, reconnected; only a fault *)
(* ends it otherwise.                                                      *)
THEOREM LoneReadsSucceed == Spec => LoneReadSucceeds
<1>1. IInv /\ LoneInv /\ [Next]_vars =>
        [\A q \in Request :
           req[q].alone /\ req[q].usable /\ req'[q].step = "idle" => req'[q].answer \in {"ok", "cut"}]_vars
  BY StepsLone DEF Answered, Lone
<1>2. IInv /\ [Next]_vars => IInv'
  BY Steps
<1>3. IInv /\ LoneInv /\ [Next]_vars => LoneInv'
  BY StepsLone
<1>4. QED
  BY <1>1, <1>2, <1>3, Starts, StartsLone, PTL DEF Spec, LoneReadSucceeds

(* Every variable has its type: tokens are issued within their bound and   *)
(* each row of credentials belongs to a provider that is there.            *)
THEOREM TypeCorrect ==
  ASSUME Provider # {}, MaxGrants \in Nat, MaxFaults \in Nat
  PROVE  Spec => []TypeOK
<1> DEFINE Counts == faults \in 0 .. MaxFaults
<1>1. Init => Counts
  BY DEF Init
<1>2. Counts /\ [Next]_vars => Counts'
  <2>1. ASSUME [Next]_vars, \A q \in Request : ~Fail(q) PROVE UNCHANGED faults
    <3>1. ASSUME NEW q \in Request, Refresh(q) \/ SaveRefreshed(q) \/ Exchange(q) \/ StoreExchanged(q)
          PROVE  UNCHANGED faults
      BY <3>1 DEF Refresh, SaveRefreshed, Exchange, StoreExchanged
    <3>2. ASSUME NEW q \in Request, ListGithub(q) \/ ListGitlab(q) \/ ListBitbucket(q) \/ ListGitea(q)
          PROVE  UNCHANGED faults
      BY <3>2 DEF ListGithub, ListGitlab, ListBitbucket, ListGitea, Call
    <3>3. ASSUME NEW q \in Request, NEW matches \in BOOLEAN,
                 SetInstallation(q) \/ RemoveRows(q) \/ CreateDetail(q, matches) \/ SetCredentials(q, matches)
          PROVE  UNCHANGED faults
      BY <3>3 DEF SetInstallation, RemoveRows, CreateDetail, SetCredentials
    <3>4. ASSUME NEW q \in Request, NEW p \in Provider,
                 \/ Create(q, p) \/ Connect(q, p) \/ Setup(q, p) \/ Edit(q, p) \/ Delete(q, p)
                 \/ Read(q, p)
          PROVE  UNCHANGED faults
      BY <3>4 DEF Create, Connect, Setup, Edit, Delete, Read
    <3>5. QED
      BY <2>1, <3>1, <3>2, <3>3, <3>4 DEF Next, vars, GrowOld
  <2>2. ASSUME NEW q \in Request, Fail(q) PROVE faults < MaxFaults /\ faults' = faults + 1
    BY <2>2 DEF Fail
  <2>3. QED
    BY <2>1, <2>2
<1>3. IInv /\ LoneInv /\ Counts => TypeOK
  <2> SUFFICES ASSUME IInv, LoneInv, Counts PROVE TypeOK
    OBVIOUS
  <2>1. granted \in 0 .. MaxGrants
    BY DEF LoneInv, Rest, Token
  <2>2. child \in [Provider -> Row]
    <3>1. ASSUME NEW p \in Provider PROVE child[p] \in Row
      <4>1. child[p] \in Record /\ child[p].refresh <= granted /\ child[p].access = child[p].refresh
        BY DEF IInv, Typed, Issued, LoneInv, Pairs
      <4>2. QED
        BY <2>1, <4>1 DEF Record, Row
    <3>2. QED
      BY <3>1 DEF IInv, Typed
  <2> DEFINE Req == [step : Step, op : {"none", "read", "create", "connect", "setup", "edit", "delete"},
        of : Provider, row : Row, token : 0 .. MaxGrants,
        answer : {"none", "ok", "refused", "remote", "cut"},
        alone : BOOLEAN, usable : BOOLEAN]
  <2>3. Idle.of \in Provider
    BY DEF Idle
  <2>4. req \in [Request -> Req]
    <3>1. ASSUME NEW q \in Request PROVE req[q] \in Req
      <4>1. /\ req[q] \in Handler /\ req[q].row.refresh <= granted /\ req[q].token <= granted
            /\ req[q].row.access = req[q].row.refresh
        BY DEF IInv, Typed, Issued, LoneInv, Pairs
      <4>2. req[q].row \in Row
        <5>1. req[q].row \in Record
          BY <4>1 DEF Handler
        <5>2. QED
          BY <2>1, <4>1, <5>1 DEF Record, Row
      <4>3. req[q].token \in 0 .. MaxGrants
        BY <2>1, <4>1 DEF Handler
      <4>4. req[q].of \in Provider
        BY <2>3, <4>1 DEF Handler
      <4>5. QED
        BY <4>1, <4>2, <4>3, <4>4 DEF Handler
    <3>2. QED
      BY <3>1 DEF IInv, Typed
  <2>5. QED
    BY <2>1, <2>2, <2>4 DEF TypeOK, LoneInv, Rest
<1>4. QED
  BY <1>1, <1>2, <1>3, Starts, Steps, StartsLone, StepsLone, PTL DEF Spec
=============================================================================
