---------------------------- MODULE ProjectSlugs ----------------------------
(***************************************************************************)
(* Slugs of projects: POST projects reads the slugs of the organization,   *)
(* picks a free one and inserts under a unique index, over again when      *)
(* another request was faster.                                             *)
(*                                                                         *)
(* Simplifications: all requests ask for the same slug in one              *)
(* organization; candidate 1 is the slug itself, candidate n carries -n.   *)
(* Whether the database driver hands its error over as it is, with the     *)
(* code of the violation, or wrapped in another one, is not in this        *)
(* repository: both are possible.                                          *)
(***************************************************************************)
EXTENDS Naturals, FiniteSets

CONSTANTS
  Request,      \* POSTs
  MaxAttempts   \* maxProjectSlugAttempts, 25 in the code

VARIABLES
  taken,    \* slugs in the projects table
  wrapped,  \* does the driver's error arrive wrapped?
  post,     \* where the requests are
  rivals    \* history: inserts of others while a request was at work

vars == <<taken, wrapped, post, rivals>>

Candidate == 1 .. Cardinality(Request) + 1

TypeOK ==
  /\ taken \subseteq Candidate
  /\ wrapped \in BOOLEAN
  /\ post \in [Request ->
       [step : {"idle", "read", "insert", "created", "refused", "error"},
        attempt : 0 .. MaxAttempts, slug : Candidate \cup {0}]]
  /\ rivals \in [Request -> Nat]

Init ==
  /\ taken \in {{}, {1}}
  /\ wrapped \in BOOLEAN
  /\ post = [q \in Request |-> [step |-> "idle", attempt |-> 0, slug |-> 0]]
  /\ rivals = [q \in Request |-> 0]

Begin(q) ==
  /\ post[q].step = "idle"
  /\ post' = [post EXCEPT ![q].step = "read"]
  /\ UNCHANGED <<taken, wrapped, rivals>>

(* pickUniqueSlug: the first candidate that was not read. *)
Pick(slugs) == CHOOSE n \in Candidate \ slugs : \A k \in Candidate \ slugs : n <= k

(* Mutant of Allocate: the slugs are read before the loop only. *)
AllocateOnce(q) ==
  /\ post[q].step = "read"
  /\ post' = [post EXCEPT ![q].step = "insert", ![q].slug = IF @ = 0 THEN Pick(taken) ELSE @]
  /\ UNCHANGED <<taken, wrapped, rivals>>

(* allocateProjectSlug *)
Allocate(q) ==
  /\ post[q].step = "read"
  /\ post' = [post EXCEPT ![q].step = "insert", ![q].slug = Pick(taken)]
  /\ UNCHANGED <<taken, wrapped, rivals>>

Insert(q) ==
  /\ post[q].step = "insert"
  /\ post[q].slug \notin taken
  /\ taken' = taken \cup {post[q].slug}
  /\ post' = [post EXCEPT ![q].step = "created"]
  /\ rivals' = [r \in Request |->
                  IF r # q /\ post[r].step \in {"read", "insert"} THEN rivals[r] + 1 ELSE rivals[r]]
  /\ UNCHANGED wrapped

(* The unique index rejects the insert.  isProjectSlugConflict looks at    *)
(* the code of the error itself: a wrapped one is thrown on.               *)
Conflict(q) ==
  /\ post[q].step = "insert"
  /\ post[q].slug \in taken
  /\ post' = [post EXCEPT
                ![q].attempt = @ + 1,
                ![q].step = IF wrapped THEN "error"
                            ELSE IF post[q].attempt + 1 < MaxAttempts THEN "read"
                            ELSE "refused"]
  /\ UNCHANGED <<taken, wrapped, rivals>>

Next == \E q \in Request : Begin(q) \/ Allocate(q) \/ Insert(q) \/ Conflict(q)

Spec == Init /\ [][Next]_vars

(* "Could not allocate a unique project slug" is answered only when as     *)
(* many others as there are attempts were faster one after the other.      *)
RefusedMeansCrowded ==
  \A q \in Request : post[q].step = "refused" => rivals[q] >= MaxAttempts
=============================================================================
