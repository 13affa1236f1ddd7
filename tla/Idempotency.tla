----------------------------- MODULE Idempotency -----------------------------
(***************************************************************************)
(* A request with an Idempotency-Key, and its retries: beginIdempotency,   *)
(* abort and write in internal/httpapi/api.go, ClaimIdempotency,           *)
(* CompleteIdempotency and ReleaseIdempotency in internal/store/store.go,  *)
(* around createJob, whose other calls go the same way.  The key is        *)
(* claimed, the operation runs, the answer is stored: three statements,    *)
(* each under the context of a client that may hang up.                    *)
(***************************************************************************)
EXTENDS Integers

CONSTANTS
  Requests,  \* the tries of one operation under one key, at once or in turn
  Other      \* those of them that are another call (method or path) by mistake

VARIABLES
  key,      \* the row of idempotency_keys: its operation and its answer
  request,  \* the handlers
  jobs,     \* the jobs created, by the try that created them
  answer    \* what each client has been told
vars == <<key, request, jobs, answer>>

(* What a client is told, besides the number of the try whose job it is.   *)
None == 0
Conflict == -1
Invalid == -2
Failed == -3

NoKey == [there |-> FALSE, op |-> "none", job |-> 0]
Op(r) == IF r \in Other THEN "other" ELSE "create"
Waiting(r) == request[r].at = "new"

TypeOK ==
  /\ key \in [there : BOOLEAN, op : {"none", "create", "other"}, job : {0} \cup Requests]
  /\ request \in [Requests -> [at : {"new", "read", "work", "abort", "write", "end"},
                               connected : BOOLEAN]]
  /\ jobs \subseteq Requests
  /\ answer \in [Requests -> {None, Conflict, Invalid, Failed} \cup Requests]

Init ==
  /\ key = NoKey /\ jobs = {}
  /\ request = [r \in Requests |-> [at |-> "new", connected |-> TRUE]]
  /\ answer = [r \in Requests |-> None]

Goto(r, at) == request' = [request EXCEPT ![r].at = at]
Reply(r, a) ==
  /\ request' = [request EXCEPT ![r].at = "end"]
  /\ answer' = [answer EXCEPT ![r] = IF request[r].connected THEN a ELSE None]

(* ClaimIdempotency: the first to insert the row goes on, the others read  *)
(* what it has become.                                                     *)
Insert_Always(r) ==
  key' = [there |-> TRUE, op |-> Op(r), job |-> key.job] /\ Goto(r, "work")
Insert(r) ==
  IF key.there THEN UNCHANGED key /\ Goto(r, "read")
  ELSE key' = [there |-> TRUE, op |-> Op(r), job |-> 0] /\ Goto(r, "work")
Claim(r) ==
  /\ Waiting(r) /\ request[r].connected
  /\ Insert(r)
  /\ UNCHANGED <<jobs, answer>>

(* The stored answer is for the same call only.  (The row may be gone by   *)
(* now: then the read fails.)                                              *)
Replay_AnyCall(r) == IF key.job = 0 THEN Conflict ELSE key.job
Replay(r) == IF key.job = 0 \/ key.op # Op(r) THEN Conflict ELSE key.job
Read(r) ==
  /\ request[r].at = "read"
  /\ Reply(r, IF ~key.there THEN Failed ELSE Replay(r))
  /\ UNCHANGED <<key, jobs>>

(* createJob: refused, or stored; a statement of a client that has hung up *)
(* fails.                                                                  *)
Create(r) ==
  /\ request[r].at = "work"
  /\ \/ Goto(r, "abort") /\ UNCHANGED jobs
     \/ request[r].connected /\ Goto(r, "write") /\ jobs' = jobs \cup {r}
  /\ UNCHANGED <<key, answer>>

(* ReleaseIdempotency deletes a row without an answer. *)
Abort(r) ==
  /\ request[r].at = "abort"
  /\ key' = IF request[r].connected /\ key.job = 0 THEN NoKey ELSE key
  /\ Reply(r, Invalid)
  /\ UNCHANGED jobs

(* CompleteIdempotency; when it fails the claim stays. *)
Complete(r) == IF request[r].connected THEN [key EXCEPT !.job = r] ELSE key
WriteAnswer(r) ==
  /\ request[r].at = "write"
  /\ key' = Complete(r)
  /\ Reply(r, r)
  /\ UNCHANGED jobs

(* The client hangs up: its answer is lost and its context cancelled.      *)
HangUp(r) ==
  /\ request[r].at \notin {"new", "end"} /\ request[r].connected
  /\ request' = [request EXCEPT ![r].connected = FALSE]
  /\ UNCHANGED <<key, jobs, answer>>

(* The server dies: rows stay. *)
Dies ==
  /\ \E r \in Requests : request[r].at \notin {"new", "end"}
  /\ request' = [r \in Requests |-> IF Waiting(r) THEN request[r]
                                    ELSE [at |-> "end", connected |-> FALSE]]
  /\ UNCHANGED <<key, jobs, answer>>

Next ==
  \/ \E r \in Requests : Claim(r) \/ Read(r) \/ Create(r) \/ Abort(r) \/ WriteAnswer(r) \/ HangUp(r)
  \/ Dies
Spec == Init /\ [][Next]_vars

-----------------------------------------------------------------------------
(* Properties. *)

(* However the tries of one operation overlap, are cut off and repeated,   *)
(* one job comes of them.                                                  *)
OneJobPerKey == \A i, j \in jobs : i = j

(* Whoever is given a job under the key is given the one that exists, and  *)
(* a call of another kind is never given it.                               *)
AnswersAgree ==
  \A r \in Requests : answer[r] \in Requests =>
    answer[r] \in jobs /\ Op(answer[r]) = Op(r)

(* Why they hold: the inductive invariant.                                 *)

(* One try has claimed the key and not answered yet; its job is the only   *)
(* one, if it has got that far.                                            *)
Holds(r) == request[r].at \in {"work", "abort", "write"}
KeyIsHeld ==
  \A r \in Requests : Holds(r) =>
    /\ key.there /\ key.job = 0 /\ key.op = Op(r)
    /\ \A s \in Requests \ {r} : ~Holds(s)
    /\ jobs = IF request[r].at = "write" THEN {r} ELSE {}

(* A job keeps its key claimed, for its own call.                          *)
JobKeepsItsKey ==
  /\ \A j \in jobs : key.there /\ key.op = Op(j) /\ jobs = {j}
  /\ key.job # 0 => key.job \in jobs

IInv == TypeOK /\ KeyIsHeld /\ JobKeepsItsKey /\ AnswersAgree

=============================================================================
