----------------------------- MODULE Dashboards -----------------------------
(***************************************************************************)
(* The dashboards a user keeps for one job: internal/store/dashboards.go   *)
(* and the handlers of internal/httpapi/dashboards.go.                     *)
(*                                                                         *)
(* A transaction of the store is one step: SQLite refuses the one whose    *)
(* reads another has overtaken, and its handler answers with an error.     *)
(* What a handler reads before is a step of its own.                       *)
(***************************************************************************)
EXTENDS Integers, FiniteSets, FiniteSetsExt

CONSTANTS
  Ids,       \* identifiers the server can draw, numbers
  Labels,    \* names a user can give
  Threads,   \* requests in progress
  MaxBoards  \* dashboards of one job, 32

VARIABLES
  board,   \* job_dashboards: a function on the identifiers in use
  active,  \* active_job_dashboards, or Nobody
  used,    \* identifiers drawn so far
  thread   \* where each request is, and what it has read
vars == <<board, active, used, thread>>

Nobody == 0
First == "Dashboard"   \* the name of the one the server makes
Looks == {"plain", "dark"}   \* of a configuration
Board == [name : Labels \cup {First}, order : 0 .. Cardinality(Ids), default : BOOLEAN, look : Looks]
Idle == [at |-> "idle"]
Goals == {"show", "create", "put"}
Thread ==
  {Idle} \cup [at : {"preference"}, goal : Goals, id : Ids]
         \cup [at : {"first", "again"}, goal : Goals]
         \cup [at : {"create"}, look : Looks] \cup [at : {"put"}, id : Ids, look : Looks]
         \cup [at : {"active", "upsert", "default"}, id : Ids]

TypeOK ==
  /\ DOMAIN board \subseteq used /\ used \subseteq Ids
  /\ board \in [DOMAIN board -> Board]
  /\ active \in Ids \cup {Nobody}
  /\ thread \in [Threads -> Thread]

Init == board = [d \in {} |-> 0] /\ active = Nobody /\ used = {} /\ thread = [t \in Threads |-> Idle]

Boards == DOMAIN board
Defaults == {d \in Boards : board[d].default}
Ends(t) == thread' = [thread EXCEPT ![t] = Idle]
Goes(t, to) == thread' = [thread EXCEPT ![t] = to]
Rows(some) == [d \in some |-> board[d]]

(* INSERT under the two unique indexes, of the name and of the default.    *)
NextOrder_Count(d) == Cardinality(Boards)
NextOrder(d) == 1 + Max({-1} \cup {board[e].order : e \in Boards})
IsFree(name) == \A d \in Boards : board[d].name # name
Allowed_ByName(name, default) == IsFree(name)
Allowed(name, default) == IsFree(name) /\ (default => Defaults = {})
CreateDashboard(name, default, look, makeActive) ==
  LET isDefault == default \/ Boards = {} IN
  IF Cardinality(Boards) >= MaxBoards \/ ~Allowed(name, isDefault)
  THEN UNCHANGED <<board, active, used>>
  ELSE \E d \in Ids \ used :
         /\ used' = used \cup {d}
         /\ board' = [e \in Boards \cup {d} |-> IF e = d
              THEN [name |-> name, order |-> NextOrder(d), default |-> isDefault, look |-> look] ELSE board[e]]
         /\ active' = IF makeActive \/ Boards = {} THEN d ELSE active

(* dashboardForRequest without an identifier: the active one, and if there *)
(* is none, or it is deleted between two reads, a first one is made.       *)
Begin(t, goal) ==
  /\ thread[t].at = "idle"
  /\ Goes(t, IF active = Nobody THEN [at |-> "first", goal |-> goal]
             ELSE [at |-> "preference", goal |-> goal, id |-> active])
  /\ UNCHANGED <<board, active, used>>
Reached(t, d) ==
  CASE thread[t].goal = "show"   -> Idle
    [] thread[t].goal = "create" -> [at |-> "create", look |-> "plain"]
    [] thread[t].goal = "put"    -> [at |-> "put", id |-> d, look |-> board[d].look]
ReadPreference(t) ==
  /\ thread[t].at = "preference"
  /\ LET d == thread[t].id
     IN  Goes(t, IF d \in Boards THEN Reached(t, d) ELSE [at |-> "first", goal |-> thread[t].goal])
  /\ UNCHANGED <<board, active, used>>
CreateFirst(t) ==
  /\ thread[t].at = "first"
  /\ CreateDashboard(First, TRUE, "plain", TRUE)
  /\ Goes(t, [thread[t] EXCEPT !.at = "again"])
ReadAgain(t) ==
  /\ thread[t].at = "again"
  /\ Goes(t, IF active \in Boards THEN Reached(t, active) ELSE Idle)
  /\ UNCHANGED <<board, active, used>>

(* createDashboard; a duplicate reads the configuration of its source.     *)
ReadSource(t, d) ==
  /\ thread[t].at = "create" /\ d \in Boards
  /\ Goes(t, [at |-> "create", look |-> board[d].look])
  /\ UNCHANGED <<board, active, used>>
Create(t, name, makeActive) ==
  /\ thread[t].at = "create"
  /\ CreateDashboard(name, FALSE, thread[t].look, makeActive)
  /\ Ends(t)

(* putDashboard; one with an identifier reads that one.  The request names *)
(* the look or says nothing about it.                                      *)
ReadForPut(t, d) ==
  /\ thread[t].at = "idle" /\ d \in Boards
  /\ Goes(t, [at |-> "put", id |-> d, look |-> board[d].look])
  /\ UNCHANGED <<board, active, used>>
PutDashboard(t, look) ==
  /\ thread[t].at = "put"
  /\ board' = IF thread[t].id \notin Boards THEN board
              ELSE [board EXCEPT ![thread[t].id].look = IF look = "as read" THEN thread[t].look ELSE look]
  /\ Ends(t)
  /\ UNCHANGED <<active, used>>

(* patchDashboard: up to three changes, one after the other.               *)
RenameDashboard(t, d, name) ==
  /\ thread[t].at = "idle" /\ d \in used
  /\ IF d \in Boards /\ \A e \in Boards \ {d} : board[e].name # name
     THEN board' = [board EXCEPT ![d].name = name] /\ Goes(t, [at |-> "active", id |-> d])
     ELSE UNCHANGED <<board, thread>>
  /\ UNCHANGED <<active, used>>
CheckActive(t, d) ==
  /\ thread[t].at = "idle" \/ (thread[t].at = "active" /\ thread[t].id = d)
  /\ d \in used
  /\ Goes(t, IF d \in Boards THEN [at |-> "upsert", id |-> d] ELSE Idle)
  /\ UNCHANGED <<board, active, used>>
(* The row of a dashboard deleted since breaks the foreign key.            *)
Upserted_Unchecked(d) == d
Upserted(d) == IF d \in Boards THEN d ELSE active
SetActiveDashboard(t) ==
  /\ thread[t].at = "upsert"
  /\ active' = Upserted(thread[t].id)
  /\ Goes(t, [at |-> "default", id |-> thread[t].id])
  /\ UNCHANGED <<board, used>>
SetDefaultDashboard(t) ==
  /\ thread[t].at \in {"active", "default"}
  /\ board' = IF thread[t].id \in Boards
              THEN [d \in Boards |-> [board[d] EXCEPT !.default = d = thread[t].id]] ELSE board
  /\ Ends(t)
  /\ UNCHANGED <<active, used>>
PatchEnds(t) == thread[t].at \in {"active", "default"} /\ Ends(t) /\ UNCHANGED <<board, active, used>>

(* DeleteDashboard: the fallback is the default one, or the first.         *)
Before(d, e) == board[d].order < board[e].order \/ (board[d].order = board[e].order /\ d < e)
Fallback(rest) ==
  CHOOSE d \in rest : \A e \in rest \ {d} :
    \/ board[d].default /\ ~board[e].default
    \/ board[d].default = board[e].default /\ Before(d, e)
CanDelete_Any(d) == d \in Boards
CanDelete(d) == d \in Boards /\ Cardinality(Boards) > 1
Promoted(d) == board[d].default
DeleteDashboard(d) ==
  /\ CanDelete(d)
  /\ LET rest == Boards \ {d} IN
     IF rest = {} THEN board' = Rows(rest) /\ active' = Nobody
     ELSE /\ board' = [Rows(rest) EXCEPT ![Fallback(rest)].default = @ \/ Promoted(d)]
          /\ active' = IF active \in {d, Nobody} THEN Fallback(rest) ELSE active
  /\ UNCHANGED <<used, thread>>

Next ==
  \/ \E t \in Threads :
       \/ \E goal \in Goals : Begin(t, goal)
       \/ ReadPreference(t) \/ CreateFirst(t) \/ ReadAgain(t)
       \/ \E name \in Labels, makeActive \in BOOLEAN : Create(t, name, makeActive)
       \/ \E d \in Ids :
            \/ ReadSource(t, d) \/ ReadForPut(t, d) \/ CheckActive(t, d)
            \/ \E name \in Labels : RenameDashboard(t, d, name)
       \/ \E look \in Looks \cup {"as read"} : PutDashboard(t, look)
       \/ SetActiveDashboard(t) \/ SetDefaultDashboard(t) \/ PatchEnds(t)
  \/ \E d \in Ids : DeleteDashboard(d)
Spec == Init /\ [][Next]_vars

-----------------------------------------------------------------------------
(* Properties. *)

(* Whatever overlaps - the first dashboard made by two requests at once,   *)
(* or again because the active one was deleted between the two reads of    *)
(* DashboardPreference - a job with dashboards has exactly one default.    *)
OneDefault == Boards # {} => Cardinality(Defaults) = 1

(* The active dashboard is one of the job's, and a job with dashboards has *)
(* an active one: otherwise dashboardForRequest would make another.        *)
ActiveIsThere == IF Boards = {} THEN active = Nobody ELSE active \in Boards

(* Two deletes at once do not remove the last dashboard of a job.          *)
OneIsKept == used # {} => Boards # {}

(* The order of the tabs is total: a dashboard made after deletes does not *)
(* come to lie on another.                                                 *)
OrderIsTotal == \A d, e \in Boards : board[d].order = board[e].order => d = e

(* What makes them hold from step to step: orders are given out one after  *)
(* the other, as often as there were dashboards at most.                   *)
IInv ==
  /\ TypeOK
  /\ Boards # {} => \E d \in Boards : Defaults = {d}
  /\ ActiveIsThere /\ OneIsKept /\ OrderIsTotal
  /\ \A d \in Boards : board[d].order < Cardinality(used)

(* A configuration stored without a word on the look leaves the look as    *)
(* it is (dashboards.go:395, "appearance := existing.Appearance").  Not so *)
(* when another request changes it between the read and the write.         *)
LookIsLeftAlone ==
  [][\A t \in Threads : PutDashboard(t, "as read") /\ thread[t].id \in Boards
       => board'[thread[t].id].look = board[thread[t].id].look]_vars

=============================================================================
