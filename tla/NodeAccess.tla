----------------------------- MODULE NodeAccess ----------------------------
(***************************************************************************)
(* How an agent gets and keeps its access: one-use enrollment tokens, the  *)
(* node's credential, its rotation with a grace period for the previous    *)
(* one, its revocation by deletion, and the copy on the agent's disk       *)
(* (internal/agent authenticate and rotateCredential, internal/httpapi     *)
(* enrollAgent, rotateAgentCredential and deleteNode, internal/store).     *)
(* Replies are lost, the agent dies at any point, and the server dies      *)
(* between consuming a token and storing the node.                         *)
(***************************************************************************)
EXTENDS Integers

CONSTANTS
  Tokens,     \* the enrollment tokens an operator may create
  NodeIds,    \* the node ids the server may give out
  None, Revoked,
  MaxIssued,  \* bound: credentials the server issues
  MaxCrashes  \* bound: deaths of the agent

VARIABLES
  token,   \* the rows of enrollment_tokens
  row,     \* the rows of nodes, as far as access is concerned
  agent,   \* the agent's memory
  disk,    \* credential.json
  call,    \* the agent's call to the server, through its steps and its reply
  issued,  \* the number of the last credential
  crashes,
  unsaved  \* history: credentials of the agent's node it never got to save,
           \* since the last one it saved
vars == <<token, row, agent, disk, call, issued, crashes, unsaved>>

Credential == 1 .. MaxIssued
Saved == [node : NodeIds \cup {None}, cred : Credential \cup {None}]
Nothing == [node |-> None, cred |-> None]
NoCall == [at |-> "none", node |-> None, cred |-> None, token |-> None]

TypeOK ==
  /\ token \in [Tokens -> [state : {"absent", "open", "used", "revoked", "expired"},
                           node : NodeIds \cup {None}]]
  /\ row \in [NodeIds -> [exists : BOOLEAN, deleted : BOOLEAN, token : Tokens \cup {None},
                          cred : Credential \cup {None, Revoked},
                          prev : Credential \cup {None}, grace : BOOLEAN]]
  /\ agent \in [up : BOOLEAN, node : NodeIds \cup {None}, cred : Credential \cup {None}]
  /\ disk \in Saved
  /\ call \in [at : {"none", "enroll", "store", "enrolled", "rotate", "rotated"},
               node : NodeIds \cup {None}, cred : Credential \cup {None},
               token : Tokens \cup {None}]
  /\ issued \in 0 .. MaxIssued /\ crashes \in 0 .. MaxCrashes
  /\ unsaved \in 0 .. MaxIssued

Init ==
  /\ token = [t \in Tokens |-> [state |-> "absent", node |-> None]]
  /\ row = [n \in NodeIds |-> [exists |-> FALSE, deleted |-> FALSE, token |-> None,
                               cred |-> None, prev |-> None, grace |-> FALSE]]
  /\ agent = [up |-> FALSE, node |-> None, cred |-> None]
  /\ disk = Nothing /\ call = NoCall
  /\ issued = 0 /\ crashes = 0 /\ unsaved = 0

(* NodeByCredential: the current credential, or the previous one while its *)
(* grace period lasts, of a node that is not deleted.                      *)
NodeByCredential(n, c) ==
  /\ row[n].exists /\ ~row[n].deleted /\ c # None
  /\ c = row[n].cred \/ (c = row[n].prev /\ row[n].grace)

-----------------------------------------------------------------------------
(* Operators. *)

CreateToken(t) ==
  /\ token[t].state = "absent"
  /\ token' = [token EXCEPT ![t].state = "open"]
  /\ UNCHANGED <<row, agent, disk, call, issued, crashes, unsaved>>

(* Revoked by its creator, or expired after fifteen minutes. *)
CloseToken(t) ==
  /\ token[t].state = "open"
  /\ \E s \in {"revoked", "expired"} : token' = [token EXCEPT ![t].state = s]
  /\ UNCHANGED <<row, agent, disk, call, issued, crashes, unsaved>>

(* DeleteNode, where no job is active: every credential is gone. *)
DeleteNode(n) ==
  /\ row[n].exists /\ ~row[n].deleted
  /\ row' = [row EXCEPT ![n].deleted = TRUE, ![n].cred = Revoked,
                        ![n].prev = None, ![n].grace = FALSE]
  /\ UNCHANGED <<token, agent, disk, call, issued, crashes, unsaved>>

(* Ten minutes after a rotation. *)
GraceEnds(n) ==
  /\ row[n].grace
  /\ row' = [row EXCEPT ![n].grace = FALSE]
  /\ UNCHANGED <<token, agent, disk, call, issued, crashes, unsaved>>

-----------------------------------------------------------------------------
(* authenticate, run once when the agent starts. *)

(* A saved credential is used as it is when no token is configured, when   *)
(* the server accepts it, and when the server cannot be asked.             *)
StartSaved ==
  /\ ~agent.up /\ call = NoCall /\ disk # Nothing
  /\ agent' = [up |-> TRUE, node |-> disk.node, cred |-> disk.cred]
  /\ UNCHANGED <<token, row, disk, call, issued, crashes, unsaved>>

(* Without one, or with one the server refuses, a configured token is      *)
(* spent on an enrollment under a new node id.                             *)
StartEnroll(t) ==
  /\ ~agent.up /\ call = NoCall /\ token[t].state # "absent"
  /\ disk # Nothing => ~NodeByCredential(disk.node, disk.cred)
  /\ call' = [NoCall EXCEPT !.at = "enroll", !.token = t]
  /\ UNCHANGED <<token, row, agent, disk, issued, crashes, unsaved>>

(* ConsumeEnrollmentToken: one statement, conditional on the token being   *)
(* unused and unexpired.  A refusal ends the agent.                        *)
ConsumeEnrollmentToken_Reusable(t) == token[t].state \in {"open", "used"}
ConsumeEnrollmentToken(t) == token[t].state = "open"

Consume ==
  /\ call.at = "enroll"
  /\ \/ /\ ConsumeEnrollmentToken(call.token)
        /\ \E n \in NodeIds :
             /\ ~row[n].exists /\ \A t \in Tokens : token[t].node # n
             /\ token' = [token EXCEPT ![call.token] = [state |-> "used", node |-> n]]
             /\ call' = [call EXCEPT !.at = "store", !.node = n]
     \/ /\ ~ConsumeEnrollmentToken(call.token)
        /\ call' = NoCall /\ UNCHANGED token
  /\ UNCHANGED <<row, agent, disk, issued, crashes, unsaved>>

(* UpsertNode with the hash of a new credential; or the server stops, or   *)
(* the database refuses, after the token is spent.                         *)
StoreNode ==
  /\ call.at = "store"
  /\ \/ /\ issued < MaxIssued
        /\ issued' = issued + 1
        /\ row' = [row EXCEPT ![call.node] =
             [@ EXCEPT !.exists = TRUE, !.token = call.token, !.cred = issued + 1]]
        /\ call' = [call EXCEPT !.at = "enrolled", !.cred = issued + 1]
     \/ /\ call' = NoCall /\ UNCHANGED <<row, issued>>
  /\ UNCHANGED <<token, agent, disk, crashes, unsaved>>

(* The reply: memory, then disk, before anything else runs. *)
Enrolled ==
  /\ call.at = "enrolled"
  /\ agent' = [up |-> TRUE, node |-> call.node, cred |-> call.cred]
  /\ disk' = [node |-> call.node, cred |-> call.cred]
  /\ call' = NoCall /\ unsaved' = 0
  /\ UNCHANGED <<token, row, issued, crashes>>

-----------------------------------------------------------------------------
(* rotateCredential, from the heartbeat loop, retried every ten seconds    *)
(* once thirty days have passed.                                           *)

(* withAgent: the credential is checked, and the handler goes on from the  *)
(* node it belongs to.                                                     *)
RotateAsked ==
  /\ agent.up /\ call = NoCall /\ issued < MaxIssued
  /\ NodeByCredential(agent.node, agent.cred)
  /\ call' = [NoCall EXCEPT !.at = "rotate", !.node = agent.node]
  /\ UNCHANGED <<token, row, agent, disk, issued, crashes, unsaved>>

(* RotateNodeCredential: refused for a node deleted in the meantime. *)
RotateNodeCredential_OfDeleted(n, c) ==
  row' = [row EXCEPT ![n].prev = row[n].cred, ![n].cred = c, ![n].grace = TRUE]
RotateNodeCredential_NoPrevious(n, c) ==
  /\ ~row[n].deleted
  /\ row' = [row EXCEPT ![n].cred = c, ![n].grace = TRUE]
RotateNodeCredential(n, c) ==
  /\ ~row[n].deleted
  /\ row' = [row EXCEPT ![n].prev = row[n].cred, ![n].cred = c, ![n].grace = TRUE]

RotateStored ==
  /\ call.at = "rotate"
  /\ RotateNodeCredential(call.node, issued + 1)
  /\ issued' = issued + 1
  /\ call' = [call EXCEPT !.at = "rotated", !.cred = issued + 1]
  /\ unsaved' = unsaved + 1
  /\ UNCHANGED <<token, agent, disk, crashes>>

RotateRefused ==
  /\ call.at = "rotate" /\ row[call.node].deleted
  /\ call' = NoCall
  /\ UNCHANGED <<token, row, agent, disk, issued, crashes, unsaved>>

(* The reply: disk first, then memory.                                     *)
SaveRotated_MemoryOnly ==
  /\ agent' = [agent EXCEPT !.cred = call.cred]
  /\ UNCHANGED disk
SaveRotated ==
  /\ agent' = [agent EXCEPT !.cred = call.cred]
  /\ disk' = [node |-> call.node, cred |-> call.cred]

Rotated ==
  /\ call.at = "rotated"
  /\ SaveRotated /\ unsaved' = 0
  /\ call' = NoCall
  /\ UNCHANGED <<token, row, issued, crashes>>

-----------------------------------------------------------------------------
(* Faults. *)

(* The agent's call fails or its reply is lost: enrolling, it ends with an *)
(* error; rotating, it tries again later with what it has.                 *)
CallFails ==
  /\ call # NoCall
  /\ call' = NoCall
  /\ UNCHANGED <<token, row, agent, disk, issued, crashes, unsaved>>

(* os.WriteFile empties the file before it fills it: a write that fails,   *)
(* or is cut off, leaves no saved credential.  Enrolling, the agent ends.  *)
WriteFails ==
  /\ call.at \in {"enrolled", "rotated"}
  /\ disk' = Nothing /\ call' = NoCall
  /\ UNCHANGED <<token, row, agent, issued, crashes, unsaved>>

(* The process ends, before or after the server did what it asked for.     *)
Crash ==
  /\ agent.up /\ crashes < MaxCrashes
  /\ agent' = [up |-> FALSE, node |-> None, cred |-> None]
  /\ call' = NoCall /\ crashes' = crashes + 1
  /\ UNCHANGED <<token, row, disk, issued, unsaved>>

Next ==
  \/ \E t \in Tokens : CreateToken(t) \/ CloseToken(t) \/ StartEnroll(t)
  \/ \E n \in NodeIds : DeleteNode(n) \/ GraceEnds(n)
  \/ StartSaved \/ Consume \/ StoreNode \/ Enrolled
  \/ RotateAsked \/ RotateStored \/ RotateRefused \/ Rotated
  \/ CallFails \/ WriteFails \/ Crash

Spec == Init /\ [][Next]_vars

-----------------------------------------------------------------------------
(* Properties. *)

(* An enrollment token "cannot be reused": however often agents that died  *)
(* or lost the reply try again, it brings one node into the registry.      *)
OneNodePerToken ==
  \A m, n \in NodeIds :
    m # n /\ row[m].token # None => row[m].token # row[n].token

(* Deletion revokes for good: a rotation that was authenticated before the *)
(* deletion does not give the deleted node's row a new credential.         *)
DeletedKeepsNoCredential ==
  \A n \in NodeIds : row[n].deleted => row[n].cred = Revoked /\ row[n].prev = None

(* A rotation whose reply is lost, or that is cut off by a crash, does not *)
(* lock the agent out: what it has is accepted during the grace period, in *)
(* which it asks again.  One lost reply is what the previous credential is *)
(* kept for; a second one in a row is too many.                            *)
OneLostReplyIsSurvived ==
  (/\ agent.up /\ unsaved <= 1 /\ ~row[agent.node].deleted
   /\ unsaved = 1 => row[agent.node].grace)
    => NodeByCredential(agent.node, agent.cred)

(* An agent that dies keeps its access: what the server accepts from its   *)
(* memory it also accepts from its disk, if that was written whole.        *)
AccessSurvivesRestart ==
  agent.up /\ disk # Nothing /\ NodeByCredential(agent.node, agent.cred)
    => NodeByCredential(disk.node, disk.cred)

(* Why they hold: the inductive invariant.                                 *)

(* A token is spent on one node id, and a row has the token of its id.     *)
TokensNameNodes ==
  /\ \A t \in Tokens : token[t].node # None =>
       /\ token[t].state = "used"
       /\ \A u \in Tokens \ {t} : token[u].node # token[t].node
  /\ \A n \in NodeIds :
       /\ row[n].token # None => row[n].exists /\ token[row[n].token].node = n
       /\ row[n].deleted => row[n].exists
       /\ row[n].exists /\ ~row[n].deleted => row[n].cred \in Credential

(* The server has this credential of a node: the current one, or after one *)
(* answer that was not saved the previous one.                             *)
Kept(n, c) ==
  /\ n \in NodeIds /\ c \in Credential /\ row[n].exists
  /\ ~row[n].deleted => /\ unsaved = 0 => c = row[n].cred
                        /\ unsaved = 1 => c = row[n].prev

CopiesAreKept ==
  /\ agent.up => /\ Kept(agent.node, agent.cred)
                 /\ disk \in {Nothing, [node |-> agent.node, cred |-> agent.cred]}
  /\ disk # Nothing => Kept(disk.node, disk.cred)

(* What the server has done for a call.                                    *)
CallIsServed ==
  /\ call.at \in {"enroll", "store", "enrolled"} => ~agent.up /\ call.token \in Tokens
  /\ call.at \in {"rotate", "rotated"} => agent.up /\ call.node = agent.node
  /\ call.at = "store" => /\ call.node \in NodeIds /\ ~row[call.node].exists
                          /\ token[call.token].node = call.node
  /\ call.at = "rotate" => issued < MaxIssued
  /\ call.at \in {"enrolled", "rotated"} =>
       /\ call.node \in NodeIds /\ call.cred \in Credential /\ row[call.node].exists
       /\ ~row[call.node].deleted => row[call.node].cred = call.cred

IInv == /\ TypeOK /\ TokensNameNodes /\ DeletedKeepsNoCredential
        /\ CopiesAreKept /\ CallIsServed /\ unsaved <= issued

=============================================================================
